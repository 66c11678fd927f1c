-------------------------- MODULE MCLocationReports --------------------------
(* Two reports for one subscription, one of them without a Session-Id, one *)
(* that names none and one that cannot be decoded                          *)
EXTENDS LocationReports, TLC

Report(id, ref, event, identified, form) ==
    [id |-> id, ref |-> ref, event |-> event, identified |-> identified, form |-> form]

MCReports ==
    {Report(1, "f", "molr", TRUE, "good"), Report(2, "f", "deferred", TRUE, "sessionless"),
     Report(3, "none", "emergency", TRUE, "good"), Report(4, "f", "molr", FALSE, "malformed")}

(* The first two may be repeated *)
MCMaxArrivals == [r \in MCReports |-> IF r.id \in {1, 2} THEN 2 ELSE 1]

Symmetry == Permutations(Connections)
=============================================================================
