---------------------------- MODULE ServiceContract ----------------------------
(***************************************************************************)
(* What the process promises the client of a request and the endpoint the  *)
(* client named, whatever the workers, the network, the endpoint and the   *)
(* restarts do: a request has one outcome and keeps it; the endpoint is    *)
(* sent nothing before there is an outcome, nothing but that outcome,      *)
(* nothing after the matter is settled and nothing more often than the     *)
(* tries allow; and a delivery is called delivered only if it was sent.    *)
(***************************************************************************)
EXTENDS Domain, Naturals

CONSTANTS
    Keys,      \* the requests
    MaxSends   \* how often a report may reach the endpoint

VARIABLE deal  \* deal[k] = [outcome, report, sends, verdict] of request k

NoDeal == [outcome |-> "absent", report |-> "none", sends |-> 0, verdict |-> "open"]

Init == deal = [k \in Keys |-> NoDeal]

(* The request is accepted. *)
Accept(k) ==
    /\ deal[k].outcome = "absent"
    /\ deal'[k] = [deal[k] EXCEPT !.outcome = "pending"]

(* It ends, for good. *)
Finish(k) ==
    /\ deal[k].outcome = "pending"
    /\ \E outcome \in TerminalStates : deal'[k] = [deal[k] EXCEPT !.outcome = outcome]

(* The endpoint is to be told, which happens at most once and of the outcome *)
Report(k) ==
    /\ deal[k].outcome \in {"completed", "failed"}
    /\ deal[k].report = "none"
    /\ deal'[k] = [deal[k] EXCEPT !.report = deal[k].outcome]

(* The endpoint gets the report. *)
Send(k) ==
    /\ deal[k].report # "none"
    /\ deal[k].verdict = "open"
    /\ deal[k].sends < MaxSends
    /\ deal'[k] = [deal[k] EXCEPT !.sends = deal[k].sends + 1]

(* It took the report, or it is not tried any more. *)
Settle(k) ==
    /\ deal[k].report # "none"
    /\ deal[k].verdict = "open"
    /\ \E verdict \in {"delivered", "failed"} :
        /\ verdict = "delivered" => deal[k].sends > 0
        /\ deal'[k] = [deal[k] EXCEPT !.verdict = verdict]

(* One step of the process may concern several requests (Recover). *)
Next ==
    \A k \in Keys :
        \/ deal'[k] = deal[k]
        \/ Accept(k) \/ Finish(k) \/ Report(k) \/ Send(k) \/ Settle(k)

Spec == Init /\ [][Next]_deal

(* What the two sides see of a deal at any time: what is reported is the   *)
(* outcome, only a report is sent, as often as agreed, and what is called  *)
(* delivered was sent.                                                     *)
Honest ==
    \A k \in Keys :
        /\ deal[k].report # "none" =>
              deal[k].report = deal[k].outcome /\ deal[k].outcome \in {"completed", "failed"}
        /\ deal[k].sends > 0 \/ deal[k].verdict # "open" => deal[k].report # "none"
        /\ deal[k].sends <= MaxSends
        /\ deal[k].verdict = "delivered" => deal[k].sends > 0
===============================================================================
