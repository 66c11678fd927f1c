---------------------------- MODULE LocationReports ----------------------------
(***************************************************************************)
(* Inbound location reports (internal/lrr/lrr.go): an LRR is decoded,      *)
(* correlated with a pending deferred location subscription, stored,       *)
(* pushed to the operator's LCS client if its event asks for it, and only  *)
(* then answered.                                                          *)
(*                                                                         *)
(* Each connection has one handler at a time, and the handlers of several  *)
(* connections share the store.  A stop of the process closes the          *)
(* connections and then the store, and waits for no handler.  The MME is   *)
(* external: it repeats a report, over any connection, as long as it has   *)
(* no answer.                                                              *)
(***************************************************************************)
EXTENDS Naturals, FiniteSets

CONSTANTS
    Connections,
    Reports,      \* what arrives: [id, ref, event, identified, form]
    NoRef,        \* the ref of a report without LCS-Reference-Number
    None,         \* no report
    Destinations, \* the report types with a URL: within {"slrep", "emerep"}
    MaxArrivals,  \* bound: how often each report arrives
    MaxFaults,    \* bound: failing store calls
    MaxCrashes    \* bound: restarts, after a stop or a crash

ASSUME ReportsAssumption ==
    /\ IsFiniteSet(Connections)
    /\ Reports \subseteq [id : {r.id : r \in Reports}, ref : {r.ref : r \in Reports},
                          event : {"molr", "emergency", "deferred"}, identified : BOOLEAN,
                          form : {"good", "malformed", "sessionless"}]
    /\ None \notin Reports
    /\ Destinations \subseteq {"slrep", "emerep"}
    /\ MaxArrivals \in [Reports -> Nat] /\ {MaxFaults, MaxCrashes} \subseteq Nat

Refs == {r.ref : r \in Reports} \ {NoRef}

VARIABLES
    sub,      \* sub[f]: the deferred_location_subscriptions row of ref f
    stored,   \* stored[r]: how many rows of location_reports were made of r
    naming,   \* naming[f]: how many of the rows have the lcs_reference_number f
    handler,  \* handler[c]: the ServeDIAM that runs on connection c
    pushed,   \* pushed[r]: how often r was posted (history)
    arrived,  \* arrived[r]: how often r arrived (history)
    answer,   \* answer[r]: the last Result-Code the MME got
    open,     \* the connections a stop has not closed
    usable,   \* whether the store is open
    late,     \* the deadline of a stop was over before its connections were closed (history)
    faults,
    crashes

process == <<open, usable, late, crashes>>
vars == <<sub, stored, naming, handler, pushed, arrived, answer, process, faults>>

Idle == [pc |-> "idle", report |-> None, correlated |-> FALSE]

Init ==
    /\ sub = [f \in Refs |-> "absent"]
    /\ stored = [r \in Reports |-> 0]
    /\ naming = [f \in Refs |-> 0]
    /\ handler = [c \in Connections |-> Idle]
    /\ pushed = [r \in Reports |-> 0]
    /\ arrived = [r \in Reports |-> 0]
    /\ answer = [r \in Reports |-> "none"]
    /\ open = Connections
    /\ usable = TRUE
    /\ late = FALSE
    /\ faults = 0
    /\ crashes = 0

Goto(c, pc) == handler' = [handler EXCEPT ![c].pc = pc]

(* A call of the store succeeds, or fails: every one does once it is closed *)
Succeeds == usable /\ UNCHANGED faults

Fails == IF usable THEN faults < MaxFaults /\ faults' = faults + 1 ELSE UNCHANGED faults

-------------------------------------------------------------------------------
(* CreateDeferredLocationSubscription: lcs_reference_number is the primary *)
(* key, a row is never deleted                                             *)
CreateDeferredLocationSubscription(f) ==
    /\ usable
    /\ sub[f] = "absent"
    /\ sub' = [sub EXCEPT ![f] = "pending"]
    /\ UNCHANGED <<stored, naming, handler, pushed, arrived, answer, process, faults>>

(* ServeDIAM up to the first store call: DecodeLRR refuses a malformed     *)
(* report                                                                  *)
ServeDIAM(c, r) ==
    /\ c \in open
    /\ handler[c].pc = "idle"
    /\ answer[r] = "none"
    /\ arrived[r] < MaxArrivals[r]
    /\ arrived' = [arrived EXCEPT ![r] = @ + 1]
    /\ handler' = [handler EXCEPT ![c] =
                     [pc |-> IF r.form = "malformed" THEN "answer"
                             ELSE IF r.ref = NoRef THEN "create" ELSE "find",
                      report |-> r, correlated |-> FALSE]]
    /\ UNCHANGED <<sub, stored, naming, pushed, answer, process, faults>>

FindPending(f) == sub[f] = "pending"

(* FindPendingDeferredLocationSubscription; an error is like ErrNotFound *)
Find(c) ==
    /\ handler[c].pc = "find"
    /\ \/ /\ handler' = [handler EXCEPT ![c].pc = IF FindPending(handler[c].report.ref)
                                                  THEN "mark" ELSE "create",
                                        ![c].correlated = FindPending(handler[c].report.ref)]
          /\ Succeeds
       \/ Goto(c, "create") /\ Fails
    /\ UNCHANGED <<sub, stored, naming, pushed, arrived, answer, process>>

(* Mutant: the subscription stays pending *)
Mark_Forgotten(c) ==
    /\ handler[c].pc = "mark"
    /\ Goto(c, "create")
    /\ UNCHANGED <<sub, stored, naming, pushed, arrived, answer, process, faults>>

(* MarkDeferredLocationSubscriptionReported: a conflict or an error is     *)
(* logged, the report stays correlated                                     *)
Mark(c) ==
    LET f == handler[c].report.ref
    IN /\ handler[c].pc = "mark"
       /\ Goto(c, "create")
       /\ \/ /\ sub' = [sub EXCEPT ![f] = IF @ = "pending" THEN "reported" ELSE @]
             /\ Succeeds
          \/ Fails /\ UNCHANGED sub
       /\ UNCHANGED <<stored, naming, pushed, arrived, answer, process>>

(* CreateLocationReport: an error is logged *)
Create(c) ==
    LET r == handler[c].report
    IN /\ handler[c].pc = "create"
       /\ Goto(c, "push")
       /\ \/ /\ stored' = [stored EXCEPT ![r] = @ + 1]
             /\ naming' = IF handler[c].correlated THEN [naming EXCEPT ![r.ref] = @ + 1] ELSE naming
             /\ Succeeds
          \/ Fails /\ UNCHANGED <<stored, naming>>
       /\ UNCHANGED <<sub, pushed, arrived, answer, process>>

(* push: which report, if any, goes out for an event *)
Pushable(r) ==
    /\ r.identified
    /\ \/ r.event = "molr" /\ "slrep" \in Destinations
       \/ r.event = "emergency" /\ "emerep" \in Destinations

(* PushStandardReport, PushEmergencyReport: one post, answered, refused or *)
(* timed out, and never repeated                                           *)
Push(c) ==
    LET r == handler[c].report
    IN /\ handler[c].pc = "push"
       /\ Goto(c, "answer")
       /\ pushed' = IF Pushable(r) THEN [pushed EXCEPT ![r] = @ + 1] ELSE pushed
       /\ UNCHANGED <<sub, stored, naming, arrived, answer, process, faults>>

Result(r) == IF r.form = "malformed" THEN "unable_to_comply" ELSE "success"

(* BuildLRA and the write: no answer without a Session-Id or a connection *)
Answer(c) ==
    LET r == handler[c].report
    IN /\ handler[c].pc = "answer"
       /\ handler' = [handler EXCEPT ![c] = Idle]
       /\ \/ /\ c \in open
             /\ answer' = [answer EXCEPT ![r] = IF r.form = "sessionless" THEN @ ELSE Result(r)]
          \/ UNCHANGED answer
       /\ UNCHANGED <<sub, stored, naming, pushed, arrived, process, faults>>

(* The process stops, however far it has come, or dies, and with it every  *)
(* handler; the database stays                                             *)
Restart ==
    /\ crashes < MaxCrashes
    /\ crashes' = crashes + 1
    /\ handler' = [c \in Connections |-> Idle]
    /\ open' = Connections /\ usable' = TRUE
    /\ UNCHANGED <<sub, stored, naming, pushed, arrived, answer, late, faults>>

-------------------------------------------------------------------------------
(* The stop of main *)

(* registry.Close: the manager of a peer closes its connection and does    *)
(* not connect again                                                       *)
CloseConnection(c) ==
    /\ crashes < MaxCrashes
    /\ c \in open
    /\ open' = open \ {c}
    /\ UNCHANGED <<sub, stored, naming, handler, pushed, arrived, answer, usable, late, faults, crashes>>

(* Mutant: main closes the store before the registry *)
CloseStore_First ==
    /\ crashes < MaxCrashes
    /\ usable
    /\ usable' = FALSE
    /\ UNCHANGED <<sub, stored, naming, handler, pushed, arrived, answer, open, late, faults, crashes>>

(* st.Close, when registry.Close has returned: every manager is done, or   *)
(* the deadline is over                                                    *)
CloseStore ==
    /\ crashes < MaxCrashes
    /\ usable
    /\ usable' = FALSE
    /\ late' = (late \/ open # {})
    /\ UNCHANGED <<sub, stored, naming, handler, pushed, arrived, answer, open, faults, crashes>>

-------------------------------------------------------------------------------
Handle(c) == Find(c) \/ Mark(c) \/ Create(c) \/ Push(c) \/ Answer(c)

Next ==
    \/ \E f \in Refs : CreateDeferredLocationSubscription(f)
    \/ \E c \in Connections : \/ Handle(c) \/ CloseConnection(c)
                             \/ \E r \in Reports : ServeDIAM(c, r)
    \/ CloseStore
    \/ Restart

Spec == Init /\ [][Next]_vars

-------------------------------------------------------------------------------
(* Properties *)

(* ServeDIAM answers last: a report the MME was told is received is in the *)
(* database and was pushed if its event asks for it, whatever crashed and  *)
(* was repeated before, unless the store failed; what could not be decoded *)
(* is never acknowledged.  That also holds for the handlers a stop of the  *)
(* process overtakes: main closes their connections before the store, so   *)
(* that they cannot acknowledge what they could not store, unless the      *)
(* deadline of the stop was over first.  An event is pushed no more often  *)
(* than it arrived, and only if it arrived more than once is it kept       *)
(* twice.                                                                  *)
AckedIsKept ==
    \A r \in Reports :
        /\ answer[r] = "success" /\ faults = 0 /\ ~late =>
              /\ r.form = "good"
              /\ stored[r] >= 1
              /\ Pushable(r) => pushed[r] >= 1
        /\ pushed[r] <= arrived[r] /\ stored[r] <= arrived[r]

(* A subscription is marked before its report is stored, so a stored       *)
(* report that names it finds it reported; only reports under way on other *)
(* connections when that happened correlate as well, one for each.         *)
CorrelationConsumed ==
    faults = 0 => \A f \in Refs :
        /\ naming[f] > 0 => sub[f] = "reported"
        /\ naming[f] <= Cardinality(Connections)
===============================================================================
