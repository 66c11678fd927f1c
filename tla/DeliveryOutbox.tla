---------------------------- MODULE DeliveryOutbox ----------------------------
(***************************************************************************)
(* The callback outbox: the deliveries table (internal/storage/sqlite) and *)
(* the single delivery worker (internal/delivery) that posts each payload  *)
(* to the client's endpoint and retries with exponential backoff.          *)
(*                                                                         *)
(* The endpoint is external: a payload may reach it although the call      *)
(* fails (a lost answer, a timeout), or the call may fail before.          *)
(* Time and the order of rows are those of RequestQueue: wait = n+1 means  *)
(* due n seconds from now, and rows of one second sort either way.         *)
(***************************************************************************)
EXTENDS Naturals

CONSTANTS
    Deliveries,   \* the rows that may be created
    None,         \* no row
    Broken,       \* rows whose subscription cannot be used: it is missing, its
                  \* secret does not decrypt or its URL does not parse
    Answers,      \* how a call may end: "2xx", "other" (another status), "error"
    MaxAttempts,  \* Config.MaxAttempts
    BackoffMin,   \* Config.RetryBackoffMin, in seconds
    BackoffMax,   \* Config.RetryBackoffMax, in seconds
    MaxRestarts,  \* bound: how often the process may crash or be stopped
    MaxFaults     \* bound: how many store calls of the worker may fail

ASSUME NamesAssumption == None \notin Deliveries /\ Broken \subseteq Deliveries
ASSUME LimitsAssumption ==
    /\ {MaxAttempts, BackoffMin} \subseteq Nat \ {0}
    /\ {BackoffMax, MaxRestarts, MaxFaults} \subseteq Nat
    /\ \A n \in 0..MaxAttempts : 2^n \in Nat
    /\ Answers \subseteq {"2xx", "other", "error"}

VARIABLES
    outbox,    \* the deliveries table
    older,     \* older[i]: rows created in an earlier second than row i
    fresh,     \* rows created in the current second
    proc,      \* the process: down, up, stopping
    w,         \* the worker's iteration (the locals of Worker.one)
    received,  \* received[i]: how often the endpoint got the payload of row i
    restarts,  \* crashes and shutdowns so far
    faults     \* failed store calls so far

vars == <<outbox, older, fresh, proc, w, received, restarts, faults>>

NoDelivery == [state |-> "absent", attempts |-> 0, wait |-> 0]
Idle == [pc |-> "idle", id |-> None, attempts |-> 0, cancelled |-> FALSE]

(* The SET clauses of the store's statements *)
Claimed(r) == [r EXCEPT !.state = "in_flight", !.attempts = @ + 1, !.wait = 0]
Requeued(r, delay) == [r EXCEPT !.state = "pending", !.wait = delay + 1]
Failed(r) == [r EXCEPT !.state = "failed"]
Delivered(r) == [r EXCEPT !.state = "delivered"]

Init ==
    /\ outbox = [i \in Deliveries |-> NoDelivery]
    /\ older = [i \in Deliveries |-> {}]
    /\ fresh = {}
    /\ proc = "down"
    /\ w = Idle
    /\ received = [i \in Deliveries |-> 0]
    /\ restarts = 0
    /\ faults = 0

(* CreateDelivery, called by the orchestrator's completion hook whether or *)
(* not this worker runs: it is started later, stopped later, and not at    *)
(* all if delivery is disabled                                             *)
CreateDelivery(i) ==
    /\ outbox[i].state = "absent"
    /\ outbox' = [outbox EXCEPT ![i].state = "pending"]
    /\ older' = [older EXCEPT ![i] = {j \in Deliveries : outbox[j].state # "absent" /\ j \notin fresh}]
    /\ fresh' = fresh \cup {i}
    /\ UNCHANGED <<proc, w, received, restarts, faults>>

-------------------------------------------------------------------------------
(* The worker: Worker.one *)

(* Mutant: WHERE state <> delivered *)
Claimable_NotDelivered(i) ==
    outbox[i].state \notin {"absent", "delivered"} /\ outbox[i].wait <= 1

(* WHERE state = pending AND next_attempt_at <= now, within this second *)
Claimable(i) == outbox[i].state = "pending" /\ outbox[i].wait <= 1

(* ORDER BY created_at, id *)
Oldest(i) == \A j \in older[i] : ~(outbox[j].state = "pending" /\ outbox[j].wait = 0)

(* ClaimNextDelivery: the oldest due row *)
ClaimNextDelivery ==
    /\ proc = "up"
    /\ w.pc = "idle"
    /\ \E i \in Deliveries :
        /\ Claimable(i)
        /\ Oldest(i)
        /\ outbox' = [outbox EXCEPT ![i] = Claimed(@)]
        /\ w' = [Idle EXCEPT !.pc = "claimed", !.id = i, !.attempts = outbox[i].attempts + 1]
    /\ UNCHANGED <<older, fresh, proc, received, restarts, faults>>

(* Store.RequeueDelivery, FailDelivery and MarkDelivered: one conditional   *)
(* update, its error ignored, at the end of the iteration                  *)
Update(r) ==
    /\ outbox' = [outbox EXCEPT ![w.id] = IF @.state = "in_flight" THEN r ELSE @]
    /\ w' = Idle

RequeueDelivery(delay) == Update(Requeued(outbox[w.id], delay))
FailDelivery == Update(Failed(outbox[w.id]))
MarkDelivered == Update(Delivered(outbox[w.id]))

(* delivery.backoff.  Seconds are far from the range of a Duration, so its  *)
(* overflow guard has nothing to do here.                                  *)
Backoff(attempts) ==
    LET d == BackoffMin * 2^(attempts - 1)
    IN IF attempts - 1 > 32 \/ d > BackoffMax THEN BackoffMax ELSE d

(* Mutant: attempts > MaxAttempts *)
RetryOrFail_OffByOne ==
    \/ w.attempts > MaxAttempts /\ FailDelivery
    \/ w.attempts <= MaxAttempts /\ RequeueDelivery(Backoff(w.attempts))

(* Mutant: an exhausted delivery is left in flight *)
RetryOrFail_Forgets ==
    \/ w.attempts >= MaxAttempts /\ w' = Idle /\ UNCHANGED outbox
    \/ w.attempts < MaxAttempts /\ RequeueDelivery(Backoff(w.attempts))

(* Worker.retryOrFail *)
RetryOrFail ==
    \/ w.attempts >= MaxAttempts /\ FailDelivery
    \/ w.attempts < MaxAttempts /\ RequeueDelivery(Backoff(w.attempts))

(* GetSubscription (under the worker's context), DecryptSecret and the     *)
(* construction of the request; an error of any of them fails the delivery *)
Prepare ==
    /\ w.pc = "claimed"
    /\ IF w.cancelled \/ w.id \in Broken
       THEN FailDelivery
       ELSE w' = [w EXCEPT !.pc = "posting"] /\ UNCHANGED outbox
    /\ UNCHANGED <<older, fresh, proc, received, restarts, faults>>

(* The store fails to answer GetSubscription. *)
LookupFault ==
    /\ w.pc = "claimed"
    /\ faults < MaxFaults
    /\ faults' = faults + 1
    /\ FailDelivery
    /\ UNCHANGED <<older, fresh, proc, received, restarts>>

(* client.Do: the payload reaches the endpoint. *)
Arrive ==
    /\ w.pc = "posting"
    /\ received' = [received EXCEPT ![w.id] = @ + 1]
    /\ w' = [w EXCEPT !.pc = "posted"]
    /\ UNCHANGED <<outbox, older, fresh, proc, restarts, faults>>

(* client.Do returns a response. *)
Answered(answer) ==
    /\ w.pc = "posted"
    /\ answer \in Answers
    /\ \/ answer = "2xx" /\ MarkDelivered
       \/ answer = "other" /\ RetryOrFail
    /\ UNCHANGED <<older, fresh, proc, received, restarts, faults>>

(* client.Do returns an error, before or after the payload arrived: the    *)
(* connection failed, Config.RequestTimeout passed or the worker was       *)
(* stopped.                                                                *)
CallFailed ==
    /\ w.pc \in {"posting", "posted"}
    /\ \/ w.cancelled /\ RequeueDelivery(0)
       \/ ~w.cancelled /\ "error" \in Answers /\ RetryOrFail
    /\ UNCHANGED <<older, fresh, proc, received, restarts, faults>>

(* The write that ends the iteration fails; the error is ignored. *)
WriteFault ==
    /\ w.pc # "idle"
    /\ faults < MaxFaults
    /\ faults' = faults + 1
    /\ w' = Idle
    /\ UNCHANGED <<outbox, older, fresh, proc, received, restarts>>

-------------------------------------------------------------------------------
(* The process *)

(* main: Recover requeues location requests only; the outbox is as it was. *)
Boot ==
    /\ proc = "down"
    /\ proc' = "up"
    /\ UNCHANGED <<outbox, older, fresh, w, received, restarts, faults>>

(* SIGTERM: Worker.Close cancels the worker's context *)
Shutdown ==
    /\ proc = "up"
    /\ restarts < MaxRestarts
    /\ restarts' = restarts + 1
    /\ proc' = "stopping"
    /\ w' = [w EXCEPT !.cancelled = (w.pc # "idle")]
    /\ UNCHANGED <<outbox, older, fresh, received, faults>>

(* main returns, with or without waiting for the worker *)
Exit ==
    /\ proc = "stopping"
    /\ proc' = "down"
    /\ w' = Idle
    /\ UNCHANGED <<outbox, older, fresh, received, restarts, faults>>

Crash ==
    /\ proc = "up"
    /\ restarts < MaxRestarts
    /\ restarts' = restarts + 1
    /\ proc' = "down"
    /\ w' = Idle
    /\ UNCHANGED <<outbox, older, fresh, received, faults>>

(* A new second makes a difference *)
Ticking == fresh # {} \/ \E i \in Deliveries : outbox[i].wait > 0

(* The next second begins. *)
Tick ==
    /\ Ticking
    /\ fresh' = {}
    /\ outbox' = [i \in Deliveries |->
                    [outbox[i] EXCEPT !.wait = IF outbox[i].wait > 0 THEN @ - 1 ELSE 0]]
    /\ UNCHANGED <<older, proc, w, received, restarts, faults>>

-------------------------------------------------------------------------------
WorkerStep ==
    \/ Prepare
    \/ Arrive
    \/ \E answer \in Answers : Answered(answer)
    \/ CallFailed

Next ==
    \/ \E i \in Deliveries : CreateDelivery(i)
    \/ ClaimNextDelivery
    \/ WorkerStep
    \/ LookupFault
    \/ WriteFault
    \/ Boot \/ Shutdown \/ Exit \/ Crash
    \/ Tick

Spec == Init /\ [][Next]_vars

(* The worker's goroutine runs, calls end (Config.RequestTimeout), the     *)
(* one-second ticker polls the table and a stopped process is restarted.   *)
FairSpec ==
    /\ Spec
    /\ WF_vars(ClaimNextDelivery)
    /\ WF_vars(WorkerStep)
    /\ WF_vars(Boot)
    /\ WF_vars(Exit)
    /\ WF_vars(Tick)

-------------------------------------------------------------------------------
(* Properties *)

(* The endpoint never gets a payload more often than the row was claimed,  *)
(* a row is claimed at most Config.MaxAttempts times plus once per         *)
(* shutdown that interrupted it, and a row marked delivered did arrive.    *)
SendBudget ==
    \A i \in Deliveries :
        /\ received[i] <= outbox[i].attempts
        /\ outbox[i].attempts <= MaxAttempts + restarts
        /\ outbox[i].state = "delivered" => received[i] >= 1

Undisturbed == restarts = 0 /\ faults = 0

(* As long as the process has not been restarted and the store works, a    *)
(* row in flight is the one the worker holds, and a usable row fails only  *)
(* after Config.MaxAttempts tries.                                         *)
OutcomeEarned ==
    Undisturbed =>
        \A i \in Deliveries :
            /\ outbox[i].state = "in_flight" => w.id = i
            /\ outbox[i].state = "failed" /\ i \notin Broken => outbox[i].attempts = MaxAttempts

Settled(i) == outbox[i].state \in {"delivered", "failed"}

(* A settled delivery (MarkDelivered, FailDelivery) is never touched nor   *)
(* sent again: no late answer, requeueing or restart revives one.          *)
SettledForGood ==
    [][\A i \in Deliveries : Settled(i) => outbox'[i].state = outbox[i].state
                                           /\ received'[i] = received[i]]_vars

(* Every delivery is settled in the end, unless a restart or a failed      *)
(* store call intervenes.                                                  *)
DeliveriesSettle ==
    \A i \in Deliveries :
        outbox[i].state = "pending" ~> Settled(i) \/ ~Undisturbed

(* "mirrors ClaimNextQueued's claim-with-lease shape"                      *)
(* (internal/storage/storage.go): a claim that a crash cut off lapses, so  *)
(* every delivery is settled in the end as long as the store works.        *)
ClaimsLapse ==
    \A i \in Deliveries :
        outbox[i].state \in {"pending", "in_flight"} ~> Settled(i) \/ faults > 0
===============================================================================
