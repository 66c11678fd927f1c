----------------------------- MODULE RequestQueue -----------------------------
(***************************************************************************)
(* The durable request queue of the GMLC: the location_requests and        *)
(* location_results tables (internal/storage/sqlite), the clients' Submit, *)
(* SubmitBatch and Cancel (internal/service), the single orchestrator      *)
(* worker (internal/orchestrator), the completion hook, the retention      *)
(* sweep and the start-up and shutdown sequence (cmd/gmlc).                *)
(*                                                                         *)
(* The database has one connection, so every statement or transaction is   *)
(* one step; whatever happens between two of them is interleaved.          *)
(*                                                                         *)
(* Rows are indexed by their UNIQUE (client_id, idempotency_key).  A row's *)
(* id is a fresh uuid: a handler that holds the id of a purged row holds   *)
(* an id that matches nothing, written None.                               *)
(*                                                                         *)
(* Time is counted in whole seconds, because the stored RFC3339Nano text   *)
(* sorts like time only between different seconds.  wait = 0: due (NULL,   *)
(* or an earlier second); wait = 1: due in the current second, where the   *)
(* text may sort either way; wait = n+1: due n seconds from now.           *)
(***************************************************************************)
EXTENDS Domain, Naturals

CONSTANTS
    Keys,         \* idempotency keys, one row each
    None,         \* no key
    Callbacks,    \* what a submission may leave to do: "done" (no callback),
                  \* "register", "attach" (a batch's later targets)
    MaxAttempts,  \* orchestrator.maxAttempts
    MaxRestarts,  \* bound: how often the process may crash or be stopped
    MaxFaults     \* bound: how many store writes of the worker may fail

ASSUME KeysAssumption == None \notin Keys
ASSUME BoundsAssumption ==
    /\ MaxAttempts \in Nat \ {0}
    /\ MaxRestarts \in Nat
    /\ MaxFaults \in Nat
    /\ Callbacks \subseteq {"done", "register", "attach"}
    /\ \A n \in 0..MaxAttempts : 2^n \in Nat

VARIABLES
    row,         \* the tables: one record per key
    older,       \* older[k]: rows created in an earlier second than row k
    fresh,       \* rows created in the current second
    proc,        \* the process: down, starting (hook not yet set), up, stopping
    w,           \* the worker's iteration (the locals of Worker.one)
    submitting,  \* submitting[k]: what Submit has still to do for row k
    cancelling,  \* rows cancelled in the store, worker not yet signalled
    restarts,    \* crashes and shutdowns so far
    faults       \* failed store writes so far

vars == <<row, older, fresh, proc, w, submitting, cancelling, restarts, faults>>

Codes == {"none", "temporarily_unavailable", "network_failure",
          "no_immediate_result", "shutdown_interrupted", "cancelled_by_client"}

NoRow == [state |-> "absent", attempts |-> 0, wait |-> 0, code |-> "none",
          result |-> "none", sub |-> FALSE, outbox |-> 0, history |-> FALSE]

Idle == [pc |-> "idle", key |-> None, attempts |-> 0, sub |-> FALSE,
         cancelled |-> FALSE, final |-> "none", code |-> "none"]

(* The SET clauses of the store's statements.  A claim does not reset      *)
(* next_attempt_at in the code, but nothing reads it before the next       *)
(* requeueing; completing a request leaves its failure code as it is.      *)
Created == [NoRow EXCEPT !.state = "queued"]
Subscribed(r) == [r EXCEPT !.sub = TRUE]
Cancelled(r) == [r EXCEPT !.state = "cancelled", !.code = "cancelled_by_client"]
Claimed(r) == [r EXCEPT !.state = "resolving", !.wait = 0, !.attempts = @ + 1]
Locating(r) == [r EXCEPT !.state = "locating"]
Requeued(r, delay, code) == [r EXCEPT !.state = "queued", !.wait = delay + 1, !.code = code]
Failed(r, code) == [r EXCEPT !.state = "failed", !.code = code]
Completed(r) == [r EXCEPT !.state = "completed", !.result = "stored"]
Recorded(r) == [r EXCEPT !.history = TRUE]
Pushed(r) == [r EXCEPT !.outbox = @ + 1]
Unresulted(r) == [r EXCEPT !.result = "purged"]

(* Mutant: Recover takes up what has failed as well *)
Recovered_Failed(r) ==
    IF r.state \in InFlight \cup {"failed"} THEN [r EXCEPT !.state = "queued", !.wait = 1] ELSE r

Recovered(r) ==
    IF r.state \in InFlight THEN [r EXCEPT !.state = "queued", !.wait = 1] ELSE r

Live(k) == row[k].state # "absent"

(* WHERE id = <the worker's id> AND state = from *)
RowIs(from) == w.key \in Keys /\ row[w.key].state = from

Init ==
    /\ row = [k \in Keys |-> NoRow]
    /\ older = [k \in Keys |-> {}]
    /\ fresh = {}
    /\ proc = "down"
    /\ w = Idle
    /\ submitting = [k \in Keys |-> "done"]
    /\ cancelling = {}
    /\ restarts = 0
    /\ faults = 0

-------------------------------------------------------------------------------
(* Clients *)

(* Handlers run from the start of the HTTP server on; those that outlive   *)
(* its shutdown timeout still run while the worker is being stopped.       *)
Serving == proc \in {"up", "stopping"}

(* Service.Submit up to CreateRequest, for a new key (a replay changes     *)
(* nothing).  left is what remains: nothing, the whole callback            *)
(* registration, or, for a later target of SubmitBatch, only attaching the *)
(* subscription shared by the batch.  The row is claimable at once.        *)
Submit(k, left) ==
    /\ Serving
    /\ row[k].state = "absent"
    /\ row' = [row EXCEPT ![k] = Created]
    /\ older' = [older EXCEPT ![k] = {j \in Keys : Live(j) /\ j \notin fresh}]
    /\ fresh' = fresh \cup {k}
    /\ submitting' = [submitting EXCEPT ![k] = left]
    /\ UNCHANGED <<proc, w, cancelling, restarts, faults>>

(* registerCallback: CreateSubscription *)
RegisterCallback(k) ==
    /\ Serving
    /\ submitting[k] = "register"
    /\ submitting' = [submitting EXCEPT ![k] = "attach"]
    /\ UNCHANGED <<row, older, fresh, proc, w, cancelling, restarts, faults>>

(* SetRequestSubscription, then the audit event and the wake-up *)
AttachCallback(k) ==
    /\ Serving
    /\ submitting[k] = "attach"
    /\ row' = [row EXCEPT ![k] = Subscribed(@)]
    /\ submitting' = [submitting EXCEPT ![k] = "done"]
    /\ UNCHANGED <<older, fresh, proc, w, cancelling, restarts, faults>>

(* The client went away or a statement failed: Submit returns the error. *)
SubmitAborts(k) ==
    /\ submitting[k] # "done"
    /\ submitting' = [submitting EXCEPT ![k] = "done"]
    /\ UNCHANGED <<row, older, fresh, proc, w, cancelling, restarts, faults>>

(* Mutant: TransitionRequest without the CanTransition check *)
Cancel_Unchecked(k) ==
    /\ Serving
    /\ Live(k)
    /\ row' = [row EXCEPT ![k] = Cancelled(@)]
    /\ cancelling' = cancelling \cup {k}
    /\ UNCHANGED <<older, fresh, proc, w, submitting, restarts, faults>>

(* Service.Cancel: TransitionRequest, refused by CanTransition ... *)
Cancel(k) ==
    /\ Serving
    /\ CanTransition(row[k].state, "cancelled")
    /\ row' = [row EXCEPT ![k] = Cancelled(@)]
    /\ cancelling' = cancelling \cup {k}
    /\ UNCHANGED <<older, fresh, proc, w, submitting, restarts, faults>>

(* Mutant: whatever the worker holds is interrupted *)
SignalCancel_AnyRow(k) ==
    /\ Serving
    /\ k \in cancelling
    /\ cancelling' = cancelling \ {k}
    /\ w' = IF w.pc \notin {"idle", "claimed"} THEN [w EXCEPT !.cancelled = TRUE] ELSE w
    /\ UNCHANGED <<row, older, fresh, proc, submitting, restarts, faults>>

(* ... then Worker.Cancel, which finds the row only in Worker.active *)
SignalCancel(k) ==
    /\ Serving
    /\ k \in cancelling
    /\ cancelling' = cancelling \ {k}
    /\ w' = IF w.key = k /\ w.pc # "claimed" THEN [w EXCEPT !.cancelled = TRUE] ELSE w
    /\ UNCHANGED <<row, older, fresh, proc, submitting, restarts, faults>>

-------------------------------------------------------------------------------
(* The worker: Worker.one *)

Claimable(k) == row[k].state = "queued" /\ row[k].wait <= 1
Overdue(k) == row[k].state = "queued" /\ row[k].wait = 0

(* Mutant: ORDER BY created_at DESC *)
Oldest_Newest(k) == \A j \in Keys : k \in older[j] => ~Overdue(j)

(* ORDER BY created_at, id: no row of an earlier second is due for sure *)
Oldest(k) == \A j \in older[k] : ~Overdue(j)

(* ClaimNextQueued: the oldest due row *)
Claim ==
    /\ proc \in {"starting", "up"}
    /\ w.pc = "idle"
    /\ \E k \in Keys :
        /\ Claimable(k)
        /\ Oldest(k)
        /\ row' = [row EXCEPT ![k] = Claimed(@)]
        /\ w' = [Idle EXCEPT !.pc = "claimed", !.key = k,
                             !.attempts = row[k].attempts + 1, !.sub = row[k].sub]
    /\ UNCHANGED <<older, fresh, proc, submitting, cancelling, restarts, faults>>

(* The entry in Worker.active, then the call to the resolver *)
Register ==
    /\ w.pc = "claimed"
    /\ w' = [w EXCEPT !.pc = "resolving"]
    /\ UNCHANGED <<row, older, fresh, proc, submitting, cancelling, restarts, faults>>

(* Store.Requeue with the error ignored: end of the iteration *)
Requeue(from, delay, code) ==
    /\ row' = IF RowIs(from)
              THEN [row EXCEPT ![w.key] = Requeued(@, delay, code)]
              ELSE row
    /\ w' = Idle

(* Mutant: the hook fires although the update matched no row *)
FailRequest_Unconfirmed(from, code) ==
    /\ row' = IF RowIs(from)
              THEN [row EXCEPT ![w.key] = Failed(@, code)]
              ELSE row
    /\ w' = [w EXCEPT !.pc = "notify", !.final = "failed", !.code = code]

(* Store.FailRequest, and notifyCompletion still to come if it applied *)
FailRequest(from, code) ==
    IF RowIs(from)
    THEN /\ row' = [row EXCEPT ![w.key] = Failed(@, code)]
         /\ w' = [w EXCEPT !.pc = "notify", !.final = "failed", !.code = code]
    ELSE /\ row' = row
         /\ w' = Idle

(* Mutant: attempts > maxAttempts *)
HandleError_OffByOne(from, e) ==
    \/ /\ e \in Transient
       /\ w.attempts > MaxAttempts
       /\ FailRequest(from, "temporarily_unavailable")
    \/ /\ e \in Transient
       /\ w.attempts <= MaxAttempts
       /\ Requeue(from, 2^(w.attempts - 1), "temporarily_unavailable")
    \/ /\ e \notin Transient
       /\ FailRequest(from, "network_failure")

(* Worker.handleError *)
HandleError(from, e) ==
    \/ /\ e \in Transient
       /\ w.attempts >= MaxAttempts
       /\ FailRequest(from, "temporarily_unavailable")
    \/ /\ e \in Transient
       /\ w.attempts < MaxAttempts
       /\ Requeue(from, 2^(w.attempts - 1), "temporarily_unavailable")
    \/ /\ e \notin Transient
       /\ FailRequest(from, "network_failure")

(* An error of a network call: interrupted if the context is done *)
CallFailed(from, e) ==
    IF w.cancelled THEN Requeue(from, 0, "shutdown_interrupted") ELSE HandleError(from, e)

(* An error of ResolveServingNode *)
ResolveFailed ==
    /\ w.pc = "resolving"
    /\ \E e \in ResolverErrors : CallFailed("resolving", e)
    /\ UNCHANGED <<older, fresh, proc, submitting, cancelling, restarts, faults>>

(* ResolveServingNode answers, then SaveServingNodeAndLocate *)
Resolved ==
    /\ w.pc = "resolving"
    /\ IF RowIs("resolving") /\ ~w.cancelled
       THEN /\ row' = [row EXCEPT ![w.key] = Locating(@)]
            /\ w' = [w EXCEPT !.pc = "locating"]
       ELSE /\ row' = row
            /\ w' = Idle
    /\ UNCHANGED <<older, fresh, proc, submitting, cancelling, restarts, faults>>

(* Mutant: the state the row was claimed in is taken for the present one *)
LocateFailed_StaleFrom ==
    /\ w.pc = "locating"
    /\ \E e \in ProviderErrors : CallFailed("resolving", e)
    /\ UNCHANGED <<older, fresh, proc, submitting, cancelling, restarts, faults>>

(* An error of ProvideLocation *)
LocateFailed ==
    /\ w.pc = "locating"
    /\ \E e \in ProviderErrors : CallFailed("locating", e)
    /\ UNCHANGED <<older, fresh, proc, submitting, cancelling, restarts, faults>>

(* A PLA with neither an estimate nor additional information *)
NoImmediateResult ==
    /\ w.pc = "locating"
    /\ FailRequest("locating", "no_immediate_result")
    /\ UNCHANGED <<older, fresh, proc, submitting, cancelling, restarts, faults>>

(* Mutant: the result is inserted without checking RowsAffected *)
Located_Unchecked(position) ==
    /\ w.pc = "locating"
    /\ w' = [w EXCEPT !.pc = IF position THEN "history" ELSE "notify", !.final = "completed"]
    /\ row' = IF w.key \in Keys
              THEN [row EXCEPT ![w.key] = IF RowIs("locating") THEN Completed(@)
                                          ELSE [@ EXCEPT !.result = "stored"]]
              ELSE row
    /\ UNCHANGED <<older, fresh, proc, submitting, cancelling, restarts, faults>>

(* CompleteRequest; a decoded position goes to the history next *)
Located(position) ==
    /\ w.pc = "locating"
    /\ IF RowIs("locating") /\ ~w.cancelled
       THEN /\ row' = [row EXCEPT ![w.key] = Completed(@)]
            /\ w' = [w EXCEPT !.pc = IF position THEN "history" ELSE "notify",
                              !.final = "completed"]
       ELSE /\ row' = row
            /\ w' = Idle
    /\ UNCHANGED <<older, fresh, proc, submitting, cancelling, restarts, faults>>

(* RecordHistory, best effort: the context may be done by now *)
RecordHistory ==
    /\ w.pc = "history"
    /\ row' = IF w.key \in Keys /\ ~w.cancelled
              THEN [row EXCEPT ![w.key] = Recorded(@)]
              ELSE row
    /\ w' = [w EXCEPT !.pc = "notify"]
    /\ UNCHANGED <<older, fresh, proc, submitting, cancelling, restarts, faults>>

(* notifyCompletion and the hook main installs: CreateDelivery if the      *)
(* worker's own copy of the row carries a subscription                     *)
NotifyCompletion ==
    /\ w.pc = "notify"
    /\ row' = IF w.key \in Keys /\ w.sub /\ proc # "starting"
              THEN [row EXCEPT ![w.key] = Pushed(@)]
              ELSE row
    /\ w' = Idle
    /\ UNCHANGED <<older, fresh, proc, submitting, cancelling, restarts, faults>>

(* A write fails.  Every error path leaves the row as it is and ends the   *)
(* iteration, except that a lost history point does not stop the hook.     *)
StoreFault ==
    /\ faults < MaxFaults
    /\ w.pc \in {"resolving", "locating", "history", "notify"}
    /\ w' = IF w.pc = "history" THEN [w EXCEPT !.pc = "notify"] ELSE Idle
    /\ faults' = faults + 1
    /\ UNCHANGED <<row, older, fresh, proc, submitting, cancelling, restarts>>

-------------------------------------------------------------------------------
(* The process *)

(* The rows created before a cutoff: the terminal ones among them go. *)
Expired(R) ==
    \A k \in R : /\ Terminal(row[k].state)
                 /\ \A j \in older[k] : Terminal(row[j].state) => j \in R

(* Store.Purge on the rows rows: requests R, and the results V of others. *)
(* Results have a cutoff of their own, which the model leaves open.        *)
PurgeRows(R, V, rows) ==
    /\ Expired(R)
    /\ row' = [k \in Keys |-> IF k \in R THEN NoRow
                              ELSE IF k \in V THEN Unresulted(rows[k])
                              ELSE rows[k]]
    /\ older' = [k \in Keys |-> IF k \in R THEN {} ELSE older[k] \ R]
    /\ fresh' = fresh \ R
    /\ submitting' = [k \in Keys |-> IF k \in R THEN "done" ELSE submitting[k]]
    /\ cancelling' = cancelling \ R

Results == {k \in Keys : row[k].result = "stored"}

(* runRetentionPurge *)
Purge ==
    /\ proc # "down"
    /\ \E R \in SUBSET Keys, V \in SUBSET Results :
        /\ R \cup V # {}
        /\ PurgeRows(R, V, row)
        /\ w' = IF w.key \in R THEN [w EXCEPT !.key = None] ELSE w
    /\ UNCHANGED <<proc, restarts, faults>>

(* main up to worker.Start: Recover, then the first purge *)
Started(p) ==
    /\ proc = "down"
    /\ proc' = p
    /\ \E R \in SUBSET Keys, V \in SUBSET Results : PurgeRows(R, V, [k \in Keys |-> Recovered(row[k])])
    /\ UNCHANGED <<w, restarts, faults>>

Boot == Started("starting")

(* main exits after that: a Diameter client cannot be built *)
StartFails == Started("down")

(* SetCompletionHook and the rest of main: clients are served *)
SetCompletionHook ==
    /\ proc = "starting"
    /\ proc' = "up"
    /\ UNCHANGED <<row, older, fresh, w, submitting, cancelling, restarts, faults>>

(* SIGTERM: Worker.Close cancels the worker's context *)
Shutdown ==
    /\ proc = "up"
    /\ restarts < MaxRestarts
    /\ restarts' = restarts + 1
    /\ proc' = "stopping"
    /\ w' = [w EXCEPT !.cancelled = (w.pc # "idle")]
    /\ UNCHANGED <<row, older, fresh, submitting, cancelling, faults>>

(* The process is gone and only the database is left. *)
Gone ==
    /\ proc' = "down"
    /\ w' = Idle
    /\ submitting' = [k \in Keys |-> "done"]
    /\ cancelling' = {}
    /\ UNCHANGED <<row, older, fresh, faults>>

(* main returns, with or without waiting for the worker *)
Exit == proc = "stopping" /\ Gone /\ UNCHANGED restarts

Crash ==
    /\ proc \in {"starting", "up"}
    /\ restarts < MaxRestarts
    /\ restarts' = restarts + 1
    /\ Gone

(* A new second makes a difference *)
Ticking == fresh # {} \/ \E k \in Keys : row[k].wait > 0

(* The next second begins. *)
Tick ==
    /\ Ticking
    /\ fresh' = {}
    /\ row' = [k \in Keys |-> [row[k] EXCEPT !.wait = IF row[k].wait > 0 THEN @ - 1 ELSE 0]]
    /\ UNCHANGED <<older, proc, w, submitting, cancelling, restarts, faults>>

-------------------------------------------------------------------------------
Client(k) ==
    \/ \E left \in Callbacks : Submit(k, left)
    \/ RegisterCallback(k)
    \/ AttachCallback(k)
    \/ SubmitAborts(k)
    \/ Cancel(k)
    \/ SignalCancel(k)

WorkerStep ==
    \/ Register
    \/ ResolveFailed
    \/ Resolved
    \/ LocateFailed
    \/ NoImmediateResult
    \/ \E position \in BOOLEAN : Located(position)
    \/ RecordHistory
    \/ NotifyCompletion

Process == Purge \/ Boot \/ StartFails \/ SetCompletionHook \/ Shutdown \/ Exit \/ Crash

Next ==
    \/ \E k \in Keys : Client(k)
    \/ Claim
    \/ WorkerStep
    \/ StoreFault
    \/ Process
    \/ Tick

Spec == Init /\ [][Next]_vars

(* The goroutines run, network calls end (they carry a timeout), the       *)
(* one-second ticker polls the queue, time passes, a stopped process is    *)
(* started again.  Clients, crashes, faults and the sweep owe nothing.     *)
FairSpec ==
    /\ Spec
    /\ WF_vars(Claim)
    /\ WF_vars(WorkerStep)
    /\ WF_vars(Boot)
    /\ WF_vars(SetCompletionHook)
    /\ WF_vars(Exit)
    /\ WF_vars(Tick)
    /\ \A k \in Keys : WF_vars(SignalCancel(k))

-------------------------------------------------------------------------------
(* Properties *)

Row == [state : States \cup {"absent"}, attempts : Nat, wait : Nat, code : Codes,
        result : {"none", "stored", "purged"}, sub : BOOLEAN, outbox : Nat,
        history : BOOLEAN]

Iteration ==
    [pc : {"idle", "claimed", "resolving", "locating", "history", "notify"},
     key : Keys \cup {None}, attempts : Nat, sub : BOOLEAN, cancelled : BOOLEAN,
     final : {"none", "completed", "failed"}, code : Codes]

(* The types of the tables, of the process and of the worker's locals. *)
TypeOK ==
    /\ row \in [Keys -> Row]
    /\ older \in [Keys -> SUBSET Keys]
    /\ fresh \in SUBSET Keys
    /\ proc \in {"down", "starting", "up", "stopping"}
    /\ w \in Iteration
    /\ submitting \in [Keys -> {"done", "register", "attach"}]
    /\ cancelling \in SUBSET Keys
    /\ restarts \in 0..MaxRestarts
    /\ faults \in 0..MaxFaults

(* The worker is at the stage of row k that the row's state says. *)
Holds(k) ==
    /\ w.key = k
    /\ row[k].state = "resolving" => w.pc \in {"claimed", "resolving"}
    /\ row[k].state = "locating" => w.pc = "locating"

(* While the process runs and no store write has failed, a row in          *)
(* resolving or locating is the one the worker is at that very stage of:   *)
(* no path through Worker.one, however cancelled or purged under, leaves a *)
(* row that only the next start's Recover would pick up.                   *)
NoStrandedRow ==
    proc \in {"starting", "up"} /\ faults = 0 =>
        \A k \in Keys : row[k].state \in InFlight => Holds(k)

(* A completed row has, or once had, its result and no other row has one;  *)
(* only completed rows contribute to the history: CompleteRequest is one   *)
(* transaction, guarded by the state the cancellation would have changed.  *)
ResultIffCompleted ==
    \A k \in Keys :
        /\ row[k].state = "completed" <=> row[k].result # "none"
        /\ row[k].history => row[k].state = "completed"

(* A request is tried at most maxAttempts times, plus once for every crash *)
(* or shutdown that cut a try short, and it fails as temporarily           *)
(* unavailable only after maxAttempts of them: attempt_count survives      *)
(* requeueing and recovery.                                                *)
RetryBudget ==
    \A k \in Keys :
        /\ row[k].attempts <= MaxAttempts + restarts
        /\ row[k].state = "failed" /\ row[k].code = "temporarily_unavailable"
            => row[k].attempts >= MaxAttempts

(* The completion hook enqueues at most one delivery per request, only for *)
(* a request with a callback, and never for a cancelled one or one that is *)
(* tried again.                                                            *)
PushedOnce ==
    \A k \in Keys :
        /\ row[k].outbox <= 1
        /\ row[k].outbox = 1 => row[k].sub /\ row[k].state \in {"completed", "failed"}

(* The state the completion hook is about to report is the state the row   *)
(* has, though the hook works on a copy and the store is not read again.   *)
HookReflectsState ==
    w.pc \in {"history", "notify"} /\ w.key # None => row[w.key].state = w.final

(* What the worker's locals say about the row it holds.  A row is never    *)
(* resubmitted under the worker; its attempt count is the one the worker   *)
(* compares with maxAttempts; a copy with a subscription is never ahead of *)
(* the row; outside a shutdown only a row already cancelled interrupts it. *)
WorkerInv ==
    /\ w.pc = "idle" => w = Idle
    /\ proc = "down" => w = Idle
    /\ w.pc \in {"claimed", "resolving", "locating"} => w.attempts >= 1
    /\ w.key # None =>
        /\ Live(w.key)
        /\ w.attempts = row[w.key].attempts
        /\ w.sub => row[w.key].sub
        /\ w.pc \in {"claimed", "resolving", "locating"} => row[w.key].outbox = 0
        /\ w.pc = "history" => w.final = "completed"
        /\ w.pc \in {"history", "notify"} =>
            /\ w.final \in {"completed", "failed"}
            /\ row[w.key].outbox = 0
        /\ w.cancelled /\ proc # "stopping" => row[w.key].state = "cancelled"
    /\ \A k \in cancelling : row[k].state = "cancelled"

(* The tries a row may still get: a waiting row has not used them up, and  *)
(* neither has any row once the process goes down, since the crash or the  *)
(* shutdown has just been counted.                                         *)
BudgetInv ==
    \A k \in Keys :
        row[k].state = "queued" \/ proc \in {"down", "stopping"} =>
            row[k].attempts < MaxAttempts + restarts

(* The inductive invariant behind the safety properties above. *)
Inv ==
    /\ TypeOK
    /\ NoStrandedRow
    /\ ResultIffCompleted
    /\ RetryBudget
    /\ PushedOnce
    /\ HookReflectsState
    /\ WorkerInv
    /\ BudgetInv

Life == [k \in Keys |-> [state |-> row[k].state, result |-> row[k].result,
                         outbox |-> row[k].outbox]]

L == INSTANCE RequestLifecycle WITH life <- Life

(* The hand-written UPDATE guards of the store and the worker, under every *)
(* interleaving, crash and purge, implement the lifecycle that             *)
(* domain.CanTransition declares.                                          *)
Lifecycle == L!Spec

(* Every accepted request reaches a terminal state: retries are bounded,   *)
(* recovery requeues what a crash cut off, and the oldest-first claim lets *)
(* no stream of other requests starve one.  Only a store write that fails  *)
(* may leave a request behind.                                             *)
RequestsFinishUnlessFault ==
    \A k \in Keys : row[k].state \in {"queued", "resolving", "locating"} ~>
                    row[k].state \in {"absent"} \cup TerminalStates \/ faults > 0

(* "a request that registered a callback at submit time gets its           *)
(* completion pushed" (cmd/gmlc/main.go): once the worker is done with a   *)
(* completed or failed request that has a subscription, its delivery is    *)
(* enqueued, unless the process went down or a write failed on the way.    *)
CallbackPushed ==
    restarts = 0 /\ faults = 0 =>
        \A k \in Keys :
            row[k].sub /\ row[k].state \in {"completed", "failed"} /\ w.key # k
                => row[k].outbox = 1
===============================================================================
