-------------------------- MODULE RequestQueueProofs --------------------------
(***************************************************************************)
(* Proofs about RequestQueue, for every set of keys and every bound: Inv   *)
(* is inductive, the safety properties follow from it, and the queue       *)
(* implements RequestLifecycle.                                            *)
(***************************************************************************)
EXTENDS RequestQueue, TLAPS

-------------------------------------------------------------------------------
(* What the store's statements do to one row *)

(* The columns that most statements leave alone *)
SameData(q, r) ==
    /\ q.attempts = r.attempts
    /\ q.result = r.result
    /\ q.sub = r.sub
    /\ q.outbox = r.outbox
    /\ q.history = r.history

(* A created row is queued and has nothing. *)
LEMMA CreatedRow ==
    /\ Created \in Row
    /\ Created.state = "queued"
    /\ Created.code = "none"
    /\ SameData(Created, NoRow)
BY Zenon DEF Created, NoRow, SameData, Row, States, TerminalStates, Codes

(* An absent row is one of the type. *)
LEMMA AbsentRow ==
    /\ NoRow \in Row
    /\ NoRow.state = "absent"
    /\ NoRow.code = "none"
    /\ NoRow.attempts = 0
    /\ NoRow.result = "none"
    /\ NoRow.sub = FALSE
    /\ NoRow.outbox = 0
    /\ NoRow.history = FALSE
BY DEF NoRow, Row, States, TerminalStates, Codes

(* SetRequestSubscription *)
LEMMA SubscribedRow ==
  ASSUME NEW r \in Row
  PROVE  /\ Subscribed(r) \in Row
         /\ Subscribed(r).state = r.state
         /\ Subscribed(r).code = r.code
         /\ Subscribed(r).attempts = r.attempts
         /\ Subscribed(r).result = r.result
         /\ Subscribed(r).sub = TRUE
         /\ Subscribed(r).outbox = r.outbox
         /\ Subscribed(r).history = r.history
BY Zenon DEF Subscribed, Row

(* TransitionRequest to cancelled *)
LEMMA CancelledRow ==
  ASSUME NEW r \in Row
  PROVE  /\ Cancelled(r) \in Row
         /\ Cancelled(r).state = "cancelled"
         /\ Cancelled(r).code = "cancelled_by_client"
         /\ SameData(Cancelled(r), r)
BY Zenon DEF Cancelled, SameData, Row, States, TerminalStates, Codes

(* ClaimNextQueued counts the attempt. *)
LEMMA ClaimedRow ==
  ASSUME NEW r \in Row
  PROVE  /\ Claimed(r) \in Row
         /\ Claimed(r).state = "resolving"
         /\ Claimed(r).code = r.code
         /\ Claimed(r).attempts = r.attempts + 1
         /\ Claimed(r).result = r.result
         /\ Claimed(r).sub = r.sub
         /\ Claimed(r).outbox = r.outbox
         /\ Claimed(r).history = r.history
<1> DEFINE q == [r EXCEPT !.state = "resolving", !.wait = 0]
<1>1. /\ q \in Row
      /\ q.state = "resolving"
      /\ q.code = r.code
      /\ SameData(q, r)
  BY Zenon DEF SameData, Row, States, TerminalStates
<1>2. Claimed(r) = [q EXCEPT !.attempts = r.attempts + 1]
  BY DEF Claimed, Row
<1> HIDE DEF q
<1> QED
  BY <1>1, <1>2 DEF SameData, Row

(* SaveServingNodeAndLocate *)
LEMMA LocatingRow ==
  ASSUME NEW r \in Row
  PROVE  /\ Locating(r) \in Row
         /\ Locating(r).state = "locating"
         /\ Locating(r).code = r.code
         /\ SameData(Locating(r), r)
BY DEF Locating, SameData, Row, States, TerminalStates

(* Requeue *)
LEMMA RequeuedRow ==
  ASSUME NEW r \in Row, NEW delay \in Nat, NEW code \in Codes
  PROVE  /\ Requeued(r, delay, code) \in Row
         /\ Requeued(r, delay, code).state = "queued"
         /\ Requeued(r, delay, code).code = code
         /\ SameData(Requeued(r, delay, code), r)
<1> PICK n \in Nat : n = delay + 1
  OBVIOUS
<1> DEFINE q == [r EXCEPT !.state = "queued", !.wait = n]
<1>1. /\ q \in Row
      /\ q.state = "queued"
      /\ SameData(q, r)
  BY Zenon DEF SameData, Row, States, TerminalStates
<1>2. Requeued(r, delay, code) = [q EXCEPT !.code = code]
  BY DEF Requeued
<1> HIDE DEF q
<1> QED
  BY <1>1, <1>2 DEF SameData, Row

(* FailRequest *)
LEMMA FailedRow ==
  ASSUME NEW r \in Row, NEW code \in Codes
  PROVE  /\ Failed(r, code) \in Row
         /\ Failed(r, code).state = "failed"
         /\ Failed(r, code).code = code
         /\ SameData(Failed(r, code), r)
BY Zenon DEF Failed, SameData, Row, States, TerminalStates

(* CompleteRequest writes the state and the result together. *)
LEMMA CompletedRow ==
  ASSUME NEW r \in Row
  PROVE  /\ Completed(r) \in Row
         /\ Completed(r).state = "completed"
         /\ Completed(r).code = r.code
         /\ Completed(r).attempts = r.attempts
         /\ Completed(r).result = "stored"
         /\ Completed(r).sub = r.sub
         /\ Completed(r).outbox = r.outbox
         /\ Completed(r).history = r.history
BY Zenon DEF Completed, Row, States, TerminalStates

(* RecordHistory *)
LEMMA RecordedRow ==
  ASSUME NEW r \in Row
  PROVE  /\ Recorded(r) \in Row
         /\ Recorded(r).state = r.state
         /\ Recorded(r).code = r.code
         /\ Recorded(r).attempts = r.attempts
         /\ Recorded(r).result = r.result
         /\ Recorded(r).sub = r.sub
         /\ Recorded(r).outbox = r.outbox
         /\ Recorded(r).history = TRUE
BY Zenon DEF Recorded, Row

(* CreateDelivery *)
LEMMA PushedRow ==
  ASSUME NEW r \in Row
  PROVE  /\ Pushed(r) \in Row
         /\ Pushed(r).state = r.state
         /\ Pushed(r).code = r.code
         /\ Pushed(r).attempts = r.attempts
         /\ Pushed(r).result = r.result
         /\ Pushed(r).sub = r.sub
         /\ Pushed(r).outbox = r.outbox + 1
         /\ Pushed(r).history = r.history
BY DEF Pushed, Row

(* Purge of a result *)
LEMMA UnresultedRow ==
  ASSUME NEW r \in Row
  PROVE  /\ Unresulted(r) \in Row
         /\ Unresulted(r).state = r.state
         /\ Unresulted(r).code = r.code
         /\ Unresulted(r).attempts = r.attempts
         /\ Unresulted(r).result = "purged"
         /\ Unresulted(r).sub = r.sub
         /\ Unresulted(r).outbox = r.outbox
         /\ Unresulted(r).history = r.history
BY DEF Unresulted, Row

(* Recover requeues what was in flight and touches nothing else. *)
LEMMA RecoveredRow ==
  ASSUME NEW r \in Row
  PROVE  /\ Recovered(r) \in Row
         /\ Recovered(r).state = IF r.state \in InFlight THEN "queued" ELSE r.state
         /\ Recovered(r).code = r.code
         /\ SameData(Recovered(r), r)
<1>1. CASE r.state \in InFlight
  BY <1>1, Zenon DEF Recovered, SameData, Row, States, TerminalStates
<1>2. CASE r.state \notin InFlight
  BY <1>2 DEF Recovered, SameData
<1> QED
  BY <1>1, <1>2

-------------------------------------------------------------------------------
(* Every action keeps Inv and takes every row along its lifecycle *)

(* The abstract step of RequestLifecycle that row k takes *)
RowStep(k) ==
    \/ /\ row'[k].state = row[k].state
       /\ row'[k].result = row[k].result
       /\ row'[k].outbox = row[k].outbox
    \/ /\ row[k].state = "absent"
       /\ row'[k].state = "queued" /\ row'[k].result = "none" /\ row'[k].outbox = 0
    \/ /\ CanTransition(row[k].state, row'[k].state)
       /\ row'[k].result = IF row'[k].state = "completed" THEN "stored" ELSE row[k].result
       /\ row'[k].outbox = row[k].outbox
    \/ /\ row[k].state \in {"completed", "failed"} /\ row[k].outbox = 0
       /\ row'[k].state = row[k].state
       /\ row'[k].result = row[k].result
       /\ row'[k].outbox = 1
    \/ /\ row[k].result = "stored"
       /\ row'[k].state = row[k].state
       /\ row'[k].result = "purged"
       /\ row'[k].outbox = row[k].outbox
    \/ /\ Terminal(row[k].state)
       /\ row'[k].state = "absent" /\ row'[k].result = "none" /\ row'[k].outbox = 0

RowSteps == \A k \in Keys : RowStep(k)

(* Steps that touch neither a row's outcome nor the worker keep Inv. *)
LEMMA QuietInv ==
  ASSUME Inv, TypeOK', w' = w, proc' = proc, restarts' = restarts, faults' = faults,
         cancelling' = cancelling,
         \A k \in Keys : /\ row'[k].state = row[k].state
                         /\ row'[k].code = row[k].code
                         /\ SameData(row'[k], row[k])
  PROVE  Inv' /\ RowSteps
<1> USE KeysAssumption DEF Inv, SameData
<1>1. NoStrandedRow'
  BY DEF NoStrandedRow, Holds
<1>2. ResultIffCompleted' /\ RetryBudget' /\ PushedOnce' /\ BudgetInv'
  BY DEF ResultIffCompleted, RetryBudget, PushedOnce, BudgetInv
<1>3. HookReflectsState'
  BY DEF HookReflectsState, TypeOK, Iteration
<1>4. WorkerInv'
  BY DEF WorkerInv, Live, TypeOK, Iteration
<1>5. RowSteps
  BY DEF RowSteps, RowStep
<1> QED
  BY <1>5, <1>1, <1>2, <1>3, <1>4

(* The iteration ends and the rows stay: the row it held is not in flight, *)
(* unless the process is going down or a write has failed.                 *)
LEMMA EndInv ==
  ASSUME Inv, row' = row, w' = Idle, proc' = proc, restarts' = restarts,
         faults' \in {faults, faults + 1}, faults' \in 0..MaxFaults,
         UNCHANGED <<older, fresh, submitting, cancelling>>,
         \/ proc = "stopping"
         \/ faults' = faults + 1
         \/ w.key \in Keys => row[w.key].state \notin InFlight
  PROVE  Inv' /\ RowSteps
<1> USE KeysAssumption, BoundsAssumption DEF Inv
<1>1. TypeOK'
  BY DEF TypeOK, Idle, Iteration, Codes
<1>2. NoStrandedRow'
  BY DEF NoStrandedRow, Holds, TypeOK
<1>3. ResultIffCompleted' /\ RetryBudget' /\ PushedOnce' /\ BudgetInv'
  BY DEF ResultIffCompleted, RetryBudget, PushedOnce, BudgetInv
<1>4. HookReflectsState' /\ WorkerInv'
  BY DEF HookReflectsState, WorkerInv, Idle
<1>5. RowSteps
  BY DEF RowSteps, RowStep
<1> QED
  BY <1>5, <1>1, <1>2, <1>3, <1>4

(* CreateRequest: the worker holds no absent row. *)
LEMMA SubmitInv ==
  ASSUME Inv, NEW k \in Keys, NEW left \in Callbacks, Submit(k, left)
  PROVE  Inv' /\ RowSteps
<1> USE KeysAssumption, BoundsAssumption DEF Inv
<1>1. /\ row' = [row EXCEPT ![k] = Created]
      /\ w' = w /\ proc' = proc /\ restarts' = restarts /\ faults' = faults
      /\ cancelling' = cancelling
      /\ row[k].state = "absent"
  BY DEF Submit
<1>2. /\ row' \in [Keys -> Row]
      /\ row'[k].state = "queued"
      /\ row'[k].code = "none"
      /\ row'[k].attempts = 0
      /\ row'[k].result = "none"
      /\ row'[k].outbox = 0
      /\ row'[k].history = FALSE
      /\ \A j \in Keys : j # k => row'[j] = row[j]
  BY <1>1, CreatedRow, AbsentRow DEF TypeOK, SameData
<1>3. w.key # k /\ k \notin cancelling
  BY <1>1 DEF WorkerInv, Live
<1>4. TypeOK'
  BY <1>1, <1>2 DEF TypeOK, Submit
<1>5. NoStrandedRow'
  BY <1>1, <1>2 DEF NoStrandedRow, Holds, InFlight
<1>6. ResultIffCompleted' /\ PushedOnce'
  BY <1>1, <1>2 DEF ResultIffCompleted, PushedOnce
<1>7. RetryBudget' /\ BudgetInv'
  BY <1>1, <1>2 DEF RetryBudget, BudgetInv, TypeOK
<1>8. HookReflectsState'
  BY <1>1, <1>2, <1>3 DEF HookReflectsState, TypeOK, Iteration
<1>9. WorkerInv'
  BY <1>1, <1>2, <1>3 DEF WorkerInv, Live, TypeOK, Iteration
<1>10. RowSteps
  BY <1>1, <1>2 DEF RowSteps, RowStep
<1> QED
  BY <1>10, <1>4, <1>5, <1>6, <1>7, <1>8, <1>9

(* SetRequestSubscription: the row may get a subscription the worker's     *)
(* copy lacks, never the other way round.                                  *)
LEMMA AttachInv ==
  ASSUME Inv, NEW k \in Keys, AttachCallback(k)
  PROVE  Inv' /\ RowSteps
<1> USE KeysAssumption, BoundsAssumption DEF Inv
<1>1. /\ row' = [row EXCEPT ![k] = Subscribed(row[k])]
      /\ w' = w /\ proc' = proc /\ restarts' = restarts /\ faults' = faults
      /\ cancelling' = cancelling
  BY DEF AttachCallback
<1>2. row[k] \in Row
  BY DEF TypeOK
<1>3. /\ row' \in [Keys -> Row]
      /\ row'[k].state = row[k].state
      /\ row'[k].code = row[k].code
      /\ row'[k].attempts = row[k].attempts
      /\ row'[k].result = row[k].result
      /\ row'[k].sub = TRUE
      /\ row'[k].outbox = row[k].outbox
      /\ row'[k].history = row[k].history
      /\ \A j \in Keys : j # k => row'[j] = row[j]
  BY <1>1, <1>2, SubscribedRow, Zenon DEF TypeOK
<1>4. TypeOK'
  BY <1>1, <1>3 DEF TypeOK, AttachCallback
<1>5. NoStrandedRow'
  BY <1>1, <1>3 DEF NoStrandedRow, Holds
<1>6. ResultIffCompleted' /\ RetryBudget' /\ PushedOnce' /\ BudgetInv'
  BY <1>1, <1>3 DEF ResultIffCompleted, RetryBudget, PushedOnce, BudgetInv
<1>7. HookReflectsState'
  BY <1>1, <1>3 DEF HookReflectsState, TypeOK, Iteration
<1>8. WorkerInv'
  BY <1>1, <1>3 DEF WorkerInv, Live, TypeOK, Iteration
<1>9. RowSteps
  BY <1>3 DEF RowSteps, RowStep
<1> QED
  BY <1>9, <1>4, <1>5, <1>6, <1>7, <1>8

(* Service.Cancel in the store: only a row that is not terminal. *)
LEMMA CancelInv ==
  ASSUME Inv, NEW k \in Keys, Cancel(k)
  PROVE  Inv' /\ RowSteps
<1> USE KeysAssumption, BoundsAssumption DEF Inv
<1>1. /\ row[k] \in Row
      /\ row' = [row EXCEPT ![k] = Cancelled(row[k])]
      /\ w' = w /\ proc' = proc /\ restarts' = restarts /\ faults' = faults
      /\ cancelling' = cancelling \cup {k}
      /\ CanTransition(row[k].state, "cancelled")
  BY DEF Cancel, TypeOK
<1>2. /\ row' \in [Keys -> Row]
      /\ row'[k].state = "cancelled"
      /\ row'[k].code = "cancelled_by_client"
      /\ SameData(row'[k], row[k])
      /\ \A j \in Keys : j # k => row'[j] = row[j]
  BY <1>1, CancelledRow DEF TypeOK
<1>3. row[k].state \in {"queued", "resolving", "locating"}
  BY <1>1 DEF CanTransition
<1>4. TypeOK'
  BY <1>1, <1>2 DEF TypeOK, Cancel
<1>5. NoStrandedRow'
  BY <1>1, <1>2 DEF NoStrandedRow, Holds, InFlight
<1>6. ResultIffCompleted' /\ RetryBudget' /\ PushedOnce' /\ BudgetInv'
  BY <1>1, <1>2, <1>3 DEF ResultIffCompleted, RetryBudget, PushedOnce, BudgetInv, SameData
<1>7. HookReflectsState'
  BY <1>1, <1>2, <1>3 DEF HookReflectsState, WorkerInv, TypeOK, Iteration
<1>8. WorkerInv'
  BY <1>1, <1>2, <1>3 DEF WorkerInv, SameData, HookReflectsState, TypeOK, Live, Iteration
<1>9. RowSteps
  BY <1>1, <1>2, <1>3 DEF RowSteps, RowStep, SameData
<1> QED
  BY <1>9, <1>4, <1>5, <1>6, <1>7, <1>8

(* Worker.Cancel: the context it cancels is that of a cancelled row. *)
LEMMA SignalCancelInv ==
  ASSUME Inv, NEW k \in Keys, SignalCancel(k)
  PROVE  Inv' /\ RowSteps
<1> USE KeysAssumption, BoundsAssumption DEF Inv
<1>1. /\ row' = row /\ proc' = proc /\ restarts' = restarts /\ faults' = faults
      /\ k \in cancelling
      /\ cancelling' = cancelling \ {k}
  BY DEF SignalCancel
<1>2. \/ w' = w
      \/ w.key = k /\ w' = [w EXCEPT !.cancelled = TRUE]
  BY DEF SignalCancel
<1>3. /\ w'.pc = w.pc /\ w'.key = w.key /\ w'.attempts = w.attempts
      /\ w'.sub = w.sub /\ w'.final = w.final /\ w' \in Iteration
      /\ w'.cancelled = w.cancelled \/ w.key = k
  <2>1. w \in Iteration
    BY DEF TypeOK
  <2> QED
    BY <1>2, <2>1, Zenon DEF Iteration
<1>4. TypeOK'
  BY <1>1, <1>3 DEF TypeOK, SignalCancel
<1>5. NoStrandedRow'
  BY <1>1, <1>3 DEF NoStrandedRow, Holds
<1>6. ResultIffCompleted' /\ RetryBudget' /\ PushedOnce' /\ BudgetInv'
  BY <1>1 DEF ResultIffCompleted, RetryBudget, PushedOnce, BudgetInv
<1>7. HookReflectsState'
  BY <1>1, <1>3 DEF HookReflectsState
<1>8. WorkerInv'
  <2>1. w.key = k => w.pc # "idle" /\ proc # "down"
    BY DEF WorkerInv, Idle
  <2>2. row[k].state = "cancelled"
    BY <1>1 DEF WorkerInv
  <2> QED
    BY <1>1, <1>2, <1>3, <2>1, <2>2 DEF WorkerInv, Live
<1>9. RowSteps
  BY <1>1 DEF RowSteps, RowStep
<1> QED
  BY <1>9, <1>4, <1>5, <1>6, <1>7, <1>8

(* ClaimNextQueued: no other row is in flight, and a queued row has a try  *)
(* left.                                                                   *)
LEMMA ClaimInv ==
  ASSUME Inv, Claim
  PROVE  Inv' /\ RowSteps
<1> USE KeysAssumption, BoundsAssumption DEF Inv
<1>0. PICK k \in Keys :
      /\ row[k].state = "queued"
      /\ row' = [row EXCEPT ![k] = Claimed(row[k])]
      /\ w' = [Idle EXCEPT !.pc = "claimed", !.key = k,
                           !.attempts = row[k].attempts + 1, !.sub = row[k].sub]
  BY Zenon DEF Claim, Claimable
<1>1. /\ proc \in {"starting", "up"} /\ w = Idle
      /\ proc' = proc /\ restarts' = restarts /\ faults' = faults
      /\ cancelling' = cancelling
      /\ row[k] \in Row
  BY DEF Claim, WorkerInv, TypeOK
<1>2. /\ row' \in [Keys -> Row]
      /\ row'[k].state = "resolving"
      /\ row'[k].code = row[k].code
      /\ row'[k].attempts = row[k].attempts + 1
      /\ row'[k].result = row[k].result
      /\ row'[k].sub = row[k].sub
      /\ row'[k].outbox = row[k].outbox
      /\ row'[k].history = row[k].history
      /\ \A j \in Keys : j # k => row'[j] = row[j]
  BY <1>0, <1>1, ClaimedRow DEF TypeOK
<1>3. row[k].attempts \in Nat /\ row[k].sub \in BOOLEAN /\ row[k].outbox \in Nat
  BY <1>1 DEF Row
<1>4. /\ w' \in Iteration
      /\ w'.pc = "claimed" /\ w'.key = k /\ w'.attempts = row[k].attempts + 1
      /\ w'.sub = row[k].sub /\ w'.cancelled = FALSE
  <2> PICK n \in Nat : n = row[k].attempts + 1
    BY <1>3
  <2>1. w' = [pc |-> "claimed", key |-> k, attempts |-> n, sub |-> row[k].sub,
              cancelled |-> FALSE, final |-> "none", code |-> "none"]
    BY <1>0, Zenon DEF Idle
  <2> QED
    BY <1>3, <2>1 DEF Iteration, Codes
<1>5. TypeOK'
  BY <1>1, <1>2, <1>4 DEF TypeOK, Claim
<1>6. NoStrandedRow'
  <2>1. w.key # k /\ w.key \notin Keys
    BY <1>1 DEF Idle
  <2> QED
    BY <1>1, <1>2, <1>4, <2>1 DEF NoStrandedRow, Holds
<1>7. ResultIffCompleted' /\ PushedOnce'
  BY <1>0, <1>1, <1>2, <1>3 DEF ResultIffCompleted, PushedOnce
<1>8. RetryBudget' /\ BudgetInv'
  BY <1>0, <1>1, <1>2, <1>3 DEF RetryBudget, BudgetInv, TypeOK
<1>9. HookReflectsState'
  BY <1>4 DEF HookReflectsState
<1>10. WorkerInv'
  <2>1. row[k].outbox = 0
    BY <1>0, <1>3 DEF PushedOnce
  <2>2. k \notin cancelling
    BY <1>0 DEF WorkerInv
  <2> QED
    BY <1>1, <1>2, <1>3, <1>4, <2>1, <2>2 DEF WorkerInv, Live, TypeOK
<1>11. RowSteps
  BY <1>0, <1>2 DEF RowSteps, RowStep, CanTransition, Terminal, TerminalStates
<1> QED
  BY <1>11, <1>5, <1>6, <1>7, <1>8, <1>9, <1>10

(* The entry in Worker.active *)
LEMMA RegisterInv ==
  ASSUME Inv, Register
  PROVE  Inv' /\ RowSteps
<1> USE KeysAssumption, BoundsAssumption DEF Inv
<1>1. /\ row' = row /\ proc' = proc /\ restarts' = restarts /\ faults' = faults
      /\ cancelling' = cancelling /\ w.pc = "claimed"
      /\ w' = [w EXCEPT !.pc = "resolving"]
  BY DEF Register
<1>2. /\ w'.pc = "resolving" /\ w'.key = w.key /\ w'.attempts = w.attempts
      /\ w'.sub = w.sub /\ w'.final = w.final /\ w'.cancelled = w.cancelled
      /\ w' \in Iteration
  BY <1>1 DEF TypeOK, Iteration
<1>3. TypeOK'
  BY <1>1, <1>2 DEF TypeOK, Register
<1>4. NoStrandedRow'
  BY <1>1, <1>2 DEF NoStrandedRow, Holds
<1>5. ResultIffCompleted' /\ RetryBudget' /\ PushedOnce' /\ BudgetInv'
  BY <1>1 DEF ResultIffCompleted, RetryBudget, PushedOnce, BudgetInv
<1>6. HookReflectsState' /\ WorkerInv'
  BY <1>1, <1>2 DEF HookReflectsState, WorkerInv, Live, Idle
<1>7. RowSteps
  BY <1>1 DEF RowSteps, RowStep
<1> QED
  BY <1>7, <1>3, <1>4, <1>5, <1>6

(* Between a network call and the store, the row of the worker is in       *)
(* flight only if it is at the worker's own stage.                         *)
LEMMA StageOfRow ==
  ASSUME Inv, NEW from \in InFlight, w.pc = from, w.key \in Keys, faults = 0,
         proc \in {"starting", "up"}, row[w.key].state \in InFlight
  PROVE  row[w.key].state = from
BY DEF Inv, NoStrandedRow, Holds, InFlight

(* After a failed write the worker's row may be in flight at no stage at   *)
(* all, so NoStrandedRow asks nothing any more.                            *)
LEMMA UnappliedInv ==
  ASSUME Inv, NEW from \in InFlight, w.pc = from, row' = row, w' = Idle,
         UNCHANGED <<older, fresh, proc, submitting, cancelling, restarts, faults>>,
         ~RowIs(from) \/ w.cancelled
  PROVE  Inv' /\ RowSteps
<1> USE KeysAssumption, BoundsAssumption DEF Inv
<1>1. CASE proc = "stopping"
  BY <1>1, EndInv DEF TypeOK
<1>2. CASE faults # 0
  <2>1. NoStrandedRow'
    BY <1>2 DEF NoStrandedRow
  <2>2. TypeOK'
    BY DEF TypeOK, Idle, Iteration, Codes
  <2>3. ResultIffCompleted' /\ RetryBudget' /\ PushedOnce' /\ BudgetInv'
    BY DEF ResultIffCompleted, RetryBudget, PushedOnce, BudgetInv
  <2>4. HookReflectsState' /\ WorkerInv'
    BY DEF HookReflectsState, WorkerInv, Idle
  <2>5. RowSteps
    BY DEF RowSteps, RowStep
  <2> QED
    BY <2>5, <2>1, <2>2, <2>3, <2>4
<1>3. CASE proc # "stopping" /\ faults = 0
  <2>1. w # Idle
    BY DEF InFlight, Idle
  <2>2. proc \in {"starting", "up"}
    BY <1>3, <2>1 DEF TypeOK, WorkerInv
  <2>3. w.key \in Keys => row[w.key].state \notin InFlight
    BY <1>3, <2>2, StageOfRow DEF RowIs, WorkerInv, InFlight
  <2> QED
    BY <1>3, <2>3, EndInv DEF TypeOK
<1> QED
  BY <1>1, <1>2, <1>3

(* Requeue, after a transient error with a try left or an interruption     *)
LEMMA RequeueInv ==
  ASSUME Inv, NEW from \in InFlight, w.pc = from, NEW delay \in Nat, NEW code \in Codes,
         Requeue(from, delay, code),
         w.cancelled \/ w.attempts < MaxAttempts,
         UNCHANGED <<older, fresh, proc, submitting, cancelling, restarts, faults>>
  PROVE  Inv' /\ RowSteps
<1> USE KeysAssumption, BoundsAssumption DEF Inv
<1>1. CASE ~RowIs(from)
  BY <1>1, UnappliedInv DEF Requeue
<1>2. CASE RowIs(from)
  <2> DEFINE k == w.key
  <2>1. k \in Keys /\ row[k].state = from /\ row[k] \in Row
    BY <1>2 DEF RowIs, TypeOK
  <2>2. row' = [row EXCEPT ![k] = Requeued(row[k], delay, code)] /\ w' = Idle
    BY <1>2 DEF Requeue
  <2>3. /\ row' \in [Keys -> Row]
        /\ row'[k].state = "queued"
        /\ row'[k].code = code
        /\ SameData(row'[k], row[k])
        /\ \A j \in Keys : j # k => row'[j] = row[j]
    BY <2>1, <2>2, RequeuedRow DEF TypeOK
  <2>4. TypeOK'
    BY <2>2, <2>3 DEF TypeOK, Idle, Iteration, Codes
  <2>5. NoStrandedRow'
    BY <2>1, <2>3 DEF NoStrandedRow, Holds, InFlight
  <2>6. ResultIffCompleted' /\ PushedOnce'
    BY <2>1, <2>3 DEF ResultIffCompleted, PushedOnce, SameData, InFlight
  <2>7. row[k].attempts < MaxAttempts + restarts
    <3>1. row[k].attempts \in Nat /\ restarts \in Nat
      BY <2>1 DEF TypeOK, Row
    <3>2. CASE w.attempts < MaxAttempts
      BY <2>1, <3>1, <3>2 DEF WorkerInv
    <3>3. CASE w.cancelled
      <4>1. proc = "stopping"
        BY <2>1, <3>3 DEF WorkerInv, InFlight
      <4> QED
        BY <2>1, <4>1 DEF BudgetInv
    <3> QED
      BY <3>2, <3>3
  <2>8. RetryBudget' /\ BudgetInv'
    BY <2>1, <2>3, <2>7 DEF RetryBudget, BudgetInv, SameData
  <2>9. k \notin cancelling
    BY <2>1 DEF WorkerInv, InFlight
  <2>10. HookReflectsState' /\ WorkerInv'
    BY <2>2, <2>3, <2>9 DEF HookReflectsState, WorkerInv, Idle, TypeOK
  <2>11. RowSteps
    BY <2>1, <2>3 DEF RowSteps, RowStep, SameData, InFlight, CanTransition, Terminal, TerminalStates
  <2> QED
    BY <2>11, <2>4, <2>5, <2>6, <2>8, <2>10
<1> QED
  BY <1>1, <1>2

(* FailRequest: the row's outcome is what the hook will report. *)
LEMMA FailInv ==
  ASSUME Inv, NEW from \in InFlight, w.pc = from, NEW code \in Codes,
         FailRequest(from, code),
         code = "temporarily_unavailable" => w.attempts >= MaxAttempts,
         UNCHANGED <<older, fresh, proc, submitting, cancelling, restarts, faults>>
  PROVE  Inv' /\ RowSteps
<1> USE KeysAssumption, BoundsAssumption DEF Inv
<1>1. CASE ~RowIs(from)
  BY <1>1, UnappliedInv DEF FailRequest
<1>2. CASE RowIs(from)
  <2> DEFINE k == w.key
  <2>1. k \in Keys /\ row[k].state = from /\ row[k] \in Row
    BY <1>2 DEF RowIs, TypeOK
  <2>2. /\ row' = [row EXCEPT ![k] = Failed(row[k], code)]
        /\ w' = [w EXCEPT !.pc = "notify", !.final = "failed", !.code = code]
    BY <1>2 DEF FailRequest
  <2>3. /\ row' \in [Keys -> Row]
        /\ row'[k].state = "failed"
        /\ row'[k].code = code
        /\ SameData(row'[k], row[k])
        /\ \A j \in Keys : j # k => row'[j] = row[j]
    BY <2>1, <2>2, FailedRow DEF TypeOK
  <2>4. /\ w'.pc = "notify" /\ w'.key = k /\ w'.attempts = w.attempts
        /\ w'.sub = w.sub /\ w'.final = "failed" /\ w'.cancelled = w.cancelled
    BY <2>2 DEF TypeOK, Iteration
  <2>5. w' \in Iteration
    BY <2>2, Zenon DEF TypeOK, Iteration
  <2>6. TypeOK'
    BY <2>3, <2>5 DEF TypeOK
  <2>7. NoStrandedRow'
    BY <2>1, <2>3 DEF NoStrandedRow, Holds, InFlight
  <2>8. ResultIffCompleted' /\ PushedOnce'
    BY <2>1, <2>3 DEF ResultIffCompleted, PushedOnce, SameData, InFlight
  <2>9. RetryBudget' /\ BudgetInv'
    BY <2>1, <2>3 DEF RetryBudget, BudgetInv, SameData, WorkerInv
  <2>10. HookReflectsState'
    BY <2>3, <2>4 DEF HookReflectsState
  <2>11. WorkerInv'
    <3>1. row[k].outbox = 0 /\ k \notin cancelling /\ proc # "down"
      BY <2>1 DEF WorkerInv, InFlight, Idle
    <3>2. ~w.cancelled \/ proc = "stopping"
      BY <2>1 DEF WorkerInv, InFlight
    <3> QED
      BY <2>1, <2>3, <2>4, <3>1, <3>2 DEF WorkerInv, Live, SameData, TypeOK
  <2>12. RowSteps
    BY <2>1, <2>3 DEF RowSteps, RowStep, SameData, InFlight, CanTransition, Terminal, TerminalStates
  <2> QED
    BY <2>12, <2>6, <2>7, <2>8, <2>9, <2>10, <2>11
<1> QED
  BY <1>1, <1>2

(* The errors of both network calls: interruption, retry or failure *)
LEMMA CallFailedInv ==
  ASSUME Inv, NEW from \in InFlight, w.pc = from, NEW e, CallFailed(from, e),
         UNCHANGED <<older, fresh, proc, submitting, cancelling, restarts, faults>>
  PROVE  Inv' /\ RowSteps
<1> USE BoundsAssumption
<1>1. CASE w.cancelled
  <2>1. 0 \in Nat /\ "shutdown_interrupted" \in Codes
    BY DEF Codes
  <2>2. Requeue(from, 0, "shutdown_interrupted")
    BY <1>1 DEF CallFailed
  <2> QED
    BY <1>1, <2>1, <2>2, RequeueInv
<1>2. CASE HandleError(from, e)
  <2>1. CASE w.attempts >= MaxAttempts /\ FailRequest(from, "temporarily_unavailable")
    BY <2>1, FailInv DEF Codes
  <2>2. CASE /\ w.attempts < MaxAttempts
             /\ Requeue(from, 2^(w.attempts - 1), "temporarily_unavailable")
    <3>1. w.attempts \in Nat /\ w.attempts >= 1
      BY DEF Inv, WorkerInv, TypeOK, Iteration, InFlight
    <3>2. w.attempts - 1 \in 0..MaxAttempts
      BY <2>2, <3>1
    <3>3. 2^(w.attempts - 1) \in Nat
      BY <3>2
    <3> QED
      BY <2>2, <3>3, RequeueInv DEF Codes
  <2>3. CASE FailRequest(from, "network_failure")
    BY <2>3, FailInv DEF Codes
  <2> QED
    BY <1>2, <2>1, <2>2, <2>3 DEF HandleError
<1> QED
  BY <1>1, <1>2 DEF CallFailed

(* SaveServingNodeAndLocate *)
LEMMA ResolvedInv ==
  ASSUME Inv, Resolved
  PROVE  Inv' /\ RowSteps
<1> USE KeysAssumption, BoundsAssumption DEF Inv
<1>0. /\ UNCHANGED <<older, fresh, proc, submitting, cancelling, restarts, faults>>
      /\ w.pc = "resolving"
  BY DEF Resolved
<1>1. CASE ~RowIs("resolving") \/ w.cancelled
  BY <1>0, <1>1, UnappliedInv DEF Resolved, InFlight
<1>2. CASE RowIs("resolving") /\ ~w.cancelled
  <2> DEFINE k == w.key
  <2>1. k \in Keys /\ row[k].state = "resolving" /\ row[k] \in Row
    BY <1>2 DEF RowIs, TypeOK
  <2>2. row' = [row EXCEPT ![k] = Locating(row[k])] /\ w' = [w EXCEPT !.pc = "locating"]
    BY <1>2 DEF Resolved
  <2>3. /\ row' \in [Keys -> Row]
        /\ row'[k].state = "locating"
        /\ row'[k].code = row[k].code
        /\ SameData(row'[k], row[k])
        /\ \A j \in Keys : j # k => row'[j] = row[j]
    BY <2>1, <2>2, LocatingRow DEF TypeOK
  <2>4. /\ w'.pc = "locating" /\ w'.key = k /\ w'.attempts = w.attempts
        /\ w'.sub = w.sub /\ w'.final = w.final /\ w'.cancelled = w.cancelled
        /\ w' \in Iteration
    BY <2>2 DEF TypeOK, Iteration
  <2>5. TypeOK'
    BY <1>0, <2>3, <2>4 DEF TypeOK
  <2>6. NoStrandedRow'
    BY <1>0, <2>1, <2>3, <2>4 DEF NoStrandedRow, Holds
  <2>7. ResultIffCompleted' /\ PushedOnce' /\ RetryBudget' /\ BudgetInv'
    BY <1>0, <2>1, <2>3
    DEF ResultIffCompleted, PushedOnce, RetryBudget, BudgetInv, SameData
  <2>8. HookReflectsState'
    BY <2>4 DEF HookReflectsState
  <2>9. WorkerInv'
    <3>1. /\ \A j \in cancelling : row[j].state = "cancelled"
          /\ proc = "down" => w = Idle
      BY Zenon DEF WorkerInv
    <3>2. k \notin cancelling
      BY <2>1, <3>1
    <3>3. Idle.pc = "idle"
      BY DEF Idle
    <3>4. proc # "down"
      BY <1>0, <3>1, <3>3
    <3> QED
      BY <1>0, <1>2, <2>1, <2>3, <2>4, <3>2, <3>4, SMTT(30) DEF WorkerInv, Live, SameData, TypeOK
  <2>10. RowSteps
    BY <2>1, <2>3 DEF RowSteps, RowStep, SameData, CanTransition, Terminal, TerminalStates
  <2> QED
    BY <2>10, <2>5, <2>6, <2>7, <2>8, <2>9
<1> QED
  BY <1>1, <1>2

(* CompleteRequest: state and result in one transaction *)
LEMMA LocatedInv ==
  ASSUME Inv, NEW position \in BOOLEAN, Located(position)
  PROVE  Inv' /\ RowSteps
<1> USE KeysAssumption, BoundsAssumption DEF Inv
<1>0. /\ UNCHANGED <<older, fresh, proc, submitting, cancelling, restarts, faults>>
      /\ w.pc = "locating"
  BY DEF Located
<1>1. CASE ~RowIs("locating") \/ w.cancelled
  BY <1>0, <1>1, UnappliedInv DEF Located, InFlight
<1>2. CASE RowIs("locating") /\ ~w.cancelled
  <2> DEFINE k == w.key
  <2>1. k \in Keys /\ row[k].state = "locating" /\ row[k] \in Row
    BY <1>2 DEF RowIs, TypeOK
  <2>2. PICK pc \in {"history", "notify"} :
           /\ row' = [row EXCEPT ![k] = Completed(row[k])]
           /\ w' = [w EXCEPT !.pc = pc, !.final = "completed"]
    BY <1>2, Zenon DEF Located
  <2>3. /\ row' \in [Keys -> Row]
        /\ row'[k].state = "completed"
        /\ row'[k].code = row[k].code
        /\ row'[k].attempts = row[k].attempts
        /\ row'[k].result = "stored"
        /\ row'[k].sub = row[k].sub
        /\ row'[k].outbox = row[k].outbox
        /\ row'[k].history = row[k].history
        /\ \A j \in Keys : j # k => row'[j] = row[j]
    BY <2>1, <2>2, CompletedRow DEF TypeOK
  <2>4. /\ w'.pc = pc /\ w'.key = k /\ w'.attempts = w.attempts
        /\ w'.sub = w.sub /\ w'.final = "completed" /\ w'.cancelled = w.cancelled
        /\ w' \in Iteration
    BY <2>2, Zenon DEF TypeOK, Iteration
  <2>5. TypeOK'
    BY <1>0, <2>3, <2>4 DEF TypeOK
  <2>6. NoStrandedRow'
    BY <1>0, <2>1, <2>3 DEF NoStrandedRow, Holds, InFlight
  <2>7. row[k].outbox = 0
    BY <1>0, <2>1 DEF WorkerInv
  <2>8. ResultIffCompleted' /\ PushedOnce' /\ RetryBudget' /\ BudgetInv'
    BY <1>0, <2>1, <2>3, <2>7 DEF ResultIffCompleted, PushedOnce, RetryBudget, BudgetInv
  <2>9. HookReflectsState'
    BY <2>3, <2>4 DEF HookReflectsState
  <2>10. WorkerInv'
    <3>1. k \notin cancelling /\ proc # "down"
      BY <1>0, <2>1 DEF WorkerInv, Idle
    <3> QED
      BY <1>0, <1>2, <2>1, <2>3, <2>4, <2>7, <3>1 DEF WorkerInv, Live, TypeOK
  <2>11. RowSteps
    BY <2>1, <2>3 DEF RowSteps, RowStep, CanTransition, Terminal, TerminalStates
  <2> QED
    BY <2>11, <2>5, <2>6, <2>8, <2>9, <2>10
<1> QED
  BY <1>1, <1>2

(* RecordHistory, for a completed row *)
LEMMA RecordHistoryInv ==
  ASSUME Inv, RecordHistory
  PROVE  Inv' /\ RowSteps
<1> USE KeysAssumption, BoundsAssumption DEF Inv
<1> DEFINE k == w.key
<1>1. /\ UNCHANGED <<older, fresh, proc, submitting, cancelling, restarts, faults>>
      /\ w.pc = "history"
      /\ w' = [w EXCEPT !.pc = "notify"]
  BY DEF RecordHistory
<1>a. \/ row' = row
      \/ k \in Keys /\ row' = [row EXCEPT ![k] = Recorded(row[k])]
  <2>1. CASE k \in Keys /\ ~w.cancelled
    BY <2>1 DEF RecordHistory
  <2>2. CASE ~(k \in Keys /\ ~w.cancelled)
    BY <2>2 DEF RecordHistory
  <2> QED
    BY <2>1, <2>2
<1>2. k \in Keys => row[k] \in Row /\ row[k].state = "completed"
  BY <1>1 DEF WorkerInv, HookReflectsState, TypeOK
<1>3. /\ row' \in [Keys -> Row]
      /\ \A j \in Keys : /\ row'[j].state = row[j].state
                         /\ row'[j].code = row[j].code
                         /\ row'[j].attempts = row[j].attempts
                         /\ row'[j].result = row[j].result
                         /\ row'[j].sub = row[j].sub
                         /\ row'[j].outbox = row[j].outbox
                         /\ row'[j].history = row[j].history \/ row[j].state = "completed"
  <2>1. CASE row' = row
    BY <2>1 DEF TypeOK
  <2>2. CASE k \in Keys /\ row' = [row EXCEPT ![k] = Recorded(row[k])]
    <3>1. row' \in [Keys -> Row] /\ row'[k] = Recorded(row[k])
      BY <1>2, <2>2, RecordedRow, Zenon DEF TypeOK
    <3>2. \A j \in Keys : j # k => row'[j] = row[j]
      BY <2>2 DEF TypeOK
    <3>3. /\ row[k].state = "completed"
          /\ row'[k].state = row[k].state
          /\ row'[k].code = row[k].code
          /\ row'[k].attempts = row[k].attempts
          /\ row'[k].result = row[k].result
          /\ row'[k].sub = row[k].sub
          /\ row'[k].outbox = row[k].outbox
      BY <1>2, <2>2, <3>1, RecordedRow, Zenon
    <3> HIDE DEF k
    <3> QED
      BY <3>1, <3>2, <3>3
  <2> QED
    BY <1>a, <2>1, <2>2
<1>4. /\ w'.pc = "notify" /\ w'.key = k /\ w'.attempts = w.attempts
      /\ w'.sub = w.sub /\ w'.final = w.final /\ w'.cancelled = w.cancelled
      /\ w' \in Iteration
  BY <1>1 DEF TypeOK, Iteration
<1>5. TypeOK'
  BY <1>1, <1>3, <1>4 DEF TypeOK
<1>6. NoStrandedRow'
  BY <1>1, <1>3, <1>4 DEF NoStrandedRow, Holds, InFlight
<1>7. ResultIffCompleted' /\ PushedOnce' /\ RetryBudget' /\ BudgetInv'
  BY <1>1, <1>3 DEF ResultIffCompleted, PushedOnce, RetryBudget, BudgetInv
<1>8. HookReflectsState'
  BY <1>1, <1>3, <1>4 DEF HookReflectsState, TypeOK, Iteration
<1>9. WorkerInv'
  BY <1>1, <1>3, <1>4 DEF WorkerInv, Live, Idle, TypeOK, Iteration
<1>10. RowSteps
  BY <1>3 DEF RowSteps, RowStep
<1> QED
  BY <1>10, <1>5, <1>6, <1>7, <1>8, <1>9

(* The hook: the outbox of the row was still empty. *)
LEMMA NotifyInv ==
  ASSUME Inv, NotifyCompletion
  PROVE  Inv' /\ RowSteps
<1> USE KeysAssumption, BoundsAssumption DEF Inv
<1> DEFINE k == w.key
<1>1. /\ UNCHANGED <<older, fresh, proc, submitting, cancelling, restarts, faults>>
      /\ w.pc = "notify"
      /\ w' = Idle
  BY DEF NotifyCompletion
<1>a. \/ row' = row
      \/ k \in Keys /\ w.sub /\ row' = [row EXCEPT ![k] = Pushed(row[k])]
  <2>1. CASE k \in Keys /\ w.sub /\ proc # "starting"
    BY <2>1 DEF NotifyCompletion
  <2>2. CASE ~(k \in Keys /\ w.sub /\ proc # "starting")
    BY <2>2 DEF NotifyCompletion
  <2> QED
    BY <2>1, <2>2
<1>2. k \in Keys => /\ row[k] \in Row
                    /\ row[k].state \in {"completed", "failed"}
                    /\ row[k].outbox = 0
  BY <1>1 DEF WorkerInv, HookReflectsState, TypeOK
<1>3. CASE row' = row
  BY <1>1, <1>2, <1>3, EndInv DEF InFlight, TypeOK
<1>4. CASE k \in Keys /\ w.sub /\ row' = [row EXCEPT ![k] = Pushed(row[k])]
  <2>1. /\ row' \in [Keys -> Row]
        /\ row'[k].state = row[k].state
        /\ row'[k].code = row[k].code
        /\ row'[k].attempts = row[k].attempts
        /\ row'[k].result = row[k].result
        /\ row'[k].sub = row[k].sub
        /\ row'[k].outbox = 1
        /\ row'[k].history = row[k].history
        /\ \A j \in Keys : j # k => row'[j] = row[j]
    BY <1>2, <1>4, PushedRow DEF TypeOK
  <2>2. TypeOK'
    BY <1>1, <2>1 DEF TypeOK, Idle, Iteration, Codes
  <2>3. NoStrandedRow'
    BY <1>1, <1>2, <1>4, <2>1 DEF NoStrandedRow, Holds, InFlight
  <2>4. ResultIffCompleted' /\ RetryBudget' /\ BudgetInv'
    <3>1. /\ restarts' = restarts /\ proc' = proc
          /\ \A j \in Keys : /\ row'[j].state = row[j].state
                             /\ row'[j].code = row[j].code
                             /\ row'[j].attempts = row[j].attempts
                             /\ row'[j].result = row[j].result
                             /\ row'[j].history = row[j].history
      BY <1>1, <2>1
    <3>2. ResultIffCompleted'
      BY <3>1 DEF ResultIffCompleted
    <3>3. RetryBudget'
      BY <3>1 DEF RetryBudget
    <3>4. BudgetInv'
      BY <3>1 DEF BudgetInv
    <3> QED
      BY <3>2, <3>3, <3>4
  <2>5. PushedOnce'
    BY <1>2, <1>4, <2>1 DEF PushedOnce, WorkerInv
  <2>6. HookReflectsState' /\ WorkerInv'
    BY <1>1, <1>4, <2>1, SMTT(30) DEF HookReflectsState, WorkerInv, Idle, TypeOK
  <2>7. RowSteps
    BY <1>2, <1>4, <2>1 DEF RowSteps, RowStep
  <2> QED
    BY <2>7, <2>2, <2>3, <2>4, <2>5, <2>6
<1> QED
  BY <1>a, <1>3, <1>4

(* A failed write *)
LEMMA StoreFaultInv ==
  ASSUME Inv, StoreFault
  PROVE  Inv' /\ RowSteps
<1> USE KeysAssumption, BoundsAssumption DEF Inv
<1>1. /\ UNCHANGED <<row, older, fresh, proc, submitting, cancelling, restarts>>
      /\ faults' = faults + 1 /\ faults < MaxFaults /\ faults \in 0..MaxFaults
  BY DEF StoreFault, TypeOK
<1>2. CASE w' = Idle
  <2>1. faults' \in 0..MaxFaults
    BY <1>1
  <2> HIDE DEF Inv
  <2> QED
    BY <1>1, <1>2, <2>1, EndInv
<1>3. CASE w.pc = "history" /\ w' = [w EXCEPT !.pc = "notify"]
  <2>1. /\ w'.pc = "notify" /\ w'.key = w.key /\ w'.attempts = w.attempts
        /\ w'.sub = w.sub /\ w'.final = w.final /\ w'.cancelled = w.cancelled
        /\ w' \in Iteration
    BY <1>3 DEF TypeOK, Iteration
  <2>2. TypeOK'
    BY <1>1, <2>1 DEF TypeOK
  <2>3. NoStrandedRow'
    BY <1>1 DEF NoStrandedRow
  <2>4. ResultIffCompleted' /\ PushedOnce' /\ RetryBudget' /\ BudgetInv'
    BY <1>1 DEF ResultIffCompleted, PushedOnce, RetryBudget, BudgetInv
  <2>5. HookReflectsState' /\ WorkerInv'
    BY <1>1, <1>3, <2>1 DEF HookReflectsState, WorkerInv, Live, Idle
  <2>6. RowSteps
    BY <1>1 DEF RowSteps, RowStep
  <2> QED
    BY <2>6, <2>2, <2>3, <2>4, <2>5
<1> QED
  BY <1>2, <1>3 DEF StoreFault

(* What Purge leaves of the rows it runs on *)
PurgeLeaves(R, V, rows) ==
    /\ row' \in [Keys -> Row]
    /\ \A k \in R : row'[k] = NoRow
    /\ \A k \in Keys \ R : /\ row'[k].state = rows[k].state
                           /\ row'[k].code = rows[k].code
                           /\ row'[k].attempts = rows[k].attempts
                           /\ row'[k].sub = rows[k].sub
                           /\ row'[k].outbox = rows[k].outbox
                           /\ row'[k].history = rows[k].history
                           /\ row'[k].result = IF k \in V THEN "purged" ELSE rows[k].result

(* The SET and DELETE clauses of Purge do that. *)
LEMMA PurgedRows ==
  ASSUME NEW rows \in [Keys -> Row], NEW R \in SUBSET Keys, NEW V, PurgeRows(R, V, rows)
  PROVE  PurgeLeaves(R, V, rows)
<1>1. row' = [k \in Keys |-> IF k \in R THEN NoRow
                             ELSE IF k \in V THEN Unresulted(rows[k]) ELSE rows[k]]
  BY DEF PurgeRows
<1>2. \A k \in Keys : rows[k] \in Row /\ Unresulted(rows[k]) \in Row
  BY UnresultedRow
<1>3. row' \in [Keys -> Row]
  BY <1>1, <1>2, AbsentRow
<1>4. ASSUME NEW k \in Keys, k \notin R, k \in V
      PROVE  row'[k] = Unresulted(rows[k])
  BY <1>1, <1>4
<1>5. ASSUME NEW k \in Keys, k \notin R, k \notin V
      PROVE  row'[k] = rows[k]
  BY <1>1, <1>5
<1>6. \A k \in R : row'[k] = NoRow
  BY <1>1
<1> QED
  BY <1>2, <1>3, <1>4, <1>5, <1>6, UnresultedRow DEF PurgeLeaves

(* The retention sweep: a worker or handler that held a purged row holds   *)
(* no row any more.                                                        *)
LEMMA PurgeInv ==
  ASSUME Inv, Purge
  PROVE  Inv' /\ RowSteps
<1> USE KeysAssumption, BoundsAssumption DEF Inv
<1>1. PICK R \in SUBSET Keys, V \in SUBSET Results :
        /\ PurgeRows(R, V, row)
        /\ w' = IF w.key \in R THEN [w EXCEPT !.key = None] ELSE w
  BY DEF Purge
<1>2. proc' = proc /\ restarts' = restarts /\ faults' = faults /\ proc # "down"
  BY DEF Purge
<1>3. /\ row' \in [Keys -> Row]
      /\ \A k \in R : row'[k] = NoRow
      /\ \A k \in Keys \ R : /\ row'[k].state = row[k].state
                             /\ row'[k].code = row[k].code
                             /\ row'[k].attempts = row[k].attempts
                             /\ row'[k].sub = row[k].sub
                             /\ row'[k].outbox = row[k].outbox
                             /\ row'[k].history = row[k].history
                             /\ row'[k].result = IF k \in V THEN "purged" ELSE row[k].result
  <2>1. row \in [Keys -> Row]
    BY DEF TypeOK
  <2>2. PurgeLeaves(R, V, row)
    BY <1>1, <2>1, PurgedRows, Zenon
  <2> QED
    BY <2>2 DEF PurgeLeaves
<1>4. \A k \in R : /\ row'[k].state = "absent" /\ row'[k].code = "none"
                   /\ row'[k].attempts = 0 /\ row'[k].result = "none"
                   /\ row'[k].outbox = 0 /\ row'[k].history = FALSE
  BY <1>3, AbsentRow
<1>5. \A k \in V : row[k].result = "stored"
  BY DEF Results
<1>6. /\ w'.pc = w.pc /\ w'.attempts = w.attempts
      /\ w'.sub = w.sub /\ w'.final = w.final /\ w'.cancelled = w.cancelled
      /\ w'.key = (IF w.key \in R THEN None ELSE w.key)
      /\ w' \in Iteration
  BY <1>1 DEF TypeOK, Iteration
<1>7. /\ older' \in [Keys -> SUBSET Keys]
      /\ fresh' \in SUBSET Keys
      /\ submitting' \in [Keys -> {"done", "register", "attach"}]
      /\ cancelling' = cancelling \ R
  BY <1>1 DEF PurgeRows, TypeOK
<1>8. TypeOK'
  BY <1>2, <1>3, <1>6, <1>7 DEF TypeOK
<1>9. NoStrandedRow'
  BY <1>2, <1>3, <1>4, <1>6 DEF NoStrandedRow, Holds, InFlight
<1>10. ResultIffCompleted'
  BY <1>3, <1>4, <1>5 DEF ResultIffCompleted
<1>11. RetryBudget' /\ BudgetInv'
  BY <1>2, <1>3, <1>4 DEF RetryBudget, BudgetInv, TypeOK
<1>12. PushedOnce'
  BY <1>3, <1>4 DEF PushedOnce
<1>13. HookReflectsState'
  BY <1>3, <1>6 DEF HookReflectsState, TypeOK, Iteration
<1>14. WorkerInv'
  <2>1. w.key \in R => w.pc # "idle"
    BY DEF WorkerInv, Idle
  <2>2. w.key \notin R => w' = w
    BY <1>1
  <2> QED
    BY <1>2, <1>3, <1>6, <1>7, <2>1, <2>2 DEF WorkerInv, Live, TypeOK, Iteration
<1>15. RowSteps
  BY <1>1, <1>3, <1>4, <1>5, Zenon DEF RowSteps, RowStep, PurgeRows, Expired
<1> QED
  BY <1>15, <1>8, <1>9, <1>10, <1>11, <1>12, <1>13, <1>14

(* The start: Recover leaves no row in flight, and every row it requeues   *)
(* has a try left.                                                         *)
LEMMA BootInv ==
  ASSUME Inv, Boot \/ StartFails
  PROVE  Inv' /\ RowSteps
<1> USE KeysAssumption, BoundsAssumption DEF Inv
<1>0. PICK rows \in [Keys -> Row] : rows = [k \in Keys |-> Recovered(row[k])]
  BY RecoveredRow, Zenon DEF TypeOK
<1>1. PICK R \in SUBSET Keys, V \in SUBSET Results : PurgeRows(R, V, rows)
  BY <1>0, Zenon DEF Boot, StartFails, Started
<1>2. /\ proc = "down" /\ proc' \in {"starting", "down"} /\ w' = w /\ w = Idle
      /\ restarts' = restarts /\ faults' = faults
  BY DEF Boot, StartFails, Started, WorkerInv
<1>3. \A k \in Keys :
        /\ rows[k].state = IF row[k].state \in InFlight THEN "queued" ELSE row[k].state
        /\ rows[k].code = row[k].code
        /\ SameData(rows[k], row[k])
  BY <1>0, RecoveredRow DEF TypeOK
<1>4. /\ row' \in [Keys -> Row]
      /\ \A k \in R : row'[k] = NoRow
      /\ \A k \in Keys \ R : /\ row'[k].state = rows[k].state
                             /\ row'[k].code = rows[k].code
                             /\ row'[k].attempts = rows[k].attempts
                             /\ row'[k].sub = rows[k].sub
                             /\ row'[k].outbox = rows[k].outbox
                             /\ row'[k].history = rows[k].history
                             /\ row'[k].result = IF k \in V THEN "purged" ELSE rows[k].result
  <2>1. PurgeLeaves(R, V, rows)
    BY <1>1, PurgedRows, Zenon
  <2> QED
    BY <2>1 DEF PurgeLeaves
<1>5. \A k \in R : /\ row'[k].state = "absent" /\ row'[k].code = "none"
                   /\ row'[k].attempts = 0 /\ row'[k].result = "none"
                   /\ row'[k].outbox = 0 /\ row'[k].history = FALSE
  BY <1>4, AbsentRow
<1>6. \A k \in V : row[k].result = "stored"
  BY DEF Results
<1>7. /\ older' \in [Keys -> SUBSET Keys]
      /\ fresh' \in SUBSET Keys
      /\ submitting' \in [Keys -> {"done", "register", "attach"}]
      /\ cancelling' = cancelling \ R
  BY <1>1 DEF PurgeRows, TypeOK
<1>8. TypeOK'
  BY <1>2, <1>4, <1>7 DEF TypeOK
<1>9. NoStrandedRow'
  BY <1>3, <1>4, <1>5 DEF NoStrandedRow, InFlight
<1>10. ResultIffCompleted'
  BY <1>3, <1>4, <1>5, <1>6 DEF ResultIffCompleted, SameData, InFlight
<1>11. RetryBudget' /\ BudgetInv'
  BY <1>2, <1>3, <1>4, <1>5 DEF RetryBudget, BudgetInv, SameData, TypeOK, InFlight
<1>12. PushedOnce'
  BY <1>3, <1>4, <1>5 DEF PushedOnce, SameData, InFlight
<1>13. HookReflectsState'
  BY <1>2 DEF HookReflectsState, Idle
<1>14. WorkerInv'
  <2>1. w' = Idle /\ w'.pc = "idle" /\ w'.key = None
    BY <1>2 DEF Idle
  <2>2. ASSUME NEW k \in cancelling' PROVE row'[k].state = "cancelled"
    <3>1. k \in cancelling /\ k \in Keys /\ k \notin R
      BY <1>7 DEF TypeOK
    <3>2. row[k].state = "cancelled"
      BY <3>1, Zenon DEF WorkerInv
    <3> QED
      BY <1>3, <1>4, <3>1, <3>2 DEF InFlight
  <2> QED
    BY <2>1, <2>2 DEF WorkerInv
<1>15. RowSteps
  <2> SUFFICES ASSUME NEW k \in Keys PROVE RowStep(k)
    BY DEF RowSteps
  <2>1. CASE k \in R
    BY <1>1, <1>5, <2>1, Zenon DEF RowStep, PurgeRows, Expired
  <2>2. CASE k \notin R /\ row[k].state \in InFlight
    <3>1. k \notin V
      BY <1>6, <2>2 DEF ResultIffCompleted, InFlight
    <3>2. /\ row'[k].state = "queued" /\ row'[k].result = row[k].result
          /\ row'[k].outbox = row[k].outbox
      BY <1>3, <1>4, <2>2, <3>1 DEF SameData
    <3>3. CanTransition(row[k].state, "queued")
      BY <2>2 DEF InFlight, CanTransition, Terminal, TerminalStates
    <3> QED
      BY <3>2, <3>3 DEF RowStep
  <2>3. CASE k \notin R /\ row[k].state \notin InFlight
    BY <1>3, <1>4, <1>6, <2>3 DEF RowStep, SameData
  <2> QED
    BY <2>1, <2>2, <2>3
<1> QED
  BY <1>15, <1>8, <1>9, <1>10, <1>11, <1>12, <1>13, <1>14

(* The hook is installed. *)
LEMMA HookInv ==
  ASSUME Inv, SetCompletionHook
  PROVE  Inv' /\ RowSteps
<1> USE KeysAssumption DEF Inv
<1>1. /\ UNCHANGED <<row, older, fresh, w, submitting, cancelling, restarts, faults>>
      /\ proc = "starting" /\ proc' = "up"
  BY DEF SetCompletionHook
<1>2. TypeOK'
  BY <1>1 DEF TypeOK
<1>3. NoStrandedRow'
  BY <1>1 DEF NoStrandedRow, Holds
<1>4. ResultIffCompleted' /\ RetryBudget' /\ PushedOnce' /\ BudgetInv'
  BY <1>1 DEF ResultIffCompleted, RetryBudget, PushedOnce, BudgetInv
<1>5. HookReflectsState' /\ WorkerInv'
  BY <1>1 DEF HookReflectsState, WorkerInv, Live
<1>6. RowSteps
  BY <1>1 DEF RowSteps, RowStep
<1> QED
  BY <1>6, <1>2, <1>3, <1>4, <1>5

(* A shutdown is counted before it interrupts the worker. *)
LEMMA ShutdownInv ==
  ASSUME Inv, Shutdown
  PROVE  Inv' /\ RowSteps
<1> USE KeysAssumption, BoundsAssumption DEF Inv
<1>1. /\ UNCHANGED <<row, older, fresh, submitting, cancelling, faults>>
      /\ proc' = "stopping" /\ restarts' = restarts + 1
      /\ restarts < MaxRestarts /\ restarts \in Nat
      /\ w' = [w EXCEPT !.cancelled = (w.pc # "idle")]
  BY DEF Shutdown, TypeOK
<1>2. /\ w'.pc = w.pc /\ w'.key = w.key /\ w'.attempts = w.attempts
      /\ w'.sub = w.sub /\ w'.final = w.final
      /\ w' \in Iteration
  <2>1. (w.pc # "idle") \in BOOLEAN
    OBVIOUS
  <2> QED
    BY <1>1, <2>1, Zenon DEF TypeOK, Iteration
<1>3. TypeOK'
  BY <1>1, <1>2 DEF TypeOK
<1>4. \A k \in Keys : row[k].attempts \in Nat
  BY DEF TypeOK, Row
<1>5. NoStrandedRow' /\ ResultIffCompleted' /\ PushedOnce'
  BY <1>1 DEF NoStrandedRow, ResultIffCompleted, PushedOnce
<1>6. RetryBudget' /\ BudgetInv'
  BY <1>1, <1>4 DEF RetryBudget, BudgetInv
<1>7. HookReflectsState'
  BY <1>1, <1>2 DEF HookReflectsState
<1>8. WorkerInv'
  <2>1. w.pc = "idle" => w' = Idle
    <3> SUFFICES ASSUME w.pc = "idle" PROVE w' = Idle
      OBVIOUS
    <3>1. w = Idle /\ w' = [w EXCEPT !.cancelled = FALSE]
      BY <1>1, Zenon DEF WorkerInv
    <3> QED
      BY <3>1, Zenon DEF Idle
  <2> QED
    BY <1>1, <1>2, <2>1 DEF WorkerInv, Live
<1>9. RowSteps
  BY <1>1 DEF RowSteps, RowStep
<1> QED
  BY <1>9, <1>3, <1>5, <1>6, <1>7, <1>8

(* The process is gone: a crash, or the end of a shutdown, is counted. *)
LEMMA GoneInv ==
  ASSUME Inv, Gone, restarts' \in 0..MaxRestarts,
         \/ proc = "stopping" /\ restarts' = restarts
         \/ restarts' = restarts + 1
  PROVE  Inv' /\ RowSteps
<1> USE KeysAssumption, BoundsAssumption DEF Inv
<1>1. /\ UNCHANGED <<row, older, fresh, faults>>
      /\ proc' = "down" /\ w' = Idle /\ cancelling' = {}
      /\ submitting' = [k \in Keys |-> "done"]
      /\ restarts \in Nat
  BY DEF Gone, TypeOK
<1>2. TypeOK'
  BY <1>1 DEF TypeOK, Idle, Iteration, Codes
<1>3. \A k \in Keys : row[k].attempts \in Nat
  BY DEF TypeOK, Row
<1>4. NoStrandedRow' /\ ResultIffCompleted' /\ PushedOnce'
  BY <1>1 DEF NoStrandedRow, ResultIffCompleted, PushedOnce
<1>5. RetryBudget' /\ BudgetInv'
  BY <1>1, <1>3 DEF RetryBudget, BudgetInv
<1>6. HookReflectsState' /\ WorkerInv'
  BY <1>1 DEF HookReflectsState, WorkerInv, Idle
<1>7. RowSteps
  BY <1>1 DEF RowSteps, RowStep
<1> QED
  BY <1>7, <1>2, <1>4, <1>5, <1>6

(* The clock changes what is due and nothing else. *)
LEMMA TickInv ==
  ASSUME Inv, Tick
  PROVE  Inv' /\ RowSteps
<1> USE DEF Inv
<1>1. ASSUME NEW k \in Keys
      PROVE  /\ row'[k] \in Row
             /\ row'[k].state = row[k].state
             /\ row'[k].code = row[k].code
             /\ SameData(row'[k], row[k])
  <2>1. row[k] \in Row
    BY DEF TypeOK
  <2>2. PICK n \in Nat : row'[k] = [row[k] EXCEPT !.wait = n]
    <3>1. (IF row[k].wait > 0 THEN row[k].wait - 1 ELSE 0) \in Nat
      BY <2>1 DEF Row
    <3> QED
      BY <3>1 DEF Tick
  <2> QED
    BY <2>1, <2>2 DEF Row, SameData
<1>2. row' = [k \in Keys |-> row'[k]]
  BY DEF Tick
<1>3. TypeOK'
  BY <1>1, <1>2, Zenon DEF TypeOK, Tick
<1> QED
  BY <1>1, <1>3, QuietInv DEF Tick

-------------------------------------------------------------------------------
(* The theorems *)

(* The empty database satisfies the invariant. *)
LEMMA InitInv == Init => Inv
<1> SUFFICES ASSUME Init PROVE Inv
  OBVIOUS
<1> USE KeysAssumption, BoundsAssumption DEF Init
<1>1. TypeOK
  BY AbsentRow DEF TypeOK, Idle, Iteration, Codes
<1>2. NoStrandedRow /\ ResultIffCompleted /\ RetryBudget /\ PushedOnce /\ BudgetInv
  BY AbsentRow DEF NoStrandedRow, ResultIffCompleted, RetryBudget, PushedOnce, BudgetInv
<1>3. HookReflectsState /\ WorkerInv
  BY DEF HookReflectsState, WorkerInv, Idle
<1> QED
  BY <1>1, <1>2, <1>3 DEF Inv

(* Inv is inductive, and every step takes every row along its lifecycle. *)
LEMMA StepInv ==
  ASSUME Inv, [Next]_vars
  PROVE  Inv' /\ RowSteps
<1> USE KeysAssumption, BoundsAssumption
<1>1. ASSUME NEW k \in Keys, Client(k) PROVE Inv' /\ RowSteps
  <2>1. CASE \E left \in Callbacks : Submit(k, left)
    BY <2>1, SubmitInv
  <2>2. CASE RegisterCallback(k) \/ SubmitAborts(k)
    <3>1. TypeOK'
      BY <2>2 DEF Inv, TypeOK, RegisterCallback, SubmitAborts
    <3> QED
      BY <2>2, <3>1, QuietInv DEF RegisterCallback, SubmitAborts, SameData
  <2>3. CASE AttachCallback(k)
    BY <2>3, AttachInv
  <2>4. CASE Cancel(k)
    BY <2>4, CancelInv
  <2>5. CASE SignalCancel(k)
    BY <2>5, SignalCancelInv
  <2> QED
    BY <1>1, <2>1, <2>2, <2>3, <2>4, <2>5 DEF Client
<1>2. CASE Claim
  BY <1>2, ClaimInv
<1>3. CASE WorkerStep
  <2>1. CASE ResolveFailed
    BY <2>1, CallFailedInv DEF ResolveFailed, InFlight
  <2>2. CASE LocateFailed
    BY <2>2, CallFailedInv DEF LocateFailed, InFlight
  <2>3. CASE NoImmediateResult
    BY <2>3, FailInv DEF NoImmediateResult, InFlight, Codes
  <2>4. CASE \E position \in BOOLEAN : Located(position)
    BY <2>4, LocatedInv
  <2> QED
    BY <1>3, <2>1, <2>2, <2>3, <2>4, RegisterInv, ResolvedInv, RecordHistoryInv, NotifyInv
    DEF WorkerStep
<1>4. CASE StoreFault
  BY <1>4, StoreFaultInv
<1>5. CASE Process
  <2>1. CASE Exit
    BY <2>1, GoneInv DEF Exit, Inv, TypeOK
  <2>2. CASE Crash
    <3>1. restarts' \in 0..MaxRestarts
      BY <2>2 DEF Crash, Inv, TypeOK
    <3> QED
      BY <2>2, <3>1, GoneInv DEF Crash
  <2> QED
    BY <1>5, <2>1, <2>2, PurgeInv, BootInv, HookInv, ShutdownInv DEF Process
<1>6. CASE Tick
  BY <1>6, TickInv
<1>7. CASE UNCHANGED vars
  <2>1. TypeOK'
    BY <1>7 DEF Inv, TypeOK, vars
  <2> QED
    BY <1>7, <2>1, QuietInv DEF vars, SameData
<1> QED
  BY <1>1, <1>2, <1>3, <1>4, <1>5, <1>6, <1>7 DEF Next

-------------------------------------------------------------------------------
(* The steps that push nothing and purge nothing *)
Unpushing ==
    \/ \E j \in Keys : Client(j)
    \/ Claim \/ Register \/ ResolveFailed \/ Resolved \/ LocateFailed \/ NoImmediateResult
    \/ \E position \in BOOLEAN : Located(position)
    \/ RecordHistory
    \/ SetCompletionHook \/ Shutdown \/ Exit \/ Crash
    \/ Tick
    \/ UNCHANGED vars

(* Only the hook pushes, and Recover forgets no push. *)
LEMMA OutboxKept ==
  ASSUME Inv, NEW k \in Keys,
         \/ Unpushing
         \/ \E p \in {"starting", "down"} :
                Started(p) /\ (row'[k].state = "absent" => row[k].state = "absent")
  PROVE  row'[k].outbox = row[k].outbox
<1> USE DEF Inv
<1>1. row \in [Keys -> Row]
  BY DEF TypeOK
<1>2. CASE \E j \in Keys : Client(j)
  <2>1. PICK j \in Keys : Client(j)
    BY <1>2
  <2>0. row[j] \in Row
    BY <1>1
  <2>2. CASE \E left \in Callbacks : Submit(j, left)
    <3>1. row' = [row EXCEPT ![j] = Created] /\ row[j].state = "absent"
      BY <2>2 DEF Submit
    <3>2. row[j].outbox = 0
      BY <1>1, <3>1 DEF PushedOnce, Row
    <3>3. Created.outbox = 0
      BY CreatedRow, AbsentRow DEF SameData
    <3> QED
      BY <1>1, <3>1, <3>2, <3>3
  <2>3. CASE AttachCallback(j)
    <3>1. row' = [row EXCEPT ![j] = Subscribed(row[j])]
      BY <2>3 DEF AttachCallback
    <3>2. Subscribed(row[j]).outbox = row[j].outbox
      BY <2>0, SubscribedRow, Zenon
    <3> QED
      BY <1>1, <3>1, <3>2
  <2>4. CASE Cancel(j)
    BY <1>1, <2>4, CancelledRow DEF Cancel, SameData
  <2>5. CASE RegisterCallback(j) \/ SubmitAborts(j) \/ SignalCancel(j)
    BY <2>5 DEF RegisterCallback, SubmitAborts, SignalCancel
  <2> QED
    BY <2>1, <2>2, <2>3, <2>4, <2>5 DEF Client
<1>3. CASE Claim
  BY <1>1, <1>3, ClaimedRow DEF Claim
<1>4. ASSUME NEW from, NEW delay \in Nat, NEW code \in Codes, Requeue(from, delay, code)
      PROVE  row'[k].outbox = row[k].outbox
  BY <1>1, <1>4, RequeuedRow DEF Requeue, RowIs, SameData
<1>5. ASSUME NEW from, NEW code \in Codes, FailRequest(from, code)
      PROVE  row'[k].outbox = row[k].outbox
  BY <1>1, <1>5, FailedRow DEF FailRequest, RowIs, SameData
<1>6. CASE ResolveFailed \/ LocateFailed
  <2>1. PICK from, e : CallFailed(from, e)
    BY <1>6 DEF ResolveFailed, LocateFailed
  <2>2. w.pc \in {"resolving", "locating"}
    BY <1>6 DEF ResolveFailed, LocateFailed
  <2>3. w.attempts < MaxAttempts => 2^(w.attempts - 1) \in Nat
    <3>1. w.attempts \in Nat
      BY DEF TypeOK, Iteration
    <3>2. w.attempts >= 1
      BY <2>2 DEF WorkerInv
    <3> QED
      BY <3>1, <3>2, BoundsAssumption
  <2> QED
    BY <1>4, <1>5, <2>1, <2>3 DEF CallFailed, HandleError, Codes
<1>7. CASE NoImmediateResult
  BY <1>5, <1>7 DEF NoImmediateResult, Codes
<1>8. CASE Resolved
  BY <1>1, <1>8, LocatingRow DEF Resolved, RowIs, SameData
<1>9. CASE \E position \in BOOLEAN : Located(position)
  BY <1>1, <1>9, CompletedRow DEF Located, RowIs
<1>10. CASE RecordHistory
  <2>1. row' = row \/ (w.key \in Keys /\ row' = [row EXCEPT ![w.key] = Recorded(row[w.key])])
    BY <1>10 DEF RecordHistory
  <2>2. w.key \in Keys => Recorded(row[w.key]).outbox = row[w.key].outbox
    <3>1. w.key \in Keys => row[w.key] \in Row
      BY <1>1
    <3> QED
      BY <3>1, RecordedRow, Zenon
  <2> QED
    BY <1>1, <2>1, <2>2
<1>11. CASE Register \/ SetCompletionHook \/ Shutdown \/ Exit \/ Crash \/ UNCHANGED vars
  BY <1>11 DEF Register, SetCompletionHook, Shutdown, Exit, Crash, Gone, vars
<1>12. CASE Tick
  <2>1. row[k] \in Row
    BY <1>1
  <2> QED
    BY <1>12, <2>1 DEF Tick, Row
<1>13. ASSUME NEW p, Started(p), row'[k].state = "absent" => row[k].state = "absent"
       PROVE  row'[k].outbox = row[k].outbox
  <2> DEFINE rows == [j \in Keys |-> Recovered(row[j])]
  <2>1. PICK R \in SUBSET Keys, V \in SUBSET Results : PurgeRows(R, V, rows)
    BY <1>13 DEF Started
  <2>2. /\ row'[k] = IF k \in R THEN NoRow ELSE IF k \in V THEN Unresulted(rows[k]) ELSE rows[k]
        /\ k \in R => Terminal(row[k].state)
    BY <2>1 DEF PurgeRows, Expired
  <2>3. rows[k] \in Row /\ rows[k].outbox = row[k].outbox
    BY <1>1, RecoveredRow DEF SameData
  <2>4. NoRow.state = "absent" /\ ~Terminal("absent")
    BY DEF NoRow, Terminal, TerminalStates
  <2> HIDE DEF rows
  <2> QED
    BY <1>13, <2>2, <2>3, <2>4, UnresultedRow
<1> QED
  BY <1>2, <1>3, <1>6, <1>7, <1>8, <1>9, <1>10, <1>11, <1>12, <1>13 DEF Unpushing

(* Only the sweep forgets a row. *)
LEMMA RowKept ==
  ASSUME Inv, NEW k \in Keys, Unpushing, row'[k].state = "absent"
  PROVE  row[k].state = "absent"
<1> USE DEF Inv
<1>1. row \in [Keys -> Row]
  BY DEF TypeOK
<1>2. ASSUME NEW j \in Keys, NEW r, r.state # "absent" \/ r.state = row[j].state,
             row' = [row EXCEPT ![j] = r]
      PROVE  row[k].state = "absent"
  <2>1. CASE j = k
    BY <1>1, <1>2, <2>1
  <2>2. CASE j # k
    BY <1>1, <1>2, <2>2
  <2> QED
    BY <2>1, <2>2
<1>3. CASE row' = row
  BY <1>3
<1>4. CASE \E j \in Keys : Client(j)
  <2>1. PICK j \in Keys : Client(j)
    BY <1>4
  <2>2. row[j] \in Row
    BY <1>1
  <2>3. CASE \E left \in Callbacks : Submit(j, left)
    <3>1. row' = [row EXCEPT ![j] = Created] /\ Created.state # "absent"
      BY <2>3, CreatedRow DEF Submit
    <3> QED
      BY <1>2, <3>1, Zenon
  <2>4. CASE AttachCallback(j)
    <3>1. row' = [row EXCEPT ![j] = Subscribed(row[j])]
      BY <2>4 DEF AttachCallback
    <3>2. Subscribed(row[j]).state = row[j].state
      BY <2>2, SubscribedRow, Zenon
    <3> QED
      BY <1>2, <3>1, <3>2, Zenon
  <2>5. CASE Cancel(j)
    <3>1. row' = [row EXCEPT ![j] = Cancelled(row[j])]
      BY <2>5 DEF Cancel
    <3>2. Cancelled(row[j]).state # "absent"
      BY <2>2, CancelledRow
    <3> QED
      BY <1>2, <3>1, <3>2, Zenon
  <2>6. CASE RegisterCallback(j) \/ SubmitAborts(j) \/ SignalCancel(j)
    BY <1>3, <2>6 DEF RegisterCallback, SubmitAborts, SignalCancel
  <2> QED
    BY <2>1, <2>3, <2>4, <2>5, <2>6 DEF Client
<1>5. CASE Claim
  <2>1. PICK j \in Keys : row' = [row EXCEPT ![j] = Claimed(row[j])]
    BY <1>5, Zenon DEF Claim
  <2>2. Claimed(row[j]).state # "absent"
    BY <1>1, ClaimedRow
  <2> QED
    BY <1>2, <2>1, <2>2, Zenon
<1>6. ASSUME NEW r, w.key \in Keys => r.state # "absent" \/ r.state = row[w.key].state,
             row' = row \/ (w.key \in Keys /\ row' = [row EXCEPT ![w.key] = r])
      PROVE  row[k].state = "absent"
  BY <1>2, <1>3, <1>6, Zenon
<1>7. ASSUME NEW from, NEW delay \in Nat, NEW code \in Codes, Requeue(from, delay, code)
      PROVE  row[k].state = "absent"
  <2>1. row' = row \/ (w.key \in Keys /\ row' = [row EXCEPT ![w.key] = Requeued(row[w.key], delay, code)])
    BY <1>7 DEF Requeue, RowIs
  <2>2. w.key \in Keys => Requeued(row[w.key], delay, code).state # "absent"
    BY <1>1, RequeuedRow
  <2> QED
    BY <1>6, <2>1, <2>2, Zenon
<1>8. ASSUME NEW from, NEW code \in Codes, FailRequest(from, code)
      PROVE  row[k].state = "absent"
  <2>1. row' = row \/ (w.key \in Keys /\ row' = [row EXCEPT ![w.key] = Failed(row[w.key], code)])
    BY <1>8 DEF FailRequest, RowIs
  <2>2. w.key \in Keys => Failed(row[w.key], code).state # "absent"
    BY <1>1, <1>8, FailedRow
  <2> QED
    BY <1>6, <2>1, <2>2, Zenon
<1>9. CASE ResolveFailed \/ LocateFailed
  <2>1. PICK from, e : CallFailed(from, e)
    BY <1>9 DEF ResolveFailed, LocateFailed
  <2>2. w.attempts \in Nat /\ w.attempts >= 1
    BY <1>9 DEF ResolveFailed, LocateFailed, TypeOK, Iteration, WorkerInv
  <2>3. w.attempts < MaxAttempts => 2^(w.attempts - 1) \in Nat
    BY <2>2, BoundsAssumption
  <2> QED
    BY <1>7, <1>8, <2>1, <2>3 DEF CallFailed, HandleError, Codes
<1>10. CASE NoImmediateResult
  BY <1>8, <1>10 DEF NoImmediateResult, Codes
<1>11. CASE Resolved
  <2>1. row' = row \/ (w.key \in Keys /\ row' = [row EXCEPT ![w.key] = Locating(row[w.key])])
    BY <1>11 DEF Resolved, RowIs
  <2>2. w.key \in Keys => Locating(row[w.key]).state # "absent"
    BY <1>1, LocatingRow
  <2> QED
    BY <1>6, <2>1, <2>2, Zenon
<1>12. CASE \E position \in BOOLEAN : Located(position)
  <2>1. row' = row \/ (w.key \in Keys /\ row' = [row EXCEPT ![w.key] = Completed(row[w.key])])
    BY <1>12 DEF Located, RowIs
  <2>2. w.key \in Keys => Completed(row[w.key]).state # "absent"
    BY <1>1, CompletedRow
  <2> QED
    BY <1>6, <2>1, <2>2, Zenon
<1>13. CASE RecordHistory
  <2>1. row' = row \/ (w.key \in Keys /\ row' = [row EXCEPT ![w.key] = Recorded(row[w.key])])
    BY <1>13 DEF RecordHistory
  <2>2. w.key \in Keys => Recorded(row[w.key]).state = row[w.key].state
    BY <1>1, RecordedRow, Zenon
  <2> QED
    BY <1>6, <2>1, <2>2, Zenon
<1>14. CASE Register \/ SetCompletionHook \/ Shutdown \/ Exit \/ Crash \/ UNCHANGED vars
  BY <1>3, <1>14 DEF Register, SetCompletionHook, Shutdown, Exit, Crash, Gone, vars
<1>15. CASE Tick
  <2>1. row[k] \in Row
    BY <1>1
  <2> QED
    BY <1>15, <2>1 DEF Tick, Row
<1> QED
  BY <1>4, <1>5, <1>9, <1>10, <1>11, <1>12, <1>13, <1>14, <1>15 DEF Unpushing

(* The inductive invariant holds in every reachable state, whatever the    *)
(* clients, the worker, the sweep, the crashes and the failing writes do.  *)
THEOREM Safety == Spec => []Inv
<1>1. Inv /\ [Next]_vars => Inv'
  BY StepInv
<1> QED
  BY InitInv, <1>1, PTL DEF Spec

(* TypeOK holds: the tables and the worker's locals keep their types. *)
THEOREM Typing == Spec => []TypeOK
<1>1. Inv => TypeOK
  BY DEF Inv
<1> QED
  BY <1>1, Safety, PTL

(* NoStrandedRow holds: as long as no store write fails, the running       *)
(* process never has a row in resolving or locating that its worker is not *)
(* at that stage of.                                                       *)
THEOREM NoStranding == Spec => []NoStrandedRow
<1>1. Inv => NoStrandedRow
  BY DEF Inv
<1> QED
  BY <1>1, Safety, PTL

(* RetryBudget holds: at most maxAttempts tries plus one per restart, and  *)
(* no fewer than maxAttempts before a request is given up as temporarily   *)
(* unavailable.                                                            *)
THEOREM BoundedRetries == Spec => []RetryBudget
<1>1. Inv => RetryBudget
  BY DEF Inv
<1> QED
  BY <1>1, Safety, PTL

(* PushedOnce holds: the completion hook enqueues at most one delivery,    *)
(* only for a completed or failed request with a callback.                 *)
THEOREM AtMostOneDelivery == Spec => []PushedOnce
<1>1. Inv => PushedOnce
  BY DEF Inv
<1> QED
  BY <1>1, Safety, PTL

(* ResultIffCompleted holds: CompleteRequest writes state and result       *)
(* together, and only Purge takes the result away again.                   *)
THEOREM OwnedResults == Spec => []ResultIffCompleted
<1>1. Inv => ResultIffCompleted
  BY DEF Inv
<1> QED
  BY <1>1, Safety, PTL

(* HookReflectsState holds: the completion hook reports the state that the *)
(* row has for good.                                                       *)
THEOREM HookTruthful == Spec => []HookReflectsState
<1>1. Inv => HookReflectsState
  BY DEF Inv
<1> QED
  BY <1>1, Safety, PTL

(* What the lifecycle sees of a row *)
LEMMA LifeOfRow ==
  /\ \A k \in Keys : /\ Life[k] = [state |-> row[k].state, result |-> row[k].result,
                                   outbox |-> row[k].outbox]
                     /\ Life[k].state = row[k].state
                     /\ Life[k].result = row[k].result
                     /\ Life[k].outbox = row[k].outbox
  /\ \A k \in Keys : /\ Life'[k] = [state |-> row'[k].state, result |-> row'[k].result,
                                    outbox |-> row'[k].outbox]
                     /\ Life'[k].state = row'[k].state
                     /\ Life'[k].result = row'[k].result
                     /\ Life'[k].outbox = row'[k].outbox
BY DEF Life

(* Lifecycle holds: the store, the worker, the sweep and the restarts      *)
(* together implement the abstract life of a request, in which rows move   *)
(* only along domain.CanTransition.                                        *)
THEOREM Refinement == Spec => Lifecycle
<1>1. Init => L!Init
  BY DEF Init, L!Init, L!NoLife, Life, NoRow
<1>2. Inv /\ [Next]_vars => [L!Next]_Life
  <2> SUFFICES ASSUME Inv, [Next]_vars, NEW k \in Keys
               PROVE  \/ Life'[k] = Life[k]
                      \/ L!Accept(k) \/ L!Move(k) \/ L!Push(k)
                      \/ L!ExpireResult(k) \/ L!Forget(k)
    BY DEF L!Next
  <2>1. RowStep(k)
    BY StepInv DEF RowSteps
  <2>2. CASE /\ row'[k].state = row[k].state
             /\ row'[k].result = row[k].result
             /\ row'[k].outbox = row[k].outbox
    BY <2>2, LifeOfRow, Zenon
  <2>3. CASE /\ row[k].state = "absent"
             /\ row'[k].state = "queued" /\ row'[k].result = "none" /\ row'[k].outbox = 0
    BY <2>3, LifeOfRow, Zenon DEF L!Accept
  <2>4. CASE /\ CanTransition(row[k].state, row'[k].state)
             /\ row'[k].result = IF row'[k].state = "completed" THEN "stored"
                                 ELSE row[k].result
             /\ row'[k].outbox = row[k].outbox
    BY <2>4, LifeOfRow, Zenon DEF L!Move, L!CanTransition, CanTransition, L!Terminal, Terminal,
                           L!TerminalStates, TerminalStates
  <2>5. CASE /\ row[k].state \in {"completed", "failed"} /\ row[k].outbox = 0
             /\ row'[k].state = row[k].state
             /\ row'[k].result = row[k].result
             /\ row'[k].outbox = 1
    <3>1. Life'[k] = [state |-> row[k].state, result |-> row[k].result, outbox |-> 1]
      BY <2>5, LifeOfRow
    <3> QED
      BY <2>5, <3>1, LifeOfRow, Zenon DEF L!Push
  <2>6. CASE /\ row[k].result = "stored"
             /\ row'[k].state = row[k].state
             /\ row'[k].result = "purged"
             /\ row'[k].outbox = row[k].outbox
    <3>0. /\ Life[k].state = row[k].state /\ Life[k].result = row[k].result
          /\ Life[k].outbox = row[k].outbox
          /\ Life'[k] = [state |-> row'[k].state, result |-> row'[k].result,
                         outbox |-> row'[k].outbox]
      BY LifeOfRow, Zenon
    <3>1. Life[k].result = "stored"
      BY <2>6, <3>0, Zenon
    <3>2. Life'[k] = [state |-> Life[k].state, result |-> "purged", outbox |-> Life[k].outbox]
      BY <2>6, <3>0, Zenon
    <3>3. L!ExpireResult(k)
      BY <3>1, <3>2, Zenon DEF L!ExpireResult
    <3> QED
      BY <3>3, Zenon
  <2>7. CASE /\ Terminal(row[k].state)
             /\ row'[k].state = "absent" /\ row'[k].result = "none" /\ row'[k].outbox = 0
    BY <2>7, LifeOfRow, Zenon DEF L!Forget, L!NoLife, L!Terminal, Terminal, L!TerminalStates,
                           TerminalStates
  <2> QED
    BY <2>1, <2>2, <2>3, <2>4, <2>5, <2>6, <2>7, Zenon DEF RowStep
<1> QED
  BY <1>1, <1>2, Safety, PTL DEF Spec, L!Spec, Lifecycle
===============================================================================
