------------------------- MODULE DeliveryOutboxProofs -------------------------
(***************************************************************************)
(* The safety properties of DeliveryOutbox for any set of deliveries, any  *)
(* retry limits and any number of restarts and store faults.               *)
(*                                                                         *)
(* None of them is inductive: what a row may become depends on how far the *)
(* worker that holds it has come.  Inv adds that the worker holds the row  *)
(* it claimed as it left it, that a claim which a shutdown interrupts has  *)
(* already been paid for by that shutdown, and that a payload is counted   *)
(* as received at most once per claim.                                     *)
(***************************************************************************)
EXTENDS DeliveryOutbox, TLAPS

States == {"absent", "pending", "in_flight", "delivered", "failed"}

Row == [state : States, attempts : Nat, wait : Nat]

Iteration == [pc : {"idle", "claimed", "posting", "posted"}, id : Deliveries \cup {None},
              attempts : Nat, cancelled : BOOLEAN]

Types ==
    /\ outbox \in [Deliveries -> Row]
    /\ w \in Iteration
    /\ received \in [Deliveries -> Nat]
    /\ restarts \in Nat /\ faults \in Nat

(* The worker's copy is the row it claimed. *)
Held ==
    w.pc # "idle" =>
        /\ w.id \in Deliveries
        /\ outbox[w.id].state = "in_flight"
        /\ w.attempts = outbox[w.id].attempts

(* Each shutdown grants the claim it interrupts one more try. *)
Claims ==
    /\ \A i \in Deliveries :
        /\ outbox[i].attempts <= MaxAttempts + restarts
        /\ outbox[i].state \in {"absent", "pending"} => outbox[i].attempts < MaxAttempts + restarts
    /\ w.cancelled => w.pc # "idle" /\ restarts > 0 /\ w.attempts < MaxAttempts + restarts
    /\ proc = "stopping" => restarts > 0

Arrivals ==
    /\ \A i \in Deliveries :
        /\ received[i] <= outbox[i].attempts
        /\ outbox[i].state = "delivered" => received[i] >= 1
    /\ w.pc \in {"claimed", "posting"} => received[w.id] < outbox[w.id].attempts
    /\ w.pc = "posted" => received[w.id] >= 1

Earned ==
    Undisturbed =>
        \A i \in Deliveries :
            /\ outbox[i].state = "in_flight" => w.pc # "idle" /\ w.id = i
            /\ outbox[i].state = "failed" /\ i \notin Broken => outbox[i].attempts = MaxAttempts

Inv == Types /\ Held /\ Claims /\ Arrivals /\ Earned

-------------------------------------------------------------------------------
(* What the SET clauses make of a row *)
LEMMA ClaimedRow ==
  ASSUME NEW r \in Row
  PROVE  /\ Claimed(r) \in Row
         /\ Claimed(r).state = "in_flight"
         /\ Claimed(r).attempts = r.attempts + 1
<1> DEFINE q == [r EXCEPT !.state = "in_flight", !.wait = 0]
<1>1. q \in Row /\ q.state = "in_flight" /\ q.attempts = r.attempts
  BY Zenon DEF Row, States
<1>2. Claimed(r) = [q EXCEPT !.attempts = r.attempts + 1]
  BY Zenon DEF Claimed, Row
<1> HIDE DEF q
<1> QED
  BY <1>1, <1>2 DEF Row

LEMMA RequeuedRow ==
  ASSUME NEW r \in Row, NEW delay \in Nat
  PROVE  /\ Requeued(r, delay) \in Row
         /\ Requeued(r, delay).state = "pending"
         /\ Requeued(r, delay).attempts = r.attempts
<1> PICK n \in Nat : n = delay + 1
  OBVIOUS
<1>1. Requeued(r, delay) = [r EXCEPT !.state = "pending", !.wait = n]
  BY DEF Requeued
<1> QED
  BY <1>1, Zenon DEF Row, States

LEMMA EndedRow ==
  ASSUME NEW r \in Row
  PROVE  /\ Failed(r) \in Row /\ Failed(r).state = "failed"
         /\ Failed(r).attempts = r.attempts
         /\ Delivered(r) \in Row /\ Delivered(r).state = "delivered"
         /\ Delivered(r).attempts = r.attempts
BY DEF Failed, Delivered, Row, States

(* Between two iterations *)
LEMMA IdleWorker == Idle \in Iteration /\ Idle.pc = "idle" /\ ~Idle.cancelled
BY DEF Idle, Iteration

(* A second that passes leaves all but the wait of a row. *)
LEMMA TickedRow ==
  ASSUME NEW r \in Row, NEW x \in Nat
  PROVE  /\ [r EXCEPT !.wait = x] \in Row
         /\ [r EXCEPT !.wait = x].state = r.state
         /\ [r EXCEPT !.wait = x].attempts = r.attempts
BY DEF Row

LEMMA InitInv == Init => Inv
<1> SUFFICES ASSUME Init PROVE Inv
  OBVIOUS
<1>1. /\ outbox \in [Deliveries -> Row]
      /\ \A i \in Deliveries : outbox[i].state = "absent" /\ outbox[i].attempts = 0
  BY DEF Init, NoDelivery, Row, States
<1>2. w.pc = "idle" /\ ~w.cancelled /\ restarts = 0 /\ faults = 0 /\ received = [i \in Deliveries |-> 0]
  BY DEF Init, Idle
<1>3. Types
  BY <1>1, <1>2, IdleWorker DEF Types, Init
<1>4. Claims
  BY <1>1, <1>2, LimitsAssumption DEF Claims, Init
<1>5. Held /\ Arrivals /\ Earned
  BY <1>1, <1>2 DEF Held, Arrivals, Earned
<1> QED
  BY <1>3, <1>4, <1>5 DEF Inv

-------------------------------------------------------------------------------
(* Every step of Next preserves Inv *)

(* No row changes, and the worker goes on or, after a restart or a fault,  *)
(* starts afresh.                                                          *)
LEMMA QuietInv ==
  ASSUME Inv, UNCHANGED <<outbox, received>>,
         restarts' \in Nat, restarts' >= restarts, faults' \in Nat, faults' >= faults,
         w' = w \/ (w' = Idle /\ (w.pc = "idle" \/ restarts' > 0 \/ faults' > 0)),
         proc' = "stopping" => restarts' > 0
  PROVE  Inv'
<1> USE LimitsAssumption
<1>1. /\ outbox' = outbox /\ received' = received
      /\ outbox \in [Deliveries -> Row] /\ received \in [Deliveries -> Nat]
      /\ restarts \in Nat /\ faults \in Nat /\ MaxAttempts \in Nat
      /\ \A i \in Deliveries : outbox[i].attempts \in Nat
  BY DEF Inv, Types, Row
<1>2. w'.pc # "idle" => w' = w
  BY IdleWorker
<1>3. w'.cancelled => w' = w
  BY IdleWorker
<1>4. Types'
  BY <1>1, IdleWorker DEF Inv, Types
<1>5. Held'
  BY <1>1, <1>2 DEF Inv, Held
<1>6. Claims'
  <2>1. w.attempts \in Nat
    BY DEF Inv, Types, Iteration
  <2> QED
    BY <1>1, <1>3, <2>1 DEF Inv, Claims
<1>7. Arrivals'
  BY <1>1, <1>2 DEF Inv, Arrivals
<1>8. Earned'
  <2> SUFFICES ASSUME Undisturbed', NEW i \in Deliveries
               PROVE  /\ outbox[i].state = "in_flight" => w'.pc # "idle" /\ w'.id = i
                      /\ outbox[i].state = "failed" /\ i \notin Broken
                            => outbox[i].attempts = MaxAttempts
    BY <1>1 DEF Earned
  <2>1. restarts = 0 /\ faults = 0 /\ restarts' = 0 /\ faults' = 0
    BY <1>1 DEF Undisturbed
  <2>2. Undisturbed
    BY <2>1 DEF Undisturbed
  <2>3. w' = w \/ w.pc = "idle"
    BY <2>1
  <2> QED
    BY <2>2, <2>3 DEF Inv, Earned
<1> QED
  BY <1>4, <1>5, <1>6, <1>7, <1>8 DEF Inv

LEMMA ShutdownInv == Inv /\ Shutdown => Inv'
<1> SUFFICES ASSUME Inv, Shutdown PROVE Inv'
  OBVIOUS
<1> USE LimitsAssumption
<1>1. /\ outbox' = outbox /\ received' = received /\ faults' = faults
      /\ restarts' = restarts + 1 /\ restarts' > 0 /\ restarts' \in Nat
      /\ restarts \in Nat /\ MaxAttempts \in Nat /\ w.attempts \in Nat
      /\ \A i \in Deliveries : outbox[i].attempts \in Nat
  BY DEF Inv, Types, Row, Iteration, Shutdown
<1>2. /\ w' \in Iteration
      /\ w'.pc = w.pc /\ w'.id = w.id /\ w'.attempts = w.attempts
      /\ w'.cancelled => w.pc # "idle"
  BY Zenon DEF Inv, Types, Iteration, Shutdown
<1>3. Types'
  BY <1>1, <1>2 DEF Inv, Types
<1>4. Held' /\ Arrivals'
  BY <1>1, <1>2 DEF Inv, Held, Arrivals
<1>5. Claims'
  BY <1>1, <1>2 DEF Inv, Held, Claims
<1>6. Earned'
  BY <1>1 DEF Earned, Undisturbed
<1> QED
  BY <1>3, <1>4, <1>5, <1>6 DEF Inv

(* The conditional update that ends an iteration *)
LEMMA UpdateInv ==
  ASSUME Inv, w.pc # "idle", NEW r \in Row, Update(r),
         UNCHANGED <<proc, received, restarts>>, faults' \in Nat, faults' >= faults,
         r.attempts = outbox[w.id].attempts,
         r.state \in {"pending", "failed", "delivered"},
         r.state = "pending" => r.attempts < MaxAttempts + restarts,
         r.state = "delivered" => received[w.id] >= 1,
         r.state = "failed" => \/ w.id \in Broken \/ restarts > 0 \/ faults' > 0
                               \/ r.attempts >= MaxAttempts
  PROVE  Inv'
<1> USE LimitsAssumption
<1>1. w.id \in Deliveries /\ outbox[w.id].state = "in_flight"
  BY DEF Inv, Held
<1>2. /\ outbox' = [outbox EXCEPT ![w.id] = r]
      /\ w' = Idle
  BY <1>1 DEF Update
<1>3. /\ outbox' \in [Deliveries -> Row] /\ outbox'[w.id] = r
      /\ \A i \in Deliveries : outbox'[i].attempts = outbox[i].attempts
      /\ \A i \in Deliveries : i # w.id => outbox'[i] = outbox[i]
  BY <1>1, <1>2 DEF Inv, Types
<1>4. w' \in Iteration /\ w'.pc = "idle" /\ ~w'.cancelled
  BY <1>2, IdleWorker
<1>5. Types'
  BY <1>3, <1>4 DEF Inv, Types
<1>6. Held'
  BY <1>4 DEF Held
<1>7. Claims'
  BY <1>1, <1>3, <1>4 DEF Inv, Claims
<1>8. Arrivals'
  BY <1>1, <1>3, <1>4 DEF Inv, Arrivals
<1>9. Earned'
  <2> SUFFICES ASSUME Undisturbed', NEW i \in Deliveries
               PROVE  /\ outbox'[i].state # "in_flight"
                      /\ outbox'[i].state = "failed" /\ i \notin Broken
                            => outbox'[i].attempts = MaxAttempts
    BY DEF Earned
  <2>1. restarts = 0 /\ faults = 0 /\ restarts' = 0 /\ faults' = 0
    BY DEF Undisturbed, Inv, Types
  <2>2. Undisturbed
    BY <2>1 DEF Undisturbed
  <2>3. CASE i = w.id
    <3>1. r.attempts <= MaxAttempts /\ r.attempts \in Nat /\ MaxAttempts \in Nat
      BY <1>1, <2>1 DEF Inv, Claims, Row
    <3>2. r.state = "failed" /\ i \notin Broken => r.attempts = MaxAttempts
      BY <2>1, <2>3, <3>1
    <3> QED
      BY <1>3, <2>3, <3>2
  <2>4. CASE i # w.id
    BY <1>3, <2>2, <2>4 DEF Inv, Earned
  <2> QED
    BY <2>3, <2>4
<1> QED
  BY <1>5, <1>6, <1>7, <1>8, <1>9 DEF Inv

(* A row of the table is one of the type. *)
LEMMA HeldRow ==
  ASSUME Inv, w.pc # "idle"
  PROVE  /\ w.id \in Deliveries /\ outbox[w.id] \in Row
         /\ outbox[w.id].attempts = w.attempts /\ w.attempts \in Nat
BY DEF Inv, Held, Types, Iteration, Row

LEMMA FailInv ==
  ASSUME Inv, w.pc # "idle", FailDelivery,
         UNCHANGED <<proc, received, restarts>>, faults' \in Nat, faults' >= faults,
         \/ w.id \in Broken \/ restarts > 0 \/ faults' > 0 \/ w.attempts >= MaxAttempts
  PROVE  Inv'
<1> DEFINE r == Failed(outbox[w.id])
<1>1. r \in Row /\ r.state = "failed" /\ r.attempts = outbox[w.id].attempts
      /\ outbox[w.id].attempts = w.attempts
  BY HeldRow, EndedRow
<1>2. Update(r)
  BY DEF FailDelivery
<1> HIDE DEF r
<1> QED
  BY <1>1, <1>2, UpdateInv

LEMMA RequeueInv ==
  ASSUME Inv, w.pc # "idle", NEW delay \in Nat, RequeueDelivery(delay),
         UNCHANGED <<proc, received, restarts, faults>>,
         w.attempts < MaxAttempts + restarts
  PROVE  Inv'
<1> DEFINE r == Requeued(outbox[w.id], delay)
<1>1. r \in Row /\ r.state = "pending" /\ r.attempts = outbox[w.id].attempts
      /\ outbox[w.id].attempts = w.attempts
  BY HeldRow, RequeuedRow
<1>2. Update(r)
  BY DEF RequeueDelivery
<1>3. faults' \in Nat /\ faults' >= faults
  BY DEF Inv, Types
<1> HIDE DEF r
<1> QED
  BY <1>1, <1>2, <1>3, UpdateInv

(* A delay is a number of seconds as long as tries are left. *)
LEMMA BackoffType ==
  ASSUME NEW n \in Nat, n >= 1, n < MaxAttempts
  PROVE  Backoff(n) \in Nat
<1>1. BackoffMin \in Nat /\ BackoffMax \in Nat /\ MaxAttempts \in Nat
  BY LimitsAssumption
<1>2. n - 1 \in 0..MaxAttempts
  BY <1>1
<1>3. 2^(n - 1) \in Nat
  BY <1>2, LimitsAssumption
<1> DEFINE e == 2^(n - 1)
<1> HIDE DEF e
<1>4. BackoffMin * e \in Nat
  BY <1>1, <1>3 DEF e
<1>5. Backoff(n) = BackoffMin * e \/ Backoff(n) = BackoffMax
  BY DEF Backoff, e
<1> QED
  BY <1>1, <1>4, <1>5

LEMMA RetryOrFailInv ==
  ASSUME Inv, w.pc \in {"posting", "posted"}, RetryOrFail,
         UNCHANGED <<proc, received, restarts, faults>>
  PROVE  Inv'
<1>1. w.attempts \in Nat /\ w.attempts >= 1 /\ restarts \in Nat /\ MaxAttempts \in Nat
  <2>1. /\ w.attempts = outbox[w.id].attempts /\ w.attempts \in Nat /\ restarts \in Nat
        /\ MaxAttempts \in Nat /\ received[w.id] \in Nat
    BY HeldRow, LimitsAssumption DEF Inv, Types
  <2>2. \/ received[w.id] < w.attempts
        \/ received[w.id] >= 1 /\ received[w.id] <= w.attempts
    BY <2>1, HeldRow DEF Inv, Arrivals
  <2> QED
    BY <2>1, <2>2
<1>2. CASE w.attempts >= MaxAttempts /\ FailDelivery
  <2>1. faults' \in Nat /\ faults' >= faults
    BY DEF Inv, Types
  <2> QED
    BY <1>2, <2>1, FailInv
<1>3. CASE w.attempts < MaxAttempts /\ RequeueDelivery(Backoff(w.attempts))
  <2>1. Backoff(w.attempts) \in Nat
    BY <1>1, <1>3, BackoffType
  <2>2. w.attempts < MaxAttempts + restarts
    BY <1>1, <1>3
  <2> QED
    BY <1>3, <2>1, <2>2, RequeueInv
<1> QED
  BY <1>2, <1>3 DEF RetryOrFail

LEMMA PrepareInv == Inv /\ Prepare => Inv'
<1> SUFFICES ASSUME Inv, Prepare PROVE Inv'
  OBVIOUS
<1>1. w.pc = "claimed" /\ UNCHANGED <<proc, received, restarts, faults>> /\ faults \in Nat
  BY DEF Prepare, Inv, Types
<1>2. CASE (w.cancelled \/ w.id \in Broken) /\ FailDelivery
  <2>1. w.id \in Broken \/ restarts > 0
    BY <1>2 DEF Inv, Claims
  <2>2. faults' \in Nat /\ faults' >= faults
    BY <1>1
  <2> QED
    BY <1>1, <1>2, <2>1, <2>2, FailInv
<1>3. CASE w' = [w EXCEPT !.pc = "posting"] /\ UNCHANGED outbox
  <2>1. /\ w' \in Iteration /\ w'.pc = "posting" /\ w'.id = w.id
        /\ w'.attempts = w.attempts /\ w'.cancelled = w.cancelled
    BY <1>3 DEF Inv, Types, Iteration
  <2>2. Types' /\ Held' /\ Claims' /\ Arrivals'
    BY <1>1, <1>3, <2>1 DEF Inv, Types, Held, Claims, Arrivals
  <2>3. Earned'
    BY <1>1, <1>3, <2>1 DEF Inv, Earned, Undisturbed
  <2> QED
    BY <2>2, <2>3 DEF Inv
<1> QED
  BY <1>2, <1>3 DEF Prepare

LEMMA ArriveInv == Inv /\ Arrive => Inv'
<1> SUFFICES ASSUME Inv, Arrive PROVE Inv'
  OBVIOUS
<1>1. /\ w.pc = "posting" /\ UNCHANGED <<outbox, proc, restarts, faults>>
      /\ w.id \in Deliveries /\ received[w.id] \in Nat /\ outbox[w.id].attempts \in Nat
      /\ received[w.id] < outbox[w.id].attempts
  BY HeldRow DEF Arrive, Inv, Types, Arrivals, Row
<1>2. /\ w' \in Iteration /\ w'.pc = "posted" /\ w'.id = w.id
      /\ w'.attempts = w.attempts /\ w'.cancelled = w.cancelled
  BY DEF Arrive, Inv, Types, Iteration
<1>3. /\ received' \in [Deliveries -> Nat] /\ received'[w.id] = received[w.id] + 1
      /\ \A i \in Deliveries : i # w.id => received'[i] = received[i]
  BY <1>1 DEF Arrive, Inv, Types
<1>4. Types' /\ Held' /\ Claims'
  BY <1>1, <1>2, <1>3 DEF Inv, Types, Held, Claims
<1>5. Arrivals'
  <2>1. received'[w.id] >= 1 /\ received'[w.id] <= outbox[w.id].attempts
    BY <1>1, <1>3
  <2> QED
    BY <1>1, <1>2, <1>3, <2>1 DEF Inv, Arrivals
<1>6. Earned'
  BY <1>1, <1>2 DEF Inv, Earned, Undisturbed
<1> QED
  BY <1>4, <1>5, <1>6 DEF Inv

LEMMA AnsweredInv == Inv /\ (\E answer \in Answers : Answered(answer)) => Inv'
<1> SUFFICES ASSUME Inv, NEW answer \in Answers, Answered(answer) PROVE Inv'
  OBVIOUS
<1>1. w.pc = "posted" /\ UNCHANGED <<proc, received, restarts, faults>> /\ faults \in Nat
  BY DEF Answered, Inv, Types
<1>2. CASE MarkDelivered
  <2> DEFINE r == Delivered(outbox[w.id])
  <2>1. r \in Row /\ r.state = "delivered" /\ r.attempts = outbox[w.id].attempts
    BY <1>1, HeldRow, EndedRow
  <2>2. Update(r)
    BY <1>2 DEF MarkDelivered
  <2>3. received[w.id] >= 1
    BY <1>1 DEF Inv, Arrivals
  <2>4. faults' \in Nat /\ faults' >= faults
    BY <1>1
  <2> HIDE DEF r
  <2> QED
    BY <1>1, <2>1, <2>2, <2>3, <2>4, UpdateInv
<1>3. CASE RetryOrFail
  BY <1>1, <1>3, RetryOrFailInv
<1> QED
  BY <1>2, <1>3 DEF Answered

LEMMA CallFailedInv == Inv /\ CallFailed => Inv'
<1> SUFFICES ASSUME Inv, CallFailed PROVE Inv'
  OBVIOUS
<1>1. w.pc \in {"posting", "posted"} /\ UNCHANGED <<proc, received, restarts, faults>>
  BY DEF CallFailed
<1>2. CASE w.cancelled /\ RequeueDelivery(0)
  BY <1>1, <1>2, RequeueInv DEF Inv, Claims
<1>3. CASE RetryOrFail
  BY <1>1, <1>3, RetryOrFailInv
<1> QED
  BY <1>2, <1>3 DEF CallFailed

LEMMA LookupFaultInv == Inv /\ LookupFault => Inv'
<1> SUFFICES ASSUME Inv, LookupFault PROVE Inv'
  OBVIOUS
<1>1. /\ w.pc = "claimed" /\ FailDelivery /\ UNCHANGED <<proc, received, restarts>>
      /\ faults' \in Nat /\ faults' >= faults /\ faults' > 0
  BY DEF LookupFault, Inv, Types
<1> QED
  BY <1>1, FailInv

LEMMA ClaimInv == Inv /\ ClaimNextDelivery => Inv'
<1> SUFFICES ASSUME Inv, ClaimNextDelivery PROVE Inv'
  OBVIOUS
<1>1. PICK i \in Deliveries :
        /\ Claimable(i)
        /\ outbox' = [outbox EXCEPT ![i] = Claimed(outbox[i])]
        /\ w' = [Idle EXCEPT !.pc = "claimed", !.id = i, !.attempts = outbox[i].attempts + 1]
  BY Zenon DEF ClaimNextDelivery
<1>2. /\ w.pc = "idle" /\ proc = "up" /\ UNCHANGED <<proc, received, restarts, faults>>
      /\ outbox[i] \in Row /\ outbox[i].attempts \in Nat /\ received[i] \in Nat
      /\ restarts \in Nat /\ MaxAttempts \in Nat /\ outbox[i].state = "pending"
  BY <1>1, LimitsAssumption DEF ClaimNextDelivery, Claimable, Inv, Types, Row
<1>3. /\ outbox' \in [Deliveries -> Row] /\ outbox'[i].state = "in_flight"
      /\ outbox'[i].attempts = outbox[i].attempts + 1
      /\ \A j \in Deliveries : j # i => outbox'[j] = outbox[j]
  BY <1>1, <1>2, ClaimedRow DEF Inv, Types
<1>4. /\ w' \in Iteration /\ w'.pc = "claimed" /\ w'.id = i
      /\ w'.attempts = outbox[i].attempts + 1 /\ ~w'.cancelled
  <2>1. w' = [pc |-> "claimed", id |-> i, attempts |-> outbox[i].attempts + 1, cancelled |-> FALSE]
    BY <1>1, Zenon DEF Idle
  <2> QED
    BY <1>2, <2>1 DEF Iteration
<1>5. Types' /\ Held'
  BY <1>2, <1>3, <1>4 DEF Inv, Types, Held
<1>6. Claims'
  <2>1. outbox'[i].attempts <= MaxAttempts + restarts
    BY <1>2, <1>3 DEF Inv, Claims
  <2> QED
    BY <1>2, <1>3, <1>4, <2>1 DEF Inv, Claims
<1>7. Arrivals'
  <2>1. received[i] < outbox'[i].attempts /\ received[i] <= outbox'[i].attempts
    BY <1>2, <1>3 DEF Inv, Arrivals
  <2> QED
    BY <1>2, <1>3, <1>4, <2>1 DEF Inv, Arrivals
<1>8. Earned'
  BY <1>2, <1>3, <1>4 DEF Inv, Earned, Undisturbed
<1> QED
  BY <1>5, <1>6, <1>7, <1>8 DEF Inv

LEMMA CreateInv ==
  ASSUME Inv, NEW i \in Deliveries, CreateDelivery(i)
  PROVE  Inv'
<1>1. /\ UNCHANGED <<w, proc, received, restarts, faults>>
      /\ outbox[i] \in Row /\ outbox[i].state = "absent"
      /\ outbox' = [outbox EXCEPT ![i] = [outbox[i] EXCEPT !.state = "pending"]]
  BY DEF CreateDelivery, Inv, Types
<1>2. /\ [outbox[i] EXCEPT !.state = "pending"] \in Row
      /\ [outbox[i] EXCEPT !.state = "pending"].state = "pending"
      /\ [outbox[i] EXCEPT !.state = "pending"].attempts = outbox[i].attempts
  BY <1>1 DEF Row, States
<1>3. /\ outbox' \in [Deliveries -> Row] /\ outbox'[i].state = "pending"
      /\ outbox'[i].attempts = outbox[i].attempts
      /\ \A j \in Deliveries : j # i => outbox'[j] = outbox[j]
  BY <1>1, <1>2 DEF Inv, Types
<1>4. w.pc # "idle" => w.id # i
  BY <1>1 DEF Inv, Held
<1>5. Types' /\ Held'
  BY <1>1, <1>3, <1>4 DEF Inv, Types, Held
<1>6. Claims' /\ Arrivals'
  BY <1>1, <1>3, <1>4, HeldRow DEF Inv, Claims, Arrivals
<1>7. Earned'
  BY <1>1, <1>3 DEF Inv, Earned, Undisturbed
<1> QED
  BY <1>5, <1>6, <1>7 DEF Inv

LEMMA TickInv == Inv /\ Tick => Inv'
<1> SUFFICES ASSUME Inv, Tick PROVE Inv'
  OBVIOUS
<1> DEFINE x(i) == IF outbox[i].wait > 0 THEN outbox[i].wait - 1 ELSE 0
<1>1. /\ UNCHANGED <<w, proc, received, restarts, faults>>
      /\ outbox' = [i \in Deliveries |-> [outbox[i] EXCEPT !.wait = x(i)]]
  BY DEF Tick
<1>2. \A i \in Deliveries : outbox[i] \in Row /\ x(i) \in Nat
  BY DEF Inv, Types, Row
<1> HIDE DEF x
<1>3. \A i \in Deliveries : /\ outbox'[i] \in Row
                            /\ outbox'[i].state = outbox[i].state
                            /\ outbox'[i].attempts = outbox[i].attempts
  BY <1>1, <1>2, TickedRow, Zenon
<1>4. outbox' \in [Deliveries -> Row]
  BY <1>1, <1>3
<1>5. Types' /\ Held'
  BY <1>1, <1>3, <1>4, Zenon DEF Inv, Types, Held
<1>6. Claims' /\ Arrivals'
  BY <1>1, <1>3, HeldRow, Zenon DEF Inv, Claims, Arrivals
<1>7. Earned'
  BY <1>1, <1>3, Zenon DEF Inv, Earned, Undisturbed
<1> QED
  BY <1>5, <1>6, <1>7 DEF Inv

LEMMA StepInv == Inv /\ [Next]_vars => Inv'
<1> SUFFICES ASSUME Inv, [Next]_vars PROVE Inv'
  OBVIOUS
<1>0. restarts \in Nat /\ faults \in Nat /\ (proc = "stopping" => restarts > 0)
  BY DEF Inv, Types, Claims
<1>1. CASE \E i \in Deliveries : CreateDelivery(i)
  BY <1>1, CreateInv
<1>2. CASE ClaimNextDelivery
  BY <1>2, ClaimInv
<1>3. CASE WorkerStep
  BY <1>3, PrepareInv, ArriveInv, AnsweredInv, CallFailedInv DEF WorkerStep
<1>4. CASE LookupFault
  BY <1>4, LookupFaultInv
<1>5. CASE WriteFault
  BY <1>0, <1>5, QuietInv DEF WriteFault
<1>6. CASE Boot
  BY <1>0, <1>6, QuietInv DEF Boot
<1>7. CASE Shutdown
  BY <1>7, ShutdownInv
<1>8. CASE Exit
  BY <1>0, <1>8, QuietInv DEF Exit
<1>9. CASE Crash
  BY <1>0, <1>9, QuietInv DEF Crash
<1>10. CASE Tick
  BY <1>10, TickInv
<1>11. CASE UNCHANGED vars
  BY <1>0, <1>11, QuietInv DEF vars
<1> QED
  BY <1>1, <1>2, <1>3, <1>4, <1>5, <1>6, <1>7, <1>8, <1>9, <1>10, <1>11 DEF Next

(* Only a row in flight is updated, and only a pending one is claimed.     *)
LEMMA SettledStep ==
  ASSUME Inv, Next, NEW i \in Deliveries, Settled(i)
  PROVE  outbox'[i].state = outbox[i].state /\ received'[i] = received[i]
<1>1. /\ outbox \in [Deliveries -> Row] /\ received \in [Deliveries -> Nat]
      /\ w.pc # "idle" => w.id \in Deliveries /\ w.id # i
      /\ outbox[i].state \notin {"absent", "pending"}
  BY DEF Inv, Types, Held, Settled
<1>2. ASSUME NEW r, Update(r), w.pc # "idle"
      PROVE  outbox'[i].state = outbox[i].state
  BY <1>1, <1>2 DEF Update
<1>3. ASSUME w.pc # "idle", RetryOrFail \/ FailDelivery \/ MarkDelivered \/ RequeueDelivery(0)
      PROVE  outbox'[i].state = outbox[i].state
  BY <1>2, <1>3 DEF RetryOrFail, FailDelivery, MarkDelivered, RequeueDelivery
<1>4. CASE \E j \in Deliveries : CreateDelivery(j)
  BY <1>1, <1>4 DEF CreateDelivery
<1>5. CASE ClaimNextDelivery
  BY <1>1, <1>5 DEF ClaimNextDelivery, Claimable
<1>6. CASE WorkerStep
  <2>1. CASE Prepare
    BY <1>3, <2>1 DEF Prepare
  <2>2. CASE Arrive
    BY <1>1, <2>2 DEF Arrive
  <2>3. CASE \E answer \in Answers : Answered(answer)
    BY <1>3, <2>3 DEF Answered
  <2>4. CASE CallFailed
    BY <1>3, <2>4 DEF CallFailed
  <2> QED
    BY <1>6, <2>1, <2>2, <2>3, <2>4 DEF WorkerStep
<1>7. CASE LookupFault
  BY <1>3, <1>7 DEF LookupFault
<1>8. CASE WriteFault \/ Boot \/ Shutdown \/ Exit \/ Crash
  BY <1>8 DEF WriteFault, Boot, Shutdown, Exit, Crash
<1>9. CASE Tick
  <2>1. outbox[i] \in Row
    BY <1>1
  <2> QED
    BY <1>9, <2>1 DEF Tick, Row
<1> QED
  BY <1>4, <1>5, <1>6, <1>7, <1>8, <1>9 DEF Next

(* The steps other than CreateDelivery *)
Uncreating ==
    \/ ClaimNextDelivery \/ WorkerStep \/ LookupFault \/ WriteFault
    \/ Boot \/ Shutdown \/ Exit \/ Crash
    \/ Tick
    \/ UNCHANGED vars

(* A row appears by CreateDelivery only, and none disappears. *)
LEMMA PresenceKept ==
  ASSUME Inv, Uncreating, NEW i \in Deliveries
  PROVE  outbox'[i].state = "absent" <=> outbox[i].state = "absent"
<1>1. /\ outbox \in [Deliveries -> Row]
      /\ w.pc # "idle" => w.id \in Deliveries /\ outbox[w.id].state = "in_flight"
  BY DEF Inv, Types, Held
<1>2. ASSUME NEW r, Update(r), w.pc # "idle", r.state # "absent"
      PROVE  outbox'[i].state = "absent" <=> outbox[i].state = "absent"
  BY <1>1, <1>2 DEF Update
<1>3. ASSUME NEW r \in Row, NEW delay
      PROVE  /\ Requeued(r, delay).state # "absent" /\ Failed(r).state # "absent"
             /\ Delivered(r).state # "absent"
  BY DEF Requeued, Failed, Delivered, Row
<1>4. ASSUME w.pc # "idle", RetryOrFail \/ FailDelivery \/ MarkDelivered \/ RequeueDelivery(0)
      PROVE  outbox'[i].state = "absent" <=> outbox[i].state = "absent"
  <2>1. outbox[w.id] \in Row
    BY <1>1, <1>4
  <2>2. \E r : Update(r) /\ r.state # "absent"
    <3>1. ASSUME NEW delay, RequeueDelivery(delay)
          PROVE  \E r : Update(r) /\ r.state # "absent"
      <4>1. Requeued(outbox[w.id], delay).state # "absent"
        BY <1>3, <2>1
      <4> QED
        BY <3>1, <4>1, Zenon DEF RequeueDelivery
    <3>2. Failed(outbox[w.id]).state # "absent" /\ Delivered(outbox[w.id]).state # "absent"
      BY <1>3, <2>1
    <3> QED
      BY <1>4, <3>1, <3>2, Zenon DEF RetryOrFail, FailDelivery, MarkDelivered
  <2> QED
    BY <1>2, <1>4, <2>2, Zenon
<1>5. CASE ClaimNextDelivery
  BY <1>1, <1>5, ClaimedRow DEF ClaimNextDelivery, Claimable
<1>6. CASE WorkerStep \/ LookupFault
  <2>1. CASE Prepare
    BY <1>4, <2>1 DEF Prepare
  <2>2. CASE Arrive
    BY <2>2 DEF Arrive
  <2>3. CASE \E answer \in Answers : Answered(answer)
    BY <1>4, <2>3 DEF Answered
  <2>4. CASE CallFailed
    BY <1>4, <2>4 DEF CallFailed
  <2>5. CASE LookupFault
    BY <1>4, <2>5 DEF LookupFault
  <2> QED
    BY <1>6, <2>1, <2>2, <2>3, <2>4, <2>5 DEF WorkerStep
<1>7. CASE WriteFault \/ Boot \/ Shutdown \/ Exit \/ Crash \/ UNCHANGED vars
  BY <1>7 DEF WriteFault, Boot, Shutdown, Exit, Crash, vars
<1>8. CASE Tick
  <2>1. outbox[i] \in Row
    BY <1>1
  <2> QED
    BY <1>8, <2>1 DEF Tick, Row
<1> QED
  BY <1>5, <1>6, <1>7, <1>8 DEF Uncreating

(* How a row and the count of its arrivals may change *)
RowStep(i) ==
    /\ \/ outbox'[i].state = outbox[i].state
       \/ outbox[i].state = "absent" /\ outbox'[i].state = "pending"
       \/ outbox[i].state = "pending" /\ outbox'[i].state = "in_flight"
       \/ outbox[i].state = "in_flight" /\ outbox'[i].state \in {"pending", "delivered", "failed"}
    /\ \/ received'[i] = received[i]
       \/ /\ outbox[i].state = "in_flight" /\ outbox'[i].state = "in_flight"
          /\ received'[i] = received[i] + 1

(* What CreateDelivery, the claim, the arrivals and the conditional updates *)
(* do to a row                                                              *)
LEMMA StepOfRow ==
  ASSUME Inv, [Next]_vars, NEW i \in Deliveries
  PROVE  RowStep(i)
<1>1. /\ outbox \in [Deliveries -> Row] /\ received \in [Deliveries -> Nat]
      /\ w.pc # "idle" => w.id \in Deliveries /\ outbox[w.id].state = "in_flight"
  BY DEF Inv, Types, Held
<1>2. ASSUME w.pc # "idle", NEW r, Update(r), r.state \in {"pending", "delivered", "failed"},
             received' = received
      PROVE  RowStep(i)
  <2>1. CASE w.id = i
    BY <1>1, <1>2, <2>1 DEF Update, RowStep
  <2>2. CASE w.id # i
    BY <1>1, <1>2, <2>2 DEF Update, RowStep
  <2> QED
    BY <2>1, <2>2
<1>3. ASSUME NEW r \in Row, NEW delay
      PROVE  /\ Requeued(r, delay).state = "pending" /\ Failed(r).state = "failed"
             /\ Delivered(r).state = "delivered"
  BY DEF Requeued, Failed, Delivered, Row
<1>4. ASSUME w.pc # "idle", RetryOrFail \/ FailDelivery \/ MarkDelivered \/ RequeueDelivery(0),
             received' = received
      PROVE  RowStep(i)
  <2>1. outbox[w.id] \in Row
    BY <1>1, <1>4
  <2>2. \E r : Update(r) /\ r.state \in {"pending", "delivered", "failed"}
    <3>1. ASSUME NEW delay, RequeueDelivery(delay)
          PROVE  \E r : Update(r) /\ r.state \in {"pending", "delivered", "failed"}
      <4>1. Requeued(outbox[w.id], delay).state = "pending"
        BY <1>3, <2>1
      <4> QED
        BY <3>1, <4>1, Zenon DEF RequeueDelivery
    <3>2. Failed(outbox[w.id]).state = "failed" /\ Delivered(outbox[w.id]).state = "delivered"
      BY <1>3, <2>1
    <3> QED
      BY <1>4, <3>1, <3>2, Zenon DEF RetryOrFail, FailDelivery, MarkDelivered
  <2> QED
    BY <1>2, <1>4, <2>2, Zenon
<1>5. CASE outbox' = outbox /\ received' = received
  BY <1>5 DEF RowStep
<1>6. CASE \E j \in Deliveries : CreateDelivery(j)
  <2>1. PICK j \in Deliveries : /\ outbox[j].state = "absent" /\ received' = received
                                /\ outbox' = [outbox EXCEPT ![j].state = "pending"]
    BY <1>6, Zenon DEF CreateDelivery
  <2>2. outbox[j] \in Row /\ outbox[i] \in Row
    BY <1>1
  <2> QED
    BY <1>1, <2>1, <2>2 DEF RowStep, Row
<1>7. CASE ClaimNextDelivery
  <2>1. PICK j \in Deliveries : /\ outbox[j].state = "pending" /\ received' = received
                                /\ outbox' = [outbox EXCEPT ![j] = Claimed(outbox[j])]
    BY <1>7, Zenon DEF ClaimNextDelivery, Claimable
  <2>2. Claimed(outbox[j]).state = "in_flight"
    BY <1>1, ClaimedRow
  <2> QED
    BY <1>1, <2>1, <2>2 DEF RowStep
<1>8. CASE WorkerStep \/ LookupFault
  <2>1. CASE Prepare
    BY <1>4, <1>5, <2>1 DEF Prepare
  <2>2. CASE Arrive
    BY <1>1, <2>2 DEF Arrive, RowStep
  <2>3. CASE \E answer \in Answers : Answered(answer)
    BY <1>4, <2>3 DEF Answered
  <2>4. CASE CallFailed
    BY <1>4, <2>4 DEF CallFailed
  <2>5. CASE LookupFault
    BY <1>4, <2>5 DEF LookupFault
  <2> QED
    BY <1>8, <2>1, <2>2, <2>3, <2>4, <2>5 DEF WorkerStep
<1>9. CASE WriteFault \/ Boot \/ Shutdown \/ Exit \/ Crash \/ UNCHANGED vars
  BY <1>5, <1>9 DEF WriteFault, Boot, Shutdown, Exit, Crash, vars
<1>10. CASE Tick
  <2>1. outbox[i] \in Row
    BY <1>1
  <2> QED
    BY <1>10, <2>1 DEF Tick, Row, RowStep
<1> QED
  BY <1>6, <1>7, <1>8, <1>9, <1>10 DEF Next

(* No stop or crash beyond the bound *)
LEMMA RestartsBounded ==
  ASSUME restarts \in 0..MaxRestarts, [Next]_vars
  PROVE  restarts' \in 0..MaxRestarts
<1>1. CASE Shutdown \/ Crash
  BY <1>1, LimitsAssumption DEF Shutdown, Crash
<1>2. CASE ~(Shutdown \/ Crash)
  <2>1. restarts' = restarts
    BY <1>2, Zenon DEF Next, vars, CreateDelivery, ClaimNextDelivery, WorkerStep, Prepare, Arrive, Answered,
                CallFailed, LookupFault, WriteFault, Boot, Exit, Tick
  <2> QED
    BY <2>1
<1> QED
  BY <1>1, <1>2

(* The worker is at row i. *)
Carried(i) == w.pc # "idle" /\ w.id = i

(* While the process lives and the store works, no row is left in flight:  *)
(* the worker is at it, or it was left so before.                          *)
LEMMA ClaimsCarried ==
  ASSUME Inv, [Next]_vars, MaxFaults = 0, proc' = "down" => proc = "down",
         NEW i \in Deliveries, outbox'[i].state = "in_flight"
  PROVE  Carried(i)' \/ (outbox[i].state = "in_flight" /\ ~Carried(i))
<1>1. /\ outbox \in [Deliveries -> Row] /\ w \in Iteration /\ faults \in Nat
      /\ w.pc # "idle" => w.id \in Deliveries /\ outbox[w.id].state = "in_flight"
  BY DEF Inv, Types, Held
<1>2. ASSUME w.pc # "idle", NEW r, Update(r), r.state # "in_flight"
      PROVE  outbox[i].state = "in_flight" /\ ~Carried(i)
  BY <1>1, <1>2 DEF Update, Carried
<1>3. ASSUME NEW r \in Row, NEW delay
      PROVE  /\ Requeued(r, delay).state # "in_flight" /\ Failed(r).state # "in_flight"
             /\ Delivered(r).state # "in_flight"
  BY DEF Requeued, Failed, Delivered, Row
<1>4. ASSUME w.pc # "idle", RetryOrFail \/ FailDelivery \/ MarkDelivered \/ RequeueDelivery(0)
      PROVE  outbox[i].state = "in_flight" /\ ~Carried(i)
  <2>1. outbox[w.id] \in Row
    BY <1>1, <1>4
  <2>2. \E r : Update(r) /\ r.state # "in_flight"
    <3>1. ASSUME NEW delay, RequeueDelivery(delay)
          PROVE  \E r : Update(r) /\ r.state # "in_flight"
      <4>1. Requeued(outbox[w.id], delay).state # "in_flight"
        BY <1>3, <2>1
      <4> QED
        BY <3>1, <4>1, Zenon DEF RequeueDelivery
    <3>2. Failed(outbox[w.id]).state # "in_flight" /\ Delivered(outbox[w.id]).state # "in_flight"
      BY <1>3, <2>1
    <3> QED
      BY <1>4, <3>1, <3>2, Zenon DEF RetryOrFail, FailDelivery, MarkDelivered
  <2> QED
    BY <1>2, <1>4, <2>2, Zenon
<1>5. CASE \E j \in Deliveries : CreateDelivery(j)
  <2>1. outbox[i].state = "in_flight"
    BY <1>1, <1>5 DEF CreateDelivery, Row
  <2>2. w' = w
    BY <1>5 DEF CreateDelivery
  <2> QED
    BY <2>1, <2>2 DEF Carried
<1>6. CASE ClaimNextDelivery
  <2>1. PICK j \in Deliveries : /\ outbox' = [outbox EXCEPT ![j] = Claimed(outbox[j])]
                                /\ w'.pc = "claimed" /\ w'.id = j /\ w.pc = "idle"
    BY <1>6, Zenon DEF ClaimNextDelivery, Idle
  <2> QED
    BY <1>1, <2>1 DEF Carried
<1>7. CASE WorkerStep
  <2>1. CASE Prepare
    <3>1. CASE FailDelivery
      BY <1>4, <2>1, <3>1 DEF Prepare
    <3>2. CASE ~FailDelivery
      BY <1>1, <2>1, <3>2 DEF Prepare, Carried, Iteration
    <3> QED
      BY <3>1, <3>2
  <2>2. CASE Arrive
    BY <1>1, <2>2 DEF Arrive, Carried, Iteration
  <2>3. CASE \E answer \in Answers : Answered(answer)
    BY <1>4, <2>3 DEF Answered
  <2>4. CASE CallFailed
    BY <1>4, <2>4 DEF CallFailed
  <2> QED
    BY <1>7, <2>1, <2>2, <2>3, <2>4 DEF WorkerStep
<1>8. CASE LookupFault \/ WriteFault \/ Exit \/ Crash
  BY <1>1, <1>8 DEF LookupFault, WriteFault, Exit, Crash
<1>9. CASE Boot \/ Shutdown \/ UNCHANGED vars
  <2>1. outbox' = outbox /\ w'.pc = w.pc /\ w'.id = w.id
    BY <1>1, <1>9 DEF Boot, Shutdown, vars, Iteration
  <2> QED
    BY <2>1 DEF Carried
<1>10. CASE Tick
  <2>1. outbox[i] \in Row /\ w' = w
    BY <1>1, <1>10 DEF Tick
  <2>2. outbox'[i].state = outbox[i].state
    BY <1>10, <2>1 DEF Tick, Row
  <2> QED
    BY <2>1, <2>2 DEF Carried
<1> QED
  BY <1>5, <1>6, <1>7, <1>8, <1>9, <1>10 DEF Next

-------------------------------------------------------------------------------
(* Inv is an invariant of the outbox, whatever crashes, is stopped, or     *)
(* fails to be written in between.                                         *)
THEOREM Safety == Spec => []Inv
<1> QED
  BY InitInv, StepInv, PTL DEF Spec

(* SendBudget holds: retryOrFail and the shutdowns together bound how      *)
(* often a payload is sent, and MarkDelivered follows an arrival.          *)
THEOREM Budget == Spec => []SendBudget
<1>1. Inv => SendBudget
  BY Zenon DEF Inv, Claims, Arrivals, SendBudget
<1> QED
  BY <1>1, Safety, PTL

(* OutcomeEarned holds: without restarts and store faults no row is        *)
(* orphaned in flight, and a usable one fails with its tries spent.        *)
THEOREM Earning == Spec => []OutcomeEarned
<1>1. Inv => OutcomeEarned
  BY Zenon DEF Inv, Earned, OutcomeEarned
<1> QED
  BY <1>1, Safety, PTL

(* SettledForGood holds: the conditional updates of the store touch a row  *)
(* in flight only, which no settled row is or becomes again.               *)
THEOREM Finality == Spec => SettledForGood
<1> DEFINE Kept == \A i \in Deliveries :
                     Settled(i) => outbox'[i].state = outbox[i].state /\ received'[i] = received[i]
<1>1. Inv /\ [Next]_vars => [Kept]_vars
  <2> SUFFICES ASSUME Inv, Next PROVE Kept
    OBVIOUS
  <2> QED
    BY SettledStep
<1> QED
  BY <1>1, Safety, PTL DEF Spec, SettledForGood
===============================================================================
