------------------------------ MODULE GmlcProofs ------------------------------
(***************************************************************************)
(* Proofs about Gmlc, for every set of requests, every configuration file  *)
(* and every bound: what Load accepts suits the parts built from it, and   *)
(* the process that main builds is an implementation of both the request   *)
(* queue and the callback outbox, so what is proved of these holds of it   *)
(* and, with what is proved of these, the two agree, main stops them in    *)
(* order, and together they keep the contract of ServiceContract.          *)
(***************************************************************************)
EXTENDS Gmlc, TLAPS

-------------------------------------------------------------------------------
(* The configuration *)

(* Setting the fields of a delivery section to what they are *)
LEMMA DeliverySame ==
  ASSUME NEW d \in DeliverySettings
  PROVE  [d EXCEPT !.attempts = d.attempts, !.min = d.min, !.max = d.max, !.timeout = d.timeout] = d
BY Zenon DEF DeliverySettings

(* delivery.New finds nothing left to default, whatever the file says. *)
LEMMA DeliveryFits ==
  ASSUME NEW d \in DeliverySettings
  PROVE  LET e == DefaultDelivery(d)
         IN /\ DeliveryNew(e) = e
            /\ e.enabled = d.enabled /\ e.keyBytes = d.keyBytes
            /\ e.min <= e.max \/ e.max = 300
<1> DEFINE a == Positive(d.attempts, 5)
           m == Positive(d.min, 1)
           x == IF d.max < m THEN 300 ELSE d.max
           t == Positive(d.timeout, 10)
           e == [d EXCEPT !.attempts = a, !.min = m, !.max = x, !.timeout = t]
<1>1. DefaultDelivery(d) = e
  BY DEF DefaultDelivery
<1>2. /\ a \in Int /\ a > 0 /\ m \in Int /\ m > 0 /\ t \in Int /\ t > 0
      /\ x \in Int /\ (m <= x \/ x = 300)
  BY DEF DeliverySettings, Positive
<1> HIDE DEF a, m, x, t
<1>3. /\ e \in DeliverySettings
      /\ e.attempts = a /\ e.min = m /\ e.max = x /\ e.timeout = t
      /\ e.enabled = d.enabled /\ e.keyBytes = d.keyBytes
  BY <1>2, Zenon DEF DeliverySettings
<1> HIDE DEF e
<1>4. /\ (IF e.attempts <= 0 THEN 5 ELSE e.attempts) = e.attempts
      /\ (IF e.min <= 0 THEN 1 ELSE e.min) = e.min
      /\ (IF e.max < e.min THEN 300 ELSE e.max) = e.max
      /\ (IF e.timeout <= 0 THEN 10 ELSE e.timeout) = e.timeout
  BY <1>2, <1>3
<1>5. DeliveryNew(e) = [e EXCEPT !.attempts = e.attempts, !.min = e.min, !.max = e.max,
                                 !.timeout = e.timeout]
  BY <1>4, ZenonT(30) DEF DeliveryNew
<1>6. DeliveryNew(e) = e
  BY <1>3, <1>5, DeliverySame, Zenon
<1> QED
  BY <1>1, <1>2, <1>3, <1>6

(* A client that Validate lets pass is an emergency service by name only. *)
LEMMA ClientTypeFits ==
  ASSUME NEW c, c.type \in ClientTypes
  PROVE  ClientTypeValue(c) = 0 <=> c.type = "emergency_services"
BY DEF ClientTypeValue, ClientTypes

(* Load returns what the constructors of main take. *)
LEMMA LoadFits ==
  ASSUME NEW f, f.config \in Settings, Accepted(f)
  PROVE  Fits(Load(f))
<1> DEFINE s == f.config
           c == Load(f)
<1>1. /\ c.delivery = DefaultDelivery(s.delivery)
      /\ c.retention = DefaultRetention(s.retention)
      /\ c.mlp = DefaultMLP(s.mlp)
      /\ c.diameter = [s.diameter EXCEPT !.hssRealm = NonEmpty(@, s.diameter.originRealm)]
      /\ Validate(c)
  BY DEF Load, ApplyDefaults, Accepted
<1>2. s.delivery \in DeliverySettings
  BY DEF Settings
<1>3. /\ DeliveryNew(c.delivery) = c.delivery
      /\ c.delivery.min <= c.delivery.max \/ c.delivery.max = 300
  BY <1>1, <1>2, DeliveryFits
<1>4. c.delivery.enabled => c.delivery.keyBytes = 32
  BY <1>1 DEF Validate
<1>5. c.retention.interval > 0
  <2>1. s.retention \in [request : Int, result : Int, interval : Int]
    BY DEF Settings
  <2>2. Positive(s.retention.interval, 3600) > 0
    BY <2>1 DEF Positive
  <2>3. c.retention.interval = Positive(s.retention.interval, 3600)
    BY <1>1, <2>1 DEF DefaultRetention
  <2> QED
    BY <2>2, <2>3
<1>6. c.diameter.watchdog > 0 /\ c.diameter.originRealm # ""
  BY <1>1, Zenon DEF Validate, ValidDiameter
<1>7. c.diameter.hssRealm # ""
  BY <1>1, <1>6, Zenon DEF NonEmpty, Settings
<1>8. \A i \in 1..Len(c.clients) :
        ClientTypeValue(c.clients[i]) = 0 <=> c.clients[i].type = "emergency_services"
  BY <1>1, ClientTypeFits, Zenon DEF Validate, ValidClients, ValidClient
<1>9. c.mlp.sync \in 1..c.mlp.maxSync
  <2>1. c.mlp.sync > 0 /\ c.mlp.sync <= c.mlp.maxSync
    BY <1>1, Zenon DEF Validate, ValidMLP
  <2>2. c.mlp.sync \in Int /\ c.mlp.maxSync \in Int
    <3> DEFINE m == s.mlp
               x == Positive(m.sync, 20)
               y == Positive(m.maxSync, 60)
               z == Positive(m.shutdown, 10)
    <3>1. m \in [listen : STRING, sync : Int, maxSync : Int, shutdown : Int]
      BY DEF Settings
    <3>2. x \in Int /\ y \in Int
      BY <3>1 DEF Positive
    <3>3. c.mlp = [m EXCEPT !.sync = x, !.maxSync = y, !.shutdown = z]
      BY <1>1 DEF DefaultMLP
    <3> HIDE DEF m, x, y, z
    <3> QED
      BY <3>1, <3>2, <3>3
  <2> QED
    BY <2>1, <2>2
<1> QED
  BY <1>3, <1>4, <1>5, <1>6, <1>7, <1>8, <1>9, Zenon DEF Fits

(* No step but LoadConfig gives main a configuration. *)
LEMMA LoadedStep ==
  ASSUME LoadedFits, [Next]_vars
  PROVE  LoadedFits'
<1>1. CASE LoadConfig
  <2>1. PICK f \in Files : Accepted(f) /\ cfg' = Load(f)
    BY <1>1 DEF LoadConfig
  <2> QED
    BY <2>1, LoadFits, FilesAssumption DEF LoadedFits
<1>2. CASE Boot \/ StartFails \/ Main \/ Signal \/ Crash
  <2>1. stage' # "loaded"
    BY <1>2, Zenon DEF Boot, StartFails, Main, SetCompletionHook, StartServers, CloseWorker,
                CloseDelivery, CloseStore, Signal, Crash, Ended
  <2> QED
    BY <2>1 DEF LoadedFits
<1>3. CASE \/ Expire \/ Connect \/ Disconnect \/ Claim \/ WorkerStep \/ NotifyCompletion
           \/ ClaimDelivery \/ DeliveryStep \/ Tick \/ UNCHANGED vars
           \/ \E k \in Keys : HandlerStarts(k) \/ HandlerReturns(k) \/ Client(k)
  <2>1. stage' = stage /\ cfg' = cfg
    BY <1>3, Zenon DEF Expire, Connect, Disconnect, Claim, WorkerStep, NotifyCompletion, ClaimDelivery,
                DeliveryStep, Tick, HandlerStarts, HandlerReturns, Client, vars, mainVars
  <2> QED
    BY <2>1 DEF LoadedFits
<1> QED
  BY <1>1, <1>2, <1>3 DEF Next

-------------------------------------------------------------------------------
(* The composition *)

(* What a call without a peer reports is among what the queue expects. *)
LEMMA CallErrorsKnown ==
  /\ CallErrors(Q!ResolverErrors) \subseteq Q!ResolverErrors
  /\ CallErrors(Q!ProviderErrors) \subseteq Q!ProviderErrors
BY DEF CallErrors, RouteErrors, Q!ResolverErrors, Q!ProviderErrors

(* What the process does to the queue is a step of the queue. *)
LEMMA QueueStep ==
  ASSUME [Next]_vars
  PROVE  Q!Next \/ UNCHANGED queueVars
<1>1. CASE Boot \/ StartFails \/ Crash
  BY <1>1 DEF Boot, StartFails, Crash, Q!Next, Q!Process
<1>2. CASE Main
  BY <1>2, Zenon DEF Main, SetCompletionHook, StartServers, CloseWorker, CloseDelivery, CloseStore,
              Q!Next, Q!Process
<1>3. CASE \E k \in Keys : Client(k)
  BY <1>3 DEF Client, Q!Next, Q!Client
<1>4. CASE Claim \/ NotifyCompletion
  BY <1>4 DEF Claim, NotifyCompletion, Q!Next, Q!WorkerStep
<1>5. CASE WorkerStep
  <2>1. CASE NetworkCall
    BY <2>1, CallErrorsKnown DEF NetworkCall, Q!ResolveFailed, Q!LocateFailed, Q!Next, Q!WorkerStep
  <2> QED
    BY <1>5, <2>1 DEF WorkerStep, Q!Next, Q!WorkerStep
<1>6. CASE Tick
  BY <1>6 DEF Tick, Q!Next
<1>7. CASE \/ LoadConfig \/ Signal \/ Expire \/ Connect \/ Disconnect
           \/ ClaimDelivery \/ DeliveryStep \/ UNCHANGED vars
           \/ \E k \in Keys : HandlerStarts(k) \/ HandlerReturns(k)
  BY <1>7, Zenon DEF LoadConfig, Signal, Expire, Connect, Disconnect, ClaimDelivery, DeliveryStep,
              HandlerStarts, HandlerReturns, vars
<1> QED
  BY <1>1, <1>2, <1>3, <1>4, <1>5, <1>6, <1>7 DEF Next

(* What it does to the outbox is a step of the outbox. *)
LEMMA OutboxStep ==
  ASSUME [Next]_vars
  PROVE  O!Next \/ UNCHANGED outboxVars
<1>1. CASE Crash \/ Main
  BY <1>1, Zenon DEF Crash, Main, SetCompletionHook, StartServers, CloseWorker, CloseDelivery, CloseStore,
              O!Next
<1>2. CASE NotifyCompletion
  BY <1>2 DEF NotifyCompletion, HookPushes, O!Next
<1>3. CASE ClaimDelivery \/ DeliveryStep \/ Tick
  BY <1>3 DEF ClaimDelivery, DeliveryStep, Tick, O!Next
<1>4. CASE \/ LoadConfig \/ Boot \/ StartFails \/ Signal \/ Expire \/ Connect \/ Disconnect
           \/ Claim \/ WorkerStep \/ UNCHANGED vars
           \/ \E k \in Keys : HandlerStarts(k) \/ HandlerReturns(k) \/ Client(k)
  BY <1>4, Zenon DEF LoadConfig, Boot, StartFails, Signal, Expire, Connect, Disconnect, Claim, WorkerStep,
              HandlerStarts, HandlerReturns, Client, vars
<1> QED
  BY <1>1, <1>2, <1>3, <1>4 DEF Next

-------------------------------------------------------------------------------
(* The queue and the outbox with their proofs *)

QP == INSTANCE RequestQueueProofs WITH MaxFaults <- 0

OP == INSTANCE DeliveryOutboxProofs WITH
        Deliveries <- Keys, Broken <- {}, Answers <- {"2xx", "other", "error"},
        MaxAttempts <- DeliveryAttempts, BackoffMin <- 1, BackoffMax <- 2, MaxFaults <- 0,
        older <- sentOlder, fresh <- sentFresh, proc <- dproc, w <- dw,
        restarts <- dstops, faults <- dfaults

(* The steps of the queue that push nothing and purge nothing *)
Unpushing ==
    \/ \E k \in Keys : Q!Client(k)
    \/ Q!Claim \/ Q!Register \/ Q!ResolveFailed \/ Q!Resolved
    \/ Q!LocateFailed \/ Q!NoImmediateResult
    \/ \E position \in BOOLEAN : Q!Located(position)
    \/ Q!RecordHistory
    \/ Q!SetCompletionHook \/ Q!Shutdown \/ Q!Exit \/ Q!Crash
    \/ Q!Tick
    \/ UNCHANGED queueVars

(* Both instances of RequestQueue say the same. *)
LEMMA SameQueue ==
  /\ Q!Init => QP!Init
  /\ Q!Next => QP!Next
  /\ UNCHANGED queueVars => UNCHANGED QP!vars
  /\ Unpushing => QP!Unpushing
  /\ Q!Boot => QP!Started("starting")
  /\ Q!StartFails => QP!Started("down")
BY Zenon DEF Unpushing, QP!Unpushing, queueVars,
   Q!TerminalStates, QP!TerminalStates, Q!States, QP!States, Q!InFlight, QP!InFlight,
   Q!Terminal, QP!Terminal, Q!CanTransition, QP!CanTransition, Q!Transient, QP!Transient,
   Q!ResolverErrors, QP!ResolverErrors, Q!ProviderErrors, QP!ProviderErrors, Q!vars, QP!vars,
   Q!Codes, QP!Codes, Q!NoRow, QP!NoRow, Q!Idle, QP!Idle, Q!Created, QP!Created, Q!Subscribed,
   QP!Subscribed, Q!Cancelled, QP!Cancelled, Q!Claimed, QP!Claimed, Q!Locating, QP!Locating,
   Q!Requeued, QP!Requeued, Q!Failed, QP!Failed, Q!Completed, QP!Completed, Q!Recorded,
   QP!Recorded, Q!Pushed, QP!Pushed, Q!Unresulted, QP!Unresulted, Q!Recovered, QP!Recovered,
   Q!Live, QP!Live, Q!RowIs, QP!RowIs, Q!Init, QP!Init, Q!Serving, QP!Serving, Q!Submit,
   QP!Submit, Q!RegisterCallback, QP!RegisterCallback, Q!AttachCallback, QP!AttachCallback,
   Q!SubmitAborts, QP!SubmitAborts, Q!Cancel, QP!Cancel, Q!SignalCancel, QP!SignalCancel,
   Q!Claimable, QP!Claimable, Q!Overdue, QP!Overdue, Q!Oldest, QP!Oldest, Q!Claim, QP!Claim,
   Q!Register, QP!Register, Q!Requeue, QP!Requeue, Q!FailRequest, QP!FailRequest,
   Q!HandleError, QP!HandleError, Q!CallFailed, QP!CallFailed, Q!ResolveFailed,
   QP!ResolveFailed, Q!Resolved, QP!Resolved, Q!LocateFailed, QP!LocateFailed,
   Q!NoImmediateResult, QP!NoImmediateResult, Q!Located, QP!Located, Q!RecordHistory,
   QP!RecordHistory, Q!NotifyCompletion, QP!NotifyCompletion, Q!StoreFault, QP!StoreFault,
   Q!Expired, QP!Expired, Q!PurgeRows, QP!PurgeRows, Q!Results, QP!Results, Q!Purge, QP!Purge,
   Q!Started, QP!Started, Q!Boot, QP!Boot, Q!StartFails, QP!StartFails, Q!SetCompletionHook,
   QP!SetCompletionHook, Q!Shutdown, QP!Shutdown, Q!Gone, QP!Gone, Q!Exit, QP!Exit, Q!Crash,
   QP!Crash, Q!Ticking, QP!Ticking, Q!Tick, QP!Tick, Q!Client, QP!Client, Q!WorkerStep,
   QP!WorkerStep, Q!Process, QP!Process, Q!Next, QP!Next

(* The steps of the outbox other than CreateDelivery *)
Uncreating ==
    \/ O!ClaimNextDelivery \/ O!WorkerStep
    \/ O!Boot \/ O!Shutdown \/ O!Exit \/ O!Crash
    \/ O!Tick
    \/ UNCHANGED outboxVars

(* Both instances of DeliveryOutbox say the same. *)
LEMMA SameOutbox ==
  /\ O!Init => OP!Init
  /\ O!Next => OP!Next
  /\ UNCHANGED outboxVars => UNCHANGED OP!vars
  /\ Uncreating => OP!Uncreating
BY Zenon DEF Uncreating, OP!Uncreating, outboxVars,
   O!vars, OP!vars, O!NoDelivery, OP!NoDelivery, O!Idle, OP!Idle, O!Claimed, OP!Claimed,
   O!Requeued, OP!Requeued, O!Failed, OP!Failed, O!Delivered, OP!Delivered, O!Init, OP!Init,
   O!CreateDelivery, OP!CreateDelivery, O!Claimable, OP!Claimable, O!Oldest, OP!Oldest,
   O!ClaimNextDelivery, OP!ClaimNextDelivery, O!Update, OP!Update, O!RequeueDelivery,
   OP!RequeueDelivery, O!FailDelivery, OP!FailDelivery, O!MarkDelivered, OP!MarkDelivered,
   O!Backoff, OP!Backoff, O!RetryOrFail, OP!RetryOrFail, O!Prepare, OP!Prepare, O!LookupFault,
   OP!LookupFault, O!Arrive, OP!Arrive, O!Answered, OP!Answered, O!CallFailed, OP!CallFailed,
   O!WriteFault, OP!WriteFault, O!Boot, OP!Boot, O!Shutdown, OP!Shutdown, O!Exit, OP!Exit,
   O!Crash, OP!Crash, O!Ticking, OP!Ticking, O!Tick, OP!Tick, O!WorkerStep, OP!WorkerStep,
   O!Next, OP!Next

(* What the proofs of the parts assume of their constants *)
LEMMA PartsSuited ==
  /\ QP!KeysAssumption /\ QP!BoundsAssumption
  /\ OP!NamesAssumption /\ OP!LimitsAssumption
<1>1. QP!KeysAssumption /\ QP!BoundsAssumption
  BY PartsAssumption DEF QP!KeysAssumption, QP!BoundsAssumption
<1>2. OP!NamesAssumption /\ OP!LimitsAssumption
  BY PartsAssumption DEF OP!NamesAssumption, OP!LimitsAssumption
<1> QED
  BY <1>1, <1>2

(* The invariants of the parts *)
PartsInv == QP!Inv /\ OP!Inv

(* They hold at first ... *)
LEMMA PartsInit == Init => PartsInv
<1> USE PartsSuited
<1>1. Init => QP!Inv
  BY SameQueue, QP!InitInv DEF Init
<1>2. Init => OP!Inv
  BY SameOutbox, OP!InitInv DEF Init
<1> QED
  BY <1>1, <1>2 DEF PartsInv

(* ... and the process, whose steps are steps of the parts, keeps them. *)
LEMMA PartsStep ==
  ASSUME PartsInv, [Next]_vars
  PROVE  PartsInv' /\ QP!RowSteps
<1> USE PartsSuited
<1>1. [QP!Next]_(QP!vars)
  BY QueueStep, SameQueue, Zenon
<1>2. QP!Inv' /\ QP!RowSteps
  BY <1>1, QP!StepInv, Zenon DEF PartsInv
<1>3. [OP!Next]_(OP!vars)
  BY OutboxStep, SameOutbox, Zenon
<1>4. OP!Inv'
  BY <1>3, OP!StepInv, Zenon DEF PartsInv
<1> QED
  BY <1>2, <1>4 DEF PartsInv

(* Only the hook of main creates deliveries and counts them. *)
LEMMA OtherSteps ==
  ASSUME [Next]_vars, ~NotifyCompletion
  PROVE  /\ payload' = payload
         /\ Uncreating
         /\ Unpushing \/ ((Q!Boot \/ Q!StartFails) /\ NothingPurged)
<1>1. CASE Boot \/ StartFails \/ Crash
  BY <1>1 DEF Boot, StartFails, Crash, Ended, Unpushing, Uncreating
<1>2. CASE Main
  <2>1. CASE SetCompletionHook \/ StartServers
    BY <2>1 DEF SetCompletionHook, StartServers, Unpushing, Uncreating
  <2>2. CASE CloseWorker \/ CloseDelivery
    BY <2>2, Zenon DEF CloseWorker, CloseDelivery, Unpushing, Uncreating
  <2>3. CASE CloseStore
    BY <2>3, Zenon DEF CloseStore, Ended, Unpushing, Uncreating
  <2> QED
    BY <1>2, <2>1, <2>2, <2>3, Zenon DEF Main
<1>3. CASE \E k \in Keys : Client(k)
  BY <1>3 DEF Client, Q!Client, Unpushing, Uncreating
<1>4. CASE Claim
  BY <1>4 DEF Claim, Unpushing, Uncreating
<1>5. CASE WorkerStep
  <2>1. CASE NetworkCall
    BY <1>5, <2>1, CallErrorsKnown
       DEF WorkerStep, NetworkCall, Q!ResolveFailed, Q!LocateFailed, Unpushing, Uncreating
  <2> QED
    BY <1>5, <2>1 DEF WorkerStep, Unpushing, Uncreating
<1>6. CASE Tick \/ ClaimDelivery \/ DeliveryStep
  BY <1>6 DEF Tick, ClaimDelivery, DeliveryStep, Unpushing, Uncreating
<1>7. CASE \/ LoadConfig \/ Signal \/ Expire \/ Connect \/ Disconnect \/ UNCHANGED vars
           \/ \E k \in Keys : HandlerStarts(k) \/ HandlerReturns(k)
  <2>1. UNCHANGED payload /\ UNCHANGED queueVars /\ UNCHANGED outboxVars
    BY <1>7, Zenon DEF LoadConfig, Signal, Expire, Connect, Disconnect, HandlerStarts, HandlerReturns,
                       vars
  <2> QED
    BY <2>1 DEF Unpushing, Uncreating
<1> QED
  BY <1>1, <1>2, <1>3, <1>4, <1>5, <1>6, <1>7, Zenon DEF Next

(* A request that has been pushed stays in the state that was reported. *)
LEMMA PushedStays ==
  ASSUME QP!Inv, QP!RowSteps, NEW k \in Keys, row[k].outbox = 1, row'[k].outbox = 1
  PROVE  row'[k].state = row[k].state
<1>1. row[k].state \in {"completed", "failed"}
  BY DEF QP!Inv, QP!PushedOnce
<1>2. QP!RowStep(k)
  BY DEF QP!RowSteps
<1> QED
  BY <1>1, <1>2 DEF QP!RowStep, QP!CanTransition, QP!TerminalStates, QP!Terminal

(* The invariant that joins the parts *)
Agreed == payload \in [Keys -> {"none", "completed", "failed"}] /\ PayloadFinal

(* The hook creates, counts and words a delivery in one step, and nothing  *)
(* else parts a delivery from its request.                                 *)
LEMMA AgreedStep ==
  ASSUME PartsInv, Agreed, [Next]_vars
  PROVE  Agreed'
<1> USE PartsSuited
<1>1. PartsInv' /\ QP!RowSteps
  BY PartsStep, Zenon
<1>2. /\ row \in [Keys -> QP!Row]
      /\ \A k \in Keys : row'[k].outbox = 1 => row'[k].sub
      /\ w.pc = "notify" /\ w.key # None => w.final \in {"completed", "failed"} /\ row[w.key].outbox = 0
      /\ w.pc = "notify" /\ w.key # None => row[w.key].state = w.final
      /\ outbox \in [Keys -> OP!Row]
  BY <1>1 DEF PartsInv, QP!Inv, QP!TypeOK, QP!Iteration, QP!PushedOnce, QP!WorkerInv,
              QP!HookReflectsState, OP!Inv, OP!Types
<1>3. CASE ~NotifyCompletion
  <2>1. /\ payload' = payload /\ Uncreating
        /\ Unpushing \/ ((Q!Boot \/ Q!StartFails) /\ NothingPurged)
    BY <1>3, OtherSteps
  <2>2. ASSUME NEW k \in Keys
        PROVE  row'[k].outbox = row[k].outbox
    <3>1. CASE Unpushing
      BY <3>1, SameQueue, QP!OutboxKept, Zenon DEF PartsInv
    <3>2. CASE (Q!Boot \/ Q!StartFails) /\ NothingPurged
      <4>1. \E p \in {"starting", "down"} : QP!Started(p)
        BY <3>2, SameQueue, Zenon
      <4>2. row'[k].state = "absent" => row[k].state = "absent"
        BY <3>2 DEF NothingPurged
      <4> QED
        BY <4>1, <4>2, QP!OutboxKept, Zenon DEF PartsInv
    <3> QED
      BY <2>1, <3>1, <3>2
  <2>3. ASSUME NEW k \in Keys
        PROVE  outbox'[k].state = "absent" <=> outbox[k].state = "absent"
    <3>1. OP!Uncreating
      BY <2>1, SameOutbox, Zenon
    <3> QED
      BY <3>1, OP!PresenceKept, Zenon DEF PartsInv
  <2>4. ASSUME NEW k \in Keys, outbox'[k].state # "absent"
        PROVE  payload'[k] = row'[k].state /\ row'[k].sub
    <3>1. outbox[k].state # "absent" /\ row[k].outbox = 1 /\ payload[k] = row[k].state
      BY <2>3, <2>4 DEF Agreed, PayloadFinal
    <3>2. row'[k].outbox = 1
      BY <2>2, <3>1
    <3>3. row'[k].state = row[k].state
      BY <1>1, <3>1, <3>2, PushedStays, Zenon DEF PartsInv
    <3> QED
      BY <1>2, <2>1, <3>1, <3>2, <3>3, Zenon
  <2>5. ASSUME NEW k \in Keys
        PROVE  outbox'[k].state # "absent" <=> row'[k].outbox = 1
    BY <2>2, <2>3 DEF Agreed, PayloadFinal
  <2> QED
    BY <2>1, <2>4, <2>5 DEF Agreed, PayloadFinal
<1>4. CASE NotifyCompletion /\ ~HookPushes
  <2>1. UNCHANGED <<outbox, payload>>
    BY <1>4 DEF NotifyCompletion, outboxVars
  <2>2. row' = row
    <3>1. row' = row \/ (w.key \in Keys /\ row' = [row EXCEPT ![w.key] = Q!Pushed(row[w.key])])
      BY <1>4 DEF NotifyCompletion, Q!NotifyCompletion
    <3> QED
      BY <1>2, <1>4, <3>1 DEF HookPushes, QP!Row
  <2> QED
    BY <2>1, <2>2 DEF Agreed, PayloadFinal
<1>5. CASE NotifyCompletion /\ HookPushes
  <2> DEFINE k == w.key
  <2>1. k \in Keys /\ row'[k] # row[k] /\ w.pc = "notify"
    BY <1>5 DEF HookPushes, NotifyCompletion, Q!NotifyCompletion
  <2>2. row' = [row EXCEPT ![k] = Q!Pushed(row[k])]
    BY <1>5, <2>1 DEF NotifyCompletion, Q!NotifyCompletion
  <2>3. /\ outbox' = [outbox EXCEPT ![k].state = "pending"]
        /\ payload' = [payload EXCEPT ![k] = w.final]
    BY <1>5 DEF NotifyCompletion, O!CreateDelivery, RequestJSON
  <2>4. k # None
    BY <2>1, PartsAssumption
  <2>5. row[k].outbox = 0 /\ row[k].state = w.final /\ w.final \in {"completed", "failed"}
    BY <1>2, <2>1, <2>4, Zenon
  <2>6. row'[k].outbox = 1 /\ row'[k].state = w.final
    <3>1. row[k] \in QP!Row
      BY <1>2, <2>1
    <3>2. Q!Pushed(row[k]).outbox = 1 /\ Q!Pushed(row[k]).state = row[k].state
      BY <2>5, <3>1 DEF Q!Pushed, QP!Row
    <3> QED
      BY <1>2, <2>1, <2>2, <2>5, <3>2, Zenon
  <2>7. /\ outbox'[k].state = "pending" /\ payload'[k] = w.final
        /\ payload' \in [Keys -> {"none", "completed", "failed"}]
    BY <1>2, <2>1, <2>3, <2>5 DEF Agreed, OP!Row
  <2>8. ASSUME NEW j \in Keys, j # k
        PROVE  row'[j] = row[j] /\ outbox'[j] = outbox[j] /\ payload'[j] = payload[j]
    BY <1>2, <2>2, <2>3, <2>8, Zenon DEF Agreed
  <2> HIDE DEF k
  <2>9. ASSUME NEW j \in Keys
        PROVE  /\ outbox'[j].state # "absent" <=> row'[j].outbox = 1
               /\ outbox'[j].state # "absent" => payload'[j] = row'[j].state /\ row'[j].sub
    <3>1. CASE j = k
      BY <1>2, <2>6, <2>7, <3>1, Zenon
    <3>2. CASE j # k
      BY <2>8, <3>2 DEF Agreed, PayloadFinal
    <3> QED
      BY <3>1, <3>2
  <2> QED
    BY <2>7, <2>9 DEF Agreed, PayloadFinal
<1> QED
  BY <1>3, <1>4, <1>5

(* Nothing is pushed at first. *)
LEMMA AgreedInit == Init => Agreed
<1> SUFFICES ASSUME Init PROVE Agreed
  OBVIOUS
<1>1. payload \in [Keys -> {"none", "completed", "failed"}]
  BY DEF Init
<1>2. ASSUME NEW k \in Keys
      PROVE  outbox[k].state = "absent" /\ row[k].outbox = 0
  BY DEF Init, Q!Init, Q!NoRow, O!Init, O!NoDelivery
<1> QED
  BY <1>1, <1>2 DEF Agreed, PayloadFinal

(* PayloadFinal holds in every reachable state, whatever the handlers, the *)
(* two workers, the starts, the stops and the crashes do: the hook's push, *)
(* made from the worker's own copy after the store was last written, and   *)
(* the row it is about never part.                                         *)
THEOREM PushAgrees == Spec => []PayloadFinal
<1>1. Init => PartsInv /\ Agreed
  BY AgreedInit, PartsInit
<1>2. PartsInv /\ Agreed /\ [Next]_vars => (PartsInv /\ Agreed)'
  BY PartsStep, AgreedStep
<1>3. Agreed => PayloadFinal
  BY DEF Agreed
<1> QED
  BY <1>1, <1>2, <1>3, PTL DEF Spec

-------------------------------------------------------------------------------
(* The order of a stop *)

(* What main has waited for, as long as the deadline of the stop is not    *)
(* over: first the handlers, which are the only ones to submit and cancel, *)
(* then the worker, which claims nothing once it is cancelled.             *)
Waited ==
    /\ stage \in {"closing worker", "closing delivery"} => proc = "stopping"
    /\ stage \in {"closing worker", "closing delivery"} /\ ~expired => handlers = {}
    /\ \A k \in Keys \ handlers : submitting[k] = "done" /\ k \notin cancelling
    /\ stage = "closing delivery" /\ ~expired => w.pc = "idle"

(* A delivery in flight has been so since the start, or its worker is      *)
(* still at it.                                                            *)
Known ==
    stage \notin {"down", "loaded"} =>
        \A k \in Keys : outbox[k].state = "in_flight" => k \in stranded \/ OP!Carried(k)

(* A step of main that starts or stops nothing of the queue's worker *)
LEMMA WaitedQuiet ==
  ASSUME Waited, UNCHANGED <<proc, w, submitting, cancelling>>, handlers' = handlers,
         stage' = stage \/ stage' \notin {"closing worker", "closing delivery"},
         expired' = expired \/ expired' \/ stage' \notin {"closing worker", "closing delivery"}
  PROVE  Waited'
BY Zenon DEF Waited

(* A client's call is made by its handler. *)
LEMMA WaitedClient ==
  ASSUME PartsInv, Waited, NEW k \in Keys, Client(k)
  PROVE  Waited'
<1>1. /\ submitting \in [Keys -> {"done", "register", "attach"}]
      /\ cancelling \subseteq Keys
  BY DEF PartsInv, QP!Inv, QP!TypeOK
<1>2. k \in handlers /\ UNCHANGED mainVars
  BY DEF Client
<1>3. /\ proc' = proc
      /\ \A j \in Keys \ {k} : submitting'[j] = submitting[j] /\ (j \in cancelling' => j \in cancelling)
  <2>1. CASE \E left \in Callbacks : Q!Submit(k, left)
    BY <1>1, <2>1, Zenon DEF Q!Submit
  <2>2. CASE Q!RegisterCallback(k) \/ Q!AttachCallback(k) \/ Q!SubmitAborts(k)
    BY <1>1, <2>2 DEF Q!RegisterCallback, Q!AttachCallback, Q!SubmitAborts
  <2>3. CASE Q!Cancel(k) \/ Q!SignalCancel(k)
    BY <2>3 DEF Q!Cancel, Q!SignalCancel
  <2> QED
    BY <2>1, <2>2, <2>3 DEF Client
<1>4. /\ stage' = stage /\ expired' = expired /\ handlers' = handlers
  BY <1>2 DEF mainVars
<1> QED
  BY <1>2, <1>3, <1>4, Zenon DEF Waited

(* The worker claims only before main cancels it. *)
LEMMA WaitedWorker ==
  ASSUME Waited, Claim \/ WorkerStep \/ NotifyCompletion
  PROVE  Waited'
<1>1. stage' = stage /\ expired' = expired /\ handlers' = handlers
  BY DEF Claim, WorkerStep, NotifyCompletion, mainVars
<1>2. /\ UNCHANGED <<proc, submitting, cancelling>>
      /\ w.pc = "idle" => proc # "stopping"
  <2>1. CASE Claim
    BY <2>1, Zenon DEF Claim, Q!Claim
  <2>2. CASE NotifyCompletion
    BY <2>2 DEF NotifyCompletion, Q!NotifyCompletion
  <2>3. CASE WorkerStep
    <3>1. CASE Q!Register \/ Q!RecordHistory
      BY <3>1, Zenon DEF Q!Register, Q!RecordHistory
    <3>2. CASE NetworkCall
      BY <3>2, Zenon DEF NetworkCall, Q!Resolved, Q!NoImmediateResult, Q!Located
    <3> QED
      BY <2>3, <3>1, <3>2, Zenon DEF WorkerStep
  <2> QED
    BY <2>1, <2>2, <2>3, Zenon
<1> QED
  BY <1>1, <1>2, Zenon DEF Waited

(* Every step of the process keeps Waited: one step per action. *)
LEMMA WaitedStep ==
  ASSUME PartsInv, Waited, [Next]_vars
  PROVE  Waited'
<1>1. CASE Boot \/ StartFails
  <2>1. /\ stage' \notin {"closing worker", "closing delivery"} /\ handlers' = handlers
        /\ UNCHANGED queueVars \/ \E p \in {"starting", "down"} : Q!Started(p)
    BY <1>1, Zenon DEF Boot, StartFails, Q!Boot, Q!StartFails
  <2>2. \A k \in Keys : /\ submitting'[k] = "done" \/ submitting'[k] = submitting[k]
                        /\ k \in cancelling' => k \in cancelling
    BY <2>1, Zenon DEF queueVars, Q!Started, Q!PurgeRows
  <2> QED
    BY <2>1, <2>2, Zenon DEF Waited
<1>2. CASE SetCompletionHook \/ StartServers \/ LoadConfig \/ Signal
  <2>1. /\ UNCHANGED <<submitting, cancelling>> /\ handlers' = handlers
        /\ stage' \notin {"closing worker", "closing delivery"}
    BY <1>2, Zenon DEF SetCompletionHook, Q!SetCompletionHook, StartServers, LoadConfig, Signal, queueVars
  <2> QED
    BY <2>1, Zenon DEF Waited
<1>3. CASE CloseWorker
  <2>1. /\ stage' = "closing worker" /\ expired' = expired /\ handlers' = handlers
        /\ handlers = {} \/ expired
        /\ proc' = "stopping" /\ UNCHANGED <<submitting, cancelling>>
    BY <1>3, Zenon DEF CloseWorker, Q!Shutdown
  <2> QED
    BY <2>1, Zenon DEF Waited
<1>4. CASE CloseDelivery
  <2>1. /\ stage = "closing worker" /\ stage' = "closing delivery"
        /\ expired' = expired /\ handlers' = handlers
        /\ w.pc = "idle" \/ expired
        /\ UNCHANGED <<proc, w, submitting, cancelling>>
    BY <1>4, Zenon DEF CloseDelivery, queueVars
  <2> QED
    BY <2>1, Zenon DEF Waited
<1>5. CASE CloseStore \/ Crash
  <2>1. Ended /\ Q!Gone
    BY <1>5, Zenon DEF CloseStore, Crash, Q!Exit, Q!Crash
  <2> QED
    BY <2>1, Zenon DEF Waited, Ended, Q!Gone
<1>6. CASE \E k \in Keys : HandlerStarts(k) \/ HandlerReturns(k)
  <2>1. PICK k \in Keys : HandlerStarts(k) \/ HandlerReturns(k)
    BY <1>6, Zenon
  <2>2. /\ UNCHANGED <<stage, expired, proc, w, submitting, cancelling>>
        /\ \/ stage = "serving" /\ handlers' = handlers \cup {k}
           \/ /\ k \in handlers /\ submitting[k] = "done" /\ k \notin cancelling
              /\ handlers' = handlers \ {k}
    BY <2>1 DEF HandlerStarts, HandlerReturns, queueVars
  <2> QED
    BY <2>2, Zenon DEF Waited
<1>7. CASE \E k \in Keys : Client(k)
  BY <1>7, WaitedClient
<1>8. CASE Claim \/ WorkerStep \/ NotifyCompletion
  BY <1>8, WaitedWorker
<1>9. CASE Expire \/ Connect \/ Disconnect \/ ClaimDelivery \/ DeliveryStep \/ Tick \/ UNCHANGED vars
  <2>1. /\ UNCHANGED <<proc, w, submitting, cancelling>> /\ handlers' = handlers /\ stage' = stage
        /\ expired' = expired \/ expired'
    BY <1>9, Zenon DEF Expire, Connect, Disconnect, ClaimDelivery, DeliveryStep, Tick, Q!Tick, vars,
                queueVars, mainVars
  <2> QED
    BY <2>1, WaitedQuiet, Zenon
<1> QED
  BY <1>1, <1>2, <1>3, <1>4, <1>5, <1>6, <1>7, <1>8, <1>9, Zenon DEF Next, Main

(* As long as main is not done, only the start marks deliveries stranded,  *)
(* and the delivery worker does not go.                                    *)
LEMMA DeliveryStays ==
  ASSUME [Next]_vars, ~Boot, stage' \notin {"down", "loaded"}
  PROVE  /\ stage \notin {"down", "loaded"}
         /\ stranded' = stranded
         /\ dproc' = "down" => dproc = "down"
<1>1. CASE LoadConfig \/ StartFails \/ CloseStore \/ Crash
  BY <1>1, Zenon DEF LoadConfig, StartFails, CloseStore, Crash, Ended
<1>2. CASE SetCompletionHook \/ StartServers \/ CloseWorker \/ CloseDelivery
  BY <1>2, Zenon DEF SetCompletionHook, StartServers, CloseWorker, CloseDelivery, O!Boot, O!Shutdown,
              outboxVars
<1>3. CASE \/ Signal \/ Expire \/ Connect \/ Disconnect \/ UNCHANGED vars
           \/ \E k \in Keys : HandlerStarts(k) \/ HandlerReturns(k)
  BY <1>3, Zenon DEF Signal, Expire, Connect, Disconnect, HandlerStarts, HandlerReturns, vars, mainVars,
              outboxVars
<1>4. CASE Claim \/ WorkerStep \/ \E k \in Keys : Client(k)
  BY <1>4 DEF Claim, WorkerStep, Client, mainVars, outboxVars
<1>5. CASE NotifyCompletion \/ Tick
  BY <1>5 DEF NotifyCompletion, Tick, O!CreateDelivery, O!Tick, mainVars, outboxVars
<1>6. CASE ClaimDelivery \/ DeliveryStep
  <2>1. dproc' = dproc
    BY <1>6, Zenon DEF ClaimDelivery, DeliveryStep, O!ClaimNextDelivery, O!WorkerStep, O!Prepare, O!Arrive,
                O!Answered, O!CallFailed
  <2> QED
    BY <1>6, <2>1, Zenon DEF ClaimDelivery, DeliveryStep, mainVars
<1> QED
  BY <1>1, <1>2, <1>3, <1>4, <1>5, <1>6, Zenon DEF Next, Main

(* The start knows what is in flight, and after it the delivery worker     *)
(* leaves no claim behind.                                                 *)
LEMMA KnownStep ==
  ASSUME PartsInv, Known, [Next]_vars
  PROVE  Known'
<1>1. CASE Boot
  BY <1>1, Zenon DEF Boot, Known, outboxVars
<1>2. CASE ~Boot
  <2> SUFFICES ASSUME stage' \notin {"down", "loaded"}, NEW k \in Keys, outbox'[k].state = "in_flight"
               PROVE  k \in stranded' \/ OP!Carried(k)'
    BY Zenon DEF Known
  <2>1. /\ stage \notin {"down", "loaded"} /\ stranded' = stranded
        /\ dproc' = "down" => dproc = "down"
    BY <1>2, DeliveryStays
  <2>2. [OP!Next]_(OP!vars)
    BY OutboxStep, SameOutbox, Zenon
  <2>3. OP!Carried(k)' \/ (outbox[k].state = "in_flight" /\ ~OP!Carried(k))
    BY <2>1, <2>2, OP!ClaimsCarried, PartsSuited, Zenon DEF PartsInv
  <2> QED
    BY <2>1, <2>3, Zenon DEF Known
<1> QED
  BY <1>1, <1>2, Zenon

(* StopInOrder: a stop that its deadline does not cut short waits for the  *)
(* MLP server and for both workers.  When main closes the store no MLP     *)
(* handler is in a call, neither worker is at anything, and every delivery *)
(* in flight was already so when the process started.                      *)
THEOREM StopsInOrder == Spec => StopInOrder
<1>1. Init => PartsInv /\ Waited /\ Known
  BY PartsInit, Zenon DEF Init, Q!Init, Waited, Known
<1>2. PartsInv /\ Waited /\ Known /\ [Next]_vars => (PartsInv /\ Waited /\ Known)'
  BY PartsStep, WaitedStep, KnownStep, Zenon
<1>3. ASSUME PartsInv, Waited, Known, [Next]_vars, stage = "closing delivery", stage' = "down", ~expired
      PROVE  /\ handlers = {} /\ submitting = [k \in Keys |-> "done"] /\ cancelling = {}
             /\ w.pc = "idle" /\ dw.pc = "idle"
             /\ \A k \in Keys : outbox[k].state = "in_flight" => k \in stranded
  <2>1. handlers = {} /\ w.pc = "idle" /\ \A k \in Keys : submitting[k] = "done" /\ k \notin cancelling
    BY <1>3, Zenon DEF Waited
  <2>2. submitting \in [Keys -> {"done", "register", "attach"}] /\ cancelling \subseteq Keys
    BY <1>3, Zenon DEF PartsInv, QP!Inv, QP!TypeOK
  <2>3. submitting = [k \in Keys |-> "done"] /\ cancelling = {}
    BY <2>1, <2>2
  <2>4. CloseStore
    <3>1. CASE LoadConfig \/ Boot \/ StartFails \/ Main \/ Signal \/ Crash
      BY <1>3, <3>1, Zenon DEF LoadConfig, Boot, StartFails, Main, SetCompletionHook, StartServers,
                        CloseWorker, CloseDelivery, Signal, Crash
    <3>2. CASE \/ Expire \/ Connect \/ Disconnect \/ Claim \/ WorkerStep \/ NotifyCompletion
               \/ ClaimDelivery \/ DeliveryStep \/ Tick \/ UNCHANGED vars
               \/ \E k \in Keys : HandlerStarts(k) \/ HandlerReturns(k) \/ Client(k)
      BY <1>3, <3>2, Zenon DEF Expire, Connect, Disconnect, Claim, WorkerStep, NotifyCompletion,
           ClaimDelivery, DeliveryStep, Tick, HandlerStarts, HandlerReturns, Client, vars, mainVars
    <3> QED
      BY <1>3, <3>1, <3>2, Zenon DEF Next
  <2>5. dw.pc = "idle"
    BY <1>3, <2>4, Zenon DEF CloseStore
  <2> QED
    BY <1>3, <2>1, <2>3, <2>5, Zenon DEF Known, OP!Carried
<1>4. PartsInv /\ Waited /\ Known /\ [Next]_vars =>
        [stage = "closing delivery" /\ stage' = "down" /\ ~expired =>
            /\ handlers = {} /\ submitting = [k \in Keys |-> "done"] /\ cancelling = {}
            /\ w.pc = "idle" /\ dw.pc = "idle"
            /\ \A k \in Keys : outbox[k].state = "in_flight" => k \in stranded]_vars
  BY <1>3, Zenon
<1> QED
  BY <1>1, <1>2, <1>4, PTL DEF Spec, StopInOrder

-------------------------------------------------------------------------------
(* LoadedFits holds for every file: what the delivery worker, the tickers, *)
(* the client types and the waits of the MLP server take unchecked from    *)
(* the configuration is right after applyDefaults and Validate.            *)
THEOREM Configured == Spec => []LoadedFits
<1>1. Init => LoadedFits
  BY DEF Init, LoadedFits
<1>2. LoadedFits /\ [Next]_vars => LoadedFits'
  BY LoadedStep
<1> QED
  BY <1>1, <1>2, PTL DEF Spec

-------------------------------------------------------------------------------
(* The contract *)

(* A request that is not pushed is forgotten by no step of the process but *)
(* a start, which here purges nothing.                                     *)
LEMMA NothingForgotten ==
  ASSUME PartsInv, [Next]_vars, ~NotifyCompletion, NEW k \in Keys, row'[k].state = "absent"
  PROVE  row[k].state = "absent"
<1> USE PartsSuited
<1>1. CASE Unpushing
  BY <1>1, SameQueue, QP!RowKept, Zenon DEF PartsInv
<1>2. CASE NothingPurged
  BY <1>2, SMTT(20) DEF NothingPurged
<1> QED
  BY <1>1, <1>2, OtherSteps

(* What Deal makes of a state *)
Outcome(s) == IF s \in {"queued", "resolving", "locating"} THEN "pending" ELSE s

Bargain(outcome, report, sends, verdict) ==
    [outcome |-> outcome, report |-> report, sends |-> sends, verdict |-> verdict]

(* The step of one request without the completion hook: its outcome moves  *)
(* only while nothing is pushed, its delivery only afterwards.             *)
LEMMA DealStep ==
  ASSUME PartsInv, Agreed, dstops \in 0..MaxRestarts, [Next]_vars, ~NotifyCompletion, NEW k \in Keys
  PROVE  \/ Deal'[k] = Deal[k]
         \/ C!Accept(k) \/ C!Finish(k) \/ C!Send(k) \/ C!Settle(k)
<1> USE PartsSuited
<1>1. PartsInv' /\ QP!RowSteps
  BY PartsStep, Zenon
<1>2. [OP!Next]_(OP!vars)
  BY OutboxStep, SameOutbox, Zenon
<1>3. OP!RowStep(k) /\ dstops' \in 0..MaxRestarts
  BY <1>2, OP!StepOfRow, OP!RestartsBounded, Zenon DEF PartsInv
<1>4. payload'[k] = payload[k] /\ (outbox'[k].state = "absent" <=> outbox[k].state = "absent")
  <2>1. payload' = payload /\ OP!Uncreating
    BY OtherSteps, SameOutbox, Zenon
  <2> QED
    BY <2>1, OP!PresenceKept, Zenon DEF PartsInv
<1>5. /\ outbox[k].state # "absent" => row[k].state \in {"completed", "failed"}
      /\ outbox[k].state # "absent" => payload[k] \in {"completed", "failed"}
  BY DEF PartsInv, QP!Inv, QP!PushedOnce, Agreed, PayloadFinal
<1> DEFINE report == IF outbox[k].state = "absent" THEN "none" ELSE payload[k]
           verdict == IF O!Settled(k) THEN outbox[k].state ELSE "open"
<1>6. /\ Deal[k] = Bargain(Outcome(row[k].state), report, received[k], verdict)
      /\ Deal'[k] = Bargain(Outcome(row'[k].state), report', received'[k], verdict')
      /\ report' = report
      /\ Deal[k].outcome = Outcome(row[k].state) /\ Deal[k].report = report
      /\ Deal[k].sends = received[k] /\ Deal[k].verdict = verdict
  <2>1. /\ Deal[k] = Bargain(Outcome(row[k].state), report, received[k], verdict)
        /\ Deal'[k] = Bargain(Outcome(row'[k].state), report', received'[k], verdict')
    BY Zenon DEF Deal, Outcome, Bargain
  <2>2. report' = report
    BY <1>4
  <2> HIDE DEF report, verdict
  <2> QED
    BY <2>1, <2>2 DEF Bargain
<1>7. CASE row'[k].state # row[k].state
  <2>1. /\ ~QP!Terminal(row[k].state)
        /\ \/ row[k].state = "absent" /\ row'[k].state = "queued"
           \/ QP!CanTransition(row[k].state, row'[k].state)
    <3>1. QP!RowStep(k)
      BY <1>1 DEF QP!RowSteps
    <3>2. row'[k].state = "absent" => row[k].state = "absent"
      BY NothingForgotten
    <3>3. QP!CanTransition(row[k].state, row'[k].state) => ~QP!Terminal(row[k].state)
      BY <1>7 DEF QP!CanTransition, QP!Terminal, QP!TerminalStates
    <3> QED
      BY <1>7, <3>1, <3>2, <3>3 DEF QP!RowStep, QP!Terminal, QP!TerminalStates
  <2>2. outbox[k].state = "absent" /\ outbox'[k].state = "absent" /\ received'[k] = received[k]
    BY <1>3, <1>4, <1>5, <2>1 DEF OP!RowStep, QP!Terminal, QP!TerminalStates
  <2>3. Deal'[k] = [Deal[k] EXCEPT !.outcome = Outcome(row'[k].state)]
    <3>1. verdict' = verdict
      BY <2>2 DEF O!Settled
    <3> HIDE DEF report, verdict
    <3>2. [Deal[k] EXCEPT !.outcome = Outcome(row'[k].state)] =
            Bargain(Outcome(row'[k].state), report, received[k], verdict)
      BY <1>6 DEF Bargain
    <3> QED
      BY <1>6, <2>2, <3>1, <3>2, Zenon
  <2>4. \/ row[k].state = "absent" /\ Outcome(row'[k].state) = "pending"
        \/ /\ Outcome(row[k].state) = "pending"
           /\ Outcome(row'[k].state) \in {"pending"} \cup C!TerminalStates
    BY <1>7, <2>1, SMTT(20) DEF QP!CanTransition, QP!Terminal, QP!TerminalStates, C!TerminalStates, Outcome
  <2>5. Deal[k].outcome = Outcome(row[k].state)
    BY <1>6
  <2>6. CASE row[k].state = "absent"
    BY <2>3, <2>4, <2>5, <2>6 DEF C!Accept, Outcome
  <2>7. CASE Outcome(row[k].state) = Outcome(row'[k].state)
    <3>1. verdict' = verdict
      BY <2>2 DEF O!Settled
    <3> HIDE DEF report, verdict
    <3> QED
      BY <1>6, <2>2, <2>7, <3>1, Zenon
  <2>8. CASE Outcome(row[k].state) = "pending" /\ Outcome(row'[k].state) # "pending"
    BY <2>3, <2>4, <2>5, <2>8 DEF C!Finish, C!TerminalStates
  <2> QED
    BY <2>4, <2>6, <2>7, <2>8
<1>8. CASE row'[k].state = row[k].state /\ received'[k] # received[k]
  <2>1. /\ outbox[k].state = "in_flight" /\ outbox'[k].state = "in_flight"
        /\ received'[k] = received[k] + 1
    BY <1>3, <1>8 DEF OP!RowStep
  <2>2. Deal'[k] = [Deal[k] EXCEPT !.sends = received[k] + 1]
    <3>1. verdict' = verdict
      BY <2>1 DEF O!Settled
    <3> HIDE DEF report, verdict
    <3>2. [Deal[k] EXCEPT !.sends = received[k] + 1] =
            Bargain(Outcome(row[k].state), report, received[k] + 1, verdict)
      BY <1>6 DEF Bargain
    <3> QED
      BY <1>6, <1>8, <2>1, <3>1, <3>2, Zenon
  <2>3. received[k] < DeliveryAttempts + MaxRestarts
    <3>1. /\ outbox'[k] \in OP!Row /\ received[k] \in Nat /\ dstops' \in Nat
          /\ received'[k] <= outbox'[k].attempts
          /\ outbox'[k].attempts <= DeliveryAttempts + dstops'
      BY <1>1 DEF PartsInv, OP!Inv, OP!Types, OP!Claims, OP!Arrivals
    <3>2. outbox'[k].attempts \in Nat
      BY <3>1, SMTT(20) DEF OP!Row
    <3> QED
      BY <1>3, <2>1, <3>1, <3>2, PartsAssumption
  <2>4. /\ Deal[k].sends = received[k] /\ Deal[k].verdict = "open"
        /\ Deal[k].report = payload[k] /\ payload[k] # "none"
    BY <1>5, <1>6, <2>1, SMTT(20) DEF O!Settled
  <2> QED
    BY <2>2, <2>3, <2>4, SMTT(20) DEF C!Send
<1>9. CASE row'[k].state = row[k].state /\ received'[k] = received[k]
  <2>1. CASE O!Settled(k)' /\ ~O!Settled(k)
    <3>1. /\ outbox[k].state = "in_flight" /\ outbox'[k].state \in {"delivered", "failed"}
      BY <1>3, <2>1, SMTT(20) DEF OP!RowStep, O!Settled
    <3>2. outbox'[k].state = "delivered" => received[k] > 0
      <4>1. received[k] \in Nat /\ (outbox'[k].state = "delivered" => received'[k] >= 1)
        BY <1>1 DEF PartsInv, OP!Inv, OP!Types, OP!Arrivals
      <4> QED
        BY <1>9, <4>1, SMTT(20)
    <3>3. Deal'[k] = [Deal[k] EXCEPT !.verdict = outbox'[k].state]
      <4>1. verdict' = outbox'[k].state
        BY <2>1
      <4> HIDE DEF report, verdict
      <4>2. [Deal[k] EXCEPT !.verdict = outbox'[k].state] =
              Bargain(Outcome(row[k].state), report, received[k], outbox'[k].state)
        BY <1>6, SMTT(20) DEF Bargain
      <4> QED
        BY <1>6, <1>9, <4>1, <4>2, Zenon
    <3>4. /\ Deal[k].sends = received[k] /\ Deal[k].verdict = "open"
          /\ Deal[k].report = payload[k] /\ payload[k] # "none"
      BY <1>5, <1>6, <2>1, <3>1
    <3> QED
      BY <3>1, <3>2, <3>3, <3>4 DEF C!Settle
  <2>2. CASE O!Settled(k) \/ ~O!Settled(k)'
    <3>1. O!Settled(k) => outbox'[k].state = outbox[k].state
      BY <1>3 DEF OP!RowStep, O!Settled
    <3>2. O!Settled(k) => O!Settled(k)'
      BY <3>1 DEF O!Settled
    <3>3. O!Settled(k)' = O!Settled(k)
      BY <2>2, <3>2 DEF O!Settled
    <3> QED
      BY <1>4, <1>6, <1>9, <3>1, <3>3, Zenon
  <2> QED
    BY <2>1, <2>2
<1> QED
  BY <1>7, <1>8, <1>9

(* The hook's step: the request it pushes is reported in the state it has  *)
(* for good, and nothing else is touched.                                  *)
LEMMA HookStep ==
  ASSUME PartsInv, Agreed, NotifyCompletion, NEW k \in Keys
  PROVE  Deal'[k] = Deal[k] \/ C!Report(k)
<1>1. /\ row \in [Keys -> QP!Row] /\ outbox \in [Keys -> OP!Row]
      /\ w.pc = "notify" /\ w.key # None => w.final \in {"completed", "failed"} /\ row[w.key].outbox = 0
      /\ w.pc = "notify" /\ w.key # None => row[w.key].state = w.final
  BY DEF PartsInv, QP!Inv, QP!TypeOK, QP!Iteration, QP!PushedOnce, QP!WorkerInv,
         QP!HookReflectsState, OP!Inv, OP!Types
<1>2. /\ w.pc = "notify" /\ received' = received
      /\ row' = row \/ (w.key \in Keys /\ row' = [row EXCEPT ![w.key] = Q!Pushed(row[w.key])])
      /\ IF HookPushes
            THEN /\ outbox' = [outbox EXCEPT ![w.key].state = "pending"]
                 /\ payload' = [payload EXCEPT ![w.key] = w.final]
            ELSE outbox' = outbox /\ payload' = payload
  BY DEF NotifyCompletion, Q!NotifyCompletion, O!CreateDelivery, RequestJSON, outboxVars
<1>3. row'[k].state = row[k].state
  BY <1>1, <1>2 DEF Q!Pushed, QP!Row
<1>4. CASE ~HookPushes \/ k # w.key
  <2>1. outbox'[k] = outbox[k] /\ payload'[k] = payload[k] /\ received'[k] = received[k]
    BY <1>1, <1>2, <1>4, Zenon DEF Agreed
  <2> QED
    BY <1>3, <2>1, Zenon DEF Deal, O!Settled
<1>5. CASE HookPushes /\ k = w.key
  <2>1. /\ row[k].outbox = 0 /\ row[k].state = w.final /\ w.final \in {"completed", "failed"}
    BY <1>1, <1>2, <1>5, PartsAssumption
  <2>2. /\ outbox[k].state = "absent" /\ outbox'[k].state = "pending"
        /\ payload'[k] = w.final /\ received'[k] = received[k]
    BY <1>1, <1>2, <1>5, <2>1 DEF Agreed, PayloadFinal, OP!Row
  <2>3. /\ Deal[k] = Bargain(w.final, "none", received[k], "open")
        /\ Deal'[k] = Bargain(w.final, w.final, received[k], "open")
    <3>1. Outcome(w.final) = w.final
      BY <2>1 DEF Outcome
    <3> QED
      BY <1>3, <2>1, <2>2, <3>1, Zenon DEF Deal, Outcome, Bargain, O!Settled
  <2>4. Deal'[k] = [Deal[k] EXCEPT !.report = Deal[k].outcome]
    BY <2>3 DEF Bargain
  <2>5. Deal[k].outcome = w.final /\ Deal[k].report = "none"
    BY <2>3 DEF Bargain
  <2> QED
    BY <2>1, <2>4, <2>5 DEF C!Report
<1> QED
  BY <1>4, <1>5

(* The process keeps the contract with the client and the endpoint of      *)
(* every request: service, orchestrator, completion hook, outbox, delivery *)
(* worker and main together let a request have one outcome, and its        *)
(* endpoint that outcome and no other, only once it is final, never again  *)
(* after a verdict and no more often than the tries and restarts allow.    *)
THEOREM EndToEnd == Spec => Contract
<1> DEFINE Whole == PartsInv /\ Agreed /\ dstops \in 0..MaxRestarts
<1>1. Init => Whole /\ C!Init
  <2> SUFFICES ASSUME Init PROVE Whole /\ C!Init
    OBVIOUS
  <2>1. PartsInv /\ Agreed
    BY PartsInit, AgreedInit
  <2>2. dstops \in 0..MaxRestarts
    BY PartsAssumption DEF Init, O!Init
  <2>3. ASSUME NEW k \in Keys
        PROVE  row[k].state = "absent" /\ outbox[k].state = "absent" /\ received[k] = 0
    BY DEF Init, Q!Init, Q!NoRow, O!Init, O!NoDelivery
  <2>4. Deal = [k \in Keys |-> C!NoDeal]
    BY <2>3 DEF Deal, C!NoDeal, O!Settled
  <2> QED
    BY <2>1, <2>2, <2>4 DEF C!Init
<1>2. Whole /\ [Next]_vars => Whole' /\ [C!Next]_Deal
  <2> SUFFICES ASSUME Whole, [Next]_vars PROVE Whole' /\ C!Next
    OBVIOUS
  <2>1. Whole'
    <3>1. [OP!Next]_(OP!vars)
      BY OutboxStep, SameOutbox, Zenon
    <3>2. dstops' \in 0..MaxRestarts
      BY <3>1, PartsSuited, OP!RestartsBounded, Zenon
    <3> QED
      BY <3>2, PartsStep, AgreedStep
  <2>2. C!Next
    BY DealStep, HookStep, Zenon DEF C!Next
  <2> QED
    BY <2>1, <2>2
<1> QED
  BY <1>1, <1>2, PTL DEF Spec, Contract, C!Spec

(* What the contract makes of a deal *)
Deals == [outcome : {"absent", "pending"} \cup C!TerminalStates,
          report  : {"none", "completed", "failed"},
          sends   : Nat,
          verdict : {"open", "delivered", "failed"}]

(* What the contract says of every state *)
LEMMA ContractMeans == Contract => []C!Honest
<1> DEFINE Kept == (\A k \in Keys : Deal[k] \in Deals) /\ C!Honest
<1>1. C!Init => Kept
  <2> SUFFICES ASSUME C!Init, NEW k \in Keys
               PROVE  Deal[k] = C!NoDeal
    BY PartsAssumption DEF C!NoDeal, C!Honest, Deals
  <2> QED
    BY Zenon DEF C!Init
<1>2. Kept /\ [C!Next]_Deal => Kept'
  <2> SUFFICES ASSUME Kept, [C!Next]_Deal
               PROVE  Kept'
    OBVIOUS
  <2> HIDE DEF Kept
  <2> DEFINE Sound(d) ==
        /\ d \in Deals
        /\ d.report # "none" => d.report = d.outcome /\ d.outcome \in {"completed", "failed"}
        /\ d.sends > 0 \/ d.verdict # "open" => d.report # "none"
        /\ d.sends <= DeliveryAttempts + MaxRestarts
        /\ d.verdict = "delivered" => d.sends > 0
  <2>1. ASSUME NEW k \in Keys
        PROVE  Sound(Deal'[k])
    <3>1. Sound(Deal[k])
      BY DEF Kept, C!Honest
    <3>2. PICK d : d = Deal[k]
      OBVIOUS
    <3>3. PICK e : e = Deal'[k]
      OBVIOUS
    <3>4. \/ e = d
          \/ d.outcome = "absent" /\ e = [d EXCEPT !.outcome = "pending"]
          \/ d.outcome = "pending" /\ \E x \in C!TerminalStates : e = [d EXCEPT !.outcome = x]
          \/ /\ d.outcome \in {"completed", "failed"} /\ d.report = "none"
             /\ e = [d EXCEPT !.report = d.outcome]
          \/ /\ d.report # "none" /\ d.verdict = "open" /\ d.sends < DeliveryAttempts + MaxRestarts
             /\ e = [d EXCEPT !.sends = d.sends + 1]
          \/ /\ d.report # "none" /\ d.verdict = "open"
             /\ \E x \in {"delivered", "failed"} :
                    (x = "delivered" => d.sends > 0) /\ e = [d EXCEPT !.verdict = x]
      BY <3>2, <3>3, Zenon DEF C!Next, C!Accept, C!Finish, C!Report, C!Send, C!Settle
    <3>5. Sound(d)
      BY <3>1, <3>2
    <3>6. DeliveryAttempts \in Nat /\ MaxRestarts \in Nat
      BY PartsAssumption
    <3> QED
      BY <3>3, <3>4, <3>5, <3>6 DEF Deals, C!TerminalStates
  <2> QED
    BY <2>1 DEF Kept, C!Honest
<1>3. Kept => C!Honest
  OBVIOUS
<1> QED
  BY <1>1, <1>2, <1>3, PTL DEF Contract, C!Spec

(* In every state of the process (service, worker, completion hook, outbox *)
(* and delivery worker, over all restarts): what is to be reported of a    *)
(* request is its final outcome, only what is to be reported was sent, no  *)
(* more often than the delivery worker's tries and the restarts allow, and *)
(* nothing is called delivered that was not sent.                          *)
THEOREM HonestProcess == Spec => []C!Honest
  BY EndToEnd, ContractMeans, PTL

(* The process implements the request queue and the callback outbox: the   *)
(* one start, the one stop, the shared clock, the hook and the handlers of *)
(* main let nothing happen to either that its own module does not allow.   *)
THEOREM Composition == Spec => Q!Spec /\ O!Spec
<1>1. Init => Q!Init /\ O!Init
  BY DEF Init
<1>2. [Next]_vars => [Q!Next]_(Q!vars) /\ [O!Next]_(O!vars)
  <2> SUFFICES ASSUME [Next]_vars PROVE [Q!Next]_(Q!vars) /\ [O!Next]_(O!vars)
    OBVIOUS
  <2>1. [Q!Next]_(Q!vars)
    BY QueueStep DEF queueVars, Q!vars
  <2>2. [O!Next]_(O!vars)
    BY OutboxStep DEF outboxVars, O!vars
  <2> QED
    BY <2>1, <2>2
<1> QED
  BY <1>1, <1>2, PTL DEF Spec, Q!Spec, O!Spec
(* What the queue and the outbox promise on their own holds in the process *)
(* that main builds of them: no row is stranded, a result is there exactly *)
(* for what completed, tries are counted, one callback is pushed, of the   *)
(* state the row has; and the endpoint is sent no more than the tries      *)
(* allow, and every verdict on a delivery is earned.                       *)
THEOREM PromisesKept ==
  Spec => [](/\ Q!NoStrandedRow /\ Q!ResultIffCompleted /\ Q!RetryBudget
             /\ Q!PushedOnce /\ Q!HookReflectsState
             /\ O!SendBudget /\ O!OutcomeEarned)
<1> DEFINE Promises == /\ Q!NoStrandedRow /\ Q!ResultIffCompleted /\ Q!RetryBudget
                       /\ Q!PushedOnce /\ Q!HookReflectsState
                       /\ O!SendBudget /\ O!OutcomeEarned
<1>1. Spec => []PartsInv
  BY PartsInit, PartsStep, PTL DEF Spec
<1>2. PartsInv => Promises
  <2> SUFFICES ASSUME PartsInv PROVE Promises
    OBVIOUS
  <2>1. /\ QP!NoStrandedRow /\ QP!ResultIffCompleted /\ QP!RetryBudget
        /\ QP!PushedOnce /\ QP!HookReflectsState
    BY DEF PartsInv, QP!Inv
  <2>2. Q!NoStrandedRow /\ Q!ResultIffCompleted /\ Q!RetryBudget
    BY <2>1, Zenon DEF Q!NoStrandedRow, QP!NoStrandedRow, Q!ResultIffCompleted, QP!ResultIffCompleted,
                Q!RetryBudget, QP!RetryBudget, Q!InFlight, QP!InFlight, Q!Terminal, QP!Terminal,
                Q!TerminalStates, QP!TerminalStates, Q!Holds, QP!Holds
  <2>3. Q!PushedOnce /\ Q!HookReflectsState
    BY <2>1, Zenon DEF Q!PushedOnce, QP!PushedOnce, Q!HookReflectsState, QP!HookReflectsState
  <2>4. OP!SendBudget /\ OP!OutcomeEarned
    BY DEF PartsInv, OP!Inv, OP!Claims, OP!Arrivals, OP!Earned, OP!SendBudget, OP!OutcomeEarned
  <2>5. O!SendBudget /\ O!OutcomeEarned
    BY <2>4, Zenon DEF O!SendBudget, OP!SendBudget, O!OutcomeEarned, OP!OutcomeEarned,
                O!Undisturbed, OP!Undisturbed
  <2> QED
    BY <2>2, <2>3, <2>5
<1> HIDE DEF Promises
<1>3. Spec => []Promises
  BY <1>1, <1>2, PTL
<1> QED
  BY <1>3 DEF Promises
===============================================================================
