--------------------------------- MODULE Gmlc ---------------------------------
(***************************************************************************)
(* The process that cmd/gmlc builds from its parts: main's start and stop  *)
(* around the request queue (RequestQueue), the callback outbox            *)
(* (DeliveryOutbox), the handlers of the MLP server and, as one bit, the   *)
(* Diameter peers (DiameterPeers).                                         *)
(*                                                                         *)
(* The steps of the queue and of the outbox are the actions of their       *)
(* modules; what this module adds is when main lets them happen, the       *)
(* completion hook that joins them, the one clock they share and the one   *)
(* deadline that all the Close calls of a stop share.  No store write      *)
(* fails and no row is old enough for the purge.                           *)
(***************************************************************************)
EXTENDS Config

CONSTANTS
    Keys, None, Callbacks, MaxAttempts, MaxRestarts,   \* see RequestQueue
    DeliveryAttempts,   \* delivery.Config.MaxAttempts
    Files               \* the configuration files there may be at a start

ASSUME PartsAssumption ==
    /\ None \notin Keys
    /\ {MaxAttempts, DeliveryAttempts} \subseteq Nat \ {0} /\ MaxRestarts \in Nat
    /\ \A n \in 0..MaxAttempts : 2^n \in Nat
    /\ \A n \in 0..DeliveryAttempts : 2^n \in Nat
    /\ Callbacks \subseteq {"done", "register", "attach"}
ASSUME FilesAssumption == \A f \in Files : f.config \in Settings

VARIABLES
    stage,      \* how far main has come
    cfg,        \* the configuration, until everything is built from it
    enabled,    \* cfg.Delivery.Enabled
    expired,    \* the context of the stop is done
    handlers,   \* keys a handler of the MLP server is working on
    peer,       \* whether some Diameter peer is ready
    recovered,  \* requests that were not finished when the process started
    stranded,   \* deliveries in flight when the process started
    payload,    \* payload[k]: the state the delivery for k reports
    row, older, fresh, proc, w, submitting, cancelling, restarts, faults,
    outbox, sentOlder, sentFresh, dproc, dw, received, dstops, dfaults

mainVars == <<stage, cfg, enabled, expired, handlers, peer, recovered, stranded>>
queueVars == <<row, older, fresh, proc, w, submitting, cancelling, restarts, faults>>
outboxVars == <<outbox, sentOlder, sentFresh, dproc, dw, received, dstops, dfaults>>
vars == <<mainVars, payload, queueVars, outboxVars>>

Q == INSTANCE RequestQueue WITH MaxFaults <- 0

O == INSTANCE DeliveryOutbox WITH
        Deliveries <- Keys, Broken <- {}, Answers <- {"2xx", "other", "error"},
        MaxAttempts <- DeliveryAttempts, BackoffMin <- 1, BackoffMax <- 2, MaxFaults <- 0,
        older <- sentOlder, fresh <- sentFresh, proc <- dproc, w <- dw,
        restarts <- dstops, faults <- dfaults

Init ==
    /\ stage = "down" /\ cfg = None /\ enabled = FALSE /\ expired = FALSE
    /\ handlers = {} /\ peer = "down" /\ recovered = {} /\ stranded = {}
    /\ payload = [k \in Keys |-> "none"]
    /\ Q!Init /\ O!Init

-------------------------------------------------------------------------------
(* Start *)

(* config.Load; with a file it refuses, main exits and nothing changes *)
LoadConfig ==
    /\ stage = "down"
    /\ \E f \in Files : Accepted(f) /\ cfg' = Load(f)
    /\ stage' = "loaded"
    /\ UNCHANGED <<enabled, expired, handlers, peer, recovered, stranded, payload, queueVars, outboxVars>>

Unfinished == {k \in Keys : row[k].state \in {"queued", "resolving", "locating"}}

(* No row is old enough. *)
NothingPurged ==
    \A k \in Keys : row'[k].result = row[k].result /\ (row'[k].state = "absent" => row[k].state = "absent")

(* sqlite.Open to worker.Start *)
Boot ==
    /\ stage = "loaded"
    /\ Opens(cfg.database) /\ RoutingIdentity(cfg.diameter)
    /\ Q!Boot
    /\ NothingPurged
    /\ stage' = "starting" /\ cfg' = None /\ enabled' = cfg.delivery.enabled
    /\ recovered' = Unfinished
    /\ stranded' = {k \in Keys : outbox[k].state = "in_flight"}
    /\ UNCHANGED <<expired, handlers, peer, payload, outboxVars>>

(* main exits on the way there: before Recover, or after it for an         *)
(* identity that slh.New finds blank                                       *)
StartFails ==
    /\ stage = "loaded"
    /\ \/ UNCHANGED queueVars
       \/ /\ Opens(cfg.database) /\ ~RoutingIdentity(cfg.diameter)
          /\ Q!StartFails
          /\ NothingPurged
    /\ stage' = "down" /\ cfg' = None
    /\ UNCHANGED <<enabled, expired, handlers, peer, recovered, stranded, payload, outboxVars>>

SetCompletionHook ==
    /\ stage = "starting"
    /\ Q!SetCompletionHook
    /\ stage' = "hooked"
    /\ UNCHANGED <<cfg, enabled, expired, handlers, peer, recovered, stranded, payload, outboxVars>>

(* deliveryWorker.Start and ListenAndServe, whose error is only logged *)
StartServers ==
    /\ stage = "hooked"
    /\ IF enabled THEN O!Boot ELSE UNCHANGED outboxVars
    /\ stage' \in {"serving", "deaf"}
    /\ UNCHANGED <<cfg, enabled, expired, handlers, peer, recovered, stranded, payload, queueVars>>

-------------------------------------------------------------------------------
(* Stop: each Close returns when its part is done or the context is *)

Signal ==
    /\ stage \in {"serving", "deaf"}
    /\ restarts < MaxRestarts
    /\ stage' = "draining" /\ expired' = FALSE
    /\ UNCHANGED <<cfg, enabled, handlers, peer, recovered, stranded, payload, queueVars, outboxVars>>

Expire ==
    /\ stage \in {"draining", "closing worker", "closing delivery"}
    /\ ~expired
    /\ expired' = TRUE
    /\ UNCHANGED <<stage, cfg, enabled, handlers, peer, recovered, stranded, payload, queueVars, outboxVars>>

(* Mutant: Shutdown with a context of its own, which has no deadline *)
CloseWorker_NoDeadline ==
    /\ stage = "draining"
    /\ handlers = {}
    /\ Q!Shutdown
    /\ stage' = "closing worker"
    /\ UNCHANGED <<cfg, enabled, expired, handlers, peer, recovered, stranded, payload, outboxVars>>

(* mlpServer.Shutdown returns, and worker.Close cancels the worker *)
CloseWorker ==
    /\ stage = "draining"
    /\ handlers = {} \/ expired
    /\ Q!Shutdown
    /\ stage' = "closing worker"
    /\ UNCHANGED <<cfg, enabled, expired, handlers, peer, recovered, stranded, payload, outboxVars>>

(* worker.Close returns, and deliveryWorker.Close cancels its worker *)
CloseDelivery ==
    /\ stage = "closing worker"
    /\ w.pc = "idle" \/ expired
    /\ IF enabled THEN O!Shutdown ELSE UNCHANGED outboxVars
    /\ stage' = "closing delivery"
    /\ UNCHANGED <<cfg, enabled, expired, handlers, peer, recovered, stranded, payload, queueVars>>

(* The process and everything in it is gone. *)
Ended ==
    /\ stage' = "down" /\ handlers' = {} /\ peer' = "down"
    /\ UNCHANGED <<cfg, enabled, expired, recovered, stranded, payload>>

(* Mutant: the delivery worker is not waited for *)
CloseStore_NoWait ==
    /\ stage = "closing delivery"
    /\ Q!Exit
    /\ IF enabled THEN O!Exit ELSE UNCHANGED outboxVars
    /\ Ended

(* deliveryWorker.Close, registry.Close and the wait for the purge return, *)
(* the last two when they are done or the context is, as one more delay;   *)
(* the store is closed and main returns.  The handlers of location reports *)
(* that may still run are those of LocationReports.                        *)
CloseStore ==
    /\ stage = "closing delivery"
    /\ dw.pc = "idle" \/ expired
    /\ Q!Exit
    /\ IF enabled THEN O!Exit ELSE UNCHANGED outboxVars
    /\ Ended

(* A crash after that is, to the store, a stop whose deadline is over. *)
Crash ==
    /\ stage \in {"starting", "hooked", "serving", "deaf", "draining"}
    /\ Q!Crash
    /\ IF dproc = "up" THEN O!Crash ELSE UNCHANGED outboxVars
    /\ Ended

-------------------------------------------------------------------------------
(* The MLP server.  Shutdown lets the handlers run on.                     *)

HandlerStarts(k) ==
    /\ stage = "serving"
    /\ k \notin handlers
    /\ handlers' = handlers \cup {k}
    /\ UNCHANGED <<stage, cfg, enabled, expired, peer, recovered, stranded, payload, queueVars, outboxVars>>

(* It has its answer, or its wait is over. *)
HandlerReturns(k) ==
    /\ k \in handlers
    /\ submitting[k] = "done" /\ k \notin cancelling
    /\ handlers' = handlers \ {k}
    /\ UNCHANGED <<stage, cfg, enabled, expired, peer, recovered, stranded, payload, queueVars, outboxVars>>

(* The service; validateCallback refuses a callback without the encryptor  *)
(* that main installs if delivery is enabled                               *)
Client(k) ==
    /\ k \in handlers
    /\ \/ \E left \in Callbacks : (left # "done" => enabled) /\ Q!Submit(k, left)
       \/ Q!RegisterCallback(k) \/ Q!AttachCallback(k) \/ Q!SubmitAborts(k)
       \/ Q!Cancel(k) \/ Q!SignalCancel(k)
    /\ UNCHANGED <<mainVars, payload, outboxVars>>

-------------------------------------------------------------------------------
(* The Diameter peers.  Registry.Start does not wait for a connection.     *)

Connect ==
    /\ proc # "down" /\ peer = "down" /\ peer' = "ready"
    /\ UNCHANGED <<stage, cfg, enabled, expired, handlers, recovered, stranded, payload, queueVars, outboxVars>>

Disconnect ==
    /\ peer = "ready" /\ peer' = "down"
    /\ UNCHANGED <<stage, cfg, enabled, expired, handlers, recovered, stranded, payload, queueVars, outboxVars>>

(* A call without a peer: Select's "diameter route unavailable" is no error *)
(* handleError retries; a connection may also be lost under the call       *)
RouteErrors == {"permanent", "ErrConnectionLost"}

CallErrors(errors) == IF peer = "ready" THEN errors ELSE RouteErrors

-------------------------------------------------------------------------------
(* The orchestrator's worker *)

NetworkCall ==
    \/ /\ w.pc = "resolving"
       /\ \E e \in CallErrors(Q!ResolverErrors) : Q!CallFailed("resolving", e)
       /\ UNCHANGED <<older, fresh, proc, submitting, cancelling, restarts, faults>>
    \/ /\ w.pc = "locating"
       /\ \E e \in CallErrors(Q!ProviderErrors) : Q!CallFailed("locating", e)
       /\ UNCHANGED <<older, fresh, proc, submitting, cancelling, restarts, faults>>
    \/ /\ peer = "ready"
       /\ Q!Resolved \/ Q!NoImmediateResult \/ \E position \in BOOLEAN : Q!Located(position)

Claim == Q!Claim /\ UNCHANGED <<mainVars, payload, outboxVars>>

WorkerStep ==
    /\ Q!Register \/ NetworkCall \/ Q!RecordHistory
    /\ UNCHANGED <<mainVars, payload, outboxVars>>

(* Mutant: the hook reports every request as completed *)
RequestJSON_Completed == "completed"

(* delivery.RequestJSON of the worker's copy, in the state it was left *)
RequestJSON == w.final

(* Mutant: the hook pushes results only *)
HookPushes_CompletedOnly == w.key \in Keys /\ row'[w.key] # row[w.key] /\ w.final = "completed"

(* The hook of main gets as far as CreateDelivery. *)
HookPushes == w.key \in Keys /\ row'[w.key] # row[w.key]

(* notifyCompletion with the hook of main *)
NotifyCompletion ==
    /\ Q!NotifyCompletion
    /\ IF HookPushes
       THEN O!CreateDelivery(w.key) /\ payload' = [payload EXCEPT ![w.key] = RequestJSON]
       ELSE UNCHANGED <<outboxVars, payload>>
    /\ UNCHANGED mainVars

-------------------------------------------------------------------------------
ClaimDelivery == O!ClaimNextDelivery /\ UNCHANGED <<mainVars, payload, queueVars>>

DeliveryStep == O!WorkerStep /\ UNCHANGED <<mainVars, payload, queueVars>>

(* Both tables see the same second begin. *)
Tick ==
    /\ Q!Ticking \/ O!Ticking
    /\ IF Q!Ticking THEN Q!Tick ELSE UNCHANGED queueVars
    /\ IF O!Ticking THEN O!Tick ELSE UNCHANGED outboxVars
    /\ UNCHANGED <<mainVars, payload>>

Main ==
    \/ SetCompletionHook \/ StartServers
    \/ CloseWorker \/ CloseDelivery \/ CloseStore

Next ==
    \/ LoadConfig \/ Boot \/ StartFails
    \/ Main \/ Signal \/ Expire \/ Crash
    \/ \E k \in Keys : HandlerStarts(k) \/ HandlerReturns(k) \/ Client(k)
    \/ Connect \/ Disconnect
    \/ Claim \/ WorkerStep \/ NotifyCompletion
    \/ ClaimDelivery \/ DeliveryStep
    \/ Tick

Spec == Init /\ [][Next]_vars

(* Once started, main and the two workers run, network calls and HTTP      *)
(* calls end, the deadline of a stop passes, time passes.                  *)
FairSpec ==
    /\ Spec
    /\ WF_vars(Main) /\ WF_vars(Expire) /\ WF_vars(Tick)
    /\ WF_vars(Claim) /\ WF_vars(WorkerStep) /\ WF_vars(NotifyCompletion)
    /\ WF_vars(ClaimDelivery) /\ WF_vars(DeliveryStep)

-------------------------------------------------------------------------------
(* Properties *)

(* What main's parts rely on without a check of their own *)
Fits(c) ==
    /\ DeliveryNew(c.delivery) = c.delivery
    /\ c.delivery.enabled => c.delivery.keyBytes = 32
    /\ c.delivery.min <= c.delivery.max \/ c.delivery.max = 300
    /\ c.retention.interval > 0 /\ c.diameter.watchdog > 0
    /\ c.diameter.hssRealm # ""
    /\ \A i \in 1..Len(c.clients) :
         ClientTypeValue(c.clients[i]) = 0 <=> c.clients[i].type = "emergency_services"
    /\ c.mlp.sync \in 1..c.mlp.maxSync

(* What the parts of main take from the configuration without looking is   *)
(* right in whatever Load accepts (config.Load, applyDefaults, Validate):  *)
(* delivery.New finds nothing to default and no reason to panic, no ticker *)
(* gets an interval it panics on, the HSS realm is not empty, a client is  *)
(* an emergency service only by its own configuration (a map lookup that   *)
(* fails would make it one), and the wait of an MLP client that names none *)
(* is within the server's cap.  It does not say that the parts can be      *)
(* built: sqlite.Open and slh.New still refuse some of what Load accepts   *)
(* (StartFails).                                                           *)
LoadedFits == stage = "loaded" => Fits(cfg)

(* The outbox and the queue agree (the completion hook): there is a        *)
(* delivery exactly for the requests pushed, its payload reports the state *)
(* the request has for good, and only a request submitted with a callback  *)
(* has one, over restarts with and without delivery enabled.               *)
PayloadFinal ==
    \A k \in Keys :
        /\ outbox[k].state # "absent" <=> row[k].outbox = 1
        /\ outbox[k].state # "absent" => payload[k] = row[k].state /\ row[k].sub

(* What the client and the endpoint of a request see of it *)
Deal == [k \in Keys |->
    [outcome |-> IF row[k].state \in {"queued", "resolving", "locating"} THEN "pending" ELSE row[k].state,
     report  |-> IF outbox[k].state = "absent" THEN "none" ELSE payload[k],
     sends   |-> received[k],
     verdict |-> IF O!Settled(k) THEN outbox[k].state ELSE "open"]]

C == INSTANCE ServiceContract WITH deal <- Deal, MaxSends <- DeliveryAttempts + MaxRestarts

(* The process as a whole (service, orchestrator, completion hook, outbox, *)
(* delivery worker, starts and stops of main) keeps the contract with the  *)
(* client and the endpoint of every request.                               *)
Contract == C!Spec

(* When main closes the store before its deadline (the Close calls of      *)
(* main), the parts it has waited for are done with it: no handler of the  *)
(* MLP server, no request or delivery the two workers are at, and no       *)
(* delivery in flight that was not so at the start.  Nobody waits for the  *)
(* handlers of location reports: AckedIsKept of LocationReports says what  *)
(* becomes of those.                                                       *)
StopInOrder ==
    [][stage = "closing delivery" /\ stage' = "down" /\ ~expired =>
        /\ handlers = {} /\ submitting = [k \in Keys |-> "done"] /\ cancelling = {}
        /\ w.pc = "idle" /\ dw.pc = "idle"
        /\ \A k \in Keys : outbox[k].state = "in_flight" => k \in stranded]_vars

(* SIGTERM ends the process, whatever the handlers, the network and the    *)
(* endpoint do: every wait of main's stop shares one deadline.             *)
StopEnds == stage = "draining" ~> stage = "down"

(* Once the worker is at a request with its callback and main has set the  *)
(* hook, the callback is delivered or given up after its tries: through    *)
(* the hook, the outbox and the delivery worker (orchestrator, cmd/gmlc,   *)
(* delivery), unless the request is cancelled or the process stops, in     *)
(* every run of the process that has delivery enabled.                     *)
CallbackSettles ==
    \A k \in Keys :
        w.key = k /\ w.sub /\ enabled /\ proc = "up" ~>
            O!Settled(k) \/ row[k].state = "cancelled" \/ stage \in {"draining", "down"}

(* "Requests are durably queued in SQLite and driven to completion by a    *)
(* background worker, so results survive a restart" (README.md): a request *)
(* left over from the last run is not given up as refused by the network   *)
(* while no peer is connected.                                             *)
RecoveredDrivenOn ==
    [][\A k \in recovered :
        row[k].state # "failed" /\ row'[k].state = "failed" /\ row'[k].code = "network_failure"
            => peer = "ready"]_vars
===============================================================================
