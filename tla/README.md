# A TLA+ verification of VectorCore GMLC

The GMLC takes location requests from clients (OMA MLP over HTTP), keeps them in
an SQLite database, asks an HSS (SLh) and an MME (SLg) over Diameter where the
subscriber is, and hands the answer back: to a waiting MLP client, to a poll, or
by a push to a registered callback. It also receives unsolicited location
reports (LRR) and keeps a history of fixes. Paths below are relative to `src/`.

The project has one module per component, and one that composes them into the
process. TLC checks each on a small instance. TLAPS proves, for every value of
the constants, the safety of the request queue, the outbox, the Diameter peers, the
immediate answer and the location reports, which fixes are pruned and answered, what the
messages of a request and its position are made of, what the conversions do, what
a loaded configuration guarantees, that the composition implements its parts,
that it stops in order, and that it keeps one contract with the client and the
endpoint of every request, from the submission to the last push.

## The system and its parts

| Part | Source | Module | Concurrency |
|---|---|---|---|
| Request states | `internal/domain` | `Domain`, `RequestLifecycle` | none |
| Request queue: table, worker, recovery, purge | `internal/orchestrator`, `internal/storage/sqlite`, `internal/service`, `cmd/gmlc` | `RequestQueue` | one worker goroutine, client goroutines, the hourly sweep, process start and stop |
| Push of results: outbox and its worker | `internal/delivery`, `internal/storage/sqlite` | `DeliveryOutbox` | one worker goroutine, the endpoint, start and stop |
| Diameter peers, routing, transactions | `internal/diameter` | `DiameterPeers` | per peer a manager and a watcher per connection, callers, answer handlers, shutdown |
| MLP immediate service | `internal/mlp`, `internal/service` | `MlpImmediate` | one HTTP handler against the worker, the sweep and the clock |
| Location history | `internal/storage/sqlite`, `internal/mlp` | `LocationHistory` | none: data over a time order |
| One request's data: parsing, authorization, RIR, PLR, their answers, the `pos` | `internal/mlp`, `internal/auth`, `internal/slh`, `internal/slg`, `internal/orchestrator` | `Positioning` | none: one request |
| Digits, shapes, coordinates | `internal/slh`, `internal/gad`, `internal/mlp/dtd.go` | `Codecs` | none: functions |
| Configuration | `internal/config` and the constructors | `Config` | none: functions |
| The process: start, stop, and what joins the parts | `cmd/gmlc` | `Gmlc` (uses `Config`, `RequestQueue`, `DeliveryOutbox`), `ServiceContract` | `main`, the handlers, both workers, the clock |
| LRR handling, deferred subscriptions | `internal/lrr`, `internal/mlp`, `internal/storage/sqlite` | `LocationReports` | one handler per Diameter connection, crashes, stops |

How they meet:

- `service.Submit` writes a row and wakes the queue's worker. The worker calls
  the SLh and SLg clients, which call the peers.
- When the worker ends a request itself, it calls the completion hook. The hook
  that `main` installs writes a row into the outbox, if the request has a callback.
- The MLP handler submits a batch and polls the rows until its deadline.
- The worker records a fix in the history when it completes a request with a position.
- LRRs arrive on the same Diameter connections, but touch other tables.

## The modules

### RequestLifecycle and Domain

`Domain` has the states and `CanTransition` of `domain.go`. `RequestLifecycle` is
the abstract promise: a request moves only along `CanTransition`, it has a result
exactly when completed, and a terminal state is final. A purge may remove a
terminal request. `Domain` also has the errors of the two Diameter clients as
`handleError` tells them apart; `Positioning` shows that the clients return no others.

### RequestQueue

State: `row` (one `location_requests` row per idempotency key, with its result,
its subscription, and the number of outbox entries made for it), `w` (the
locals of `Worker.one`), `older` and `fresh` (the order of `created_at`, to the
second), `submitting` and `cancelling` (handlers between two store calls), `proc`
(`main`'s start and stop; while it is "starting" the completion hook is not yet
set), `restarts`, `faults`.

Each store call is one action, because SQLite runs each in a transaction. What
lies between two store calls is open to every other actor. `Worker.one` is
therefore split into Claim, Register, the resolution, the positioning,
RecordHistory and Notify, and `Submit` into CreateRequest, RegisterCallback and
AttachCallback. The actions include what they trail: a failed
call ends in `handleError` with its requeue or its failure.

Modelling decisions:

- The end of a network call and the store call after it are one step. Nothing
  observes the state between them.
- `onComplete` is written by `main` after the worker has started, without
  synchronisation. The model is sequentially consistent: the worker sees either nil or the hook.
- Time is a countdown of seconds in each waiting row. Times are compared as text
  in the database, and that is the time order between different seconds;
  `LocationHistory` is about the order inside one second.
- A crash ends the process. The database survives it.
- `row.history` is a ghost that remembers whether RecordHistory ran.
- No caller in the tree sets a callback URL or calls `Service.Cancel`. Both are
  part of the service's interface and exercised by its tests, so they are modelled.

### DeliveryOutbox

State: `outbox` (the `delivery_outbox` rows), the worker's locals, what the
endpoint has received, the process. The worker claims a delivery, looks up
its subscription, posts, and records the outcome. The POST has two steps, its
arrival and its answer, and a shutdown or crash may fall between them. `Broken`
are deliveries whose subscription is gone or whose secret cannot be decrypted.
Back-off doubles from `BackoffMin` to `BackoffMax`; the overflow guard of the code
is not reached in seconds. The rows are never deleted, as in the code.

### DiameterPeers

State: per peer the manager's loop and delay, per connection its state and
the peer's announced capabilities, the routing table, per caller the pending transaction
and its channel, the shutdown. Capabilities may change from one connection to the
next. Answers may come late, after the caller has given up or the connection is
replaced. `Manager.Close` setting the state and closing `stop` is one step.
`deliver` has two steps: it takes the channel out of `pending` under the lock (`Deliver`)
and sends to it without (`Send`); the callers, `failAll` and other answers may come between.
`Select` is the set that holds the index of the chosen table entry, or is empty. The
Diameter library is external: it is modelled by the callbacks `tcp.go` registers.

### MlpImmediate

`resolveImmediate` with the parsing and authorization before it, `SubmitBatch`,
`waitDeadline` and `awaitTerminal`. Reading a request, reading its result and
comparing the clock are three steps, because the worker, the sweep and the clock
move in between. `time.Duration` wraps at `Range` (2^63 ns in the code).
The rows move along `CanTransition` and owe the handler nothing. The checks of the
elements are one outcome of `Parse`; their data is in `Positioning`.

### LocationHistory

`RecordHistory` with its prune, and `QueryHistory` as an operator. A time is a
second and a fraction, and `Before` is the order of its RFC3339Nano text:
trailing zeros of the fraction are dropped and a whole second has no fraction,
so it sorts after its own fractions. The properties quantify over every
query, and each reachable table answers all of them.

### LocationReports

State: `sub` (the deferred subscriptions), `stored` and `naming` (how many rows of
`location_reports` were made of a report, and how many name a subscription), the
handler of each connection, what was pushed, arrived and answered.
The LRR handler step by step: Find the subscription, Mark it reported, Create the
report, Push it, Answer. Each step is a store or network call, and handlers on
several connections interleave. A report without an answer is
repeated by the MME, possibly over another connection. The model assumes that the
library runs one handler at a time per connection. A report that `DecodeLRR` refuses is
one of the form "malformed".

Nobody waits for these handlers when the process stops. `CloseConnection` is what
`registry.Close` does to a connection, `CloseStore` is `st.Close`, and the handlers go on
in between: their store calls fail once the store is closed, their answers once the
connection is. `registry.Close` returns when all connections are closed or the deadline of
the stop is over; `late` remembers that it was the deadline. `Restart` ends the process,
after a stop, in the middle of one or by a crash.

### Codecs

The conversions as functions of integers: TBCD digits both ways
(`EncodeMSISDN`, `DecodeMSISDN`), which octets `gad.Decode` accepts, the
latitude (sign and magnitude) and longitude (two's complement), the uncertainty
code both ways, and the DMSH coordinates both ways. A coordinate stays the code
it has on the wire. The code computes with `float64`, and for coordinates that is
exact: a 24-bit code times 90 (180), 3600 and 1000 over 2^23 needs fewer than 53
bits. So `math.Round` is integer rounding, half up. An accuracy asked
for is a whole number of parts of a metre (`Parts`; hundredths in the run). It is at least what code k stands
for if `10 * 11^k <= (m + 10) * 10^k` in metres (`Within`). `EncodeUncertaintyValue` does
not decide that exactly: it floors a quotient of two `float64` logarithms. For an accuracy that stands
for a code exactly (2.1, 3.31 and 4.641 metres are codes 2 to 4) the quotient is just
below the code, and the code before it is chosen. `FallsShort` is the set of these codes, and
`Reaches` is the comparison the code makes. Computed for all codes with Go's algorithm, the set is
`2..127`, and no other multiple of a thousandth of a metre up to 200 metres is decided otherwise than
exactly. The model does not cover accuracies so near to a code's value that only the
rounding of the last bits tells them apart, nor NaN and infinities. The
instance stops at code 6 because TLC's integers have 32 bits.

### Positioning

One request with its data, without interleavings (those are `RequestQueue`'s).
State: the `slir` asked, the row, the locals and the messages of the current
attempt, how the last call failed, and the `pos`. The actions are the handler,
the claim, sending and receiving a RIR and a PLR with each way they fail, and
`buildPos`. An AVP that may be repeated is a sequence. Messages of the
network are sets of records: right ones, answers to somebody else's request, refused
ones (with a Result-Code, an Experimental-Result, both or neither), incomplete
ones, repeated estimates, and estimates of every shape and some that are none.
The client's token and its grant of the immediate service are one outcome
(`authentic`), and the prefixes it may locate are compared. Of an answer's AVPs, those
the model does not have (velocity, positioning data, age and the indicator of the accuracy)
are refused by the code when they have the wrong type, as a mistyped estimate is here.
`SendRIR` and `SendPLR` may always fail as well, because the registry may have no route.

### Config and Gmlc

`Config` is `Load`: the defaults, `Validate` section by section, and what
`delivery.New`, `sqlite.Open` and the Diameter clients do with the values
afterwards. `ToLower` and `ToUpper` are parameters.

`Gmlc` is `main`. It instantiates `RequestQueue` and `DeliveryOutbox` and adds
when their steps may happen: `stage` follows `main` from the configuration over
Recover, the start of the worker, the hook, the delivery worker and the server, to
the signal and the sequence of Close calls, which share one deadline
(`expired`). The completion hook is one step of both tables. One clock ticks for
both. Handlers run until `Shutdown` has waited for them or the deadline has passed. Each start may
find another configuration file, so delivery may be on in one run and off in the
next. The Diameter peers are one bit: `DiameterPeers` shows what is behind it.
`CloseStore` is the rest of the stop: `registry.Close`, the wait for the sweep and `st.Close`; the
handlers of location reports, which outlive it, are in `LocationReports`.
A crash may happen at every stage up to the drain; after that it leaves the
tables as an expired deadline does. No row is old enough for the purge here and no
write fails; both are in `RequestQueue`.

`ServiceContract` is the abstract specification of the whole, in the four things the
client and the endpoint of a request can observe: its outcome, what is reported of it,
how often the report was sent, and the verdict on the delivery. An outcome is final; the
report is the outcome, made once and after it; only an open report is sent, at most
`MaxSends` times; "delivered" needs a send. `Deal` in `Gmlc` maps the two tables and the
arrivals to these, with `MaxSends` the tries of the delivery worker plus the restarts
(each may cut off a call that had arrived), and `Contract` says that the process
implements it. It promises safety only: a crash between the outcome and the hook leaves
a request unreported. And it holds for the time a row is kept: what the sweep removes
is forgotten.

## Runs

Passing runs:

| Run | Instance | What it shows |
|---|---|---|
| `queue` | 2 keys, 2 tries, 1 crash or shutdown | `NoStrandedRow`, `ResultIffCompleted`, `RetryBudget`, `PushedOnce`, `HookReflectsState`, the inductive invariant `Inv` (which contains the types), and the refinement of `RequestLifecycle` (`Lifecycle`) |
| `queue_live` | the same without callbacks, with 1 failing write | every request ends unless a store write failed (`RequestsFinishUnlessFault`) |
| `outbox` | 2 deliveries, one unusable, 3 tries, 2 restarts, 1 failing call | sends are bounded by the tries and restarts (`SendBudget`), an outcome has its reason (`OutcomeEarned`), it is final (`SettledForGood`), undisturbed deliveries settle (`DeliveriesSettle`) |
| `peers` | 1 peer, 2 connections, 1 caller, 2 calls | routes follow the live connection (`RouteCurrent`), a call gets at most one result, so no send blocks the reader of a connection (`OneResult`), no caller sleeps on a lost connection (`NoLostWakeup`), shutdown is clean and ends, calls return |
| `mlp` | 2 targets, waits up to 2, clock up to 3, 1 failing read | a `pos` says what the row said (`PosTruthful`), a target is read even after the shared deadline (`LateTargetsLookedAt`), timeouts are due (`TimeoutsDue`), nobody is called timed out before the time asked for is over (`WaitAsAsked`), the client is answered (`Answered`) |
| `history` | 4 fixes, 16 instants, 3 points kept | the prune keeps the latest (`PrunedOldest`), thinning keeps the distance and thinning and limit leave out nothing they need not (`AnswerComplete`) |
| `reports` | 2 connections, 4 reports, 2 of them repeated once, 1 failing call, 1 crash or stop | an acknowledged report is stored, also by a handler that a stop overtakes within its deadline, and none is stored or pushed more often than it arrived (`AckedIsKept`), a subscription is marked before a report correlated with it is stored, and no more reports correlate with it than there are connections (`CorrelationConsumed`) |
| `positioning` | the interesting values of each element of a `slir` and of both nodes' answers while the others are plain, combined where several decide together; 2 tries | answers are final and timeouts are told apart (`AnswersAreFinal`), a position comes from the right answer of the right node (`PositionTraceable`), the network is asked what the client asked (`RequestCarried`), accuracies are never loosened, nor tightened by more than one code at the exact value of a code (`AccuracyKept`), the advertised shapes are the decodable ones (`ShapesAsAdvertised`), coordinates are right to half a thousandth of a second (`PositionRendered`) |
| `gmlc` | 1 request, 2 tries of each worker, 2 crashes or stops, files that vary one section each | what the parts take from the configuration unchecked is right in all that `Load` accepts (`LoadedFits`), payloads report the final state (`PayloadFinal`), the process implements `ServiceContract` (`Contract`), when the store is closed in time, MLP handlers and both workers are done with it (`StopInOrder`), a stop ends (`StopEnds`), a callback gets through hook, outbox and delivery (`CallbackSettles`) |

Runs that find a disagreement between the code and what the repository says of it:

| Run | Said | Done |
|---|---|---|
| `callback_race` | `cmd/gmlc/main.go:142`: a request with a callback "gets its completion pushed" | the row is claimable before the callback is attached, so the worker may finish a copy without it |
| `outbox_lease` | `internal/storage/storage.go:186`: claim "with lease" as for requests | `Recover` requeues requests only; a delivery in flight at a crash stays so |
| `recovery_race` | `README.md:12`: requests are "driven to completion by a background worker, so results survive a restart" | the worker starts before any peer is connected, and "diameter route unavailable" is no error it retries: a recovered request fails for good |

### Bounds

Two keys (deliveries, targets, connections) are the least in which one actor's
step can be mistaken for another's, and in which the queue's order matters. Two
tries distinguish "retry" from "exhausted"; three in the outbox reach the cap of the back-off.
One crash is enough to interrupt every step once, and the second restart of
the outbox meets what the first recovered. One peer with two successive
connections reaches the stale-connection cases; peers share only the routing
table, and two of them exceed three million states. Four seconds of four
fractions have every relation of the text order to a boundary. Two of the four location reports
are repeated, one that is pushed and one that gets no answer; the others differ in
kind, and repeating them too takes about four times the states. Faults are
bounded because a store that always fails lets nothing happen. One request is
enough in `gmlc`, because what it adds to the queue and the outbox (stages, hook, deadline) does not
depend on a second one, and the theorem `Composition` carries over what the
parts guarantee for many; the second restart is needed for a start that follows a
start with another configuration. `positioning` needs no second request: nothing is shared.

Deadlock is checked for the queue and for the process. The other models may really stop: everything
delivered, the request answered, the process shut down, the handler done, the bounds used up.

### Fairness

- Queue: weak fairness of the worker's steps and of Claim (the goroutine, and the
  one-second ticker that makes a lost wake-up harmless), of Boot (a supervisor restarts
  the process), of Exit, of the clock and of the cancel signal. Network calls
  end because each carries a timeout. Clients, the sweep, shutdowns and crashes
  have none.
- Outbox: the same, the call bounded by `Config.RequestTimeout`.
- Peers: the goroutines run, and dials and calls carry timeouts. The peers owe nothing.
- Process: `main` and both workers run, calls end by their timeouts, the deadline
  of a stop passes, time passes. Neither the start after a stop, nor the peers,
  the handlers, the clients or signals have fairness.
- MLP: the handler runs and time passes. The requests owe nothing.

## Proofs

### The queue

`RequestQueueProofs` proves, for any set of keys, any retry limit and any number
of restarts and failing writes, the theorems below. The assumptions are `KeysAssumption` and
`BoundsAssumption`; the latter also says that the delays `2^n` are naturals, a
fact of arithmetic the provers do not have.

| Theorem | Statement |
|---|---|
| `Safety` | `Spec => []Inv` |
| `Typing` | `Spec => []TypeOK` |
| `NoStranding` | `Spec => []NoStrandedRow` |
| `BoundedRetries` | `Spec => []RetryBudget` |
| `AtMostOneDelivery` | `Spec => []PushedOnce` |
| `OwnedResults` | `Spec => []ResultIffCompleted` |
| `HookTruthful` | `Spec => []HookReflectsState` |
| `Refinement` | `Spec => Lifecycle`, the specification of `RequestLifecycle` |

None of the properties is inductive alone. Each depends on what the worker's copy says
about the row while other actors change it. `WorkerInv` ties the two: the
row the worker holds is never resubmitted under it, its attempt count is the one
compared with the limit, nothing was pushed for it before Notify, and a copy
with a subscription is never ahead of the row. `BudgetInv` keeps the tries: a
waiting row has one left, and a crash grants one. `Inv` is the conjunction of
these and the properties. TLC checks it in run `queue` before the
proof is attempted. The proof has one lemma per action or family of actions.
`QuietInv` covers the steps that leave the rows and the worker's copy alone.
`Refinement` uses `Inv`: the guards of the store calls (`WHERE state = ...`) make
each step a transition of `CanTransition`, and `ResultIffCompleted` makes the
result part of it.

### The outbox

`DeliveryOutboxProofs` proves `Safety` (`Spec => []Inv`), `Budget` (`[]SendBudget`),
`Earning` (`[]OutcomeEarned`) and `Finality` (`SettledForGood`) for any deliveries,
budget, back-off, restarts and faults (`LimitsAssumption`). A payload that
arrived is counted before its answer is, so the bound needs `Held` (the worker's
delivery is in flight with the attempts of its copy), `Claims` (a row that is
pending after a restart has one try more, granted by that restart) and `Arrivals`
(a payload arrives at most once per claim, and not before the worker
is at the call). `Earned` keeps why a row failed.

### One request

`PositioningProofs` proves, for any set of requests and any messages of the network
(`AVPsAssumption` gives them their Go types only; `ElementsAssumption` also makes an accuracy a whole number of parts of a metre, see `Codecs`):

| Theorem | Statement |
|---|---|
| `Finality` | `Spec => []AnswersAreFinal` |
| `Traceability` | `Spec => []PositionTraceable` |
| `Rendering` | `Spec => []PositionRendered` |
| `Carrying` | `Spec => []RequestCarried` |
| `Accuracy` | `Spec => []AccuracyKept` |
| `ShapesInSync` | `Spec => []ShapesAsAdvertised` |

The inductive invariant `IInv` says, for each place of the handler and the worker,
which messages of the attempt exist and that each was accepted when
it was taken. The last three theorems are about what a message says, and by then the
`slir` has gone through the columns of the row and maybe through several attempts. So they
need a second invariant, `Messages`: the row still has the columns that
`CreateRequest` made of the `slir` (`Columns`), the PLR was built from them (`Built`), and
the answer kept was accepted. `Messages` relies on `IInv` and was checked with TLC
on the instance of `positioning` first. `Rendering` rests on the lemmas about
coordinates, `Carrying` on the round trip of the digits, `Accuracy` on the codes.

Three assumptions only say what the model's values are: `NoneAssumption` and
`AbsentAssumption` that "absent" differs from every value, and `PowersAssumption`
what the powers of 10 and 11 that occur are (`Powers`: positive, and
`10^k = 10 * 10^(k-1)`). The last is arithmetic that the provers do not
know; TLC evaluates it on the instance.

About the functions of `Codecs` it proves `MsisdnRoundTrip` (any digits survive encoding and decoding),
`PointsOnGlobe` (any octets are a latitude within 90 and a longitude within 180
degrees, so the checks after the decoding never fail), `DmshRendering` (minutes and
seconds in range, and right to half a thousandth of a second), `DmshFaithful`
(different codes are printed differently), `AccuracyEncoded` (the code for an
accuracy never stands for more metres and the next one for no fewer, for any `Parts`
and whichever codes are in `FallsShort`) and `RadiusDecoded` (the
radius of a code to half a metre). The last two take `Powers` as a hypothesis.

### The immediate answer

`MlpImmediateProofs` proves `TypeCorrect` (`[]TypeOK`), `PositionsTruthful`
(`[]PosTruthful`), `LateTargets` (`[]LateTargetsLookedAt`) and `TimeoutsInTime`
(`[]TimeoutsDue`) for any number of targets, any waits and any `resp_timer`, from
`Invariance` (`[]IInv`). What a `pos` says depends on three reads of a row that moves
in between, so `IInv` fixes what the handler knows at each place: nothing is
timed and no later target has a row before the deadline is set (`SubmitInv`), a result is
read only of a completed request (`PollInv`), a row ends once and only then can be
purged (`RowInv`), and a row found unfinished after an earlier target timed out did not end
before the deadline (`CheckInv`). `WaitBounded` is the lemma about `waitDeadline`: whatever
the multiplication overflows to, the wait is in `1..SyncMax`.

`WaitedAsAsked` (`[]WaitAsAsked`) is about the time the client asked for, which the
handler no longer knows when it reports a timeout. `WaitInv` keeps it: once the deadline is
set it is the wait `waitDeadline` made of the `resp_timer`, and by `WaitIsAsked` that is the time asked
for if the product fits. `TimeoutsInTime` gives the rest.

### The location history

`LocationHistoryProofs` proves `TextOrder`, `Pruning` (`[]PrunedOldest`) and `Answers`
(`[]AnswerComplete`) for any digits and base of the
fraction, any clock that does not go back, any number of fixes and any limit. SQLite sorts the
texts, which drop trailing zeros, so most of the proof is about their order. A time is
determined by its second and its digits (`DigitsDetermine`), trimming loses nothing
(`TrimInjective`), and no text is the start of another, since each ends in the only Z
(`TextsPart`). So the order is strict and total (`EarlierTotal`), a finite table has a first row
(`FirstOf`), and a table one over the limit loses just that one (`FirstPruned`). Within a second
it need not be the oldest; between seconds the order is right (`EarlierSeconds`).
`TextOrder` collects what the sort and the window rest on.
The inductive invariant `Recorded` adds that nothing was recorded after `now`: a fix
deleted earlier must not be of a later second than the one just recorded. It was
checked with TLC on the instance of `history` first. `PowersAssumption` says what the
powers of the base are.

`Answers` is about what a sort and a fold compute. `Ordered` is some list of the rows
whose neighbours are in order; that there is one (`ListExists`, from `ListWithFirst` and
`FirstOf`) is by the least cardinality of a set without one. The thinning is a fold over
that list; `Folds` says what each of its rounds adds (`KeepNext`), `ThinRounds` that the
fold has such rounds and `KeepNextThins` that they keep the intervals and leave out only
what is too near. `ThinThins` states the result for the whole list, and `SelectAnswers`
adds the window and the limit. Induction over the rounds is by the least round that
fails (`LeastOf`, `GreatestOf`), since the induction rules of the library are out of the
provers' reach. `Records` supplies that the table is finite.

### The location reports

`LocationReportsProofs` proves `AckedReportsKept` (`[]AckedIsKept`) and `CorrelationOnce`
(`[]CorrelationConsumed`) for any finite set of connections, any reports, and any number of
repetitions, failing calls, crashes and stops. Both bound a counter by other handlers'
progress. `OncePerArrival` adds to the rows made of a report the handlers that
may still make one, and the sum stays within the arrivals; `OncePerHolder` does the same for
the rows that name a subscription and the handlers that found it pending.
`Progress` says what a handler has done when it is at a place. `StopInv` says that a store closed
in time has no open connection beside it: a handler that missed the store cannot answer. The proofs are
about the cardinality of these sets of handlers when one moves.

### The Diameter peers

`DiameterPeersProofs` proves `TypeCorrect` (`[]TypeOK`), `RoutesCurrent` (`[]RouteCurrent`),
`ResultsOnce` (`[]OneResult`), `NoWakeupLost` (`[]NoLostWakeup`) and `StopsClean`
(`[]StoppedClean`) for any number of peers, callers, connections and calls, any
capabilities and any requests. TLC has one peer, so this is where
several peers and callers on one connection are covered. `IInv`:

- `Links`: every connection but the last one is closed, and so is the last one
  outside the places of the loop where it may be alive. A closed one has its reason.
- `Managers`, `Entries`: a ready manager uses its last connection; a ready entry is of the last
  connection, with what the peer announced on it.
- `Calls`, `OwnIds`, `Owned`: a call that is enqueued has an id of its own on its
  connection, its id is pending or held by `deliver` exactly while its channel is empty, never
  both, and every pending id is that of some call.

The frame lemmas (`ManagerFrame`, `LinkFrame`) say which part a step touches, and each
family of steps has a lemma for the conjuncts it can disturb.

### The process

`GmlcProofs`: `Configured` (`[]LoadedFits`, for any configuration files, from the
types of the structs alone) and `Composition`, `Spec => Q!Spec /\ O!Spec`: every step of the process is a
step of the queue or a stutter, and a step of the outbox or a stutter. So every
safety theorem about the two holds in the process.

`PushAgrees` (`Spec => []PayloadFinal`) uses this. A request and its delivery are in
two tables written by two actors, so the property needs both inductive
invariants: the queue's says that the worker's copy is right when the hook runs and
that nothing was pushed before, the outbox's that a delivery, once there, stays.
`OtherSteps` says that only the hook pushes or creates, `OutboxKept` and `PresenceKept`
(in the modules of the parts) that everything else keeps the count and the
presence, and `PushedStays` that a reported state is final. `PartsAssumption` gives the constants of
the process what the proofs of the parts assume of theirs. `SameQueue` and `SameOutbox`
only identify the instances the process is made of with those the proofs are about, which
is why they expand every definition.

`StopsInOrder` (`Spec => StopInOrder`) is about the last step of a stop, and needs what every
Close call has left behind. `Waited`: once the worker is being closed the queue is
"stopping"; as long as the deadline is not over, no handler is left, and later the worker is
idle, for nothing can be claimed any more; a key without a handler has no
call under way. `Known`: a delivery in flight was so at the start, or the
delivery worker is at it, which is `ClaimsCarried` of `DeliveryOutboxProofs` (no step of a
living process leaves a claim behind) carried over by the composition.
Both were checked with TLC on the instance of `gmlc` first.

`EndToEnd` (`Spec => Contract`) is the refinement of `ServiceContract`. Its invariant is
that of `PushAgrees` (both parts' invariants and `Agreed`) and the bound on the stops.
`DealStep` takes one request and a step other than the hook's. If the outcome moves, the
row was not final, so by `PushedOnce` nothing was pushed, and the step is Accept or
Finish. If it does not, the delivery may move: a payload that arrives is a Send, within
the bound by the invariant after the step, and a mark is a Settle. `StepOfRow` of
`DeliveryOutboxProofs` says how a delivery and its arrivals may change, `RowKept` of
`RequestQueueProofs` that only the sweep forgets a row. `HookStep` is the Report, of the
state the row has for good. `HonestProcess` (`Spec => []C!Honest`) draws the
invariant out of the abstract specification (`ContractMeans`), so that the contract can be read as four
facts about every state of the process. `PromisesKept` restates the invariants of the parts for the
process.

### Model-checked only

Liveness: `RequestsFinishUnlessFault`, `DeliveriesSettle`, `ManagersStop`,
`CallsReturn`, `Answered`, `StopEnds`, `CallbackSettles`. The prover does not treat
fairness. Every safety property of a passing run has a theorem.

## Known disagreements without a run

- A store write that fails in `handleError` strands the row until the next restart:
  `NoStrandedRow` and `RequestsFinishUnlessFault` say so by their condition.
- `CompleteRequest` leaves the `failure_code` of an earlier try in the row
  (`sqlite.go:436`), while the hook reports an empty one.
- `Manager.Close` may be followed by a late `SetConnecting`
  (`manager.go:86`), so a closed manager may show another state.
- A batch that fails in the middle (`service.go:232`) leaves the requests made
  so far running, while `handler.go:220` says nothing was attempted.
- A write on a closed connection returns a raw error, which `handleError` takes
  for permanent although a retry would reach the next connection.

- A shutdown between a delivery's claim and the lookup of its subscription fails it for good,
  unsent (`worker.go:119`), while `storage.go:195` reserves `FailDelivery` for an exhausted budget:
  `OutcomeEarned` holds only without restarts.
- A shutdown between the arrival of a payload and its answer requeues it, and it is sent
  again (`worker.go:141`), while `storage.go:186` says a restart "can't double-send":
  hence the restarts in `SendBudget`.
- Times are compared as RFC3339Nano text (`sqlite.go:772`), in which a whole second sorts
  after its own fractions. So `QueryHistory` misjudges fixes in the second of a boundary,
  while `storage.go:168` says "within [start, stop]". `AnswerComplete` therefore
  speaks of the seconds strictly inside the window.
- A recovered request that ends between `worker.Start` (`main.go:139`) and
  `SetCompletionHook` (147) loses its callback: hence `proc = "up"` in `CallbackSettles`.
- A position with an uncertainty ellipse is answered with radius 0
  (`AccuracyKept` says so), and a polygon completes the request but is answered with a `poserr`.
- A `resp_timer` whose nanoseconds do not fit a `time.Duration` wraps (`handler.go:442`) and may be
  waited for less than the cap, while the comment of `waitDeadline` says it is "capped
  at the configured maximum": hence the condition of `WaitAsAsked`.
- A stop whose deadline is over before all connections are closed closes the store under the handlers of
  location reports, which then acknowledge what they cannot store: hence `late` in `AckedIsKept`.
- `EncodeUncertaintyValue` chooses the code below for an accuracy that stands for a code from 2 on exactly. Its
  comment allows "only ever an equal or tighter one".
- A RIA without realm is accepted and saved, but `BuildPLR` refuses it.
- `Validate` does not require `lrr.enabled` for `mlp_reporting`, as the example
  configuration says; an unknown `database.synchronous` and blank Diameter identities
  pass `Load` and end the start later (`StartFails`).

## Not modelled

- XML and JSON documents beyond what the properties speak of, signatures and the
  encryption of secrets: stateless.
- AVPs that are copied without a decision (age, velocity, civic address), the
  Diameter dictionaries, the axes of an ellipse and the vertices of a polygon: no code uses them further.
- The hash of a bearer token and the time it takes to compare; a
  credential is right or wrong.
- Migrations (their SQL is run once, in a transaction each) and audit rows (never read).
- The YAML decoder, logging, socket options and the Diameter library.
- Two-actor interleavings in `Positioning`, purge and failing writes in `Gmlc`, several
  peers in `Gmlc`: each is in another module, and their product is out of TLC's reach.

## Plan

The selection of a peer (`Select`) with several peers in a run, and the back-off of
deliveries with its 64-bit wrap.
