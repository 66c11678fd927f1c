-------------------------- MODULE MlpImmediateProofs --------------------------
(***************************************************************************)
(* Proofs about the answer to an immediate request (MlpImmediate), for any *)
(* number of targets, any waits and any resp_timer.                        *)
(***************************************************************************)
EXTENDS MlpImmediate, TLAPS

(* resolveImmediate before and after it has set the deadline *)
Submitting == handler.pc \in {"parse", "authorize", "submit"}

Polling == handler.pc \in {"poll", "read", "check", "wait"}

(* Until the deadline is set no time is counted, no target has a pos and   *)
(* the targets whose turn has not come have no row.                        *)
SubmitInv ==
    /\ Submitting =>
        /\ now = 0
        /\ handler.deadline = 0
        /\ \A j \in Targets : pos[j] = "none"
        /\ \A j \in Targets : j >= handler.i => row[j] = NoRow
    /\ handler.pc \in {"parse", "authorize"} => handler.i = 1

(* The loop over the targets: the one whose turn it is and those after it  *)
(* have no pos yet, and a result is read of a completed request only.      *)
PollInv ==
    /\ Polling =>
        /\ handler.i \in Targets
        /\ \A j \in Targets : j >= handler.i => pos[j] = "none"
    /\ handler.pc = "read" => row[handler.i].state = "completed"

(* What the store keeps of a request: a position comes with completion,    *)
(* only what has ended is purged or has a time of its end.                 *)
RowInv ==
    \A j \in Targets :
        /\ row[j].position => row[j].state = "completed"
        /\ \/ Terminal(row[j].state)
           \/ row[j].at = MaxTime + 1 /\ row[j].purged = "no" /\ ~row[j].position

(* The poll that precedes a check of the deadline found nothing terminal:  *)
(* after a target that timed out, this one had not ended at the deadline.  *)
CheckInv ==
    /\ handler.pc = "check"
    /\ handler.i > 1
    /\ pos[handler.i - 1] = "timeout"
    /\ ~gone /\ errors = 0 /\ row[handler.i].purged = "no"
    => row[handler.i].at >= handler.deadline

IInv ==
    /\ TypeOK
    /\ SubmitInv
    /\ PollInv
    /\ RowInv
    /\ CheckInv
    /\ PosTruthful
    /\ LateTargetsLookedAt
    /\ TimeoutsDue

-------------------------------------------------------------------------------
(* Every wait of waitDeadline is positive and within MaxSyncWaitTimeout,   *)
(* whatever the client's resp_timer makes of a time.Duration.              *)
LEMMA WaitBounded ==
    ASSUME NEW r \in Nat
    PROVE  Wait(r) \in 1..SyncMax
<1>1. Duration(r) \in Int
  <2>1. r * Second \in Int /\ 2 * Range \in Int /\ 2 * Range > 0
    BY WaitAssumption
  <2>2. (r * Second) % (2 * Range) \in Int
    BY <2>1
  <2> QED
    BY <2>2, WaitAssumption DEF Duration
<1> QED
  BY <1>1, WaitAssumption DEF Wait

(* The locals of the handler when pc is in S *)
HandlerType(S) ==
    [pc : S, i : 1..(NTargets + 1), respTimer : RespTimers, deadline : 0..SyncMax,
     wake : 0..SyncMax, answer : {"none", "refused", "denied", "failed", "positions"}]

AnyPc == {"parse", "authorize", "submit", "poll", "read", "check", "wait", "done"}

(* What WaitAssumption says of each constant *)
LEMMA Constants ==
    /\ NTargets \in Nat /\ NTargets > 0
    /\ SyncMax \in Nat /\ SyncMax > 0
    /\ MaxTime \in Nat /\ MaxErrors \in Nat
    /\ SyncMax <= MaxTime
  BY WaitAssumption

(* The initial states satisfy the inductive invariant. *)
LEMMA InitInv == Init => IInv
<1> SUFFICES ASSUME Init PROVE IInv
  OBVIOUS
<1> USE Constants DEF Init
<1>1. TypeOK
  <2>1. row \in [Targets -> [state : States \cup {"absent"}, position : BOOLEAN,
                            purged : {"no", "result", "row"}, at : 0..(MaxTime + 1)]]
    BY DEF NoRow
  <2>2. handler.i \in 1..(NTargets + 1) /\ 0 \in 0..SyncMax
    OBVIOUS
  <2>3. handler \in HandlerType({"parse"})
    BY <2>2 DEF HandlerType
  <2>4. handler \in HandlerType(AnyPc)
    BY <2>3 DEF HandlerType, AnyPc
  <2>5. pos \in [Targets -> {"none", "pd", "poserr", "timeout"}]
    OBVIOUS
  <2>6. now \in 0..MaxTime /\ errors \in 0..MaxErrors
    OBVIOUS
  <2>7. gone \in BOOLEAN
    BY Zenon
  <2> QED
    BY Zenon, <2>1, <2>4, <2>5, <2>6, <2>7 DEF TypeOK, HandlerType
<1>2. SubmitInv
  BY DEF SubmitInv, Submitting
<1>3. PollInv /\ CheckInv
  BY DEF PollInv, Polling, CheckInv
<1>4. RowInv
  BY DEF RowInv, NoRow
<1>5. PosTruthful /\ TimeoutsDue
  BY DEF PosTruthful, TimeoutsDue
<1>6. LateTargetsLookedAt
  BY DEF LateTargetsLookedAt
<1> QED
  BY <1>1, <1>2, <1>3, <1>4, <1>5, <1>6 DEF IInv

(* The locals after the last target *)
LEMMA LastTarget ==
    ASSUME NEW S, NEW h \in HandlerType(S)
    PROVE  LET g == [h EXCEPT !.pc = "done", !.wake = 0, !.answer = "positions"]
           IN g \in HandlerType({"done"}) /\ g.deadline = h.deadline /\ g.pc = "done"
<1>1. 0 \in 0..SyncMax
  BY Constants
<1>2. [h EXCEPT !.pc = "done", !.wake = 0, !.answer = "positions"] \in HandlerType({"done"})
  BY Zenon, <1>1 DEF HandlerType
<1> QED
  BY <1>2 DEF HandlerType

(* A target gets its pos and the next one its turn: what Report may be     *)
(* called with.                                                            *)
LEMMA ReportInv ==
    ASSUME IInv, Polling, NEW p \in {"pd", "poserr", "timeout"}, Report(p),
           UNCHANGED <<row, now, gone, errors>>,
           p = "pd" => row[handler.i].state = "completed" /\ row[handler.i].position,
           p = "poserr" => Terminal(row[handler.i].state) /\ ~row[handler.i].position,
           p = "timeout" => gone \/ now >= handler.deadline,
           p = "timeout" => gone \/ (CheckInv /\ handler.pc = "check")
    PROVE  IInv'
<1> USE Constants
<1> DEFINE i == handler.i
<1>1. /\ i \in Targets /\ i \in 1..NTargets
      /\ \A j \in Targets : j >= i => pos[j] = "none"
  BY DEF IInv, PollInv, Targets
<1>2. /\ pos' = [pos EXCEPT ![i] = p]
      /\ pos \in [Targets -> {"none", "pd", "poserr", "timeout"}]
  BY DEF Report, IInv, TypeOK
<1>3. /\ handler' \in HandlerType({"poll", "done"})
      /\ handler'.deadline = handler.deadline
      /\ handler'.pc = "poll" => i < NTargets /\ handler'.i = i + 1
      /\ handler'.pc \in {"poll", "done"}
  <2>1. handler \in HandlerType({"poll", "read", "check", "wait"})
    BY DEF IInv, TypeOK, Polling, HandlerType
  <2>2. CASE i < NTargets
    <3>1. PICK k \in 1..(NTargets + 1) : k = i + 1
      BY <1>1
    <3>2. handler' = [handler EXCEPT !.pc = "poll", !.wake = 0, !.i = @ + 1]
      BY <2>2 DEF Report
    <3>3. handler' = [handler EXCEPT !.pc = "poll", !.wake = 0, !.i = k]
      BY Zenon, <3>1, <3>2
    <3>4. handler' \in HandlerType({"poll"}) /\ handler'.i = k
          /\ handler'.deadline = handler.deadline /\ handler'.pc = "poll"
      <4>1. 0 \in 0..SyncMax
        BY Constants
      <4>. QED
        BY <2>1, <3>3, <4>1, Zenon DEF HandlerType
    <3>5. handler' \in HandlerType({"poll", "done"})
      BY <3>4 DEF HandlerType
    <3> QED
      BY <2>2, <3>1, <3>4, <3>5
  <2>3. CASE ~(i < NTargets)
    <3>1. handler' = [handler EXCEPT !.pc = "done", !.wake = 0, !.answer = "positions"]
      BY <2>3 DEF Report
    <3>2. handler' \in HandlerType({"done"}) /\ handler'.pc = "done"
          /\ handler'.deadline = handler.deadline
      BY <2>1, <3>1, LastTarget, Zenon
    <3> QED
      BY <3>2 DEF HandlerType
  <2> QED
    BY <2>2, <2>3
<1>4. TypeOK'
  <2>1. handler' \in HandlerType(AnyPc)
    BY <1>3 DEF HandlerType, AnyPc
  <2> QED
    BY <1>2, <2>1, Zenon DEF IInv, TypeOK, HandlerType, AnyPc
<1>5. SubmitInv' /\ CheckInv'
  BY <1>3 DEF SubmitInv, Submitting, CheckInv
<1>6. PollInv'
  BY <1>1, <1>2, <1>3 DEF PollInv, Polling, Targets
<1>7. RowInv'
  BY DEF IInv, RowInv
<1>8. PosTruthful'
  BY <1>1, <1>2 DEF IInv, PosTruthful
<1>9. TimeoutsDue'
  BY <1>1, <1>2, <1>3 DEF IInv, TimeoutsDue
<1>10. LateTargetsLookedAt'
  <2> SUFFICES ASSUME NEW j \in Targets \ {1}, pos'[j - 1] = "timeout", pos'[j] = "timeout",
                      ~gone, errors = 0, row[j].purged = "no"
               PROVE  row[j].at >= handler.deadline
    BY <1>3 DEF LateTargetsLookedAt
  <2>1. j - 1 \in Targets
    BY DEF Targets
  <2>2. CASE j = i
    BY <1>1, <1>2, <2>1, <2>2 DEF CheckInv, Targets
  <2>3. CASE j - 1 = i
    BY <1>1, <1>2, <2>1, <2>3 DEF Targets
  <2>4. CASE j # i /\ j - 1 # i
    BY <1>1, <1>2, <2>1, <2>4 DEF IInv, LateTargetsLookedAt
  <2> QED
    BY <2>2, <2>3, <2>4
<1> QED
  BY <1>4, <1>5, <1>6, <1>7, <1>8, <1>9, <1>10 DEF IInv

(* The turn stays with its target: what Goto may be called with. *)
LEMMA GotoInv ==
    ASSUME IInv, Polling, NEW pc \in {"poll", "read", "check"}, Goto(pc),
           UNCHANGED <<row, now, gone>>, errors' \in 0..MaxErrors, errors' >= errors,
           pc = "read" => row[handler.i].state = "completed",
           pc = "check" => \/ gone \/ errors' > 0 \/ row[handler.i].purged # "no"
                           \/ row[handler.i].at >= handler.deadline
    PROVE  IInv'
<1> USE Constants
<1>1. /\ handler' = [handler EXCEPT !.pc = pc, !.wake = 0]
      /\ UNCHANGED pos
      /\ handler.i \in Targets
  BY DEF Goto, IInv, PollInv
<1>2. /\ handler' \in HandlerType({"poll", "read", "check"})
      /\ handler'.deadline = handler.deadline
      /\ handler'.pc = pc
      /\ handler'.i = handler.i
  <2>1. handler \in HandlerType({"poll", "read", "check", "wait"})
    BY DEF IInv, TypeOK, Polling, HandlerType
  <2>2. 0 \in 0..SyncMax
    OBVIOUS
  <2> QED
    BY <1>1, <2>1, <2>2, Zenon DEF HandlerType
<1>3. TypeOK'
  <2>1. handler' \in HandlerType(AnyPc)
    BY <1>2 DEF HandlerType, AnyPc
  <2> QED
    BY <1>1, <2>1 DEF IInv, TypeOK, HandlerType, AnyPc
<1>4. SubmitInv'
  BY <1>2 DEF SubmitInv, Submitting
<1>5. PollInv'
  BY <1>1, <1>2 DEF IInv, PollInv, Polling
<1>6. RowInv' /\ PosTruthful'
  BY <1>1 DEF IInv, RowInv, PosTruthful
<1>7. CheckInv'
  BY <1>1, <1>2 DEF CheckInv
<1>8. LateTargetsLookedAt'
  BY <1>1, <1>2 DEF IInv, LateTargetsLookedAt, TypeOK
<1>9. TimeoutsDue'
  BY <1>1, <1>2 DEF IInv, TimeoutsDue
<1> QED
  BY <1>3, <1>4, <1>5, <1>6, <1>7, <1>8, <1>9 DEF IInv

-------------------------------------------------------------------------------
(* The steps of resolveImmediate *)

LEMMA ParseInv ==
    ASSUME IInv, Parse \/ Authorize \/ SubmitFails
    PROVE  IInv'
<1> USE Constants
<1>1. /\ UNCHANGED <<row, pos, now, gone, errors>>
      /\ \/ /\ handler' \in {[handler EXCEPT !.pc = "authorize"], [handler EXCEPT !.pc = "submit"]}
            /\ handler.pc \in {"parse", "authorize"}
         \/ \E a \in {"refused", "denied", "failed"} :
               handler' = [handler EXCEPT !.pc = "done", !.answer = a]
  BY DEF Parse, Authorize, SubmitFails
<1>2. /\ handler' \in HandlerType({"authorize", "submit", "done"})
      /\ handler'.i = handler.i /\ handler'.deadline = handler.deadline
      /\ handler'.pc \in {"authorize", "submit", "done"}
      /\ handler'.pc # "done" => handler.pc \in {"parse", "authorize"}
  <2>1. handler \in HandlerType(AnyPc)
    BY DEF IInv, TypeOK, HandlerType, AnyPc
  <2> QED
    BY <1>1, <2>1, Zenon DEF HandlerType, AnyPc
<1>3. TypeOK'
  <2>1. handler' \in HandlerType(AnyPc)
    BY <1>2 DEF HandlerType, AnyPc
  <2> QED
    BY <1>1, <2>1 DEF IInv, TypeOK, HandlerType, AnyPc
<1>4. SubmitInv'
  BY <1>1, <1>2 DEF IInv, SubmitInv, Submitting
<1>5. PollInv' /\ CheckInv'
  BY <1>2 DEF PollInv, Polling, CheckInv
<1>6. RowInv' /\ PosTruthful'
  BY <1>1 DEF IInv, RowInv, PosTruthful
<1>7. LateTargetsLookedAt' /\ TimeoutsDue'
  BY <1>1, <1>2 DEF IInv, LateTargetsLookedAt, TimeoutsDue
<1> QED
  BY <1>3, <1>4, <1>5, <1>6, <1>7 DEF IInv

(* A target's row is created where there is none, so that no request is    *)
(* taken out of the state it ended in.                                     *)
LEMMA SubmitTargetInv ==
    ASSUME IInv, SubmitTarget
    PROVE  IInv'
<1> USE Constants
<1> DEFINE i == handler.i
<1>1. /\ handler.pc = "submit" /\ i \in Targets
      /\ row' = [row EXCEPT ![i].state = "queued"]
      /\ handler' = [handler EXCEPT !.i = @ + 1]
      /\ UNCHANGED <<pos, now, gone, errors>>
  BY DEF SubmitTarget, IInv, TypeOK, Targets
<1>2. /\ now = 0 /\ handler.deadline = 0
      /\ \A j \in Targets : pos[j] = "none"
      /\ \A j \in Targets : j >= i => row[j] = NoRow
  BY <1>1 DEF IInv, SubmitInv, Submitting
<1>3. /\ handler' \in HandlerType({"submit"}) /\ handler'.pc = "submit"
      /\ handler'.i = i + 1 /\ handler'.deadline = 0
  <2>1. handler \in HandlerType({"submit"}) /\ i + 1 \in 1..(NTargets + 1)
    BY <1>1 DEF IInv, TypeOK, HandlerType, Targets
  <2> QED
    BY <1>1, <1>2, <2>1 DEF HandlerType
<1>4. /\ \A j \in Targets : j # i => row'[j] = row[j]
      /\ row'[i] = [NoRow EXCEPT !.state = "queued"]
      /\ row' \in [Targets -> [state : States \cup {"absent"}, position : BOOLEAN,
                              purged : {"no", "result", "row"}, at : 0..(MaxTime + 1)]]
  <2>1. row \in [Targets -> [state : States \cup {"absent"}, position : BOOLEAN,
                            purged : {"no", "result", "row"}, at : 0..(MaxTime + 1)]]
    BY DEF IInv, TypeOK
  <2>2. row[i] = NoRow /\ "queued" \in States
    BY <1>1, <1>2 DEF States, Targets
  <2> QED
    BY <1>1, <2>1, <2>2
<1>5. TypeOK'
  <2>1. handler' \in HandlerType(AnyPc)
    BY <1>3 DEF HandlerType, AnyPc
  <2> QED
    BY <1>1, <1>4, <2>1 DEF IInv, TypeOK, HandlerType, AnyPc
<1>6. SubmitInv'
  BY <1>1, <1>2, <1>3, <1>4 DEF SubmitInv, Submitting, Targets
<1>7. PollInv' /\ CheckInv'
  BY <1>3 DEF PollInv, Polling, CheckInv
<1>8. RowInv'
  BY <1>1, <1>4 DEF IInv, RowInv, NoRow
<1>9. PosTruthful' /\ TimeoutsDue'
  BY <1>1, <1>2, <1>3 DEF PosTruthful, TimeoutsDue
<1>10. LateTargetsLookedAt'
  BY <1>1, <1>2 DEF LateTargetsLookedAt
<1> QED
  BY <1>5, <1>6, <1>7, <1>8, <1>9, <1>10 DEF IInv

LEMMA SetDeadlineInv ==
    ASSUME IInv, SetDeadline
    PROVE  IInv'
<1> USE Constants
<1> DEFINE d == now + Wait(handler.respTimer)
<1>1. /\ handler.pc = "submit"
      /\ handler' = [handler EXCEPT !.pc = "poll", !.i = 1, !.deadline = d]
      /\ UNCHANGED <<row, pos, now, gone, errors>>
  BY DEF SetDeadline
<1>2. /\ now = 0 /\ handler.deadline = 0
      /\ \A j \in Targets : pos[j] = "none"
  BY <1>1 DEF IInv, SubmitInv, Submitting
<1>3. d \in 0..SyncMax
  <2>1. handler.respTimer \in RespTimers
    BY DEF IInv, TypeOK
  <2>2. RespTimers \subseteq Nat
    BY WaitAssumption
  <2>3. handler.respTimer \in Nat
    BY Zenon, <2>1, <2>2
  <2> QED
    BY <1>2, <2>3, WaitBounded
<1>4. handler' \in HandlerType({"poll"}) /\ handler'.pc = "poll" /\ handler'.i = 1
      /\ handler'.deadline \in 0..SyncMax
  <2>1. handler \in HandlerType({"submit"}) /\ 1 \in 1..(NTargets + 1)
    BY <1>1 DEF IInv, TypeOK, HandlerType
  <2> HIDE DEF d
  <2>2. handler' \in [pc : {"poll"}, i : {1}, respTimer : RespTimers, deadline : 0..SyncMax,
                     wake : 0..SyncMax,
                     answer : {"none", "refused", "denied", "failed", "positions"}]
    BY Zenon, <1>1, <1>3, <2>1 DEF HandlerType
  <2> QED
    BY <2>1, <2>2 DEF HandlerType
<1>5. TypeOK'
  <2>1. handler' \in HandlerType(AnyPc)
    BY <1>4 DEF HandlerType, AnyPc
  <2> QED
    BY <1>1, <2>1 DEF IInv, TypeOK, HandlerType, AnyPc
<1>6. SubmitInv' /\ CheckInv'
  BY <1>4 DEF SubmitInv, Submitting, CheckInv
<1>7. PollInv'
  BY <1>1, <1>2, <1>4 DEF PollInv, Polling, Targets
<1>8. RowInv' /\ PosTruthful'
  BY <1>1 DEF IInv, RowInv, PosTruthful
<1>9. LateTargetsLookedAt' /\ TimeoutsDue'
  BY <1>1, <1>2, <1>4 DEF LateTargetsLookedAt, TimeoutsDue
<1> QED
  BY <1>5, <1>6, <1>7, <1>8, <1>9 DEF IInv

(* A row that is read and is not terminal has not ended before any         *)
(* deadline: the clock of the model ends after the longest wait.           *)
LEMMA NotEnded ==
    ASSUME IInv, NEW j \in Targets, ~Terminal(row[j].state)
    PROVE  row[j].at >= handler.deadline
  BY Constants DEF IInv, RowInv, TypeOK

LEMMA PollRequestInv ==
    ASSUME IInv, PollRequest
    PROVE  IInv'
<1> DEFINE r == row[handler.i]
<1>1. Polling /\ handler.i \in Targets
  BY DEF PollRequest, Polling, IInv, PollInv
<1>2. UNCHANGED <<row, now, gone, errors>>
  BY DEF PollRequest
<1>3. errors \in 0..MaxErrors /\ errors' >= errors
  BY <1>2, Constants DEF IInv, TypeOK
<1>4. CASE r.purged # "row" /\ r.state = "completed"
  <2>1. Goto("read")
    BY <1>4 DEF PollRequest
  <2> QED
    BY <1>1, <1>2, <1>3, <1>4, <2>1, GotoInv
<1>5. CASE r.purged # "row" /\ r.state # "completed" /\ Terminal(r.state)
  <2>1. Report("poserr")
    BY <1>5 DEF PollRequest
  <2>2. ~r.position
    BY <1>1, <1>5 DEF IInv, RowInv
  <2> QED
    BY <1>1, <1>2, <1>5, <2>1, <2>2, ReportInv
<1>6. CASE r.purged = "row" \/ ~Terminal(r.state)
  <2>1. Goto("check")
    BY <1>6 DEF PollRequest, Terminal, TerminalStates
  <2>2. r.purged # "no" \/ r.at >= handler.deadline
    BY <1>1, <1>6, NotEnded
  <2> QED
    BY <1>1, <1>2, <1>3, <2>1, <2>2, GotoInv
<1> QED
  BY <1>4, <1>5, <1>6

LEMMA PollResultInv ==
    ASSUME IInv, PollResult
    PROVE  IInv'
<1> DEFINE r == row[handler.i]
<1>1. Polling /\ handler.i \in Targets /\ r.state = "completed"
  BY DEF PollResult, Polling, IInv, PollInv
<1>2. UNCHANGED <<row, now, gone, errors>>
  BY DEF PollResult
<1>3. errors \in 0..MaxErrors /\ errors' >= errors
  BY <1>2, Constants DEF IInv, TypeOK
<1>4. CASE r.purged = "no" /\ r.position
  <2>1. Report("pd")
    BY <1>4 DEF PollResult
  <2> QED
    BY <1>1, <1>2, <1>4, <2>1, ReportInv
<1>5. CASE r.purged = "no" /\ ~r.position
  <2>1. Report("poserr")
    BY <1>5 DEF PollResult
  <2>2. Terminal(r.state)
    BY <1>1 DEF Terminal, TerminalStates
  <2> QED
    BY <1>1, <1>2, <1>5, <2>1, <2>2, ReportInv
<1>6. CASE r.purged # "no"
  <2>1. Goto("check")
    BY <1>6 DEF PollResult
  <2> QED
    BY <1>1, <1>2, <1>3, <1>6, <2>1, GotoInv
<1> QED
  BY <1>4, <1>5, <1>6

LEMMA ReadFailsInv ==
    ASSUME IInv, ReadFails
    PROVE  IInv'
<1>1. Polling /\ Goto("check") /\ UNCHANGED <<row, now, gone>>
  BY DEF ReadFails, Polling
<1>2. errors' \in 0..MaxErrors /\ errors' >= errors /\ (gone \/ errors' > 0)
  BY Constants DEF ReadFails, IInv, TypeOK
<1> QED
  BY <1>1, <1>2, GotoInv

LEMMA CheckDeadlineInv ==
    ASSUME IInv, CheckDeadline
    PROVE  IInv'
<1> USE Constants
<1>1. /\ Polling /\ handler.pc = "check" /\ handler.i \in Targets /\ CheckInv
      /\ UNCHANGED <<row, now, gone, errors>>
  BY DEF CheckDeadline, Polling, IInv, PollInv
<1>2. CASE now >= handler.deadline
  <2>1. Report("timeout")
    BY <1>2 DEF CheckDeadline
  <2> QED
    BY <1>1, <1>2, <2>1, ReportInv
<1>3. CASE ~(now >= handler.deadline)
  <2>1. handler' = [handler EXCEPT !.pc = "wait", !.wake = now + 1] /\ UNCHANGED pos
    BY <1>3 DEF CheckDeadline
  <2>2. handler' \in HandlerType({"wait"}) /\ handler'.pc = "wait" /\ handler'.i = handler.i
        /\ handler'.deadline = handler.deadline
    <3>1. handler \in HandlerType({"check"})
      BY <1>1 DEF IInv, TypeOK, HandlerType
    <3>2. PICK w \in 0..SyncMax : w = now + 1
      BY <1>3, <3>1 DEF IInv, TypeOK, HandlerType
    <3>3. handler' = [handler EXCEPT !.pc = "wait", !.wake = w]
      BY Zenon, <2>1, <3>2
    <3> QED
      BY <3>1, <3>3, Zenon DEF HandlerType
  <2>3. TypeOK'
    <3>1. handler' \in HandlerType(AnyPc)
      BY <2>2 DEF HandlerType, AnyPc
    <3> QED
      BY <1>1, <2>1, <3>1 DEF IInv, TypeOK, HandlerType, AnyPc
  <2>4. SubmitInv' /\ CheckInv'
    BY <2>2 DEF SubmitInv, Submitting, CheckInv
  <2>5. PollInv'
    BY <1>1, <2>1, <2>2 DEF IInv, PollInv, Polling
  <2>6. RowInv' /\ PosTruthful'
    BY <1>1, <2>1 DEF IInv, RowInv, PosTruthful
  <2>7. LateTargetsLookedAt' /\ TimeoutsDue'
    BY <1>1, <2>1, <2>2 DEF IInv, LateTargetsLookedAt, TimeoutsDue
  <2> QED
    BY <2>3, <2>4, <2>5, <2>6, <2>7 DEF IInv
<1> QED
  BY <1>2, <1>3

LEMMA SleepInv ==
    ASSUME IInv, Sleep
    PROVE  IInv'
<1>1. Polling /\ UNCHANGED <<row, now, gone, errors>>
  BY DEF Sleep, Polling
<1>2. errors \in 0..MaxErrors /\ errors' >= errors
  BY <1>1, Constants DEF IInv, TypeOK
<1>3. CASE gone /\ Report("timeout")
  <2>1. gone \/ now >= handler.deadline
    BY Zenon, <1>3
  <2>2. gone \/ (CheckInv /\ handler.pc = "check")
    BY Zenon, <1>3
  <2> QED
    BY Zenon, <1>1, <1>3, <2>1, <2>2, ReportInv
<1>4. CASE Goto("poll")
  BY <1>1, <1>2, <1>4, GotoInv
<1> QED
  BY <1>3, <1>4 DEF Sleep

-------------------------------------------------------------------------------
(* The steps of the world *)

(* A request that ends after the deadline ends after it for every target   *)
(* whose predecessor timed out; what has ended does not move.              *)
LEMMA AdvanceInv ==
    ASSUME IInv, NEW i \in Targets, NEW state \in States, NEW position \in BOOLEAN,
           Advance(i, state, position)
    PROVE  IInv'
<1> USE Constants
<1> DEFINE q == [row[i] EXCEPT !.state = state, !.position = position,
                               !.at = IF Terminal(state) THEN now ELSE row[i].at]
<1>1. /\ row' = [row EXCEPT ![i] = q]
      /\ UNCHANGED <<handler, pos, now, gone, errors>>
      /\ CanTransition(row[i].state, state)
      /\ position => state = "completed"
  BY Zenon DEF Advance
<1>2. ~Terminal(row[i].state) /\ row[i].state # "absent"
  BY <1>1 DEF CanTransition
<1>3. row \in [Targets -> [state : States \cup {"absent"}, position : BOOLEAN,
                          purged : {"no", "result", "row"}, at : 0..(MaxTime + 1)]]
  BY DEF IInv, TypeOK
<1>4. /\ q \in [state : States \cup {"absent"}, position : BOOLEAN,
                purged : {"no", "result", "row"}, at : 0..(MaxTime + 1)]
      /\ q.state = state /\ q.position = position
      /\ Terminal(state) => q.at = now
      /\ ~Terminal(state) => q.at = row[i].at
      /\ q.purged = row[i].purged
  <2>1. PICK a \in 0..(MaxTime + 1) : a = (IF Terminal(state) THEN now ELSE row[i].at)
    <3>1. now \in 0..MaxTime
      BY DEF IInv, TypeOK
    <3>2. row[i].at \in 0..(MaxTime + 1)
      BY <1>3
    <3> QED
      BY <3>1, <3>2
  <2>2. q = [row[i] EXCEPT !.state = state, !.position = position, !.at = a]
    BY Zenon, <2>1
  <2>3. row[i] \in [state : States \cup {"absent"}, position : BOOLEAN,
                   purged : {"no", "result", "row"}, at : 0..(MaxTime + 1)]
    BY <1>3
  <2> HIDE DEF q
  <2>4. q \in [state : {state}, position : {position}, purged : {row[i].purged}, at : {a}]
    BY Zenon, <2>2, <2>3
  <2> QED
    BY <2>1, <2>3, <2>4
<1> HIDE DEF q
<1>5. /\ row'[i] = q
      /\ \A j \in Targets : j # i => row'[j] = row[j]
  BY <1>1, <1>3
<1>6. TypeOK'
  BY <1>1, <1>3, <1>4 DEF IInv, TypeOK
<1>7. SubmitInv'
  <2>1. row[i] # NoRow
    BY <1>2 DEF NoRow
  <2> QED
    BY <1>1, <1>5, <2>1 DEF IInv, SubmitInv, Submitting
<1>8. PollInv'
  BY <1>1, <1>2, <1>5 DEF IInv, PollInv, Polling, Terminal, TerminalStates
<1>9. row[i].at = MaxTime + 1 /\ row[i].purged = "no" /\ ~row[i].position
  BY <1>2 DEF IInv, RowInv
<1>10. RowInv'
  <2>1. q.position => q.state = "completed"
    BY <1>1, <1>4
  <2>2. CASE Terminal(state)
    BY <1>4, <1>5, <2>1, <2>2 DEF IInv, RowInv
  <2>3. CASE ~Terminal(state)
    <3>1. ~q.position
      BY <1>1, <1>4, <2>3 DEF Terminal, TerminalStates
    <3> QED
      BY <1>4, <1>5, <1>9, <2>1, <3>1 DEF IInv, RowInv
  <2> QED
    BY <2>2, <2>3
<1>11. PosTruthful'
  BY <1>1, <1>2, <1>5 DEF IInv, PosTruthful, Terminal, TerminalStates
<1>12. TimeoutsDue'
  BY <1>1 DEF IInv, TimeoutsDue
<1>13. ASSUME NEW j \in Targets, j - 1 \in Targets, pos[j - 1] = "timeout", ~gone, j = i
       PROVE  row'[j].at >= handler.deadline
  BY <1>4, <1>5, <1>9, <1>13 DEF IInv, TimeoutsDue, TypeOK
<1>14. CheckInv'
  BY <1>1, <1>5, <1>13 DEF IInv, CheckInv, PollInv, Polling, Targets
<1>15. LateTargetsLookedAt'
  BY <1>1, <1>5, <1>13 DEF IInv, LateTargetsLookedAt, Targets
<1> QED
  BY <1>6, <1>7, <1>8, <1>10, <1>11, <1>12, <1>14, <1>15 DEF IInv

(* The sweep takes away what a poll reads, never how a request ended. *)
LEMMA PurgeInv ==
    ASSUME IInv, NEW i \in Targets, Purge(i)
    PROVE  IInv'
<1> USE Constants
<1>1. /\ \E x \in {"result", "row"} : row' = [row EXCEPT ![i].purged = x]
      /\ Terminal(row[i].state)
      /\ UNCHANGED <<handler, pos, now, gone, errors>>
  BY DEF Purge
<1>2. row \in [Targets -> [state : States \cup {"absent"}, position : BOOLEAN,
                          purged : {"no", "result", "row"}, at : 0..(MaxTime + 1)]]
  BY DEF IInv, TypeOK
<1>3. PICK x \in {"result", "row"} : row' = [row EXCEPT ![i].purged = x]
  BY <1>1, Zenon
<1>4. row' \in [Targets -> [state : States \cup {"absent"}, position : BOOLEAN,
                           purged : {"no", "result", "row"}, at : 0..(MaxTime + 1)]]
  BY <1>2, <1>3
<1>5. /\ \A j \in Targets : /\ row'[j].state = row[j].state
                            /\ row'[j].position = row[j].position
                            /\ row'[j].at = row[j].at
      /\ row'[i].purged # "no"
      /\ \A j \in Targets : j # i => row'[j] = row[j]
  BY <1>2, <1>3
<1>6. TypeOK'
  BY <1>1, <1>4 DEF IInv, TypeOK
<1>7. SubmitInv'
  <2>1. row[i] # NoRow
    BY <1>1 DEF NoRow, Terminal, TerminalStates
  <2> QED
    BY <1>1, <1>5, <2>1 DEF IInv, SubmitInv, Submitting
<1>8. PollInv'
  BY <1>1, <1>5 DEF IInv, PollInv, Polling
<1>9. RowInv'
  BY <1>1, <1>5 DEF IInv, RowInv
<1>10. PosTruthful'
  BY <1>1, <1>5 DEF IInv, PosTruthful
<1>11. TimeoutsDue'
  BY <1>1 DEF IInv, TimeoutsDue
<1>12. CheckInv'
  BY <1>1, <1>5 DEF IInv, CheckInv, PollInv, Polling
<1>13. LateTargetsLookedAt'
  BY <1>1, <1>5 DEF IInv, LateTargetsLookedAt
<1> QED
  BY <1>6, <1>7, <1>8, <1>9, <1>10, <1>11, <1>12, <1>13 DEF IInv

LEMMA ClientLeavesInv ==
    ASSUME IInv, ClientLeaves
    PROVE  IInv'
<1>1. UNCHANGED <<row, handler, pos, now, errors>> /\ gone' = TRUE
  BY DEF ClientLeaves
<1>2. TypeOK'
  BY Zenon, <1>1 DEF IInv, TypeOK
<1>3. SubmitInv' /\ PollInv' /\ RowInv' /\ PosTruthful'
  BY <1>1 DEF IInv, SubmitInv, Submitting, PollInv, Polling, RowInv, PosTruthful
<1>4. CheckInv' /\ LateTargetsLookedAt' /\ TimeoutsDue'
  BY <1>1 DEF IInv, CheckInv, LateTargetsLookedAt, TimeoutsDue
<1> QED
  BY <1>2, <1>3, <1>4 DEF IInv

LEMMA TickInv ==
    ASSUME IInv, Tick
    PROVE  IInv'
<1> USE Constants
<1>1. /\ UNCHANGED <<row, handler, pos, gone, errors>>
      /\ now' = now + 1 /\ now < MaxTime /\ ~Submitting
  BY DEF Tick, Submitting
<1>2. now \in 0..MaxTime
  BY DEF IInv, TypeOK
<1>3. TypeOK'
  BY <1>1, <1>2 DEF IInv, TypeOK
<1>4. SubmitInv'
  BY <1>1 DEF IInv, SubmitInv, Submitting
<1>5. PollInv' /\ RowInv' /\ PosTruthful'
  BY <1>1 DEF IInv, PollInv, Polling, RowInv, PosTruthful
<1>6. CheckInv' /\ LateTargetsLookedAt'
  BY <1>1 DEF IInv, CheckInv, LateTargetsLookedAt
<1>7. TimeoutsDue'
  BY <1>1, <1>2 DEF IInv, TimeoutsDue, TypeOK
<1> QED
  BY <1>3, <1>4, <1>5, <1>6, <1>7 DEF IInv

-------------------------------------------------------------------------------
(* Every step keeps the inductive invariant. *)
LEMMA NextInv == IInv /\ [Next]_vars => IInv'
<1> SUFFICES ASSUME IInv, [Next]_vars PROVE IInv'
  OBVIOUS
<1>1. CASE Handle
  BY <1>1, ParseInv, SubmitTargetInv, SetDeadlineInv, PollRequestInv, PollResultInv,
     ReadFailsInv, CheckDeadlineInv, SleepInv DEF Handle
<1>2. CASE World
  BY <1>2, AdvanceInv, PurgeInv, ClientLeavesInv, TickInv DEF World
<1>3. CASE UNCHANGED vars
  <2>1. UNCHANGED <<row, handler, pos, now, gone, errors>>
    BY <1>3 DEF vars
  <2> QED
    BY ZenonT(30), <2>1 DEF IInv, TypeOK, SubmitInv, Submitting, PollInv, Polling, RowInv, CheckInv,
       PosTruthful, LateTargetsLookedAt, TimeoutsDue
<1> QED
  BY <1>1, <1>2, <1>3 DEF Next

(* The inductive invariant of resolveImmediate and of the store it polls.  *)
THEOREM Invariance == Spec => []IInv
  BY InitInv, NextInv, PTL DEF Spec

(* For any number of targets, waits and resp_timers the rows, the locals   *)
(* of the handler and its answer keep their types: no wait of              *)
(* awaitTerminal ends after the deadline.                                  *)
THEOREM TypeCorrect == Spec => []TypeOK
<1>1. IInv => TypeOK
  BY DEF IInv
<1> QED
  BY <1>1, Invariance, PTL

(* Whatever the sweep takes away between the two reads of a poll, the pos  *)
(* of buildPos tells how its own request ended.                            *)
THEOREM PositionsTruthful == Spec => []PosTruthful
<1>1. IInv => PosTruthful
  BY DEF IInv
<1> QED
  BY <1>1, Invariance, PTL

(* A target that awaitTerminal reaches after the deadline of the answer is *)
(* polled before it is called timed out.                                   *)
THEOREM LateTargets == Spec => []LateTargetsLookedAt
<1>1. IInv => LateTargetsLookedAt
  BY DEF IInv
<1> QED
  BY <1>1, Invariance, PTL

(* waitDeadline keeps every deadline within Config.MLP.MaxSyncWaitTimeout, *)
(* even when the resp_timer overflows, and nobody who is still there is    *)
(* told of a timeout before it.                                            *)
THEOREM TimeoutsInTime == Spec => []TimeoutsDue
<1>1. IInv => TimeoutsDue
  BY DEF IInv
<1> QED
  BY <1>1, Invariance, PTL
-------------------------------------------------------------------------------
(* The wait the client asked for *)

(* Once it is set the deadline is the wait of the client's resp_timer. *)
WaitInv ==
    \/ handler.deadline = Wait(handler.respTimer)
    \/ ~Polling /\ \A i \in Targets : pos[i] = "none"

(* A resp_timer that fits a time.Duration is waited for as it was asked. *)
LEMMA WaitIsAsked ==
    ASSUME TypeOK, handler.respTimer * Second < Range
    PROVE  Wait(handler.respTimer) = Asked
<1> DEFINE r == handler.respTimer
           d == r * Second
<1>1. r \in Nat
  BY WaitAssumption, Zenon DEF TypeOK
<1>2. Second \in Nat /\ Second > 0 /\ Range \in Nat /\ SyncDefault \in Nat /\ SyncMax \in Nat
  BY WaitAssumption
<1>3. d \in Nat /\ (d > 0 <=> r # 0)
  BY <1>1, <1>2
<1>4. d < Range
  OBVIOUS
<1>5. d % (2 * Range) = d
  <2> HIDE DEF d
  <2> QED
    BY <1>2, <1>3, <1>4
<1>6. Duration(r) = d
  BY <1>4, <1>5, <1>3, <1>2 DEF Duration
<1> HIDE DEF d
<1> QED
  BY <1>2, <1>3, <1>6 DEF Wait, Asked, d

(* Every step keeps WaitInv: only SetDeadline sets the deadline, and only  *)
(* a step of the loop that follows it gives a target its pos.              *)
LEMMA NextWait == IInv /\ WaitInv /\ [Next]_vars => WaitInv'
<1> SUFFICES ASSUME IInv, WaitInv, [Next]_vars PROVE WaitInv'
  OBVIOUS
<1>1. CASE SetDeadline
  <2>1. /\ handler' = [handler EXCEPT !.pc = "poll", !.i = 1, !.deadline = now + Wait(handler.respTimer)]
        /\ now = 0
    BY <1>1 DEF SetDeadline, IInv, SubmitInv, Submitting
  <2>2. handler.respTimer \in Nat /\ handler \in HandlerType(AnyPc)
    BY WaitAssumption, Zenon DEF IInv, TypeOK, HandlerType, AnyPc
  <2>3. handler'.respTimer = handler.respTimer /\ handler'.deadline = now + Wait(handler.respTimer)
    BY <2>1, <2>2 DEF HandlerType
  <2>4. handler'.deadline = Wait(handler.respTimer)
    BY <2>1, <2>2, <2>3, WaitBounded
  <2> QED
    BY <2>3, <2>4 DEF WaitInv
<1>2. CASE Parse \/ Authorize \/ SubmitFails \/ SubmitTarget
  <2>1. /\ pos' = pos /\ ~Polling
        /\ \/ \E pc \in {"authorize", "submit"} : handler' = [handler EXCEPT !.pc = pc]
           \/ \E a \in {"refused", "denied", "failed"} :
                 handler' = [handler EXCEPT !.pc = "done", !.answer = a]
           \/ handler.pc = "submit" /\ handler' = [handler EXCEPT !.i = @ + 1]
    BY <1>2 DEF Parse, Authorize, SubmitFails, SubmitTarget, Polling
  <2>2. handler \in HandlerType(AnyPc)
    BY DEF IInv, TypeOK, HandlerType, AnyPc
  <2>3. /\ handler'.respTimer = handler.respTimer /\ handler'.deadline = handler.deadline
        /\ handler'.pc \in {"authorize", "submit", "done"}
    BY <2>1, <2>2, Zenon DEF HandlerType
  <2> QED
    BY <2>1, <2>3 DEF WaitInv, Polling
<1>3. CASE PollRequest \/ PollResult \/ ReadFails \/ CheckDeadline \/ Sleep
  <2>1. Polling /\ handler \in HandlerType(AnyPc)
    BY <1>3 DEF PollRequest, PollResult, ReadFails, CheckDeadline, Sleep, Polling, IInv, TypeOK,
                HandlerType, AnyPc
  <2>2. handler'.respTimer = handler.respTimer /\ handler'.deadline = handler.deadline
    <3>1. \/ \E pc \in {"poll", "read", "check"} : Goto(pc)
          \/ \E p \in {"pd", "poserr", "timeout"} : Report(p)
          \/ handler' = [handler EXCEPT !.pc = "wait", !.wake = now + 1]
      BY <1>3 DEF PollRequest, PollResult, ReadFails, CheckDeadline, Sleep
    <3> QED
      BY <2>1, <3>1, Zenon DEF Goto, Report, HandlerType
  <2> QED
    BY <2>1, <2>2 DEF WaitInv
<1>4. CASE World \/ UNCHANGED vars
  <2>1. handler' = handler /\ pos' = pos
    BY <1>4, Zenon DEF World, Advance, Purge, ClientLeaves, Tick, vars
  <2> QED
    BY <2>1 DEF WaitInv, Polling
<1> QED
  BY <1>1, <1>2, <1>3, <1>4 DEF Next, Handle

(* For any number of targets, waits and resp_timers that fit a             *)
(* time.Duration: nobody who is still there is told of a timeout before    *)
(* the wait asked for, capped at Config.MLP.MaxSyncWaitTimeout, is over    *)
(* (waitDeadline, awaitTerminal).                                          *)
THEOREM WaitedAsAsked == Spec => []WaitAsAsked
<1>1. Init => WaitInv
  BY DEF Init, WaitInv, Polling
<1>2. IInv /\ WaitInv => WaitAsAsked
  <2> SUFFICES ASSUME IInv, WaitInv, handler.respTimer * Second < Range,
                      NEW i \in Targets, pos[i] = "timeout", ~gone
               PROVE  now >= Asked
    BY DEF WaitAsAsked
  <2>1. handler.deadline = Wait(handler.respTimer) /\ now >= handler.deadline
    BY DEF WaitInv, IInv, TimeoutsDue
  <2> QED
    BY <2>1, WaitIsAsked DEF IInv
<1> QED
  BY <1>1, <1>2, NextWait, Invariance, PTL DEF Spec
===============================================================================
