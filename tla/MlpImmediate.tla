----------------------------- MODULE MlpImmediate -----------------------------
(***************************************************************************)
(* One Standard or Emergency Location Immediate request of the MLP adapter *)
(* (internal/mlp/handler.go, resolveImmediate): submit a request per       *)
(* target, poll each in turn until it is terminal or the one deadline of   *)
(* the whole answer passes, and answer with one pos per target.            *)
(*                                                                         *)
(* The request store is what RequestLifecycle promises: the rows move      *)
(* along CanTransition by the worker's doing and are purged when terminal. *)
(* A poll reads the row and then its result in two queries.  Time is       *)
(* counted in poll intervals.                                              *)
(***************************************************************************)
EXTENDS Domain, Integers

CONSTANTS
    NTargets,     \* the msids of the request are 1..NTargets
    SyncDefault,  \* Config.MLP.SyncWaitTimeout
    SyncMax,      \* Config.MLP.MaxSyncWaitTimeout
    RespTimers,   \* values of eqop/resp_timer, 0 where it is absent
    Second,       \* time.Second
    Range,        \* a time.Duration lies in -Range..Range-1 (2^63 in the code)
    MaxTime,      \* bound: the clock of the model
    MaxErrors     \* bound: how many reads of the store may fail

ASSUME WaitAssumption ==
    /\ {NTargets, SyncDefault, SyncMax, Second, Range} \subseteq Nat \ {0}
    /\ RespTimers \subseteq Nat
    /\ {MaxTime, MaxErrors} \subseteq Nat /\ SyncDefault <= SyncMax /\ SyncMax <= MaxTime

Targets == 1..NTargets

VARIABLES
    row,       \* row[i]: the stored request of target i
    handler,   \* the locals of resolveImmediate and awaitTerminal
    pos,       \* pos[i]: what the answer says of target i
    now,       \* the clock
    gone,      \* the client is gone: the HTTP request's context is done
    errors     \* failed reads so far

vars == <<row, handler, pos, now, gone, errors>>

(* A row keeps its last state when it is purged, and the time it became   *)
(* terminal: the program sees neither, the properties do.                  *)
NoRow == [state |-> "absent", position |-> FALSE, purged |-> "no", at |-> MaxTime + 1]

Init ==
    /\ row = [i \in Targets |-> NoRow]
    /\ handler \in [pc : {"parse"}, i : {1}, respTimer : RespTimers, deadline : {0},
                    wake : {0}, answer : {"none"}]
    /\ pos = [i \in Targets |-> "none"]
    /\ now = 0
    /\ gone = FALSE
    /\ errors = 0

-------------------------------------------------------------------------------
(* resolveImmediate *)

(* time.Duration(secs) * time.Second *)
Duration(secs) ==
    LET d == (secs * Second) % (2 * Range) IN IF d >= Range THEN d - 2 * Range ELSE d

(* Mutant: the configured default caps the client's resp_timer *)
Wait_DefaultCaps(respTimer) ==
    LET wait == IF Duration(respTimer) > 0 THEN Duration(respTimer) ELSE SyncDefault
    IN IF wait > SyncDefault THEN SyncDefault ELSE wait

(* waitDeadline *)
Wait(respTimer) ==
    LET wait == IF Duration(respTimer) > 0 THEN Duration(respTimer) ELSE SyncDefault
    IN IF wait > SyncMax THEN SyncMax ELSE wait

(* The elements of the request: msids, loc_type, geo_info, eqop *)
Parse ==
    /\ handler.pc = "parse"
    /\ handler' \in {[handler EXCEPT !.pc = "authorize"],
                     [handler EXCEPT !.pc = "done", !.answer = "refused"]}
    /\ UNCHANGED <<row, pos, now, gone, errors>>

(* Submit and SubmitBatch check every target, the client's credentials and *)
(* its grants for every target before they create anything                 *)
Authorize ==
    /\ handler.pc = "authorize"
    /\ \/ ~gone /\ handler' = [handler EXCEPT !.pc = "submit"]
       \/ handler' = [handler EXCEPT !.pc = "done", !.answer = "denied"]
    /\ UNCHANGED <<row, pos, now, gone, errors>>

(* Mutant: a batch that fails half-way answers with the targets it has *)
SubmitFails_Partial ==
    /\ handler.pc = "submit"
    /\ handler.i <= NTargets
    /\ handler' = [handler EXCEPT !.pc = "done", !.answer = "positions"]
    /\ UNCHANGED <<row, pos, now, gone, errors>>

(* Submit or SubmitBatch: one CreateRequest per target *)
SubmitTarget ==
    /\ handler.pc = "submit"
    /\ handler.i <= NTargets
    /\ ~gone
    /\ row' = [row EXCEPT ![handler.i].state = "queued"]
    /\ handler' = [handler EXCEPT !.i = @ + 1]
    /\ UNCHANGED <<pos, now, gone, errors>>

(* A CreateRequest fails: one result for the whole request, and what was   *)
(* created stays                                                           *)
SubmitFails ==
    /\ handler.pc = "submit"
    /\ handler.i <= NTargets
    /\ handler' = [handler EXCEPT !.pc = "done", !.answer = "failed"]
    /\ UNCHANGED <<row, pos, now, gone, errors>>

SetDeadline ==
    /\ handler.pc = "submit"
    /\ handler.i > NTargets
    /\ handler' = [handler EXCEPT !.pc = "poll", !.i = 1,
                                  !.deadline = now + Wait(handler.respTimer)]
    /\ UNCHANGED <<row, pos, now, gone, errors>>

(* buildPos and the next target *)
Report(p) ==
    /\ pos' = [pos EXCEPT ![handler.i] = p]
    /\ handler' = IF handler.i < NTargets
                  THEN [handler EXCEPT !.pc = "poll", !.wake = 0, !.i = @ + 1]
                  ELSE [handler EXCEPT !.pc = "done", !.wake = 0, !.answer = "positions"]

Goto(pc) == handler' = [handler EXCEPT !.pc = pc, !.wake = 0] /\ UNCHANGED pos

(* Mutant: a target whose turn comes after the deadline is not looked at *)
PollRequest_DeadlineFirst ==
    /\ handler.pc = "poll"
    /\ ~gone
    /\ LET state == row[handler.i].state IN
       IF now >= handler.deadline THEN Goto("check")
       ELSE IF row[handler.i].purged # "row" /\ state = "completed" THEN Goto("read")
       ELSE IF row[handler.i].purged # "row" /\ Terminal(state) THEN Report("poserr")
       ELSE Goto("check")
    /\ UNCHANGED <<row, now, gone, errors>>

(* GetResult: the row first; if it is completed its result is read next *)
PollRequest ==
    /\ handler.pc = "poll"
    /\ ~gone
    /\ LET state == row[handler.i].state IN
       IF row[handler.i].purged # "row" /\ state = "completed" THEN Goto("read")
       ELSE IF row[handler.i].purged # "row" /\ Terminal(state) THEN Report("poserr")
       ELSE Goto("check")
    /\ UNCHANGED <<row, now, gone, errors>>

(* Mutant: a result that is no longer there counts as an empty one *)
PollResult_Empty ==
    /\ handler.pc = "read"
    /\ ~gone
    /\ Report(IF row[handler.i].purged = "no" /\ row[handler.i].position THEN "pd" ELSE "poserr")
    /\ UNCHANGED <<row, now, gone, errors>>

(* The result: an error if it was purged in between *)
PollResult ==
    /\ handler.pc = "read"
    /\ ~gone
    /\ IF row[handler.i].purged = "no"
       THEN Report(IF row[handler.i].position THEN "pd" ELSE "poserr")
       ELSE Goto("check")
    /\ UNCHANGED <<row, now, gone, errors>>

(* A query fails, as every query does once the context is done. *)
ReadFails ==
    /\ handler.pc \in {"poll", "read"}
    /\ gone \/ errors < MaxErrors
    /\ errors' = IF gone THEN errors ELSE errors + 1
    /\ Goto("check")
    /\ UNCHANGED <<row, now, gone>>

(* Mutant: the last poll before the deadline is given up *)
CheckDeadline_Early ==
    /\ handler.pc = "check"
    /\ IF now + 1 >= handler.deadline
       THEN Report("timeout")
       ELSE handler' = [handler EXCEPT !.pc = "wait", !.wake = now + 1] /\ UNCHANGED pos
    /\ UNCHANGED <<row, now, gone, errors>>

(* Nothing terminal was read: time out or sleep *)
CheckDeadline ==
    /\ handler.pc = "check"
    /\ IF now >= handler.deadline
       THEN Report("timeout")
       ELSE handler' = [handler EXCEPT !.pc = "wait", !.wake = now + 1] /\ UNCHANGED pos
    /\ UNCHANGED <<row, now, gone, errors>>

(* The select of awaitTerminal: the poll interval or the end of ctx *)
Sleep ==
    /\ handler.pc = "wait"
    /\ \/ gone /\ Report("timeout")
       \/ now >= handler.wake /\ Goto("poll")
    /\ UNCHANGED <<row, now, gone, errors>>

-------------------------------------------------------------------------------
(* The world: the worker, the other clients, the sweep, the client, time.  *)
(* It is followed until the answer is given.                               *)

Advance(i, state, position) ==
    /\ handler.pc # "done"
    /\ CanTransition(row[i].state, state)
    /\ position => state = "completed"
    /\ row' = [row EXCEPT ![i] = [@ EXCEPT !.state = state, !.position = position,
                                          !.at = IF Terminal(state) THEN now ELSE row[i].at]]
    /\ UNCHANGED <<handler, pos, now, gone, errors>>

Purge(i) ==
    /\ handler.pc # "done"
    /\ Terminal(row[i].state)
    /\ \/ row[i].purged = "no" /\ row' = [row EXCEPT ![i].purged = "result"]
       \/ row[i].purged # "row" /\ row' = [row EXCEPT ![i].purged = "row"]
    /\ UNCHANGED <<handler, pos, now, gone, errors>>

ClientLeaves ==
    /\ ~gone
    /\ handler.pc # "done"
    /\ gone' = TRUE
    /\ UNCHANGED <<row, handler, pos, now, errors>>

(* The time the submission takes does not count *)
Tick ==
    /\ handler.pc \notin {"parse", "authorize", "submit", "done"}
    /\ now < MaxTime
    /\ now' = now + 1
    /\ UNCHANGED <<row, handler, pos, gone, errors>>

-------------------------------------------------------------------------------
Handle ==
    \/ Parse \/ Authorize \/ SubmitTarget \/ SubmitFails \/ SetDeadline
    \/ PollRequest \/ PollResult \/ ReadFails \/ CheckDeadline \/ Sleep

World ==
    \/ \E i \in Targets, state \in States, position \in BOOLEAN : Advance(i, state, position)
    \/ \E i \in Targets : Purge(i)
    \/ ClientLeaves
    \/ Tick

Next == Handle \/ World

(* The handler runs and time passes; the requests owe it nothing. *)
Spec == Init /\ [][Next]_vars /\ WF_vars(Handle) /\ WF_vars(Tick)

-------------------------------------------------------------------------------
(* Properties *)

(* The types of the rows, of the handler's locals and of its answer. *)
TypeOK ==
    /\ row \in [Targets -> [state : States \cup {"absent"}, position : BOOLEAN,
                            purged : {"no", "result", "row"}, at : 0..(MaxTime + 1)]]
    /\ handler \in [pc : {"parse", "authorize", "submit", "poll", "read", "check", "wait",
                          "done"},
                    i : 1..(NTargets + 1), respTimer : RespTimers,
                    deadline : 0..SyncMax, wake : 0..SyncMax,
                    answer : {"none", "refused", "denied", "failed", "positions"}]
    /\ pos \in [Targets -> {"none", "pd", "poserr", "timeout"}]
    /\ now \in 0..MaxTime /\ gone \in BOOLEAN /\ errors \in 0..MaxErrors

(* A pos that gives a position, or says that none could be had, tells how  *)
(* its own request ended, even when rows and results are purged between    *)
(* the two reads of a poll.                                                *)
PosTruthful ==
    \A i \in Targets :
        /\ pos[i] = "pd" => row[i].state = "completed" /\ row[i].position
        /\ pos[i] = "poserr" => Terminal(row[i].state) /\ ~row[i].position

(* The targets are awaited one after the other against one deadline.  A    *)
(* target whose turn comes when the time is up is still looked at: it is   *)
(* called timed out only if it did not end before the deadline, unless the *)
(* client left, a read failed or the sweep was there first.                *)
LateTargetsLookedAt ==
    \A i \in Targets \ {1} :
        /\ pos[i - 1] = "timeout" /\ pos[i] = "timeout"
        /\ ~gone /\ errors = 0 /\ row[i].purged = "no"
        => row[i].at >= handler.deadline

(* A client that is still there is never told of a timeout before the      *)
(* deadline, and the deadline is within Config.MLP.MaxSyncWaitTimeout,     *)
(* even for a resp_timer that overflows a time.Duration.                   *)
TimeoutsDue ==
    /\ handler.deadline <= SyncMax
    /\ (\E i \in Targets : pos[i] = "timeout") => now >= handler.deadline \/ gone

(* How long the client is to be kept waiting at most *)
Asked ==
    LET wait == IF handler.respTimer = 0 THEN SyncDefault ELSE handler.respTimer * Second
    IN IF wait > SyncMax THEN SyncMax ELSE wait

(* "The client's own eqop/resp_timer if given, else the configured default *)
(* - either way capped at the configured maximum" (waitDeadline): no       *)
(* target is called timed out before that time is over, however the polls  *)
(* of the targets before it went, unless the client left.  The one         *)
(* exception is a resp_timer whose nanoseconds do not fit a time.Duration: *)
(* parseEQoP multiplies it unchecked, and what is left of it may be        *)
(* shorter than the cap.                                                   *)
WaitAsAsked ==
    handler.respTimer * Second < Range =>
        \A i \in Targets : pos[i] = "timeout" => now >= Asked \/ gone

(* The client gets an answer, with a pos for each target or with one       *)
(* result for the whole request, whatever becomes of the requests.         *)
Answered ==
    <>(/\ handler.pc = "done"
       /\ handler.answer = "positions" => \A i \in Targets : pos[i] # "none")
===============================================================================
