------------------------- MODULE LocationReportsProofs -------------------------
(***************************************************************************)
(* Proofs about inbound location reports (LocationReports), for any finite *)
(* number of connections, any reports and any number of repetitions,       *)
(* failing store calls, stops and restarts.                                *)
(***************************************************************************)
EXTENDS LocationReports, FiniteSetTheorems, TLAPS

HandlerType ==
    [Connections -> [pc : {"idle", "find", "mark", "create", "push", "answer"},
                     report : Reports \cup {None}, correlated : BOOLEAN]]

Typing ==
    /\ sub \in [Refs -> {"absent", "pending", "reported"}]
    /\ stored \in [Reports -> Nat] /\ naming \in [Refs -> Nat]
    /\ handler \in HandlerType
    /\ pushed \in [Reports -> Nat] /\ arrived \in [Reports -> Nat]
    /\ answer \in [Reports -> {"none", "success", "unable_to_comply"}]
    /\ faults \in Nat
    /\ usable \in BOOLEAN /\ late \in BOOLEAN

(* What a handler has done of ServeDIAM when it is at pc *)
Progress(c) ==
    LET h == handler[c]
        r == h.report
    IN /\ h.pc # "idle" => r \in Reports
       /\ h.pc \in {"find", "mark", "create", "push"} => r.form # "malformed"
       /\ h.pc \in {"find", "mark"} => r.ref \in Refs
       /\ h.correlated => r.ref \in Refs
       /\ h.pc = "find" => ~h.correlated
       /\ faults = 0 /\ h.pc = "mark" /\ h.correlated => sub[r.ref] \in {"pending", "reported"}
       /\ faults = 0 /\ usable /\ h.correlated /\ h.pc = "create" => sub[r.ref] = "reported"
       /\ faults = 0 /\ usable /\ h.pc \in {"push", "answer"} /\ r.form # "malformed" =>
              stored[r] >= 1
       /\ h.pc = "answer" /\ r.form # "malformed" /\ Pushable(r) => pushed[r] >= 1

(* The handlers that may still store the report r, and those that may      *)
(* still post it                                                           *)
ToStore(r) ==
    {c \in Connections : handler[c].pc \in {"find", "mark", "create"} /\ handler[c].report = r}

ToPush(r) ==
    {c \in Connections :
        handler[c].pc \in {"find", "mark", "create", "push"} /\ handler[c].report = r}

(* A report is stored and posted once for each arrival at the most. *)
OncePerArrival ==
    \A r \in Reports :
        /\ stored[r] + Cardinality(ToStore(r)) <= arrived[r]
        /\ pushed[r] + Cardinality(ToPush(r)) <= arrived[r]

(* The handlers that found the subscription f pending and have not stored  *)
(* their report yet                                                        *)
Holders(f) ==
    {c \in Connections : /\ handler[c].pc \in {"mark", "create"}
                         /\ handler[c].correlated
                         /\ handler[c].report.ref = f}

(* No row names a subscription that is not reported; once it is, only the  *)
(* handlers that hold it add a row.                                        *)
OncePerHolder ==
    faults = 0 => \A f \in Refs :
        /\ sub[f] # "reported" => naming[f] = 0
        /\ naming[f] + Cardinality(Holders(f)) <= Cardinality(Connections)

Acked ==
    \A r \in Reports :
        answer[r] = "success" =>
            /\ r.form = "good"
            /\ faults = 0 /\ ~late => stored[r] >= 1
            /\ faults = 0 /\ Pushable(r) => pushed[r] >= 1

(* A stop within its deadline leaves no connection to acknowledge over when *)
(* the store is closed.                                                     *)
StopInv == ~usable /\ ~late => open = {}

IInv ==
    /\ Typing
    /\ \A c \in Connections : Progress(c)
    /\ OncePerArrival
    /\ OncePerHolder
    /\ Acked
    /\ StopInv

-------------------------------------------------------------------------------
(* Counting handlers *)

LEMMA CardSubset ==
    ASSUME NEW U, IsFiniteSet(U), NEW V, V \subseteq U
    PROVE  /\ IsFiniteSet(V)
           /\ Cardinality(V) \in Nat /\ Cardinality(U) \in Nat
           /\ Cardinality(V) <= Cardinality(U)
  BY FS_Subset, FS_CardinalityType

LEMMA CardLeave ==
    ASSUME NEW U, IsFiniteSet(U), NEW V, V \subseteq U, NEW c \in U, c \notin V
    PROVE  Cardinality(V) + 1 <= Cardinality(U)
<1>1. V \subseteq U \ {c} /\ IsFiniteSet(U \ {c}) /\ Cardinality(U \ {c}) = Cardinality(U) - 1
  BY FS_RemoveElement
<1>2. Cardinality(V) <= Cardinality(U \ {c})
  BY <1>1, CardSubset
<1>3. Cardinality(V) \in Nat /\ Cardinality(U) \in Nat
  BY CardSubset
<1> QED
  BY <1>1, <1>2, <1>3

LEMMA CardJoin ==
    ASSUME NEW U, IsFiniteSet(U), NEW V, NEW c, V \subseteq U \cup {c}
    PROVE  Cardinality(V) <= Cardinality(U) + 1
<1>1. Cardinality(U) \in Nat
  BY FS_CardinalityType
<1>2. /\ IsFiniteSet(U \cup {c})
      /\ Cardinality(U \cup {c}) = IF c \in U THEN Cardinality(U) ELSE Cardinality(U) + 1
  BY FS_AddElement
<1>3. IsFiniteSet(U \cup {c}) /\ Cardinality(U \cup {c}) <= Cardinality(U) + 1
  BY <1>1, <1>2
<1>4. Cardinality(V) <= Cardinality(U \cup {c}) /\ Cardinality(V) \in Nat
  BY <1>3, CardSubset
<1>5. Cardinality(U) \in Nat /\ Cardinality(U \cup {c}) \in Nat
  BY <1>3, FS_CardinalityType
<1> QED
  BY <1>3, <1>4, <1>5

LEMMA SetsFinite ==
    ASSUME NEW r
    PROVE  /\ IsFiniteSet(ToStore(r)) /\ Cardinality(ToStore(r)) \in Nat
           /\ IsFiniteSet(ToPush(r)) /\ Cardinality(ToPush(r)) \in Nat
           /\ IsFiniteSet(Holders(r)) /\ Cardinality(Holders(r)) \in Nat
           /\ Cardinality(Connections) \in Nat
           /\ Cardinality(Holders(r)) <= Cardinality(Connections)
<1>1. /\ ToStore(r) \subseteq Connections /\ ToPush(r) \subseteq Connections
      /\ Holders(r) \subseteq Connections
  BY DEF ToStore, ToPush, Holders
<1>2. IsFiniteSet(Connections)
  BY ReportsAssumption
<1> QED
  BY <1>1, <1>2, CardSubset

LEMMA SetsFiniteNext ==
    ASSUME NEW r
    PROVE  /\ IsFiniteSet(ToStore(r)') /\ Cardinality(ToStore(r)') \in Nat
           /\ IsFiniteSet(ToPush(r)') /\ Cardinality(ToPush(r)') \in Nat
           /\ IsFiniteSet(Holders(r)') /\ Cardinality(Holders(r)') \in Nat
           /\ Cardinality(Holders(r)') <= Cardinality(Connections)
<1>1. /\ ToStore(r)' \subseteq Connections /\ ToPush(r)' \subseteq Connections
      /\ Holders(r)' \subseteq Connections
  BY DEF ToStore, ToPush, Holders
<1>2. IsFiniteSet(Connections)
  BY ReportsAssumption
<1> QED
  BY <1>1, <1>2, CardSubset

(* What the decoder tells apart *)
LEMMA Forms == \A r \in Reports : r.form \in {"good", "malformed", "sessionless"}
  BY ReportsAssumption

LEMMA RefsOf == \A r \in Reports : r.ref # NoRef => r.ref \in Refs
  BY DEF Refs

-------------------------------------------------------------------------------
LEMMA InitInv == Init => IInv
<1> SUFFICES ASSUME Init PROVE IInv
  OBVIOUS
<1>1. Typing
  <2>1. usable \in BOOLEAN /\ late \in BOOLEAN
    BY Zenon DEF Init
  <2> QED
    BY <2>1 DEF Init, Typing, HandlerType, Idle
<1>2. \A c \in Connections : Progress(c)
  BY DEF Init, Progress, Idle
<1>3. \A r \in Reports : ToStore(r) = {} /\ ToPush(r) = {}
  BY DEF Init, ToStore, ToPush, Idle
<1>4. OncePerArrival
  BY <1>3, FS_EmptySet DEF Init, OncePerArrival
<1>5. OncePerHolder
  BY SetsFinite DEF Init, OncePerHolder
<1>6. Acked
  BY DEF Init, Acked
<1>7. StopInv
  BY Zenon DEF Init, StopInv
<1> QED
  BY <1>1, <1>2, <1>4, <1>5, <1>6, <1>7 DEF IInv

(* What the steps of the handlers leave alone *)
LEMMA StopKept ==
    ASSUME IInv, UNCHANGED process
    PROVE  StopInv' /\ UNCHANGED <<usable, late, open>>
  BY Zenon DEF IInv, StopInv, process

LEMMA SubscribeInv ==
    ASSUME IInv, NEW f \in Refs, CreateDeferredLocationSubscription(f)
    PROVE  IInv'
<1>1. /\ sub[f] = "absent" /\ sub' = [sub EXCEPT ![f] = "pending"]
      /\ UNCHANGED <<stored, naming, handler, pushed, arrived, answer, faults>>
      /\ StopInv' /\ UNCHANGED <<usable, late, open>>
  BY StopKept DEF CreateDeferredLocationSubscription
<1>2. Typing'
  BY <1>1 DEF IInv, Typing
<1>3. \A g \in Refs : /\ sub[g] = "reported" => sub'[g] = "reported"
                      /\ sub'[g] # "reported" => sub[g] # "reported"
  BY <1>1 DEF IInv, Typing
<1>4. ASSUME NEW c \in Connections PROVE Progress(c)'
  <2>1. Progress(c)
    BY DEF IInv
  <2> QED
    BY <1>1, <1>3, <2>1 DEF Progress, Pushable
<1>5. OncePerArrival' /\ Acked'
  BY <1>1 DEF IInv, OncePerArrival, ToStore, ToPush, Acked, Pushable
<1>6. OncePerHolder'
  BY <1>1, <1>3 DEF IInv, OncePerHolder, Holders
<1> QED
  BY <1>1, <1>2, <1>4, <1>5, <1>6 DEF IInv

(* A handler is started for an arrival. *)
LEMMA ServeInv ==
    ASSUME IInv, NEW c \in Connections, NEW r \in Reports, ServeDIAM(c, r)
    PROVE  IInv'
<1> DEFINE h == [pc |-> IF r.form = "malformed" THEN "answer"
                        ELSE IF r.ref = NoRef THEN "create" ELSE "find",
                 report |-> r, correlated |-> FALSE]
<1>1. /\ handler[c].pc = "idle"
      /\ arrived' = [arrived EXCEPT ![r] = @ + 1]
      /\ handler' = [handler EXCEPT ![c] = h]
      /\ UNCHANGED <<sub, stored, naming, pushed, answer, faults>>
      /\ StopInv' /\ UNCHANGED <<usable, late, open>>
  BY StopKept DEF ServeDIAM
<1>2. /\ h.pc \in {"answer", "create", "find"} /\ h.report = r /\ h.correlated = FALSE
      /\ h.pc = "answer" => r.form = "malformed"
      /\ h.pc # "answer" => r.form # "malformed"
      /\ h.pc = "find" => r.ref # NoRef
      /\ h \in [pc : {"answer", "create", "find"}, report : Reports, correlated : BOOLEAN]
  OBVIOUS
<1> HIDE DEF h
<1>3. /\ handler'[c] = h
      /\ \A d \in Connections : d # c => handler'[d] = handler[d]
      /\ arrived'[r] = arrived[r] + 1
      /\ \A q \in Reports : q # r => arrived'[q] = arrived[q]
  BY <1>1 DEF IInv, Typing, HandlerType
<1>4. Typing'
  BY <1>1, <1>2 DEF IInv, Typing, HandlerType
<1>5. ASSUME NEW d \in Connections PROVE Progress(d)'
  <2>1. CASE d = c
    BY <1>2, <1>3, <2>1, RefsOf DEF Progress
  <2>2. CASE d # c
    <3>1. Progress(d) /\ handler'[d] = handler[d]
      BY <1>3, <2>2 DEF IInv
    <3> QED
      BY <1>1, <3>1 DEF Progress, Pushable
  <2> QED
    BY <2>1, <2>2
<1>6. OncePerArrival'
  <2> SUFFICES ASSUME NEW q \in Reports
               PROVE  /\ stored[q] + Cardinality(ToStore(q)') <= arrived'[q]
                      /\ pushed[q] + Cardinality(ToPush(q)') <= arrived'[q]
    BY <1>1 DEF OncePerArrival
  <2>1. /\ stored[q] + Cardinality(ToStore(q)) <= arrived[q]
        /\ pushed[q] + Cardinality(ToPush(q)) <= arrived[q]
    BY DEF IInv, OncePerArrival
  <2>2. stored[q] \in Nat /\ pushed[q] \in Nat /\ arrived[q] \in Nat
    BY DEF IInv, Typing
  <2>3. CASE q = r
    <3>1. ToStore(q)' \subseteq ToStore(q) \cup {c} /\ ToPush(q)' \subseteq ToPush(q) \cup {c}
      BY <1>3 DEF ToStore, ToPush
    <3>2. /\ Cardinality(ToStore(q)') <= Cardinality(ToStore(q)) + 1
          /\ Cardinality(ToPush(q)') <= Cardinality(ToPush(q)) + 1
      BY <3>1, SetsFinite, CardJoin
    <3> QED
      BY <1>3, <2>1, <2>2, <2>3, <3>2, SetsFinite, SetsFiniteNext
  <2>4. CASE q # r
    <3>1. ToStore(q)' \subseteq ToStore(q) /\ ToPush(q)' \subseteq ToPush(q)
      BY <1>2, <1>3, <2>4 DEF ToStore, ToPush
    <3>2. /\ Cardinality(ToStore(q)') <= Cardinality(ToStore(q))
          /\ Cardinality(ToPush(q)') <= Cardinality(ToPush(q))
      BY <3>1, SetsFinite, CardSubset
    <3> QED
      BY <1>3, <2>1, <2>2, <2>4, <3>2, SetsFinite, SetsFiniteNext
  <2> QED
    BY <2>3, <2>4
<1>7. OncePerHolder'
  <2>1. \A f \in Refs : Holders(f)' = Holders(f)
    BY <1>1, <1>2, <1>3 DEF Holders
  <2> QED
    BY <1>1, <2>1 DEF IInv, OncePerHolder
<1>8. Acked'
  BY <1>1 DEF IInv, Acked, Pushable
<1> QED
  BY <1>1, <1>4, <1>5, <1>6, <1>7, <1>8 DEF IInv

(* What no step of a handler takes back *)
Grows ==
    /\ faults' = 0 => faults = 0
    /\ usable' => usable
    /\ late => late'
    /\ \A f \in Refs : /\ sub[f] = "reported" => sub'[f] = "reported"
                       /\ sub[f] = "pending" => sub'[f] \in {"pending", "reported"}
    /\ \A r \in Reports : /\ stored[r] >= 1 => stored'[r] >= 1
                          /\ pushed[r] >= 1 => pushed'[r] >= 1

LEMMA OthersProgress ==
    ASSUME IInv, Grows, NEW d \in Connections, handler'[d] = handler[d]
    PROVE  Progress(d)'
<1>1. Progress(d)
  BY DEF IInv
<1> QED
  BY <1>1 DEF Progress, Grows, Pushable

LEMMA AckedKept ==
    ASSUME IInv, Grows, UNCHANGED answer
    PROVE  Acked'
  BY DEF IInv, Acked, Grows, Pushable

LEMMA GotoFacts ==
    ASSUME handler \in HandlerType, NEW c \in Connections,
           NEW pc \in {"create", "push", "answer"}, Goto(c, pc)
    PROVE  /\ handler' \in HandlerType
           /\ \A d \in Connections : d # c => handler'[d] = handler[d]
           /\ handler'[c].pc = pc /\ handler'[c].report = handler[c].report
           /\ handler'[c].correlated = handler[c].correlated
  BY DEF Goto, HandlerType

(* A handler goes on: no report has more handlers that may store or post   *)
(* it than before.                                                         *)
LEMMA CountsKept ==
    ASSUME IInv, UNCHANGED <<stored, pushed, arrived>>,
           \A r \in Reports : ToStore(r)' \subseteq ToStore(r) /\ ToPush(r)' \subseteq ToPush(r)
    PROVE  OncePerArrival'
<1> SUFFICES ASSUME NEW r \in Reports
             PROVE  /\ stored[r] + Cardinality(ToStore(r)') <= arrived[r]
                    /\ pushed[r] + Cardinality(ToPush(r)') <= arrived[r]
  BY DEF OncePerArrival
<1>1. /\ Cardinality(ToStore(r)') <= Cardinality(ToStore(r))
      /\ Cardinality(ToPush(r)') <= Cardinality(ToPush(r))
  BY SetsFinite, CardSubset
<1>2. /\ stored[r] + Cardinality(ToStore(r)) <= arrived[r]
      /\ pushed[r] + Cardinality(ToPush(r)) <= arrived[r]
  BY DEF IInv, OncePerArrival
<1>3. stored[r] \in Nat /\ pushed[r] \in Nat /\ arrived[r] \in Nat
  BY DEF IInv, Typing
<1> QED
  BY <1>1, <1>2, <1>3, SetsFinite, SetsFiniteNext

(* A subscription that is pending is held by any number of handlers, for   *)
(* no row names it yet.                                                    *)
LEMMA FindInv ==
    ASSUME IInv, NEW c \in Connections, Find(c)
    PROVE  IInv'
<1> DEFINE r == handler[c].report
<1>1. /\ handler[c].pc = "find"
      /\ UNCHANGED <<sub, stored, naming, pushed, arrived, answer>>
      /\ faults' \in Nat /\ (faults' = 0 => faults = 0)
      /\ StopInv' /\ UNCHANGED <<usable, late, open>>
  BY StopKept DEF Find, Succeeds, Fails, IInv, Typing
<1>2. r \in Reports /\ r.form # "malformed" /\ r.ref \in Refs /\ ~handler[c].correlated
  BY <1>1 DEF IInv, Progress
<1>3. /\ handler' \in HandlerType
      /\ \A d \in Connections : d # c => handler'[d] = handler[d]
      /\ handler'[c].report = r /\ handler'[c].pc \in {"mark", "create"}
      /\ handler'[c].correlated => handler'[c].pc = "mark" /\ sub[r.ref] = "pending"
  <2>1. handler \in HandlerType
    BY DEF IInv, Typing, HandlerType
  <2>2. CASE handler' = [handler EXCEPT ![c].pc = IF FindPending(r.ref) THEN "mark" ELSE "create",
                                        ![c].correlated = FindPending(r.ref)]
    <3>1. PICK p \in {"mark", "create"}, b \in BOOLEAN :
              /\ p = (IF FindPending(r.ref) THEN "mark" ELSE "create")
              /\ b = FindPending(r.ref)
      BY Zenon DEF FindPending
    <3>2. handler' = [handler EXCEPT ![c].pc = p, ![c].correlated = b]
      BY Zenon, <2>2, <3>1
    <3>3. /\ handler' \in HandlerType
          /\ \A d \in Connections : d # c => handler'[d] = handler[d]
          /\ handler'[c].report = r /\ handler'[c].pc = p /\ handler'[c].correlated = b
      BY <2>1, <3>2, Zenon DEF HandlerType
    <3> QED
      BY <3>1, <3>3, Zenon DEF FindPending
  <2>3. CASE Goto(c, "create")
    BY <1>2, <2>1, <2>3, GotoFacts
  <2> QED
    BY <2>2, <2>3 DEF Find
<1>4. Typing'
  BY <1>1, <1>3 DEF IInv, Typing
<1>5. Grows
  BY <1>1 DEF Grows, IInv, Typing
<1>6. ASSUME NEW d \in Connections PROVE Progress(d)'
  <2>1. CASE d = c
    BY <1>1, <1>2, <1>3, <2>1 DEF Progress
  <2>2. CASE d # c
    BY <1>3, <1>5, <2>2, OthersProgress
  <2> QED
    BY <2>1, <2>2
<1>7. OncePerArrival'
  <2>1. \A q \in Reports : ToStore(q)' \subseteq ToStore(q) /\ ToPush(q)' \subseteq ToPush(q)
    BY <1>1, <1>3 DEF ToStore, ToPush
  <2> QED
    BY <1>1, <2>1, CountsKept
<1>8. OncePerHolder'
  <2> SUFFICES ASSUME faults' = 0, NEW f \in Refs
               PROVE  /\ sub[f] # "reported" => naming[f] = 0
                      /\ naming[f] + Cardinality(Holders(f)') <= Cardinality(Connections)
    BY <1>1 DEF OncePerHolder
  <2>1. /\ sub[f] # "reported" => naming[f] = 0
        /\ naming[f] + Cardinality(Holders(f)) <= Cardinality(Connections)
        /\ naming[f] \in Nat
    BY <1>1 DEF IInv, OncePerHolder, Typing
  <2>2. CASE sub[f] # "reported"
    BY <2>1, <2>2, SetsFinite, SetsFiniteNext
  <2>3. CASE sub[f] = "reported"
    <3>1. Holders(f)' \subseteq Holders(f)
      BY <1>1, <1>3, <2>3 DEF Holders
    <3>2. Cardinality(Holders(f)') <= Cardinality(Holders(f))
      BY <3>1, SetsFinite, CardSubset
    <3> QED
      BY <2>1, <3>2, SetsFinite, SetsFiniteNext
  <2> QED
    BY <2>2, <2>3
<1>9. Acked'
  BY <1>1, <1>5, AckedKept
<1> QED
  BY <1>1, <1>4, <1>6, <1>7, <1>8, <1>9 DEF IInv

(* A handler that reaches "create" with a correlated report has marked the *)
(* subscription, or another one has.                                       *)
LEMMA MarkInv ==
    ASSUME IInv, NEW c \in Connections, Mark(c)
    PROVE  IInv'
<1> DEFINE r == handler[c].report
<1>1. /\ handler[c].pc = "mark" /\ Goto(c, "create")
      /\ UNCHANGED <<stored, naming, pushed, arrived, answer>>
      /\ \/ faults' = faults /\ sub' = [sub EXCEPT ![r.ref] = IF @ = "pending" THEN "reported" ELSE @]
         \/ faults' = faults + 1 /\ sub' = sub
         \/ ~usable /\ faults' = faults /\ sub' = sub
      /\ StopInv' /\ UNCHANGED <<usable, late, open>>
  BY StopKept DEF Mark, Succeeds, Fails
<1>2. r \in Reports /\ r.form # "malformed" /\ r.ref \in Refs
  BY <1>1 DEF IInv, Progress
<1>3. /\ handler' \in HandlerType
      /\ \A d \in Connections : d # c => handler'[d] = handler[d]
      /\ handler'[c].pc = "create" /\ handler'[c].report = r
      /\ handler'[c].correlated = handler[c].correlated
  BY <1>1, GotoFacts DEF IInv, Typing
<1>4. /\ sub' \in [Refs -> {"absent", "pending", "reported"}]
      /\ faults' \in Nat /\ (faults' = 0 => faults = 0)
      /\ \A f \in Refs : sub[f] = "reported" => sub'[f] = "reported"
      /\ \A f \in Refs : sub'[f] = "reported" => sub[f] \in {"reported", "pending"}
  BY <1>1, <1>2 DEF IInv, Typing
<1>5. Typing' /\ Grows
  BY <1>1, <1>3, <1>4 DEF IInv, Typing, Grows
<1>6. ASSUME NEW d \in Connections PROVE Progress(d)'
  <2>1. CASE d = c
    <3>1. faults' = 0 /\ usable /\ handler[c].correlated => sub'[r.ref] = "reported"
      <4> SUFFICES ASSUME faults' = 0, usable, handler[c].correlated PROVE sub'[r.ref] = "reported"
        OBVIOUS
      <4>1. sub' = [sub EXCEPT ![r.ref] = IF @ = "pending" THEN "reported" ELSE @] /\ faults = 0
        BY <1>1 DEF IInv, Typing
      <4>2. sub[r.ref] \in {"pending", "reported"}
        BY <1>1, <4>1 DEF IInv, Progress
      <4> QED
        BY <1>2, <4>1, <4>2 DEF IInv, Typing
    <3> QED
      BY <1>1, <1>2, <1>3, <2>1, <3>1 DEF Progress
  <2>2. CASE d # c
    BY <1>3, <1>5, <2>2, OthersProgress
  <2> QED
    BY <2>1, <2>2
<1>7. OncePerArrival'
  <2>1. \A q \in Reports : ToStore(q)' \subseteq ToStore(q) /\ ToPush(q)' \subseteq ToPush(q)
    BY <1>1, <1>3 DEF ToStore, ToPush
  <2> QED
    BY <1>1, <2>1, CountsKept
<1>8. OncePerHolder'
  <2>1. \A f \in Refs : Holders(f)' = Holders(f)
    BY <1>1, <1>3 DEF Holders
  <2> QED
    BY <1>1, <1>4, <2>1 DEF IInv, OncePerHolder
<1>9. Acked'
  BY <1>1, <1>5, AckedKept
<1> QED
  BY <1>1, <1>5, <1>6, <1>7, <1>8, <1>9 DEF IInv

(* A row is inserted: the handler can store its report no more, and if the *)
(* row names a subscription the handler holds it no more.                  *)
LEMMA CreateInv ==
    ASSUME IInv, NEW c \in Connections, Create(c)
    PROVE  IInv'
<1> DEFINE r == handler[c].report
<1>1. /\ handler[c].pc = "create" /\ Goto(c, "push")
      /\ UNCHANGED <<sub, pushed, arrived, answer>>
      /\ \/ /\ usable /\ faults' = faults /\ stored' = [stored EXCEPT ![r] = @ + 1]
            /\ naming' = IF handler[c].correlated THEN [naming EXCEPT ![r.ref] = @ + 1] ELSE naming
         \/ faults' = faults + 1 /\ stored' = stored /\ naming' = naming
         \/ ~usable /\ faults' = faults /\ stored' = stored /\ naming' = naming
      /\ StopInv' /\ UNCHANGED <<usable, late, open>>
  BY StopKept DEF Create, Succeeds, Fails
<1>2. /\ r \in Reports /\ r.form # "malformed" /\ (handler[c].correlated => r.ref \in Refs)
      /\ faults = 0 /\ usable /\ handler[c].correlated => sub[r.ref] = "reported"
  BY <1>1 DEF IInv, Progress
<1>3. /\ handler' \in HandlerType
      /\ \A d \in Connections : d # c => handler'[d] = handler[d]
      /\ handler'[c].pc = "push" /\ handler'[c].report = r
      /\ handler'[c].correlated = handler[c].correlated
  BY <1>1, GotoFacts DEF IInv, Typing
<1>4. /\ stored' \in [Reports -> Nat]
      /\ stored'[r] = stored[r] \/ stored'[r] = stored[r] + 1
      /\ faults' = 0 /\ usable => stored'[r] = stored[r] + 1
      /\ \A q \in Reports : q # r => stored'[q] = stored[q]
      /\ faults' \in Nat /\ (faults' = 0 => faults = 0)
  BY <1>1, <1>2 DEF IInv, Typing
<1>5. /\ naming' \in [Refs -> Nat]
      /\ handler[c].correlated => naming'[r.ref] \in {naming[r.ref], naming[r.ref] + 1}
      /\ \A f \in Refs : f # r.ref \/ ~handler[c].correlated \/ ~usable => naming'[f] = naming[f]
  <2>1. CASE handler[c].correlated
    BY <1>1, <1>2, <2>1 DEF IInv, Typing
  <2>2. CASE ~handler[c].correlated
    BY <1>1, <2>2 DEF IInv, Typing
  <2> QED
    BY <2>1, <2>2
<1>6. Typing' /\ Grows
  <2>1. \A q \in Reports : stored[q] \in Nat /\ (stored[q] >= 1 => stored'[q] >= 1)
    BY <1>4 DEF IInv, Typing
  <2>2. Typing'
    BY <1>1, <1>3, <1>4, <1>5, Zenon DEF IInv, Typing
  <2>3. Grows
    BY <1>1, <1>4, <2>1, Zenon DEF Grows
  <2> QED
    BY <2>2, <2>3
<1>7. ASSUME NEW d \in Connections PROVE Progress(d)'
  <2>1. CASE d = c
    <3>1. stored[r] \in Nat
      BY <1>2 DEF IInv, Typing
    <3> QED
      BY <1>1, <1>2, <1>3, <1>4, <2>1, <3>1 DEF Progress
  <2>2. CASE d # c
    BY <1>3, <1>6, <2>2, OthersProgress
  <2> QED
    BY <2>1, <2>2
<1>8. OncePerArrival'
  <2> SUFFICES ASSUME NEW q \in Reports
               PROVE  /\ stored'[q] + Cardinality(ToStore(q)') <= arrived[q]
                      /\ pushed[q] + Cardinality(ToPush(q)') <= arrived[q]
    BY <1>1 DEF OncePerArrival
  <2>1. /\ stored[q] + Cardinality(ToStore(q)) <= arrived[q]
        /\ pushed[q] + Cardinality(ToPush(q)) <= arrived[q]
        /\ stored[q] \in Nat /\ pushed[q] \in Nat /\ arrived[q] \in Nat
    BY DEF IInv, OncePerArrival, Typing
  <2>2. ToStore(q)' \subseteq ToStore(q) /\ ToPush(q)' \subseteq ToPush(q)
    BY <1>1, <1>3 DEF ToStore, ToPush
  <2>3. /\ Cardinality(ToStore(q)') <= Cardinality(ToStore(q))
        /\ Cardinality(ToPush(q)') <= Cardinality(ToPush(q))
    BY <2>2, SetsFinite, CardSubset
  <2>4. /\ Cardinality(ToStore(q)) \in Nat /\ Cardinality(ToStore(q)') \in Nat
        /\ Cardinality(ToPush(q)) \in Nat /\ Cardinality(ToPush(q)') \in Nat
    BY SetsFinite, SetsFiniteNext
  <2>5. CASE q = r
    <3>1. c \in ToStore(q) /\ c \notin ToStore(q)'
      BY <1>1, <1>3, <2>5 DEF ToStore
    <3>2. Cardinality(ToStore(q)') + 1 <= Cardinality(ToStore(q))
      BY <2>2, <3>1, SetsFinite, CardLeave
    <3> QED
      BY <1>4, <2>1, <2>3, <2>5, <2>4, <3>2
  <2>6. CASE q # r
    BY <1>4, <2>1, <2>3, <2>6, <2>4
  <2> QED
    BY <2>5, <2>6
<1>9. OncePerHolder'
  <2> SUFFICES ASSUME faults' = 0, NEW f \in Refs
               PROVE  /\ sub[f] # "reported" => naming'[f] = 0
                      /\ naming'[f] + Cardinality(Holders(f)') <= Cardinality(Connections)
    BY <1>1 DEF OncePerHolder
  <2>1. /\ sub[f] # "reported" => naming[f] = 0
        /\ naming[f] + Cardinality(Holders(f)) <= Cardinality(Connections)
        /\ naming[f] \in Nat
    BY <1>4 DEF IInv, OncePerHolder, Typing
  <2>2. Holders(f)' \subseteq Holders(f)
    BY <1>1, <1>3 DEF Holders
  <2>3. Cardinality(Holders(f)') <= Cardinality(Holders(f))
    BY <2>2, SetsFinite, CardSubset
  <2>4. /\ Cardinality(Holders(f)) \in Nat /\ Cardinality(Holders(f)') \in Nat
        /\ Cardinality(Connections) \in Nat
    BY SetsFinite, SetsFiniteNext
  <2>5. CASE f = r.ref /\ handler[c].correlated /\ usable
    <3>1. c \in Holders(f) /\ c \notin Holders(f)'
      BY <1>1, <1>3, <2>5 DEF Holders
    <3>2. Cardinality(Holders(f)') + 1 <= Cardinality(Holders(f))
      BY <2>2, <3>1, SetsFinite, CardLeave
    <3>3. sub[f] = "reported"
      BY <1>2, <1>4, <2>5
    <3> QED
      BY <1>5, <2>1, <2>5, <2>4, <3>2, <3>3
  <2>6. CASE f # r.ref \/ ~handler[c].correlated \/ ~usable
    BY <1>5, <2>1, <2>3, <2>6, <2>4
  <2> QED
    BY <2>5, <2>6
<1>10. Acked'
  BY <1>1, <1>6, AckedKept
<1> QED
  BY <1>1, <1>6, <1>7, <1>8, <1>9, <1>10 DEF IInv

LEMMA PushInv ==
    ASSUME IInv, NEW c \in Connections, Push(c)
    PROVE  IInv'
<1> DEFINE r == handler[c].report
<1>1. /\ handler[c].pc = "push" /\ Goto(c, "answer")
      /\ UNCHANGED <<sub, stored, naming, arrived, answer, faults>>
      /\ pushed' = IF Pushable(r) THEN [pushed EXCEPT ![r] = @ + 1] ELSE pushed
      /\ StopInv' /\ UNCHANGED <<usable, late, open>>
  BY StopKept DEF Push
<1>2. /\ r \in Reports /\ r.form # "malformed"
      /\ faults = 0 /\ usable => stored[r] >= 1
      /\ handler[c].correlated => r.ref \in Refs
  BY <1>1 DEF IInv, Progress
<1>3. /\ handler' \in HandlerType
      /\ \A d \in Connections : d # c => handler'[d] = handler[d]
      /\ handler'[c].pc = "answer" /\ handler'[c].report = r
      /\ handler'[c].correlated = handler[c].correlated
  BY <1>1, GotoFacts DEF IInv, Typing
<1>4. /\ pushed' \in [Reports -> Nat]
      /\ pushed'[r] = pushed[r] \/ pushed'[r] = pushed[r] + 1
      /\ Pushable(r) => pushed'[r] = pushed[r] + 1
      /\ \A q \in Reports : q # r => pushed'[q] = pushed[q]
  <2>1. CASE Pushable(r)
    BY <1>1, <1>2, <2>1 DEF IInv, Typing
  <2>2. CASE ~Pushable(r)
    BY <1>1, <2>2 DEF IInv, Typing
  <2> QED
    BY <2>1, <2>2
<1>5. Typing' /\ Grows
  <2>1. \A q \in Reports : pushed[q] \in Nat /\ (pushed[q] >= 1 => pushed'[q] >= 1)
    BY <1>4 DEF IInv, Typing
  <2>2. Typing'
    BY <1>1, <1>3, <1>4, Zenon DEF IInv, Typing
  <2>3. Grows
    BY <1>1, <2>1, Zenon DEF Grows
  <2> QED
    BY <2>2, <2>3
<1>6. ASSUME NEW d \in Connections PROVE Progress(d)'
  <2>1. CASE d = c
    <3>1. pushed[r] \in Nat
      BY <1>2 DEF IInv, Typing
    <3>2. Pushable(r) => pushed'[r] >= 1
      BY <1>4, <3>1
    <3> QED
      BY <1>1, <1>2, <1>3, <2>1, <3>2 DEF Progress, Pushable
  <2>2. CASE d # c
    BY <1>3, <1>5, <2>2, OthersProgress
  <2> QED
    BY <2>1, <2>2
<1>7. OncePerArrival'
  <2> SUFFICES ASSUME NEW q \in Reports
               PROVE  /\ stored[q] + Cardinality(ToStore(q)') <= arrived[q]
                      /\ pushed'[q] + Cardinality(ToPush(q)') <= arrived[q]
    BY <1>1 DEF OncePerArrival
  <2>1. /\ stored[q] + Cardinality(ToStore(q)) <= arrived[q]
        /\ pushed[q] + Cardinality(ToPush(q)) <= arrived[q]
        /\ stored[q] \in Nat /\ pushed[q] \in Nat /\ arrived[q] \in Nat
    BY DEF IInv, OncePerArrival, Typing
  <2>2. ToStore(q)' \subseteq ToStore(q) /\ ToPush(q)' \subseteq ToPush(q)
    BY <1>1, <1>3 DEF ToStore, ToPush
  <2>3. /\ Cardinality(ToStore(q)') <= Cardinality(ToStore(q))
        /\ Cardinality(ToPush(q)') <= Cardinality(ToPush(q))
    BY <2>2, SetsFinite, CardSubset
  <2>4. /\ Cardinality(ToStore(q)) \in Nat /\ Cardinality(ToStore(q)') \in Nat
        /\ Cardinality(ToPush(q)) \in Nat /\ Cardinality(ToPush(q)') \in Nat
    BY SetsFinite, SetsFiniteNext
  <2>5. CASE q = r
    <3>1. c \in ToPush(q) /\ c \notin ToPush(q)'
      BY <1>1, <1>3, <2>5 DEF ToPush
    <3>2. Cardinality(ToPush(q)') + 1 <= Cardinality(ToPush(q))
      BY <2>2, <3>1, SetsFinite, CardLeave
    <3> QED
      BY <1>4, <2>1, <2>3, <2>5, <2>4, <3>2
  <2>6. CASE q # r
    BY <1>4, <2>1, <2>3, <2>6, <2>4
  <2> QED
    BY <2>5, <2>6
<1>8. OncePerHolder'
  <2>1. \A f \in Refs : Holders(f)' = Holders(f)
    BY <1>1, <1>3 DEF Holders
  <2> QED
    BY <1>1, <2>1, Zenon DEF IInv, OncePerHolder
<1>9. Acked'
  BY <1>1, <1>5, AckedKept
<1> QED
  BY <1>1, <1>5, <1>6, <1>7, <1>8, <1>9 DEF IInv

(* Fewer handlers hold a subscription than before, and no row is added. *)
LEMMA HoldersKept ==
    ASSUME IInv, UNCHANGED <<sub, naming, faults>>,
           \A f \in Refs : Holders(f)' \subseteq Holders(f)
    PROVE  OncePerHolder'
<1> SUFFICES ASSUME faults = 0, NEW f \in Refs
             PROVE  /\ sub[f] # "reported" => naming[f] = 0
                    /\ naming[f] + Cardinality(Holders(f)') <= Cardinality(Connections)
  BY DEF OncePerHolder
<1>1. Cardinality(Holders(f)') <= Cardinality(Holders(f))
  BY SetsFinite, CardSubset
<1>2. /\ sub[f] # "reported" => naming[f] = 0
      /\ naming[f] + Cardinality(Holders(f)) <= Cardinality(Connections)
      /\ naming[f] \in Nat
  BY DEF IInv, OncePerHolder, Typing
<1> QED
  BY <1>1, <1>2, SetsFinite, SetsFiniteNext

(* The answer is the last thing a handler does. *)
LEMMA AnswerInv ==
    ASSUME IInv, NEW c \in Connections, Answer(c)
    PROVE  IInv'
<1> DEFINE r == handler[c].report
<1>1. /\ handler[c].pc = "answer" /\ handler' = [handler EXCEPT ![c] = Idle]
      /\ UNCHANGED <<sub, stored, naming, pushed, arrived, faults>>
      /\ \/ c \in open /\ answer' = [answer EXCEPT ![r] = IF r.form = "sessionless" THEN @ ELSE Result(r)]
         \/ answer' = answer
      /\ StopInv' /\ UNCHANGED <<usable, late, open>>
  BY StopKept DEF Answer
<1>2. /\ r \in Reports
      /\ faults = 0 /\ usable /\ r.form # "malformed" => stored[r] >= 1
      /\ r.form # "malformed" /\ Pushable(r) => pushed[r] >= 1
  BY <1>1 DEF IInv, Progress
<1>3. /\ handler' \in HandlerType
      /\ \A d \in Connections : d # c => handler'[d] = handler[d]
      /\ handler'[c] = Idle
  <2>1. Idle \in [pc : {"idle", "find", "mark", "create", "push", "answer"},
                  report : Reports \cup {None}, correlated : BOOLEAN]
    BY DEF Idle
  <2> QED
    BY <1>1, <2>1 DEF IInv, Typing, HandlerType
<1>4. /\ answer' \in [Reports -> {"none", "success", "unable_to_comply"}]
      /\ \A q \in Reports : q # r => answer'[q] = answer[q]
      /\ answer'[r] = "success" => answer[r] = "success" \/ (r.form = "good" /\ c \in open)
  BY <1>1, <1>2, Forms DEF IInv, Typing, Result
<1>5. Typing' /\ Grows
  BY <1>1, <1>3, <1>4 DEF IInv, Typing, Grows
<1>6. ASSUME NEW d \in Connections PROVE Progress(d)'
  <2>1. CASE d = c
    BY <1>3, <2>1 DEF Progress, Idle
  <2>2. CASE d # c
    BY <1>3, <1>5, <2>2, OthersProgress
  <2> QED
    BY <2>1, <2>2
<1>7. OncePerArrival'
  <2>1. \A q \in Reports : ToStore(q)' \subseteq ToStore(q) /\ ToPush(q)' \subseteq ToPush(q)
    BY <1>3 DEF ToStore, ToPush, Idle
  <2> QED
    BY <1>1, <2>1, CountsKept
<1>8. OncePerHolder'
  <2>1. \A f \in Refs : Holders(f)' \subseteq Holders(f)
    BY <1>3 DEF Holders, Idle
  <2> QED
    BY <1>1, <2>1, HoldersKept
<1>9. Acked'
  <2> SUFFICES ASSUME NEW q \in Reports, answer'[q] = "success"
               PROVE  /\ q.form = "good"
                      /\ faults = 0 /\ ~late => stored[q] >= 1
                      /\ faults = 0 /\ Pushable(q) => pushed[q] >= 1
    BY <1>1 DEF Acked, Pushable
  <2>1. CASE answer[q] = "success"
    BY <2>1 DEF IInv, Acked
  <2>2. CASE answer[q] # "success"
    <3>1. q = r /\ r.form = "good" /\ c \in open
      BY <1>4, <2>2
    <3>2. ~late => usable
      BY <3>1 DEF IInv, StopInv
    <3> QED
      BY <1>2, <3>1, <3>2
  <2> QED
    BY <2>1, <2>2
<1> QED
  BY <1>1, <1>5, <1>6, <1>7, <1>8, <1>9 DEF IInv

LEMMA RestartInv ==
    ASSUME IInv, Restart
    PROVE  IInv'
<1>1. /\ handler' = [c \in Connections |-> Idle]
      /\ UNCHANGED <<sub, stored, naming, pushed, arrived, answer, faults, late>>
      /\ usable' = TRUE
  BY DEF Restart
<1>2. handler' \in HandlerType /\ \A c \in Connections : handler'[c] = Idle
  <2>1. Idle \in [pc : {"idle", "find", "mark", "create", "push", "answer"},
                  report : Reports \cup {None}, correlated : BOOLEAN]
    BY DEF Idle
  <2> QED
    BY <1>1, <2>1 DEF HandlerType
<1>3. Typing'
  <2>1. usable' \in BOOLEAN /\ late' \in BOOLEAN
    BY <1>1, Zenon DEF IInv, Typing
  <2> QED
    BY <1>1, <1>2, <2>1 DEF IInv, Typing
<1>4. \A c \in Connections : Progress(c)'
  BY <1>2 DEF Progress, Idle
<1>5. OncePerArrival'
  <2>1. \A q \in Reports : ToStore(q)' \subseteq ToStore(q) /\ ToPush(q)' \subseteq ToPush(q)
    BY <1>2 DEF ToStore, ToPush, Idle
  <2> QED
    BY <1>1, <2>1, CountsKept
<1>6. OncePerHolder'
  <2>1. \A f \in Refs : Holders(f)' \subseteq Holders(f)
    BY <1>2 DEF Holders, Idle
  <2> QED
    BY <1>1, <2>1, HoldersKept
<1>7. Acked'
  BY <1>1 DEF IInv, Acked, Pushable
<1>8. StopInv'
  BY <1>1 DEF StopInv
<1> QED
  BY <1>3, <1>4, <1>5, <1>6, <1>7, <1>8 DEF IInv

(* A stop moves no handler: it only takes away what they could do. *)
LEMMA CloseInv ==
    ASSUME IInv, CloseStore \/ \E c \in Connections : CloseConnection(c)
    PROVE  IInv'
<1>1. UNCHANGED <<sub, stored, naming, handler, pushed, arrived, answer, faults>>
  BY DEF CloseStore, CloseConnection
<1>2. /\ usable' \in BOOLEAN /\ late' \in BOOLEAN
      /\ (usable' => usable) /\ (late => late')
      /\ StopInv'
  <2>1. CASE CloseStore
    BY <2>1, Zenon DEF CloseStore, IInv, Typing, StopInv
  <2>2. CASE \E c \in Connections : CloseConnection(c)
    <3>1. usable' = usable /\ late' = late /\ (open = {} => open' = {})
      BY <2>2, Zenon DEF CloseConnection
    <3> QED
      BY <3>1, Zenon DEF IInv, Typing, StopInv
  <2> QED
    BY <2>1, <2>2
<1>3. Typing' /\ Grows
  BY <1>1, <1>2 DEF IInv, Typing, Grows
<1>4. \A c \in Connections : Progress(c)'
  BY <1>1, <1>3, OthersProgress
<1>5. OncePerArrival' /\ OncePerHolder'
  BY <1>1, Zenon DEF IInv, OncePerArrival, ToStore, ToPush, OncePerHolder, Holders
<1>6. Acked'
  BY <1>1, <1>3, AckedKept
<1> QED
  BY <1>2, <1>3, <1>4, <1>5, <1>6 DEF IInv

-------------------------------------------------------------------------------
(* Every step keeps the inductive invariant. *)
LEMMA NextInv == IInv /\ [Next]_vars => IInv'
<1> SUFFICES ASSUME IInv, [Next]_vars PROVE IInv'
  OBVIOUS
<1>1. ASSUME NEW f \in Refs, CreateDeferredLocationSubscription(f) PROVE IInv'
  BY <1>1, SubscribeInv
<1>2. ASSUME NEW c \in Connections, Handle(c) PROVE IInv'
  BY <1>2, FindInv, MarkInv, CreateInv, PushInv, AnswerInv DEF Handle
<1>3. ASSUME NEW c \in Connections, NEW r \in Reports, ServeDIAM(c, r) PROVE IInv'
  BY <1>3, ServeInv
<1>4. CASE UNCHANGED vars
  <2>1. UNCHANGED <<sub, stored, naming, handler, pushed, arrived, answer, faults, open, usable, late>>
    BY <1>4 DEF vars, process
  <2>2. Typing' = Typing /\ Acked' = Acked /\ StopInv' = StopInv
    BY Zenon, <2>1 DEF Typing, HandlerType, Acked, Pushable, StopInv
  <2>3. OncePerArrival' = OncePerArrival /\ OncePerHolder' = OncePerHolder
    BY Zenon, <2>1 DEF OncePerArrival, ToStore, ToPush, OncePerHolder, Holders
  <2>4. \A c \in Connections : Progress(c)' = Progress(c)
    BY Zenon, <2>1 DEF Progress, Pushable
  <2> QED
    BY Zenon, <2>2, <2>3, <2>4 DEF IInv
<1> QED
  BY <1>1, <1>2, <1>3, <1>4, RestartInv, CloseInv DEF Next

(* The inductive invariant of ServeDIAM and of the tables it writes. *)
THEOREM Invariance == Spec => []IInv
  BY InitInv, NextInv, PTL DEF Spec

(* For any connections and reports: what ServeDIAM acknowledged it has     *)
(* stored and pushed before, also when main's stop overtakes it within its *)
(* deadline, and it stores and pushes nothing twice for one arrival.       *)
THEOREM AckedReportsKept == Spec => []AckedIsKept
<1>1. IInv => AckedIsKept
  <2> SUFFICES ASSUME IInv, NEW r \in Reports
               PROVE  /\ answer[r] = "success" /\ faults = 0 /\ ~late =>
                            /\ r.form = "good"
                            /\ stored[r] >= 1
                            /\ Pushable(r) => pushed[r] >= 1
                      /\ pushed[r] <= arrived[r] /\ stored[r] <= arrived[r]
    BY DEF AckedIsKept
  <2>1. answer[r] = "success" /\ faults = 0 /\ ~late =>
            r.form = "good" /\ stored[r] >= 1 /\ (Pushable(r) => pushed[r] >= 1)
    BY DEF IInv, Acked
  <2>2. /\ stored[r] + Cardinality(ToStore(r)) <= arrived[r]
        /\ pushed[r] + Cardinality(ToPush(r)) <= arrived[r]
        /\ stored[r] \in Nat /\ pushed[r] \in Nat /\ arrived[r] \in Nat
    BY DEF IInv, OncePerArrival, Typing
  <2>3. pushed[r] <= arrived[r] /\ stored[r] <= arrived[r]
    BY <2>2, SetsFinite
  <2> QED
    BY <2>1, <2>3
<1> QED
  BY <1>1, Invariance, PTL

(* MarkDeferredLocationSubscriptionReported comes before                   *)
(* CreateLocationReport: however many connections report at once, at most  *)
(* one row for each names the subscription, and it is reported by then.    *)
THEOREM CorrelationOnce == Spec => []CorrelationConsumed
<1>1. IInv => CorrelationConsumed
  <2> SUFFICES ASSUME IInv, faults = 0, NEW f \in Refs
               PROVE  /\ naming[f] > 0 => sub[f] = "reported"
                      /\ naming[f] <= Cardinality(Connections)
    BY DEF CorrelationConsumed
  <2>1. /\ sub[f] # "reported" => naming[f] = 0
        /\ naming[f] + Cardinality(Holders(f)) <= Cardinality(Connections)
        /\ naming[f] \in Nat
    BY DEF IInv, OncePerHolder, Typing
  <2> QED
    BY <2>1, SetsFinite
<1> QED
  BY <1>1, Invariance, PTL
===============================================================================
