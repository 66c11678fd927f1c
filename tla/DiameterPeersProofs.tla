-------------------------- MODULE DiameterPeersProofs --------------------------
(***************************************************************************)
(* The safety of the Diameter boundary, for any number of peers, callers   *)
(* and connections, any capabilities and any requests: the routing table   *)
(* follows the live connections, a request gets one result at most and no  *)
(* caller is forgotten, and a stopped manager leaves nothing behind.       *)
(*                                                                         *)
(* The invariant says, for each place of a manager's loop, which of its    *)
(* connections are still alive (Links), what the manager and the table     *)
(* say of the last one (Managers, Entries), and, for each place of a       *)
(* RoundTrip, which pending entry is its own and what is in its channel    *)
(* (Calls, OwnIds, Owned).                                                 *)
(***************************************************************************)
EXTENDS DiameterPeers, TLAPS

ManagerType == [pc : {"check", "connect", "dial", "dialled", "publish", "up", "lost",
                      "closing", "backoff", "done"},
                state : {"down", "connecting", "ready", "stopping"},
                rt : 0..MaxConnections, delay : ReconnectMin..ReconnectMax,
                stop : BOOLEAN]

LinkType == [open : BOOLEAN, closed : BOOLEAN, loss : Errors \cup {"none"},
             drained : BOOLEAN, cap : Capabilities, seq : Nat,
             pending : SUBSET Nat, held : SUBSET Nat, sent : SUBSET Nat]

EntryType(C) == [peer : Peers, gen : Nat, ready : BOOLEAN, cap : C]

CallType == [pc : {"idle", "routed", "taken", "writing", "waiting"},
             peer : 0..NPeers, gen : 0..MaxConnections, id : Nat,
             box : Seq(Errors \cup {"answer"}), calls : 0..MaxCalls]

Typing ==
    /\ mgr \in [Peers -> ManagerType]
    /\ conn \in [Peers -> Seq(LinkType)]
    /\ \A p \in Peers : Generation(p) <= MaxConnections
    /\ call \in [Callers -> CallType]
    /\ closing \in BOOLEAN

(* The table is a sequence with at most one entry per manager. *)
Tabled ==
    /\ \E C : table \in Seq(EntryType(C))
    /\ \A i, j \in DOMAIN table : table[i].peer = table[j].peer => i = j

(* The places of the loop at which the last connection may be alive *)
Alive == {"dialled", "publish", "up", "closing"}

LinkInv(p, g) ==
    /\ conn[p][g].closed => ~conn[p][g].open /\ conn[p][g].loss \in Errors
    /\ conn[p][g].drained => conn[p][g].closed
    /\ conn[p][g].pending \cup conn[p][g].held \subseteq 1..conn[p][g].seq
    /\ conn[p][g].pending \cap conn[p][g].held = {}
    /\ g < Generation(p) => conn[p][g].closed
    /\ mgr[p].pc \notin Alive => conn[p][g].closed

Links == \A p \in Peers : \A g \in DOMAIN conn[p] : LinkInv(p, g)

ManagerInv(p) ==
    /\ mgr[p].pc \in Alive \cup {"lost"} => Generation(p) >= 1
    /\ mgr[p].rt <= Generation(p)
    /\ mgr[p].state = "ready" =>
        mgr[p].pc \in {"publish", "up", "closing", "done"} /\ mgr[p].rt = Generation(p)

Managers == \A p \in Peers : ManagerInv(p)

EntryInv(x) ==
    /\ x.gen <= Generation(x.peer)
    /\ x.ready => /\ mgr[x.peer].pc \in {"up", "lost", "closing"}
                  /\ x.gen = Generation(x.peer)
                  /\ x.cap = conn[x.peer][x.gen].cap

Entries == \A i \in DOMAIN table : EntryInv(table[i])

Enqueued(c) == call[c].pc \in {"writing", "waiting"}

(* The requests of a connection whose result has not been sent *)
Awaited(p, g) == conn[p][g].pending \cup conn[p][g].held

CallInv(c) ==
    /\ call[c].pc # "idle" => call[c].peer \in Peers
    /\ call[c].pc = "taken" \/ Enqueued(c) => call[c].gen \in DOMAIN conn[call[c].peer]
    /\ Enqueued(c) =>
        /\ call[c].id \in 1..Link(c).seq
        /\ call[c].id \in Awaited(call[c].peer, call[c].gen) <=> call[c].box = <<>>
    /\ ~Enqueued(c) => call[c].box = <<>>
    /\ Len(call[c].box) <= 1

Calls == \A c \in Callers : CallInv(c)

(* Callers on the same connection have different hop-by-hop ids. *)
OwnIds ==
    \A c, d \in Callers :
        (c # d /\ Enqueued(c) /\ On(d, call[c].peer, call[c].gen)) => call[c].id # call[d].id

(* A pending entry belongs to a caller. *)
Owned ==
    \A p \in Peers : \A g \in DOMAIN conn[p] : \A id \in conn[p][g].pending :
        \E c \in Callers : On(c, p, g) /\ call[c].id = id

IInv ==
    /\ Typing
    /\ Tabled
    /\ Links
    /\ Managers
    /\ Entries
    /\ Calls
    /\ OwnIds
    /\ Owned

-------------------------------------------------------------------------------
(* What the steps change *)

USE DEF Errors

(* Only the manager of p moves. *)
ManagerFrame(p) ==
    /\ mgr' \in [Peers -> ManagerType]
    /\ \A q \in Peers : q # p => mgr'[q] = mgr[q]

(* Only the connection g of p changes, and not its capabilities. *)
LinkFrame(p, g) ==
    /\ conn' \in [Peers -> Seq(LinkType)]
    /\ \A q \in Peers : Len(conn'[q]) = Len(conn[q])
    /\ \A q \in Peers : \A h \in DOMAIN conn[q] :
        (q # p \/ h # g) => conn'[q][h] = conn[q][h]
    /\ conn'[p][g].cap = conn[p][g].cap

LEMMA SeqOfFunction ==
    ASSUME NEW S, NEW n \in Nat, NEW f \in [1..n -> S]
    PROVE  f \in Seq(S)
OBVIOUS

LEMMA SeqMonotonic ==
    ASSUME NEW S, NEW T, S \subseteq T, NEW s \in Seq(S)
    PROVE  s \in Seq(T)
<1>1. Len(s) \in Nat /\ s \in [1..Len(s) -> T]
  OBVIOUS
<1>. QED
  BY <1>1, SeqOfFunction

LEMMA ExceptSeq ==
    ASSUME NEW S, NEW s \in Seq(S), NEW i \in 1..Len(s), NEW e \in S
    PROVE  /\ [s EXCEPT ![i] = e] \in Seq(S)
           /\ Len([s EXCEPT ![i] = e]) = Len(s)
OBVIOUS

LEMMA Domains ==
    ASSUME conn \in [Peers -> Seq(LinkType)], NEW p \in Peers
    PROVE  /\ Generation(p) \in Nat
           /\ DOMAIN conn[p] = 1..Generation(p)
           /\ \A g \in DOMAIN conn[p] : conn[p][g] \in LinkType
BY DEF Generation

(* A connection replaced by another value of its type *)
Replaces(p, g, l) == conn' = [conn EXCEPT ![p] = [conn[p] EXCEPT ![g] = l]]

LEMMA ReplaceLink ==
    ASSUME IInv, NEW p \in Peers, NEW g \in DOMAIN conn[p], NEW l \in LinkType,
           l.cap = conn[p][g].cap, Replaces(p, g, l)
    PROVE  LinkFrame(p, g) /\ conn'[p][g] = l
<1>. conn \in [Peers -> Seq(LinkType)]
  BY DEF IInv, Typing
<1>1. [conn[p] EXCEPT ![g] = l] \in Seq(LinkType)
  BY ExceptSeq
<1>2. Len([conn[p] EXCEPT ![g] = l]) = Len(conn[p])
  BY ExceptSeq
<1>. QED
  BY <1>1, <1>2 DEF LinkFrame, Replaces

LEMMA InitInv == Init => IInv
<1>. SUFFICES ASSUME Init PROVE IInv
  OBVIOUS
<1>1. Typing
  <2>1. mgr \in [Peers -> ManagerType]
    BY PeersAssumption DEF Init, ManagerType
  <2>2. conn \in [Peers -> Seq(LinkType)] /\ \A p \in Peers : Generation(p) <= MaxConnections
    BY PeersAssumption DEF Init, Generation
  <2>3. NoCall \in CallType
    BY PeersAssumption DEF CallType, NoCall
  <2>. QED
    BY <2>1, <2>2, <2>3, Zenon DEF Init, Typing
<1>2. Tabled
  <2>1. table \in Seq(EntryType({}))
    BY DEF Init
  <2>. QED
    BY <2>1 DEF Init, Tabled
<1>3. Links /\ Managers /\ Entries /\ Calls /\ OwnIds /\ Owned
  BY DEF Init, Links, Managers, ManagerInv, Entries, Calls, CallInv, OwnIds, Owned, Enqueued,
         Generation, NoCall, On, Alive
<1>. QED
  BY <1>1, <1>2, <1>3 DEF IInv

-------------------------------------------------------------------------------
(* The loop of a manager *)

LEMMA TableTyped ==
    ASSUME IInv, NEW i \in DOMAIN table
    PROVE  /\ table[i].peer \in Peers
           /\ table[i].gen \in Nat
           /\ table[i].ready \in BOOLEAN
<1>1. PICK C : table \in Seq(EntryType(C))
  BY DEF IInv, Tabled
<1>2. table[i] \in EntryType(C)
  BY <1>1
<1>. QED
  BY <1>2 DEF EntryType

(* A step of a manager that leaves the connections, the table and the      *)
(* calls alone *)
LEMMA ManagerStep ==
    ASSUME IInv, NEW p \in Peers, ManagerFrame(p), UNCHANGED <<conn, table, call>>,
           closing' \in BOOLEAN,
           mgr'[p].pc \in Alive \/ \A g \in DOMAIN conn[p] : conn[p][g].closed,
           ManagerInv(p)',
           \A i \in DOMAIN table :
               (table[i].peer = p /\ table[i].ready) => mgr'[p].pc \in {"up", "lost", "closing"}
    PROVE  IInv'
<1>1. Typing'
  BY DEF IInv, Typing, ManagerFrame, Generation
<1>2. Tabled'
  BY DEF IInv, Tabled
<1>3. Links'
  BY DEF IInv, Links, LinkInv, ManagerFrame, Generation
<1>4. Managers'
  BY DEF IInv, Managers, ManagerInv, ManagerFrame, Generation
<1>5. Entries'
  <2>. SUFFICES ASSUME NEW i \in DOMAIN table PROVE EntryInv(table[i])'
    BY DEF Entries
  <2>1. table[i].peer \in Peers
    BY TableTyped
  <2>. QED
    BY <2>1 DEF IInv, Entries, EntryInv, ManagerFrame, Generation
<1>6. Calls' /\ OwnIds' /\ Owned'
  BY DEF IInv, Calls, CallInv, OwnIds, Owned, Enqueued, On, Link, Awaited
<1>. QED
  BY <1>1, <1>2, <1>3, <1>4, <1>5, <1>6 DEF IInv

(* At the places without a connection, every connection is closed and no   *)
(* entry of the manager is ready.                                          *)
LEMMA NotAlive ==
    ASSUME IInv, NEW p \in Peers
    PROVE  /\ mgr[p].pc \notin Alive => \A g \in DOMAIN conn[p] : conn[p][g].closed
           /\ mgr[p].pc \notin {"up", "lost", "closing"} =>
                \A i \in DOMAIN table : table[i].peer = p => ~table[i].ready
BY DEF IInv, Links, LinkInv, Entries, EntryInv

LEMMA ManagerTyped ==
    ASSUME IInv, NEW p \in Peers
    PROVE  /\ mgr \in [Peers -> ManagerType]
           /\ mgr[p] \in ManagerType
           /\ Generation(p) \in 0..MaxConnections
           /\ closing \in BOOLEAN
           /\ ManagerInv(p)
BY Domains DEF IInv, Typing, Managers

LEMMA GotoFrame ==
    ASSUME IInv, NEW p \in Peers, NEW pc, Goto(p, pc),
           pc \in {"check", "connect", "dial", "dialled", "publish", "up", "lost",
                   "closing", "backoff", "done"}
    PROVE  /\ ManagerFrame(p)
           /\ mgr'[p].pc = pc
           /\ mgr'[p].state = mgr[p].state
           /\ mgr'[p].rt = mgr[p].rt
BY ManagerTyped DEF Goto, ManagerFrame, ManagerType

LEMMA CheckInv == ASSUME IInv, NEW p \in Peers, Check(p) PROVE IInv'
<1>1. PICK pc \in {"done", "connect"} : Goto(p, pc)
  BY DEF Check
<1>2. ManagerInv(p)'
  BY <1>1, GotoFrame, ManagerTyped DEF Check, ManagerInv, Generation, Alive
<1>. QED
  BY <1>1, <1>2, GotoFrame, ManagerTyped, NotAlive, ManagerStep DEF Check, Alive

LEMMA SetConnectingInv == ASSUME IInv, NEW p \in Peers, SetConnecting(p) PROVE IInv'
<1>1. /\ ManagerFrame(p)
      /\ mgr'[p].pc = "dial"
      /\ mgr'[p].state = "connecting"
      /\ mgr'[p].rt = 0
  BY ManagerTyped, PeersAssumption DEF SetConnecting, ManagerFrame, ManagerType
<1>2. ManagerInv(p)'
  BY <1>1, ManagerTyped DEF SetConnecting, ManagerInv, Generation, Alive
<1>. QED
  BY <1>1, <1>2, ManagerTyped, NotAlive, ManagerStep DEF SetConnecting, Alive

LEMMA DialFailsInv == ASSUME IInv, NEW p \in Peers, DialFails(p) PROVE IInv'
<1>1. ManagerInv(p)'
  BY GotoFrame, ManagerTyped DEF DialFails, ManagerInv, Generation, Alive
<1>. QED
  BY <1>1, GotoFrame, ManagerTyped, NotAlive, ManagerStep DEF DialFails, Alive

LEMMA SetReadyInv == ASSUME IInv, NEW p \in Peers, SetReady(p) PROVE IInv'
<1>1. /\ ManagerFrame(p)
      /\ mgr'[p].pc = "publish"
      /\ mgr'[p].state = "ready"
      /\ mgr'[p].rt = Generation(p)
  BY ManagerTyped, PeersAssumption DEF SetReady, ManagerFrame, ManagerType
<1>2. ManagerInv(p)'
  BY <1>1, ManagerTyped DEF SetReady, ManagerInv, Generation, Alive
<1>. QED
  BY <1>1, <1>2, ManagerTyped, NotAlive, ManagerStep DEF SetReady, Alive

LEMMA LostInv == ASSUME IInv, NEW p \in Peers, Lost(p) PROVE IInv'
<1>1. /\ ManagerFrame(p)
      /\ mgr'[p].pc = "lost"
      /\ mgr'[p].state = "down"
      /\ mgr'[p].rt = 0
  BY ManagerTyped, PeersAssumption DEF Lost, ManagerFrame, ManagerType
<1>2. ManagerInv(p)'
  BY <1>1, ManagerTyped DEF Lost, ManagerInv, Generation, Alive
<1>3. \A g \in DOMAIN conn[p] : conn[p][g].closed
  BY Domains DEF Lost, IInv, Typing, Links, LinkInv
<1>. QED
  BY <1>1, <1>2, <1>3, ManagerTyped, ManagerStep DEF Lost

LEMMA BackoffInv == ASSUME IInv, NEW p \in Peers, Backoff(p) PROVE IInv'
<1>1. /\ ManagerFrame(p)
      /\ mgr'[p].pc \in {"check", "done"}
      /\ mgr'[p].state = mgr[p].state
      /\ mgr'[p].rt = mgr[p].rt
  <2>1. CASE Goto(p, "done")
    BY <2>1, GotoFrame
  <2>2. CASE ~Goto(p, "done")
    <3>1. PICK d \in ReconnectMin..ReconnectMax :
            mgr' = [mgr EXCEPT ![p].pc = "check", ![p].delay = d]
      BY <2>2, ManagerTyped, PeersAssumption DEF Backoff, ManagerType
    <3>. QED
      BY <3>1, ManagerTyped DEF ManagerFrame, ManagerType
  <2>. QED
    BY <2>1, <2>2
<1>2. ManagerInv(p)'
  BY <1>1, ManagerTyped DEF Backoff, ManagerInv, Generation, Alive
<1>. QED
  BY <1>1, <1>2, ManagerTyped, NotAlive, ManagerStep DEF Backoff, Alive

LEMMA ManagerCloseInv == ASSUME IInv, NEW p \in Peers, ManagerClose(p) PROVE IInv'
<1>1. /\ ManagerFrame(p)
      /\ mgr'[p].pc = mgr[p].pc
      /\ mgr'[p].state = "stopping"
      /\ mgr'[p].rt = 0
  <2>1. 0 \in 0..MaxConnections
    BY PeersAssumption
  <2>2. [mgr[p] EXCEPT !.stop = TRUE, !.state = "stopping", !.rt = 0] \in ManagerType
    BY <2>1, ManagerTyped, Zenon DEF ManagerType
  <2>3. mgr' = [mgr EXCEPT ![p] = [mgr[p] EXCEPT !.stop = TRUE, !.state = "stopping", !.rt = 0]]
    BY ManagerTyped, Zenon DEF ManagerClose
  <2>. QED
    BY <2>2, <2>3, ManagerTyped DEF ManagerFrame, ManagerType
<1>2. ManagerInv(p)'
  BY <1>1, ManagerTyped DEF ManagerClose, ManagerInv, Generation, Alive
<1>. QED
  BY <1>1, <1>2, ManagerTyped, NotAlive, ManagerStep DEF ManagerClose, Alive

-------------------------------------------------------------------------------
(* The routing table *)

(* A step of a manager that changes its own entry of the table *)
LEMMA TableStep ==
    ASSUME IInv, NEW p \in Peers, ManagerFrame(p), UNCHANGED <<conn, call, closing>>,
           mgr'[p].pc \in Alive \/ \A g \in DOMAIN conn[p] : conn[p][g].closed,
           ManagerInv(p)',
           Tabled',
           Entries'
    PROVE  IInv'
<1>1. Typing'
  BY DEF IInv, Typing, ManagerFrame, Generation
<1>2. Links'
  BY DEF IInv, Links, LinkInv, ManagerFrame, Generation
<1>3. Managers'
  BY SMTT(20) DEF IInv, Managers, ManagerInv, ManagerFrame, Generation
<1>4. Calls' /\ OwnIds' /\ Owned'
  BY DEF IInv, Calls, CallInv, OwnIds, Owned, Enqueued, On, Link, Awaited
<1>. QED
  BY <1>1, <1>2, <1>3, <1>4 DEF IInv

(* Upsert replaces the entry of p or adds it, and keeps the others. *)
LEMMA UpsertEntries ==
    ASSUME NEW C, table \in Seq(EntryType(C)), NEW p \in Peers,
           NEW e \in EntryType(C), e.peer = p,
           \A i, j \in DOMAIN table : table[i].peer = table[j].peer => i = j,
           \A i \in DOMAIN table : table[i].peer = p => table[i].gen <= e.gen
    PROVE  /\ Upsert(p, e) \in Seq(EntryType(C))
           /\ \A i \in DOMAIN Upsert(p, e) :
                \/ Upsert(p, e)[i] = e
                \/ i \in DOMAIN table /\ Upsert(p, e)[i] = table[i] /\ table[i].peer # p
           /\ \A i, j \in DOMAIN Upsert(p, e) :
                Upsert(p, e)[i].peer = Upsert(p, e)[j].peer => i = j
<1>1. CASE \E i \in DOMAIN table : table[i].peer = p
  <2>. DEFINE t == [i \in DOMAIN table |->
                      IF table[i].peer = p /\ table[i].gen <= e.gen THEN e ELSE table[i]]
  <2>1. Upsert(p, e) = t
    BY <1>1 DEF Upsert
  <2>2. DOMAIN t = DOMAIN table /\ \A i \in DOMAIN t : t[i] = IF table[i].peer = p THEN e ELSE table[i]
    OBVIOUS
  <2>3. t \in [1..Len(table) -> EntryType(C)]
    OBVIOUS
  <2>4. t \in Seq(EntryType(C))
    BY <2>3
  <2>. HIDE DEF t
  <2>. QED
    BY <2>1, <2>2, <2>4
<1>2. CASE ~\E i \in DOMAIN table : table[i].peer = p
  BY <1>2 DEF Upsert
<1>. QED
  BY <1>1, <1>2

LEMMA Published ==
    ASSUME NEW m \in ManagerType
    PROVE  LET k == [m EXCEPT !.pc = "up", !.delay = ReconnectMin]
           IN  k \in ManagerType /\ k.pc = "up" /\ k.state = m.state /\ k.rt = m.rt
<1>1. ReconnectMin \in ReconnectMin..ReconnectMax
  BY PeersAssumption
<1>. QED
  BY <1>1, Zenon DEF ManagerType

LEMMA PublishInv == ASSUME IInv, NEW p \in Peers, Publish(p) PROVE IInv'
<1>. DEFINE e == [peer |-> p, gen |-> Generation(p), ready |-> TRUE,
                  cap |-> conn[p][Generation(p)].cap]
<1>1. PICK C : table \in Seq(EntryType(C))
  BY DEF IInv, Tabled
<1>. DEFINE D == C \cup {e.cap}
<1>2. table \in Seq(EntryType(D))
  <2>1. EntryType(C) \subseteq EntryType(D)
    BY DEF EntryType
  <2>. QED
    BY <1>1, <2>1, SeqMonotonic, Zenon
<1>3. e \in EntryType(D) /\ e.peer = p
  <2>1. Generation(p) \in Nat
    BY ManagerTyped, PeersAssumption
  <2>. QED
    BY <2>1 DEF EntryType
<1>4. \A i \in DOMAIN table : table[i].peer = p => table[i].gen <= Generation(p)
  BY DEF IInv, Entries, EntryInv
<1>5. e.gen = Generation(p) /\ e.cap = conn[p][Generation(p)].cap
  OBVIOUS
<1>6. table' = Upsert(p, e)
  BY DEF Publish
<1>7. \A i, j \in DOMAIN table : table[i].peer = table[j].peer => i = j
  BY DEF IInv, Tabled
<1>. HIDE DEF e, D
<1>8. /\ table' \in Seq(EntryType(D))
      /\ \A i \in DOMAIN table' :
           table'[i] = e \/ (i \in DOMAIN table /\ table'[i] = table[i] /\ table[i].peer # p)
      /\ \A i, j \in DOMAIN table' : table'[i].peer = table'[j].peer => i = j
  BY <1>2, <1>3, <1>4, <1>5, <1>6, <1>7, UpsertEntries
<1>9. /\ ManagerFrame(p)
      /\ mgr'[p].pc = "up"
      /\ mgr'[p].state = mgr[p].state
      /\ mgr'[p].rt = mgr[p].rt
  <2>1. PICK m \in ManagerType :
          /\ m = [mgr[p] EXCEPT !.pc = "up", !.delay = ReconnectMin]
          /\ m.pc = "up" /\ m.state = mgr[p].state /\ m.rt = mgr[p].rt
    BY ManagerTyped, Published, Zenon
  <2>2. mgr \in [Peers -> ManagerType] /\ mgr' = [mgr EXCEPT ![p] = m]
    BY <2>1, ManagerTyped, Zenon DEF Publish, ManagerType
  <2>. QED
    BY <2>1, <2>2, Zenon DEF ManagerFrame
<1>10. ManagerInv(p)'
  BY <1>9, ManagerTyped DEF Publish, ManagerInv, Generation, Alive
<1>11. Tabled'
  BY <1>8 DEF Tabled
<1>12. Entries'
  <2>. SUFFICES ASSUME NEW i \in DOMAIN table' PROVE EntryInv(table[i])'
    BY DEF Entries
  <2>1. CASE table'[i] = e
    <3>1. conn' = conn /\ Generation(p)' = Generation(p) /\ Generation(p) \in Nat
      BY ManagerTyped, PeersAssumption DEF Publish, Generation
    <3>2. e.gen <= Generation(p)
      BY <1>5, <3>1
    <3>. QED
      BY <2>1, <1>3, <1>5, <1>9, <3>1, <3>2, Zenon DEF EntryInv, Generation
  <2>2. CASE i \in DOMAIN table /\ table'[i] = table[i] /\ table[i].peer # p
    <3>1. EntryInv(table[i]) /\ table[i].peer \in Peers
      BY <2>2, TableTyped DEF IInv, Entries
    <3>2. UNCHANGED conn
      BY DEF Publish
    <3>. QED
      BY <2>2, <3>1, <3>2, <1>9 DEF EntryInv, Generation, ManagerFrame
  <2>. QED
    BY <2>1, <2>2, <1>8
<1>. QED
  BY <1>9, <1>10, <1>11, <1>12, TableStep, Zenon DEF Publish, Alive

(* Remove keeps which manager and generation an entry is of. *)
LEMMA RemoveEntries ==
    ASSUME NEW C, table \in Seq(EntryType(C)), NEW p \in Peers, NEW gen \in Nat
    PROVE  /\ \E D : Remove(p, gen) \in Seq(EntryType(D))
           /\ DOMAIN Remove(p, gen) = DOMAIN table
           /\ \A i \in DOMAIN table :
                /\ Remove(p, gen)[i].peer = table[i].peer
                /\ Remove(p, gen)[i].gen = table[i].gen
                /\ table[i].peer = p /\ table[i].gen = gen => ~Remove(p, gen)[i].ready
                /\ ~(table[i].peer = p /\ table[i].gen = gen) => Remove(p, gen)[i] = table[i]
<1>. DEFINE D == C \cup {[c EXCEPT !.apps = {}] : c \in C}
<1>1. \A i \in DOMAIN table : table[i] \in EntryType(C)
  OBVIOUS
<1>2. ASSUME NEW i \in DOMAIN table
      PROVE  /\ [table[i] EXCEPT !.ready = FALSE, !.cap.apps = {}] \in EntryType(D)
             /\ [table[i] EXCEPT !.ready = FALSE, !.cap.apps = {}].peer = table[i].peer
             /\ [table[i] EXCEPT !.ready = FALSE, !.cap.apps = {}].gen = table[i].gen
             /\ ~[table[i] EXCEPT !.ready = FALSE, !.cap.apps = {}].ready
  <2>1. table[i] \in EntryType(C)
    BY <1>1
  <2>2. PICK c \in C : c = table[i].cap
    BY <2>1 DEF EntryType
  <2>. QED
    BY <2>1, <2>2, Zenon DEF EntryType
<1>3. EntryType(C) \subseteq EntryType(D)
  BY DEF EntryType
<1>. HIDE DEF D
<1>4. Remove(p, gen) \in Seq(EntryType(D))
  <2>1. DOMAIN table = 1..Len(table) /\ Len(table) \in Nat
    OBVIOUS
  <2>2. Remove(p, gen) \in [DOMAIN table -> EntryType(D)]
    BY <1>1, <1>2, <1>3, Zenon DEF Remove
  <2>. QED
    BY <2>1, <2>2, SeqOfFunction
<1>5. \A i \in DOMAIN table :
        Remove(p, gen)[i] = IF table[i].peer = p /\ table[i].gen = gen
                            THEN [table[i] EXCEPT !.ready = FALSE, !.cap.apps = {}] ELSE table[i]
  BY DEF Remove
<1>. QED
  BY <1>2, <1>4, <1>5, Zenon DEF Remove

LEMMA WithdrawInv == ASSUME IInv, NEW p \in Peers, Withdraw(p) PROVE IInv'
<1>1. PICK C : table \in Seq(EntryType(C))
  BY DEF IInv, Tabled
<1>2. /\ \E D : table' \in Seq(EntryType(D))
      /\ DOMAIN table' = DOMAIN table
      /\ \A i \in DOMAIN table :
           /\ table'[i].peer = table[i].peer
           /\ table'[i].gen = table[i].gen
           /\ table[i].peer = p /\ table[i].gen = Generation(p) => ~table'[i].ready
           /\ ~(table[i].peer = p /\ table[i].gen = Generation(p)) => table'[i] = table[i]
  <2>1. Generation(p) \in Nat
    BY ManagerTyped, PeersAssumption
  <2>2. table' = Remove(p, Generation(p))
    BY DEF Withdraw
  <2>. QED
    BY <1>1, <2>1, <2>2, RemoveEntries, Zenon
<1>3. PICK pc \in {"check", "done"} :
        /\ Goto(p, pc)
        /\ mgr[p].pc \in {"lost", "closing"}
        /\ mgr[p].pc = "closing" => conn[p][Generation(p)].drained
        /\ pc = "check" => mgr[p].pc = "lost"
  BY Zenon DEF Withdraw
<1>4. /\ ManagerFrame(p)
      /\ mgr'[p].pc = pc
      /\ mgr'[p].state = mgr[p].state
      /\ mgr'[p].rt = mgr[p].rt
  BY <1>3, GotoFrame
<1>5. \A g \in DOMAIN conn[p] : conn[p][g].closed
  BY <1>3, Domains DEF IInv, Typing, Links, LinkInv, Alive
<1>6. ManagerInv(p)'
  BY <1>3, <1>4, ManagerTyped DEF Withdraw, ManagerInv, Generation, Alive
<1>7. Tabled'
  BY <1>2 DEF IInv, Tabled
<1>8. Entries'
  <2>. SUFFICES ASSUME NEW i \in DOMAIN table PROVE EntryInv(table[i])'
    BY <1>2 DEF Entries
  <2>1. EntryInv(table[i]) /\ table[i].peer \in Peers
    BY TableTyped DEF IInv, Entries
  <2>2. CASE table[i].peer = p
    BY <2>1, <2>2, <1>2 DEF EntryInv, Withdraw, Generation
  <2>3. CASE table[i].peer # p
    BY <2>1, <2>3, <1>2, <1>4 DEF EntryInv, Withdraw, Generation, ManagerFrame
  <2>. QED
    BY <2>2, <2>3
<1>. QED
  BY <1>4, <1>5, <1>6, <1>7, <1>8, TableStep DEF Withdraw

-------------------------------------------------------------------------------
(* The connections *)

LEMMA DialSucceedsInv ==
    ASSUME IInv, NEW p \in Peers, NEW capability \in Capabilities, DialSucceeds(p, capability)
    PROVE  IInv'
<1>. DEFINE l == Connected(capability)
<1>1. l \in LinkType
  BY DEF Connected, LinkType
<1>2. /\ ~l.closed /\ ~l.drained
      /\ l.pending = {} /\ l.held = {}
  BY DEF Connected
<1>. HIDE DEF l
<1>3. conn \in [Peers -> Seq(LinkType)]
  BY DEF IInv, Typing
<1>4. conn' = [conn EXCEPT ![p] = Append(conn[p], l)]
  BY DEF DialSucceeds, l
<1>5. /\ conn' \in [Peers -> Seq(LinkType)]
      /\ Generation(p)' = Generation(p) + 1
      /\ conn'[p][Generation(p) + 1] = l
      /\ \A g \in DOMAIN conn[p] : conn'[p][g] = conn[p][g]
      /\ \A q \in Peers : q # p => conn'[q] = conn[q]
  BY <1>1, <1>3, <1>4 DEF Generation
<1>6. \A q \in Peers :
        /\ Generation(q) \in Nat /\ Generation(q)' \in Nat
        /\ DOMAIN conn[q] = 1..Generation(q)
        /\ DOMAIN conn'[q] = 1..Generation(q)'
  BY <1>3, <1>5, Domains DEF Generation
<1>7. \A q \in Peers : q # p => Generation(q)' = Generation(q)
  BY <1>5 DEF Generation
<1>8. Generation(p) + 1 <= MaxConnections
  BY <1>6, PeersAssumption DEF DialSucceeds
<1>9. /\ ManagerFrame(p)
      /\ mgr'[p].pc = "dialled"
      /\ mgr'[p].state = mgr[p].state
      /\ mgr'[p].rt = mgr[p].rt
      /\ mgr[p].pc = "dial"
  BY GotoFrame DEF DialSucceeds
<1>10. Typing'
  BY <1>5, <1>7, <1>8, <1>9, Zenon DEF IInv, Typing, ManagerFrame, DialSucceeds
<1>11. Tabled'
  BY DEF IInv, Tabled, DialSucceeds
<1>12. Links'
  <2>. SUFFICES ASSUME NEW q \in Peers, NEW g \in DOMAIN conn'[q] PROVE LinkInv(q, g)'
    BY DEF Links
  <2>1. CASE q # p
    BY <2>1, <1>5, <1>7, <1>9 DEF IInv, Links, LinkInv, ManagerFrame
  <2>2. CASE q = p /\ g \in DOMAIN conn[p]
    <3>1. LinkInv(p, g) /\ conn[p][g].closed
      BY <2>2, <1>9, NotAlive DEF IInv, Links, Alive
    <3>. QED
      BY <2>2, <3>1, <1>5 DEF LinkInv
  <2>3. CASE q = p /\ g \notin DOMAIN conn[p]
    <3>1. g = Generation(p)' /\ conn'[p][g] = l
      BY <2>3, <1>5, <1>6
    <3>. QED
      BY <2>3, <3>1, <1>2, <1>6, <1>9 DEF LinkInv, Alive
  <2>. QED
    BY <2>1, <2>2, <2>3
<1>13. Managers'
  <2>. SUFFICES ASSUME NEW q \in Peers PROVE ManagerInv(q)'
    BY DEF Managers
  <2>1. CASE q = p
    <3>1. mgr[p].rt \in Nat
      BY ManagerTyped, PeersAssumption DEF ManagerType
    <3>2. ManagerInv(p)
      BY ManagerTyped
    <3>. QED
      BY <2>1, <3>1, <3>2, <1>5, <1>6, <1>9 DEF ManagerInv
  <2>2. CASE q # p
    BY <2>2, <1>7, <1>9 DEF IInv, Managers, ManagerInv, ManagerFrame
  <2>. QED
    BY <2>1, <2>2
<1>14. Entries'
  <2>. SUFFICES ASSUME NEW i \in DOMAIN table PROVE EntryInv(table[i])'
    BY DEF Entries, DialSucceeds
  <2>1. EntryInv(table[i]) /\ table[i].peer \in Peers /\ table[i].gen \in Nat /\ table' = table
    BY TableTyped DEF IInv, Entries, DialSucceeds
  <2>2. CASE table[i].peer = p
    BY <2>1, <2>2, <1>5, <1>6, <1>9 DEF EntryInv
  <2>3. CASE table[i].peer # p
    BY <2>1, <2>3, <1>5, <1>7, <1>9 DEF EntryInv, ManagerFrame
  <2>. QED
    BY <2>2, <2>3
<1>15. \A q \in Peers : \A g \in DOMAIN conn[q] : g \in DOMAIN conn'[q] /\ conn'[q][g] = conn[q][g]
  BY <1>5, <1>6, <1>7
<1>16. Calls' /\ OwnIds'
  <2>1. call' = call
    BY SMTT(20) DEF DialSucceeds
  <2>2. Calls'
    <3>. SUFFICES ASSUME NEW c \in Callers PROVE CallInv(c)'
      BY DEF Calls
    <3>1. CallInv(c)
      BY DEF IInv, Calls
    <3>. QED
      BY <2>1, <3>1, <1>15 DEF CallInv, Enqueued, Link, Awaited
  <2>3. OwnIds'
    BY <2>1, Zenon DEF IInv, OwnIds, Enqueued, On
  <2>. QED
    BY <2>2, <2>3
<1>17. Owned'
  <2>. SUFFICES ASSUME NEW q \in Peers, NEW g \in DOMAIN conn'[q], NEW id \in conn'[q][g].pending
                PROVE  (\E c \in Callers : On(c, q, g) /\ call[c].id = id)'
    BY DEF Owned
  <2>1. g \in DOMAIN conn[q]
    BY <1>2, <1>5, <1>6, <1>7
  <2>. QED
    BY <2>1, <1>15 DEF IInv, Owned, On, DialSucceeds
<1>. QED
  BY <1>10, <1>11, <1>12, <1>13, <1>14, <1>16, <1>17 DEF IInv

(* A step that changes one connection, and the manager at most from "up"   *)
(* to "closing" *)
LEMMA LinkStep ==
    ASSUME IInv, NEW p \in Peers, NEW g \in DOMAIN conn[p], LinkFrame(p, g),
           ManagerFrame(p),
           mgr'[p] = mgr[p] \/ (/\ mgr[p].pc = "up"
                                /\ mgr'[p].pc = "closing"
                                /\ mgr'[p].state = mgr[p].state
                                /\ mgr'[p].rt = mgr[p].rt),
           UNCHANGED <<table, closing>>, LinkInv(p, g)',
           call' \in [Callers -> CallType], Calls', OwnIds', Owned'
    PROVE  IInv'
<1>1. /\ \A q \in Peers : Generation(q)' = Generation(q)
      /\ \A q \in Peers : Generation(q) \in Nat
      /\ \A q \in Peers : DOMAIN conn'[q] = DOMAIN conn[q] /\ DOMAIN conn[q] = 1..Generation(q)
      /\ \A q \in Peers : \A h \in DOMAIN conn[q] : conn'[q][h].cap = conn[q][h].cap
  BY DEF LinkFrame, Generation, IInv, Typing
<1>2. Typing'
  BY <1>1 DEF IInv, Typing, LinkFrame, ManagerFrame
<1>3. Tabled'
  BY DEF IInv, Tabled
<1>4. Links'
  <2>. SUFFICES ASSUME NEW q \in Peers, NEW h \in DOMAIN conn[q] PROVE LinkInv(q, h)'
    BY <1>1 DEF Links
  <2>1. CASE q = p /\ h = g
    BY <2>1
  <2>2. CASE q # p \/ h # g
    BY <2>2, <1>1, ZenonT(30) DEF IInv, Links, LinkInv, LinkFrame, ManagerFrame, Alive
  <2>. QED
    BY <2>1, <2>2
<1>5. Managers'
  BY <1>1 DEF IInv, Managers, ManagerInv, ManagerFrame, Alive
<1>6. Entries'
  <2>. SUFFICES ASSUME NEW i \in DOMAIN table PROVE EntryInv(table[i])'
    BY DEF Entries
  <2>1. EntryInv(table[i]) /\ table[i].peer \in Peers /\ table[i].gen \in Nat
    BY TableTyped DEF IInv, Entries
  <2>2. table[i].ready => table[i].gen \in DOMAIN conn[table[i].peer]
    <3>1. table[i].ready => Generation(table[i].peer) >= 1
      BY <2>1 DEF EntryInv, IInv, Managers, ManagerInv, Alive
    <3>. QED
      BY <2>1, <3>1, <1>1 DEF EntryInv
  <2>. QED
    BY <2>1, <2>2, <1>1 DEF EntryInv, ManagerFrame
<1>. QED
  BY <1>2, <1>3, <1>4, <1>5, <1>6 DEF IInv

LEMMA LinkCallStep ==
    ASSUME IInv, NEW p \in Peers, NEW g \in DOMAIN conn[p], LinkFrame(p, g),
           UNCHANGED <<mgr, table, closing>>, LinkInv(p, g)',
           call' \in [Callers -> CallType], Calls', OwnIds', Owned'
    PROVE  IInv'
<1>1. ManagerFrame(p) /\ mgr'[p] = mgr[p]
  BY ManagerTyped DEF ManagerFrame
<1>. QED
  BY <1>1, LinkStep

(* The calls do not notice a connection whose pending requests stay. *)
SameRequests(p, g) ==
    /\ conn'[p][g].seq = conn[p][g].seq
    /\ conn'[p][g].pending = conn[p][g].pending
    /\ conn'[p][g].held = conn[p][g].held

LEMMA QuietLink ==
    ASSUME IInv, NEW p \in Peers, NEW g \in DOMAIN conn[p], LinkFrame(p, g), UNCHANGED call,
           SameRequests(p, g)
    PROVE  call' \in [Callers -> CallType] /\ Calls' /\ OwnIds' /\ Owned'
<1>1. \A q \in Peers : DOMAIN conn'[q] = DOMAIN conn[q]
  BY DEF LinkFrame, IInv, Typing
<1>2. \A q \in Peers : \A h \in DOMAIN conn[q] :
        /\ conn'[q][h].seq = conn[q][h].seq
        /\ conn'[q][h].pending = conn[q][h].pending
        /\ conn'[q][h].held = conn[q][h].held
  BY Zenon DEF LinkFrame, SameRequests
<1>3. call' \in [Callers -> CallType]
  BY DEF IInv, Typing
<1>4. Calls'
  BY <1>1, <1>2, SMTT(20) DEF IInv, Calls, CallInv, Enqueued, Link, Awaited
<1>5. OwnIds'
  BY DEF IInv, OwnIds, Enqueued, On
<1>6. Owned'
  BY <1>1, <1>2 DEF IInv, Owned, On
<1>. QED
  BY <1>3, <1>4, <1>5, <1>6

LEMMA LinkTyped ==
    ASSUME IInv, NEW p \in Peers, NEW g \in DOMAIN conn[p]
    PROVE  /\ conn \in [Peers -> Seq(LinkType)]
           /\ conn[p][g] \in LinkType
           /\ DOMAIN conn[p] = 1..Generation(p)
           /\ Generation(p) \in Nat
           /\ LinkInv(p, g)
           /\ mgr \in [Peers -> ManagerType]
BY Domains DEF IInv, Typing, Links

(* The end of a connection: no answer comes any more. *)
Ends(p, g) == conn' = [conn EXCEPT ![p][g].open = FALSE, ![p][g].sent = {}]

LEMMA EndedType ==
    ASSUME NEW l \in LinkType
    PROVE  [l EXCEPT !.open = FALSE, !.sent = {}] \in LinkType
BY Zenon DEF LinkType

LEMMA FailedType ==
    ASSUME NEW l \in LinkType, NEW err \in Errors
    PROVE  [l EXCEPT !.closed = TRUE, !.loss = err] \in LinkType
BY Zenon DEF LinkType

LEMMA EndLink ==
    ASSUME IInv, NEW p \in Peers, NEW g \in DOMAIN conn[p], Ends(p, g)
    PROVE  /\ LinkFrame(p, g)
           /\ SameRequests(p, g)
           /\ conn'[p][g].closed = conn[p][g].closed
           /\ conn'[p][g].loss = conn[p][g].loss
           /\ conn'[p][g].drained = conn[p][g].drained
           /\ ~conn'[p][g].open
           /\ Generation(p)' = Generation(p)
<1>. DEFINE l == [conn[p][g] EXCEPT !.open = FALSE, !.sent = {}]
<1>1. l \in LinkType
  BY LinkTyped, EndedType, Zenon
<1>2. /\ l.cap = conn[p][g].cap
      /\ l.closed = conn[p][g].closed /\ l.loss = conn[p][g].loss
      /\ l.drained = conn[p][g].drained
      /\ l.seq = conn[p][g].seq /\ l.pending = conn[p][g].pending /\ l.held = conn[p][g].held
      /\ ~l.open
  BY LinkTyped DEF LinkType
<1>3. Replaces(p, g, l)
  BY LinkTyped, Zenon DEF Ends, Replaces
<1>. HIDE DEF l
<1>4. LinkFrame(p, g) /\ conn'[p][g] = l
  BY <1>1, <1>2, <1>3, ReplaceLink
<1>. QED
  BY <1>2, <1>4 DEF LinkFrame, Generation, SameRequests

LEMMA BreakInv ==
    ASSUME IInv, NEW p \in Peers, NEW g \in DOMAIN conn[p], Break(p, g)
    PROVE  IInv'
<1>1. UNCHANGED call /\ UNCHANGED <<mgr, table, closing>> /\ Ends(p, g)
  BY DEF Break, Ends
<1>2. /\ LinkFrame(p, g)
      /\ SameRequests(p, g)
      /\ conn'[p][g].closed = conn[p][g].closed
      /\ conn'[p][g].loss = conn[p][g].loss
      /\ conn'[p][g].drained = conn[p][g].drained
      /\ ~conn'[p][g].open
      /\ Generation(p)' = Generation(p)
  BY <1>1, EndLink
<1>3. LinkInv(p, g)'
  BY <1>1, <1>2, LinkTyped DEF LinkInv, SameRequests
<1>4. call' \in [Callers -> CallType] /\ Calls' /\ OwnIds' /\ Owned'
  BY <1>1, <1>2, QuietLink, Zenon
<1>. QED
  BY <1>1, <1>2, <1>3, <1>4, LinkCallStep

LEMMA CloseConnectionInv ==
    ASSUME IInv, NEW p \in Peers, CloseConnection(p)
    PROVE  IInv'
<1>0. PICK g \in DOMAIN conn[p] : g = Generation(p)
  BY Domains DEF CloseConnection, IInv, Typing, Managers, ManagerInv, Alive
<1>1. UNCHANGED <<table, call, closing>> /\ Ends(p, g)
  BY <1>0 DEF CloseConnection, Ends
<1>2. /\ LinkFrame(p, g)
      /\ SameRequests(p, g)
      /\ conn'[p][g].closed = conn[p][g].closed
      /\ conn'[p][g].loss = conn[p][g].loss
      /\ conn'[p][g].drained = conn[p][g].drained
      /\ ~conn'[p][g].open
      /\ Generation(p)' = Generation(p)
  BY <1>1, EndLink
<1>3. /\ ManagerFrame(p)
      /\ mgr'[p].pc = "closing"
      /\ mgr'[p].state = mgr[p].state
      /\ mgr'[p].rt = mgr[p].rt
      /\ mgr[p].pc = "up"
  BY GotoFrame, SMTT(20) DEF CloseConnection
<1>4. LinkInv(p, g)'
  BY <1>2, <1>3, LinkTyped, SMTT(20) DEF LinkInv, SameRequests, Alive
<1>5. call' \in [Callers -> CallType] /\ Calls' /\ OwnIds' /\ Owned'
  BY <1>1, <1>2, QuietLink
<1>. QED
  BY <1>1, <1>2, <1>3, <1>4, <1>5, LinkStep

LEMMA FailAllInv ==
    ASSUME IInv, NEW p \in Peers, NEW g \in DOMAIN conn[p], FailAll(p, g)
    PROVE  IInv'
<1>1. UNCHANGED call /\ UNCHANGED <<mgr, table, closing>> /\ ~conn[p][g].open
  BY DEF FailAll
<1>2. PICK err \in Errors : conn' = [conn EXCEPT ![p][g].closed = TRUE, ![p][g].loss = err]
  BY Zenon DEF FailAll
<1>. DEFINE l == [conn[p][g] EXCEPT !.closed = TRUE, !.loss = err]
<1>3. l \in LinkType
  BY LinkTyped, FailedType, Zenon
<1>4. /\ l.cap = conn[p][g].cap
      /\ l.open = conn[p][g].open /\ l.drained = conn[p][g].drained
      /\ l.seq = conn[p][g].seq /\ l.pending = conn[p][g].pending /\ l.held = conn[p][g].held
      /\ l.closed /\ l.loss = err
  BY LinkTyped DEF LinkType
<1>5. Replaces(p, g, l)
  BY <1>2, LinkTyped, Zenon DEF Replaces
<1>. HIDE DEF l
<1>6. LinkFrame(p, g) /\ conn'[p][g] = l
  BY <1>3, <1>4, <1>5, ReplaceLink
<1>7. LinkInv(p, g)'
  BY <1>1, <1>4, <1>6, LinkTyped DEF LinkInv, LinkFrame, Generation
<1>8. call' \in [Callers -> CallType] /\ Calls' /\ OwnIds' /\ Owned'
  BY <1>1, <1>4, <1>6, QuietLink DEF SameRequests
<1>. QED
  BY <1>1, <1>6, <1>7, <1>8, LinkCallStep

-------------------------------------------------------------------------------
(* The results of requests *)

LEMMA CallTyped ==
    ASSUME IInv, NEW c \in Callers
    PROVE  /\ call \in [Callers -> CallType]
           /\ call[c] \in CallType
           /\ CallInv(c)
BY DEF IInv, Typing, Calls

(* Only results are put into the callers' channels. *)
BoxFrame ==
    /\ call' \in [Callers -> CallType]
    /\ \A c \in Callers : /\ call'[c].pc = call[c].pc
                          /\ call'[c].peer = call[c].peer
                          /\ call'[c].gen = call[c].gen
                          /\ call'[c].id = call[c].id

LEMMA BoxOwnIds == ASSUME IInv, BoxFrame PROVE OwnIds'
BY DEF IInv, OwnIds, BoxFrame, Enqueued, On

(* A call keeps its invariant when neither it nor, as far as it is         *)
(* concerned, its connection changes.                                      *)
LEMMA CallKept ==
    ASSUME NEW d \in Callers, CallInv(d), call'[d] = call[d],
           \A q \in Peers : DOMAIN conn'[q] = DOMAIN conn[q],
           Enqueued(d) =>
               /\ conn'[call[d].peer][call[d].gen].seq = conn[call[d].peer][call[d].gen].seq
               /\ call[d].id \in Awaited(call[d].peer, call[d].gen)'
                    <=> call[d].id \in Awaited(call[d].peer, call[d].gen)
    PROVE  CallInv(d)'
<1>1. Enqueued(d)' <=> Enqueued(d)
  BY Zenon DEF Enqueued
<1>2. call[d].pc # "idle" => call[d].peer \in Peers
  BY Zenon DEF CallInv
<1>3. call[d].pc = "taken" \/ Enqueued(d) => call[d].gen \in DOMAIN conn'[call[d].peer]
  BY <1>2, Zenon DEF CallInv, Enqueued
<1>4. Enqueued(d) => /\ call[d].id \in 1..conn'[call[d].peer][call[d].gen].seq
                     /\ call[d].id \in Awaited(call[d].peer, call[d].gen)' <=> call[d].box = <<>>
  BY Zenon DEF CallInv, Link
<1>. QED
  BY <1>1, <1>2, <1>3, <1>4, Zenon DEF CallInv, Link

(* So it does when a connection changes that it is not on. *)
LEMMA CallElsewhere ==
    ASSUME NEW p \in Peers, NEW g \in DOMAIN conn[p], LinkFrame(p, g),
           \A q \in Peers : DOMAIN conn'[q] = DOMAIN conn[q],
           NEW d \in Callers, CallInv(d), call'[d] = call[d], ~On(d, p, g)
    PROVE  CallInv(d)'
<1>1. Enqueued(d) => call[d].peer \in Peers /\ call[d].gen \in DOMAIN conn[call[d].peer]
  BY Zenon DEF CallInv, Enqueued
<1>2. Enqueued(d) => call[d].peer # p \/ call[d].gen # g
  BY Zenon DEF On, Enqueued
<1>3. Enqueued(d) => conn'[call[d].peer][call[d].gen] = conn[call[d].peer][call[d].gen]
  BY <1>1, <1>2, Zenon DEF LinkFrame
<1>4. Enqueued(d) => Awaited(call[d].peer, call[d].gen)' = Awaited(call[d].peer, call[d].gen)
  BY <1>3, Zenon DEF Awaited
<1>. QED
  BY <1>3, <1>4, CallKept, Zenon

(* And when its channel is empty just as long as its result is awaited. *)
LEMMA CallSent ==
    ASSUME NEW c \in Callers, CallInv(c), Enqueued(c),
           \A q \in Peers : DOMAIN conn'[q] = DOMAIN conn[q],
           call'[c].pc = call[c].pc, call'[c].peer = call[c].peer,
           call'[c].gen = call[c].gen, call'[c].id = call[c].id,
           conn'[call[c].peer][call[c].gen].seq = conn[call[c].peer][call[c].gen].seq,
           call[c].id \in Awaited(call[c].peer, call[c].gen)' <=> call'[c].box = <<>>,
           Len(call'[c].box) <= 1
    PROVE  CallInv(c)'
<1>1. Enqueued(c)'
  BY Zenon DEF Enqueued
<1>2. call[c].peer \in Peers /\ call[c].gen \in DOMAIN conn'[call[c].peer]
  BY Zenon DEF CallInv, Enqueued
<1>3. call[c].id \in 1..conn'[call[c].peer][call[c].gen].seq
  BY Zenon DEF CallInv, Link
<1>4. call'[c].id \in Awaited(call[c].peer, call[c].gen)' <=> call'[c].box = <<>>
  BY Zenon
<1>. QED
  BY <1>1, <1>2, <1>3, <1>4, Zenon DEF CallInv, Link

(* A call whose empty channel has been sent a result *)
Answered(k, r) ==
    /\ r \in CallType
    /\ r.pc = k.pc /\ r.peer = k.peer /\ r.gen = k.gen /\ r.id = k.id
    /\ r.box # <<>> /\ Len(r.box) <= 1

LEMMA OneSent ==
    ASSUME NEW k \in CallType, k.box = <<>>, NEW result \in Errors \cup {"answer"}
    PROVE  Answered(k, [k EXCEPT !.box = Append(@, result)])
<1>. DEFINE box == Append(k.box, result)
<1>1. box \in Seq(Errors \cup {"answer"}) /\ box # <<>> /\ Len(box) <= 1
  OBVIOUS
<1>. HIDE DEF box
<1>2. [k EXCEPT !.box = box] \in CallType
  BY <1>1, Zenon DEF CallType
<1>3. [k EXCEPT !.box = box].box = box
  BY DEF CallType
<1>4. LET r == [k EXCEPT !.box = box]
      IN  r.pc = k.pc /\ r.peer = k.peer /\ r.gen = k.gen /\ r.id = k.id
  BY DEF CallType
<1>5. [k EXCEPT !.box = Append(@, result)] = [k EXCEPT !.box = box]
  BY DEF box
<1>. QED
  BY <1>1, <1>2, <1>3, <1>4, <1>5, Zenon DEF Answered

LEMMA DrainedType ==
    ASSUME NEW l \in LinkType
    PROVE  [l EXCEPT !.drained = TRUE, !.pending = {}] \in LinkType
BY Zenon DEF LinkType

LEMMA DrainInv ==
    ASSUME IInv, NEW p \in Peers, NEW g \in DOMAIN conn[p], Drain(p, g)
    PROVE  IInv'
<1>0. UNCHANGED <<mgr, table, closing>> /\ conn[p][g].closed
  BY DEF Drain
<1>. DEFINE l == [conn[p][g] EXCEPT !.drained = TRUE, !.pending = {}]
<1>1. l \in LinkType
  BY LinkTyped, DrainedType, Zenon
<1>2. /\ l.cap = conn[p][g].cap
      /\ l.open = conn[p][g].open /\ l.closed = conn[p][g].closed /\ l.loss = conn[p][g].loss
      /\ l.seq = conn[p][g].seq
      /\ l.pending = {} /\ l.held = conn[p][g].held
  BY LinkTyped DEF LinkType
<1>3. Replaces(p, g, l)
  BY LinkTyped, Zenon DEF Drain, Replaces
<1>. HIDE DEF l
<1>4. LinkFrame(p, g) /\ conn'[p][g] = l
  BY <1>1, <1>2, <1>3, ReplaceLink
<1>5. \A q \in Peers : DOMAIN conn'[q] = DOMAIN conn[q]
  BY <1>4 DEF LinkFrame, IInv, Typing
<1>6. conn[p][g].loss \in Errors
  BY <1>0, LinkTyped DEF LinkInv
<1>7. LinkInv(p, g)'
  BY <1>0, <1>2, <1>4, <1>6, LinkTyped, Zenon DEF LinkInv, LinkFrame, Generation
<1>8. \A c \in Callers :
        call'[c] = IF On(c, p, g) /\ call[c].id \in conn[p][g].pending
                   THEN [call[c] EXCEPT !.box = Append(@, conn[p][g].loss)] ELSE call[c]
  BY DEF Drain
<1>9. /\ BoxFrame
      /\ \A c \in Callers :
           /\ On(c, p, g) /\ call[c].id \in conn[p][g].pending =>
                call'[c].box # <<>> /\ Len(call'[c].box) <= 1
           /\ ~(On(c, p, g) /\ call[c].id \in conn[p][g].pending) => call'[c] = call[c]
  <2>1. call' = [c \in Callers |-> call'[c]]
    BY DEF Drain
  <2>2. ASSUME NEW c \in Callers, On(c, p, g), call[c].id \in conn[p][g].pending
        PROVE  Answered(call[c], call'[c])
    <3>1. CallInv(c) /\ call[c] \in CallType
      BY CallTyped
    <3>2. call[c].box = <<>>
      BY <2>2, <3>1, Zenon DEF CallInv, Enqueued, On, Awaited
    <3>. QED
      BY <2>2, <3>1, <3>2, <1>6, <1>8, OneSent, ZenonT(30)
  <2>3. \A c \in Callers : call[c] \in CallType
    BY CallTyped
  <2>. QED
    BY <1>8, <2>1, <2>2, <2>3, Zenon DEF BoxFrame, Answered
<1>10. Calls'
  <2>. SUFFICES ASSUME NEW c \in Callers PROVE CallInv(c)'
    BY DEF Calls
  <2>1. CallInv(c)
    BY CallTyped
  <2>2. CASE On(c, p, g)
    <3>1. conn[p][g].pending \cap conn[p][g].held = {}
      BY LinkTyped DEF LinkInv
    <3>2. Enqueued(c) /\ call[c].peer = p /\ call[c].gen = g
      BY <2>2, Zenon DEF On, Enqueued
    <3>3. Awaited(p, g)' = conn[p][g].held /\ conn'[p][g].seq = conn[p][g].seq
      BY <1>2, <1>4 DEF Awaited
    <3>4. call[c].id \in Awaited(p, g) <=> call[c].box = <<>>
      BY <2>1, <3>2, Zenon DEF CallInv
    <3>5. call[c].id \in Awaited(p, g)' <=> call'[c].box = <<>>
      BY <2>2, <3>1, <3>3, <3>4, <1>9, Zenon DEF Awaited
    <3>6. Len(call'[c].box) <= 1
      BY <2>1, <2>2, <1>9, Zenon DEF CallInv
    <3>. QED
      BY <2>1, <3>2, <3>3, <3>5, <3>6, <1>5, <1>9, CallSent, Zenon DEF BoxFrame
  <2>3. CASE ~On(c, p, g)
    BY <2>1, <2>3, <1>4, <1>5, <1>8, CallElsewhere, Zenon
  <2>. QED
    BY <2>2, <2>3
<1>11. Owned'
  <2>. SUFFICES ASSUME NEW q \in Peers, NEW h \in DOMAIN conn[q], NEW n \in conn'[q][h].pending
                PROVE  (\E c \in Callers : On(c, q, h) /\ call[c].id = n)'
    BY <1>5 DEF Owned
  <2>1. n \in conn[q][h].pending
    BY <1>2, <1>4 DEF LinkFrame
  <2>2. PICK c \in Callers : On(c, q, h) /\ call[c].id = n
    BY <2>1 DEF IInv, Owned
  <2>. QED
    BY <2>2, <1>9 DEF On, BoxFrame
<1>. QED
  BY <1>0, <1>4, <1>7, <1>9, <1>10, <1>11, BoxOwnIds, LinkCallStep DEF BoxFrame

LEMMA ForgottenType ==
    ASSUME NEW l \in LinkType, NEW id
    PROVE  LET k == [l EXCEPT !.pending = l.pending \ {id}]
           IN  /\ k \in LinkType
               /\ k.open = l.open /\ k.closed = l.closed /\ k.loss = l.loss
               /\ k.drained = l.drained /\ k.cap = l.cap /\ k.seq = l.seq
               /\ k.pending = l.pending \ {id} /\ k.held = l.held
BY DEF LinkType

(* A request that is no longer pending on its connection *)
Forgets(p, g, id) == conn' = [conn EXCEPT ![p][g].pending = @ \ {id}]

LEMMA ForgetLink ==
    ASSUME IInv, NEW p \in Peers, NEW g \in DOMAIN conn[p], NEW id, Forgets(p, g, id),
           UNCHANGED <<mgr, table, closing>>
    PROVE  /\ LinkFrame(p, g)
           /\ \A q \in Peers : DOMAIN conn'[q] = DOMAIN conn[q]
           /\ conn'[p][g].seq = conn[p][g].seq
           /\ conn'[p][g].pending = conn[p][g].pending \ {id}
           /\ conn'[p][g].held = conn[p][g].held
           /\ LinkInv(p, g)'
<1>. DEFINE l == [conn[p][g] EXCEPT !.pending = conn[p][g].pending \ {id}]
<1>1. conn[p][g] \in LinkType
  BY LinkTyped
<1>2. /\ l \in LinkType
      /\ l.open = conn[p][g].open /\ l.closed = conn[p][g].closed /\ l.loss = conn[p][g].loss
      /\ l.drained = conn[p][g].drained /\ l.cap = conn[p][g].cap /\ l.seq = conn[p][g].seq
      /\ l.pending = conn[p][g].pending \ {id} /\ l.held = conn[p][g].held
  BY <1>1, ForgottenType, Zenon
<1>3. Replaces(p, g, l)
  BY LinkTyped DEF Forgets, Replaces
<1>. HIDE DEF l
<1>4. LinkFrame(p, g) /\ conn'[p][g] = l
  BY <1>2, <1>3, ReplaceLink
<1>5. \A q \in Peers : DOMAIN conn'[q] = DOMAIN conn[q]
  BY <1>4 DEF LinkFrame, IInv, Typing
<1>6. LinkInv(p, g)'
  BY <1>2, <1>4, LinkTyped, Zenon DEF LinkInv, LinkFrame, Generation
<1>. QED
  BY <1>2, <1>4, <1>5, <1>6

(* deliver takes the channel out of the map, *)
LEMMA TakenType ==
    ASSUME NEW l \in LinkType, NEW id \in Nat
    PROVE  LET k == [l EXCEPT !.pending = l.pending \ {id}, !.held = l.held \cup {id}]
           IN  /\ k \in LinkType
               /\ k.open = l.open /\ k.closed = l.closed /\ k.loss = l.loss
               /\ k.drained = l.drained /\ k.cap = l.cap /\ k.seq = l.seq
               /\ k.pending = l.pending \ {id} /\ k.held = l.held \cup {id}
BY Zenon DEF LinkType

LEMMA DeliverInv ==
    ASSUME IInv, NEW p \in Peers, NEW g \in DOMAIN conn[p], NEW id \in conn[p][g].sent,
           Deliver(p, g, id)
    PROVE  IInv'
<1>0. UNCHANGED <<mgr, table, closing>> /\ UNCHANGED call /\ id \in conn[p][g].pending
  BY Zenon DEF Deliver
<1>. DEFINE l == [conn[p][g] EXCEPT !.pending = conn[p][g].pending \ {id},
                                    !.held = conn[p][g].held \cup {id}]
<1>1. conn[p][g] \in LinkType /\ id \in Nat
  BY LinkTyped DEF LinkType
<1>2. /\ l \in LinkType
      /\ l.open = conn[p][g].open /\ l.closed = conn[p][g].closed /\ l.loss = conn[p][g].loss
      /\ l.drained = conn[p][g].drained /\ l.cap = conn[p][g].cap /\ l.seq = conn[p][g].seq
      /\ l.pending = conn[p][g].pending \ {id} /\ l.held = conn[p][g].held \cup {id}
  BY <1>1, TakenType, Zenon
<1>3. Replaces(p, g, l)
  BY LinkTyped, Zenon DEF Deliver, Replaces
<1>. HIDE DEF l
<1>4. LinkFrame(p, g) /\ conn'[p][g] = l
  BY <1>2, <1>3, ReplaceLink
<1>5. \A q \in Peers : DOMAIN conn'[q] = DOMAIN conn[q]
  BY <1>4, SMTT(20) DEF LinkFrame, IInv, Typing
<1>6. LinkInv(p, g)'
  BY <1>0, <1>2, <1>4, LinkTyped DEF LinkInv, LinkFrame, Generation
<1>7. \A q \in Peers : \A h \in DOMAIN conn[q] :
        conn'[q][h].seq = conn[q][h].seq /\ Awaited(q, h)' = Awaited(q, h)
  BY <1>0, <1>2, <1>4, ZenonT(30) DEF LinkFrame, Awaited
<1>8. Calls'
  <2>. SUFFICES ASSUME NEW d \in Callers PROVE CallInv(d)'
    BY DEF Calls
  <2>1. CallInv(d) /\ call'[d] = call[d]
    BY <1>0, CallTyped
  <2>2. Enqueued(d) => call[d].peer \in Peers /\ call[d].gen \in DOMAIN conn[call[d].peer]
    BY <2>1, Zenon DEF CallInv, Enqueued
  <2>. QED
    BY <2>1, <2>2, <1>5, <1>7, CallKept, Zenon
<1>9. Owned'
  <2>. SUFFICES ASSUME NEW q \in Peers, NEW h \in DOMAIN conn[q], NEW n \in conn'[q][h].pending
                PROVE  (\E c \in Callers : On(c, q, h) /\ call[c].id = n)'
    BY <1>5, Zenon DEF Owned
  <2>1. n \in conn[q][h].pending
    BY <1>2, <1>4, Zenon DEF LinkFrame
  <2>2. PICK c \in Callers : On(c, q, h) /\ call[c].id = n
    BY <2>1 DEF IInv, Owned
  <2>. QED
    BY <2>2, <1>0, Zenon DEF On
<1>10. BoxFrame
  BY <1>0 DEF BoxFrame, IInv, Typing
<1>. QED
  BY <1>0, <1>4, <1>6, <1>8, <1>9, <1>10, BoxOwnIds, LinkCallStep DEF BoxFrame

(* and sends: the caller the answer is for gets it, and nobody else. *)
LEMMA SettledType ==
    ASSUME NEW l \in LinkType, NEW id
    PROVE  LET k == [l EXCEPT !.held = l.held \ {id}]
           IN  /\ k \in LinkType
               /\ k.open = l.open /\ k.closed = l.closed /\ k.loss = l.loss
               /\ k.drained = l.drained /\ k.cap = l.cap /\ k.seq = l.seq
               /\ k.pending = l.pending /\ k.held = l.held \ {id}
BY DEF LinkType

LEMMA SendInv ==
    ASSUME IInv, NEW p \in Peers, NEW g \in DOMAIN conn[p], NEW id \in conn[p][g].held,
           Send(p, g, id)
    PROVE  IInv'
<1>0. UNCHANGED <<mgr, table, closing>> /\ id \notin conn[p][g].pending
  BY LinkTyped DEF Send, LinkInv
<1>. DEFINE l == [conn[p][g] EXCEPT !.held = conn[p][g].held \ {id}]
<1>1. conn[p][g] \in LinkType
  BY LinkTyped
<1>2. /\ l \in LinkType
      /\ l.open = conn[p][g].open /\ l.closed = conn[p][g].closed /\ l.loss = conn[p][g].loss
      /\ l.drained = conn[p][g].drained /\ l.cap = conn[p][g].cap /\ l.seq = conn[p][g].seq
      /\ l.pending = conn[p][g].pending /\ l.held = conn[p][g].held \ {id}
  BY <1>1, SettledType, Zenon
<1>3. Replaces(p, g, l)
  BY LinkTyped DEF Send, Replaces
<1>. HIDE DEF l
<1>4. LinkFrame(p, g) /\ conn'[p][g] = l
  BY <1>2, <1>3, ReplaceLink
<1>5. \A q \in Peers : DOMAIN conn'[q] = DOMAIN conn[q]
  BY <1>4, SMTT(20) DEF LinkFrame, IInv, Typing
<1>6. LinkInv(p, g)'
  <2>1. LinkInv(p, g) /\ Generation(p)' = Generation(p) /\ mgr' = mgr
    BY <1>0, <1>4, LinkTyped DEF LinkFrame, Generation
  <2>. QED
    BY <2>1, <1>2, <1>4, SMTT(20) DEF LinkInv
<1>7. \A c \in Callers :
        call'[c] = IF On(c, p, g) /\ call[c].id = id
                   THEN [call[c] EXCEPT !.box = Append(@, "answer")] ELSE call[c]
  BY DEF Send
<1>8. /\ BoxFrame
      /\ \A c \in Callers :
           /\ On(c, p, g) /\ call[c].id = id => call'[c].box # <<>> /\ Len(call'[c].box) <= 1
           /\ ~(On(c, p, g) /\ call[c].id = id) => call'[c] = call[c]
  <2>1. call' = [c \in Callers |-> call'[c]]
    BY DEF Send
  <2>2. ASSUME NEW c \in Callers, On(c, p, g), call[c].id = id
        PROVE  Answered(call[c], call'[c])
    <3>1. CallInv(c) /\ call[c] \in CallType
      BY CallTyped
    <3>2. call[c].box = <<>>
      BY <2>2, <3>1, Zenon DEF CallInv, Enqueued, On, Awaited
    <3>. QED
      BY <2>2, <3>1, <3>2, <1>7, OneSent, Zenon
  <2>3. \A c \in Callers : call[c] \in CallType
    BY CallTyped
  <2>. QED
    BY <1>7, <2>1, <2>2, <2>3, Zenon DEF BoxFrame, Answered
<1>9. Calls'
  <2>. SUFFICES ASSUME NEW c \in Callers PROVE CallInv(c)'
    BY DEF Calls
  <2>1. CallInv(c)
    BY CallTyped
  <2>2. CASE On(c, p, g)
    <3>1. Enqueued(c) /\ call[c].peer = p /\ call[c].gen = g
      BY <2>2, Zenon DEF On, Enqueued
    <3>2. Awaited(p, g)' = Awaited(p, g) \ {id} /\ conn'[p][g].seq = conn[p][g].seq
      BY <1>0, <1>2, <1>4 DEF Awaited
    <3>3. call[c].id \in Awaited(p, g) <=> call[c].box = <<>>
      BY <2>1, <3>1, Zenon DEF CallInv
    <3>4. call[c].id \in Awaited(p, g)' <=> call'[c].box = <<>>
      BY <2>2, <3>2, <3>3, <1>8, Zenon
    <3>5. Len(call'[c].box) <= 1
      BY <2>1, <2>2, <1>8, Zenon DEF CallInv
    <3>. QED
      BY <2>1, <3>1, <3>2, <3>4, <3>5, <1>5, <1>8, CallSent, Zenon DEF BoxFrame
  <2>3. CASE ~On(c, p, g)
    BY <2>1, <2>3, <1>4, <1>5, <1>8, CallElsewhere, Zenon
  <2>. QED
    BY <2>2, <2>3
<1>10. Owned'
  <2>. SUFFICES ASSUME NEW q \in Peers, NEW h \in DOMAIN conn[q], NEW n \in conn'[q][h].pending
                PROVE  (\E c \in Callers : On(c, q, h) /\ call[c].id = n)'
    BY <1>5, Zenon DEF Owned
  <2>1. n \in conn[q][h].pending
    BY <1>2, <1>4, Zenon DEF LinkFrame
  <2>2. PICK c \in Callers : On(c, q, h) /\ call[c].id = n
    BY <2>1 DEF IInv, Owned
  <2>. QED
    BY <2>2, <1>8, Zenon DEF On, BoxFrame
<1>. QED
  BY <1>0, <1>4, <1>6, <1>8, <1>9, <1>10, BoxOwnIds, LinkCallStep DEF BoxFrame

-------------------------------------------------------------------------------
(* The calls *)

(* Only the call of c moves. *)
CallFrame(c) ==
    /\ call' \in [Callers -> CallType]
    /\ \A d \in Callers : d # c => call'[d] = call[d]

(* A step of a caller that leaves the connections alone *)
LEMMA CallStep ==
    ASSUME IInv, UNCHANGED <<mgr, conn, table, closing>>, NEW c \in Callers, CallFrame(c),
           CallInv(c)', ~Enqueued(c)', Enqueued(c) => call[c].id \notin Link(c).pending
    PROVE  IInv'
<1>1. Typing' /\ Tabled' /\ Links' /\ Managers' /\ Entries'
  BY Zenon DEF IInv, Typing, Tabled, Links, LinkInv, Managers, ManagerInv, Entries, EntryInv,
         CallFrame, Generation
<1>2. Calls'
  BY Zenon DEF IInv, Calls, CallInv, CallFrame, Enqueued, Link, Awaited
<1>3. OwnIds'
  BY DEF IInv, OwnIds, CallFrame, Enqueued, On
<1>4. Owned'
  <2>. SUFFICES ASSUME NEW q \in Peers, NEW h \in DOMAIN conn[q], NEW n \in conn[q][h].pending
                PROVE  (\E d \in Callers : On(d, q, h) /\ call[d].id = n)'
    BY DEF Owned
  <2>1. PICK d \in Callers : On(d, q, h) /\ call[d].id = n
    BY DEF IInv, Owned
  <2>2. d # c
    BY <2>1 DEF On, Enqueued, Link
  <2>. QED
    BY <2>1, <2>2, Zenon DEF On, CallFrame
<1>. QED
  BY <1>1, <1>2, <1>3, <1>4, Zenon DEF IInv

(* The record of a call at its next place *)
LEMMA Waiting ==
    ASSUME NEW k \in CallType
    PROVE  LET r == [k EXCEPT !.pc = "waiting"]
           IN  /\ r \in CallType /\ r.pc = "waiting" /\ r.peer = k.peer /\ r.gen = k.gen
               /\ r.id = k.id /\ r.box = k.box
BY Zenon DEF CallType

LEMMA Returned ==
    ASSUME IInv, NEW c \in Callers, Return(c)
    PROVE  /\ CallFrame(c)
           /\ call'[c].pc = "idle"
           /\ call'[c].box = <<>>
           /\ CallInv(c)'
           /\ ~Enqueued(c)'
<1>1. PICK n \in 0..MaxCalls : n = call[c].calls
  BY CallTyped DEF CallType
<1>2. [NoCall EXCEPT !.calls = n] =
        [pc |-> "idle", peer |-> 0, gen |-> 0, id |-> 0, box |-> <<>>, calls |-> n]
  BY DEF NoCall
<1>3. [NoCall EXCEPT !.calls = n] \in CallType
  <2>1. /\ 0 \in 0..NPeers /\ 0 \in 0..MaxConnections /\ 0 \in Nat
        /\ <<>> \in Seq(Errors \cup {"answer"})
    BY PeersAssumption
  <2>. QED
    BY <1>2, <2>1, Zenon DEF CallType
<1>4. call' = [call EXCEPT ![c] = [NoCall EXCEPT !.calls = n]]
  BY <1>1 DEF Return
<1>5. CallFrame(c) /\ call'[c] = [NoCall EXCEPT !.calls = n]
  BY <1>3, <1>4, CallTyped DEF CallFrame
<1>6. call'[c].pc = "idle" /\ call'[c].box = <<>>
  BY <1>2, <1>5
<1>. QED
  BY <1>5, <1>6 DEF CallInv, Enqueued

LEMMA RouteInv ==
    ASSUME IInv, NEW c \in Callers, NEW r \in Requests, Route(c, r)
    PROVE  IInv'
<1>1. PICK i \in DOMAIN table :
        call' = [call EXCEPT ![c].pc = "routed", ![c].peer = table[i].peer, ![c].calls = @ + 1]
  <2>1. Select(r) \subseteq DOMAIN table
    BY Zenon DEF Select
  <2>. QED
    BY <2>1, Zenon DEF Route
<1>2. PICK p \in Peers : p = table[i].peer
  BY TableTyped
<1>3. PICK n \in 0..MaxCalls : n = call[c].calls + 1
  BY CallTyped, PeersAssumption DEF Route, CallType
<1>4. call' = [call EXCEPT ![c].pc = "routed", ![c].peer = p, ![c].calls = n]
  BY <1>1, <1>2, <1>3, CallTyped DEF CallType
<1>5. /\ CallFrame(c)
      /\ call'[c].pc = "routed" /\ call'[c].peer = p
      /\ call'[c].box = call[c].box
  <2>1. call \in [Callers -> CallType] /\ call[c] \in CallType
    BY CallTyped
  <2>2. PICK k : k = [call[c] EXCEPT !.pc = "routed", !.peer = p, !.calls = n]
    OBVIOUS
  <2>3. k \in CallType /\ k.pc = "routed" /\ k.peer = p /\ k.box = call[c].box
    <3>1. PICK o \in CallType : o = call[c] /\ k = [o EXCEPT !.pc = "routed", !.peer = p, !.calls = n]
      BY <2>1, <2>2, Zenon
    <3>2. p \in 0..NPeers
      BY PeersAssumption DEF Peers
    <3>3. k \in CallType /\ k.pc = "routed" /\ k.peer = p /\ k.box = o.box
      BY <3>1, <3>2, Zenon DEF CallType
    <3>. QED
      BY <3>1, <3>3, Zenon
  <2>4. call' = [call EXCEPT ![c] = k]
    BY <1>4, <2>2, Zenon
  <2>. QED
    BY <2>1, <2>3, <2>4, Zenon DEF CallFrame
<1>6. CallInv(c)' /\ ~Enqueued(c)'
  BY <1>5, CallTyped DEF CallInv, Enqueued, Route
<1>. QED
  BY <1>5, <1>6, CallStep, Zenon DEF Route, Enqueued

LEMMA TakeInv == ASSUME IInv, NEW c \in Callers, Take(c) PROVE IInv'
<1>1. PICK p \in Peers : p = call[c].peer
  BY CallTyped DEF CallInv, Take
<1>2. CASE mgr[p].state = "ready" /\ mgr[p].rt # 0
  <2>1. PICK n \in 1..MaxConnections : n = mgr[p].rt
    BY <1>2, ManagerTyped, PeersAssumption DEF ManagerType
  <2>2. n \in DOMAIN conn[p]
    BY <2>1, <1>2, ManagerTyped, Domains DEF ManagerInv, IInv, Typing
  <2>3. call' = [call EXCEPT ![c].pc = "taken", ![c].gen = n]
    BY <1>1, <1>2, <2>1 DEF Take
  <2>4. /\ CallFrame(c)
        /\ call'[c].pc = "taken" /\ call'[c].peer = p /\ call'[c].gen = n
        /\ call'[c].box = call[c].box
    <3>1. call \in [Callers -> CallType] /\ call[c] \in CallType /\ n \in 0..MaxConnections
      BY CallTyped
    <3>2. PICK k : k = [call[c] EXCEPT !.pc = "taken", !.gen = n]
      OBVIOUS
    <3>3. /\ k \in CallType /\ k.pc = "taken" /\ k.peer = call[c].peer /\ k.gen = n
          /\ k.box = call[c].box
      BY <3>1, <3>2, Zenon DEF CallType
    <3>4. call' = [call EXCEPT ![c] = k]
      BY <2>3, <3>2, Zenon
    <3>. QED
      BY <1>1, <3>1, <3>3, <3>4, Zenon DEF CallFrame
  <2>5. CallInv(c)' /\ ~Enqueued(c)'
    BY <2>2, <2>4, CallTyped DEF CallInv, Enqueued, Take
  <2>. QED
    BY <2>4, <2>5, CallStep DEF Take, Enqueued
<1>3. CASE ~(mgr[p].state = "ready" /\ mgr[p].rt # 0)
  BY <1>1, <1>3, Returned, CallStep DEF Take, Enqueued
<1>. QED
  BY <1>2, <1>3

LEMMA ReceiveInv == ASSUME IInv, NEW c \in Callers, Receive(c) PROVE IInv'
<1>1. call[c].id \notin Link(c).pending
  BY CallTyped DEF Receive, CallInv, Enqueued, Awaited, Link
<1>. QED
  BY <1>1, Returned, CallStep, SMTT(20) DEF Receive

LEMMA OnLink ==
    ASSUME IInv, NEW c \in Callers, call[c].pc \in {"taken", "writing", "waiting"}
    PROVE  \E p \in Peers : \E g \in DOMAIN conn[p] : call[c].peer = p /\ call[c].gen = g
BY CallTyped DEF CallInv, Enqueued

(* A caller that leaves with its request forgotten *)
LEMMA LeaveInv ==
    ASSUME IInv, NEW c \in Callers, Enqueued(c), Forget(c), Return(c),
           UNCHANGED <<mgr, table, closing>>
    PROVE  IInv'
<1>0. PICK p \in Peers : \E g \in DOMAIN conn[p] : call[c].peer = p /\ call[c].gen = g
  BY OnLink DEF Enqueued
<1>1. PICK g \in DOMAIN conn[p] : call[c].peer = p /\ call[c].gen = g
  BY <1>0
<1>2. PICK id : id = call[c].id
  OBVIOUS
<1>3. Forgets(p, g, id)
  BY <1>1, <1>2 DEF Forget, Forgets
<1>4. /\ LinkFrame(p, g)
      /\ \A q \in Peers : DOMAIN conn'[q] = DOMAIN conn[q]
      /\ conn'[p][g].seq = conn[p][g].seq
      /\ conn'[p][g].pending = conn[p][g].pending \ {id}
      /\ conn'[p][g].held = conn[p][g].held
      /\ LinkInv(p, g)'
  BY <1>3, ForgetLink
<1>5. CallFrame(c) /\ CallInv(c)' /\ ~Enqueued(c)'
  BY Returned
<1>6. ASSUME NEW d \in Callers, d # c, On(d, p, g)
      PROVE  call[d].id # id
  BY <1>1, <1>2, <1>6 DEF IInv, OwnIds
<1>7. Calls'
  <2>. SUFFICES ASSUME NEW d \in Callers, d # c PROVE CallInv(d)'
    BY <1>5 DEF Calls
  <2>1. CallInv(d) /\ call'[d] = call[d]
    BY <1>5, CallTyped, SMTT(20) DEF CallFrame
  <2>2. CASE On(d, p, g)
    BY <2>1, <2>2, <1>4, <1>6 DEF CallInv, Enqueued, Link, Awaited, On
  <2>3. CASE ~On(d, p, g)
    BY <2>1, <2>3, <1>4, CallElsewhere, Zenon
  <2>. QED
    BY <2>2, <2>3
<1>8. OwnIds'
  <2>1. \A d \in Callers : Enqueued(d)' => d # c /\ call'[d] = call[d]
    BY <1>5, Zenon DEF CallFrame
  <2>. SUFFICES ASSUME NEW d \in Callers, NEW f \in Callers, d # f,
                       Enqueued(d)', On(f, call[d].peer, call[d].gen)'
                PROVE  call'[d].id # call'[f].id
    BY DEF OwnIds
  <2>2. Enqueued(f)'
    BY Zenon DEF On, Enqueued
  <2>3. call'[d] = call[d] /\ call'[f] = call[f]
    BY <2>1, <2>2, Zenon
  <2>4. Enqueued(d) /\ On(f, call[d].peer, call[d].gen)
    BY <2>3, Zenon DEF On, Enqueued
  <2>. QED
    BY <2>3, <2>4, Zenon DEF IInv, OwnIds
<1>9. Owned'
  <2>. SUFFICES ASSUME NEW q \in Peers, NEW h \in DOMAIN conn[q], NEW n \in conn'[q][h].pending
                PROVE  (\E d \in Callers : On(d, q, h) /\ call[d].id = n)'
    BY <1>4, Zenon DEF Owned
  <2>1. n \in conn[q][h].pending /\ ~(q = p /\ h = g /\ n = id)
    BY <1>4, SMTT(20) DEF LinkFrame
  <2>2. PICK d \in Callers : On(d, q, h) /\ call[d].id = n
    BY <2>1, SMTT(20) DEF IInv, Owned
  <2>3. d # c
    BY <2>1, <2>2, <1>1, <1>2 DEF On
  <2>. QED
    BY <2>2, <2>3, <1>5, Zenon DEF On, CallFrame
<1>. QED
  BY <1>4, <1>5, <1>7, <1>8, <1>9, LinkCallStep DEF CallFrame

LEMMA GiveUpInv == ASSUME IInv, NEW c \in Callers, GiveUp(c) PROVE IInv'
BY LeaveInv DEF GiveUp, Enqueued

LEMMA SentLink ==
    ASSUME NEW l \in LinkType, NEW id \in Nat
    PROVE  LET k == [l EXCEPT !.sent = l.sent \cup {id}]
           IN  /\ k \in LinkType
               /\ k.open = l.open /\ k.closed = l.closed /\ k.loss = l.loss
               /\ k.drained = l.drained /\ k.cap = l.cap
               /\ k.seq = l.seq /\ k.pending = l.pending /\ k.held = l.held
BY DEF LinkType

LEMMA WriteInv == ASSUME IInv, NEW c \in Callers, Write(c) PROVE IInv'
<1>0. PICK p \in Peers : \E g \in DOMAIN conn[p] : call[c].peer = p /\ call[c].gen = g
  BY OnLink DEF Write
<1>1. PICK g \in DOMAIN conn[p] : call[c].peer = p /\ call[c].gen = g
  BY <1>0
<1>2. CASE ~Link(c).open
  BY <1>2, LeaveInv DEF Write, Enqueued
<1>3. CASE Link(c).open
  <2>1. PICK id \in Nat : id = call[c].id
    BY CallTyped DEF CallType
  <2>. DEFINE l == [conn[p][g] EXCEPT !.sent = conn[p][g].sent \cup {id}]
  <2>2. /\ l \in LinkType
        /\ l.open = conn[p][g].open /\ l.closed = conn[p][g].closed /\ l.loss = conn[p][g].loss
        /\ l.drained = conn[p][g].drained /\ l.cap = conn[p][g].cap
        /\ l.seq = conn[p][g].seq /\ l.pending = conn[p][g].pending /\ l.held = conn[p][g].held
    BY LinkTyped, SentLink
  <2>3. Replaces(p, g, l)
    BY <1>1, <1>3, <2>1, LinkTyped DEF Write, Replaces
  <2>. HIDE DEF l
  <2>4. LinkFrame(p, g) /\ conn'[p][g] = l
    BY <2>2, <2>3, ReplaceLink
  <2>5. \A q \in Peers : DOMAIN conn'[q] = DOMAIN conn[q]
    BY <2>4 DEF LinkFrame, IInv, Typing
  <2>6. \A q \in Peers : \A h \in DOMAIN conn[q] :
          /\ conn'[q][h].seq = conn[q][h].seq
          /\ conn'[q][h].pending = conn[q][h].pending
          /\ Awaited(q, h)' = Awaited(q, h)
    BY <2>2, <2>4, Zenon DEF LinkFrame, Awaited
  <2>7. LinkInv(p, g)'
    BY <2>2, <2>4, LinkTyped DEF LinkInv, Write, LinkFrame, Generation
  <2>8. /\ CallFrame(c)
        /\ call'[c].pc = "waiting" /\ call[c].pc = "writing"
        /\ call'[c].peer = call[c].peer /\ call'[c].gen = call[c].gen
        /\ call'[c].id = call[c].id /\ call'[c].box = call[c].box
    <3>1. PICK k \in CallType :
            /\ k = [call[c] EXCEPT !.pc = "waiting"] /\ k.pc = "waiting"
            /\ k.peer = call[c].peer /\ k.gen = call[c].gen /\ k.id = call[c].id
            /\ k.box = call[c].box
      BY CallTyped, Waiting, Zenon
    <3>2. /\ call \in [Callers -> CallType] /\ call' = [call EXCEPT ![c] = k]
          /\ call[c].pc = "writing"
      BY <1>3, <3>1, CallTyped, Zenon DEF Write
    <3>. QED
      BY <3>1, <3>2, Zenon DEF CallFrame
  <2>9. Calls'
    <3>. SUFFICES ASSUME NEW d \in Callers PROVE CallInv(d)'
      BY DEF Calls
    <3>1. CallInv(d)
      BY CallTyped
    <3>. QED
      <4>1. CASE d = c
        <5>1. conn'[p][g].seq = conn[p][g].seq /\ Awaited(p, g)' = Awaited(p, g)
          BY <2>6
        <5>. QED
          BY <1>1, <3>1, <4>1, <5>1, <2>5, <2>8, Zenon DEF CallInv, Enqueued, Link
      <4>2. CASE d # c
        <5>1. call'[d] = call[d]
          BY <2>8, <4>2, Zenon DEF CallFrame
        <5>2. Enqueued(d) => call[d].peer \in Peers /\ call[d].gen \in DOMAIN conn[call[d].peer]
          BY <3>1, Zenon DEF CallInv, Enqueued
        <5>. QED
          BY <3>1, <5>1, <5>2, <2>5, <2>6, CallKept, Zenon
      <4>. QED
        BY <4>1, <4>2
  <2>10. OwnIds'
    BY <2>8 DEF IInv, OwnIds, CallFrame, Enqueued, On
  <2>11. Owned'
    <3>. SUFFICES ASSUME NEW q \in Peers, NEW h \in DOMAIN conn[q], NEW n \in conn[q][h].pending
                  PROVE  (\E d \in Callers : On(d, q, h) /\ call[d].id = n)'
      BY <2>5, <2>6 DEF Owned
    <3>1. PICK d \in Callers : On(d, q, h) /\ call[d].id = n
      BY DEF IInv, Owned
    <3>. QED
      BY <3>1, <2>8 DEF On, CallFrame
  <2>12. UNCHANGED <<mgr, table, closing>>
    BY DEF Write
  <2>. QED
    BY <2>4, <2>7, <2>8, <2>9, <2>10, <2>11, <2>12, LinkCallStep DEF CallFrame
<1>. QED
  BY <1>2, <1>3

LEMMA EnqueuedLink ==
    ASSUME NEW l \in LinkType, NEW id \in Nat
    PROVE  LET k == [l EXCEPT !.seq = id, !.pending = l.pending \cup {id}]
           IN  /\ k \in LinkType
               /\ k.open = l.open /\ k.closed = l.closed /\ k.loss = l.loss
               /\ k.drained = l.drained /\ k.cap = l.cap
               /\ k.seq = id /\ k.pending = l.pending \cup {id} /\ k.held = l.held
BY Zenon DEF LinkType

LEMMA EnqueueInv == ASSUME IInv, NEW c \in Callers, Enqueue(c) PROVE IInv'
<1>0. PICK p \in Peers : \E g \in DOMAIN conn[p] : call[c].peer = p /\ call[c].gen = g
  BY OnLink, Zenon DEF Enqueue
<1>1. PICK g \in DOMAIN conn[p] : call[c].peer = p /\ call[c].gen = g
  BY <1>0
<1>2. CASE Link(c).closed
  BY <1>2, Returned, CallStep DEF Enqueue, Enqueued
<1>3. CASE ~Link(c).closed
  <2>1. PICK id \in Nat : id = conn[p][g].seq + 1
    <3>1. conn[p][g].seq \in Nat
      BY LinkTyped, Zenon DEF LinkType
    <3>. QED
      BY <3>1
  <2>. DEFINE l == [conn[p][g] EXCEPT !.seq = id, !.pending = conn[p][g].pending \cup {id}]
  <2>2. /\ l \in LinkType
        /\ l.open = conn[p][g].open /\ l.closed = conn[p][g].closed /\ l.loss = conn[p][g].loss
        /\ l.drained = conn[p][g].drained /\ l.cap = conn[p][g].cap
        /\ l.seq = id /\ l.pending = conn[p][g].pending \cup {id} /\ l.held = conn[p][g].held
    <3>1. conn[p][g] \in LinkType
      BY LinkTyped
    <3>. QED
      BY <2>1, <3>1, EnqueuedLink, Zenon
  <2>3. Replaces(p, g, l)
    <3>1. conn' = [conn EXCEPT ![p][g].seq = @ + 1, ![p][g].pending = @ \cup {id}]
      BY <1>1, <1>3, <2>1 DEF Enqueue, Link
    <3>2. conn' = [conn EXCEPT ![p][g].seq = id, ![p][g].pending = @ \cup {id}]
      BY <2>1, <3>1
    <3>3. conn \in [Peers -> Seq(LinkType)] /\ conn[p][g] \in LinkType
      BY LinkTyped
    <3>. QED
      BY <3>2, <3>3, Zenon DEF LinkType, Replaces
  <2>. HIDE DEF l
  <2>4. LinkFrame(p, g) /\ conn'[p][g] = l
    BY <2>2, <2>3, ReplaceLink
  <2>5. \A q \in Peers : DOMAIN conn'[q] = DOMAIN conn[q]
    BY <2>4 DEF LinkFrame, IInv, Typing
  <2>6. /\ conn[p][g].seq \in Nat
        /\ conn[p][g].pending \cup conn[p][g].held \subseteq 1..conn[p][g].seq
        /\ conn[p][g].pending \cap conn[p][g].held = {}
    BY LinkTyped DEF LinkType, LinkInv
  <2>7. LinkInv(p, g)'
    <3>1. /\ conn'[p][g].pending \cup conn'[p][g].held \subseteq 1..conn'[p][g].seq
          /\ conn'[p][g].pending \cap conn'[p][g].held = {}
      BY <2>1, <2>2, <2>4, <2>6
    <3>. QED
      BY <3>1, <2>2, <2>4, LinkTyped, Zenon DEF LinkInv, Enqueue, LinkFrame, Generation
  <2>8. call' = [call EXCEPT ![c].pc = "writing", ![c].id = id]
    BY <1>1, <1>3, <2>1 DEF Enqueue, Link
  <2>9. /\ CallFrame(c)
        /\ call'[c].pc = "writing"
        /\ call'[c].peer = p /\ call'[c].gen = g
        /\ call'[c].id = id /\ call'[c].box = call[c].box
    BY <1>1, <2>8, CallTyped, Zenon DEF CallFrame, CallType
  <2>10. call[c].box = <<>> /\ ~Enqueued(c)
    BY CallTyped, Zenon DEF Enqueue, CallInv, Enqueued
  <2>11. ASSUME NEW d \in Callers, On(d, p, g)
         PROVE  call[d].id # id
    <3>1. call[d].id \in 1..conn[p][g].seq
      BY <2>11, CallTyped DEF CallInv, On, Enqueued, Link
    <3>. QED
      BY <3>1, <2>1, <2>6
  <2>12. Calls'
    <3>. SUFFICES ASSUME NEW d \in Callers PROVE CallInv(d)'
      BY DEF Calls
    <3>1. CallInv(d)
      BY CallTyped
    <3>2. CASE d = c
      <4>1. id \in 1..id
        BY <2>1, <2>6, SMTT(20)
      <4>. QED
        BY <4>1, <3>2, <2>2, <2>4, <2>5, <2>9, <2>10 DEF CallInv, Enqueued, Link, Awaited
    <3>3. CASE d # c /\ On(d, p, g)
      <4>1. call[d].id \in 1..id
        <5>1. call[d].id \in 1..conn[p][g].seq
          BY <3>1, <3>3, Zenon DEF CallInv, Enqueued, Link, On
        <5>. QED
          BY <5>1, <2>1, <2>6
      <4>2. call[d].id \in Awaited(p, g)' <=> call[d].id \in Awaited(p, g)
        BY <3>3, <2>2, <2>4, <2>11 DEF Awaited
      <4>. QED
        BY <4>1, <4>2, <3>1, <3>3, <2>2, <2>4, <2>5, <2>9, SMTT(20) DEF CallInv, Enqueued, Link, On, CallFrame
    <3>4. CASE d # c /\ ~On(d, p, g)
      <4>1. call'[d] = call[d]
        BY <3>4, <2>9, Zenon DEF CallFrame
      <4>. QED
        BY <3>1, <3>4, <4>1, <2>4, <2>5, CallElsewhere, Zenon
    <3>. QED
      BY <3>2, <3>3, <3>4
  <2>13. OwnIds'
    <3>. SUFFICES ASSUME NEW d \in Callers, NEW e \in Callers, d # e,
                         Enqueued(d)', On(e, call[d].peer, call[d].gen)'
                  PROVE  call'[d].id # call'[e].id
      BY DEF OwnIds
    <3>1. CASE d = c
      BY <3>1, <2>9, <2>11 DEF On, CallFrame
    <3>2. CASE e = c
      BY <3>2, <2>9, <2>11 DEF On, CallFrame, Enqueued
    <3>3. CASE d # c /\ e # c
      BY <3>3, <2>9 DEF IInv, OwnIds, On, CallFrame, Enqueued
    <3>. QED
      BY <3>1, <3>2, <3>3
  <2>14. Owned'
    <3>. SUFFICES ASSUME NEW q \in Peers, NEW h \in DOMAIN conn[q], NEW n \in conn'[q][h].pending
                  PROVE  (\E d \in Callers : On(d, q, h) /\ call[d].id = n)'
      BY <2>5 DEF Owned
    <3>1. CASE q = p /\ h = g /\ n = id
      BY <3>1, <2>9 DEF On
    <3>2. CASE ~(q = p /\ h = g /\ n = id)
      <4>1. n \in conn[q][h].pending
        BY <3>2, <2>2, <2>4 DEF LinkFrame
      <4>2. PICK d \in Callers : On(d, q, h) /\ call[d].id = n
        BY <4>1 DEF IInv, Owned
      <4>3. d # c
        BY <4>2, <2>10 DEF On, Enqueued
      <4>. QED
        BY <4>2, <4>3, <2>9 DEF On, CallFrame
    <3>. QED
      BY <3>1, <3>2
  <2>15. UNCHANGED <<mgr, table, closing>>
    BY Zenon DEF Enqueue
  <2>. QED
    BY <2>4, <2>7, <2>9, <2>12, <2>13, <2>14, <2>15, LinkCallStep DEF CallFrame
<1>. QED
  BY <1>2, <1>3

-------------------------------------------------------------------------------
(* The invariant and what follows from it *)

(* A step that changes nothing but the Registry's flag *)
LEMMA FlagInv ==
    ASSUME IInv, UNCHANGED <<mgr, conn, table, call>>, closing' \in BOOLEAN
    PROVE  IInv'
<1>1. Typing' /\ Tabled'
  BY SMTT(20) DEF IInv, Typing, Tabled, Generation
<1>2. Links' /\ Managers' /\ Entries'
  BY DEF IInv, Links, LinkInv, Managers, ManagerInv, Entries, EntryInv, Generation
<1>3. Calls' /\ OwnIds' /\ Owned'
  <2>1. Calls'
    <3>. SUFFICES ASSUME NEW d \in Callers PROVE CallInv(d)'
      BY DEF Calls
    <3>1. CallInv(d) /\ call'[d] = call[d] /\ conn' = conn
      BY CallTyped
    <3>. QED
      BY <3>1, Zenon DEF CallInv, Enqueued, Link, Awaited
  <2>2. OwnIds'
    <3>1. BoxFrame
      BY DEF BoxFrame, IInv, Typing
    <3>. QED
      BY <3>1, BoxOwnIds
  <2>3. Owned'
    <3>. SUFFICES ASSUME NEW q \in Peers, NEW h \in DOMAIN conn[q], NEW n \in conn[q][h].pending
                  PROVE  (\E d \in Callers : On(d, q, h) /\ call[d].id = n)'
      BY DEF Owned
    <3>1. PICK d \in Callers : On(d, q, h) /\ call[d].id = n
      BY DEF IInv, Owned
    <3>. QED
      BY <3>1, Zenon DEF On
  <2>. QED
    BY <2>1, <2>2, <2>3
<1>. QED
  BY <1>1, <1>2, <1>3 DEF IInv

LEMMA NextInv == ASSUME IInv, [Next]_vars PROVE IInv'
<1>1. ASSUME NEW p \in Peers, Loop(p) PROVE IInv'
  BY <1>1, CheckInv, SetConnectingInv, DialSucceedsInv, DialFailsInv, SetReadyInv, PublishInv,
     LostInv, CloseConnectionInv, WithdrawInv, BackoffInv DEF Loop
<1>2. ASSUME NEW p \in Peers, ManagerClose(p) PROVE IInv'
  BY <1>2, ManagerCloseInv
<1>3. ASSUME NEW p \in Peers, NEW g \in DOMAIN conn[p], Watch(p, g) PROVE IInv'
  BY <1>3, FailAllInv, DrainInv DEF Watch
<1>4. ASSUME NEW p \in Peers, NEW g \in DOMAIN conn[p], Network(p, g) PROVE IInv'
  BY <1>4, BreakInv, DeliverInv, SendInv DEF Network
<1>5. ASSUME NEW c \in Callers, RoundTrip(c) PROVE IInv'
  BY <1>5, TakeInv, EnqueueInv, WriteInv, ReceiveInv, GiveUpInv DEF RoundTrip
<1>6. ASSUME NEW c \in Callers, NEW r \in Requests, Route(c, r) PROVE IInv'
  BY <1>6, RouteInv
<1>7. CASE RegistryClose \/ CloseTimesOut
  <2>1. UNCHANGED <<mgr, conn, table, call>> /\ closing' \in BOOLEAN
    BY <1>7, Zenon DEF RegistryClose, CloseTimesOut
  <2>. QED
    BY <2>1, FlagInv
<1>8. CASE UNCHANGED vars
  <2>1. UNCHANGED <<mgr, conn, table, call>> /\ closing' = closing
    BY <1>8 DEF vars
  <2>2. closing \in BOOLEAN
    BY DEF IInv, Typing
  <2>. QED
    BY <2>1, <2>2, FlagInv
<1>. QED
  BY <1>1, <1>2, <1>3, <1>4, <1>5, <1>6, <1>7, <1>8 DEF Next

(* For any peers, callers and capabilities, the places of the managers'    *)
(* loops, the connections, the table and the calls agree after every step  *)
(* of manager.go, tcp.go, peertable.go and registry.go.                    *)
THEOREM Invariance == Spec => []IInv
<1>1. Init => IInv
  BY InitInv
<1>2. IInv /\ [Next]_vars => IInv'
  BY NextInv
<1>. QED
  BY <1>1, <1>2, PTL DEF Spec

(* The types hold: no more connections than the bound, at most one table   *)
(* entry per Manager, and a reconnect delay that Manager.loop doubles but  *)
(* never takes out of ReconnectMin..ReconnectMax.                          *)
THEOREM TypeCorrect == Spec => []TypeOK
<1>1. IInv => TypeOK
  <2>. SUFFICES ASSUME IInv PROVE TypeOK
    OBVIOUS
  <2>1. /\ mgr \in [Peers -> ManagerType]
        /\ \A p \in Peers : Generation(p) <= MaxConnections
        /\ \A p \in Peers : \A g \in DOMAIN conn[p] : conn[p][g] \in LinkType
        /\ call \in [Callers -> CallType]
        /\ closing \in BOOLEAN
    BY Domains DEF IInv, Typing
  <2>2. \A i, j \in DOMAIN table : table[i].peer = table[j].peer => i = j
    BY DEF IInv, Tabled
  <2>. QED
    BY <2>1, <2>2, Zenon DEF TypeOK, ManagerType, LinkType, CallType
<1>. QED
  BY <1>1, Invariance, PTL

(* PeerTable.Select routes by what the peer announced on the connection    *)
(* that Manager.RoundTrip then uses: an entry that is ready, of a manager  *)
(* that is ready, is of the manager's current generation.                  *)
THEOREM RoutesCurrent == Spec => []RouteCurrent
<1>1. IInv => RouteCurrent
  <2>. SUFFICES ASSUME IInv, NEW i \in DOMAIN table, table[i].ready, Ready(table[i].peer)
                PROVE  /\ table[i].gen = Generation(table[i].peer)
                       /\ mgr[table[i].peer].rt = table[i].gen
                       /\ table[i].cap = conn[table[i].peer][table[i].gen].cap
    BY DEF RouteCurrent
  <2>1. EntryInv(table[i]) /\ ManagerInv(table[i].peer)
    BY TableTyped DEF IInv, Entries, Managers
  <2>. QED
    BY <2>1 DEF EntryInv, ManagerInv, Ready
<1>. QED
  BY <1>1, Invariance, PTL

(* The sends of tcpRT.deliver and failAll never block, however many        *)
(* callers share the connection and whatever answers come late or twice:   *)
(* the lookup in the pending map lets only the first of them through to    *)
(* the channel of a RoundTrip, which has room for one result.              *)
THEOREM ResultsOnce == Spec => []OneResult
<1>1. IInv => OneResult
  BY DEF IInv, Calls, CallInv, OneResult
<1>. QED
  BY <1>1, Invariance, PTL

(* A RoundTrip that waits is in the pending map, has its answer on the way *)
(* in deliver or has its result, and every entry of the map is somebody's: *)
(* failAll, deliver and remove leave neither a caller without a wake-up    *)
(* nor an entry without a caller.                                          *)
THEOREM NoWakeupLost == Spec => []NoLostWakeup
<1>1. IInv => NoLostWakeup
  BY Zenon DEF IInv, Calls, CallInv, Owned, NoLostWakeup, Enqueued, Awaited, Link
<1>. QED
  BY <1>1, Invariance, PTL

(* A Manager whose loop has ended has closed every connection it dialled   *)
(* and is routed to no more, wherever Close found the loop.                *)
THEOREM StopsClean == Spec => []StoppedClean
<1>1. IInv => StoppedClean
  BY NotAlive DEF IInv, Links, LinkInv, StoppedClean, Alive
<1>. QED
  BY <1>1, Invariance, PTL
===============================================================================
