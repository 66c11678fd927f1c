----------------------------- MODULE DiameterPeers -----------------------------
(***************************************************************************)
(* The Diameter boundary (internal/diameter): one Manager per configured   *)
(* peer that dials, publishes what the peer's CEA announced and redials;   *)
(* the PeerTable that routes a request to a ready peer; the connection     *)
(* (tcpRT) that matches answers to requests by hop-by-hop id; and the      *)
(* Registry that stops it all.                                             *)
(*                                                                         *)
(* A step is what happens under one lock, or up to a channel operation.    *)
(* The peers, the network and the dialling library are external: a dial    *)
(* succeeds or fails, a connection may break at any moment, an answer may  *)
(* come late, more than once or never.                                     *)
(***************************************************************************)
EXTENDS Naturals, Sequences

CONSTANTS
    NPeers,          \* the configured peers are 1..NPeers
    Callers,         \* goroutines that call RoundTrip
    Capabilities,    \* what a CEA may announce: [apps, relay, host, realm]
    Requests,        \* what is routed: [app, host, realm], "" where unknown
    ReconnectMin,
    ReconnectMax,
    MaxConnections,  \* bound: connections of a peer
    MaxCalls         \* bound: calls per caller

ASSUME PeersAssumption ==
    /\ {NPeers, ReconnectMin, ReconnectMax} \subseteq Nat \ {0}
    /\ ReconnectMin <= ReconnectMax
    /\ {MaxConnections, MaxCalls} \subseteq Nat

Peers == 1..NPeers

VARIABLES
    mgr,      \* mgr[p]: the Manager and where its loop is
    conn,     \* conn[p]: the connections dialled so far; the last one has the
              \* Manager's generation
    table,    \* the PeerTable, in order of first appearance
    call,     \* call[c]: the RoundTrip a caller is in
    closing   \* Registry.Close has been called and has not timed out

vars == <<mgr, conn, table, call, closing>>

Connected(capability) ==
    [open |-> TRUE, closed |-> FALSE, loss |-> "none", drained |-> FALSE,
     cap |-> capability, seq |-> 0, pending |-> {}, held |-> {}, sent |-> {}]

NoCall == [pc |-> "idle", peer |-> 0, gen |-> 0, id |-> 0, box |-> <<>>, calls |-> 0]

Init ==
    /\ mgr = [p \in Peers |-> [pc |-> "check", state |-> "down", rt |-> 0,
                               delay |-> ReconnectMin, stop |-> FALSE]]
    /\ conn = [p \in Peers |-> <<>>]
    /\ table = <<>>
    /\ call = [c \in Callers |-> NoCall]
    /\ closing = FALSE

Generation(p) == Len(conn[p])

-------------------------------------------------------------------------------
(* PeerTable *)

(* Upsert, for a peer that is ready *)
Upsert(p, entry) ==
    IF \E i \in DOMAIN table : table[i].peer = p
    THEN [i \in DOMAIN table |->
            IF table[i].peer = p /\ table[i].gen <= entry.gen THEN entry ELSE table[i]]
    ELSE Append(table, entry)

(* Mutant: the withdrawal of a lost connection is not recorded *)
Remove_Ignored(p, gen) == table

(* Remove: only the generation that was lost is withdrawn *)
Remove(p, gen) ==
    [i \in DOMAIN table |->
        IF table[i].peer = p /\ table[i].gen = gen
        THEN [table[i] EXCEPT !.ready = FALSE, !.cap.apps = {}]
        ELSE table[i]]

Ready(p) == mgr[p].state = "ready"

(* Select: the entries that fit the request best come first, the exact     *)
(* host, then the realm, then any peer with the application if no          *)
(* destination is known, then a relay; of those, the first in the table.   *)
(* The set has the index of that entry, or is empty without a route.       *)
Select(r) ==
    LET Usable == {i \in DOMAIN table : table[i].ready /\ Ready(table[i].peer)}
        Direct == {i \in Usable : ~table[i].cap.relay /\ r.app \in table[i].cap.apps}
        exactHost == {i \in Direct : r.host # "" /\ table[i].cap.host = r.host}
        realmDirect == {i \in Direct : r.realm # "" /\ table[i].cap.realm = r.realm}
        anyDirect == {i \in Direct : r.host = "" /\ r.realm = ""}
        relay == {i \in Usable : table[i].cap.relay}
        First(choice) == {i \in choice : \A j \in choice : i <= j}
    IN CASE exactHost # {} -> First(exactHost)
         [] exactHost = {} /\ realmDirect # {} -> First(realmDirect)
         [] exactHost = {} /\ realmDirect = {} /\ anyDirect # {} -> First(anyDirect)
         [] OTHER -> First(relay)

-------------------------------------------------------------------------------
(* Manager.loop *)

Goto(p, pc) == mgr' = [mgr EXCEPT ![p].pc = pc]

(* Mutant: stop is not looked at *)
Check_Unstoppable(p) ==
    /\ mgr[p].pc = "check"
    /\ Goto(p, "connect")
    /\ UNCHANGED <<conn, table, call, closing>>

(* The top of the loop *)
Check(p) ==
    /\ mgr[p].pc = "check"
    /\ Goto(p, IF mgr[p].stop THEN "done" ELSE "connect")
    /\ UNCHANGED <<conn, table, call, closing>>

SetConnecting(p) ==
    /\ mgr[p].pc = "connect"
    /\ mgr' = [mgr EXCEPT ![p].pc = "dial", ![p].state = "connecting", ![p].rt = 0]
    /\ UNCHANGED <<conn, table, call, closing>>

(* dialTransport connects, negotiates, checks the peer's identity; the     *)
(* generation advances                                                     *)
DialSucceeds(p, capability) ==
    /\ mgr[p].pc = "dial"
    /\ Generation(p) < MaxConnections
    /\ conn' = [conn EXCEPT ![p] = Append(@, Connected(capability))]
    /\ Goto(p, "dialled")
    /\ UNCHANGED <<table, call, closing>>

DialFails(p) ==
    /\ mgr[p].pc = "dial"
    /\ Goto(p, "backoff")
    /\ UNCHANGED <<conn, table, call, closing>>

SetReady(p) ==
    /\ mgr[p].pc = "dialled"
    /\ mgr' = [mgr EXCEPT ![p].pc = "publish", ![p].state = "ready", ![p].rt = Generation(p)]
    /\ UNCHANGED <<conn, table, call, closing>>

(* publish(rt, generation, true) *)
Publish(p) ==
    /\ mgr[p].pc = "publish"
    /\ table' = Upsert(p, [peer |-> p, gen |-> Generation(p), ready |-> TRUE,
                           cap |-> conn[p][Generation(p)].cap])
    /\ mgr' = [mgr EXCEPT ![p].pc = "up", ![p].delay = ReconnectMin]
    /\ UNCHANGED <<conn, call, closing>>

(* The select while connected: the connection is lost ... *)
Lost(p) ==
    /\ mgr[p].pc = "up"
    /\ conn[p][Generation(p)].closed
    /\ mgr' = [mgr EXCEPT ![p].pc = "lost", ![p].state = "down", ![p].rt = 0]
    /\ UNCHANGED <<conn, table, call, closing>>

(* ... or the manager is stopped: tcpRT.Close *)
CloseConnection(p) ==
    /\ mgr[p].pc = "up"
    /\ mgr[p].stop
    /\ conn' = [conn EXCEPT ![p][Generation(p)].open = FALSE, ![p][Generation(p)].sent = {}]
    /\ Goto(p, "closing")
    /\ UNCHANGED <<table, call, closing>>

(* publish(rt, generation, false), once failAll has returned if stopping *)
Withdraw(p) ==
    /\ \/ mgr[p].pc = "lost" /\ Goto(p, "check")
       \/ mgr[p].pc = "closing" /\ conn[p][Generation(p)].drained /\ Goto(p, "done")
    /\ table' = Remove(p, Generation(p))
    /\ UNCHANGED <<conn, call, closing>>

(* Mutant: the delay is not capped *)
Backoff_Uncapped(p) ==
    /\ mgr[p].pc = "backoff"
    /\ \/ mgr' = [mgr EXCEPT ![p].pc = "check", ![p].delay = IF @ < ReconnectMax THEN 2 * @ ELSE @]
       \/ mgr[p].stop /\ Goto(p, "done")
    /\ UNCHANGED <<conn, table, call, closing>>

(* The wait before the next dial, doubled up to ReconnectMax, or stopped *)
Backoff(p) ==
    /\ mgr[p].pc = "backoff"
    /\ \/ /\ mgr' = [mgr EXCEPT ![p].pc = "check",
                                ![p].delay = IF 2 * @ > ReconnectMax THEN ReconnectMax ELSE 2 * @]
       \/ /\ mgr[p].stop
          /\ Goto(p, "done")
    /\ UNCHANGED <<conn, table, call, closing>>

-------------------------------------------------------------------------------
(* tcpRT: the connection g of peer p *)

(* The peer, the network or the watchdog ends the connection: no answer    *)
(* comes any more                                                          *)
Break(p, g) ==
    /\ conn[p][g].open
    /\ conn' = [conn EXCEPT ![p][g].open = FALSE, ![p][g].sent = {}]
    /\ UNCHANGED <<mgr, table, call, closing>>

(* failAll, once: by watch, or by Close with ErrShutdown ... *)
FailAll(p, g) ==
    /\ ~conn[p][g].open
    /\ ~conn[p][g].closed
    /\ \E err \in {"ErrConnectionLost", "ErrShutdown"} :
        /\ err = "ErrShutdown" => mgr[p].pc = "closing"
        /\ conn' = [conn EXCEPT ![p][g].closed = TRUE, ![p][g].loss = err]
    /\ UNCHANGED <<mgr, table, call, closing>>

(* The caller's RoundTrip is on that connection: box is its channel, which *)
(* has room for one result                                                 *)
On(c, p, g) == call[c].peer = p /\ call[c].gen = g /\ call[c].pc \in {"writing", "waiting"}

(* Mutant: pending requests are forgotten *)
Drain_Silent(p, g) ==
    /\ conn[p][g].closed
    /\ ~conn[p][g].drained
    /\ conn' = [conn EXCEPT ![p][g].drained = TRUE, ![p][g].pending = {}]
    /\ UNCHANGED <<mgr, table, call, closing>>

(* ... then, under the lock, every pending request gets the error *)
Drain(p, g) ==
    /\ conn[p][g].closed
    /\ ~conn[p][g].drained
    /\ conn' = [conn EXCEPT ![p][g].drained = TRUE, ![p][g].pending = {}]
    /\ call' = [c \in Callers |-> IF On(c, p, g) /\ call[c].id \in conn[p][g].pending
                                  THEN [call[c] EXCEPT !.box = Append(@, conn[p][g].loss)]
                                  ELSE call[c]]
    /\ UNCHANGED <<mgr, table, closing>>

(* Mutant: an answer is passed on even if its request is not pending *)
Deliver_NoLookup(p, g, id) ==
    /\ conn[p][g].open
    /\ id \in conn[p][g].sent
    /\ conn' = [conn EXCEPT ![p][g].pending = @ \ {id}, ![p][g].held = @ \cup {id}]
    /\ UNCHANGED <<mgr, table, call, closing>>

(* deliver: an answer arrives, the first, a late or a second one, and its  *)
(* request's channel, if it is still there, is taken out under the lock ... *)
Deliver(p, g, id) ==
    /\ conn[p][g].open
    /\ id \in conn[p][g].sent
    /\ id \in conn[p][g].pending
    /\ conn' = [conn EXCEPT ![p][g].pending = @ \ {id}, ![p][g].held = @ \cup {id}]
    /\ UNCHANGED <<mgr, table, call, closing>>

(* ... and sent the answer without it, whoever still listens *)
Send(p, g, id) ==
    /\ id \in conn[p][g].held
    /\ conn' = [conn EXCEPT ![p][g].held = @ \ {id}]
    /\ call' = [c \in Callers |-> IF On(c, p, g) /\ call[c].id = id
                                  THEN [call[c] EXCEPT !.box = Append(@, "answer")]
                                  ELSE call[c]]
    /\ UNCHANGED <<mgr, table, closing>>

-------------------------------------------------------------------------------
(* A caller: RoundTripperFor, Manager.RoundTrip, tcpRT.RoundTrip *)

Return(c) == call' = [call EXCEPT ![c] = [NoCall EXCEPT !.calls = call[c].calls]]

Route(c, r) ==
    /\ call[c].pc = "idle"
    /\ call[c].calls < MaxCalls
    /\ \E i \in Select(r) :
        call' = [call EXCEPT ![c].pc = "routed", ![c].peer = table[i].peer, ![c].calls = @ + 1]
    /\ UNCHANGED <<mgr, conn, table, closing>>

(* Manager.RoundTrip reads the connection, or returns ErrShutdown or       *)
(* ErrUnavailable                                                          *)
Take(c) ==
    LET m == mgr[call[c].peer]
    IN /\ call[c].pc = "routed"
       /\ IF m.state = "ready" /\ m.rt # 0
          THEN call' = [call EXCEPT ![c].pc = "taken", ![c].gen = m.rt]
          ELSE Return(c)
       /\ UNCHANGED <<mgr, conn, table, closing>>

Link(c) == conn[call[c].peer][call[c].gen]

Forget(c) == conn' = [conn EXCEPT ![call[c].peer][call[c].gen].pending = @ \ {call[c].id}]

(* A fresh hop-by-hop id becomes pending, unless the connection is closed. *)
Enqueue(c) ==
    /\ call[c].pc = "taken"
    /\ \/ /\ Link(c).closed
          /\ Return(c)
          /\ UNCHANGED conn
       \/ /\ ~Link(c).closed
          /\ conn' = [conn EXCEPT ![call[c].peer][call[c].gen].seq = @ + 1,
                                  ![call[c].peer][call[c].gen].pending = @ \cup {Link(c).seq + 1}]
          /\ call' = [call EXCEPT ![c].pc = "writing", ![c].id = Link(c).seq + 1]
    /\ UNCHANGED <<mgr, table, closing>>

Write(c) ==
    /\ call[c].pc = "writing"
    /\ IF Link(c).open
       THEN /\ conn' = [conn EXCEPT ![call[c].peer][call[c].gen].sent = @ \cup {call[c].id}]
            /\ call' = [call EXCEPT ![c].pc = "waiting"]
       ELSE /\ Forget(c)
            /\ Return(c)
    /\ UNCHANGED <<mgr, table, closing>>

(* The result arrives in the request's own channel. *)
Receive(c) ==
    /\ call[c].pc = "waiting"
    /\ call[c].box # <<>>
    /\ Return(c)
    /\ UNCHANGED <<mgr, conn, table, closing>>

(* Mutant: the context is not waited for *)
GiveUp_Patient(c) ==
    /\ call[c].pc = "waiting"
    /\ Link(c).closed
    /\ Forget(c)
    /\ Return(c)
    /\ UNCHANGED <<mgr, table, closing>>

(* The context is done, or the connection is seen to be closed. *)
GiveUp(c) ==
    /\ call[c].pc = "waiting"
    /\ Forget(c)
    /\ Return(c)
    /\ UNCHANGED <<mgr, table, closing>>

-------------------------------------------------------------------------------
(* Registry.Close: one Manager.Close after the other, until it times out *)

RegistryClose ==
    /\ ~closing
    /\ \A p \in Peers : ~mgr[p].stop
    /\ closing' = TRUE
    /\ UNCHANGED <<mgr, conn, table, call>>

ManagerClose(p) ==
    /\ closing
    /\ ~mgr[p].stop
    /\ \A q \in 1..(p - 1) : mgr[q].pc = "done"
    /\ mgr' = [mgr EXCEPT ![p].stop = TRUE, ![p].state = "stopping", ![p].rt = 0]
    /\ UNCHANGED <<conn, table, call, closing>>

CloseTimesOut ==
    /\ closing
    /\ \E p \in Peers : mgr[p].stop /\ mgr[p].pc # "done"
    /\ closing' = FALSE
    /\ UNCHANGED <<mgr, conn, table, call>>

-------------------------------------------------------------------------------
Loop(p) ==
    \/ Check(p) \/ SetConnecting(p)
    \/ \E capability \in Capabilities : DialSucceeds(p, capability)
    \/ DialFails(p)
    \/ SetReady(p) \/ Publish(p) \/ Lost(p) \/ CloseConnection(p) \/ Withdraw(p) \/ Backoff(p)

Watch(p, g) == FailAll(p, g) \/ Drain(p, g)

Network(p, g) ==
    \/ Break(p, g)
    \/ \E id \in conn[p][g].sent : Deliver(p, g, id)
    \/ \E id \in conn[p][g].held : Send(p, g, id)

RoundTrip(c) == Take(c) \/ Enqueue(c) \/ Write(c) \/ Receive(c) \/ GiveUp(c)

Next ==
    \/ \E p \in Peers : Loop(p) \/ ManagerClose(p)
    \/ \E p \in Peers : \E g \in DOMAIN conn[p] : Watch(p, g) \/ Network(p, g)
    \/ \E c \in Callers : RoundTrip(c) \/ \E r \in Requests : Route(c, r)
    \/ RegistryClose \/ CloseTimesOut

Spec == Init /\ [][Next]_vars

(* Goroutines run, dials and calls carry timeouts; peers owe nothing. *)
FairSpec ==
    /\ Spec
    /\ \A p \in Peers : WF_vars(Loop(p)) /\ WF_vars(ManagerClose(p))
    /\ \A p \in Peers, g \in 1..MaxConnections : WF_vars(g \in DOMAIN conn[p] /\ Watch(p, g))
    /\ \A c \in Callers : WF_vars(RoundTrip(c))

-------------------------------------------------------------------------------
(* Properties *)

Errors == {"ErrConnectionLost", "ErrShutdown"}

(* The types of the managers, connections, table and calls; the delay      *)
(* before a redial stays between ReconnectMin and ReconnectMax.            *)
TypeOK ==
    /\ mgr \in [Peers -> [pc : {"check", "connect", "dial", "dialled", "publish", "up", "lost",
                                "closing", "backoff", "done"},
                          state : {"down", "connecting", "ready", "stopping"},
                          rt : 0..MaxConnections, delay : ReconnectMin..ReconnectMax,
                          stop : BOOLEAN]]
    /\ \A p \in Peers : Generation(p) <= MaxConnections
    /\ \A p \in Peers : \A g \in DOMAIN conn[p] :
        conn[p][g] \in [open : BOOLEAN, closed : BOOLEAN, loss : Errors \cup {"none"},
                        drained : BOOLEAN, cap : Capabilities, seq : Nat,
                        pending : SUBSET Nat, held : SUBSET Nat, sent : SUBSET Nat]
    /\ \A i, j \in DOMAIN table : table[i].peer = table[j].peer => i = j
    /\ call \in [Callers -> [pc : {"idle", "routed", "taken", "writing", "waiting"},
                             peer : 0..NPeers, gen : 0..MaxConnections, id : Nat,
                             box : Seq(Errors \cup {"answer"}), calls : 0..MaxCalls]]
    /\ closing \in BOOLEAN

(* What a table entry says of a peer that both the entry and the manager   *)
(* call ready was announced on the very connection the manager would use:  *)
(* no request is routed by what an earlier connection announced.           *)
RouteCurrent ==
    \A i \in DOMAIN table :
        LET x == table[i] IN
        x.ready /\ Ready(x.peer) =>
            /\ x.gen = Generation(x.peer)
            /\ mgr[x.peer].rt = x.gen
            /\ x.cap = conn[x.peer][x.gen].cap

(* A request gets at most one result, whatever comes late or twice and     *)
(* however an answer races failAll: RoundTrip's channel has room for one,  *)
(* so that a second send, by deliver or by failAll under the lock, would   *)
(* stop the connection's reader for good.                                  *)
OneResult == \A c \in Callers : Len(call[c].box) <= 1

(* Exactly the requests someone still waits for are pending, or have their *)
(* answer on the way in deliver: a caller that is neither nor has its      *)
(* result would wait for its timeout, and a pending entry without a caller *)
(* would stay for the connection's life.                                   *)
NoLostWakeup ==
    /\ \A c \in Callers : call[c].pc \in {"writing", "waiting"} =>
        (call[c].id \in Link(c).pending \cup Link(c).held <=> call[c].box = <<>>)
    /\ \A p \in Peers : \A g \in DOMAIN conn[p] : \A id \in conn[p][g].pending :
        \E c \in Callers : On(c, p, g) /\ call[c].id = id

(* A manager that is done left nothing behind: its connections are closed, *)
(* so nobody waits on them, and the table routes nothing to it.            *)
StoppedClean ==
    \A p \in Peers : mgr[p].pc = "done" =>
        /\ \A g \in DOMAIN conn[p] : ~conn[p][g].open /\ conn[p][g].closed
        /\ \A i \in DOMAIN table : table[i].peer = p => ~table[i].ready

(* Manager.Close is heard: a closed manager stops, whatever its loop was   *)
(* doing, a dial or a wait for the next one included.                      *)
ManagersStop == \A p \in Peers : mgr[p].stop ~> mgr[p].pc = "done"

(* RoundTrip always returns, whatever becomes of the peer, the connection  *)
(* and the answer.                                                         *)
CallsReturn == \A c \in Callers : call[c].pc # "idle" ~> call[c].pc = "idle"
===============================================================================
