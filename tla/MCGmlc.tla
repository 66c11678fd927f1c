-------------------------------- MODULE MCGmlc --------------------------------
(***************************************************************************)
(* An instance of Gmlc: one request, and configuration files that are      *)
(* plain but for one section.                                              *)
(***************************************************************************)
EXTENDS Gmlc

CONSTANT k1

OneKey == {k1}

MCLower(s) ==
    CASE s \in {"INFO", "Info"} -> "info" [] s = "DRA" -> "dra" [] s = "HOST:1" -> "host:1" [] OTHER -> s

MCUpper(s) == IF s = "normal" THEN "NORMAL" ELSE s

Peer == [name |-> "dra", address |-> "host:1", transport |-> "tcp"]

Lcs == [id |-> "a", token |-> "t", services |-> <<"immediate">>, prefixes |-> <<<<4, 9>>>>,
        type |-> "", privacy |-> ""]

(* Everything optional is left out *)
Plain ==
    [logging |-> [file |-> "log", level |-> ""],
     mlp |-> [listen |-> ":1", sync |-> 0, maxSync |-> 0, shutdown |-> 0],
     reporting |-> [enabled |-> FALSE, standardURL |-> "", standardID |-> "",
                    emergencyURL |-> "", emergencyID |-> "", timeout |-> 0],
     database |-> [path |-> "db", busy |-> 0, synchronous |-> "", checkpoint |-> 1],
     retention |-> [request |-> 1, result |-> 1, interval |-> 0],
     clients |-> <<Lcs>>,
     diameter |-> [originHost |-> "h", originRealm |-> "r", hostIP |-> "ip", hssRealm |-> "",
                   connect |-> 1, request |-> 1, reconnectMin |-> 1, reconnectMax |-> 1,
                   watchdog |-> 1, watchdogTimeout |-> 1, shutdown |-> 1, peers |-> <<Peer>>],
     delivery |-> [enabled |-> TRUE, attempts |-> 0, min |-> 0, max |-> 0, timeout |-> 0, keyBytes |-> 32]]

Texts == {"", "x"}

Clients ==
    {<<>>, <<Lcs, Lcs>>, <<Lcs, [Lcs EXCEPT !.id = "b"]>>}
      \cup {<<[Lcs EXCEPT !.type = t, !.privacy = p]>> :
              t \in {"", "emergency_services", "lawful_intercept_services", "other"},
              p \in {"", "not_allowed", "other"}}
      \cup {<<[Lcs EXCEPT !.prefixes = p]>> : p \in {<<>>, <<<<>>>>, <<<<4>>, <<4, 10>>>>}}
      \cup {<<[Lcs EXCEPT !.id = i, !.token = t]>> : i \in {"", "a"}, t \in {"", "t"}}

Peers ==
    {<<>>, <<Peer, [Peer EXCEPT !.name = "DRA", !.address = "host:2"]>>}
      \cup {<<Peer, [Peer EXCEPT !.name = "mme", !.address = a, !.transport = t]>> :
              a \in {"HOST:1", "host:2"}, t \in {"tcp", "sctp", "udp"}}

Diameters ==
    {[Plain.diameter EXCEPT !.peers = p] : p \in Peers}
      \cup {[Plain.diameter EXCEPT !.originRealm = o, !.hssRealm = h] : o, h \in {"", " ", "r"}}
      \cup {[Plain.diameter EXCEPT !.reconnectMin = m, !.reconnectMax = n] : m, n \in 0..2}
      \cup {[Plain.diameter EXCEPT !.watchdog = 0]}

Deliveries ==
    [enabled : BOOLEAN, attempts : {0}, min : {0, 2, 400}, max : {0, 1, 400}, timeout : {0},
     keyBytes : {0, 32}]

Configs ==
    {[Plain EXCEPT !.logging.level = l] : l \in {"", "INFO", "loud"}}
      \cup {[Plain EXCEPT !.mlp = [listen |-> ":1", sync |-> s, maxSync |-> m, shutdown |-> 0]] :
              s, m \in {-1, 0, 30, 90}}
      \cup {[Plain EXCEPT !.reporting = [enabled |-> TRUE, standardURL |-> s, standardID |-> i,
                                         emergencyURL |-> u, emergencyID |-> d, timeout |-> 0]] :
              s, i, u, d \in Texts}
      \cup {[Plain EXCEPT !.database = [path |-> p, busy |-> 0, synchronous |-> s, checkpoint |-> 1]] :
              p \in {"", ":memory:", "db"}, s \in {"", "normal", "fast"}}
      \cup {[Plain EXCEPT !.retention = [request |-> r, result |-> 1, interval |-> i]] :
              r \in 0..1, i \in {-1, 0, 60}}
      \cup {[Plain EXCEPT !.clients = c] : c \in Clients}
      \cup {[Plain EXCEPT !.diameter = d] : d \in Diameters}
      \cup {[Plain EXCEPT !.delivery = d] : d \in Deliveries}

MCFiles == [obsolete : {FALSE}, unknown : {FALSE}, config : Configs]
             \cup {[obsolete |-> TRUE, unknown |-> TRUE, config |-> Plain],
                   [obsolete |-> FALSE, unknown |-> TRUE, config |-> Plain]}

(* Delivery on or off, and nothing else *)
TwoFiles == {[obsolete |-> FALSE, unknown |-> FALSE, config |-> [Plain EXCEPT !.delivery.enabled = e]] :
               e \in BOOLEAN}
===============================================================================
