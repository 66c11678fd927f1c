-------------------------------- MODULE Config --------------------------------
(***************************************************************************)
(* internal/config: what Load makes of a configuration file, and what the  *)
(* constructors main calls with it do to the same values.                  *)
(*                                                                         *)
(* A duration is a number of seconds, and an option that the file leaves   *)
(* out has Go's zero value, 0 or "".  The encryption key is the number of  *)
(* bytes it decodes to, -1 if it is no hexadecimal.  A prefix is a         *)
(* sequence of digits 0..9, 10 being any other character.                  *)
(***************************************************************************)
EXTENDS Integers, Sequences

CONSTANTS
    Lower(_),   \* strings.ToLower
    Upper(_)    \* strings.ToUpper

-------------------------------------------------------------------------------
(* The structs, as far as Load looks at them *)

PeerSettings == [name : STRING, address : STRING, transport : STRING]

ClientSettings ==
    [id : STRING, token : STRING, services : Seq(STRING), prefixes : Seq(Seq(0..10)),
     type : STRING, privacy : STRING]

DeliverySettings ==
    [enabled : BOOLEAN, attempts : Int, min : Int, max : Int, timeout : Int, keyBytes : Int]

Settings ==
    [logging : [file : STRING, level : STRING],
     mlp : [listen : STRING, sync : Int, maxSync : Int, shutdown : Int],
     reporting : [enabled : BOOLEAN, standardURL : STRING, standardID : STRING,
                  emergencyURL : STRING, emergencyID : STRING, timeout : Int],
     database : [path : STRING, busy : Int, synchronous : STRING, checkpoint : Int],
     retention : [request : Int, result : Int, interval : Int],
     clients : Seq(ClientSettings),
     diameter : [originHost : STRING, originRealm : STRING, hostIP : STRING, hssRealm : STRING,
                 connect : Int, request : Int, reconnectMin : Int, reconnectMax : Int,
                 watchdog : Int, watchdogTimeout : Int, shutdown : Int, peers : Seq(PeerSettings)],
     delivery : DeliverySettings]

-------------------------------------------------------------------------------
(* applyDefaults *)

Positive(v, default) == IF v <= 0 THEN default ELSE v

NonEmpty(s, default) == IF s = "" THEN default ELSE s

(* Mutant: no default for the interval of the purge *)
DefaultRetention_NoInterval(r) == r

DefaultRetention(r) == [r EXCEPT !.interval = Positive(@, 3600)]

DefaultMLP(m) ==
    [m EXCEPT !.sync = Positive(@, 20), !.maxSync = Positive(@, 60), !.shutdown = Positive(@, 10)]

DefaultClient(c) ==
    [c EXCEPT !.type = NonEmpty(@, "value_added_services"),
              !.privacy = NonEmpty(@, "allowed_without_notification")]

DefaultDelivery(d) ==
    LET min == Positive(d.min, 1)
    IN [d EXCEPT !.attempts = Positive(@, 5), !.min = min,
                 !.max = IF @ < min THEN 300 ELSE @, !.timeout = Positive(@, 10)]

ApplyDefaults(c) ==
    [logging |-> [c.logging EXCEPT !.level = NonEmpty(@, "info")],
     mlp |-> DefaultMLP(c.mlp),
     reporting |-> [c.reporting EXCEPT !.timeout = Positive(@, 10)],
     database |-> [c.database EXCEPT !.busy = Positive(@, 5), !.synchronous = NonEmpty(@, "FULL")],
     retention |-> DefaultRetention(c.retention),
     clients |-> [i \in 1..Len(c.clients) |-> DefaultClient(c.clients[i])],
     diameter |-> [c.diameter EXCEPT !.hssRealm = NonEmpty(@, c.diameter.originRealm)],
     delivery |-> DefaultDelivery(c.delivery)]

-------------------------------------------------------------------------------
(* Validate, section by section *)

ValidLogging(l) == l.file # "" /\ Lower(l.level) \in {"debug", "info", "warn", "error"}

ValidMLP(m) ==
    /\ m.listen # ""
    /\ m.sync > 0 /\ m.maxSync > 0 /\ m.sync <= m.maxSync
    /\ m.shutdown > 0

ValidReporting(r) ==
    r.enabled =>
        /\ r.standardURL # "" \/ r.emergencyURL # ""
        /\ (r.standardURL = "") = (r.standardID = "")
        /\ (r.emergencyURL = "") = (r.emergencyID = "")
        /\ r.timeout > 0

ValidStore(c) ==
    /\ c.database.path # "" /\ c.database.checkpoint > 0
    /\ c.retention.request > 0 /\ c.retention.result > 0

ValidPeer(p) == p.name # "" /\ p.address # "" /\ p.transport \in {"tcp", "sctp"}

(* The two maps of lower-case keys *)
Distinct(peers) ==
    \A i, j \in 1..Len(peers) : i # j =>
        /\ Lower(peers[i].name) # Lower(peers[j].name)
        /\ peers[i].transport # peers[j].transport \/ Lower(peers[i].address) # Lower(peers[j].address)

ValidDiameter(d) ==
    /\ d.originHost # "" /\ d.originRealm # "" /\ d.hostIP # "" /\ Len(d.peers) > 0
    /\ d.connect > 0 /\ d.request > 0
    /\ d.reconnectMin > 0 /\ d.reconnectMax >= d.reconnectMin
    /\ d.watchdog > 0 /\ d.watchdogTimeout > 0 /\ d.shutdown > 0
    /\ \A i \in 1..Len(d.peers) : ValidPeer(d.peers[i])
    /\ Distinct(d.peers)

(* clientTypeValues and privacyCheckValues, by the numbers of TS 29.172 *)
ClientTypes == {"emergency_services", "value_added_services", "plmn_operator_services",
                "lawful_intercept_services"}

PrivacyChecks == {"allowed_without_notification", "allowed_with_notification",
                  "allowed_if_no_response", "restricted_if_no_response", "not_allowed"}

(* strings.Trim(p, "0123456789") leaves nothing *)
Numeric(p) == \A i \in 1..Len(p) : p[i] \in 0..9

ValidClient(c) ==
    /\ c.id # "" /\ c.token # ""
    /\ Len(c.services) > 0 /\ Len(c.prefixes) > 0
    /\ \A i \in 1..Len(c.prefixes) : Numeric(c.prefixes[i])
    /\ c.type \in ClientTypes /\ c.privacy \in PrivacyChecks

ValidClients(cs) ==
    /\ Len(cs) > 0
    /\ \A i \in 1..Len(cs) : ValidClient(cs[i])
    /\ \A i, j \in 1..Len(cs) : cs[i].id = cs[j].id => i = j

Validate(c) ==
    /\ ValidLogging(c.logging) /\ ValidMLP(c.mlp) /\ ValidReporting(c.reporting)
    /\ ValidStore(c) /\ ValidDiameter(c.diameter) /\ ValidClients(c.clients)
    /\ c.delivery.enabled => c.delivery.keyBytes = 32

(* Load returns no error: rejectObsoleteDiameterKeys and the strict        *)
(* decoder let the file pass, and what it says is valid with the defaults  *)
Accepted(f) == ~f.obsolete /\ ~f.unknown /\ Validate(ApplyDefaults(f.config))

Load(f) == ApplyDefaults(f.config)

-------------------------------------------------------------------------------
(* What main hands on *)

(* A Go map has 0 for a name it does not hold: EMERGENCY_SERVICES *)
ClientTypeValue(c) ==
    CASE c.type = "value_added_services" -> 1
      [] c.type = "plmn_operator_services" -> 2
      [] c.type = "lawful_intercept_services" -> 3
      [] OTHER -> 0

(* delivery.New has defaults of its own *)
DeliveryNew(d) ==
    LET min == IF d.min <= 0 THEN 1 ELSE d.min
    IN [d EXCEPT !.attempts = IF @ <= 0 THEN 5 ELSE @, !.min = min,
                 !.max = IF @ < min THEN 300 ELSE @, !.timeout = IF @ <= 0 THEN 10 ELSE @]

(* sqlite.Open: what it refuses about the configuration *)
Opens(d) == d.path # ":memory:" /\ Upper(d.synchronous) \in {"FULL", "NORMAL", "OFF"}

(* slh.New and slg.New return no error; a realm may still be blank *)
RoutingIdentity(d) == /\ d.originHost \notin {"", " "} /\ d.originRealm \notin {"", " "}
                      /\ d.hssRealm \notin {"", " "}
===============================================================================
