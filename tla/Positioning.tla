----------------------------- MODULE Positioning -----------------------------
(***************************************************************************)
(* What one location request says, from the MLP element that asks for it   *)
(* to the pos that answers it: parsing and authorization (internal/mlp,    *)
(* internal/service, internal/auth), the columns of location_requests      *)
(* (internal/storage/sqlite), the Routing-Info and Provide-Location        *)
(* messages the worker has the SLh and SLg clients send, the answers they  *)
(* accept, the result row, and the coordinates of the answer.              *)
(*                                                                         *)
(* RequestQueue has the same worker with every interleaving and no data;   *)
(* this module has the data and one request.  An AVP that may be repeated  *)
(* is a sequence; a message's header and identifiers are two Booleans, as  *)
(* the clients only compare them with what they sent.                      *)
(***************************************************************************)
EXTENDS Codecs, Domain

CONSTANTS
    None,         \* an absent element, column or message
    Garbled,      \* a hor_acc that is not a number
    Slirs,        \* the requests clients may send
    RIAs,         \* Routing-Info-Answers the network may send
    PLAs,         \* Provide-Location-Answers the network may send
    TargetPrefixes, \* the client's target_prefixes
    ClientType,   \* the client's configured LCS-Client-Type
    PrivacyCheck, \* and LCS-Privacy-Check
    MaxAttempts   \* orchestrator.maxAttempts

ASSUME AttemptsAssumption == MaxAttempts \in Nat \ {0}
ASSUME AVPsAssumption ==
    /\ \A a \in RIAs : a.nodes \in Seq([names : Seq(STRING), realms : Seq(STRING)])
    /\ \A a \in PLAs : a.estimates \in Seq([typed : BOOLEAN, raw : Seq(0..255)])
ASSUME ElementsAssumption == \A s \in Slirs : s.value \in Seq(Nat) /\ s.horAcc \in Int \cup {None, Garbled}
ASSUME AbsentAssumption == None \notin {"", "DELAY_TOL", "LOW_DELAY", "NO_DELAY"}
ASSUME NoneAssumption ==
    /\ None \notin Int
    /\ \A h \in 0..MaxUncertaintyCode \cup {s.horAcc : s \in Slirs} \cup {None}, t \in {None, 0, 1} :
        None # [hAcc |-> h, respTime |-> t]
(* Arithmetic of the exponents that occur, of which the prover knows nothing *)
ASSUME PowersAssumption ==
    /\ \A k \in 0..(MaxUncertaintyCode + 1) : Powers(k)
    /\ \A a \in PLAs : \A i \in 1..Len(a.estimates) :
        Len(a.estimates[i].raw) = 8 => Powers(a.estimates[i].raw[8] % 128)

VARIABLES
    asked,   \* the slir
    row,     \* its row of location_requests, with the location_results row
    pc,      \* where Worker.one and the handler are
    node,    \* the serving node Worker.one resolved
    rir,     \* the messages of this attempt
    ria,
    plr,
    pla,
    last,    \* how the last failed call ended: where, after which answer,
             \* with which error
    pos      \* the answer to the client

attempt == <<node, rir, ria, plr, pla>>

vars == <<asked, row, pc, attempt, last, pos>>

NoFailure == [stage |-> "none", answer |-> None, err |-> "none"]

Init ==
    /\ asked = None /\ row = None /\ pc = "idle" /\ pos = None /\ last = NoFailure
    /\ node = None /\ rir = None /\ ria = None /\ plr = None /\ pla = None

-------------------------------------------------------------------------------
(* internal/mlp, internal/service, internal/auth *)

(* msidToTarget: the DTD's default type is MSISDN *)
Kind(s) == IF s.type = "IMSI" THEN "imsi" ELSE "msisdn"

(* Target.Validate, for the one identity a target has here *)
Validate(value) == Len(value) \in 1..15 /\ IsDigits(value)

(* Authorizer.Authenticate and Authorize: the token and the grant of the   *)
(* service are one outcome                                                 *)
Authorized(s) ==
    /\ s.authentic
    /\ \E p \in TargetPrefixes : Len(p) <= Len(s.value) /\ SubSeq(s.value, 1, Len(p)) = p

(* resolveImmediate and Submit go through to CreateRequest *)
Accepted(s) ==
    /\ s.type \in {"", "MSISDN", "IMSI"}
    /\ s.locType \in {"", "CURRENT", "CURRENT_OR_LAST"}
    /\ s.crs \in {"", "4326"}
    /\ s.horAcc # Garbled
    /\ s.respReq \in {None, "", "DELAY_TOL", "LOW_DELAY", "NO_DELAY"}
    /\ Validate(s.value)
    /\ Authorized(s)

(* parseLocType: domain.LocationCurrent or LocationCurrentOrLastKnown *)
ParseLocType(s) == IF s.locType = "CURRENT_OR_LAST" THEN 1 ELSE 0

(* parsePrio: LCS-Priority 0 is the highest, and only HIGH is sent *)
ParsePrio(s) == IF s.prio = "HIGH" THEN 0 ELSE None

(* The domain.ResponseTime class of a resp_req; an empty one is DELAY_TOL *)
RespTime(s) ==
    CASE s.respReq = None -> None
      [] s.respReq \in {"", "DELAY_TOL"} -> 1
      [] s.respReq \in {"LOW_DELAY", "NO_DELAY"} -> 0

(* parseEQoP: the accuracy and the response time *)
ParseEQoP(s) == [hAcc |-> s.horAcc, respTime |-> RespTime(s)]

(* CreateRequest; qosColumns stores a field that is not set as NULL *)
CreateRequest(s) ==
    [state |-> "queued", code |-> "none", attempts |-> 0, result |-> None,
     kind |-> Kind(s), value |-> s.value, locationType |-> ParseLocType(s),
     priority |-> ParsePrio(s), qos |-> ParseEQoP(s)]

HandleSLIR ==
    /\ pc = "idle"
    /\ \E s \in Slirs :
        /\ asked' = s
        /\ \/ /\ Accepted(s)
              /\ row' = CreateRequest(s)
              /\ pc' = "queued" /\ pos' = None
           \/ /\ ~Accepted(s)
              /\ pc' = "answered" /\ pos' = [kind |-> "refused"]
              /\ row' = row
    /\ UNCHANGED <<attempt, last>>

-------------------------------------------------------------------------------
(* internal/orchestrator *)

ClaimNextQueued ==
    /\ pc = "queued"
    /\ pc' = "resolving"
    /\ row' = [row EXCEPT !.state = "resolving", !.attempts = @ + 1]
    /\ UNCHANGED <<asked, attempt, last, pos>>

(* Worker.handleError with the store's Requeue and FailRequest.  The       *)
(* attempt's locals end with it.                                           *)
HandleError(e, answer) ==
    /\ last' = [stage |-> row.state, answer |-> answer, err |-> e]
    /\ \/ /\ e \in Transient /\ row.attempts < MaxAttempts
          /\ row' = [row EXCEPT !.state = "queued", !.code = "temporarily_unavailable"]
          /\ pc' = "queued"
       \/ /\ e \in Transient /\ row.attempts >= MaxAttempts
          /\ row' = [row EXCEPT !.state = "failed", !.code = "temporarily_unavailable"]
          /\ pc' = "settled"
       \/ /\ e \notin Transient
          /\ row' = [row EXCEPT !.state = "failed", !.code = "network_failure"]
          /\ pc' = "settled"
    /\ node' = None /\ rir' = None /\ ria' = None /\ plr' = None /\ pla' = None
    /\ UNCHANGED <<asked, pos>>

(* How a round trip that brings no answer ends *)
RoundTripErrors == {"ErrUnavailable", "ErrConnectionLost", "DeadlineExceeded", "permanent"}

-------------------------------------------------------------------------------
(* internal/slh *)

(* validateTarget *)
Resolvable == row.kind = "imsi" => Len(row.value) >= 6

(* The identity AVPs of a RIR or a PLR *)
Identity == IF row.kind = "imsi" THEN [imsi |-> row.value, msisdn |-> None]
            ELSE [imsi |-> None, msisdn |-> EncodeMSISDN(row.value)]

(* ResolveServingNode up to the round trip: the target may be unusable,    *)
(* and the registry may know no route                                      *)
SendRIR ==
    /\ pc = "resolving"
    /\ \/ /\ Resolvable
          /\ rir' = Identity
          /\ pc' = "rir"
          /\ UNCHANGED <<asked, row, node, ria, plr, pla, last, pos>>
       \/ HandleError("permanent", None)

(* Mutant: the SLh client reports a timeout as such *)
ResolveError_RawDeadline(e) == e

(* Its own deadline is slh.ErrTimeout, which handleError does not retry *)
ResolveError(e) == IF e = "DeadlineExceeded" THEN "permanent" ELSE e

ResolveFails ==
    /\ pc = "rir"
    /\ \E e \in RoundTripErrors : HandleError(ResolveError(e), None)

(* resultError, and the same rule in DecodePLA: one Result-Code, 2001, and *)
(* no Experimental-Result                                                  *)
Success(a) == a.base = <<2001>> /\ a.exp = <<>>

(* DecodeRIA returns no error: one Serving-Node with one MME-Name and at   *)
(* most one MME-Realm, none of them blank                                  *)
AcceptsRIA(a) ==
    /\ a.answer /\ a.own /\ Success(a)
    /\ Len(a.nodes) = 1
    /\ Len(a.nodes[1].names) = 1 /\ a.nodes[1].names[1] # ""
    /\ Len(a.nodes[1].realms) <= 1
    /\ \A i \in 1..Len(a.nodes[1].realms) : a.nodes[1].realms[i] # ""

(* The realm is "" when the answer has none *)
DecodeRIA(a) ==
    [host |-> a.nodes[1].names[1],
     realm |-> IF a.nodes[1].realms = <<>> THEN "" ELSE a.nodes[1].realms[1]]

(* DecodeRIA and SaveServingNodeAndLocate *)
ReceiveRIA ==
    /\ pc = "rir"
    /\ \E a \in RIAs :
        \/ /\ AcceptsRIA(a)
           /\ ria' = a /\ node' = DecodeRIA(a)
           /\ row' = [row EXCEPT !.state = "locating"]
           /\ pc' = "locating"
           /\ UNCHANGED <<asked, rir, plr, pla, last, pos>>
        \/ ~AcceptsRIA(a) /\ HandleError("permanent", a)

-------------------------------------------------------------------------------
(* internal/slg *)

(* BuildPLR's check of the node: it needs the realm too *)
Routable == node.host # "" /\ node.realm # ""

(* scanQoS: the request has a QoS only if some column is set *)
ScanQoS(columns) ==
    IF columns.hAcc = None /\ columns.respTime = None THEN None ELSE columns

(* qosGroup: no group when nothing was asked *)
QoSGroup(q) ==
    IF q = None THEN None
    ELSE [hAcc |-> IF q.hAcc = None THEN None ELSE EncodeUncertaintyValue(q.hAcc),
          respTime |-> q.respTime]

(* supportedGADShapesMask, by the sequential numbers of TS 29.172 7.4.12 *)
SupportedGADShapes == {0, 1, 2, 3}

(* BuildPLR.  If the client's record cannot be read, Worker.one falls back *)
(* to VALUE_ADDED_SERVICES and sends no privacy check.                      *)
BuildPLR(known) ==
    [host |-> node.host, realm |-> node.realm, identity |-> Identity,
     locationType |-> row.locationType, priority |-> row.priority,
     qos |-> QoSGroup(ScanQoS(row.qos)), shapes |-> SupportedGADShapes,
     clientType |-> IF known THEN ClientType ELSE 1,
     privacy |-> IF known THEN PrivacyCheck ELSE None]

(* ProvideLocation up to the round trip *)
SendPLR ==
    /\ pc = "locating"
    /\ \/ /\ Routable
          /\ \E known \in BOOLEAN : plr' = BuildPLR(known)
          /\ pc' = "plr"
          /\ UNCHANGED <<asked, row, node, rir, ria, pla, last, pos>>
       \/ HandleError("permanent", None)

(* The round trip's error is returned as it is *)
LocateFails ==
    /\ pc = "plr"
    /\ \E e \in RoundTripErrors : HandleError(e, None)

(* decodePositioningPayload: a Location-Estimate after one that was not    *)
(* empty is a contradiction; of the rest the last one counts.  A mistyped  *)
(* velocity, age or other AVP is refused as a mistyped estimate is.        *)
AcceptsPayload(a) ==
    /\ \A i \in 1..Len(a.estimates) : a.estimates[i].typed
    /\ \A i \in 1..(Len(a.estimates) - 1) : a.estimates[i].raw = <<>>
    /\ \A i \in 1..Len(a.ecgis) : a.ecgis[i] = 7

RawLocationEstimate(a) == IF a.estimates = <<>> THEN <<>> ELSE a.estimates[Len(a.estimates)].raw

(* Mutant: the identifiers of the answer are not compared *)
AcceptsPLA_AnyAnswer(a) ==
    /\ a.answer /\ Success(a) /\ AcceptsPayload(a)
    /\ RawLocationEstimate(a) # <<>> => Decodes(RawLocationEstimate(a))

(* DecodePLA returns no error *)
AcceptsPLA(a) ==
    /\ a.answer /\ a.own /\ Success(a) /\ AcceptsPayload(a)
    /\ RawLocationEstimate(a) # <<>> => Decodes(RawLocationEstimate(a))

(* positionFromGAD and the result Worker.one stores: a polygon has no      *)
(* centre, and only a circle has an uncertainty radius                     *)
Result(raw) ==
    IF raw = <<>> \/ Shape(raw) = Polygon THEN [raw |-> raw, centre |-> None, radius |-> None]
    ELSE [raw |-> raw, centre |-> Centre(raw),
          radius |-> IF Shape(raw) = UncertaintyCircle THEN UncertaintyMeters(raw[8]) ELSE None]

(* DecodePLA, and what Worker.one makes of it: CompleteRequest, or         *)
(* FailRequest for an answer with neither an estimate nor an ECGI          *)
ReceivePLA ==
    /\ pc = "plr"
    /\ \E a \in PLAs :
        \/ /\ AcceptsPLA(a)
           /\ pla' = a
           /\ row' = IF RawLocationEstimate(a) = <<>> /\ a.ecgis = <<>>
                     THEN [row EXCEPT !.state = "failed", !.code = "no_immediate_result"]
                     ELSE [row EXCEPT !.state = "completed", !.result = Result(RawLocationEstimate(a))]
           /\ pc' = "settled"
           /\ UNCHANGED <<asked, node, rir, ria, plr, last, pos>>
        \/ ~AcceptsPLA(a) /\ HandleError("permanent", a)

-------------------------------------------------------------------------------
(* internal/mlp *)

BuildPos ==
    /\ pc = "settled"
    /\ pos' = IF row.state = "completed" /\ row.result.centre # None
              THEN [kind |-> "pd",
                    x |-> EncodeDMSH(row.result.centre.lat, LatitudeStep, "N", "S"),
                    y |-> EncodeDMSH(row.result.centre.lon, LongitudeStep, "E", "W"),
                    radius |-> IF row.result.radius = None THEN 0 ELSE row.result.radius]
              ELSE [kind |-> "poserr"]
    /\ pc' = "answered"
    /\ UNCHANGED <<asked, row, attempt, last>>

Next ==
    \/ HandleSLIR \/ ClaimNextQueued
    \/ SendRIR \/ ResolveFails \/ ReceiveRIA
    \/ SendPLR \/ LocateFails \/ ReceivePLA
    \/ BuildPos

Spec == Init /\ [][Next]_vars

-------------------------------------------------------------------------------
(* Properties *)

Located == pos # None /\ pos.kind = "pd"

(* The estimate of the accepted answer *)
Estimate == RawLocationEstimate(pla)

(* The errors the two clients return are the ones RequestQueue gives its   *)
(* worker: a deadline never comes from the resolver (ResolveServingNode,   *)
(* ProvideLocation), and a request is queued again only after a call that  *)
(* brought no answer (handleError): what the network answered is final.    *)
AnswersAreFinal ==
    /\ last.stage = "resolving" => last.err \in ResolverErrors
    /\ last.stage = "locating" => last.err \in ProviderErrors
    /\ last.answer # None => row.state = "failed" /\ row.code = "network_failure"

(* A position answered to the client is the one non-empty Location-Estimate *)
(* of a successful answer to the PLR of this attempt (DecodePLA,            *)
(* decodePositioningPayload); that PLR named the subscriber of the RIR and  *)
(* went to the only MME that a successful answer to the RIR named           *)
(* (DecodeRIA, BuildPLR).                                                   *)
PositionTraceable ==
    Located =>
        /\ pla.own /\ Success(pla)
        /\ \E i \in 1..Len(pla.estimates) :
             /\ pla.estimates[i].raw # <<>>
             /\ \A j \in 1..Len(pla.estimates) \ {i} : pla.estimates[j].raw = <<>>
        /\ plr.identity = rir
        /\ ria.own /\ Success(ria) /\ ria.nodes = <<[names |-> <<plr.host>>, realms |-> <<plr.realm>>]>>

(* The network is asked what the client asked: both messages carry the     *)
(* digits of the msid, as DecodeMSISDN reads them, and the PLR carries the *)
(* location type, the priority and the response time of the request, after *)
(* the columns of location_requests, on every attempt; no LCS-QoS goes out *)
(* when none was asked (parseEQoP, qosColumns, scanQoS, qosGroup).  The    *)
(* client's type and privacy check go out together or not at all.          *)
RequestCarried ==
    /\ rir # None =>
        IF asked.type = "IMSI" THEN rir = [imsi |-> asked.value, msisdn |-> None]
        ELSE /\ rir.imsi = None
             /\ IsTBCD(rir.msisdn) /\ DecodeMSISDN(rir.msisdn) = asked.value
    /\ plr # None =>
        /\ plr.locationType = 1 <=> asked.locType = "CURRENT_OR_LAST"
        /\ plr.priority = 0 <=> asked.prio = "HIGH"
        /\ plr.qos = None <=> (asked.horAcc = None /\ asked.respReq = None)
        /\ (plr.qos # None /\ plr.qos.respTime = 0) <=> asked.respReq \in {"LOW_DELAY", "NO_DELAY"}
        /\ (plr.qos # None /\ plr.qos.respTime = 1) <=> asked.respReq \in {"", "DELAY_TOL"}
        /\ <<plr.clientType, plr.privacy>> \in {<<ClientType, PrivacyCheck>>, <<1, None>>}

(* "this guarantees the encoded AVP never asks the network for a looser    *)
(* bound than the caller specified" (EncodeUncertaintyValue), also where   *)
(* the logarithms fall short of a code, and the next code stands for at    *)
(* least what was asked; and the radius answered to the client (buildPos)  *)
(* is the one of the estimate's circle to half a metre, and 0 for a point  *)
(* or an ellipse.                                                          *)
AccuracyKept ==
    /\ (plr # None /\ asked.horAcc # None) =>
        IF asked.horAcc <= 0 THEN plr.qos.hAcc = 0
        ELSE /\ Within(plr.qos.hAcc, asked.horAcc)
             /\ plr.qos.hAcc = MaxUncertaintyCode \/ AtLeast(plr.qos.hAcc + 1, asked.horAcc)
    /\ Located =>
        IF Estimate[1] % 16 # 1 THEN pos.radius = 0
        ELSE LET k == Estimate[8] % 128
                 e == (pos.radius + 10) * 10 ^ k - 10 * 11 ^ k
             IN -(10 ^ k) <= 2 * e /\ 2 * e <= 10 ^ k

(* The octets the standard gives a shape of each advertised number *)
StandardLayout(data, number) ==
    CASE number = 0 -> data[1] % 16 = 0 /\ Len(data) = 7
      [] number = 1 -> data[1] % 16 = 1 /\ Len(data) = 8
      [] number = 2 -> data[1] % 16 = 3 /\ Len(data) = 11 /\ data[10] < 180
      [] number = 3 -> data[1] % 16 = 5 /\ data[1] \div 16 \in 3..15 /\ Len(data) = 1 + 6 * (data[1] \div 16)

(* "Keep this in sync with internal/gad's supported shapes"                *)
(* (supportedGADShapesMask): a successful answer to the PLR is refused     *)
(* only if an estimate has no layout the PLR advertised, is repeated or    *)
(* unreadable, or an ECGI has the wrong length; and an estimate that is    *)
(* stored has a layout the PLR advertised.                                 *)
ShapesAsAdvertised ==
    /\ (pla # None /\ Estimate # <<>>) => \E n \in plr.shapes : StandardLayout(Estimate, n)
    /\ (last.stage = "locating" /\ last.answer # None) =>
        LET a == last.answer
        IN (a.answer /\ a.own /\ Success(a) /\ Len(a.estimates) = 1 /\ a.estimates[1].typed) =>
              \/ a.ecgis # <<>>
              \/ \A n \in SupportedGADShapes : ~StandardLayout(a.estimates[1].raw, n)

(* mas is the whole number nearest to code * 1265625 / step *)
Nearest(mas, code, step) ==
    LET rest == code % step
        e == (mas - (code \div step) * 1265625 - rest * (1265625 \div step)) * step
               - rest * (1265625 % step)
    IN -step < 2 * e /\ 2 * e <= step

(* The hemisphere and the thousandths of a second of a coordinate *)
Shows(c, code, step, limit, positiveHemi, negativeHemi) ==
    /\ c.min \in 0..59 /\ c.msec \in Nat /\ c.msec < 60000
    /\ c.hemi = (IF code < 0 THEN negativeHemi ELSE positiveHemi)
    /\ LET total == 3600000 * c.deg + 60000 * c.min + c.msec
       IN total <= limit /\ Nearest(total, IF code < 0 THEN -code ELSE code, step)

(* The coordinates answered to the client are those of the estimate's      *)
(* octets to half a thousandth of a second, less than half of what a code  *)
(* stands for, with minutes and seconds in range ("can't round up into an  *)
(* invalid 60.000", encodeDMSH) and signs in the right hemisphere.         *)
PositionRendered ==
    Located =>
        LET lat == 65536 * Estimate[2] + 256 * Estimate[3] + Estimate[4]
            lon == 65536 * Estimate[5] + 256 * Estimate[6] + Estimate[7]
        IN /\ Shows(pos.x, IF lat < 8388608 THEN lat ELSE 8388608 - lat, 32768, 324000000, "N", "S")
           /\ Shows(pos.y, IF lon < 8388608 THEN lon ELSE lon - 16777216, 16384, 648000000, "E", "W")
===============================================================================
