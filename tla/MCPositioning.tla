---------------------------- MODULE MCPositioning ----------------------------
(***************************************************************************)
(* An instance of Positioning.  Each element of the messages takes its     *)
(* interesting values while the others are plain; what several elements    *)
(* decide together is combined.                                            *)
(***************************************************************************)
EXTENDS Positioning

-------------------------------------------------------------------------------
(* The client grants targets starting with 0 or 49 *)
MCTargetPrefixes == {<<0>>, <<4, 9>>}

Plain == [type |-> "", value |-> <<4, 9, 1>>, locType |-> "", crs |-> "", prio |-> "",
          horAcc |-> None, respReq |-> None, authentic |-> TRUE]

Long(n) == [i \in 1..n |-> (i - 1) % 10]

(* Odd and even numbers of digits, the shortest and the longest, a         *)
(* character that is no digit (10), and targets outside the grant          *)
Values == {<<>>, <<0>>, <<0, 9>>, <<4, 9, 0>>, <<0, 10>>, <<4>>, <<5, 1>>}
            \cup {Long(n) : n \in {5, 6, 14, 15, 16}}

(* Hundredths of a metre: none, the metres of the codes 1, 2 and 3 (1,     *)
(* 2.1 and 3.31) and next to them, on either side of the others, the       *)
(* largest and beyond                                                      *)
HorAccs == {-100, 0, 1, 99, 100, 101, 209, 210, 211, 330, 331, 332, 464, 465, 610, 611, 771, 772, 1100}

MCSlirs ==
    {[Plain EXCEPT !.type = t, !.value = v] : t \in {"", "MSISDN", "IMSI", "MIN"}, v \in Values}
      \cup {[Plain EXCEPT !.locType = l, !.prio = p] :
              l \in {"", "CURRENT", "CURRENT_OR_LAST", "LAST"}, p \in {"", "NORMAL", "HIGH"}}
      \cup {[Plain EXCEPT !.horAcc = h, !.respReq = r] :
              h \in {None, Garbled} \cup HorAccs,
              r \in {None, "", "DELAY_TOL", "LOW_DELAY", "NO_DELAY", "SOON"}}
      \cup {[Plain EXCEPT !.crs = c, !.authentic = b] : c \in {"", "4326", "3857"}, b \in BOOLEAN}

-------------------------------------------------------------------------------
Answer == [answer |-> TRUE, own |-> TRUE, base |-> <<2001>>, exp |-> <<>>]

(* Result codes: one, none, two, with and without an Experimental-Result;  *)
(* 0 is an Experimental-Result without a code                              *)
Headers ==
    [answer : BOOLEAN, own : BOOLEAN, base : {<<2001>>}, exp : {<<>>}]
      \cup [answer : {TRUE}, own : {TRUE},
            base : {<<>>, <<2001>>, <<5012>>, <<2001, 2001>>, <<2001, 5012>>},
            exp : {<<>>, <<5001>>, <<0>>, <<4221, 4221>>}]

Nodes == [names : {<<"mme1">>}, realms : {<<"epc">>, <<>>}]
           \cup [names : {<<>>, <<"">>, <<"mme2">>, <<"mme1", "mme2">>},
                 realms : {<<"epc">>, <<"">>, <<"epc", "ims">>}]

RIA(h, nodes) == [answer |-> h.answer, own |-> h.own, base |-> h.base, exp |-> h.exp, nodes |-> nodes]

Home == [names |-> <<"mme1">>, realms |-> <<"epc">>]

MCRIAs == {RIA(h, <<Home>>) : h \in Headers} \cup {RIA(Answer, <<n>>) : n \in Nodes}
            \cup {RIA(Answer, ns) : ns \in {<<>>, <<Home, Home>>}}

-------------------------------------------------------------------------------
(* Latitudes and longitudes: both zeros, the smallest and the largest of   *)
(* either sign, and values that round up and down, at a half, and across a *)
(* minute                                                                  *)
Coordinates == {<<0, 0, 0>>, <<0, 0, 1>>, <<128, 0, 0>>, <<128, 0, 1>>, <<127, 255, 255>>,
                <<255, 255, 255>>, <<0, 64, 0>>, <<69, 13, 94>>, <<197, 166, 53>>}

Points == {a \o b : a \in Coordinates, b \in Coordinates}

Somewhere == <<69, 13, 94, 197, 166, 53>>

Estimates ==
    {<<0>> \o p : p \in Points}
      \cup {<<1>> \o Somewhere \o <<k>> : k \in 0..8 \cup 128..130}
      \cup {<<17 + 16 * n>> \o Somewhere \o <<3>> : n \in {0, 14}}
      \cup {<<3>> \o Somewhere \o <<5, 2, o, 67>> : o \in {0, 179, 180, 255}}
      \cup {<<5 + 16 * n>> \o Somewhere \o Somewhere \o Somewhere : n \in 2..4}
      \cup {<<h>> \o SubSeq(Somewhere \o <<5, 2, 30, 67, 0>>, 1, n) :
              h \in {0, 1, 3, 8, 9, 10}, n \in {0, 5, 6, 7, 10, 11}}

(* Location-Estimates as they may stand in a message *)
Typed(raw) == [typed |-> TRUE, raw |-> raw]

Point == <<0>> \o Somewhere

Several == {<<>>, <<Typed(<<>>)>>, <<Typed(Point), Typed(Point)>>, <<Typed(<<>>), Typed(Point)>>,
            <<Typed(Point), Typed(<<>>)>>, <<Typed(<<>>), Typed(<<>>)>>,
            <<[typed |-> FALSE, raw |-> Point]>>}

PLA(h, estimates, ecgis) == [answer |-> h.answer, own |-> h.own, base |-> h.base, exp |-> h.exp,
                             estimates |-> estimates, ecgis |-> ecgis]

MCPLAs == {PLA(h, <<Typed(Point)>>, <<>>) : h \in Headers}
            \cup {PLA(Answer, <<Typed(e)>>, <<>>) : e \in Estimates}
            \cup {PLA(Answer, es, ec) : es \in Several, ec \in {<<>>, <<7>>, <<6>>, <<6, 7>>, <<7, 7>>}}
===============================================================================
