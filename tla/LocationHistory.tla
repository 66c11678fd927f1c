---------------------------- MODULE LocationHistory ----------------------------
(***************************************************************************)
(* The fixes kept for one target: RecordHistory, which the worker calls    *)
(* for each completed request and which prunes what it inserts into, and   *)
(* QueryHistory with the window that the Historic Location Immediate       *)
(* handler asks for (internal/storage/sqlite/sqlite.go, internal/mlp/      *)
(* handler.go).                                                            *)
(*                                                                         *)
(* recorded_at is the text of a time in the layout RFC3339Nano, and SQLite *)
(* compares and sorts the texts.  The layout drops the trailing zeros of   *)
(* the fraction, and the point too when nothing is left.                   *)
(***************************************************************************)
EXTENDS Integers, Sequences, FiniteSets, FiniteSetsExt, SequencesExt

CONSTANTS
    Digits,     \* the fraction of a second has Digits digits (9 in the code)
    Base,       \* of these digits (10)
    MaxSecond,  \* bound: the last second of the clock
    MaxPoints,  \* maxHistoryPointsPerTarget
    MaxRecords, \* bound: how many fixes are recorded
    Intervals,  \* values of hlir/interval in seconds, 0 where it is absent
    Limits,     \* values of hlir/no_of_reports, 0 where it is absent
    MaxDuration \* a time.Duration lies in -MaxDuration..MaxDuration-1 (2^63 in the code)

ASSUME HistoryAssumption ==
    /\ {Digits, Base, MaxPoints, MaxDuration} \subseteq Nat \ {0}
    /\ Base > 1
    /\ {MaxSecond, MaxRecords} \subseteq Nat
    /\ Intervals \subseteq Nat /\ Limits \subseteq Nat

(* Arithmetic of the powers that occur, of which the prover knows nothing *)
ASSUME PowersAssumption ==
    \A k \in 0..Digits :
        /\ Base ^ k \in Nat \ {0}
        /\ k = 0 => Base ^ k = 1
        /\ k > 0 => Base ^ k = Base * Base ^ (k - 1)

(* A time is a number of units, Second of them to the second. *)
Second == Base ^ Digits
Times == 0..((MaxSecond + 1) * Second - 1)
SecondOf(t) == t \div Second
WholeSeconds == {s * Second : s \in 0..MaxSecond}

VARIABLES
    table,   \* the rows of location_history: a set of times
    ever,    \* all that was ever recorded (history)
    now      \* the clock

vars == <<table, ever, now>>

Init ==
    /\ table = {}
    /\ ever = {}
    /\ now = 0

-------------------------------------------------------------------------------
(* utc: the characters after the date, as numbers in the order of ASCII:   *)
(* the point before the digits, Z after them                               *)

Point == -1
Zulu == Base

Fraction(t) == [d \in 1..Digits |-> (t \div Base ^ (Digits - d)) % Base]

Trim(ds) == SubSeq(ds, 1, Max({0} \cup {d \in DOMAIN ds : ds[d] # 0}))

Text(t) ==
    LET ds == Trim(Fraction(t))
    IN <<SecondOf(t)>> \o (IF ds = <<>> THEN <<Zulu>> ELSE <<Point>> \o ds \o <<Zulu>>)

(* How SQLite compares two texts *)
Before(a, b) ==
    \E n \in 1..Len(a) :
        /\ n <= Len(b) /\ SubSeq(a, 1, n - 1) = SubSeq(b, 1, n - 1)
        /\ a[n] < b[n]

Earlier(s, t) == Before(Text(s), Text(t))

(* The rows in the order of recorded_at *)
Ordered(rows) ==
    CHOOSE s \in SetToSeqs(rows) : \A i, j \in DOMAIN s : i < j => Earlier(s[i], s[j])

-------------------------------------------------------------------------------
(* Mutant: the prune keeps the first rows instead of the last *)
MostRecent_First(rows) ==
    {t \in rows : Cardinality({u \in rows : Earlier(u, t)}) < MaxPoints}

(* SELECT ... ORDER BY recorded_at DESC LIMIT maxHistoryPointsPerTarget *)
MostRecent(rows) ==
    {t \in rows : Cardinality({u \in rows : Earlier(t, u)}) < MaxPoints}

(* RecordHistory: the insertion and the prune are one transaction *)
RecordHistory ==
    /\ Cardinality(ever) < MaxRecords
    /\ now \notin ever
    /\ table' = MostRecent(table \cup {now})
    /\ ever' = ever \cup {now}
    /\ UNCHANGED now

(* The thinning loop: the distance is taken to the last row kept *)
Thin(rows, minInterval) ==
    IF minInterval <= 0 THEN rows
    ELSE FoldLeft(LAMBDA out, p :
                    IF out = <<>> \/ p - Last(out) >= minInterval THEN Append(out, p) ELSE out,
                  <<>>, rows)

(* WHERE recorded_at >= start AND recorded_at <= stop *)
Window(rows, start, stop) == {t \in rows : ~Earlier(t, start) /\ ~Earlier(stop, t)}

(* Mutant: the limit is applied before the window is thinned *)
Select_LimitFirst(rows, q) ==
    LET all == Ordered(Window(rows, q.start, q.stop))
    IN Thin(IF q.limit > 0 /\ Len(all) > q.limit THEN SubSeq(all, 1, q.limit) ELSE all,
            q.minInterval)

Select(rows, q) ==
    LET out == Thin(Ordered(Window(rows, q.start, q.stop)), q.minInterval)
    IN IF q.limit > 0 /\ Len(out) > q.limit THEN SubSeq(out, 1, q.limit) ELSE out

(* time.Duration(secs) * time.Second *)
Duration(secs) ==
    LET d == (secs * Second) % (2 * MaxDuration) IN IF d >= MaxDuration THEN d - 2 * MaxDuration ELSE d

(* parseHistoryWindow: start and stop are whole seconds, stop is now if it *)
(* is absent or later; a stop before the start is refused                  *)
Queries ==
    {q \in [start : WholeSeconds, stop : {t \in WholeSeconds : t <= now} \cup {now},
            minInterval : {Duration(secs) : secs \in Intervals}, limit : Limits] :
        q.start <= q.stop}

(* QueryHistory changes nothing: the properties speak of every query that  *)
(* can be asked now                                                        *)
QueryHistory(q) == Select(table, q)

Tick ==
    /\ now' \in {t \in Times : t > now}
    /\ UNCHANGED <<table, ever>>

Next == RecordHistory \/ Tick

Spec == Init /\ [][Next]_vars

-------------------------------------------------------------------------------
(* Properties *)

(* The prune of RecordHistory: the table holds as many fixes as were       *)
(* recorded or as maxHistoryPointsPerTarget allows, and what was ever      *)
(* deleted is, to the second, no later than what it holds.                 *)
PrunedOldest ==
    /\ table \subseteq ever /\ Cardinality(table) = Min({MaxPoints, Cardinality(ever)})
    /\ \A kept \in table, pruned \in ever \ table : SecondOf(pruned) <= SecondOf(kept)

(* QueryHistory thins before it counts: two fixes it returns one after the *)
(* other are the interval apart in time, whatever the order of their       *)
(* texts; an answer has no more fixes than asked for, and one that has     *)
(* fewer leaves out a fix from the seconds inside the window only for one  *)
(* it has that is less than the interval before it or in the same second.  *)
AnswerComplete ==
    \A q \in Queries :
        LET answer == QueryHistory(q)
        IN /\ q.minInterval > 0 =>
                  \A n \in 1..(Len(answer) - 1) : answer[n + 1] - answer[n] >= q.minInterval
           /\ q.limit > 0 => Len(answer) <= q.limit
           /\ q.limit = 0 \/ Len(answer) < q.limit =>
                  \A t \in table :
                      SecondOf(q.start) < SecondOf(t) /\ SecondOf(t) < SecondOf(q.stop) =>
                          \E n \in DOMAIN answer :
                              \/ answer[n] = t
                              \/ q.minInterval > 0 /\ t - answer[n] < q.minInterval
                                                   /\ SecondOf(answer[n]) <= SecondOf(t)
===============================================================================
