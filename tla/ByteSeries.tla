------------------------------ MODULE ByteSeries ------------------------------
(***************************************************************************)
(* The series of (time, bytes) datapoints behind the speed chart and the    *)
(* time estimates (byteseries.rs): a clock pushes datapoints, and between    *)
(* pushes find_idx_below searches the series for a time by bisection, one    *)
(* turn of its loop per step; interp reads the bytes off at what it found.   *)
(*                                                                          *)
(* Indices start at 0 as in the code.  Seconds are integers, since the code  *)
(* only compares and subtracts them; interpolated values are exact quotients *)
(* where the code rounds.                                                    *)
(***************************************************************************)
EXTENDS Integers

CONSTANTS
    MaxLen,     \* bound on the number of datapoints
    MaxTime,    \* bound on the times pushed and asked for
    MaxBytes    \* bound on the byte counts

ASSUME SeriesAssumption == MaxLen \in Nat /\ MaxTime \in Nat /\ MaxBytes \in Nat

VARIABLES
    len,        \* raw.len()
    time,       \* raw[i].0
    bytes,      \* raw[i].1
    pc,         \* "idle", or where find_idx_below is
    query,      \* its argument t
    min, max,   \* its bounds; `min' is the result once it has returned
    before      \* the query before this one and what interp made of it

vars == <<len, time, bytes, pc, query, min, max, before>>

raw == <<len, time, bytes>>

Last == len - 1

Nothing == [query |-> 0, value |-> <<0, 0>>]

Init ==
    /\ len = 1
    /\ time = [i \in {0} |-> 0]
    /\ bytes = [i \in {0} |-> 0]
    /\ pc = "idle"
    /\ query = 0
    /\ min = 0 /\ max = 0
    /\ before = Nothing

-----------------------------------------------------------------------------

\* push, with an Instant that is no less than the last one (it may be equal) and
\* the byte count of a herd's checkpoint, which never goes back within a phase.
Push(t, b) ==
    /\ pc \in {"idle", "found"}
    /\ len < MaxLen
    /\ t >= time[Last] /\ b >= bytes[Last]
    /\ len' = len + 1
    /\ time' = [i \in 0 .. len |-> IF i < len THEN time[i] ELSE t]
    /\ bytes' = [i \in 0 .. len |-> IF i < len THEN bytes[i] ELSE b]
    /\ pc' = "idle"
    /\ before' = Nothing
    /\ UNCHANGED <<query, min, max>>

-----------------------------------------------------------------------------
(* interp at the time of the query, once find_idx_below has returned: a     *)
(* quotient, which is no number when the denominator is 0.                  *)

\* On the line through datapoints i and i + 1.
OnLine(i) ==
    <<(bytes[i + 1] - bytes[i]) * (query - time[i]) + bytes[i] * (time[i + 1] - time[i]),
      time[i + 1] - time[i]>>

\* A slip: the line is the one behind the sample.
LineBehind == OnLine(IF min = 0 THEN 0 ELSE min - 1)

Line == OnLine(min)

Interp ==
    CASE query < 0           -> <<bytes[0], 1>>
      [] query >= time[Last] -> <<bytes[Last], 1>>
      [] OTHER               -> Line

IsNumber(q) == q[2] # 0

AtMost(p, q) == p[1] * q[2] <= q[1] * p[2]

-----------------------------------------------------------------------------
(* The time estimates: quotients too, of the series as it is.  Everything by *)
(* zero is infinite or no number, which EstimatedTime makes "[unknown]".     *)

\* total_avg_speed; nothing in no time is no speed.
TotalAvgSpeed == IF bytes[Last] = 0 THEN <<0, 1>> ELSE <<bytes[Last], time[Last]>>

\* A slip: the subtraction does not saturate.
BytesLeftUnsaturated(total) == total - bytes[Last]

\* More may have been written than there was to write: the last block is whole.
BytesLeft(total) == IF total < bytes[Last] THEN 0 ELSE total - bytes[Last]

\* estimated_time_left: by an infinite speed it is 0.
SecsLeft(total) == <<BytesLeft(total) * TotalAvgSpeed[2], TotalAvgSpeed[1]>>

-----------------------------------------------------------------------------
(* find_idx_below                                                            *)

\* A slip: the upper bound is the length.
FirstMaxLen == len

FirstMax == Last

\* speed() asks twice in a row, for t - window and for t.
Ask(t) ==
    /\ pc \in {"idle", "found"}
    /\ before' = IF pc = "found" THEN [query |-> query, value |-> Interp] ELSE Nothing
    /\ query' = t
    /\ min' = 0
    /\ max' = FirstMax
    /\ pc' = "entered"
    /\ UNCHANGED raw

\* if t <= self.raw[min].0
AtFirst ==
    /\ pc = "entered"
    /\ query <= time[0]
    /\ pc' = "found"
    /\ UNCHANGED <<raw, query, min, max, before>>

AtOrPastEnd == time[max] <= query

\* if self.raw[max].0 <= t
AtLast ==
    /\ pc = "entered"
    /\ ~ query <= time[0]
    /\ AtOrPastEnd
    /\ pc' = "found"
    /\ min' = max
    /\ UNCHANGED <<raw, query, max, before>>

EnterLoop ==
    /\ pc = "entered"
    /\ ~ query <= time[0]
    /\ ~ AtOrPastEnd
    /\ pc' = "loop"
    /\ UNCHANGED <<raw, query, min, max, before>>

\* if min >= max - 1
Leave ==
    /\ pc = "loop"
    /\ min >= max - 1
    /\ pc' = "found"
    /\ UNCHANGED <<raw, query, min, max, before>>

Mid == (min + max) \div 2

\* A slip: an equal time goes to the left.
GoesLeftIfEqual == query <= time[Mid]

GoesLeft == query < time[Mid]

NewMax == Mid

\* The halving of the interval.
Halve ==
    /\ pc = "loop"
    /\ ~ min >= max - 1
    /\ IF GoesLeft THEN max' = NewMax /\ UNCHANGED min
                   ELSE min' = Mid /\ UNCHANGED max
    /\ UNCHANGED <<raw, pc, query, before>>

Search == AtFirst \/ AtLast \/ EnterLoop \/ Leave \/ Halve

Next ==
    \/ \E t \in 0 .. MaxTime, b \in 0 .. MaxBytes : Push(t, b)
    \/ \E t \in -1 .. MaxTime + 1 : Ask(t)
    \/ Search

Spec == Init /\ [][Next]_vars

-----------------------------------------------------------------------------
(* Properties                                                                *)

\* Every variable has its type, and every index is one of the series.
TypeOK ==
    /\ len \in 1 .. MaxLen + 1
    /\ time \in [0 .. Last -> 0 .. MaxTime]
    /\ bytes \in [0 .. Last -> 0 .. MaxBytes]
    /\ pc \in {"idle", "entered", "loop", "found"}
    /\ query \in -1 .. MaxTime + 1
    /\ min \in 0 .. Last /\ max \in 0 .. Last
    /\ before \in [query : -1 .. MaxTime + 1, value : Int \X Int]

(* The bisection finds "the index of the sample right before the requested   *)
(* time" (byteseries.rs:124): the last one whose time is not after it, also  *)
(* among datapoints of equal time.  Before the series it is the first one,   *)
(* as the tests have it.                                                     *)
FindsSampleBelow ==
    (pc = "found" /\ query > time[0]) =>
        /\ time[min] <= query
        /\ \A j \in 0 .. Last : j > min => query < time[j]

(* interp never reaches past the end: where it takes raw[i0 + 1], there is   *)
(* one, and nowhere else is the series indexed out of its bounds.            *)
NeighbourExists ==
    (pc = "found" /\ 0 <= query /\ query < time[Last]) => min + 1 <= Last

(* The interpolation divides by zero only at the very start, when a          *)
(* datapoint was pushed with the Instant the series was created at; then the *)
(* chart gets a NaN (byteseries.rs:165).                                     *)
UndefinedOnlyAtStart ==
    (pc = "found" /\ ~ IsNumber(Interp)) => (query = 0 /\ time[1] = 0)

(* Speeds are not negative: of two queries of one series, the later time     *)
(* never has fewer bytes, whichever segments the two searches ended in.      *)
SpeedIsNotNegative ==
    (pc = "found" /\ before.query <= query
        /\ IsNumber(Interp) /\ IsNumber(before.value)) => AtMost(before.value, Interp)

(* A time is estimated from the first byte on, it is not negative, and it is  *)
(* only zero when all is written or no time has passed yet: also for a herd   *)
(* that wrote more than the total, which the last, whole block makes it do.   *)
TimeLeftIsSane ==
    \A total \in 0 .. MaxBytes :
        LET secs == SecsLeft(total)
        IN  /\ IsNumber(secs) <=> bytes[Last] > 0
            /\ secs[1] >= 0
            /\ IsNumber(secs) =>
                  (secs[1] = 0 <=> (total <= bytes[Last] \/ time[Last] = 0))

EstimatesAreSane == SpeedIsNotNegative /\ TimeLeftIsSane

(* The loop makes progress at each turn, whatever the parity of its bounds:  *)
(* the interval shrinks and never becomes empty.                             *)
IntervalShrinks ==
    [][(pc = "loop" /\ pc' = "loop") => (max' - min' < max - min /\ max' - min' >= 1)]_vars

=============================================================================
