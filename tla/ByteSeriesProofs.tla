--------------------------- MODULE ByteSeriesProofs ---------------------------
(***************************************************************************)
(* What the bisection of ByteSeries.tla computes, for every bound on the    *)
(* length, the times and the byte counts.  The invariant has the shape of    *)
(* the algorithm: the datapoints are sorted because the clock is, and while  *)
(* the loop runs, the query lies in the half-open interval of its bounds.    *)
(***************************************************************************)
EXTENDS ByteSeries, TLAPS

Sorted ==
    /\ time[0] = 0
    /\ \A i, j \in 0 .. Last : i <= j => time[i] <= time[j]

Bracket ==
    /\ pc = "entered" => min = 0 /\ max = Last
    /\ pc = "loop" =>
          min < max /\ time[0] < query /\ time[min] <= query /\ query < time[max]
    /\ pc = "found" =>
          IF query <= time[0] THEN min = 0
          ELSE time[min] <= query /\ (min < Last => query < time[min + 1])

SeriesInv == TypeOK /\ Sorted /\ Bracket

-----------------------------------------------------------------------------

(* Where interp looks for a neighbour, the sample found is not the last one. *)
LEMMA NeighbourInside ==
    ASSUME SeriesInv, pc = "found", 0 <= query, query < time[Last]
    PROVE  min + 1 \in 0 .. Last
<1>1. /\ Last \in Nat /\ min \in 0 .. Last /\ query \in Int
      /\ \A i \in 0 .. Last : time[i] \in Int
    BY SeriesAssumption DEF SeriesInv, TypeOK, Last
<1>2. CASE query <= time[0]
  <2>1. min = 0 /\ time[0] = 0
      BY <1>2 DEF SeriesInv, Bracket, Sorted
  <2>2. Last # 0
      BY <2>1, <1>1
  <2>3. QED
      BY <2>1, <2>2, <1>1
<1>3. CASE ~ query <= time[0]
  <2>1. time[min] <= query
      BY <1>3 DEF SeriesInv, Bracket
  <2>2. min # Last
      BY <2>1, <1>1
  <2>3. QED
      BY <2>2, <1>1
<1>4. QED
    BY <1>2, <1>3

(* interp only multiplies and subtracts what is in the series.               *)
LEMMA InterpType ==
    ASSUME SeriesInv, pc = "found"
    PROVE  Interp \in Int \X Int
<1> USE SeriesAssumption
<1>1. len \in Nat /\ Last \in Nat /\ 0 \in 0 .. Last
    BY DEF SeriesInv, TypeOK, Last
<1>2. /\ \A i \in 0 .. Last : time[i] \in Int /\ bytes[i] \in Int
      /\ query \in Int /\ min \in 0 .. Last
    BY DEF SeriesInv, TypeOK
<1>3. CASE query < 0
    BY <1>1, <1>2, <1>3 DEF Interp
<1>4. CASE query >= time[Last]
  <2>1. Interp = <<bytes[0], 1>> \/ Interp = <<bytes[Last], 1>>
      BY <1>4 DEF Interp
  <2>2. bytes[0] \in Int /\ bytes[Last] \in Int
      BY <1>1, <1>2
  <2>3. QED
      BY <2>1, <2>2
<1>5. CASE 0 <= query /\ query < time[Last]
  <2>1. min + 1 \in 0 .. Last
      BY <1>5, NeighbourInside
  <2>2. Interp = OnLine(min)
      BY <1>1, <1>2, <1>5 DEF Interp, Line
  <2> DEFINE y0 == bytes[min]
             y1 == bytes[min + 1]
             x0 == time[min]
             x1 == time[min + 1]
  <2>3. y0 \in Int /\ y1 \in Int /\ x0 \in Int /\ x1 \in Int
      BY <2>1, <1>2
  <2>4. OnLine(min) = <<(y1 - y0) * (query - x0) + y0 * (x1 - x0), x1 - x0>>
      BY DEF OnLine
  <2> HIDE DEF y0, y1, x0, x1
  <2>5. (y1 - y0) * (query - x0) + y0 * (x1 - x0) \in Int /\ x1 - x0 \in Int
      BY <2>3, <1>2
  <2>6. QED
      BY <2>2, <2>4, <2>5
<1>6. QED
    BY <1>1, <1>2, <1>3, <1>4, <1>5

-----------------------------------------------------------------------------
(* The invariant is inductive                                                *)

LEMMA SeriesInit == Init => SeriesInv
BY SeriesAssumption DEF Init, SeriesInv, TypeOK, Sorted, Bracket, Last, Nothing

LEMMA SeriesPush ==
    ASSUME SeriesInv, NEW t \in 0 .. MaxTime, NEW b \in 0 .. MaxBytes, Push(t, b)
    PROVE  SeriesInv'
<1> USE SeriesAssumption
<1>1. /\ len \in 1 .. MaxLen + 1 /\ len < MaxLen /\ len' = len + 1
      /\ Last = len - 1 /\ Last' = len
    BY DEF SeriesInv, TypeOK, Push, Last
<1>2. /\ time' = [i \in 0 .. len |-> IF i < len THEN time[i] ELSE t]
      /\ bytes' = [i \in 0 .. len |-> IF i < len THEN bytes[i] ELSE b]
      /\ t >= time[Last]
      /\ pc' = "idle" /\ before' = Nothing
      /\ UNCHANGED <<query, min, max>>
    BY DEF Push
<1>3. /\ \A i \in 0 .. len - 1 : time[i] \in 0 .. MaxTime /\ bytes[i] \in 0 .. MaxBytes
      /\ min \in 0 .. Last /\ max \in 0 .. Last
    BY <1>1 DEF SeriesInv, TypeOK
<1>4. TypeOK'
  <2>1. /\ time' \in [0 .. Last' -> 0 .. MaxTime]
        /\ bytes' \in [0 .. Last' -> 0 .. MaxBytes]
      BY <1>1, <1>2, <1>3
  <2>2. min' \in 0 .. Last' /\ max' \in 0 .. Last'
      BY <1>1, <1>2, <1>3
  <2>3. QED
      BY <1>1, <1>2, <2>1, <2>2 DEF SeriesInv, TypeOK, Nothing
<1>5. Sorted'
  <2>1. time'[0] = 0
      BY <1>1, <1>2 DEF SeriesInv, Sorted
  <2>2. ASSUME NEW i \in 0 .. len, NEW j \in 0 .. len, i <= j
        PROVE  time'[i] <= time'[j]
    <3>1. CASE j < len
        BY <3>1, <2>2, <1>1, <1>2 DEF SeriesInv, Sorted
    <3>2. CASE j = len
      <4>1. time'[j] = t
          BY <3>2, <1>1, <1>2
      <4>2. CASE i = len
          BY <4>1, <4>2, <3>2
      <4>3. CASE i < len
        <5>1. time'[i] = time[i] /\ i \in 0 .. Last /\ i <= Last /\ Last \in 0 .. Last
            BY <4>3, <1>1, <1>2
        <5>2. time[i] <= time[Last]
            BY <5>1 DEF SeriesInv, Sorted
        <5>3. QED
            BY <4>1, <5>1, <5>2, <1>1, <1>2, <1>3
      <4>4. QED
          BY <4>2, <4>3, <1>1
    <3>3. QED
        BY <3>1, <3>2, <1>1
  <2>3. QED
      BY <1>1, <2>1, <2>2 DEF Sorted
<1>6. Bracket'
    BY <1>2 DEF Bracket
<1>7. QED
    BY <1>4, <1>5, <1>6 DEF SeriesInv

LEMMA SeriesAsk ==
    ASSUME SeriesInv, NEW t \in -1 .. MaxTime + 1, Ask(t)
    PROVE  SeriesInv'
<1> USE SeriesAssumption
<1>1. /\ UNCHANGED <<len, time, bytes>> /\ query' = t
      /\ min' = 0 /\ max' = Last /\ pc' = "entered"
    BY DEF Ask, raw, FirstMax
<1>2. before' \in [query : -1 .. MaxTime + 1, value : Int \X Int]
  <2>1. CASE pc = "found"
    <3>1. before' = [query |-> query, value |-> Interp]
        BY <2>1 DEF Ask
    <3>2. Interp \in Int \X Int
        BY <2>1, InterpType
    <3>3. QED
        BY <3>1, <3>2 DEF SeriesInv, TypeOK
  <2>2. CASE pc # "found"
      BY <2>2 DEF Ask, Nothing
  <2>3. QED
      BY <2>1, <2>2
<1>3. TypeOK'
  <2>1. /\ len \in 1 .. MaxLen + 1 /\ Last' = Last
        /\ 0 \in 0 .. Last /\ Last \in 0 .. Last
      BY <1>1 DEF SeriesInv, TypeOK, Last
  <2>2. QED
      BY <1>1, <1>2, <2>1 DEF SeriesInv, TypeOK
<1>4. Sorted'
    BY <1>1 DEF SeriesInv, Sorted, Last
<1>5. Bracket'
    BY <1>1 DEF Bracket, Last
<1>6. QED
    BY <1>3, <1>4, <1>5 DEF SeriesInv

(* The midpoint lies strictly between bounds that are not adjacent: the one   *)
(* fact about the division by two.                                           *)
LEMMA MidBetween ==
    ASSUME NEW a \in Nat, NEW b \in Nat, a < b - 1
    PROVE  a < (a + b) \div 2 /\ (a + b) \div 2 < b /\ (a + b) \div 2 \in Nat
OBVIOUS

LEMMA SeriesHalve ==
    ASSUME SeriesInv, Halve
    PROVE  /\ SeriesInv'
           /\ max' - min' < max - min /\ max' - min' >= 1
<1> USE SeriesAssumption
<1>1. /\ len \in 1 .. MaxLen + 1 /\ min \in 0 .. Last /\ max \in 0 .. Last
      /\ query \in Int /\ time[0] \in Int
      /\ \A i \in 0 .. Last : time[i] \in Int
    BY DEF SeriesInv, TypeOK, Last
<1>2. min \in Nat /\ max \in Nat /\ Last \in Nat
    BY <1>1 DEF Last
<1>3. /\ min < max - 1 /\ pc = "loop"
      /\ time[0] < query /\ time[min] <= query /\ query < time[max]
    BY <1>2 DEF Halve, SeriesInv, Bracket
<1>4. min < Mid /\ Mid < max /\ Mid \in 0 .. Last
    BY <1>1, <1>2, <1>3, MidBetween DEF Mid
<1>5. UNCHANGED <<len, time, bytes, pc, query, before>> /\ Last' = Last
    BY DEF Halve, raw, Last
<1> HIDE DEF Mid
<1>6. CASE query < time[Mid]
  <2>1. max' = Mid /\ min' = min
      BY <1>6 DEF Halve, GoesLeft, NewMax
  <2>2. TypeOK'
      BY <1>4, <1>5, <2>1 DEF SeriesInv, TypeOK
  <2>3. Sorted'
      BY <1>5, <2>1 DEF SeriesInv, Sorted
  <2>4. Bracket'
      BY <1>1, <1>2, <1>3, <1>4, <1>5, <1>6, <2>1 DEF Bracket
  <2>5. QED
      BY <1>1, <1>2, <1>3, <1>4, <2>1, <2>2, <2>3, <2>4 DEF SeriesInv
<1>7. CASE ~ query < time[Mid]
  <2>1. min' = Mid /\ max' = max
      BY <1>7 DEF Halve, GoesLeft
  <2>2. time[Mid] <= query
      BY <1>1, <1>4, <1>7
  <2>3. TypeOK'
      BY <1>4, <1>5, <2>1 DEF SeriesInv, TypeOK
  <2>4. Sorted'
      BY <1>5, <2>1 DEF SeriesInv, Sorted
  <2>5. Bracket'
      BY <1>1, <1>2, <1>3, <1>4, <1>5, <2>1, <2>2 DEF Bracket
  <2>6. QED
      BY <1>1, <1>2, <1>3, <1>4, <2>1, <2>3, <2>4, <2>5 DEF SeriesInv
<1>8. QED
    BY <1>6, <1>7

LEMMA SeriesStep == SeriesInv /\ [Next]_vars => SeriesInv'
<1> USE SeriesAssumption
<1> SUFFICES ASSUME SeriesInv, [Next]_vars
             PROVE  SeriesInv'
    OBVIOUS
<1>0. /\ len \in 1 .. MaxLen + 1 /\ min \in 0 .. Last /\ max \in 0 .. Last
      /\ query \in Int /\ len \in Nat /\ Last \in Nat /\ 0 \in 0 .. Last
      /\ \A i \in 0 .. Last : time[i] \in Int
    BY DEF SeriesInv, TypeOK, Last
<1>1. ASSUME NEW t \in 0 .. MaxTime, NEW b \in 0 .. MaxBytes, Push(t, b)
      PROVE  SeriesInv'
    BY <1>1, SeriesPush
<1>2. ASSUME NEW t \in -1 .. MaxTime + 1, Ask(t)
      PROVE  SeriesInv'
    BY <1>2, SeriesAsk
<1>3. CASE AtFirst
  <2>1. pc' = "found" /\ UNCHANGED <<len, time, bytes, query, min, max, before>>
        /\ query <= time[0] /\ pc = "entered"
      BY <1>3 DEF AtFirst, raw
  <2>2. TypeOK' /\ Sorted'
      BY <2>1 DEF SeriesInv, TypeOK, Sorted, Last
  <2>3. Bracket'
      BY <2>1 DEF SeriesInv, Bracket, Last
  <2>4. QED
      BY <2>2, <2>3 DEF SeriesInv
<1>4. CASE AtLast
  <2>1. /\ pc' = "found" /\ UNCHANGED <<len, time, bytes, query, max, before>>
        /\ min' = max /\ max = Last /\ time[max] <= query
      BY <1>4 DEF AtLast, raw, AtOrPastEnd, SeriesInv, Bracket
  <2>2. TypeOK' /\ Sorted'
      BY <1>0, <2>1 DEF SeriesInv, TypeOK, Sorted, Last
  <2>3. Bracket'
    <3>1. ~ query <= time[0]
        BY <1>4 DEF AtLast
    <3>2. time'[min'] <= query' /\ min' = Last'
        BY <2>1 DEF Last
    <3>3. QED
        BY <1>0, <2>1, <3>1, <3>2 DEF Bracket, Last
  <2>4. QED
      BY <2>2, <2>3 DEF SeriesInv
<1>5. CASE EnterLoop
  <2>1. /\ pc' = "loop" /\ UNCHANGED <<len, time, bytes, query, min, max, before>>
        /\ min = 0 /\ max = Last /\ ~ time[max] <= query /\ ~ query <= time[0]
      BY <1>5 DEF EnterLoop, raw, AtOrPastEnd, SeriesInv, Bracket
  <2>2. TypeOK' /\ Sorted'
      BY <2>1 DEF SeriesInv, TypeOK, Sorted, Last
  <2>3. min < max /\ time[0] < query /\ time[min] <= query /\ query < time[max]
      BY <1>0, <2>1
  <2>4. Bracket'
      BY <2>1, <2>3 DEF Bracket
  <2>5. QED
      BY <2>2, <2>4 DEF SeriesInv
<1>6. CASE Leave
  <2>1. /\ pc' = "found" /\ UNCHANGED <<len, time, bytes, query, min, max, before>>
        /\ min >= max - 1
        /\ min < max /\ time[0] < query /\ time[min] <= query /\ query < time[max]
      BY <1>6 DEF Leave, raw, SeriesInv, Bracket
  <2>2. TypeOK' /\ Sorted'
      BY <2>1 DEF SeriesInv, TypeOK, Sorted, Last
  <2>3. max = min + 1
      BY <1>0, <2>1
  <2>4. Bracket'
      BY <1>0, <2>1, <2>3 DEF Bracket, Last
  <2>5. QED
      BY <2>2, <2>4 DEF SeriesInv
<1>7. CASE Halve
    BY <1>7, SeriesHalve
<1>8. CASE UNCHANGED vars
  <2>1. UNCHANGED <<len, time, bytes, pc, query, min, max, before>>
      BY <1>8 DEF vars
  <2>2. QED
      BY <2>1 DEF SeriesInv, TypeOK, Sorted, Bracket, Last
<1>9. QED
    BY <1>1, <1>2, <1>3, <1>4, <1>5, <1>6, <1>7, <1>8 DEF Next, Search

-----------------------------------------------------------------------------
(* What follows                                                              *)

(* The invariant of the bisection holds throughout.                          *)
THEOREM SeriesInvariant == Spec => []SeriesInv
<1>1. Init => SeriesInv
    BY SeriesInit
<1>2. SeriesInv /\ [Next]_vars => SeriesInv'
    BY SeriesStep
<1>3. QED
    BY <1>1, <1>2, PTL DEF Spec

(* Every index is an index of the series (TypeOK of ByteSeries).             *)
THEOREM IndicesAreInBounds == Spec => []TypeOK
<1>1. SeriesInv => TypeOK
    BY DEF SeriesInv
<1>2. QED
    BY <1>1, SeriesInvariant, PTL

(* find_idx_below returns the last sample that is not after the time it is   *)
(* asked for, whatever the series.                                           *)
THEOREM BisectionIsCorrect == Spec => []FindsSampleBelow
<1>1. SeriesInv => FindsSampleBelow
  <2> SUFFICES ASSUME SeriesInv, pc = "found", query > time[0]
               PROVE  /\ time[min] <= query
                      /\ \A j \in 0 .. Last : j > min => query < time[j]
      BY DEF FindsSampleBelow
  <2>1. /\ Last \in Nat /\ min \in 0 .. Last /\ query \in Int
        /\ \A i \in 0 .. Last : time[i] \in Int
      BY SeriesAssumption DEF SeriesInv, TypeOK, Last
  <2>2. ~ query <= time[0]
      BY <2>1
  <2>3. time[min] <= query /\ (min < Last => query < time[min + 1])
      BY <2>2 DEF SeriesInv, Bracket
  <2>4. ASSUME NEW j \in 0 .. Last, j > min
        PROVE  query < time[j]
    <3>1. min + 1 \in 0 .. Last /\ min + 1 <= j /\ min < Last
        BY <2>1, <2>4
    <3>2. time[min + 1] <= time[j]
        BY <3>1 DEF SeriesInv, Sorted
    <3>3. QED
        BY <2>1, <2>3, <3>1, <3>2
  <2>5. QED
      BY <2>3, <2>4
<1>2. QED
    BY <1>1, SeriesInvariant, PTL

(* The neighbour that interp takes exists.                                   *)
THEOREM InterpStaysInside == Spec => []NeighbourExists
<1>1. SeriesInv => NeighbourExists
  <2> SUFFICES ASSUME SeriesInv, pc = "found", 0 <= query, query < time[Last]
               PROVE  min + 1 <= Last
      BY DEF NeighbourExists
  <2> QED
      BY NeighbourInside, SeriesAssumption DEF SeriesInv, TypeOK, Last
<1>2. QED
    BY <1>1, SeriesInvariant, PTL

(* The division of interp is by zero only for a datapoint pushed at the       *)
(* creation of the series.                                                   *)
THEOREM DivisionIsDefined == Spec => []UndefinedOnlyAtStart
<1>1. SeriesInv => UndefinedOnlyAtStart
  <2> SUFFICES ASSUME SeriesInv, pc = "found", ~ IsNumber(Interp)
               PROVE  query = 0 /\ time[1] = 0
      BY DEF UndefinedOnlyAtStart
  <2>1. /\ Last \in Nat /\ 0 \in 0 .. Last /\ min \in 0 .. Last /\ query \in Int
        /\ \A i \in 0 .. Last : time[i] \in Int
      BY SeriesAssumption DEF SeriesInv, TypeOK, Last
  <2>2. 0 <= query /\ query < time[Last]
    <3>1. Interp # <<bytes[0], 1>> /\ Interp # <<bytes[Last], 1>>
        BY DEF IsNumber
    <3>2. ~ query < 0 /\ ~ query >= time[Last]
        BY <3>1 DEF Interp
    <3>3. QED
        BY <3>2, <2>1
  <2>3. Interp = OnLine(min)
      BY <2>1, <2>2 DEF Interp, Line
  <2>4. min + 1 \in 0 .. Last
      BY <2>2, NeighbourInside
  <2>5. time[min + 1] = time[min]
      BY <2>1, <2>3, <2>4 DEF IsNumber, OnLine
  <2>6. query <= time[0]
    <3>1. SUFFICES ASSUME ~ query <= time[0]
                   PROVE  FALSE
        OBVIOUS
    <3>2. time[min] <= query /\ (min < Last => query < time[min + 1])
        BY <3>1 DEF SeriesInv, Bracket
    <3>3. QED
        BY <2>1, <2>4, <2>5, <3>2
  <2>7. min = 0 /\ time[0] = 0
      BY <2>6 DEF SeriesInv, Bracket, Sorted
  <2>8. QED
      BY <2>1, <2>2, <2>5, <2>6, <2>7
<1>2. QED
    BY <1>1, SeriesInvariant, PTL

(* The loop closes in on the sample at every turn.                           *)
THEOREM LoopMakesProgress == Spec => IntervalShrinks
<1>1. SeriesInv /\ [Next]_vars =>
        [(pc = "loop" /\ pc' = "loop") => (max' - min' < max - min /\ max' - min' >= 1)]_vars
  <2> SUFFICES ASSUME SeriesInv, Next, pc = "loop", pc' = "loop"
               PROVE  max' - min' < max - min /\ max' - min' >= 1
      OBVIOUS
  <2>1. Halve
      BY DEF Next, Search, Push, Ask, AtFirst, AtLast, EnterLoop, Leave
  <2>2. QED
      BY <2>1, SeriesHalve
<1>2. QED
    BY <1>1, SeriesInvariant, PTL DEF Spec, IntervalShrinks

-----------------------------------------------------------------------------
(* The estimates.  The bytes are sorted as the times are, so interp is a      *)
(* function of the time that never falls; what the query before this one made *)
(* is a value of the same function, since a push forgets it (SpeedInv).       *)

BytesSorted == \A i, j \in 0 .. Last : i <= j => bytes[i] <= bytes[j]

\* The segment that a time is on: that of the first datapoint for the start.
OnSegment(i, t) ==
    /\ i + 1 \in 0 .. Last
    /\ time[i] <= t
    /\ IF t = 0 THEN i = 0 /\ t <= time[i + 1] ELSE t < time[i + 1]

Segment(i, t) ==
    <<(bytes[i + 1] - bytes[i]) * (t - time[i]) + bytes[i] * (time[i + 1] - time[i]),
      time[i + 1] - time[i]>>

\* What interp makes of a time.
IsInterp(t, q) ==
    \/ t < 0 /\ q = <<bytes[0], 1>>
    \/ t >= time[Last] /\ ~ t < 0 /\ q = <<bytes[Last], 1>>
    \/ /\ 0 <= t /\ t < time[Last]
       /\ \E i \in 0 .. Last : OnSegment(i, t) /\ q = Segment(i, t)

SpeedInv ==
    /\ BytesSorted
    /\ before = Nothing \/ IsInterp(before.query, before.value)

\* Products of integers, as far as they are needed.
LEMMA Product ==
    ASSUME NEW x \in Nat, NEW y \in Nat
    PROVE  x * y \in Nat /\ (x * y = 0 <=> (x = 0 \/ y = 0))
OBVIOUS

LEMMA Scale ==
    ASSUME NEW x \in Int, NEW y \in Int, NEW k \in Nat, x <= y
    PROVE  x * k <= y * k
<1>1. (y - x) * k \in Nat
  BY Product
<1>2. (y - x) * k = y * k - x * k
  OBVIOUS
<1> QED BY <1>1, <1>2

\* A point of a segment is between its ends.
LEMMA Between ==
    ASSUME NEW a \in Nat, NEW b \in Nat, NEW d \in Nat, NEW s \in 0 .. d, a <= b
    PROVE  /\ a * d <= (b - a) * s + a * d
           /\ (b - a) * s + a * d <= b * d
           /\ (b - a) * s + a * d \in Nat
<1>1. (b - a) * s \in Nat /\ a * d \in Nat
  BY Product
<1>2. s * (b - a) <= d * (b - a)
  BY Scale
<1>3. s * (b - a) = (b - a) * s /\ d * (b - a) = b * d - a * d
  OBVIOUS
<1> QED BY <1>1, <1>2, <1>3

\* The later of two points of a segment is no lower.
LEMMA Along ==
    ASSUME NEW a \in Nat, NEW b \in Nat, NEW d \in Nat, NEW s \in Nat, NEW r \in Nat,
           a <= b, s <= r
    PROVE  ((b - a) * s + a * d) * d <= ((b - a) * r + a * d) * d
<1>1. s * (b - a) <= r * (b - a)
  BY Scale
<1>2. s * (b - a) = (b - a) * s /\ r * (b - a) = (b - a) * r
  OBVIOUS
<1>3. (b - a) * s \in Int /\ (b - a) * r \in Int /\ a * d \in Int
  OBVIOUS
<1>4. (b - a) * s + a * d <= (b - a) * r + a * d
  BY <1>1, <1>2, <1>3
<1> QED BY <1>3, <1>4, Scale

\* Quotients are compared through a number between them.
LEMMA Through ==
    ASSUME NEW p1 \in Int, NEW p2 \in Nat, NEW q1 \in Int, NEW q2 \in Nat,
           NEW c \in Int, p1 <= c * p2, c * q2 <= q1
    PROVE  p1 * q2 <= q1 * p2
<1>1. c * p2 \in Int /\ c * q2 \in Int
  OBVIOUS
<1>2. p1 * q2 <= (c * p2) * q2
  BY <1>1, Scale
<1>3. (c * q2) * p2 <= q1 * p2
  BY <1>1, Scale
<1>4. (c * p2) * q2 = (c * q2) * p2
  OBVIOUS
<1>5. p1 * q2 \in Int /\ (c * p2) * q2 \in Int /\ q1 * p2 \in Int
  BY <1>1
<1> QED BY <1>2, <1>3, <1>4, <1>5

\* What is known of the series at each index.
LEMMA SeriesFacts ==
    ASSUME SeriesInv
    PROVE  /\ Last \in Nat /\ 0 \in 0 .. Last /\ Last \in 0 .. Last
           /\ \A i \in 0 .. Last : time[i] \in Nat /\ bytes[i] \in Nat
           /\ time[0] = 0
           /\ \A i, j \in 0 .. Last : i <= j => time[i] <= time[j]
           /\ query \in Int /\ min \in 0 .. Last
<1>1. len \in Nat /\ len >= 1
  BY SeriesAssumption DEF SeriesInv, TypeOK
<1>2. Last \in Nat
  BY <1>1 DEF Last
<1>3. \A i \in 0 .. Last : time[i] \in Nat /\ bytes[i] \in Nat
  BY SeriesAssumption DEF SeriesInv, TypeOK
<1>4. query \in Int /\ min \in 0 .. Last
  BY SeriesAssumption DEF SeriesInv, TypeOK
<1> QED BY <1>2, <1>3, <1>4 DEF SeriesInv, Sorted

\* interp's result is a value of the function.
LEMMA InterpIs ==
    ASSUME SeriesInv, pc = "found"
    PROVE  IsInterp(query, Interp)
<1>1. CASE query < 0
  BY <1>1, SeriesFacts DEF Interp, IsInterp
<1>2. CASE query >= time[Last]
  <2>1. ~ query < 0
    BY <1>2, SeriesFacts
  <2>2. Interp = <<bytes[Last], 1>>
    BY <1>2, <2>1 DEF Interp
  <2> QED BY <1>2, <2>1, <2>2 DEF IsInterp
<1>3. CASE 0 <= query /\ query < time[Last]
  <2>1. min + 1 \in 0 .. Last
    BY <1>3, NeighbourInside
  <2>2. Interp = Segment(min, query)
    <3>1. ~ query < 0 /\ ~ query >= time[Last]
      BY <1>3, SeriesFacts
    <3> QED BY <3>1 DEF Interp, Line, OnLine, Segment
  <2>3. OnSegment(min, query)
    <3>1. CASE query = 0
      <4>1. query <= time[0]
        BY <3>1, SeriesFacts
      <4>2. min = 0
        BY <4>1 DEF SeriesInv, Bracket
      <4>3. time[0] <= query /\ query <= time[0 + 1]
        BY <2>1, <3>1, <4>2, SeriesFacts
      <4> QED BY <2>1, <3>1, <4>2, <4>3 DEF OnSegment
    <3>2. CASE query # 0
      <4>1. ~ query <= time[0]
        BY <1>3, <3>2, SeriesFacts
      <4>2. time[min] <= query /\ (min < Last => query < time[min + 1])
        BY <4>1 DEF SeriesInv, Bracket
      <4>3. min < Last
        BY <2>1, SeriesFacts
      <4> QED BY <2>1, <3>2, <4>2, <4>3 DEF OnSegment
    <3> QED BY <3>1, <3>2
  <2> QED BY <1>3, <2>2, <2>3, SeriesFacts DEF IsInterp
<1>4. query < 0 \/ query >= time[Last] \/ (0 <= query /\ query < time[Last])
  BY SeriesFacts
<1> QED BY <1>1, <1>2, <1>3, <1>4

LEMMA SpeedInit == Init => SpeedInv
BY DEF Init, SpeedInv, BytesSorted, Last

LEMMA SpeedStep ==
    ASSUME SeriesInv, SpeedInv, [Next]_vars
    PROVE  SpeedInv'
<1>1. CASE \E t \in 0 .. MaxTime, b \in 0 .. MaxBytes : Push(t, b)
  <2>1. PICK t \in 0 .. MaxTime, b \in 0 .. MaxBytes : Push(t, b)
    BY <1>1
  <2>2. /\ Last' = len /\ len = Last + 1 /\ Last \in Nat /\ b \in Nat
        /\ bytes' = [i \in 0 .. len |-> IF i < len THEN bytes[i] ELSE b]
        /\ b >= bytes[Last]
        /\ \A i \in 0 .. Last : bytes[i] \in Nat
    BY <2>1, SeriesFacts, SeriesAssumption DEF Push, Last, SeriesInv, TypeOK
  <2>3. ASSUME NEW i \in 0 .. len, NEW j \in 0 .. len, i <= j
        PROVE  bytes'[i] <= bytes'[j]
    <3>1. CASE j < len
      BY <2>2, <2>3, <3>1 DEF SpeedInv, BytesSorted
    <3>2. CASE i = len
      BY <2>2, <2>3, <3>2
    <3>3. CASE j = len /\ i < len
      <4>1. i \in 0 .. Last /\ Last \in 0 .. Last /\ i <= Last
        BY <2>2, <3>3
      <4>2. bytes[i] <= bytes[Last]
        BY <4>1 DEF SpeedInv, BytesSorted
      <4>3. bytes'[i] = bytes[i] /\ bytes'[j] = b
        BY <2>2, <3>3
      <4> QED BY <2>2, <4>1, <4>2, <4>3
    <3> QED BY <2>2, <2>3, <3>1, <3>2, <3>3
  <2>4. before' = Nothing
    BY <2>1 DEF Push
  <2> QED BY <2>2, <2>3, <2>4 DEF SpeedInv, BytesSorted, Nothing
<1>2. ASSUME UNCHANGED raw, before' = before \/ before' = Nothing
                            \/ (pc = "found" /\ before' = [query |-> query, value |-> Interp])
      PROVE  SpeedInv'
  <2>1. UNCHANGED <<len, time, bytes, Last>>
    BY <1>2 DEF raw, Last
  <2>2. BytesSorted'
    BY <2>1 DEF SpeedInv, BytesSorted
  <2>3. \A t, q : IsInterp(t, q) => IsInterp(t, q)'
    BY <2>1 DEF IsInterp, OnSegment, Segment
  <2>4. before' = Nothing \/ IsInterp(before'.query, before'.value)
    BY <1>2, InterpIs DEF SpeedInv
  <2>5. (before = Nothing \/ IsInterp(before.query, before.value))'
    <3>1. CASE before' = Nothing
      BY <3>1 DEF Nothing
    <3>2. CASE IsInterp(before'.query, before'.value)
      BY <2>3, <3>2
    <3> QED BY <2>4, <3>1, <3>2
  <2> QED BY <2>2, <2>5 DEF SpeedInv
<1>3. CASE \E t \in -1 .. MaxTime + 1 : Ask(t)
  BY <1>2, <1>3 DEF Ask
<1>4. CASE Search \/ UNCHANGED vars
  BY <1>2, <1>4 DEF Search, AtFirst, AtLast, EnterLoop, Leave, Halve, vars, raw
<1> QED BY <1>1, <1>3, <1>4 DEF Next

\* The value on a segment is between the bytes at its ends.
LEMMA SegmentBounds ==
    ASSUME SeriesInv, BytesSorted, NEW i \in 0 .. Last, NEW t \in Int, OnSegment(i, t)
    PROVE  /\ Segment(i, t)[1] \in Nat /\ Segment(i, t)[2] \in Nat
           /\ bytes[i] * Segment(i, t)[2] <= Segment(i, t)[1]
           /\ Segment(i, t)[1] <= bytes[i + 1] * Segment(i, t)[2]
<1>1. PICK a \in Nat, b \in Nat : a = bytes[i] /\ b = bytes[i + 1] /\ a <= b
  BY SeriesFacts DEF OnSegment, BytesSorted
<1>2. PICK s \in Nat, d \in Nat : s = t - time[i] /\ d = time[i + 1] - time[i] /\ s <= d
  <2>1. time[i] \in Nat /\ time[i + 1] \in Nat /\ time[i] <= t /\ t <= time[i + 1]
    BY SeriesFacts DEF OnSegment
  <2> QED BY <2>1
<1>3. Segment(i, t) = <<(b - a) * s + a * d, d>>
  BY <1>1, <1>2 DEF Segment
<1>4. /\ a * d <= (b - a) * s + a * d
      /\ (b - a) * s + a * d <= b * d
      /\ (b - a) * s + a * d \in Nat
  <2>1. s \in 0 .. d
    BY <1>2
  <2> QED BY <1>1, <2>1, Between
<1>5. Segment(i, t)[1] = (b - a) * s + a * d /\ Segment(i, t)[2] = d
  BY <1>3
<1> QED BY <1>1, <1>2, <1>4, <1>5

\* A value is between the first bytes and the last.
LEMMA InterpBounds ==
    ASSUME SeriesInv, BytesSorted, NEW t \in Int, NEW q, IsInterp(t, q)
    PROVE  /\ q[1] \in Nat /\ q[2] \in Nat
           /\ bytes[0] * q[2] <= q[1] /\ q[1] <= bytes[Last] * q[2]
<1>1. bytes[0] \in Nat /\ bytes[Last] \in Nat /\ bytes[0] <= bytes[Last]
  BY SeriesFacts DEF BytesSorted
<1>2. CASE q = <<bytes[0], 1>> \/ q = <<bytes[Last], 1>>
  <2>1. q[1] \in {bytes[0], bytes[Last]} /\ q[2] = 1
    BY <1>2
  <2> QED BY <1>1, <2>1
<1>3. CASE \E i \in 0 .. Last : OnSegment(i, t) /\ q = Segment(i, t)
  <2>1. PICK i \in 0 .. Last : OnSegment(i, t) /\ q = Segment(i, t)
    BY <1>3
  <2>2. /\ q[1] \in Nat /\ q[2] \in Nat
        /\ bytes[i] * q[2] <= q[1] /\ q[1] <= bytes[i + 1] * q[2]
    BY <2>1, SegmentBounds
  <2>3. /\ bytes[i] \in Nat /\ bytes[i + 1] \in Nat
        /\ bytes[0] <= bytes[i] /\ bytes[i + 1] <= bytes[Last]
    BY <2>1, SeriesFacts DEF OnSegment, BytesSorted
  <2>4. bytes[0] * q[2] <= bytes[i] * q[2] /\ bytes[i + 1] * q[2] <= bytes[Last] * q[2]
    BY <1>1, <2>2, <2>3, Scale
  <2>5. /\ bytes[0] * q[2] \in Int /\ bytes[i] * q[2] \in Int
        /\ bytes[i + 1] * q[2] \in Int /\ bytes[Last] * q[2] \in Int
    BY <1>1, <2>2, <2>3
  <2> QED BY <2>2, <2>4, <2>5
<1> QED BY <1>2, <1>3 DEF IsInterp

\* interp never falls.
LEMMA InterpGrows ==
    ASSUME SeriesInv, BytesSorted, NEW t \in Int, NEW u \in Int, t <= u,
           NEW p, NEW q, IsInterp(t, p), IsInterp(u, q)
    PROVE  AtMost(p, q)
<1>1. /\ p[1] \in Nat /\ p[2] \in Nat /\ q[1] \in Nat /\ q[2] \in Nat
      /\ bytes[0] * q[2] <= q[1] /\ p[1] <= bytes[Last] * p[2]
  BY InterpBounds
<1>2. CASE t < 0
  <2>1. p = <<bytes[0], 1>>
    BY <1>2, SeriesFacts DEF IsInterp
  <2>2. p[1] <= bytes[0] * p[2] /\ bytes[0] \in Nat
    BY <2>1, SeriesFacts
  <2> QED BY <1>1, <2>2, Through DEF AtMost
<1>3. CASE u >= time[Last]
  <2>1. q = <<bytes[Last], 1>>
    BY <1>3, SeriesFacts DEF IsInterp
  <2>2. bytes[Last] * q[2] <= q[1] /\ bytes[Last] \in Nat
    BY <2>1, SeriesFacts
  <2> QED BY <1>1, <2>2, Through DEF AtMost
<1>4. CASE 0 <= t /\ u < time[Last]
  <2>1. ~ t < 0 /\ ~ u < 0 /\ ~ t >= time[Last] /\ ~ u >= time[Last]
    BY <1>4, SeriesFacts
  <2>2. PICK i \in 0 .. Last : OnSegment(i, t) /\ p = Segment(i, t)
    BY <2>1 DEF IsInterp
  <2>3. PICK j \in 0 .. Last : OnSegment(j, u) /\ q = Segment(j, u)
    BY <2>1 DEF IsInterp
  <2>4. /\ i + 1 \in 0 .. Last /\ j + 1 \in 0 .. Last
        /\ time[i] <= t /\ time[j] <= u
        /\ (u # 0 => u < time[j + 1]) /\ (t = 0 => i = 0) /\ (u = 0 => j = 0)
    BY <2>2, <2>3 DEF OnSegment
  <2>5. i <= j
    <3> SUFFICES ASSUME i > j PROVE FALSE
      BY SeriesFacts
    <3>1. u # 0
      BY <1>4, <2>4
    <3>2. time[j + 1] <= time[i]
      BY <2>4, SeriesFacts
    <3> QED BY <2>4, <3>1, <3>2, SeriesFacts
  <2>6. CASE i < j
    <3>1. p[1] <= bytes[i + 1] * p[2]
      BY <2>2, SegmentBounds
    <3>2. bytes[j] * q[2] <= q[1]
      BY <2>3, SegmentBounds
    <3>3. bytes[i + 1] \in Nat /\ bytes[j] \in Nat /\ bytes[i + 1] <= bytes[j]
      BY <2>4, <2>6, SeriesFacts DEF BytesSorted
    <3>4. bytes[i + 1] * q[2] <= bytes[j] * q[2]
      BY <1>1, <3>3, Scale
    <3>5. bytes[i + 1] * q[2] \in Int /\ bytes[j] * q[2] \in Int
      BY <1>1, <3>3
    <3>6. bytes[i + 1] * q[2] <= q[1]
      BY <1>1, <3>2, <3>4, <3>5
    <3> QED BY <1>1, <3>1, <3>3, <3>6, Through DEF AtMost
  <2>7. CASE i = j
    <3>1. PICK a \in Nat, b \in Nat : a = bytes[i] /\ b = bytes[i + 1] /\ a <= b
      BY <2>4, SeriesFacts DEF BytesSorted
    <3>2. PICK d \in Nat : d = time[i + 1] - time[i]
      BY <2>4, SeriesFacts
    <3>3. PICK s \in Nat, r \in Nat : s = t - time[i] /\ r = u - time[i] /\ s <= r
      <4>1. time[i] \in Nat /\ time[i] <= t /\ time[i] <= u
        BY <2>4, <2>7, SeriesFacts
      <4> QED BY <4>1
    <3>4. p = <<(b - a) * s + a * d, d>> /\ q = <<(b - a) * r + a * d, d>>
      BY <2>2, <2>3, <2>7, <3>1, <3>2, <3>3 DEF Segment
    <3>5. ((b - a) * s + a * d) * d <= ((b - a) * r + a * d) * d
      BY <3>1, <3>3, Along
    <3> QED BY <3>4, <3>5 DEF AtMost
  <2> QED BY <2>5, <2>6, <2>7, SeriesFacts
<1> QED BY <1>2, <1>3, <1>4, SeriesFacts

(* The estimates for every series: speed() is never negative, and             *)
(* estimated_time_left() is a number from the first byte on, not negative,    *)
(* and zero only when all is written or no time has passed.                  *)
THEOREM SaneEstimates == Spec => []EstimatesAreSane
<1>1. Init => SeriesInv /\ SpeedInv
  BY SeriesInit, SpeedInit
<1>2. SeriesInv /\ SpeedInv /\ [Next]_vars => SeriesInv' /\ SpeedInv'
  BY SeriesStep, SpeedStep
<1>3. SeriesInv /\ SpeedInv => SpeedIsNotNegative
  <2> SUFFICES ASSUME SeriesInv, SpeedInv, pc = "found", before.query <= query,
                      IsNumber(Interp), IsNumber(before.value)
               PROVE  AtMost(before.value, Interp)
    BY DEF SpeedIsNotNegative
  <2>1. before # Nothing
    BY DEF Nothing, IsNumber
  <2>2. IsInterp(before.query, before.value)
    BY <2>1 DEF SpeedInv
  <2>3. before.query \in Int /\ query \in Int
    BY SeriesAssumption DEF SeriesInv, TypeOK
  <2>4. BytesSorted
    BY DEF SpeedInv
  <2> QED BY <2>2, <2>3, <2>4, InterpIs, InterpGrows
<1>4. SeriesInv => TimeLeftIsSane
  <2> SUFFICES ASSUME SeriesInv, NEW total \in 0 .. MaxBytes
               PROVE  /\ IsNumber(SecsLeft(total)) <=> bytes[Last] > 0
                      /\ SecsLeft(total)[1] >= 0
                      /\ IsNumber(SecsLeft(total)) =>
                            (SecsLeft(total)[1] = 0 <=>
                                (total <= bytes[Last] \/ time[Last] = 0))
    BY DEF TimeLeftIsSane
  <2>1. PICK b \in Nat, t \in Nat : b = bytes[Last] /\ t = time[Last]
    BY SeriesFacts
  <2>2. PICK left \in Nat : left = BytesLeft(total) /\ (left = 0 <=> total <= b)
    BY <2>1, SeriesAssumption DEF BytesLeft
  <2>3. CASE b = 0
    <3>1. SecsLeft(total) = <<left * 1, 0>>
      BY <2>1, <2>2, <2>3 DEF SecsLeft, TotalAvgSpeed
    <3>2. SecsLeft(total)[1] = left /\ SecsLeft(total)[2] = 0
      BY <3>1
    <3> QED BY <2>1, <2>3, <3>2 DEF IsNumber
  <2>4. CASE b # 0
    <3>1. SecsLeft(total) = <<left * t, b>>
      BY <2>1, <2>2, <2>4 DEF SecsLeft, TotalAvgSpeed
    <3>2. SecsLeft(total)[1] = left * t /\ SecsLeft(total)[2] = b
      BY <3>1
    <3>3. left * t \in Nat /\ (left * t = 0 <=> (left = 0 \/ t = 0))
      BY Product
    <3> QED BY <2>1, <2>2, <2>4, <3>2, <3>3 DEF IsNumber
  <2> QED BY <2>3, <2>4
<1> QED BY <1>1, <1>2, <1>3, <1>4, PTL DEF Spec, EstimatesAreSane

=============================================================================
