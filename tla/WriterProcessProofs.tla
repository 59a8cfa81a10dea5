------------------------- MODULE WriterProcessProofs --------------------------
(***************************************************************************)
(* Proofs about WriterProcess, for every image, target, buffer size and     *)
(* checkpoint period.  WriterInv is the inductive invariant: TypeOK, what   *)
(* the control point says about positions and results (Control), what the   *)
(* verification has established so far (Verifying), how the last event       *)
(* reflects the result (Reporting) and what was synchronised (Durability).  *)
(* Three more parts rest on it: what healthy hardware holds (Intact), where  *)
(* a write starts (Aligned), and which steps of WriterProtocol the thread     *)
(* makes (Told).  A herd which keeps to WriterProtocol never says anything    *)
(* that is not well formed (ConversationsAreWellFormed): the consumers'       *)
(* modules take the language HerdEvents!WellFormed for their input.          *)
(***************************************************************************)
EXTENDS WriterProcess, TLAPS

Control ==
    /\ pc \in {"unmount", "open", "begin_write"} => srcPos = 0 /\ diskPos = 0
    /\ pc \in {"begin_write", "write"} /\ srcPos < job.length => diskPos <= srcPos
    /\ pc \in {"finish", "rewind"} => srcPos = job.length
    /\ pc \in {"rewind", "begin_verify", "verify"} => job.verify
    /\ pc \in {"begin_verify", "verify"} => diskPos <= diskLen
    /\ pc = "report" => result # "None"
    /\ result = "EndOfOutput" => job.length > job.capacity

\* The first n cells of the image are on the target, as far as it reaches ...
Agrees(n) == \A i \in 0 .. n - 1 : i < diskLen => disk[i] = job.image[i]

\* ... and where it does not, they repeat the image one buffer earlier.
Repeats(n) ==
    \A i \in 0 .. n - 1 :
        i >= diskLen => job.image[i] = IF i < BufSize THEN Zero
                                       ELSE job.image[i - BufSize]

\* What disk_buf holds between two turns: the buffer compared last.
DiskBufIsPrevious ==
    /\ srcPos = 0 \/ srcPos >= BufSize
    /\ \A k \in 0 .. BufSize - 1 :
          diskBuf[k] = IF srcPos = 0 THEN Zero ELSE job.image[(srcPos + k) - BufSize]

Verifying ==
    /\ pc = "begin_verify" => srcPos = 0 /\ diskPos = 0
    /\ pc = "verify" =>
          /\ Agrees(srcPos)
          /\ Repeats(srcPos)
          /\ srcPos < job.length =>
                /\ diskPos = Lesser(srcPos, diskLen)
                /\ DiskBufIsPrevious
    /\ pc \in {"begin_verify", "verify"} /\ job.target = "File" => diskLen = job.length
    /\ pc \in {"report", "ended"} /\ result = "Ok" /\ job.verify =>
          /\ Agrees(job.length)
          /\ Repeats(job.length)
          /\ job.target = "File" => diskLen = job.length

Reporting ==
    events # <<>> /\ P!IsFinal(LastEvent) =>
        pc = "ended" /\ LastEvent = P!FinalEvent(result)

Durability ==
    /\ pc \in {"unmount", "open", "begin_write", "write"} =>
          \A i \in DOMAIN events : events[i].type # "FinishedWriting"
    /\ /\ job.os = "linux"
       /\ pc = "finish" \/ \E i \in DOMAIN events : events[i].type = "FinishedWriting"
       => ~ dirty

WriterInv == TypeOK /\ Control /\ Verifying /\ Reporting /\ Durability

-----------------------------------------------------------------------------

\* What is known of a job.
LEMMA JobFacts ==
    ASSUME job \in Job
    PROVE  /\ job.length \in 0 .. MaxSize /\ job.capacity \in 0 .. MaxSize
           /\ job.image \in [0 .. job.length - 1 -> Cell]
           /\ job.verify \in BOOLEAN
           /\ job.block \in BlockSizes \cup {NoBlock}
BY DEF Job

\* A buffer holds at least a cell, and there is a checkpoint period.
LEMMA BufFacts ==
    ASSUME job \in Job
    PROVE  /\ BufSize \in Nat /\ BufSize > 0
           /\ CheckpointPeriod \in Nat
<1>1. BlockSize \in Nat \ {0}
  BY JobFacts, WriterAssumption DEF BlockSize
<1>2. BlockSize * BufBlocks \in Nat /\ BlockSize * BufBlocks > 0
  <2> DEFINE b == BlockSize
  <2> HIDE DEF b
  <2>1. b \in Nat /\ b > 0 /\ BufBlocks \in Nat /\ BufBlocks > 0
    BY <1>1, WriterAssumption DEF b
  <2>2. b * BufBlocks \in Nat /\ b * BufBlocks > 0
    BY <2>1
  <2> QED BY <2>2 DEF b
<1>3. BufSize \in Nat /\ BufSize > 0
  BY <1>2, WriterAssumption DEF BufSize, Lesser
<1>4. CheckpointBytes \in Nat /\ CheckpointBytes \div BufSize \in Nat
  BY <1>3, WriterAssumption
<1> QED BY <1>3, <1>4 DEF CheckpointPeriod

\* The job never changes, nor do the sizes computed from it.
LEMMA JobConstant ==
    ASSUME [Next]_vars
    PROVE  job' = job /\ BufSize' = BufSize /\ CheckpointPeriod' = CheckpointPeriod
<1>1. job' = job
  BY DEF Next, Progress, Environment, Unmount, Open, BeginWrite, WriteBuffer,
         WriteEndOfOutput, WriteCheckpoint, WriteEof, FinishWriting, Rewind,
         BeginVerify, VerifyBuffer, VerifyCheckpoint, VerifyEof, Report, IoFails,
         Panic, MediaFault, vars
<1> QED BY <1>1 DEF BufSize, BlockSize, CheckpointPeriod

\* What one call of try_read_exact on the source does.
LEMMA FillFacts ==
    ASSUME TypeOK, FillBuf
    PROVE  LET n == CountAvailable(job.length, srcPos)
           IN  /\ n \in Nat /\ n > 0 /\ n <= BufSize
               /\ srcPos' = srcPos + n /\ srcPos' <= job.length
               /\ srcPos' \in Nat
               /\ n < BufSize => srcPos' = job.length
               /\ buf' \in [0 .. BufSize - 1 -> Cell]
               /\ \A k \in 0 .. n - 1 : buf'[k] = job.image[srcPos + k]
<1>1. BufSize \in Nat /\ BufSize > 0 /\ job.length \in Nat
      /\ job.image \in [0 .. job.length - 1 -> Cell]
  BY BufFacts, JobFacts, WriterAssumption DEF TypeOK
<1>2. srcPos \in Nat /\ srcPos < job.length
  BY <1>1 DEF TypeOK, FillBuf
<1> DEFINE n == CountAvailable(job.length, srcPos)
<1>3. n \in Nat /\ n > 0 /\ n <= BufSize /\ srcPos + n <= job.length
      /\ (n < BufSize => srcPos + n = job.length)
  BY <1>1, <1>2 DEF CountAvailable, Lesser
<1>4. srcPos' = srcPos + n /\ buf' = ReadInto(buf, job.image, job.length, srcPos)
  BY DEF FillBuf
<1>5. buf' \in [0 .. BufSize - 1 -> Cell]
  <2>1. buf \in [0 .. BufSize - 1 -> Cell]
    BY DEF TypeOK
  <2>2. ASSUME NEW i \in 0 .. BufSize - 1
        PROVE  (IF srcPos + i < job.length THEN job.image[srcPos + i] ELSE buf[i]) \in Cell
    BY <1>1, <1>2, <2>1
  <2> QED BY <2>2, <1>4 DEF ReadInto
<1>6. \A k \in 0 .. n - 1 : buf'[k] = job.image[srcPos + k]
  BY <1>1, <1>2, <1>3, <1>4 DEF ReadInto
<1> QED BY <1>2, <1>3, <1>4, <1>5, <1>6

LEMMA SendFacts ==
    ASSUME NEW e \in P!Event, events \in Seq(P!Event), Send(e)
    PROVE  /\ events' \in Seq(P!Event)
           /\ events' # <<>>
           /\ Len(events') = Len(events) + 1
           /\ events'[Len(events')] = e
           /\ LastEvent' = e
           /\ \A i \in DOMAIN events : events'[i] = events[i]
           /\ DOMAIN events' = DOMAIN events \cup {Len(events')}
BY DEF Send, LastEvent

LEMMA EventFacts ==
    ASSUME MaxSize \in Nat
    PROVE  /\ P!InitSuccess \in P!Event
           /\ \A n \in 0 .. MaxSize : P!TotalBytes(n) \in P!Event
           /\ \A v \in BOOLEAN : P!FinishedWriting(v) \in P!Event
           /\ \A v \in {"Ok"} \cup P!Failure : P!FinalEvent(v) \in P!Event
BY DEF P!Event, P!InitSuccess, P!TotalBytes, P!FinishedWriting, P!FinalEvent,
       P!Success, P!Error

-----------------------------------------------------------------------------

LEMMA InitInv == Init => WriterInv
<1> SUFFICES ASSUME Init PROVE WriterInv
  OBVIOUS
<1>1. job \in Job
  BY DEF Init
<1>2. /\ BufSize \in Nat /\ CheckpointPeriod \in Nat
      /\ job.length \in 0 .. MaxSize /\ job.capacity \in 0 .. MaxSize /\ MaxSize \in Nat
  BY <1>1, BufFacts, JobFacts, WriterAssumption
<1>3. TypeOK
  <2>1. ZeroBuf \in [0 .. BufSize - 1 -> Cell]
    BY WriterAssumption DEF ZeroBuf
  <2>2. disk \in [0 .. MaxSize - 1 -> Cell]
    BY WriterAssumption DEF Init
  <2>3. events \in Seq(P!Event)
    BY DEF Init
  <2>4. /\ pc \in {"unmount", "open"} /\ diskLen \in 0 .. MaxSize
        /\ buf = ZeroBuf /\ diskBuf = ZeroBuf
        /\ srcPos = 0 /\ diskPos = 0 /\ iter = 0
        /\ dirty = FALSE /\ result = "None" /\ mishaps = {}
    BY <1>2 DEF Init
  <2>5. 0 \in 0 .. MaxSize /\ 0 \in 0 .. CheckpointPeriod /\ 0 \in 0 .. job.length
    BY <1>2
  <2> QED BY <1>1, <2>1, <2>2, <2>3, <2>4, <2>5 DEF TypeOK
<1>4. Control /\ Verifying /\ Reporting /\ Durability
  BY DEF Init, Control, Verifying, Reporting, Durability
<1> QED BY <1>3, <1>4 DEF WriterInv

LEMMA TypeStep == WriterInv /\ [Next]_vars => TypeOK'
<1> SUFFICES ASSUME WriterInv, [Next]_vars PROVE TypeOK'
  OBVIOUS
<1> USE JobConstant
<1>1. TypeOK /\ Control
  BY DEF WriterInv
<1>2. /\ BufSize \in Nat /\ BufSize > 0 /\ CheckpointPeriod \in Nat
      /\ job.length \in 0 .. MaxSize /\ job.capacity \in 0 .. MaxSize /\ MaxSize \in Nat
      /\ job.verify \in BOOLEAN
  BY <1>1, BufFacts, JobFacts, WriterAssumption DEF TypeOK
<1>3. ASSUME NEW e \in P!Event, Send(e) PROVE events' \in Seq(P!Event)
  BY <1>1, <1>3, SendFacts DEF TypeOK
<1>4. diskPos \in 0 .. MaxSize => P!TotalBytes(diskPos) \in P!Event
  BY <1>2, EventFacts
<1>5. ZeroBuf \in [0 .. BufSize - 1 -> Cell]
  BY WriterAssumption DEF ZeroBuf
<1>a. CASE Unmount
  BY <1>a, <1>1, <1>2 DEF Unmount, Fail, TypeOK, Control, P!Failure
<1>b. CASE Open
  <2>1. events' \in Seq(P!Event)
    BY <1>b, <1>2, <1>3, EventFacts DEF Open
  <2> QED BY <2>1, <1>b, <1>1, <1>2 DEF Open, TypeOK
<1>c. CASE BeginWrite
  BY <1>c, <1>1, <1>2, <1>5 DEF BeginWrite, TypeOK, Control
<1>d. CASE WriteBuffer
  <2>1. FillBuf /\ pc = "write" /\ diskPos < job.capacity
    BY <1>d DEF WriteBuffer
  <2>2. srcPos' \in 0 .. job.length /\ buf' \in [0 .. BufSize - 1 -> Cell]
    BY <2>1, <1>1, <1>2, FillFacts DEF TypeOK
  <2>3. PICK w \in 1 .. Room :
          /\ disk' = [i \in 0 .. MaxSize - 1 |->
                        IF diskPos <= i /\ i < diskPos + w THEN buf'[i - diskPos]
                                                           ELSE disk[i]]
          /\ diskPos' = diskPos + w
          /\ diskLen' = IF diskPos + w > diskLen THEN diskPos + w ELSE diskLen
          /\ mishaps' = IF w < Room THEN mishaps \cup {"short"} ELSE mishaps
    BY <1>d DEF WriteBuffer
  <2>4. w \in Nat /\ w <= BufSize /\ diskPos + w <= job.capacity /\ diskPos \in Nat
    BY <2>1, <2>3, <1>1, <1>2 DEF Room, Lesser, TypeOK
  <2>5. disk' \in [0 .. MaxSize - 1 -> Cell]
    <3>1. disk \in [0 .. MaxSize - 1 -> Cell]
      BY <1>1 DEF TypeOK
    <3>2. ASSUME NEW i \in 0 .. MaxSize - 1
          PROVE  (IF diskPos <= i /\ i < diskPos + w THEN buf'[i - diskPos]
                                                     ELSE disk[i]) \in Cell
      BY <2>2, <2>4, <3>1, <1>2
    <3> QED BY <2>3, <3>2
  <2>6. diskPos' \in 0 .. MaxSize /\ diskPos' <= job.capacity /\ diskLen' \in 0 .. MaxSize
    BY <2>3, <2>4, <1>1, <1>2 DEF TypeOK
  <2>7. mishaps' \subseteq {"media", "short"}
    BY <2>3, <1>1 DEF TypeOK
  <2>8. iter' \in 0 .. CheckpointPeriod
    BY <1>d, <2>1, <1>1, <1>2 DEF WriteBuffer, FillBuf, TypeOK
  <2> QED BY <1>d, <1>1, <2>2, <2>5, <2>6, <2>7, <2>8 DEF WriteBuffer, TypeOK
<1>e. CASE WriteEndOfOutput
  <2>1. srcPos' \in 0 .. job.length /\ buf' \in [0 .. BufSize - 1 -> Cell]
    BY <1>e, <1>1, <1>2, FillFacts DEF TypeOK, WriteEndOfOutput
  <2>2. events' \in Seq(P!Event)
    BY <1>e, <1>1, <1>3, <1>4 DEF WriteEndOfOutput, TypeOK
  <2> QED BY <1>e, <1>1, <2>1, <2>2 DEF WriteEndOfOutput, Fail, TypeOK, P!Failure
<1>f. CASE WriteCheckpoint
  <2>1. events' \in Seq(P!Event)
    BY <1>f, <1>1, <1>3, <1>4 DEF WriteCheckpoint, TypeOK
  <2> QED BY <1>f, <1>1, <1>2, <2>1 DEF WriteCheckpoint, TypeOK
<1>g. CASE WriteEof
  <2>1. events' \in Seq(P!Event)
    BY <1>g, <1>1, <1>3, <1>4 DEF WriteEof, TypeOK
  <2>2. dirty' \in BOOLEAN
    BY <1>g DEF WriteEof, DirtyAfterFlush
  <2> QED BY <1>g, <1>1, <2>1, <2>2 DEF WriteEof, TypeOK
<1>h. CASE FinishWriting
  <2>1. events' \in Seq(P!Event)
    BY <1>h, <1>2, <1>3, EventFacts DEF FinishWriting
  <2> QED BY <1>h, <1>1, <2>1 DEF FinishWriting, TypeOK
<1>i. CASE Rewind
  <2>1. disk' \in [0 .. MaxSize - 1 -> Cell]
    BY <1>i, <1>1, WriterAssumption DEF Rewind, TypeOK
  <2>2. diskLen' \in 0 .. MaxSize
    BY <1>i, <1>1, <1>2 DEF Rewind, TypeOK
  <2> QED BY <1>i, <1>1, <1>2, <2>1, <2>2 DEF Rewind, TypeOK
<1>j. CASE BeginVerify
  BY <1>j, <1>1, <1>2, <1>5 DEF BeginVerify, TypeOK
<1>k. CASE VerifyBuffer
  <2>1. FillBuf /\ pc = "verify"
    BY <1>k DEF VerifyBuffer
  <2>2. srcPos' \in 0 .. job.length /\ buf' \in [0 .. BufSize - 1 -> Cell]
    BY <2>1, <1>1, <1>2, FillFacts DEF TypeOK
  <2>3. diskPos \in Nat /\ diskLen \in 0 .. MaxSize /\ diskPos <= diskLen
    BY <2>1, <1>1, <1>2 DEF TypeOK, Control
  <2>4. diskPos' \in 0 .. MaxSize
    BY <1>k, <2>3, <1>2 DEF VerifyBuffer, CountAvailable, Lesser
  <2>5. diskBuf' \in [0 .. BufSize - 1 -> Cell]
    <3>1. /\ disk \in [0 .. MaxSize - 1 -> Cell]
          /\ diskBuf \in [0 .. BufSize - 1 -> Cell]
      BY <1>1 DEF TypeOK
    <3>2. ASSUME NEW i \in 0 .. BufSize - 1
          PROVE  (IF diskPos + i < diskLen THEN disk[diskPos + i] ELSE diskBuf[i]) \in Cell
      BY <2>3, <3>1, <1>2
    <3> QED BY <1>k, <3>2 DEF VerifyBuffer, ReadInto
  <2>6. iter' \in 0 .. CheckpointPeriod
    BY <1>k, <2>1, <1>1, <1>2 DEF VerifyBuffer, FillBuf, Fail, TypeOK
  <2>7. pc' \in {"verify", "report"} /\ result' \in {result, "VerificationFailed"}
    BY <1>k DEF VerifyBuffer, Fail
  <2> QED BY <1>k, <1>1, <2>2, <2>4, <2>5, <2>6, <2>7
          DEF VerifyBuffer, TypeOK, P!Failure
<1>l. CASE VerifyCheckpoint
  <2>1. events' \in Seq(P!Event)
    BY <1>l, <1>1, <1>3, <1>4 DEF VerifyCheckpoint, TypeOK
  <2> QED BY <1>l, <1>1, <1>2, <2>1 DEF VerifyCheckpoint, TypeOK
<1>m. CASE VerifyEof
  <2>1. events' \in Seq(P!Event)
    BY <1>m, <1>1, <1>3, <1>4 DEF VerifyEof, TypeOK
  <2> QED BY <1>m, <1>1, <2>1 DEF VerifyEof, TypeOK
<1>n. CASE Report
  <2>1. result \in {"Ok"} \cup P!Failure
    BY <1>n, <1>1 DEF Report, TypeOK, Control
  <2>2. events' \in Seq(P!Event)
    BY <1>n, <2>1, <1>2, <1>3, EventFacts DEF Report
  <2> QED BY <1>n, <1>1, <2>2 DEF Report, TypeOK
<1>o. CASE IoFails
  BY <1>o, <1>1 DEF IoFails, Fail, TypeOK, P!Failure
<1>p. CASE Panic
  BY <1>p, <1>1 DEF Panic, TypeOK
<1>q. CASE MediaFault
  <2>1. disk' \in [0 .. MaxSize - 1 -> Cell]
    BY <1>q, <1>1 DEF MediaFault, TypeOK
  <2> QED BY <1>q, <1>1, <2>1 DEF MediaFault, TypeOK
<1>r. CASE UNCHANGED vars
  BY <1>r, <1>1 DEF vars, TypeOK
<1> QED
  BY <1>a, <1>b, <1>c, <1>d, <1>e, <1>f, <1>g, <1>h, <1>i, <1>j, <1>k, <1>l, <1>m,
     <1>n, <1>o, <1>p, <1>q, <1>r DEF Next, Progress, Environment

LEMMA ControlStep == WriterInv /\ [Next]_vars => Control'
<1> SUFFICES ASSUME WriterInv, [Next]_vars PROVE Control'
  OBVIOUS
<1> USE JobConstant
<1>1. TypeOK /\ Control
  BY DEF WriterInv
<1>2. /\ BufSize \in Nat /\ BufSize > 0
      /\ job.length \in Nat /\ job.capacity \in Nat /\ MaxSize \in Nat
      /\ srcPos \in 0 .. job.length /\ diskPos \in Nat /\ diskLen \in Nat
  BY <1>1, BufFacts, JobFacts, WriterAssumption DEF TypeOK
<1>d. CASE WriteBuffer
  <2>1. FillBuf /\ pc = "write" /\ diskPos <= srcPos
    BY <1>d, <1>1, <1>2 DEF WriteBuffer, FillBuf, Control
  <2>2. PICK w \in 1 .. Room : diskPos' = diskPos + w
    BY <1>d DEF WriteBuffer
  <2>3. diskPos' <= diskPos + BufSize
    BY <1>2, <2>2 DEF Room, Lesser
  <2>4. srcPos' < job.length => srcPos' = srcPos + BufSize
    BY <2>1, <1>1, <1>2, FillFacts
  <2>5. srcPos' < job.length => diskPos' <= srcPos'
    BY <1>2, <2>1, <2>2, <2>3, <2>4
  <2> QED BY <1>d, <1>1, <2>1, <2>5 DEF WriteBuffer, Control
<1>e. CASE WriteEndOfOutput
  <2>1. job.length > job.capacity
    BY <1>e, <1>1, <1>2 DEF WriteEndOfOutput, FillBuf, Control
  <2> QED BY <1>e, <2>1 DEF WriteEndOfOutput, Fail, Control
<1>i. CASE Rewind
  <2>1. pc' = "begin_verify" /\ diskPos' = 0 /\ diskLen' \in Nat /\ result' = result
        /\ job.verify
    BY <1>i, <1>1, <1>2 DEF Rewind, Control
  <2> QED BY <2>1, <1>1 DEF Control
<1>k. CASE VerifyBuffer
  <2>1. pc = "verify" /\ diskPos <= diskLen /\ diskLen' = diskLen /\ job.verify
    BY <1>k, <1>1 DEF VerifyBuffer, Control
  <2>2. diskPos' <= diskLen'
    BY <1>k, <2>1, <1>2 DEF VerifyBuffer, CountAvailable, Lesser
  <2>3. \/ pc' = "verify" /\ result' = result
        \/ pc' = "report" /\ result' = "VerificationFailed"
    BY <1>k, <2>1 DEF VerifyBuffer, Fail
  <2> QED BY <2>1, <2>2, <2>3, <1>1 DEF Control
<1>s. CASE Unmount \/ Open \/ BeginWrite \/ WriteCheckpoint \/ WriteEof
  BY <1>s, <1>1, <1>2 DEF Unmount, Open, BeginWrite, WriteCheckpoint, WriteEof, Fail,
     Control
<1>t. CASE FinishWriting \/ BeginVerify \/ VerifyCheckpoint \/ VerifyEof \/ Report
  BY <1>t, <1>1, <1>2 DEF FinishWriting, BeginVerify, VerifyCheckpoint, VerifyEof,
     Report, Control
<1>u. CASE IoFails \/ Panic \/ MediaFault \/ UNCHANGED vars
  BY <1>u, <1>1, <1>2 DEF IoFails, P!IoError, Fail, Panic, MediaFault, vars, Control
<1> QED
  BY <1>d, <1>e, <1>i, <1>k, <1>s, <1>t, <1>u DEF Next, Progress, Environment

\* What one comparison that found no difference establishes.
LEMMA CompareFacts ==
    ASSUME WriterInv, VerifyBuffer, SameUpTo(CountAvailable(job.length, srcPos))
    PROVE  /\ \A i \in 0 .. srcPos' - 1 : i < diskLen => disk[i] = job.image[i]
           /\ Repeats(srcPos')
           /\ srcPos' < job.length =>
                 /\ diskPos' = Lesser(srcPos', diskLen)
                 /\ srcPos' >= BufSize
                 /\ \A k \in 0 .. BufSize - 1 :
                       diskBuf'[k] = job.image[(srcPos' + k) - BufSize]
<1> DEFINE n == CountAvailable(job.length, srcPos)
<1>1. TypeOK /\ FillBuf /\ pc = "verify"
  BY DEF WriterInv, VerifyBuffer
<1>2. /\ BufSize \in Nat /\ BufSize > 0 /\ job.length \in Nat
      /\ srcPos \in Nat /\ srcPos < job.length /\ diskLen \in Nat /\ diskPos \in Nat
  BY <1>1, BufFacts, JobFacts, WriterAssumption DEF TypeOK, FillBuf
<1>3. /\ Agrees(srcPos) /\ Repeats(srcPos)
      /\ diskPos = Lesser(srcPos, diskLen)
      /\ DiskBufIsPrevious
  BY <1>1, <1>2 DEF WriterInv, Verifying
<1>4. /\ n \in Nat /\ n > 0 /\ n <= BufSize
      /\ srcPos' = srcPos + n /\ srcPos' <= job.length
      /\ n < BufSize => srcPos' = job.length
      /\ \A k \in 0 .. n - 1 : buf'[k] = job.image[srcPos + k]
  BY <1>1, FillFacts
<1>5. \A k \in 0 .. BufSize - 1 :
         diskBuf'[k] = IF diskPos + k < diskLen THEN disk[diskPos + k] ELSE diskBuf[k]
  BY <1>2 DEF VerifyBuffer, ReadInto
<1>6. \A k \in 0 .. n - 1 : diskBuf'[k] = job.image[srcPos + k]
  BY <1>4 DEF SameUpTo
<1> HIDE DEF n
<1>7. ASSUME NEW i \in 0 .. srcPos' - 1, i < diskLen PROVE disk[i] = job.image[i]
  <2>1. CASE i < srcPos
    BY <1>2, <1>3, <1>7, <2>1 DEF Agrees
  <2>2. CASE i >= srcPos
    <3>1. diskPos = srcPos
      BY <1>2, <1>3, <1>7, <2>2 DEF Lesser
    <3>2. i - srcPos \in 0 .. n - 1 /\ i - srcPos \in 0 .. BufSize - 1
      BY <1>2, <1>4, <1>7, <2>2
    <3>3. diskBuf'[i - srcPos] = disk[srcPos + (i - srcPos)]
      BY <1>2, <1>5, <1>7, <3>1, <3>2
    <3>4. diskBuf'[i - srcPos] = job.image[srcPos + (i - srcPos)]
      BY <1>6, <3>2
    <3>5. srcPos + (i - srcPos) = i
      BY <1>2, <1>4
    <3> QED BY <3>3, <3>4, <3>5
  <2> QED BY <1>2, <1>4, <2>1, <2>2
<1>8. Repeats(srcPos')
  <2> SUFFICES ASSUME NEW i \in 0 .. srcPos' - 1, i >= diskLen
               PROVE  job.image[i] = IF i < BufSize THEN Zero ELSE job.image[i - BufSize]
    BY DEF Repeats
  <2>1. CASE i < srcPos
    BY <1>2, <1>3, <2>1 DEF Repeats
  <2>2. CASE i >= srcPos
    <3> DEFINE k == i - srcPos
    <3>1. k \in 0 .. n - 1 /\ k \in 0 .. BufSize - 1 /\ srcPos + k = i /\ k \in Nat
      BY <1>2, <1>4, <2>2
    <3> HIDE DEF k
    <3>2. ~ (diskPos + k < diskLen)
      BY <1>2, <1>3, <3>1 DEF Lesser
    <3>3. job.image[i] = diskBuf[k]
      BY <1>5, <1>6, <3>1, <3>2
    <3>4. CASE srcPos = 0
      BY <1>2, <1>3, <3>1, <3>3, <3>4 DEF DiskBufIsPrevious
    <3>5. CASE srcPos # 0
      <4>1. srcPos >= BufSize /\ diskBuf[k] = job.image[(srcPos + k) - BufSize]
        BY <1>3, <3>1, <3>5 DEF DiskBufIsPrevious
      <4>2. ~ (i < BufSize)
        BY <1>2, <3>1, <4>1
      <4> QED BY <3>1, <3>3, <4>1, <4>2
    <3> QED BY <3>4, <3>5
  <2> QED BY <1>2, <1>4, <2>1, <2>2
<1>9. ASSUME srcPos' < job.length
      PROVE  /\ diskPos' = Lesser(srcPos', diskLen)
             /\ srcPos' >= BufSize
             /\ \A k \in 0 .. BufSize - 1 :
                   diskBuf'[k] = job.image[(srcPos' + k) - BufSize]
  <2>1. n = BufSize
    BY <1>2, <1>4, <1>9
  <2>2. diskPos' = diskPos + Lesser(BufSize, diskLen - diskPos)
    BY DEF VerifyBuffer, CountAvailable
  <2>3. diskPos' = Lesser(srcPos', diskLen)
    BY <1>2, <1>3, <1>4, <2>1, <2>2 DEF Lesser
  <2>4. \A k \in 0 .. BufSize - 1 : (srcPos' + k) - BufSize = srcPos + k
    BY <1>2, <1>4, <2>1
  <2> QED BY <1>2, <1>4, <1>6, <2>1, <2>3, <2>4
<1> QED BY <1>7, <1>8, <1>9

LEMMA VerifyingStep == WriterInv /\ [Next]_vars => Verifying'
<1> SUFFICES ASSUME WriterInv, [Next]_vars PROVE Verifying'
  OBVIOUS
<1> USE JobConstant
<1>1. TypeOK /\ Control /\ Verifying
  BY DEF WriterInv
<1>2. /\ BufSize \in Nat /\ BufSize > 0 /\ job.length \in Nat /\ srcPos \in Nat
      /\ diskLen \in Nat
  BY <1>1, BufFacts, JobFacts DEF TypeOK
<1>a. CASE Unmount \/ Open \/ BeginWrite \/ WriteBuffer \/ WriteEndOfOutput
  <2>1. \/ pc' \in {"open", "waiting", "panicked", "begin_write", "write"}
        \/ pc' = "report" /\ result' # "Ok"
    BY <1>a DEF Unmount, Open, BeginWrite, WriteBuffer, WriteEndOfOutput, Fail
  <2> QED BY <2>1 DEF Verifying
<1>b. CASE WriteCheckpoint \/ WriteEof \/ Panic \/ MediaFault
  <2>1. pc' \in {"write", "finish", "rewind", "panicked"}
    BY <1>b DEF WriteCheckpoint, WriteEof, Panic, MediaFault
  <2> QED BY <2>1 DEF Verifying
<1>c. CASE FinishWriting
  <2>1. pc' = "rewind" \/ (pc' = "report" /\ ~ job'.verify)
    BY <1>c DEF FinishWriting
  <2> QED BY <2>1 DEF Verifying
<1>d. CASE Rewind
  <2>1. /\ pc' = "begin_verify" /\ srcPos' = 0 /\ diskPos' = 0
        /\ job.target = "File" => diskLen' = job.length
    BY <1>d, <1>1 DEF Rewind, Control
  <2> QED BY <2>1 DEF Verifying
<1>e. CASE BeginVerify
  <2>1. /\ pc' = "verify" /\ srcPos' = 0 /\ diskPos' = 0 /\ diskBuf' = ZeroBuf
        /\ diskLen' = diskLen /\ (job.target = "File" => diskLen = job.length)
    BY <1>e, <1>1 DEF BeginVerify, Verifying
  <2>2. Agrees(srcPos)' /\ Repeats(srcPos)'
    BY <2>1 DEF Agrees, Repeats
  <2>3. diskPos' = Lesser(srcPos', diskLen')
    BY <1>2, <2>1 DEF Lesser
  <2>4. DiskBufIsPrevious'
    BY <1>2, <2>1 DEF DiskBufIsPrevious, ZeroBuf
  <2> QED BY <2>1, <2>2, <2>3, <2>4 DEF Verifying
<1>f. CASE VerifyBuffer
  <2>1. CASE SameUpTo(CountAvailable(job.length, srcPos))
    <3>1. /\ pc = "verify" /\ pc' = "verify" /\ disk' = disk /\ diskLen' = diskLen
      BY <1>f, <2>1 DEF VerifyBuffer
    <3>2. Agrees(srcPos)'
      BY <1>f, <2>1, <3>1, CompareFacts DEF Agrees
    <3>3. Repeats(srcPos)'
      BY <1>f, <2>1, <3>1, CompareFacts DEF Repeats
    <3>4. srcPos' \in Nat
      BY <1>f, <1>1, FillFacts DEF VerifyBuffer
    <3>5. srcPos' < job.length => diskPos' = Lesser(srcPos', diskLen') /\ DiskBufIsPrevious'
      BY <1>f, <1>2, <2>1, <3>1, <3>4, CompareFacts DEF DiskBufIsPrevious
    <3> QED BY <1>1, <3>1, <3>2, <3>3, <3>5 DEF Verifying
  <2>2. CASE ~ SameUpTo(CountAvailable(job.length, srcPos))
    <3>1. pc' = "report" /\ result' # "Ok"
      BY <1>f, <2>2 DEF VerifyBuffer, Fail
    <3> QED BY <3>1 DEF Verifying
  <2> QED BY <2>1, <2>2
<1>g. CASE VerifyCheckpoint \/ UNCHANGED vars
  <2>1. UNCHANGED <<pc, diskBuf, srcPos, disk, diskLen, diskPos, result>>
    BY <1>g DEF VerifyCheckpoint, vars
  <2>2. /\ Agrees(srcPos)' <=> Agrees(srcPos)
        /\ Repeats(srcPos)' <=> Repeats(srcPos)
        /\ Agrees(job.length)' <=> Agrees(job.length)
        /\ Repeats(job.length)' <=> Repeats(job.length)
        /\ DiskBufIsPrevious' <=> DiskBufIsPrevious
    BY <2>1 DEF Agrees, Repeats, DiskBufIsPrevious
  <2> QED BY <1>1, <2>1, <2>2 DEF Verifying
<1>h. CASE VerifyEof
  <2>1. /\ pc = "verify" /\ pc' = "report" /\ srcPos = job.length
        /\ UNCHANGED <<disk, diskLen>>
    BY <1>h DEF VerifyEof
  <2>2. Agrees(job.length)' /\ Repeats(job.length)'
    BY <1>1, <2>1 DEF Verifying, Agrees, Repeats
  <2> QED BY <1>1, <2>1, <2>2 DEF Verifying
<1>i. CASE Report
  <2>1. pc = "report" /\ pc' = "ended" /\ UNCHANGED <<disk, diskLen, result>>
    BY <1>i DEF Report
  <2>2. /\ Agrees(job.length)' <=> Agrees(job.length)
        /\ Repeats(job.length)' <=> Repeats(job.length)
    BY <2>1 DEF Agrees, Repeats
  <2> QED BY <1>1, <2>1, <2>2 DEF Verifying
<1>j. CASE IoFails
  <2>1. pc' = "report" /\ result' # "Ok"
    BY <1>j DEF IoFails, Fail, P!IoError
  <2> QED BY <2>1 DEF Verifying
<1> QED
  BY <1>a, <1>b, <1>c, <1>d, <1>e, <1>f, <1>g, <1>h, <1>i, <1>j
     DEF Next, Progress, Environment

LEMMA ReportingStep == WriterInv /\ [Next]_vars => Reporting'
<1> SUFFICES ASSUME WriterInv, [Next]_vars PROVE Reporting'
  OBVIOUS
<1>1. TypeOK /\ Control /\ Reporting
  BY DEF WriterInv
<1>2. events \in Seq(P!Event) /\ diskPos \in 0 .. MaxSize /\ MaxSize \in Nat
      /\ job.verify \in BOOLEAN
  BY <1>1, JobFacts, WriterAssumption DEF TypeOK
\* An action that sends an event other than the last one ...
<1>3. ASSUME NEW e \in P!Event, Send(e), ~ P!IsFinal(e) PROVE Reporting'
  BY <1>2, <1>3, SendFacts DEF Reporting, P!IsFinal
\* ... and one that sends nothing.
<1>4. ASSUME events' = events, pc # "ended" PROVE Reporting'
  BY <1>1, <1>4 DEF Reporting, LastEvent, P!IsFinal
<1>a. CASE Open
  BY <1>a, <1>2, <1>3, EventFacts DEF Open, P!InitSuccess, P!IsFinal
<1>b. CASE WriteEndOfOutput \/ WriteCheckpoint \/ WriteEof \/ VerifyCheckpoint \/ VerifyEof
  <2>1. Send(P!TotalBytes(diskPos))
    BY <1>b DEF WriteEndOfOutput, WriteCheckpoint, WriteEof, VerifyCheckpoint, VerifyEof
  <2>2. P!TotalBytes(diskPos) \in P!Event /\ ~ P!IsFinal(P!TotalBytes(diskPos))
    BY <1>2, EventFacts DEF P!TotalBytes, P!IsFinal
  <2> QED BY <1>3, <2>1, <2>2
<1>c. CASE FinishWriting
  <2>1. Send(P!FinishedWriting(job.verify))
    BY <1>c DEF FinishWriting
  <2>2. /\ P!FinishedWriting(job.verify) \in P!Event
        /\ ~ P!IsFinal(P!FinishedWriting(job.verify))
    BY <1>2, EventFacts DEF P!FinishedWriting, P!IsFinal
  <2> QED BY <1>3, <2>1, <2>2
<1>d. CASE Report
  <2>1. P!FinalEvent(result) \in P!Event
    BY <1>d, <1>1, <1>2, EventFacts DEF Report, Control, TypeOK
  <2>2. Send(P!FinalEvent(result)) /\ pc' = "ended" /\ result' = result
    BY <1>d DEF Report
  <2>3. LastEvent' = P!FinalEvent(result)
    BY <1>2, <2>1, <2>2, SendFacts
  <2> QED BY <2>2, <2>3 DEF Reporting, P!FinalEvent
<1>e. CASE Unmount \/ BeginWrite \/ WriteBuffer \/ Rewind \/ BeginVerify \/ VerifyBuffer
  <2>1. events' = events /\ pc # "ended"
    BY <1>e DEF Unmount, BeginWrite, WriteBuffer, Rewind, BeginVerify, VerifyBuffer
  <2> QED BY <1>4, <2>1
<1>f. CASE IoFails \/ Panic \/ MediaFault
  <2>1. events' = events /\ pc # "ended"
    BY <1>f DEF IoFails, Panic, MediaFault
  <2> QED BY <1>4, <2>1
<1>g. CASE UNCHANGED vars
  BY <1>1, <1>g DEF vars, Reporting, LastEvent
<1> QED
  BY <1>a, <1>b, <1>c, <1>d, <1>e, <1>f, <1>g DEF Next, Progress, Environment

LEMMA DurabilityStep == WriterInv /\ [Next]_vars => Durability'
<1> SUFFICES ASSUME WriterInv, [Next]_vars PROVE Durability'
  OBVIOUS
<1> USE JobConstant
<1> DEFINE Announced == \E i \in DOMAIN events : events[i].type = "FinishedWriting"
<1>1. TypeOK /\ Control /\ Durability
  BY DEF WriterInv
<1>2. events \in Seq(P!Event) /\ diskPos \in 0 .. MaxSize /\ MaxSize \in Nat
      /\ job.verify \in BOOLEAN
  BY <1>1, JobFacts, WriterAssumption DEF TypeOK
<1>3. ASSUME NEW e \in P!Event, Send(e), e.type # "FinishedWriting"
      PROVE  Announced' <=> Announced
  <2>1. /\ Len(events') = Len(events) + 1 /\ events'[Len(events')] = e
        /\ \A i \in DOMAIN events : events'[i] = events[i]
        /\ DOMAIN events' = DOMAIN events \cup {Len(events')}
    BY <1>2, <1>3, SendFacts
  <2> QED BY <1>3, <2>1
<1>4. ASSUME events' = events PROVE Announced' <=> Announced
  BY <1>4
<1>5. /\ pc \in {"unmount", "open", "begin_write", "write"} => ~ Announced
      /\ job.os = "linux" => (pc = "finish" \/ Announced => ~ dirty)
  BY <1>1 DEF Durability
<1>6. SUFFICES /\ pc' \in {"unmount", "open", "begin_write", "write"} => ~ Announced'
               /\ job.os = "linux" => (pc' = "finish" \/ Announced' => ~ dirty')
  BY DEF Durability
<1> HIDE DEF Announced
<1>a. CASE Open
  <2>1. Announced' <=> Announced
    BY <1>a, <1>2, <1>3, EventFacts DEF Open, P!InitSuccess
  <2> QED BY <1>a, <1>5, <2>1 DEF Open
<1>b. CASE WriteEndOfOutput \/ WriteCheckpoint \/ WriteEof \/ VerifyCheckpoint \/ VerifyEof
  <2>1. Send(P!TotalBytes(diskPos))
    BY <1>b DEF WriteEndOfOutput, WriteCheckpoint, WriteEof, VerifyCheckpoint, VerifyEof
  <2>2. P!TotalBytes(diskPos) \in P!Event /\ P!TotalBytes(diskPos).type # "FinishedWriting"
    BY <1>2, EventFacts DEF P!TotalBytes
  <2>3. Announced' <=> Announced
    BY <1>3, <2>1, <2>2
  <2>4. CASE WriteEof
    <3>1. pc = "write" /\ pc' = "finish" /\ (dirty' <=> (dirty /\ job.os # "linux"))
      BY <2>4, Zenon DEF WriteEof, DirtyAfterFlush
    <3> QED BY <1>5, <2>3, <3>1
  <2>5. CASE ~ WriteEof
    BY <1>b, <1>5, <2>3, <2>5 DEF WriteEndOfOutput, WriteCheckpoint, VerifyCheckpoint,
       VerifyEof, Fail
  <2> QED BY <2>4, <2>5
<1>c. CASE FinishWriting
  BY <1>c, <1>5 DEF FinishWriting
<1>d. CASE Report
  <2>1. P!FinalEvent(result) \in P!Event /\ P!FinalEvent(result).type # "FinishedWriting"
    BY <1>d, <1>1, <1>2, EventFacts
       DEF Report, Control, TypeOK, P!FinalEvent, P!Success, P!Error
  <2>2. Announced' <=> Announced
    BY <1>d, <1>3, <2>1 DEF Report
  <2> QED BY <1>d, <1>5, <2>2 DEF Report
<1>e. CASE WriteBuffer
  BY <1>e, <1>4, <1>5 DEF WriteBuffer
<1>f. CASE Unmount \/ BeginWrite \/ Rewind \/ BeginVerify \/ VerifyBuffer
  BY <1>f, <1>4, <1>5 DEF Unmount, BeginWrite, Rewind, BeginVerify, VerifyBuffer, Fail
<1>g. CASE IoFails \/ Panic \/ MediaFault \/ UNCHANGED vars
  BY <1>g, <1>4, <1>5 DEF IoFails, Panic, MediaFault, Fail, vars
<1> QED
  BY <1>a, <1>b, <1>c, <1>d, <1>e, <1>f, <1>g DEF Next, Progress, Environment

-----------------------------------------------------------------------------

(* The inductive invariant of the writer thread (spawn_writer, run, WriteOp, *)
(* VerifyOp) holds in every reachable state.                                 *)
THEOREM WriterInvariant == Spec => []WriterInv
<1>1. WriterInv /\ [Next]_vars => WriterInv'
  BY TypeStep, ControlStep, VerifyingStep, ReportingStep, DurabilityStep DEF WriterInv
<1> QED BY InitInv, <1>1, PTL DEF Spec

(* Type correctness: in particular no buffer read goes past the image and no *)
(* write past the capacity of the target.                                    *)
THEOREM TypeCorrect == Spec => []TypeOK
<1>1. WriterInv => TypeOK
  BY DEF WriterInv
<1> QED BY WriterInvariant, <1>1, PTL

(* A verified Success means the image is on the target as far as the target  *)
(* reaches, for images, buffers and targets of every size.                   *)
THEOREM VerificationSound == Spec => []VerificationIsSound
<1>1. WriterInv => VerificationIsSound
  BY DEF WriterInv, VerificationIsSound, Succeeded, Reporting, Verifying, Agrees,
         P!IsFinal, P!FinalEvent, P!Success, P!Error
<1> QED BY WriterInvariant, <1>1, PTL

(* What the comparison with a stale disk_buf lets through is exactly the     *)
(* repetition of the previous buffer past the end of the target.             *)
THEOREM MissesOnlyRepeats == Spec => []OnlyRepeatsSlipThrough
<1>1. WriterInv => OnlyRepeatsSlipThrough
  BY DEF WriterInv, OnlyRepeatsSlipThrough, Succeeded, Reporting, Verifying, Repeats,
         P!IsFinal, P!FinalEvent, P!Success, P!Error
<1> QED BY WriterInvariant, <1>1, PTL

(* EndOfOutput is only reported of targets smaller than the image.           *)
THEOREM EndOfOutputTrue == Spec => []EndOfOutputMeansTooSmall
<1>1. WriterInv => EndOfOutputMeansTooSmall
  BY DEF WriterInv, EndOfOutputMeansTooSmall, FailedWith, Reporting, Control,
         P!IsFinal, P!FinalEvent, P!Success, P!Error
<1> QED BY WriterInvariant, <1>1, PTL

(* On Linux, FinishedWriting is only sent of data that was synchronised.     *)
THEOREM Durable == Spec => []FinishedWritingIsDurable
<1>1. WriterInv => FinishedWritingIsDurable
  BY DEF WriterInv, FinishedWritingIsDurable, Durability
<1> QED BY WriterInvariant, <1>1, PTL

(* A verified file is exactly as long as the image.                          *)
THEOREM FileLength == Spec => []VerifiedFileHasImageLength
<1>1. WriterInv => VerifiedFileHasImageLength
  BY DEF WriterInv, VerifiedFileHasImageLength, Succeeded, Reporting, Verifying,
         P!IsFinal, P!FinalEvent, P!Success, P!Error
<1> QED BY WriterInvariant, <1>1, PTL

-----------------------------------------------------------------------------
(* No false alarm: on a target the image fits on, and without a mishap of    *)
(* the hardware, the thread finds no difference and never runs out of room.  *)
(* Intact says what is on the target meanwhile.                             *)

Healthy == mishaps = {} /\ job.length <= job.capacity

\* The first n cells of the image are on the target, all of them.
Written(n) == n <= diskLen /\ \A i \in 0 .. n - 1 : disk[i] = job.image[i]

Intact ==
    Healthy =>
        /\ pc \in {"begin_write", "write"} /\ srcPos < job.length => diskPos = srcPos
        /\ pc \in {"begin_write", "write", "finish", "rewind"} => Written(srcPos)
        /\ pc \in {"begin_verify", "verify"} => Written(job.length)
        /\ result # "VerificationFailed"

-----------------------------------------------------------------------------

\* A buffer written whole continues what was written before it.
LEMMA WriteKeepsIntact ==
    ASSUME WriterInv, Intact, WriteBuffer, Healthy'
    PROVE  /\ srcPos' < job.length => diskPos' = srcPos'
           /\ Written(srcPos)'
<1> DEFINE n == CountAvailable(job.length, srcPos)
<1>1. TypeOK /\ FillBuf /\ pc = "write" /\ job' = job
  BY DEF WriterInv, WriteBuffer
<1>2. /\ BufSize \in Nat /\ BufSize > 0 /\ MaxSize \in Nat
      /\ job.length \in 0 .. MaxSize /\ job.capacity \in 0 .. MaxSize
      /\ srcPos \in Nat /\ srcPos < job.length /\ diskLen \in Nat
  BY <1>1, BufFacts, JobFacts, WriterAssumption DEF TypeOK, FillBuf
<1>3. PICK w \in 1 .. Room :
         /\ disk' = [i \in 0 .. MaxSize - 1 |->
                       IF diskPos <= i /\ i < diskPos + w THEN buf'[i - diskPos]
                                                          ELSE disk[i]]
         /\ diskPos' = diskPos + w
         /\ diskLen' = IF diskPos + w > diskLen THEN diskPos + w ELSE diskLen
         /\ mishaps' = IF w < Room THEN mishaps \cup {"short"} ELSE mishaps
  BY DEF WriteBuffer
<1>4. Healthy /\ ~ (w < Room)
  BY <1>1, <1>3 DEF Healthy
<1>5. diskPos = srcPos /\ Written(srcPos) /\ job.length <= job.capacity
  BY <1>1, <1>2, <1>4 DEF Intact, Healthy
<1>6. /\ n \in Nat /\ n > 0 /\ n <= BufSize
      /\ srcPos' = srcPos + n /\ srcPos' <= job.length
      /\ n < BufSize => srcPos' = job.length
      /\ \A k \in 0 .. n - 1 : buf'[k] = job.image[srcPos + k]
  BY <1>1, FillFacts
<1> HIDE DEF n
<1>7. w \in Nat /\ n <= w /\ (n = BufSize => w = n)
  BY <1>2, <1>3, <1>4, <1>5, <1>6 DEF Room, Lesser
<1>8. srcPos' < job.length => diskPos' = srcPos'
  BY <1>2, <1>3, <1>5, <1>6, <1>7
<1>9. srcPos' <= diskLen'
  BY <1>2, <1>3, <1>5, <1>6, <1>7
<1>10. ASSUME NEW i \in 0 .. srcPos' - 1 PROVE disk'[i] = job.image[i]
  <2>1. i \in 0 .. MaxSize - 1
    BY <1>2, <1>6, <1>10
  <2>2. CASE i < srcPos
    BY <1>2, <1>3, <1>5, <2>1, <2>2 DEF Written
  <2>3. CASE i >= srcPos
    <3>1. i - srcPos \in 0 .. n - 1 /\ srcPos + (i - srcPos) = i
      BY <1>2, <1>6, <1>10, <2>3
    <3>2. disk'[i] = buf'[i - srcPos]
      BY <1>2, <1>3, <1>5, <1>6, <1>7, <1>10, <2>1, <2>3
    <3> QED BY <1>6, <3>1, <3>2
  <2> QED BY <1>2, <1>6, <1>10, <2>2, <2>3
<1> QED BY <1>1, <1>8, <1>9, <1>10 DEF Written

\* A buffer read back is the buffer of the image.
LEMMA CompareFindsNothing ==
    ASSUME WriterInv, Intact, Healthy, VerifyBuffer
    PROVE  SameUpTo(CountAvailable(job.length, srcPos))
<1> DEFINE n == CountAvailable(job.length, srcPos)
<1>1. TypeOK /\ FillBuf /\ pc = "verify"
  BY DEF WriterInv, VerifyBuffer
<1>2. /\ BufSize \in Nat /\ job.length \in Nat
      /\ srcPos \in Nat /\ srcPos < job.length /\ diskLen \in Nat
  BY <1>1, BufFacts, JobFacts, WriterAssumption DEF TypeOK, FillBuf
<1>3. diskPos = Lesser(srcPos, diskLen) /\ Written(job.length)
  BY <1>1, <1>2 DEF WriterInv, Verifying, Intact
<1>4. diskPos = srcPos /\ job.length <= diskLen
  BY <1>2, <1>3 DEF Written, Lesser
<1>5. /\ n \in Nat /\ n <= BufSize /\ srcPos + n <= job.length
      /\ \A k \in 0 .. n - 1 : buf'[k] = job.image[srcPos + k]
  BY <1>1, FillFacts
<1> HIDE DEF n
<1>6. ASSUME NEW k \in 0 .. n - 1 PROVE buf'[k] = diskBuf'[k]
  <2>1. k \in 0 .. BufSize - 1 /\ srcPos + k \in 0 .. job.length - 1
        /\ srcPos + k < diskLen
    BY <1>2, <1>4, <1>5, <1>6
  <2>2. diskBuf'[k] = disk[srcPos + k]
    BY <1>4, <2>1 DEF VerifyBuffer, ReadInto
  <2> QED BY <1>3, <1>5, <2>1, <2>2 DEF Written
<1> QED BY <1>6 DEF SameUpTo, n

LEMMA InitIntact == Init => Intact
BY JobFacts DEF Init, Intact, Written

LEMMA IntactStep == WriterInv /\ Intact /\ [Next]_vars => Intact'
<1> SUFFICES ASSUME WriterInv, Intact, [Next]_vars, Healthy' PROVE Intact'
  BY DEF Intact
<1> USE JobConstant
<1>1. TypeOK /\ Control
  BY DEF WriterInv
<1>2. /\ job.length \in Nat /\ srcPos \in 0 .. job.length /\ diskLen \in Nat
      /\ MaxSize \in Nat /\ job.length <= MaxSize
  BY <1>1, JobFacts, WriterAssumption DEF TypeOK
<1>a. CASE WriteBuffer
  <2>1. Healthy /\ pc = "write" /\ pc' = "write" /\ result' = result
    BY <1>a DEF WriteBuffer, Healthy
  <2> QED BY <1>a, <2>1, WriteKeepsIntact DEF Intact
<1>b. CASE Rewind
  <2>1. Healthy /\ pc = "rewind" /\ pc' = "begin_verify" /\ result' = result
        /\ srcPos = job.length
    BY <1>b, <1>1 DEF Rewind, Healthy, Control
  <2>2. Written(job.length)
    BY <2>1 DEF Intact
  <2>3. CASE job.target = "File"
    <3>1. diskLen' = job.length
      BY <1>b, <2>1, <2>3 DEF Rewind
    <3>2. \A i \in 0 .. job.length - 1 : disk'[i] = disk[i]
      BY <1>b, <1>2, <2>1, <2>2, <2>3 DEF Rewind, Written
    <3> QED BY <1>2, <2>1, <2>2, <3>1, <3>2 DEF Intact, Written
  <2>4. CASE job.target # "File"
    BY <1>b, <2>1, <2>2, <2>4 DEF Rewind, Intact, Written
  <2> QED BY <2>3, <2>4
<1>c. CASE VerifyBuffer
  <2>1. Healthy /\ pc = "verify"
    BY <1>c DEF VerifyBuffer, Healthy
  <2>2. UNCHANGED <<pc, disk, diskLen, result>>
    BY <1>c, <2>1, CompareFindsNothing DEF VerifyBuffer
  <2> QED BY <2>1, <2>2 DEF Intact, Written
<1>d. CASE Unmount \/ Open \/ BeginWrite
  BY <1>d, <1>1, <1>2 DEF Unmount, Open, BeginWrite, Fail, Control, Healthy, Intact, Written
<1>e. CASE WriteEndOfOutput \/ WriteCheckpoint \/ WriteEof
  BY <1>e, <1>2 DEF WriteEndOfOutput, WriteCheckpoint, WriteEof, Fail, Healthy, Intact,
     Written
<1>f. CASE FinishWriting \/ BeginVerify
  BY <1>f DEF FinishWriting, BeginVerify, Healthy, Intact, Written
<1>g. CASE VerifyCheckpoint \/ VerifyEof \/ Report \/ Panic
  BY <1>g DEF VerifyCheckpoint, VerifyEof, Report, Panic, Healthy, Intact, Written
<1>h. CASE IoFails
  BY <1>h DEF IoFails, Fail, P!IoError, Healthy, Intact
<1>i. CASE MediaFault
  BY <1>i DEF MediaFault, Healthy
<1>j. CASE UNCHANGED vars
  BY <1>j DEF vars, Healthy, Intact, Written
<1> QED
  BY <1>a, <1>b, <1>c, <1>d, <1>e, <1>f, <1>g, <1>h, <1>i, <1>j
     DEF Next, Progress, Environment

-----------------------------------------------------------------------------

(* No false alarm: of a target the image fits on, and without a mishap of    *)
(* the hardware, run() reports neither VerificationFailed nor EndOfOutput,    *)
(* for images, buffers and targets of every size.                            *)
THEOREM NoFalseAlarms == Spec => []NoFalseAlarm
<1>1. Init => WriterInv /\ Intact
  BY InitInv, InitIntact
<1>2. WriterInv /\ Intact /\ [Next]_vars => (WriterInv /\ Intact)'
  BY TypeStep, ControlStep, VerifyingStep, ReportingStep, DurabilityStep, IntactStep
     DEF WriterInv
<1>3. WriterInv /\ Intact => NoFalseAlarm
  <2> SUFFICES ASSUME WriterInv, Intact, Healthy,
                      FailedWith("VerificationFailed") \/ FailedWith("EndOfOutput")
               PROVE  FALSE
    BY DEF NoFalseAlarm, Healthy
  <2>1. P!IsFinal(LastEvent) /\ events # <<>>
    BY DEF FailedWith, P!IsFinal, P!Error
  <2>2. LastEvent = P!FinalEvent(result)
    BY <2>1 DEF WriterInv, Reporting
  <2>3. result \in {"VerificationFailed", "EndOfOutput"}
    BY <2>2 DEF FailedWith, P!FinalEvent, P!Success, P!Error
  <2>4. job.length \in Nat /\ job.capacity \in Nat
    BY JobFacts, WriterAssumption DEF WriterInv, TypeOK
  <2> QED BY <2>3, <2>4 DEF WriterInv, Control, Intact, Healthy
<1> QED BY <1>1, <1>2, <1>3, PTL DEF Spec

-----------------------------------------------------------------------------
(* Alignment                                                                 *)

\* The bound on the buffers is a whole number of blocks of any size.
WholeBlocks == \A b \in BlockSizes \cup {DefaultBlock} : MaxBufSize % b = 0

\* As long as no write is cut short, the write loop stands at a block's boundary.
Aligned ==
    pc = "write" /\ "short" \notin mishaps =>
        diskPos % BlockSize = 0 \/ diskPos = job.capacity

LEMMA MultipleOf ==
    ASSUME NEW k \in Nat, NEW b \in Nat \ {0}
    PROVE  (b * k) % b = 0
BY SMTT(30)

LEMMA SumOfMultiples ==
    ASSUME NEW a \in Nat, NEW c \in Nat, NEW b \in Nat \ {0}, a % b = 0, c % b = 0
    PROVE  (a + c) % b = 0
<1>1. ASSUME NEW d \in Nat, d % b = 0 PROVE \E k \in Nat : d = b * k
  <2>1. d = b * (d \div b) + (d % b)
    BY SMTT(30)
  <2>2. d \div b \in Nat
    BY SMTT(30)
  <2>3. d = b * (d \div b)
    BY <1>1, <2>1, <2>2
  <2> QED BY <2>2, <2>3
<1>2. PICK k, m \in Nat : a = b * k /\ c = b * m
  BY <1>1
<1>3. a + c = b * (k + m) /\ k + m \in Nat
  BY <1>2, SMTT(30)
<1> QED BY <1>3, MultipleOf

LEMMA BufferIsWholeBlocks ==
    ASSUME job \in Job, WholeBlocks
    PROVE  BlockSize \in Nat \ {0} /\ BufSize % BlockSize = 0
<1>1. BlockSize \in BlockSizes \cup {DefaultBlock} /\ BlockSize \in Nat \ {0}
  BY JobFacts, WriterAssumption DEF BlockSize
<1>2. MaxBufSize % BlockSize = 0
  BY <1>1 DEF WholeBlocks
<1>3. (BlockSize * BufBlocks) % BlockSize = 0
  BY <1>1, MultipleOf, WriterAssumption
<1> QED BY <1>1, <1>2, <1>3 DEF BufSize, Lesser

\* A write that is not cut short takes whole blocks, or what is left.
LEMMA WriteIsAligned ==
    ASSUME WholeBlocks, TypeOK, Aligned, WriteBuffer, "short" \notin mishaps'
    PROVE  /\ diskPos % BlockSize = 0
           /\ diskPos' % BlockSize = 0 \/ diskPos' = job.capacity
<1>1. /\ diskPos \in Nat /\ job.capacity \in Nat /\ diskPos < job.capacity
      /\ BufSize \in Nat /\ BufSize > 0
      /\ BlockSize \in Nat \ {0} /\ BufSize % BlockSize = 0
  BY BufferIsWholeBlocks, BufFacts, JobFacts, WriterAssumption DEF TypeOK, WriteBuffer
<1>2. PICK w \in 1 .. Room :
         /\ diskPos' = diskPos + w
         /\ mishaps' = IF w < Room THEN mishaps \cup {"short"} ELSE mishaps
  BY DEF WriteBuffer
<1>3. w = Room /\ mishaps' = mishaps
  BY <1>1, <1>2 DEF Room, Lesser
<1>4. diskPos % BlockSize = 0
  BY <1>1, <1>3 DEF Aligned, WriteBuffer
<1>5. CASE BufSize <= job.capacity - diskPos
  <2>1. diskPos' = diskPos + BufSize
    BY <1>2, <1>3, <1>5 DEF Room, Lesser
  <2>2. (diskPos + BufSize) % BlockSize = 0
    BY <1>1, <1>4, SumOfMultiples
  <2> QED BY <1>4, <2>1, <2>2
<1>6. CASE ~ (BufSize <= job.capacity - diskPos)
  <2>1. diskPos' = diskPos + (job.capacity - diskPos)
    BY <1>2, <1>3, <1>6 DEF Room, Lesser
  <2> QED BY <1>1, <1>4, <2>1
<1> QED BY <1>5, <1>6

LEMMA AlignedStep ==
    ASSUME WholeBlocks, WriterInv, Aligned, [Next]_vars
    PROVE  Aligned'
<1>1. TypeOK /\ Control
  BY DEF WriterInv
<1>2. job' = job /\ BlockSize' = BlockSize
  <2>1. job' = job
    BY JobConstant
  <2> QED BY <2>1 DEF BlockSize
<1>3. CASE WriteBuffer
  BY <1>1, <1>2, <1>3, WriteIsAligned DEF Aligned
<1>4. CASE BeginWrite
  <2>1. diskPos' = 0
    BY <1>1, <1>4 DEF BeginWrite, Control
  <2>2. BlockSize \in Nat \ {0}
    BY <1>1, BufferIsWholeBlocks DEF TypeOK
  <2>3. 0 % BlockSize = 0
    BY <2>2
  <2> QED BY <1>2, <2>1, <2>3 DEF Aligned
<1>5. ASSUME pc' = "write" => pc = "write" /\ diskPos' = diskPos, mishaps \subseteq mishaps'
      PROVE  Aligned'
  BY <1>2, <1>5 DEF Aligned
<1>6. CASE Unmount \/ Open \/ WriteEndOfOutput \/ WriteCheckpoint \/ WriteEof
           \/ FinishWriting \/ Rewind \/ BeginVerify \/ VerifyBuffer \/ VerifyCheckpoint
           \/ VerifyEof \/ Report \/ Environment \/ UNCHANGED vars
  BY <1>5, <1>6 DEF Unmount, Open, WriteEndOfOutput, WriteCheckpoint, WriteEof,
     FinishWriting, Rewind, BeginVerify, VerifyBuffer, VerifyCheckpoint, VerifyEof, Report,
     Environment, IoFails, Panic, MediaFault, Fail, vars
<1> QED BY <1>3, <1>4, <1>6 DEF Next, Progress

\* Of all the steps only WriteBuffer moves the target within the write loop.
LEMMA OnlyWriteBufferWrites ==
    ASSUME [Next]_vars, pc = "write", diskPos' # diskPos
    PROVE  WriteBuffer
BY DEF Next, Progress, Unmount, Open, BeginWrite, WriteEndOfOutput, WriteCheckpoint,
   WriteEof, FinishWriting, Rewind, BeginVerify, VerifyBuffer, VerifyCheckpoint, VerifyEof,
   Report, Environment, IoFails, Panic, MediaFault, vars

(* Direct I/O stays aligned: as long as no write is cut short, every write    *)
(* starts on a block boundary and ends on one or at the end of the target,   *)
(* provided that the largest buffer is a whole number of blocks.             *)
THEOREM AlignedWrites == ASSUME WholeBlocks PROVE Spec => WritesAreAligned
<1>1. Init => WriterInv /\ Aligned
  <2>1. Init => Aligned
    BY DEF Init, Aligned
  <2> QED BY <2>1, InitInv
<1>2. WriterInv /\ Aligned /\ [Next]_vars => (WriterInv /\ Aligned)'
  BY TypeStep, ControlStep, VerifyingStep, ReportingStep, DurabilityStep, AlignedStep
     DEF WriterInv
<1>3. WriterInv /\ Aligned /\ [Next]_vars
        => [(pc = "write" /\ diskPos' # diskPos /\ "short" \notin mishaps') =>
              /\ diskPos % BlockSize = 0
              /\ diskPos' % BlockSize = 0 \/ diskPos' = job.capacity]_vars
  BY OnlyWriteBufferWrites, WriteIsAligned DEF WriterInv
<1> QED BY <1>1, <1>2, <1>3, PTL DEF Spec, WritesAreAligned

-----------------------------------------------------------------------------
(* The thread implements WriterProtocol, for every image, target, buffer      *)
(* size and checkpoint period: each step of it is a step of the protocol or   *)
(* none.  Told is what has to be known of the last event for it: counts that  *)
(* are reported never go back within a phase.                                 *)

Told ==
    /\ pc = "begin_write" => events # <<>> /\ LastEvent.type = "InitSuccess"
    /\ pc \in {"rewind", "begin_verify"} =>
          events # <<>> /\ LastEvent.type = "FinishedWriting"
    /\ Reported \in Nat /\ Reported <= diskPos

\* Where the thread tells nothing, the protocol's variables follow pc and result.
LEMMA Silent ==
    ASSUME UNCHANGED events
    PROVE  LastEvent' = LastEvent
BY DEF LastEvent

LEMMA ToldInit == Init => Told
BY DEF Init, Told, Reported

LEMMA ToldStep == WriterInv /\ Told /\ [Next]_vars => Told'
<1> SUFFICES ASSUME WriterInv, Told, [Next]_vars PROVE Told'
  OBVIOUS
<1>1. TypeOK /\ Control
  BY DEF WriterInv
<1>2. /\ BufSize \in Nat /\ BufSize > 0
      /\ job.capacity \in Nat /\ MaxSize \in Nat /\ job.verify \in BOOLEAN
      /\ diskPos \in Nat /\ diskPos \in 0 .. MaxSize
      /\ diskLen \in Nat
      /\ events \in Seq(P!Event)
  BY <1>1, BufFacts, JobFacts, WriterAssumption DEF TypeOK
<1>3. P!TotalBytes(diskPos) \in P!Event /\ P!InitSuccess \in P!Event
      /\ P!FinishedWriting(job.verify) \in P!Event
  BY <1>2, EventFacts
<1>a. CASE Unmount \/ IoFails \/ Panic
  BY <1>a, <1>1, <1>2 DEF Unmount, IoFails, Panic, Fail, Told, Reported
<1>b. CASE Open
  <2>1. events' # <<>> /\ LastEvent' = P!InitSuccess
    BY <1>b, <1>2, <1>3, SendFacts DEF Open
  <2> QED BY <2>1, <1>b, <1>2 DEF Open, Told, Reported, P!InitSuccess
<1>c. CASE BeginWrite \/ BeginVerify \/ MediaFault
  BY <1>c, Silent DEF BeginWrite, BeginVerify, MediaFault, Told, Reported
<1>d. CASE WriteBuffer
  <2>1. diskPos <= diskPos' /\ diskPos' \in Nat
    BY <1>d, <1>2 DEF WriteBuffer, Room, Lesser
  <2> QED BY <2>1, <1>d, <1>2, Silent DEF WriteBuffer, Told, Reported
<1>e. CASE WriteEndOfOutput \/ WriteEof \/ VerifyEof \/ Report
  BY <1>e, <1>2
     DEF WriteEndOfOutput, WriteEof, VerifyEof, Report, Fail, Told, Reported
<1>f. CASE WriteCheckpoint \/ VerifyCheckpoint
  <2>1. events' # <<>> /\ LastEvent' = P!TotalBytes(diskPos)
    BY <1>f, <1>2, <1>3, SendFacts DEF WriteCheckpoint, VerifyCheckpoint
  <2> QED BY <2>1, <1>f, <1>2
          DEF WriteCheckpoint, VerifyCheckpoint, Told, Reported, P!TotalBytes
<1>h. CASE FinishWriting
  <2>1. events' # <<>> /\ LastEvent' = P!FinishedWriting(job.verify)
    BY <1>h, <1>2, <1>3, SendFacts DEF FinishWriting
  <2> QED BY <2>1, <1>h, <1>2 DEF FinishWriting, Told, Reported, P!FinishedWriting
<1>i. CASE Rewind
  BY <1>i, Silent DEF Rewind, Told, Reported
<1>k. CASE VerifyBuffer
  <2>1. diskPos <= diskPos' /\ diskPos' \in Nat
    BY <1>k, <1>1, <1>2 DEF VerifyBuffer, CountAvailable, Lesser, Control
  <2> QED BY <2>1, <1>k, <1>2, Silent DEF VerifyBuffer, Fail, Told, Reported
<1>r. CASE UNCHANGED vars
  BY <1>r, Silent DEF vars, Told, Reported
<1> QED
  BY <1>a, <1>b, <1>c, <1>d, <1>e, <1>f, <1>h, <1>i, <1>k, <1>r
     DEF Next, Progress, Environment

-----------------------------------------------------------------------------

LEMMA MapsInit == Init => P!Init
BY DEF Init, P!Init, Phase, Reported

LEMMA MapsStep == WriterInv /\ Told /\ [Next]_vars => [P!Next]_(P!vars)
<1> SUFFICES ASSUME WriterInv, Told, [Next]_vars PROVE [P!Next]_(P!vars)
  OBVIOUS
<1>1. TypeOK /\ Control
  BY DEF WriterInv
<1>2. /\ diskPos \in 0 .. MaxSize /\ job.verify \in BOOLEAN /\ MaxSize \in Nat
      /\ Reported \in Nat /\ Reported <= diskPos
  BY <1>1, JobFacts, WriterAssumption DEF TypeOK, Told
<1>a. CASE Unmount
  <2>1. pc' \in {"open", "waiting"} /\ result' = result => UNCHANGED P!vars
    BY <1>a DEF Unmount, P!vars, Phase, Reported
  <2>2. pc' = "panicked" /\ result' = result => P!Vanish
    BY <1>a DEF Unmount, P!Vanish, Phase, Reported
  <2>3. pc' = "report" /\ result' = "FailedToUnmount" => P!Abandon("FailedToUnmount")
    BY <1>a DEF Unmount, P!Abandon, Phase, Reported
  <2> QED BY <1>a, <2>1, <2>2, <2>3 DEF Unmount, Fail, P!Next, P!Failure
<1>b. CASE Open
  <2>1. P!Start
    BY <1>b DEF Open, Send, P!Start, P!Send, Phase, Reported
  <2> QED BY <2>1 DEF P!Next
<1>c. CASE BeginWrite \/ BeginVerify \/ Rewind \/ WriteBuffer \/ MediaFault
  <2>1. Phase' = Phase
    BY <1>c DEF BeginWrite, BeginVerify, Rewind, WriteBuffer, MediaFault, Phase
  <2>2. Reported' = Reported
    BY <1>c, Silent
       DEF BeginWrite, BeginVerify, Rewind, WriteBuffer, MediaFault, Reported, Told
  <2> QED BY <1>c, <2>1, <2>2
          DEF BeginWrite, BeginVerify, Rewind, WriteBuffer, MediaFault, P!vars
<1>e. CASE WriteEndOfOutput
  <2>1. P!RunOut(diskPos)
    BY <1>e, <1>2 DEF WriteEndOfOutput, Send, Fail, P!RunOut, P!Send, Phase, Reported
  <2> QED BY <2>1, <1>2 DEF P!Next
<1>f. CASE WriteCheckpoint \/ VerifyCheckpoint
  <2>1. Reported' = diskPos
    <3>1. events' # <<>> /\ LastEvent' = P!TotalBytes(diskPos)
      BY <1>f, <1>1, <1>2, EventFacts, SendFacts
         DEF WriteCheckpoint, VerifyCheckpoint, TypeOK
    <3> QED BY <3>1, <1>f DEF WriteCheckpoint, VerifyCheckpoint, Reported, P!TotalBytes
  <2>2. P!Report(diskPos)
    BY <2>1, <1>f, <1>2
       DEF WriteCheckpoint, VerifyCheckpoint, Send, P!Report, P!Send, Phase
  <2> QED BY <2>2, <1>2 DEF P!Next
<1>g. CASE WriteEof
  <2>1. P!EndWriting(diskPos)
    BY <1>g, <1>2 DEF WriteEof, Send, P!EndWriting, P!Send, Phase, Reported
  <2> QED BY <2>1, <1>2 DEF P!Next
<1>h. CASE FinishWriting
  <2>1. Reported = 0 /\ Reported' = 0
    BY <1>h DEF FinishWriting, Reported
  <2>2. P!Finish(job.verify)
    BY <2>1, <1>h, <1>2 DEF FinishWriting, Send, P!Finish, P!Send, Phase
  <2> QED BY <2>2, <1>2 DEF P!Next
<1>k. CASE VerifyBuffer
  <2>1. CASE pc' = pc /\ result' = result
    <3>1. Reported' = Reported /\ Phase' = Phase
      BY <2>1, <1>k, Silent DEF VerifyBuffer, Reported, Phase
    <3> QED BY <3>1, <2>1, <1>k DEF VerifyBuffer, P!vars
  <2>2. CASE pc' = "report" /\ result' = "VerificationFailed"
    <3>1. P!Abandon("VerificationFailed")
      BY <2>2, <1>k DEF VerifyBuffer, P!Abandon, Phase, Reported
    <3> QED BY <3>1 DEF P!Next, P!Failure
  <2> QED BY <2>1, <2>2, <1>k DEF VerifyBuffer, Fail
<1>m. CASE VerifyEof
  <2>1. P!EndVerifying(diskPos)
    BY <1>m, <1>2 DEF VerifyEof, Send, P!EndVerifying, P!Send, Phase, Reported
  <2> QED BY <2>1, <1>2 DEF P!Next
<1>n. CASE Report
  <2>1. P!Conclude
    BY <1>n DEF Report, Send, P!Conclude, P!Send, Phase, Reported
  <2> QED BY <2>1 DEF P!Next
<1>o. CASE IoFails
  <2>1. PICK e \in P!IoError : Fail(e)
    BY <1>o DEF IoFails
  <2>2. P!Abandon(e)
    BY <2>1, <1>o DEF IoFails, Fail, P!Abandon, Phase, Reported
  <2> QED BY <2>1, <2>2 DEF P!Next, P!Failure
<1>p. CASE Panic
  <2>1. P!Vanish
    BY <1>p DEF Panic, P!Vanish, Phase, Reported
  <2> QED BY <2>1 DEF P!Next
<1>r. CASE UNCHANGED vars
  <2>1. Phase' = Phase /\ Reported' = Reported
    BY <1>r, Silent DEF vars, Phase, Reported
  <2> QED BY <2>1, <1>r DEF vars, P!vars
<1> QED
  BY <1>a, <1>b, <1>c, <1>e, <1>f, <1>g, <1>h, <1>k, <1>m, <1>n, <1>o, <1>p, <1>r
     DEF Next, Progress, Environment

(* The writer thread implements the protocol of a herd.                      *)
THEOREM WriterImplementsProtocol == Spec => ImplementsProtocol
<1>1. Spec => [](WriterInv /\ Told)
  <2>1. Spec => []WriterInv
    BY WriterInvariant
  <2>2. Init => Told
    BY ToldInit
  <2>3. WriterInv /\ Told /\ [Next]_vars => Told'
    BY ToldStep
  <2> QED BY <2>1, <2>2, <2>3, PTL DEF Spec
<1>2. Init => P!Init
  BY MapsInit
<1>3. WriterInv /\ Told /\ [Next]_vars => [P!Next]_(P!vars)
  BY MapsStep
<1> QED BY <1>1, <1>2, <1>3, PTL DEF Spec, ImplementsProtocol, P!Spec

-----------------------------------------------------------------------------
(* The conversations that WriterProtocol allows                              *)

\* What makes a conversation that goes on after s with e well formed again.
Continues(s, e) ==
    /\ \A i \in DOMAIN s : ~ P!IsFinal(s[i])
    /\ e.type = "InitSuccess" => s = <<>>
    /\ s = <<>> => e.type \in {"InitSuccess", "Error"}
    /\ e.type = "FinishedWriting" =>
          s # <<>> /\ s[Len(s)].type = "TotalBytes" /\ P!Finishes(s) = {}
    /\ s # <<>> /\ s[Len(s)] = P!FinishedWriting(FALSE) => e = P!Success
    /\ e = P!Success =>
          \E j \in P!Finishes(s) :
              IF s[j].verifying THEN j < Len(s) /\ s[Len(s)].type = "TotalBytes"
                                ELSE j = Len(s)
    /\ e.type = "TotalBytes" =>
          \A i \in DOMAIN s :
              (s[i].type = "TotalBytes" /\ \A k \in P!Finishes(s) : ~ i < k)
                  => s[i].dest <= e.dest

\* A conversation can be made longer, event by event.
LEMMA ConversationGoesOn ==
    ASSUME NEW s \in Seq(P!Event), P!WellFormed(s), NEW e \in P!Event, Continues(s, e)
    PROVE  P!WellFormed(Append(s, e))
<1> DEFINE t == Append(s, e)
           n == Len(s)
<1>1. /\ t \in Seq(P!Event) /\ n \in Nat /\ Len(t) = n + 1
      /\ DOMAIN s = 1 .. n /\ DOMAIN t = 1 .. n + 1
      /\ \A i \in 1 .. n : t[i] = s[i]
      /\ t[n + 1] = e
      /\ s = <<>> <=> n = 0
    OBVIOUS
<1> HIDE DEF t, n
<1>2. P!Finishes(t) = P!Finishes(s) \cup (IF e.type = "FinishedWriting" THEN {n + 1} ELSE {})
    BY <1>1 DEF P!Finishes
<1>3. \A j \in P!Finishes(s) : j \in 1 .. n /\ j \in P!Finishes(t) /\ t[j] = s[j]
    BY <1>1, <1>2 DEF P!Finishes
<1>4. ASSUME NEW i \in DOMAIN t
      PROVE  /\ P!IsFinal(t[i]) => i = Len(t)
             /\ t[i].type = "InitSuccess" => i = 1
             /\ i = 1 => t[i].type \in {"InitSuccess", "Error"}
  <2>1. CASE i = n + 1
      BY <2>1, <1>1 DEF Continues
  <2>2. CASE i \in 1 .. n
    <3>1. t[i] = s[i] /\ i \in DOMAIN s /\ ~ P!IsFinal(s[i])
        BY <2>2, <1>1 DEF Continues
    <3>2. QED
        BY <3>1 DEF P!WellFormed
  <2>3. QED
      BY <2>1, <2>2, <1>1
<1>5. ASSUME NEW i \in DOMAIN t
      PROVE  t[i].type = "FinishedWriting" => t[i - 1].type = "TotalBytes"
  <2>1. CASE i = n + 1
    <3>1. n > 0 => t[n] = s[n]
        BY <1>1
    <3>2. QED
        BY <2>1, <3>1, <1>1 DEF Continues, n
  <2>2. CASE i \in 1 .. n
    <3>1. i \in DOMAIN s /\ (i = 1 => s[i].type # "FinishedWriting")
        BY <2>2, <1>1 DEF P!WellFormed
    <3>2. i > 1 => t[i - 1] = s[i - 1]
        BY <2>2, <1>1
    <3>3. t[i] = s[i] /\ i \in DOMAIN s /\ (i = 1 \/ i > 1)
        BY <2>2, <1>1
    <3>4. s[i].type = "FinishedWriting" => s[i - 1].type = "TotalBytes"
        BY <3>3 DEF P!WellFormed
    <3>5. QED
        BY <3>1, <3>2, <3>3, <3>4
  <2>3. QED
      BY <2>1, <2>2, <1>1
<1>6. ASSUME NEW i \in DOMAIN t
      PROVE  t[i] = P!FinishedWriting(FALSE) /\ i < Len(t) => t[i + 1] = P!Success
  <2>1. CASE i = n
    <3>1. t[i] = s[n] /\ t[i + 1] = e /\ s # <<>>
        BY <2>1, <1>1
    <3>2. QED
        BY <3>1 DEF Continues, n
  <2>2. CASE i \in 1 .. n /\ i # n
    <3>1. i + 1 \in 1 .. n /\ i < n
        BY <2>2, <1>1
    <3>2. t[i + 1] = s[i + 1] /\ t[i] = s[i]
        BY <2>2, <3>1, <1>1
    <3>3. QED
        BY <2>2, <3>1, <3>2, <1>1 DEF P!WellFormed, n
  <2>3. QED
      BY <2>1, <2>2, <1>1
<1>7. ASSUME NEW i \in DOMAIN t
      PROVE  t[i] = P!Success =>
                \E j \in P!Finishes(t) :
                    IF t[j].verifying THEN j < i - 1 /\ t[i - 1].type = "TotalBytes"
                                      ELSE j = i - 1
  <2>1. CASE i = n + 1 /\ t[i] = P!Success
    <3>1. PICK j \in P!Finishes(s) :
              IF s[j].verifying THEN j < n /\ s[n].type = "TotalBytes" ELSE j = n
        BY <2>1, <1>1 DEF Continues, n
    <3>2. j \in 1 .. n /\ t[n] = s[n] /\ (n + 1) - 1 = n
        BY <1>1, <1>3, <3>1
    <3>3. QED
        BY <2>1, <3>1, <3>2, <1>3
  <2>2. CASE i \in 1 .. n
      BY <2>2, <1>1 DEF Continues, P!IsFinal, P!Success
  <2>3. QED
      BY <2>1, <2>2, <1>1
<1>8. ASSUME NEW i \in P!Finishes(t), NEW j \in P!Finishes(t)
      PROVE  i = j
    BY <1>2 DEF Continues, P!WellFormed
<1>9. ASSUME NEW i \in DOMAIN t, NEW j \in DOMAIN t, i < j,
             t[i].type = "TotalBytes", t[j].type = "TotalBytes",
             \A k \in P!Finishes(t) : ~ (i < k /\ k < j)
      PROVE  t[i].dest <= t[j].dest
  <2>1. i \in 1 .. n /\ t[i] = s[i] /\ i \in DOMAIN s
      BY <1>1, <1>9
  <2>2. CASE j = n + 1
    <3>1. \A k \in P!Finishes(s) : ~ i < k
        BY <2>2, <1>1, <1>3, <1>9
    <3>2. QED
        BY <2>1, <2>2, <3>1, <1>1, <1>9 DEF Continues
  <2>3. CASE j \in 1 .. n
    <3>1. t[j] = s[j] /\ j \in DOMAIN s
        BY <2>3, <1>1
    <3>2. \A k \in P!Finishes(s) : ~ (i < k /\ k < j)
        BY <1>3, <1>9
    <3>3. QED
        BY <2>1, <3>1, <3>2, <1>9 DEF P!WellFormed
  <2>4. QED
      BY <2>2, <2>3, <1>1
<1>10. QED
    BY <1>4, <1>5, <1>6, <1>7, <1>8, <1>9 DEF P!WellFormed, t

-----------------------------------------------------------------------------

LastSaid == events[Len(events)]

ProtocolTypeOK ==
    /\ Phase \in {"spawned", "writing", "written", "verifying", "concluding", "over",
                  "vanished"}
    /\ result \in P!Failure \cup {"None", "Ok"}
    /\ Reported \in Nat
    /\ events \in Seq(P!Event)

\* What has been said by the time a phase is reached ...
SaidSoFar ==
    /\ Phase = "spawned" => events = <<>>
    /\ Phase \in {"writing", "written", "verifying"} => events # <<>>
    /\ Phase \notin {"over", "vanished"} => \A i \in DOMAIN events : ~ P!IsFinal(events[i])
    /\ Phase \in {"spawned", "writing", "written"} => P!Finishes(events) = {}
    /\ Phase = "written" => LastSaid.type = "TotalBytes"
    /\ Phase = "verifying" => \E j \in P!Finishes(events) : events[j].verifying
    /\ events # <<>> /\ LastSaid = P!FinishedWriting(FALSE) /\ Phase \notin {"over", "vanished"}
          => Phase = "concluding" /\ result = "Ok"
    /\ Phase = "concluding" => result # "None"
    /\ Phase = "concluding" /\ result = "Ok" =>
          \E j \in P!Finishes(events) :
              IF events[j].verifying THEN j < Len(events) /\ LastSaid.type = "TotalBytes"
                                     ELSE j = Len(events)

\* ... and no count of this phase is above the one reported last.
ReportedLast ==
    Phase \in {"writing", "verifying"} =>
        \A i \in DOMAIN events :
            (events[i].type = "TotalBytes" /\ \A k \in P!Finishes(events) : ~ i < k)
                => events[i].dest <= Reported

ProtocolInv == ProtocolTypeOK /\ P!WellFormed(events) /\ SaidSoFar /\ ReportedLast

-----------------------------------------------------------------------------

\* What sending e makes of the conversation.
LEMMA Sending ==
    ASSUME events \in Seq(P!Event), NEW e \in P!Event, P!Send(e)
    PROVE  /\ events' \in Seq(P!Event) /\ events' # <<>>
           /\ Len(events) \in Nat /\ Len(events') = Len(events) + 1
           /\ DOMAIN events = 1 .. Len(events) /\ DOMAIN events' = 1 .. Len(events) + 1
           /\ \A i \in 1 .. Len(events) : events'[i] = events[i]
           /\ events'[Len(events) + 1] = e /\ LastSaid' = e
           /\ P!Finishes(events') =
                 P!Finishes(events) \cup
                     (IF e.type = "FinishedWriting" THEN {Len(events) + 1} ELSE {})
           /\ \A j \in P!Finishes(events) : j \in 1 .. Len(events)
           /\ Continues(events, e) /\ P!WellFormed(events) => P!WellFormed(events')
<1>1. /\ events' = Append(events, e)
      /\ events' \in Seq(P!Event) /\ events' # <<>>
      /\ Len(events) \in Nat /\ Len(events') = Len(events) + 1
      /\ DOMAIN events = 1 .. Len(events) /\ DOMAIN events' = 1 .. Len(events) + 1
      /\ \A i \in 1 .. Len(events) : events'[i] = events[i]
      /\ events'[Len(events) + 1] = e
    BY DEF P!Send
<1>2. /\ P!Finishes(events') =
            P!Finishes(events) \cup
                (IF e.type = "FinishedWriting" THEN {Len(events) + 1} ELSE {})
      /\ \A j \in P!Finishes(events) : j \in 1 .. Len(events)
    BY <1>1 DEF P!Finishes
<1>3. Continues(events, e) /\ P!WellFormed(events) => P!WellFormed(events')
    BY <1>1, ConversationGoesOn
<1>4. QED
    BY <1>1, <1>2, <1>3 DEF LastSaid

(* The inductive invariant: the phase of a herd tells what it has said, and  *)
(* what it has said is well formed.                                          *)
THEOREM ProtocolInvariant == P!Spec => []ProtocolInv
<1>1. P!Init => ProtocolInv
    BY DEF P!Init, ProtocolInv, ProtocolTypeOK, SaidSoFar, ReportedLast, P!WellFormed, P!Finishes
<1>2. ProtocolInv /\ [P!Next]_(P!vars) => ProtocolInv'
  <2> SUFFICES ASSUME ProtocolInv, [P!Next]_(P!vars)
               PROVE  ProtocolInv'
      OBVIOUS
  <2> USE DEF ProtocolInv, ProtocolTypeOK
  <2>1. CASE P!Start
    <3>1. P!InitSuccess \in P!Event /\ Continues(events, P!InitSuccess)
        BY <2>1 DEF P!Start, Continues, P!InitSuccess, P!Event, SaidSoFar, P!FinishedWriting, P!Success, P!Finishes
    <3>2. QED
        BY <2>1, <3>1, Sending DEF P!Start, SaidSoFar, ReportedLast, P!InitSuccess, P!IsFinal, P!FinishedWriting
  <2>2. ASSUME NEW n \in 0 .. MaxSize, P!Report(n)
        PROVE  ProtocolInv'
    <3>1. P!TotalBytes(n) \in P!Event /\ Continues(events, P!TotalBytes(n))
        BY <2>2 DEF P!Report, Continues, P!TotalBytes, P!Event, SaidSoFar, ReportedLast, P!FinishedWriting, P!Success, P!Finishes, LastSaid
    <3>2. /\ ProtocolTypeOK' /\ P!WellFormed(events')
          /\ Phase' = Phase /\ result' = result /\ Reported' = n /\ Reported <= n
          /\ Phase \in {"writing", "verifying"}
        BY <2>2, <3>1, Sending DEF P!Report
    <3>3. SaidSoFar'
        BY <2>2, <3>1, <3>2, Sending DEF P!Report, SaidSoFar, P!TotalBytes, P!IsFinal, P!FinishedWriting
    <3>4. ReportedLast'
      <4>1. SUFFICES ASSUME NEW i \in DOMAIN events', events'[i].type = "TotalBytes",
                            \A k \in P!Finishes(events') : ~ i < k
                     PROVE  events'[i].dest <= n
          BY <3>2 DEF ReportedLast
      <4>2. CASE i = Len(events) + 1
          BY <4>2, <2>2, <3>1, Sending DEF P!Report, P!TotalBytes
      <4>3. CASE i \in 1 .. Len(events)
        <5>1. /\ events'[i] = events[i] /\ i \in DOMAIN events
              /\ \A k \in P!Finishes(events) : ~ i < k
            BY <4>1, <4>3, <2>2, <3>1, Sending DEF P!Report
        <5>2. events[i].dest <= Reported /\ events[i] \in P!Event
            BY <5>1, <4>1, <3>2 DEF ReportedLast
        <5>3. events[i].dest \in Nat
            BY <5>1, <5>2, <4>1 DEF P!Event
        <5>4. QED
            BY <5>1, <5>2, <5>3, <3>2
      <4>4. QED
          BY <4>2, <4>3, <2>2, <3>1, Sending DEF P!Report
    <3>5. QED
        BY <3>2, <3>3, <3>4
  <2>3. ASSUME NEW n \in 0 .. MaxSize, P!EndWriting(n)
        PROVE  ProtocolInv'
    <3>1. P!TotalBytes(n) \in P!Event /\ Continues(events, P!TotalBytes(n))
        BY <2>3 DEF P!EndWriting, Continues, P!TotalBytes, P!Event, SaidSoFar, ReportedLast, P!FinishedWriting, P!Success, P!Finishes, LastSaid
    <3>2. QED
        BY <2>3, <3>1, Sending DEF P!EndWriting, SaidSoFar, ReportedLast, P!TotalBytes, P!IsFinal, P!FinishedWriting
  <2>4. ASSUME NEW n \in 0 .. MaxSize, P!EndVerifying(n)
        PROVE  ProtocolInv'
    <3>1. P!TotalBytes(n) \in P!Event /\ Continues(events, P!TotalBytes(n))
        BY <2>4 DEF P!EndVerifying, Continues, P!TotalBytes, P!Event, SaidSoFar, ReportedLast, P!FinishedWriting, P!Success, P!Finishes, LastSaid
    <3>2. QED
        BY <2>4, <3>1, Sending DEF P!EndVerifying, SaidSoFar, ReportedLast, P!TotalBytes, P!IsFinal, P!FinishedWriting
  <2>5. ASSUME NEW n \in 0 .. MaxSize, P!RunOut(n)
        PROVE  ProtocolInv'
    <3>1. P!TotalBytes(n) \in P!Event /\ Continues(events, P!TotalBytes(n))
        BY <2>5 DEF P!RunOut, Continues, P!TotalBytes, P!Event, SaidSoFar, ReportedLast, P!FinishedWriting, P!Success, P!Finishes, LastSaid
    <3>2. QED
        BY <2>5, <3>1, Sending DEF P!RunOut, SaidSoFar, ReportedLast, P!TotalBytes, P!IsFinal, P!FinishedWriting, P!Failure
  <2>6. ASSUME NEW v \in BOOLEAN, P!Finish(v)
        PROVE  ProtocolInv'
    <3>1. P!FinishedWriting(v) \in P!Event /\ Continues(events, P!FinishedWriting(v))
        BY <2>6 DEF P!Finish, Continues, P!FinishedWriting, P!Event, SaidSoFar, P!Success, P!Finishes, LastSaid
    <3>2. QED
        BY <2>6, <3>1, Sending DEF P!Finish, SaidSoFar, ReportedLast, P!IsFinal, P!FinishedWriting
  <2>7. ASSUME NEW e \in P!Failure, P!Abandon(e)
        PROVE  ProtocolInv'
      BY <2>7 DEF P!Abandon, SaidSoFar, ReportedLast, P!Failure, P!IoError, LastSaid
  <2>8. CASE P!Conclude
    <3>1. P!FinalEvent(result) \in P!Event
        BY <2>8 DEF P!Conclude, P!FinalEvent, P!Event, SaidSoFar, P!Success, P!Error
    <3>2. Continues(events, P!FinalEvent(result))
      <4>1. CASE result = "Ok"
          BY <2>8, <4>1 DEF P!Conclude, Continues, P!FinalEvent, SaidSoFar, P!Success, P!Finishes, LastSaid
      <4>2. CASE result # "Ok"
          BY <2>8, <4>2 DEF P!Conclude, Continues, P!FinalEvent, SaidSoFar, P!Success, P!Error, LastSaid
      <4>3. QED
          BY <4>1, <4>2
    <3>3. QED
        BY <2>8, <3>1, <3>2, Sending DEF P!Conclude, SaidSoFar, ReportedLast
  <2>9. CASE P!Vanish
      BY <2>9 DEF P!Vanish, SaidSoFar, ReportedLast
  <2>10. CASE UNCHANGED P!vars
      BY <2>10 DEF P!vars, SaidSoFar, ReportedLast, LastSaid
  <2>11. QED
      BY <2>1, <2>2, <2>3, <2>4, <2>5, <2>6, <2>7, <2>8, <2>9, <2>10 DEF P!Next
<1>3. QED
    BY <1>1, <1>2, PTL DEF P!Spec

(* Whatever a herd that keeps to the protocol has said so far is a           *)
(* well-formed conversation, for conversations of any length.                *)
THEOREM ConversationsAreWellFormed == P!Spec => []P!EventsWellFormed
<1>1. ProtocolInv => P!EventsWellFormed
    BY DEF ProtocolInv, P!EventsWellFormed
<1>2. QED
    BY ProtocolInvariant, <1>1, PTL

(* Hence what a herd sends is a well-formed conversation at any moment: what *)
(* its consumers, BurnSession and HerderFacade, are modelled for.            *)
THEOREM WriterSpeaksWellFormed == Spec => []P!EventsWellFormed
BY WriterImplementsProtocol, ConversationsAreWellFormed, PTL DEF ImplementsProtocol

=============================================================================
