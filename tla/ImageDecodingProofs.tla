-------------------------- MODULE ImageDecodingProofs --------------------------
(***************************************************************************)
(* Proofs about Hashing and about ImageDecoding, which implements it.        *)
(*                                                                          *)
(* The validation hashes the image and all of it, for every stream, buffer   *)
(* size and way the reads are cut: what is inductive is that the digest was  *)
(* fed a prefix of the stream, as long as what was read.  This part rests on *)
(* HashingAssumption alone.                                                 *)
(*                                                                          *)
(* The decoders give such a stream, for every file, window and buffer: what  *)
(* the streaming decoder holds is what it has decoded and not yet given, so  *)
(* it never gives too much, and has nothing left only at the end.            *)
(***************************************************************************)
EXTENDS ImageDecoding, TLAPS, WellFoundedInduction

FedPrefix == \A i \in 0 .. pos - 1 : hash[i] = stream[i]

OkAtEnd == result = "Ok" => pos = length

HashingInv == TypeOK /\ FedPrefix /\ OkAtEnd

-----------------------------------------------------------------------------

(* One read of n cells feeds exactly those n cells behind the others.        *)
LEMMA StepKeepsInv ==
    ASSUME HashingInv, NEW n \in 1 .. BufSize, Step(n)
    PROVE  HashingInv'
<1> USE HashingAssumption
<1>1. /\ length \in Nat /\ length' = length /\ stream' = stream /\ length <= MaxSize
      /\ pos \in Nat /\ count = pos /\ n \in Nat /\ n >= 1 /\ n <= BufSize
      /\ BufSize \in Nat /\ pos + n <= length
      /\ pos' = pos + n /\ count' = count + n /\ iter' = iter + 1 /\ iter < Period
      /\ error' = error /\ result' = result
    BY DEF HashingInv, TypeOK, Step, Feed, Amount, image
<1>2. \A i \in 0 .. n - 1 : pos + i \in 0 .. length - 1
    BY <1>1
<1>3. /\ buf' = [i \in 0 .. BufSize - 1 |-> IF i < n THEN stream[pos + i] ELSE buf[i]]
      /\ buf \in [0 .. BufSize - 1 -> Cell]
      /\ stream \in [0 .. length - 1 -> Cell]
    BY DEF HashingInv, TypeOK, Step, Feed
<1>4. buf' \in [0 .. BufSize - 1 -> Cell]
  <2>1. ASSUME NEW i \in 0 .. BufSize - 1
        PROVE  (IF i < n THEN stream[pos + i] ELSE buf[i]) \in Cell
      BY <1>1, <1>2, <1>3
  <2>2. QED
      BY <2>1, <1>3
<1>5. \A i \in 0 .. n - 1 : buf'[i] = stream[pos + i]
    BY <1>1, <1>3
<1>6. /\ hash' = [i \in 0 .. pos + n - 1 |-> IF i < pos THEN hash[i] ELSE buf'[i - pos]]
      /\ hash \in [0 .. pos - 1 -> Cell]
    BY <1>1 DEF HashingInv, TypeOK, Step, Feed, Amount
<1>7. ASSUME NEW i \in 0 .. pos + n - 1
      PROVE  hash'[i] = stream[i] /\ hash'[i] \in Cell
  <2>1. CASE i < pos
    <3>1. hash'[i] = hash[i] /\ i \in 0 .. pos - 1
        BY <2>1, <1>1, <1>6
    <3>2. QED
        BY <3>1, <1>6 DEF HashingInv, FedPrefix
  <2>2. CASE ~ i < pos
    <3>1. i - pos \in 0 .. n - 1 /\ i - pos \in 0 .. BufSize - 1
        BY <2>2, <1>1
    <3>2. hash'[i] = buf'[i - pos]
        BY <2>2, <1>6
    <3>3. pos + (i - pos) = i
        BY <1>1
    <3>4. QED
        BY <3>1, <3>2, <3>3, <1>4, <1>5
  <2>3. QED
      BY <2>1, <2>2
<1>8. TypeOK'
  <2>1. pos' \in 0 .. length' /\ count' = pos'
      BY <1>1
  <2>2. hash' \in [0 .. count' - 1 -> Cell]
      BY <1>1, <1>6, <1>7
  <2>3. error' \in BOOLEAN /\ iter' \in 0 .. Period
        /\ result' \in {"None", "Ok", "Err"}
      BY <1>1 DEF HashingInv, TypeOK
  <2>4. length' \in 0 .. MaxSize /\ stream' \in [0 .. length' - 1 -> Cell]
      BY <1>1, <1>3
  <2>5. QED
      BY <2>1, <2>2, <2>3, <2>4, <1>4 DEF TypeOK
<1>9. FedPrefix'
    BY <1>1, <1>7 DEF FedPrefix
<1>10. OkAtEnd'
    BY <1>1 DEF OkAtEnd, Step, Feed, Running
<1>11. QED
    BY <1>8, <1>9, <1>10 DEF HashingInv

LEMMA HashingInit == Init => HashingInv
<1> SUFFICES ASSUME Init PROVE HashingInv
    OBVIOUS
<1> USE HashingAssumption
<1>1. TypeOK
  <2>1. length \in Nat /\ pos \in 0 .. length /\ pos = 0 /\ count = 0
      BY DEF Init
  <2>2. buf \in [0 .. BufSize - 1 -> Cell]
      BY DEF Init
  <2>3. hash \in [0 .. count - 1 -> Cell]
    <3>1. 0 .. count - 1 = {}
        BY <2>1
    <3>2. QED
        BY <3>1 DEF Init
  <2>4. QED
      BY <2>1, <2>2, <2>3 DEF Init, TypeOK
<1>2. FedPrefix /\ OkAtEnd
    BY DEF Init, FedPrefix, OkAtEnd
<1>3. QED
    BY <1>1, <1>2 DEF HashingInv

LEMMA HashingStep == HashingInv /\ [Next]_vars => HashingInv'
<1> SUFFICES ASSUME HashingInv, [Next]_vars PROVE HashingInv'
    OBVIOUS
<1> USE HashingAssumption
<1>1. CASE \E n \in 1 .. BufSize : Step(n)
    BY <1>1, StepKeepsInv
<1>2. CASE StreamEnds
    BY <1>2 DEF StreamEnds, Exhausted, Finalize, image, HashingInv, TypeOK, FedPrefix, OkAtEnd
<1>3. CASE ReadFails
    BY <1>3 DEF ReadFails, Finalize, image, HashingInv, TypeOK, FedPrefix, OkAtEnd
<1>4. CASE UpdateBar
    BY <1>4 DEF UpdateBar, Running, image, HashingInv, TypeOK, FedPrefix, OkAtEnd
<1>5. CASE UNCHANGED vars
    BY <1>5 DEF vars, HashingInv, TypeOK, FedPrefix, OkAtEnd
<1>6. QED
    BY <1>1, <1>2, <1>3, <1>4, <1>5 DEF Next

(* The digest is fed the stream, cell by cell, in every reachable state.     *)
THEOREM HashingInvariant == Spec => []HashingInv
<1>1. QED
    BY HashingInit, HashingStep, PTL DEF Spec

(* Whatever the sizes of the stream, of the buffer and of the reads, the      *)
(* variables of GenericHashing keep their types and bounds.                  *)
THEOREM HashingTypeCorrect == Spec => []TypeOK
<1>1. HashingInv => TypeOK
    BY DEF HashingInv
<1>2. QED
    BY <1>1, HashingInvariant, PTL

(* A digest that finalize() returns is of the whole decompressed image.       *)
THEOREM DigestIsOfTheStream == Spec => []HashIsOfTheStream
<1>1. HashingInv => HashIsOfTheStream
    BY DEF HashingInv, TypeOK, FedPrefix, OkAtEnd, HashIsOfTheStream
<1>2. QED
    BY <1>1, HashingInvariant, PTL

-----------------------------------------------------------------------------
(* Induction over the naturals, from the least element that a set of them has *)

LEMMA Least ==
    ASSUME NEW T, T \subseteq Nat, T # {}
    PROVE  \E x \in T : \A y \in T : x <= y
<1> DEFINE R == OpToRel(<, Nat)
<1>1. IsWellFoundedOn(R, Nat)
  BY NatLessThanWellFounded
<1> HIDE DEF R
<1>2. PICK x \in T : \A y \in T : ~ (<<y, x>> \in R)
  BY <1>1, WFMin
<1>3. \A y \in T : ~ (y < x)
  BY <1>2 DEF R, OpToRel
<1> QED BY <1>3

LEMMA Induction ==
    ASSUME NEW T, 0 \in T, \A n \in Nat : n \in T => n + 1 \in T
    PROVE  Nat \subseteq T
<1> SUFFICES ASSUME Nat \ T # {} PROVE FALSE
  OBVIOUS
<1>1. PICK x \in Nat \ T : \A y \in Nat \ T : x <= y
  BY Least
<1>2. x # 0 /\ x - 1 \in Nat /\ x - 1 \in T
  BY <1>1
<1>3. (x - 1) + 1 \in T
  BY <1>2
<1> QED BY <1>1, <1>3

-----------------------------------------------------------------------------
(* What the first blocks of a frame make                                     *)

\* The function that Cells defines by recursion, up to m blocks.
MadeUpTo(made, blocks, m) ==
    made = [k \in 0 .. m |-> IF k = 0 THEN 0 ELSE made[k - 1] + blocks[k]]

LEMMA MadeExists ==
    ASSUME NEW blocks, NEW k \in Nat
    PROVE  \E made : MadeUpTo(made, blocks, k)
<1> DEFINE T == {m \in Nat : \E made : MadeUpTo(made, blocks, m)}
<1>1. 0 \in T
  <2> DEFINE f == [k0 \in 0 .. 0 |-> 0]
  <2>1. MadeUpTo(f, blocks, 0)
    BY DEF MadeUpTo
  <2> QED BY <2>1
<1>2. ASSUME NEW m \in Nat, m \in T PROVE m + 1 \in T
  <2>1. PICK f : MadeUpTo(f, blocks, m)
    BY <1>2
  <2> DEFINE g == [n \in 0 .. m + 1 |-> IF n = m + 1 THEN f[m] + blocks[n] ELSE f[n]]
             h == [n \in 0 .. m + 1 |-> IF n = 0 THEN 0 ELSE g[n - 1] + blocks[n]]
  <2>2. \A n \in 0 .. m + 1 : g[n] = h[n]
    <3> SUFFICES ASSUME NEW n \in 0 .. m + 1 PROVE g[n] = h[n]
      OBVIOUS
    <3>1. CASE n = m + 1
      <4>1. g[n - 1] = f[m] /\ n # 0
        BY <3>1
      <4> QED BY <3>1, <4>1
    <3>2. CASE n # m + 1
      <4>1. n \in 0 .. m /\ g[n] = f[n] /\ (n # 0 => g[n - 1] = f[n - 1])
        BY <3>2
      <4>2. f[n] = IF n = 0 THEN 0 ELSE f[n - 1] + blocks[n]
        BY <2>1, <4>1 DEF MadeUpTo
      <4> QED BY <4>1, <4>2
    <3> QED BY <3>1, <3>2
  <2>3. g = h
    BY <2>2
  <2>4. MadeUpTo(g, blocks, m + 1)
    BY <2>3 DEF MadeUpTo
  <2> QED BY <2>4
<1>3. Nat \subseteq T
  <2> HIDE DEF T
  <2> QED BY <1>1, <1>2, Induction
<1> QED BY <1>3

LEMMA CellsOf ==
    ASSUME NEW blocks, Len(blocks) \in Nat
    PROVE  /\ Cells(blocks)[0] = 0
           /\ \A k \in 1 .. Len(blocks) : Cells(blocks)[k] = Cells(blocks)[k - 1] + blocks[k]
<1> DEFINE made == CHOOSE f : MadeUpTo(f, blocks, Len(blocks))
<1>1. MadeUpTo(made, blocks, Len(blocks))
  BY MadeExists
<1>2. Cells(blocks) = made
  BY DEF Cells, MadeUpTo
<1> HIDE DEF made
<1>3. made[0] = 0 /\ \A k \in 1 .. Len(blocks) : made[k] = made[k - 1] + blocks[k]
  BY <1>1 DEF MadeUpTo
<1> QED BY <1>2, <1>3

LEMMA CellsGrow ==
    ASSUME NEW blocks \in Seq(Nat), NEW j \in 0 .. Len(blocks), NEW k \in j .. Len(blocks)
    PROVE  Cells(blocks)[j] \in Nat /\ Cells(blocks)[k] \in Nat
           /\ Cells(blocks)[j] <= Cells(blocks)[k]
<1> DEFINE made == Cells(blocks)
<1>1. made[0] = 0 /\ \A n \in 1 .. Len(blocks) : made[n] = made[n - 1] + blocks[n]
  BY CellsOf
<1> HIDE DEF made
<1>2. \A n \in 1 .. Len(blocks) : blocks[n] \in Nat
  OBVIOUS
<1>3. \A n \in 0 .. Len(blocks) : made[n] \in Nat
  <2> DEFINE T == {n \in Nat : n <= Len(blocks) => made[n] \in Nat}
  <2>1. 0 \in T
    BY <1>1
  <2>2. ASSUME NEW n \in Nat, n \in T PROVE n + 1 \in T
    <3> SUFFICES ASSUME n + 1 <= Len(blocks) PROVE made[n + 1] \in Nat
      OBVIOUS
    <3>1. made[n + 1] = made[n] + blocks[n + 1] /\ blocks[n + 1] \in Nat /\ made[n] \in Nat
      <4>1. n + 1 \in 1 .. Len(blocks) /\ (n + 1) - 1 = n
        OBVIOUS
      <4>2. made[n + 1] = made[n] + blocks[n + 1]
        BY <1>1, <4>1
      <4> QED BY <1>2, <2>2, <4>1, <4>2
    <3> QED BY <3>1
  <2>3. Nat \subseteq T
    <3> HIDE DEF T
    <3> QED BY <2>1, <2>2, Induction
  <2> QED BY <2>3
<1>4. made[j] <= made[k]
  <2> DEFINE T == {n \in Nat : j + n <= Len(blocks) => made[j] <= made[j + n]}
  <2>1. 0 \in T
    BY <1>3
  <2>2. ASSUME NEW n \in Nat, n \in T PROVE n + 1 \in T
    <3> SUFFICES ASSUME j + (n + 1) <= Len(blocks) PROVE made[j] <= made[j + (n + 1)]
      OBVIOUS
    <3>1. j + (n + 1) \in 1 .. Len(blocks) /\ (j + (n + 1)) - 1 = j + n
          /\ j + n \in 0 .. Len(blocks)
      OBVIOUS
    <3>2. made[j + (n + 1)] = made[j + n] + blocks[j + (n + 1)]
      BY <1>1, <3>1
    <3>3. made[j] <= made[j + n]
      BY <2>2, <3>1
    <3>4. made[j] \in Nat /\ made[j + n] \in Nat /\ blocks[j + (n + 1)] \in Nat
      BY <1>2, <1>3, <3>1
    <3> QED BY <3>2, <3>3, <3>4
  <2>3. Nat \subseteq T
    <3> HIDE DEF T
    <3> QED BY <2>1, <2>2, Induction
  <2>4. k - j \in Nat /\ j + (k - j) = k /\ k <= Len(blocks)
    OBVIOUS
  <2>5. \A n \in Nat : j + n <= Len(blocks) => made[j] <= made[j + n]
    BY <2>3
  <2> QED BY <2>4, <2>5
<1>5. made[j] \in Nat /\ made[k] \in Nat
  BY <1>3
<1> QED BY <1>4, <1>5 DEF made

-----------------------------------------------------------------------------
(* The decoders                                                              *)

Blocks == frames[1]

\* The file is well-formed, and its image is what its first frame makes, cell
\* after cell.
FileInv ==
    /\ frames \in Seq(Frame) /\ frames # <<>>
    /\ window \in 0 .. MaxWindow
    /\ stream = [i \in 0 .. length - 1 |-> i]
    /\ format = "Zst" => length = Content(Blocks)

\* What the decoder holds is what it has decoded and not yet given.
DecoderInv ==
    /\ decoded \in 0 .. Len(Blocks)
    /\ reading \in BOOLEAN
    /\ reading => format = "Zst"
    /\ format = "Zst" => held \in Nat /\ held = Cells(Blocks)[decoded] - pos

DecodingInv == HashingInv /\ FileInv /\ DecoderInv

LEMMA FrameFacts ==
    ASSUME NEW blocks \in Frame
    PROVE  blocks \in Seq(Nat) /\ Content(blocks) \in Nat
<1>1. PICK n \in 1 .. MaxBlocks : blocks \in [1 .. n -> 0 .. BufSize + 1]
  BY DEF Frame
<1>2. blocks \in [1 .. n -> Nat] /\ n \in Nat
  BY <1>1, DecodingAssumption, HashingAssumption
<1>3. blocks \in Seq(Nat)
  BY <1>2
<1>4. Len(blocks) \in 0 .. Len(blocks) /\ 0 \in 0 .. Len(blocks)
      /\ Len(blocks) \in 0 .. Len(blocks)
  BY <1>3
<1>5. Content(blocks) \in Nat
  BY <1>3, <1>4, CellsGrow DEF Content
<1> QED BY <1>3, <1>5

\* The first frame is no larger than the file.
LEMMA FirstFrame ==
    ASSUME frames \in Seq(Frame), frames # <<>>
    PROVE  /\ Content(Blocks) \in Nat /\ WholeLength \in Nat
           /\ Content(Blocks) <= WholeLength
<1> DEFINE sizes == [f \in DOMAIN frames |-> Content(frames[f])]
<1>1. Len(frames) \in Nat /\ Len(frames) >= 1 /\ DOMAIN frames = 1 .. Len(frames)
  OBVIOUS
<1>2. \A f \in DOMAIN frames : frames[f] \in Frame
  OBVIOUS
<1>3. \A f \in DOMAIN frames : Content(frames[f]) \in Nat
  BY <1>2, FrameFacts
<1>4. sizes \in [1 .. Len(frames) -> Nat]
  BY <1>1, <1>3
<1>5. sizes[1] = Content(Blocks)
  BY <1>1 DEF Blocks
<1>6. WholeLength = Cells(sizes)[Len(sizes)]
  BY DEF WholeLength, Content
<1> HIDE DEF sizes
<1>7. sizes \in Seq(Nat) /\ Len(sizes) = Len(frames)
  BY <1>1, <1>4
<1>8. Cells(sizes)[0] = 0 /\ Cells(sizes)[1] = Cells(sizes)[1 - 1] + sizes[1]
  BY <1>1, <1>7, CellsOf
<1>9. Cells(sizes)[1] = Content(Blocks)
  <2>1. 1 - 1 = 0 /\ Content(Blocks) \in Nat
    BY <1>1, <1>3 DEF Blocks
  <2> QED BY <1>5, <1>8, <2>1
<1>10. 1 \in 0 .. Len(sizes) /\ Len(sizes) \in 1 .. Len(sizes)
  BY <1>1, <1>7
<1>11. /\ Cells(sizes)[1] \in Nat /\ Cells(sizes)[Len(sizes)] \in Nat
       /\ Cells(sizes)[1] <= Cells(sizes)[Len(sizes)]
  BY <1>7, <1>10, CellsGrow
<1> QED BY <1>6, <1>9, <1>11

LEMMA DecodingStarts == DecodingInit => Init /\ DecodingInv
<1> SUFFICES ASSUME DecodingInit PROVE Init /\ DecodingInv
  OBVIOUS
<1>1. frames \in Seq(Frame) /\ frames # <<>>
  <2>1. PICK n \in 1 .. MaxFrames : frames \in [1 .. n -> Frame]
    BY DEF DecodingInit
  <2>2. n \in Nat /\ n >= 1
    BY <2>1, DecodingAssumption
  <2> QED BY <2>1, <2>2
<1>2. length \in 0 .. MaxSize
  BY <1>1, FirstFrame, HashingAssumption DEF DecodingInit, Blocks
<1>3. stream = [i \in 0 .. length - 1 |-> i]
  BY DEF DecodingInit
<1>4. stream \in [0 .. length - 1 -> Cell]
  BY <1>2, <1>3, DecodingAssumption, HashingAssumption
<1>5. Init
  BY <1>2, <1>4 DEF DecodingInit, Init
<1>6. HashingInv
  BY <1>5, HashingInit
<1>7. FileInv
  BY <1>1, <1>3, DecodingAssumption DEF DecodingInit, FileInv, Blocks
<1>8. DecoderInv
  <2>1. Blocks \in Frame
    BY <1>1 DEF Blocks
  <2>2. Len(Blocks) \in Nat
    BY <2>1, FrameFacts
  <2>3. Cells(Blocks)[0] = 0
    BY <2>2, CellsOf
  <2>4. decoded = 0 /\ held = 0 /\ pos = 0 /\ reading = FALSE
    BY DEF DecodingInit
  <2>5. held \in Nat /\ held = Cells(Blocks)[decoded] - pos
    BY <2>3, <2>4
  <2>6. decoded \in 0 .. Len(Blocks)
    BY <2>2, <2>4
  <2> QED BY <2>4, <2>5, <2>6 DEF DecoderInv
<1> QED BY <1>5, <1>6, <1>7, <1>8 DEF DecodingInv

\* What the steps need to know of the numbers.
LEMMA Numbers ==
    ASSUME DecodingInv
    PROVE  /\ pos \in Nat /\ length \in Nat /\ length <= MaxSize /\ pos <= length
           /\ Blocks \in Seq(Nat) /\ Len(Blocks) \in Nat
           /\ BufSize \in Nat /\ BufSize >= 1
<1>1. pos \in Nat /\ length \in Nat /\ length <= MaxSize /\ pos <= length
  BY HashingAssumption DEF DecodingInv, HashingInv, TypeOK
<1>2. Blocks \in Frame
  BY DEF DecodingInv, FileInv, Blocks
<1> QED BY <1>1, <1>2, FrameFacts, HashingAssumption

\* What is next in the file is what is next in the stream.
LEMMA FeedsTheStream ==
    ASSUME DecodingInv, NEW n \in 1 .. BufSize, n <= length - pos, Feed(n, Place)
    PROVE  Next
<1>1. \A i \in 0 .. BufSize - 1 : i < n => Place[pos + i] = stream[pos + i]
  <2> SUFFICES ASSUME NEW i \in 0 .. BufSize - 1, i < n
               PROVE  Place[pos + i] = stream[pos + i]
    OBVIOUS
  <2>1. pos + i \in 0 .. length - 1 /\ pos + i \in 0 .. MaxSize
    BY Numbers, HashingAssumption
  <2>2. Place[pos + i] = pos + i
    BY <2>1 DEF Place
  <2>3. stream[pos + i] = pos + i
    BY <2>1 DEF DecodingInv, FileInv
  <2> QED BY <2>2, <2>3
<1>2. buf' = [i \in 0 .. BufSize - 1 |-> IF i < n THEN stream[pos + i] ELSE buf[i]]
  BY <1>1 DEF Feed
<1>3. Feed(n, stream)
  BY <1>2 DEF Feed
<1>4. Step(n)
  BY <1>3 DEF Step
<1> QED BY <1>4 DEF Next

LEMMA LibraryStep ==
    ASSUME DecodingInv, LibraryReads
    PROVE  Next /\ FileInv' /\ DecoderInv'
<1>1. UNCHANGED <<file, decoder, length, stream>>
  BY DEF LibraryReads, Feed, Exhausted, image
<1>2. FileInv' /\ DecoderInv'
  BY <1>1 DEF LibraryReads, DecodingInv, FileInv, DecoderInv, Blocks, file, decoder
<1>3. Next
  <2>1. CASE \E n \in 1 .. BufSize : n <= length - pos /\ Feed(n, Place)
    BY <2>1, FeedsTheStream
  <2>2. CASE pos = length /\ Exhausted
    BY <2>2 DEF Next, StreamEnds
  <2> QED BY <2>1, <2>2 DEF LibraryReads
<1> QED BY <1>2, <1>3

\* A decoder that is done and holds nothing has given everything.
LEMMA AllGiven ==
    ASSUME DecodingInv, format = "Zst", IsFinished, held = 0
    PROVE  pos = length
<1>1. Cells(Blocks)[Len(Blocks)] - pos = 0 /\ length = Cells(Blocks)[Len(Blocks)]
  BY DEF DecodingInv, DecoderInv, FileInv, IsFinished, Blocks, Content
<1> QED BY <1>1, Numbers

LEMMA ReadBegins ==
    ASSUME DecodingInv, ZstReadBegins
    PROVE  (Next \/ UNCHANGED vars) /\ FileInv' /\ DecoderInv'
<1>1. CASE NothingLeft
  <2>1. Exhausted /\ UNCHANGED <<file, decoder>>
    BY <1>1 DEF ZstReadBegins
  <2>2. pos = length
    BY <1>1, AllGiven DEF ZstReadBegins, NothingLeft, CanCollect
  <2>3. FileInv' /\ DecoderInv'
    BY <2>1 DEF Exhausted, image, DecodingInv, FileInv, DecoderInv, Blocks, file, decoder
  <2> QED BY <2>1, <2>2, <2>3 DEF Next, StreamEnds
<1>2. CASE ~ NothingLeft
  <2>1. UNCHANGED <<vars, decoded, held, file>> /\ reading' = TRUE /\ format = "Zst"
    BY <1>2 DEF ZstReadBegins
  <2>2. FileInv' /\ DecoderInv'
    BY <2>1 DEF vars, DecodingInv, FileInv, DecoderInv, Blocks, file
  <2> QED BY <2>1, <2>2
<1> QED BY <1>1, <1>2

LEMMA Decodes ==
    ASSUME DecodingInv, ZstDecodes
    PROVE  UNCHANGED vars /\ FileInv' /\ DecoderInv'
<1>1. UNCHANGED <<vars, file, reading>> /\ reading /\ format = "Zst"
  BY DEF ZstDecodes, DecodingInv, DecoderInv
<1>2. PICK last \in decoded + 1 .. Len(Blocks) :
         /\ decoded' = last
         /\ held' = held + (Cells(Blocks)[last] - Cells(Blocks)[decoded])
  BY DEF ZstDecodes, DecodeUpTo, Blocks
<1>3. decoded \in 0 .. Len(Blocks) /\ held \in Nat /\ held = Cells(Blocks)[decoded] - pos
  BY <1>1 DEF DecodingInv, DecoderInv
<1>4. last \in decoded .. Len(Blocks) /\ last \in 0 .. Len(Blocks)
  BY <1>2, <1>3, Numbers
<1>5. /\ Cells(Blocks)[decoded] \in Nat /\ Cells(Blocks)[last] \in Nat
      /\ Cells(Blocks)[decoded] <= Cells(Blocks)[last]
  BY <1>3, <1>4, Numbers, CellsGrow
<1>6. held' \in Nat /\ held' = Cells(Blocks)[last] - pos
  <2>1. PICK a \in Nat : a = Cells(Blocks)[decoded]
    BY <1>5
  <2>2. PICK b \in Nat : b = Cells(Blocks)[last]
    BY <1>5
  <2>3. a <= b /\ held = a - pos /\ held' = held + (b - a) /\ pos \in Nat /\ held \in Nat
    BY <1>2, <1>3, <1>5, <2>1, <2>2, Numbers
  <2>4. held' \in Nat /\ held' = b - pos
    BY <2>3
  <2> QED BY <2>2, <2>4
<1>7. Blocks' = Blocks /\ pos' = pos
  BY <1>1 DEF Blocks, file, vars
<1>8. DecoderInv'
  <2>1. Cells(Blocks)' = Cells(Blocks)
    BY <1>7
  <2>2. decoded' \in 0 .. Len(Blocks')
    BY <1>2, <1>4, <1>7
  <2>3. held' \in Nat /\ held' = (Cells(Blocks)[decoded] - pos)'
    BY <1>2, <1>6, <1>7, <2>1
  <2>4. reading' \in BOOLEAN /\ (reading => format = "Zst")'
    BY <1>1 DEF DecoderInv, DecodingInv, file
  <2> QED BY <2>2, <2>3, <2>4 DEF DecoderInv
<1>9. FileInv'
  BY <1>1 DEF vars, DecodingInv, FileInv, Blocks, file
<1> QED BY <1>1, <1>8, <1>9

\* What a read takes is no more than is held, and nothing only at the end.
LEMMA Collected ==
    ASSUME NEW a \in Nat, NEW b \in Nat
    PROVE  Min({a, b}) = IF a <= b THEN a ELSE b
BY DEF Min

LEMMA Collects ==
    ASSUME DecodingInv, ZstCollects
    PROVE  Next /\ FileInv' /\ DecoderInv'
<1>1. reading /\ ~ MustDecode /\ format = "Zst"
      /\ UNCHANGED <<file, decoded>> /\ reading' = FALSE
  BY DEF ZstCollects, DecodingInv, DecoderInv
<1>2. decoded \in 0 .. Len(Blocks) /\ held \in Nat /\ held = Cells(Blocks)[decoded] - pos
  BY <1>1 DEF DecodingInv, DecoderInv
<1>3. window \in Nat
  BY DecodingAssumption DEF DecodingInv, FileInv
<1>4. CanCollect \in Nat /\ CanCollect <= held
  BY <1>2, <1>3 DEF CanCollect
<1> DEFINE n == Min({CanCollect, BufSize})
<1>5. n \in Nat /\ n <= CanCollect /\ n <= BufSize /\ (n = 0 => CanCollect = 0)
  BY <1>4, Numbers, Collected
<1>6. held' = held - n /\ IF n > 0 THEN Feed(n, Place) ELSE Exhausted
  BY DEF ZstCollects
<1> HIDE DEF n
<1>7. Cells(Blocks)[decoded] \in Nat /\ Cells(Blocks)[decoded] <= length
  <2>1. length = Cells(Blocks)[Len(Blocks)]
    BY <1>1 DEF DecodingInv, FileInv, Content
  <2>2. Len(Blocks) \in decoded .. Len(Blocks)
    BY <1>2, Numbers
  <2> QED BY <1>2, <2>1, <2>2, Numbers, CellsGrow
<1>8. n <= length - pos
  BY <1>2, <1>4, <1>5, <1>7, Numbers
<1>9. CASE n > 0
  <2>1. Feed(n, Place) /\ n \in 1 .. BufSize
    BY <1>5, <1>6, <1>9, Numbers
  <2>2. Next
    BY <1>8, <2>1, FeedsTheStream
  <2>3. pos' = pos + n /\ UNCHANGED <<length, stream, file>>
    BY <1>1, <2>1 DEF Feed, image
  <2>4. held' \in Nat /\ held' = Cells(Blocks)[decoded] - pos'
    <3>1. PICK a \in Nat : a = Cells(Blocks)[decoded]
      BY <1>7
    <3>2. held = a - pos /\ held \in Nat /\ n \in Nat /\ n <= held /\ held' = held - n
          /\ pos' = pos + n /\ pos \in Nat
      BY <1>2, <1>4, <1>5, <1>6, <2>3, <3>1, Numbers
    <3>3. held' \in Nat /\ held' = a - pos'
      BY <3>2
    <3> QED BY <3>1, <3>3
  <2>5. Blocks' = Blocks /\ decoded' = decoded
    BY <1>1 DEF Blocks, file
  <2>6. DecoderInv'
    BY <1>1, <1>2, <2>4, <2>5 DEF DecoderInv
  <2>7. FileInv'
    BY <2>3 DEF DecodingInv, FileInv, Blocks, file
  <2> QED BY <2>2, <2>6, <2>7
<1>10. CASE ~ n > 0
  <2>1. n = 0 /\ CanCollect = 0 /\ Exhausted
    BY <1>5, <1>6, <1>10
  <2>2. IsFinished /\ held = 0
    BY <1>1, <2>1, Numbers DEF MustDecode, CanCollect
  <2>3. Next
    BY <1>1, <2>1, <2>2, AllGiven DEF Next, StreamEnds
  <2>4. UNCHANGED <<pos, length, stream, file, decoded>> /\ held' = held
    BY <1>1, <1>2, <1>6, <2>1 DEF Exhausted, image
  <2>5. DecoderInv' /\ FileInv'
    BY <1>1, <2>4 DEF DecodingInv, DecoderInv, FileInv, Blocks, file
  <2> QED BY <2>3, <2>5
<1> QED BY <1>9, <1>10

LEMMA FailsOrBarMoves ==
    ASSUME DecodingInv, SourceFails \/ BarMoves
    PROVE  Next /\ FileInv' /\ DecoderInv'
<1>1. Next
  BY DEF SourceFails, BarMoves, Next
<1>2. UNCHANGED <<pos, length, stream, file, decoded, held>> /\ reading' \in {reading, FALSE}
  BY DEF SourceFails, BarMoves, ReadFails, UpdateBar, image, decoder
<1>3. FileInv'
  BY <1>2 DEF DecodingInv, FileInv, Blocks, file
<1>4. DecoderInv'
  <2>1. Blocks' = Blocks /\ format' = format
    BY <1>2 DEF Blocks, file
  <2>2. UNCHANGED <<pos, decoded, held>>
    BY <1>2
  <2>3. reading' \in BOOLEAN /\ (reading => format = "Zst")'
    <3>1. reading \in BOOLEAN /\ (reading => format = "Zst")
      BY DEF DecodingInv, DecoderInv
    <3>2. CASE reading' = reading
      BY <2>1, <3>1, <3>2, Zenon
    <3>3. CASE reading' = FALSE
      BY <3>3, Zenon
    <3>4. reading' = reading \/ reading' = FALSE
      BY <1>2
    <3> QED BY <3>2, <3>3, <3>4
  <2>4. decoded' \in 0 .. Len(Blocks')
    BY <2>1, <2>2 DEF DecodingInv, DecoderInv
  <2>5. format' = "Zst" => held' \in Nat /\ held' = (Cells(Blocks)[decoded] - pos)'
    BY <2>1, <2>2 DEF DecodingInv, DecoderInv
  <2> QED BY <2>3, <2>4, <2>5 DEF DecoderInv
<1> QED BY <1>1, <1>3, <1>4

\* A step of a reader is one of Hashing, or none to be seen there.
LEMMA DecodingStep ==
    ASSUME DecodingInv, [DecodingNext]_<<vars, file, decoder>>
    PROVE  [Next]_vars /\ DecodingInv'
<1>1. [Next]_vars /\ FileInv' /\ DecoderInv'
  <2>1. CASE DecodingNext
    BY <2>1, LibraryStep, ReadBegins, Decodes, Collects, FailsOrBarMoves DEF DecodingNext
  <2>2. CASE UNCHANGED <<vars, file, decoder>>
    <3>1. UNCHANGED vars
      BY <2>2
    <3>2. UNCHANGED <<length, stream, pos>>
      BY <3>1 DEF vars
    <3>3. FileInv' /\ DecoderInv'
      BY <2>2, <3>2 DEF DecodingInv, FileInv, DecoderInv, Blocks, file, decoder
    <3> QED BY <3>1, <3>3
  <2> QED BY <2>1, <2>2
<1>2. HashingInv'
  BY <1>1, HashingStep DEF DecodingInv
<1> QED BY <1>1, <1>2 DEF DecodingInv

(* What is held is what was decoded and not yet given, and no read gives what *)
(* is not in the image, in every reachable state.                            *)
THEOREM DecodingInvariant == DecodingSpec => []DecodingInv
BY DecodingStarts, DecodingStep, PTL DEF DecodingSpec

(* The variables of the readers keep their types, for every file, window and  *)
(* buffer, and StreamingDecoder keeps account of what it holds.              *)
THEOREM DecodingTypeCorrect == DecodingSpec => []DecodingTypeOK
<1>1. DecodingInv => DecodingTypeOK
  BY DEF DecodingInv, HashingInv, FileInv, DecoderInv, DecodingTypeOK, Blocks
<1> QED BY <1>1, DecodingInvariant, PTL

(* DecompressRead over its decoders implements the reader Hashing is about:   *)
(* StreamingDecoder gives the stream from its first cell to its last, and     *)
(* says it is over only there.                                               *)
THEOREM DecodersImplementHashing == DecodingSpec => ImplementsHashing
BY DecodingStarts, DecodingStep, DecodingInvariant, PTL
   DEF DecodingSpec, ImplementsHashing, Spec

(* So the digest that is returned is of all that the decoder can give.        *)
THEOREM DigestIsOfTheImage == DecodingSpec => []HashIsOfTheStream
BY DecodersImplementHashing, DigestIsOfTheStream, PTL DEF ImplementsHashing

=============================================================================
