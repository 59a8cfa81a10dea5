---------------------------- MODULE ImageDecoding -----------------------------
(***************************************************************************)
(* What of an image file its readers get: the dispatch of DecompressRead     *)
(* (compression.rs) over the decoders, the streaming decoder for zstd        *)
(* (compression/zstd_streaming_decoder.rs) call by call, under the iterator  *)
(* of Hashing.  The writer and the verification read images the same way.    *)
(*                                                                          *)
(* A compressed file is a sequence of frames (gzip and bzip2 call them       *)
(* members and streams), a frame a sequence of blocks, a block the number of *)
(* cells it decodes to; the content of a cell is its place in the image.     *)
(* Headers, checksums and the decoding of a block are the library's.  The    *)
(* xz and lz4 decoders are left out: what they make of the data behind the   *)
(* first stream is not to be seen from here.                                *)
(***************************************************************************)
EXTENDS Hashing, Sequences, FiniteSetsExt

CONSTANTS
    MaxBlocks,  \* bound on the blocks of a frame
    MaxFrames,  \* bound on the frames of a file
    MaxWindow   \* bound on what a decoder keeps for the blocks to come

ASSUME DecodingAssumption ==
    /\ Cell = 0 .. MaxSize
    /\ MaxBlocks \in Nat /\ MaxFrames \in Nat \ {0} /\ MaxWindow \in Nat

VARIABLES
    format,     \* the CompressionFormat
    frames,     \* the frames of the file, each the sizes of its blocks
    window,     \* window size of the first frame
    decoded,    \* blocks the FrameDecoder has decoded
    held,       \* cells in its buffer
    reading     \* within StreamingDecoder::read

file == <<format, frames, window>>

decoder == <<decoded, held, reading>>

Frame == UNION {[1 .. n -> 0 .. BufSize + 1] : n \in 1 .. MaxBlocks}

\* What the first blocks make, for every number of them.
Cells(blocks) ==
    LET made[k \in 0 .. Len(blocks)] == IF k = 0 THEN 0 ELSE made[k - 1] + blocks[k]
    IN  made

Content(blocks) == Cells(blocks)[Len(blocks)]

WholeLength == Content([f \in DOMAIN frames |-> Content(frames[f])])

DecodingInit ==
    /\ format \in {"Identity", "Gz", "Bz2", "Zst"}
    /\ frames \in UNION {[1 .. n -> Frame] : n \in 1 .. MaxFrames}
    /\ window \in IF format = "Zst" THEN 0 .. MaxWindow ELSE {0}
    /\ WholeLength <= MaxSize
    /\ length = IF format = "Identity" THEN WholeLength ELSE Content(frames[1])
    /\ stream = [i \in 0 .. length - 1 |-> i]
    /\ pos = 0 /\ count = 0 /\ iter = 0
    /\ buf = [i \in 0 .. BufSize - 1 |-> Zero]
    /\ hash = [i \in {} |-> Zero]
    /\ error = FALSE /\ result = "None"
    /\ decoded = 0 /\ held = 0 /\ reading = FALSE

\* What a reader gives next is what is next in the file.
Place == [i \in 0 .. MaxSize |-> i]

-----------------------------------------------------------------------------
(* Readers that give what there is, any part of it at a time.  Those of the  *)
(* library for gzip and bzip2 stop behind the first member.                  *)

LibraryReads ==
    /\ format # "Zst"
    /\ \/ \E n \in 1 .. BufSize : n <= length - pos /\ Feed(n, Place)
       \/ pos = length /\ Exhausted
    /\ UNCHANGED <<file, decoder>>

-----------------------------------------------------------------------------
(* The streaming decoder and the FrameDecoder under it                       *)

IsFinished == decoded = Len(frames[1])

\* Until its last block a decoder keeps a window for references to come back to.
CanCollect ==
    IF IsFinished THEN held ELSE IF held > window THEN held - window ELSE 0

\* decode_blocks(UptoBytes(n)): blocks until they make n cells, or to the last.
DecodeUpTo(n) ==
    \E last \in decoded + 1 .. Len(frames[1]) :
        LET made(k) == Cells(frames[1])[k] - Cells(frames[1])[decoded]
        IN  /\ made(last) >= n \/ last = Len(frames[1])
            /\ \A k \in decoded + 1 .. last - 1 : made(k) < n
            /\ decoded' = last
            /\ held' = held + made(last)

\* decoder.is_finished() && decoder.can_collect() == 0
NothingLeft == IsFinished /\ CanCollect = 0

ZstReadBegins ==
    /\ format = "Zst" /\ ~ reading /\ Running /\ iter < Period
    /\ IF NothingLeft
       THEN Exhausted /\ UNCHANGED decoder
       ELSE reading' = TRUE /\ UNCHANGED <<vars, decoded, held>>
    /\ UNCHANGED file

\* A slip: one call of decode_blocks is taken to be enough.
MustDecodeOnce == decoded = 0

\* decoder.can_collect() < buf.len() && !decoder.is_finished()
MustDecode == CanCollect < BufSize /\ ~ IsFinished

ZstDecodes ==
    /\ reading /\ MustDecode
    /\ DecodeUpTo(BufSize - CanCollect)
    /\ UNCHANGED <<vars, file, reading>>

\* decoder.read(buf)
ZstCollects ==
    /\ reading /\ ~ MustDecode
    /\ LET n == Min({CanCollect, BufSize})
       IN  /\ IF n > 0 THEN Feed(n, Place) ELSE Exhausted
           /\ held' = held - n
    /\ reading' = FALSE
    /\ UNCHANGED <<file, decoded>>

-----------------------------------------------------------------------------

\* A block that does not decode, a checksum, or the file itself.
SourceFails ==
    /\ format = "Zst" => reading /\ MustDecode
    /\ ReadFails
    /\ reading' = FALSE
    /\ UNCHANGED <<file, decoded, held>>

BarMoves == UpdateBar /\ UNCHANGED <<file, decoder>>

DecodingNext ==
    \/ LibraryReads
    \/ ZstReadBegins \/ ZstDecodes \/ ZstCollects
    \/ SourceFails \/ BarMoves

DecodingSpec == DecodingInit /\ [][DecodingNext]_<<vars, file, decoder>>

-----------------------------------------------------------------------------
(* Properties                                                                *)

(* Every variable has its type, and what the decoder holds is what it has    *)
(* decoded and not yet given.                                                *)
DecodingTypeOK ==
    /\ TypeOK
    /\ frames \in Seq(Frame) /\ window \in 0 .. MaxWindow
    /\ decoded \in 0 .. Len(frames[1]) /\ reading \in BOOLEAN
    /\ format = "Zst" =>
          held \in Nat /\ held = Cells(frames[1])[decoded] - pos

(* The readers implement what Hashing takes them for: they give the stream   *)
(* from its first cell to its last, whatever is kept back for the window and *)
(* however blocks and buffers overlap, and a read gives nothing only at the  *)
(* end of it, never because a decoder has nothing to give yet.               *)
ImplementsHashing == Spec

=============================================================================
