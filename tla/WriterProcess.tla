---------------------------- MODULE WriterProcess -----------------------------
(***************************************************************************)
(* One writer thread of the herder daemon: spawn_writer, run, WriteOp and   *)
(* VerifyOp of herder_daemon/writer_process/mod.rs, the counting readers    *)
(* and writers and SyncDataFile of utils.rs, and the target they act on.    *)
(*                                                                          *)
(* Bytes are grouped into cells, the unit the arithmetic on buffers, blocks *)
(* and positions needs; a cell's value is a member of the small set Cell.   *)
(* The image is the decompressed stream.  A step is the code between two    *)
(* system calls that other actors can observe: one buffer read and written, *)
(* one event sent.  The step that reads a buffer and writes it is one step  *)
(* because no other actor touches the source, the buffer or the position.   *)
(***************************************************************************)
EXTENDS Naturals, Sequences

CONSTANTS
    Systems,            \* subset of {"linux", "macos"}
    Targets,            \* subset of {"File", "Disk", "Partition"}
    BlockSizes,         \* block sizes a device may state, in cells
    NoBlock,            \* a target that states no block size
    DefaultBlock,       \* the 512 bytes assumed then, in cells
    BufBlocks,          \* blocks in a buffer (2048)
    MaxBufSize,         \* MAX_BUF_SIZE, in cells
    CheckpointBytes,    \* CHECKPOINT_BYTES, in cells
    Cell,               \* values of a cell
    Zero,               \* the value of a cell of zero bytes
    MaxSize             \* bound on images and targets, in cells

ASSUME WriterAssumption ==
    /\ Systems \subseteq {"linux", "macos"}
    /\ Targets \subseteq {"File", "Disk", "Partition"}
    /\ BlockSizes \subseteq Nat \ {0}
    /\ NoBlock \notin BlockSizes
    /\ DefaultBlock \in Nat \ {0}
    /\ BufBlocks \in Nat \ {0}
    /\ MaxBufSize \in Nat \ {0}
    /\ CheckpointBytes \in Nat /\ CheckpointBytes >= MaxBufSize
    /\ Zero \in Cell
    /\ MaxSize \in Nat

VARIABLES
    job,        \* what the thread was asked to do, and with what; never changes
    pc,         \* where run() is
    buf,        \* the buffer read from the source
    diskBuf,    \* the buffer VerifyOp reads the target into
    srcPos,     \* cells of the decompressed image read so far
    disk,       \* content of the target
    diskLen,    \* length of the target
    diskPos,    \* the target's file position, and CountWrite / CountRead's count
    iter,       \* buffers since the last checkpoint
    dirty,      \* written cells may still be in the page cache
    result,     \* what run() will return, "None" until it is known
    events,     \* everything sent to tx
    mishaps     \* what the hardware did wrong: subset of {"media", "short"}

vars == <<job, pc, buf, diskBuf, srcPos, disk, diskLen, diskPos, iter, dirty,
          result, events, mishaps>>

(* The abstract specification this one implements, with the refinement       *)
(* mapping: its phase is a function of pc, its last report one of events.    *)

Phase ==
    CASE pc \in {"unmount", "waiting", "open"}          -> "spawned"
      [] pc \in {"begin_write", "write"}                -> "writing"
      [] pc = "finish"                                  -> "written"
      [] pc \in {"rewind", "begin_verify", "verify"}    -> "verifying"
      [] pc = "report"                                  -> "concluding"
      [] pc = "ended"                                   -> "over"
      [] pc = "panicked"                                -> "vanished"

LastEvent == events[Len(events)]

Reported ==
    IF pc \in {"write", "verify"} /\ events # <<>> /\ LastEvent.type = "TotalBytes"
    THEN LastEvent.dest ELSE 0

P == INSTANCE WriterProtocol WITH
        MaxBytes <- MaxSize, phase <- Phase, verdict <- result, reported <- Reported

-----------------------------------------------------------------------------
(* The job: the WriteVerifyAction, the image behind `src' and the capacity   *)
(* behind `dest'.  A File target states no block size (device.rs,            *)
(* from_normal_file); a device holds a whole number of its blocks.           *)

Image == UNION {[0 .. n-1 -> Cell] : n \in 0..MaxSize}

Job ==
    {j \in [os : Systems, target : Targets, block : BlockSizes \cup {NoBlock},
            verify : BOOLEAN, length : 0..MaxSize, image : Image,
            capacity : 0..MaxSize] :
        /\ j.image \in [0 .. j.length - 1 -> Cell]
        /\ j.target = "File" => j.block = NoBlock
        /\ j.target # "File" /\ j.block # NoBlock => j.capacity % j.block = 0}

Lesser(a, b) == IF a <= b THEN a ELSE b

BlockSize == IF job.block = NoBlock THEN DefaultBlock ELSE job.block

BufSize == Lesser(BlockSize * BufBlocks, MaxBufSize)

CheckpointPeriod == CheckpointBytes \div BufSize

ZeroBuf == [i \in 0 .. BufSize - 1 |-> Zero]

\* try_read_exact: as much of the `len' cells of `data' from `pos' on as there
\* is goes into the buffer; the rest of the buffer keeps what it held.
ReadInto(b, data, len, pos) ==
    [i \in 0 .. BufSize - 1 |-> IF pos + i < len THEN data[pos + i] ELSE b[i]]

\* What try_read_exact returns.
CountAvailable(len, pos) == Lesser(BufSize, len - pos)

\* A slip: only what the source delivered is offered to the target.
RoomForReadPart == Lesser(CountAvailable(job.length, srcPos), job.capacity - diskPos)

\* How much of the buffer on offer, all of it, the target has room for.
Room == Lesser(BufSize, job.capacity - diskPos)

\* A slip: nothing is synchronised on Linux either.
DirtyUnflushed == dirty

\* SyncDataFile::flush is sync_data on Linux and nothing on macOS.
DirtyAfterFlush == dirty /\ job.os # "linux"

\* A slip: a buffer the source did not fill is not compared.
SameUpToFullOnly(n) == n = BufSize => \A i \in 0 .. n - 1 : buf'[i] = diskBuf'[i]

\* The first n cells of the two buffers of VerifyOp agree.
SameUpTo(n) == \A i \in 0 .. n - 1 : buf'[i] = diskBuf'[i]

Send(e) == events' = Append(events, e)

\* `?' on an error: run() returns it, nothing else happens.
Fail(e) ==
    /\ pc' = "report"
    /\ result' = e

-----------------------------------------------------------------------------

Init ==
    /\ job \in Job
    /\ pc = IF job.os = "macos" /\ job.target = "Disk" THEN "unmount" ELSE "open"
    /\ \E c \in Cell : disk = [i \in 0 .. MaxSize - 1 |->
                                 IF job.target # "File" /\ i < job.capacity
                                 THEN c ELSE Zero]
    /\ diskLen = IF job.target = "File" THEN 0 ELSE job.capacity
    /\ buf = ZeroBuf /\ diskBuf = ZeroBuf
    /\ srcPos = 0 /\ diskPos = 0 /\ iter = 0
    /\ dirty = FALSE
    /\ result = "None"
    /\ events = <<>>
    /\ mishaps = {}

\* macOS: diskutil unmountdisk, its exit status decides.  Of one that fails and
\* prints more than a message may hold (ipc_common.rs) nothing can be reported, and
\* one that prints more than its pipes hold is waited for for ever: they are read
\* when it has exited.
Unmount ==
    /\ pc = "unmount"
    /\ \/ pc' = "open" /\ UNCHANGED result
       \/ Fail("FailedToUnmount")
       \/ pc' \in {"panicked", "waiting"} /\ UNCHANGED result
    /\ UNCHANGED <<job, buf, diskBuf, srcPos, disk, diskLen, diskPos, iter, dirty,
                   events, mishaps>>

\* Source and target opened, the source measured and rewound.
Open ==
    /\ pc = "open"
    /\ Send(P!InitSuccess)
    /\ pc' = "begin_write"
    /\ UNCHANGED <<job, buf, diskBuf, srcPos, disk, diskLen, diskPos, iter, dirty,
                   result, mishaps>>

\* WriteOp::execute up to its loop.
BeginWrite ==
    /\ pc = "begin_write"
    /\ buf' = ZeroBuf
    /\ iter' = 0
    /\ pc' = "write"
    /\ UNCHANGED <<job, diskBuf, srcPos, disk, diskLen, diskPos, dirty, result,
                   events, mishaps>>

\* A slip: the end of the source is not noticed.
FillBufPastEof ==
    /\ iter < CheckpointPeriod
    /\ buf' = ReadInto(buf, job.image, job.length, srcPos)
    /\ srcPos' = srcPos + CountAvailable(job.length, srcPos)

\* A slip: a full buffer is taken for granted.
FillBufWhole ==
    /\ iter < CheckpointPeriod
    /\ srcPos < job.length
    /\ buf' = ReadInto(buf, job.image, job.length, srcPos)
    /\ srcPos' = srcPos + BufSize

\* A buffer is filled from the source.
FillBuf ==
    /\ iter < CheckpointPeriod
    /\ srcPos < job.length
    /\ buf' = ReadInto(buf, job.image, job.length, srcPos)
    /\ srcPos' = srcPos + CountAvailable(job.length, srcPos)

\* One turn of the write loop.  The whole buffer is offered even when the
\* source filled only a part of it; the target takes at least a cell of it and
\* no more than it has room for, and a short count is not looked at.
WriteBuffer ==
    /\ pc = "write"
    /\ FillBuf
    /\ diskPos < job.capacity
    /\ \E w \in 1 .. Room :
          /\ disk' = [i \in 0 .. MaxSize - 1 |->
                        IF diskPos <= i /\ i < diskPos + w THEN buf'[i - diskPos]
                                                           ELSE disk[i]]
          /\ diskPos' = diskPos + w
          /\ diskLen' = IF diskPos + w > diskLen THEN diskPos + w ELSE diskLen
          /\ mishaps' = IF w < Room THEN mishaps \cup {"short"} ELSE mishaps
    /\ iter' = iter + 1
    /\ dirty' = TRUE
    /\ UNCHANGED <<job, pc, diskBuf, result, events>>

\* A slip: a write that took nothing is tried again for ever.
WriteAgain ==
    /\ pc = "write"
    /\ FillBuf
    /\ diskPos = job.capacity
    /\ UNCHANGED vars

\* A slip: no last checkpoint when the target is full.
WriteEndOfOutputUnreported ==
    /\ pc = "write"
    /\ FillBuf
    /\ diskPos = job.capacity
    /\ Fail("EndOfOutput")
    /\ UNCHANGED <<job, diskBuf, disk, diskLen, diskPos, iter, dirty, events, mishaps>>

\* The target is full and write() returns 0.
WriteEndOfOutput ==
    /\ pc = "write"
    /\ FillBuf
    /\ diskPos = job.capacity
    /\ Send(P!TotalBytes(diskPos))
    /\ Fail("EndOfOutput")
    /\ UNCHANGED <<job, diskBuf, disk, diskLen, diskPos, iter, dirty, mishaps>>

WriteCheckpoint ==
    /\ pc = "write"
    /\ iter = CheckpointPeriod
    /\ iter' = 0
    /\ Send(P!TotalBytes(diskPos))
    /\ UNCHANGED <<job, pc, buf, diskBuf, srcPos, disk, diskLen, diskPos, dirty,
                   result, mishaps>>

\* End of the source: flush (sync_data on Linux, nothing on macOS), then report.
WriteEof ==
    /\ pc = "write"
    /\ iter < CheckpointPeriod
    /\ srcPos = job.length
    /\ dirty' = DirtyAfterFlush
    /\ Send(P!TotalBytes(diskPos))
    /\ pc' = "finish"
    /\ UNCHANGED <<job, buf, diskBuf, srcPos, disk, diskLen, diskPos, iter, result,
                   mishaps>>

FinishWriting ==
    /\ pc = "finish"
    /\ Send(P!FinishedWriting(job.verify))
    /\ IF job.verify THEN pc' = "rewind" /\ UNCHANGED result
                     ELSE pc' = "report" /\ result' = "Ok"
    /\ UNCHANGED <<job, buf, diskBuf, srcPos, disk, diskLen, diskPos, iter, dirty,
                   mishaps>>

\* A slip: only the source is rewound.
RewindSource ==
    /\ pc = "rewind"
    /\ srcPos' = 0
    /\ pc' = "begin_verify"
    /\ UNCHANGED <<job, buf, diskBuf, disk, diskLen, diskPos, iter, dirty, result,
                   events, mishaps>>

\* A slip: a file keeps what was written past the end of the image.
RewindUncut ==
    /\ pc = "rewind"
    /\ srcPos' = 0 /\ diskPos' = 0
    /\ pc' = "begin_verify"
    /\ UNCHANGED <<job, buf, diskBuf, disk, diskLen, iter, dirty, result, events,
                   mishaps>>

\* Both sides back to the beginning; a file is cut, or stretched with zeros, to
\* the number of cells that were read from the image.
Rewind ==
    /\ pc = "rewind"
    /\ srcPos' = 0 /\ diskPos' = 0
    /\ IF job.target = "File"
       THEN /\ diskLen' = srcPos
            /\ disk' = [i \in 0 .. MaxSize - 1 |->
                          IF i < srcPos /\ i < diskLen THEN disk[i] ELSE Zero]
       ELSE UNCHANGED <<disk, diskLen>>
    /\ pc' = "begin_verify"
    /\ UNCHANGED <<job, buf, diskBuf, iter, dirty, result, events, mishaps>>

\* VerifyOp::execute up to its loop.
BeginVerify ==
    /\ pc = "begin_verify"
    /\ buf' = ZeroBuf /\ diskBuf' = ZeroBuf
    /\ iter' = 0
    /\ pc' = "verify"
    /\ UNCHANGED <<job, srcPos, disk, diskLen, diskPos, dirty, result, events, mishaps>>

\* One turn of the verify loop: how much the target delivered is not looked at,
\* the comparison covers what the source delivered.
VerifyBuffer ==
    /\ pc = "verify"
    /\ FillBuf
    /\ diskBuf' = ReadInto(diskBuf, disk, diskLen, diskPos)
    /\ diskPos' = diskPos + CountAvailable(diskLen, diskPos)
    /\ IF SameUpTo(CountAvailable(job.length, srcPos))
       THEN iter' = iter + 1 /\ UNCHANGED <<pc, result>>
       ELSE Fail("VerificationFailed") /\ UNCHANGED iter
    /\ UNCHANGED <<job, disk, diskLen, dirty, events, mishaps>>

VerifyCheckpoint ==
    /\ pc = "verify"
    /\ iter = CheckpointPeriod
    /\ iter' = 0
    /\ Send(P!TotalBytes(diskPos))
    /\ UNCHANGED <<job, pc, buf, diskBuf, srcPos, disk, diskLen, diskPos, dirty,
                   result, mishaps>>

VerifyEof ==
    /\ pc = "verify"
    /\ iter < CheckpointPeriod
    /\ srcPos = job.length
    /\ Send(P!TotalBytes(diskPos))
    /\ pc' = "report"
    /\ result' = "Ok"
    /\ UNCHANGED <<job, buf, diskBuf, srcPos, disk, diskLen, diskPos, iter, dirty,
                   mishaps>>

\* spawn_writer: the last event says what run() returned.
Report ==
    /\ pc = "report"
    /\ Send(P!FinalEvent(result))
    /\ pc' = "ended"
    /\ UNCHANGED <<job, buf, diskBuf, srcPos, disk, diskLen, diskPos, iter, dirty,
                   result, mishaps>>

-----------------------------------------------------------------------------
(* What the operating system and the hardware may do.                        *)

\* A system call whose error is passed on by `?'.
IoFails ==
    /\ pc \in {"unmount", "open", "write", "rewind", "verify"}
    /\ pc \in {"write", "verify"} => iter < CheckpointPeriod
    /\ \E e \in P!IoError : Fail(e)
    /\ UNCHANGED <<job, buf, diskBuf, srcPos, disk, diskLen, diskPos, iter, dirty,
                   events, mishaps>>

\* A failure the code unwraps: the source cannot be opened, or the decompressor
\* rejects its beginning.  The thread dies and the herd falls silent.
Panic ==
    /\ pc \in {"open", "begin_write", "begin_verify"}
    /\ pc' = "panicked"
    /\ UNCHANGED <<job, buf, diskBuf, srcPos, disk, diskLen, diskPos, iter, dirty,
                   result, events, mishaps>>

\* A written cell goes bad before it is verified (at most once in a behaviour).
MediaFault ==
    /\ pc \in {"write", "finish", "rewind"}
    /\ "media" \notin mishaps
    /\ \E i \in 0 .. diskLen - 1, c \in Cell : disk' = [disk EXCEPT ![i] = c]
    /\ mishaps' = mishaps \cup {"media"}
    /\ UNCHANGED <<job, pc, buf, diskBuf, srcPos, diskLen, diskPos, iter, dirty,
                   result, events>>

-----------------------------------------------------------------------------

\* What the thread does when nothing fails.
Progress ==
    \/ Unmount \/ Open \/ BeginWrite
    \/ WriteBuffer \/ WriteEndOfOutput \/ WriteCheckpoint \/ WriteEof
    \/ FinishWriting \/ Rewind \/ BeginVerify
    \/ VerifyBuffer \/ VerifyCheckpoint \/ VerifyEof
    \/ Report

Environment == IoFails \/ Panic \/ MediaFault

Next == Progress \/ Environment

Spec == Init /\ [][Next]_vars

\* The thread is scheduled and its system calls return.
FairSpec == Spec /\ WF_vars(Progress)

-----------------------------------------------------------------------------
(* Properties                                                                *)

Succeeded == events # <<>> /\ LastEvent = P!Success
FailedWith(e) == events # <<>> /\ LastEvent = P!Error(e)

(* Every variable stays in its range; the image is never read past its end   *)
(* (WriteOp / VerifyOp trust try_read_exact's count), the target never       *)
(* written past its capacity.                                                *)
TypeOK ==
    /\ job \in Job
    /\ pc \in {"unmount", "waiting", "open", "begin_write", "write", "finish",
               "rewind", "begin_verify", "verify", "report", "ended", "panicked"}
    /\ buf \in [0 .. BufSize - 1 -> Cell]
    /\ diskBuf \in [0 .. BufSize - 1 -> Cell]
    /\ srcPos \in 0 .. job.length
    /\ disk \in [0 .. MaxSize - 1 -> Cell]
    /\ diskLen \in 0 .. MaxSize
    /\ diskPos \in 0 .. MaxSize
    /\ pc = "write" => diskPos <= job.capacity
    /\ iter \in 0 .. CheckpointPeriod
    /\ dirty \in BOOLEAN
    /\ result \in {"None", "Ok"} \cup P!Failure
    /\ events \in Seq(P!Event)
    /\ mishaps \subseteq {"media", "short"}

(* A Success after a verification means that every cell of the image the     *)
(* target has room for is on it, whatever short writes and bad cells came    *)
(* before: run() sends Success only after VerifyOp::execute returned Ok.     *)
VerificationIsSound ==
    (Succeeded /\ job.verify) =>
        \A i \in 0 .. job.length - 1 : i < diskLen => disk[i] = job.image[i]

(* What a verification can miss: the part of an image that did not fit, when *)
(* it repeats the image one buffer earlier (or is zero within the first      *)
(* buffer), because VerifyOp compares what an earlier turn left in disk_buf  *)
(* (mod.rs:305-307).  Nothing else slips through.                            *)
OnlyRepeatsSlipThrough ==
    (Succeeded /\ job.verify) =>
        \A i \in 0 .. job.length - 1 :
            i >= diskLen => job.image[i] = IF i < BufSize THEN Zero
                                           ELSE job.image[i - BufSize]

(* The user is never told that a good target is bad: when the image fits and *)
(* the hardware did nothing wrong, neither VerificationFailed nor            *)
(* EndOfOutput is sent, although whole buffers are written and a file grows  *)
(* past the image in between.                                                *)
NoFalseAlarm ==
    (mishaps = {} /\ job.length <= job.capacity) =>
        ~ FailedWith("VerificationFailed") /\ ~ FailedWith("EndOfOutput")

(* EndOfOutput ("Is your output file too small?", ipc.rs:93) is only said of *)
(* targets that are too small, even though the rounding up to whole buffers  *)
(* may run into the end of a target the image fits on.                       *)
EndOfOutputMeansTooSmall ==
    FailedWith("EndOfOutput") => job.length > job.capacity

(* On Linux nothing written is still in the page cache when FinishedWriting  *)
(* is sent, nor ever after (utils.rs:74-80).                                 *)
FinishedWritingIsDurable ==
    (job.os = "linux" /\ \E i \in DOMAIN events : events[i].type = "FinishedWriting")
        => ~ dirty

(* A verified file ends exactly where the image ends (mod.rs:152-158).       *)
VerifiedFileHasImageLength ==
    (Succeeded /\ job.verify /\ job.target = "File") => diskLen = job.length

(* Direct I/O (xplat.rs, O_DIRECT): as long as the target takes what it is   *)
(* offered, every write starts on a block boundary and ends on one or at the *)
(* end of the target.                                                        *)
WritesAreAligned ==
    [][(pc = "write" /\ diskPos' # diskPos /\ "short" \notin mishaps') =>
         /\ diskPos % BlockSize = 0
         /\ diskPos' % BlockSize = 0 \/ diskPos' = job.capacity]_vars

(* Every step of the thread is a step of the protocol: a herd reports what   *)
(* happens to it, once, in order and to the end.                             *)
ImplementsProtocol == P!Spec

(* The thread comes to an end whatever happens, and without a panic it ends  *)
(* with its final event: no retry, no short write and no full target keeps   *)
(* it in its loops.  Only a diskutil that prints more than its pipes hold    *)
(* does: it waits for its reader, which waits for its exit (mod.rs:76-80).    *)
WriterEnds == <>(pc \in {"ended", "panicked", "waiting"})

-----------------------------------------------------------------------------
(* A statement of the documentation that the code does not keep.             *)

(* README.md:53, "Verifying your disk after writing to make sure it was      *)
(* written correctly": a verified success leaves the whole image on the      *)
(* target.                                                                   *)
VerifiedMeansWritten ==
    (Succeeded /\ job.verify) => job.length <= diskLen

=============================================================================
