------------------------------- MODULE Hashing -------------------------------
(***************************************************************************)
(* The validation's reading of the image: do_hashing (ask_hash.rs) driving  *)
(* the iterator GenericHashing (hash.rs) over a decompressor, buffer by      *)
(* buffer.  SetupWizard!HashImage takes all of it for one step.             *)
(*                                                                          *)
(* A digest is represented by what was fed to it, cell by cell.  The stream  *)
(* is what the decompressor gives when nothing goes wrong.                  *)
(***************************************************************************)
EXTENDS Naturals

CONSTANTS
    Cell,       \* values of a cell
    Zero,       \* what a new buffer is filled with
    MaxSize,    \* bound on the length of the stream
    BufSize,    \* block_size, 512 KiB in the code
    Period      \* steps between two updates of the progress bar, 32 in the code

ASSUME HashingAssumption ==
    /\ Zero \in Cell
    /\ MaxSize \in Nat
    /\ BufSize \in Nat \ {0} /\ Period \in Nat \ {0}

VARIABLES
    length,     \* length of the stream
    stream,     \* its cells
    pos,        \* cells the decompressor has given
    buf,        \* GenericHashing.buf
    count,      \* cells fed to the digest
    hash,       \* the cells fed to the digest
    error,      \* GenericHashing.error is Some
    iter,       \* turns since the last update of the progress bar
    result      \* what do_hashing returned, "None" while it runs

vars == <<length, stream, pos, buf, count, hash, error, iter, result>>

image == <<length, stream>>

Init ==
    /\ length \in 0 .. MaxSize
    /\ stream \in [0 .. length - 1 -> Cell]
    /\ pos = 0
    /\ buf = [i \in 0 .. BufSize - 1 |-> Zero]
    /\ count = 0
    /\ hash = [i \in {} |-> Zero]
    /\ error = FALSE
    /\ iter = 0
    /\ result = "None"

Running == result = "None"

-----------------------------------------------------------------------------

\* A slip: the whole buffer is fed.
AmountWhole(n) == BufSize

\* hash.update(&buf[..read_bytes])
Amount(n) == n

\* GenericHashing::step with n cells that were read from src.
Feed(n, src) ==
    /\ Running /\ iter < Period
    /\ buf' = [i \in 0 .. BufSize - 1 |-> IF i < n THEN src[pos + i] ELSE buf[i]]
    /\ hash' = [i \in 0 .. count + Amount(n) - 1 |->
                  IF i < count THEN hash[i] ELSE buf'[i - count]]
    /\ count' = count + Amount(n)
    /\ pos' = pos + n
    /\ iter' = iter + 1
    /\ UNCHANGED <<image, error, result>>

\* One call of next() that reads n cells: a read fills any part of the buffer.
Step(n) == n <= length - pos /\ Feed(n, stream)

\* A slip: the error is forgotten when the iterator ends.
FinalizeAnyway(failed) == "Ok"

\* finalize()
Finalize(failed) == IF failed THEN "Err" ELSE "Ok"

\* A read of no cells ends the iterator ...
Exhausted ==
    /\ Running /\ iter < Period
    /\ result' = Finalize(error)
    /\ UNCHANGED <<image, pos, buf, count, hash, error, iter>>

StreamEnds == pos = length /\ Exhausted

\* ... and so does an error, which it keeps for finalize().
ReadFails ==
    /\ Running /\ iter < Period
    /\ error' = TRUE
    /\ result' = Finalize(error')
    /\ UNCHANGED <<image, pos, buf, count, hash, iter>>

\* The progress bar asks the file for its position, which can fail.
UpdateBar ==
    /\ Running /\ iter = Period
    /\ iter' = 0
    /\ \/ UNCHANGED result
       \/ result' = "Err"
    /\ UNCHANGED <<image, pos, buf, count, hash, error>>

Next ==
    \/ \E n \in 1 .. BufSize : Step(n)
    \/ StreamEnds \/ ReadFails \/ UpdateBar

Spec == Init /\ [][Next]_vars

-----------------------------------------------------------------------------
(* Properties                                                                *)

\* Every variable has its type, and the digest was fed what was read.
TypeOK ==
    /\ length \in 0 .. MaxSize
    /\ stream \in [0 .. length - 1 -> Cell]
    /\ pos \in 0 .. length
    /\ buf \in [0 .. BufSize - 1 -> Cell]
    /\ count = pos
    /\ hash \in [0 .. count - 1 -> Cell]
    /\ error \in BOOLEAN
    /\ iter \in 0 .. Period
    /\ result \in {"None", "Ok", "Err"}

(* A digest that is returned is of the whole stream, from its first cell to   *)
(* its last, in order and once each, however the reads were cut; a read that  *)
(* failed gives no digest at all, never one of a part.                       *)
HashIsOfTheStream ==
    result = "Ok" => count = length /\ \A i \in 0 .. length - 1 : hash[i] = stream[i]

=============================================================================
