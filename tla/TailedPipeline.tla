--------------------------- MODULE TailedPipeline ---------------------------
(***************************************************************************)
(* The file watcher in front of the pipeline: a thread polls a log file    *)
(* that another program appends to and rotates, and enqueues what it reads *)
(* past an offset it keeps in memory.                                      *)
(*                                                                         *)
(* The text of the file is a sequence of chunks, the writes of its author: *)
(* chunk <<n, k>> is the k-th write of line n, and the last one of a line  *)
(* ends with its newline.  Chunks stand for their bytes in sizes and       *)
(* offsets.  A rotation during a poll does what one after it does: the     *)
(* poll goes on in the file it has open.                                   *)
(***************************************************************************)
EXTENDS PipelineQueue

CONSTANTS
    Writes,         \* Writes[n]: the writes that line n comes in
    MaxDatagrams,   \* bound on the items listeners offer
    MaxRotations    \* bound on rotations of the file

ASSUME WritesAssumption == Writes \in Seq(Nat \ {0})
ASSUME TailBounds == MaxDatagrams \in Nat /\ MaxRotations \in Nat

VARIABLES
    text,       \* the file
    written,    \* chunks written so far
    offset,     \* _offset: how much of the file was read
    at,         \* position of the open file, NotOpen between polls
    tailed,     \* chunks offered to the queue
    tails,      \* how many of the offered items the watcher offered
    rotations,
    outgrown    \* a poll found a rotated file no smaller than its offset

tailVars == <<text, written, offset, at, tailed, tails, rotations, outgrown>>
allVars == <<vars, tailVars>>

NotOpen == -1

Chunks == FlattenSeq([n \in DOMAIN Writes |-> [k \in 1 .. Writes[n] |-> <<n, k>>]])
EndsLine(c) == c[2] = Writes[c[1]]

TailInit ==
    /\ Init
    /\ text = <<>> /\ written = 0 /\ offset = 0 /\ at = NotOpen
    /\ tailed = {} /\ tails = 0 /\ rotations = 0 /\ outgrown = FALSE

(* The file's author. *)
Write ==
    /\ written < Len(Chunks)
    /\ text' = Append(text, Chunks[written + 1])
    /\ written' = written + 1
    /\ UNCHANGED <<vars, offset, at, tailed, tails, rotations, outgrown>>

(* Moved away or truncated, in the middle of a line too (copytruncate).    *)
Rotate ==
    /\ rotations < MaxRotations
    /\ at = NotOpen
    /\ text' = <<>>
    /\ rotations' = rotations + 1
    /\ UNCHANGED <<vars, written, offset, at, tailed, tails, outgrown>>

Rotated == offset > 0 /\ (text = <<>> \/ text[1] \notin tailed)

(* Mutant: a file that shrank is not started again. *)
PollGrownOnly ==
    /\ Watching /\ watcher.pc = "idle" /\ at = NotOpen
    /\ Len(text) > offset
    /\ at' = offset
    /\ UNCHANGED <<vars, text, written, offset, tailed, tails, rotations, outgrown>>

_poll ==
    /\ Watching /\ watcher.pc = "idle" /\ at = NotOpen
    /\ LET start == IF Len(text) < offset THEN 0 ELSE offset
       IN  /\ offset' = start
           /\ at' = IF Len(text) = start THEN NotOpen ELSE start
           /\ outgrown' = (outgrown \/ (Rotated /\ start > 0))
    /\ UNCHANGED <<vars, text, written, tailed, tails, rotations>>

(* Up to the newline, or to what is there of a line that is being written. *)
LineEnd ==
    LET ends == {k \in at + 1 .. Len(text) : EndsLine(text[k]) \/ k = Len(text)}
    IN  CHOOSE k \in ends : \A j \in ends : k <= j

ReadLine ==
    /\ at # NotOpen /\ at < Len(text)
    /\ WatcherChecksFull
    /\ tailed' = tailed \cup {text[k] : k \in at + 1 .. LineEnd}
    /\ tails' = tails + 1
    /\ at' = LineEnd
    /\ UNCHANGED <<text, written, offset, rotations, outgrown>>

EndOfFile ==
    /\ at # NotOpen /\ at >= Len(text) /\ watcher.pc = "idle"
    /\ offset' = at
    /\ at' = NotOpen
    /\ UNCHANGED <<vars, text, written, tailed, tails, rotations, outgrown>>

(* The rest of the pipeline; the offset does not survive a restart. *)
Datagram == offered - tails < MaxDatagrams /\ enqueue /\ UNCHANGED tailVars
PutOn == WatcherGoesOn /\ UNCHANGED tailVars
WorkOn == Loop /\ UNCHANGED tailVars
RestartAll ==
    /\ Restart
    /\ offset' = 0 /\ at' = NotOpen
    /\ UNCHANGED <<text, written, tailed, tails, rotations, outgrown>>

Tailing == _poll \/ ReadLine \/ EndOfFile \/ PutOn

TailNext == Write \/ Rotate \/ Tailing \/ Datagram \/ WorkOn \/ RestartAll

(* The loop resumes what is ready; the watcher's thread polls for ever. *)
TailSpec == TailInit /\ [][TailNext]_allVars /\ WF_allVars(WorkOn) /\ WF_allVars(Tailing)

-----------------------------------------------------------------------------
(* Properties *)

(* All that is written to the file reaches the queue while it is there,    *)
(* also what is written during a poll, after a rotation or a restart; only *)
(* a rotated file that grows past the offset before the next poll hides    *)
(* its beginning.                                                          *)
WrittenIsTailed ==
    \A k \in DOMAIN Chunks :
        (Chunks[k] \in ToSet(text)) ~> (Chunks[k] \in tailed \/ Chunks[k] \notin ToSet(text) \/ outgrown)
=============================================================================
