------------------------------- MODULE FileTail ------------------------------
(***************************************************************************)
(* The tail plugin reads a file that others append to and rotate           *)
(* (src/agent/plugins/tail_plugin.py).  A file is a sequence of pieces:    *)
(* "part" is text without a line end, "end" the rest of a line with it.    *)
(* Offsets count pieces.                                                   *)
(***************************************************************************)
EXTENDS Integers, Sequences, FiniteSets

CONSTANTS
  SeekFromEnd,   \* seek_from_end: TRUE or FALSE
  MaxPieces,     \* bound: the length of a file
  MaxRotations   \* bound

ASSUME TailAssumption == SeekFromEnd \in BOOLEAN /\ {MaxPieces, MaxRotations} \subseteq Nat

Unknown == -1

VARIABLES
  file,        \* its pieces
  rotation,    \* how often it was replaced or truncated
  offset,      \* file_positions, Unknown before the file is found
  reading,     \* "no", "opened", "waiting" for the end of a line, "starting"
  at,          \* where the open file object stands
  full,        \* pos: behind the last whole line
  lines,       \* history: the lines that were queued, as spans of a rotation
  torn,        \* history: where the rest of a line was written while the plugin
               \* waited for it
  from,        \* history: where reading this rotation began
  noticed      \* history: the rotation the plugin reads, for all it knows

tailVars == <<file, rotation, offset, reading, at, full, lines, torn, from, noticed>>

TailInit ==
  /\ file = <<>> /\ rotation = 0 /\ offset = Unknown /\ reading = "no" /\ at = 0 /\ full = 0
  /\ lines = {} /\ torn = {} /\ from = 0 /\ noticed = 0

Write ==
  /\ Len(file) < MaxPieces
  /\ \E piece \in {"part", "end"} : file' = Append(file, piece)
  /\ torn' = IF reading = "waiting" THEN torn \cup {<<rotation, at>>} ELSE torn
  /\ UNCHANGED <<rotation, offset, reading, at, full, lines, from, noticed>>

\* Rotation while nothing is read.  What the new file holds by the time it is
\* looked at decides whether the plugin notices.
Rotate ==
  /\ reading \in {"no", "starting"} /\ rotation < MaxRotations
  /\ file' = <<>> /\ rotation' = rotation + 1
  /\ UNCHANGED <<offset, reading, at, full, lines, torn, from, noticed>>

-----------------------------------------------------------------------------

\* A file that has become empty: the plugin waits for content as it does for a
\* new file's.
FindEmpty ==
  /\ offset > 0 /\ reading = "no" /\ file = <<>>
  /\ reading' = "starting"
  /\ UNCHANGED <<file, rotation, offset, at, full, lines, torn, from, noticed>>

\* _init_file of a new file, or of one that was empty: it waits until there is
\* content, which with seek_from_end it passes over.
FindFile ==
  /\ (offset = Unknown \/ reading = "starting") /\ file # <<>>
  /\ offset' = IF SeekFromEnd THEN Len(file) ELSE 0
  /\ from' = offset' /\ noticed' = rotation /\ reading' = "no"
  /\ UNCHANGED <<file, rotation, at, full, lines, torn>>

\* A file shorter than the position was rotated and is read from its start; one
\* of the same length has nothing new.
OpenFile ==
  /\ offset # Unknown /\ reading = "no" /\ file # <<>> /\ Len(file) # offset
  /\ LET rotated == offset > Len(file)
         pos == IF rotated THEN 0 ELSE offset
     IN /\ at' = pos /\ full' = pos
        /\ from' = IF rotated THEN 0 ELSE from
  /\ reading' = "opened"
  /\ noticed' = IF offset > Len(file) THEN rotation ELSE noticed
  /\ UNCHANGED <<file, rotation, offset, lines, torn>>

\* readline: to the end of the line, or of the file.
LineEnd ==
  LET ends == {k \in at + 1..Len(file) : file[k] = "end"}
  IN IF ends = {} THEN Len(file) ELSE CHOOSE k \in ends : \A m \in ends : k <= m
Whole == LineEnd > at /\ file[LineEnd] = "end"

\* A whole line is queued.
ReadLine ==
  /\ reading \in {"opened", "waiting"} /\ Whole
  /\ lines' = lines \cup {<<rotation, at, LineEnd>>}
  /\ at' = LineEnd /\ full' = LineEnd /\ reading' = "opened"
  /\ UNCHANGED <<file, rotation, offset, torn, from, noticed>>

\* Slip: the position moves along with the incomplete line.
WaitForEnd_MovesOn ==
  /\ reading \in {"opened", "waiting"} /\ LineEnd > at /\ ~Whole
  /\ at' = LineEnd /\ full' = LineEnd /\ reading' = "waiting"
  /\ UNCHANGED <<file, rotation, offset, lines, torn, from, noticed>>

\* An incomplete line has been read, and the file object stands behind it; the
\* plugin waits 0.1 s and reads on from there.
WaitForEnd ==
  /\ reading \in {"opened", "waiting"} /\ LineEnd > at /\ ~Whole
  /\ at' = LineEnd /\ reading' = "waiting"
  /\ UNCHANGED <<file, rotation, offset, full, lines, torn, from, noticed>>

\* Nothing more to read: the next look starts behind the last whole line.
CloseFile ==
  /\ reading \in {"opened", "waiting"} /\ LineEnd = at
  /\ offset' = full /\ reading' = "no"
  /\ UNCHANGED <<file, rotation, at, full, lines, torn, from, noticed>>

TailNext == Write \/ Rotate \/ FindEmpty \/ FindFile \/ OpenFile \/ ReadLine \/ WaitForEnd \/ CloseFile

TailSpec == TailInit /\ [][TailNext]_tailVars

-----------------------------------------------------------------------------

\* Where a line begins.
Begins(k) == k = from \/ (k \in DOMAIN file /\ file[k] = "end")

\* Every line behind which the plugin has come is queued once and whole, even if
\* it was incomplete when first read; unless its rest came during the very wait
\* for it, or the file was replaced by one at least as long before it was looked
\* at, or was seen empty, which passes over what it begins with.
LinesWhole ==
  rotation = noticed =>
    /\ \A l \in lines : l[1] = rotation => (Begins(l[2]) \/ <<rotation, l[2]>> \in torn)
    /\ \A k \in from + 1..offset :
         (reading = "no" /\ offset <= Len(file) /\ file[k] = "end")
           => Cardinality({l \in lines : l[1] = rotation /\ l[3] = k}) = 1
=============================================================================
