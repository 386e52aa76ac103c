----------------------------- MODULE LogTailer ------------------------------
(***************************************************************************)
(* The log tailer, supervisor/src/log_tailer.py: a thread that polls the   *)
(* agents' logs and turns each new line into a TextMessage event.          *)
(*                                                                         *)
(* _tail_file looks at the size, then reads whatever the file of that name *)
(* holds from the old offset on, remembers where it stopped and parses     *)
(* what it read line by line.  A piece of a line parses as nothing.  What  *)
(* happens to an event on its way into the store is EventStore's business. *)
(***************************************************************************)
EXTENDS AgentSession

VARIABLES
  tailing,   \* where the thread is
  offset,    \* _offsets[path]
  from,      \* the local offset
  found,     \* lines read and not yet emitted
  emitted,   \* history: lines in the event store
  twice,     \* history: a line was emitted again
  cuts,      \* history: where reads of each file ended
  entered    \* history: where the first read of each file began

tailerVars ==
  <<tailing, offset, from, found, emitted, twice, cuts, entered>>

LineNumbers == 1..(MaxSize \div 2)
Lines == [gen : 1..MaxGenerations, at : LineNumbers]

TailerInit ==
  /\ tailing = "idle"
  /\ offset = 0 /\ from = 0
  /\ found = {} /\ emitted = {} /\ twice = FALSE
  /\ cuts = {} /\ entered = [g \in 1..MaxGenerations |-> MaxSize + 1]

Least(a, b) == IF a <= b THEN a ELSE b

(* Variant: a file as long as the offset is taken for a new one.           *)
StatFile_ResetAtEqual ==
  /\ tailing = "idle"
  /\ size > 0
  /\ from' = IF size <= offset THEN 0 ELSE offset
  /\ tailing' = "read"
  /\ UNCHANGED <<offset, found, emitted, twice, cuts, entered>>

(* The size is compared with the offset; a smaller file is read anew.      *)
StatFile ==
  /\ tailing = "idle"
  /\ size # IF size < offset THEN 0 ELSE offset
  /\ from' = IF size < offset THEN 0 ELSE offset
  /\ tailing' = "read"
  /\ UNCHANGED <<offset, found, emitted, twice, cuts, entered>>

(* What is left of the file after an offset, in whole lines.               *)
WholeLines(a, b) ==
  {l \in Lines : l.gen = generation /\ a <= 2 * (l.at - 1) /\ 2 * l.at <= b}

(* Variant: the last line read is left for the next poll, but not so the   *)
(* offset.                                                                 *)
ReadFile_DropLast ==
  /\ tailing = "read"
  /\ size > from
  /\ offset' = size
  /\ found' = WholeLines(from, size - 1)
  /\ cuts' = cuts \cup {[gen |-> generation, at |-> size]}
  /\ entered' = [entered EXCEPT ![generation] = Least(@, from)]
  /\ tailing' = "emit"
  /\ UNCHANGED <<from, emitted, twice>>

(* The file - it may be another by now - is read to its end.               *)
ReadFile ==
  /\ tailing = "read"
  /\ size > from
  /\ offset' = size
  /\ found' = WholeLines(from, size)
  /\ cuts' = cuts \cup {[gen |-> generation, at |-> size]}
  /\ entered' = [entered EXCEPT ![generation] = Least(@, from)]
  /\ tailing' = "emit"
  /\ UNCHANGED <<from, emitted, twice>>

(* A new file ends before the place: nothing is read, and the place kept.  *)
ReadNothing ==
  /\ tailing = "read"
  /\ size <= from
  /\ offset' = from
  /\ tailing' = "idle"
  /\ UNCHANGED <<from, found, emitted, twice, cuts, entered>>

(* The read begins or ends inside a character: read() raises a decoding    *)
(* error, which is no OSError, and the thread is gone.  It takes an end    *)
(* within a line, or an offset that belongs to another file.               *)
ReadRaises ==
  /\ tailing = "read"
  /\ size > from
  /\ \/ size % 2 = 1
     \/ from > 0 /\ entered[generation] > MaxSize
  /\ tailing' = "dead"
  /\ UNCHANGED <<offset, from, found, emitted, twice, cuts, entered>>

(* The next line goes to the store; after the last one the poll is over.   *)
EmitLine ==
  /\ tailing = "emit"
  /\ \/ /\ found = {}
        /\ tailing' = "idle"
        /\ UNCHANGED <<found, emitted, twice>>
     \/ \E l \in found :
          /\ \A m \in found : l.at <= m.at
          /\ found' = found \ {l}
          /\ emitted' = emitted \cup {l}
          /\ twice' = (twice \/ l \in emitted)
          /\ UNCHANGED tailing
  /\ UNCHANGED <<offset, from, cuts, entered>>

TailerStep == StatFile \/ ReadFile \/ ReadNothing \/ ReadRaises \/ EmitLine

TailerTypeOK ==
  /\ tailing \in {"idle", "read", "emit", "dead"}
  /\ offset \in 0..MaxSize /\ from \in 0..MaxSize
  /\ found \subseteq Lines /\ emitted \subseteq Lines
  /\ twice \in BOOLEAN
  /\ cuts \subseteq [gen : 1..MaxGenerations, at : 0..MaxSize]
  /\ entered \in [1..MaxGenerations -> 0..(MaxSize + 1)]

(* A line can be missed in two ways: a read ended in its middle, or a file *)
(* was first read behind it, because it had already outgrown the offset    *)
(* kept for its predecessor.                                               *)
Split(l) == [gen |-> l.gen, at |-> 2 * l.at - 1] \in cuts
PassedOver(l) == entered[l.gen] \in (2 * l.at - 1)..MaxSize

(* No line reaches the store twice, however the log is rotated under the   *)
(* reader, and of what has been read only split lines and lines passed     *)
(* over are missing (log_tailer.py's offsets).                             *)
EachLineOnce ==
  /\ ~ twice
  /\ \A c \in cuts : \A i \in LineNumbers :
       LET l == [gen |-> c.gen, at |-> i] IN
         2 * i <= c.at =>
           l \in emitted \cup found \/ Split(l) \/ PassedOver(l)
=============================================================================
