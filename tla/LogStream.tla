----------------------------- MODULE LogStream ------------------------------
(***************************************************************************)
(* The live log view of an instance: LogCollector.tail                     *)
(* (instance_manager/src/log_collector.py) as the event stream of          *)
(* web_server.py drives it, for the head unit's log.                       *)
(*                                                                         *)
(* tail() keeps the file open.  Whether the log was truncated or replaced  *)
(* it asks by name: a file of that name shorter than where it stands, or,  *)
(* every five seconds, another name in the record.                         *)
(***************************************************************************)
EXTENDS HeadUnit

VARIABLES
  tail,    \* where the generator is
  open,    \* the log it has open
  at,      \* where it stands in it
  sent,    \* history: lines sent, <<log, number>>
  resent   \* history: lines sent again

streamVars == <<tail, open, at, sent, resent>>

StreamInit ==
  /\ tail = "none"
  /\ open = Nothing
  /\ at = 0
  /\ sent = {} /\ resent = {}

(* get_sources finds the log by the record's path, which is the same for   *)
(* every head unit of the name, and not in the record of a creation that   *)
(* has not started one; the log is opened at its end.                      *)
OpenAtEnd ==
  IF log = Nothing \/ host = "creating"
  THEN UNCHANGED <<open, at>>
  ELSE open' = log /\ at' = lines[log]

(* A client opens the stream of an instance that is there.                 *)
OpenStream ==
  /\ tail = "none" /\ Listed
  /\ OpenAtEnd
  /\ tail' = "size"
  /\ UNCHANGED <<sent, resent>>

(* Variant: a file that ends where the reader stands was truncated.        *)
CheckSize_AtEqual ==
  /\ tail = "size"
  /\ at' = IF open # Nothing /\ log # Nothing /\ at >= lines[log] THEN 0 ELSE at
  /\ tail' = "read"
  /\ UNCHANGED <<open, sent, resent>>

(* A file of that name shorter than where the reader stands: back to the   *)
(* start - of the file it has open.                                        *)
CheckSize ==
  /\ tail = "size"
  /\ at' = IF open # Nothing /\ log # Nothing /\ at > lines[log] THEN 0 ELSE at
  /\ tail' = "read"
  /\ UNCHANGED <<open, sent, resent>>

(* What the open file holds from there on is sent.                         *)
ReadLines ==
  /\ tail = "read"
  /\ \/ /\ open = Nothing
        /\ UNCHANGED <<at, sent, resent>>
     \/ /\ open # Nothing
        /\ LET new == {open} \X ((at + 1)..lines[open]) IN
             /\ sent' = sent \cup new
             /\ resent' = resent \cup (new \cap sent)
        /\ at' = lines[open]
  /\ tail' = "rescan"
  /\ UNCHANGED open

(* Every five seconds the sources are looked up anew: the stream ends with *)
(* the record; a log not open yet is opened; an open one stays, its path   *)
(* is the same.                                                            *)
Rescan ==
  /\ tail = "rescan"
  /\ \/ tail' = "size" /\ UNCHANGED <<open, at>>
     \/ /\ tail' = IF Listed THEN "size" ELSE "ended"
        /\ IF Listed /\ open = Nothing THEN OpenAtEnd ELSE UNCHANGED <<open, at>>
  /\ UNCHANGED <<sent, resent>>

(* The client goes away.                                                   *)
CloseStream ==
  /\ tail \in {"size", "read", "rescan"}
  /\ tail' = "ended"
  /\ UNCHANGED <<open, at, sent, resent>>

StreamStep == OpenStream \/ CheckSize \/ ReadLines \/ Rescan \/ CloseStream

StreamTypeOK ==
  /\ tail \in {"none", "size", "read", "rescan", "ended"}
  /\ open \in 0..(MaxUnits + 1)
  /\ at \in 0..MaxLines
  /\ sent \subseteq Logs \X (1..MaxLines)
  /\ resent \subseteq sent

(* A line is sent again only when another log has taken the name of the    *)
(* one that is open: a restarted head unit whose log is still shorter      *)
(* makes tail() go back to the start of the old one, and send all of it    *)
(* at every poll.                                                          *)
OnlyReplacedRepeats ==
  [][resent' # resent => open # log]_streamVars
=============================================================================
