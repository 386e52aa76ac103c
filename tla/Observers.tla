------------------------------ MODULE Observers -----------------------------
(***************************************************************************)
(* Those who watch an instance while it is created, restarted and          *)
(* destroyed: video captures and a live log view, each over the same host. *)
(***************************************************************************)
EXTENDS VideoCapture, LogStream

CONSTANT Watchings  \* what goes on beside the host: "video", "log"

ASSUME WatchAssumption == Watchings \subseteq SUBSET {"video", "log"}

VARIABLE watching

vars == <<watching, hostVars, captureVars, streamVars>>

Init ==
  /\ watching \in Watchings
  /\ HostInit
  /\ CaptureInit
  /\ StreamInit

(* Nobody looks at the log of a head unit that is only filmed - one that   *)
(* is not started is for the pipe one that dies -, or at the pipe of one   *)
(* whose log is read.                                                      *)
HostActs ==
  /\ HostStep
  /\ "log" \notin watching =>
       ~ (LogLine \/ EchoLine) /\ (host' \in {"failed", "running"} => log' # Nothing)
  /\ "video" \notin watching => ~ WritePipe
  /\ UNCHANGED <<watching, captureVars, streamVars>>

(* The thread of a capture; it may make a file of the pipe's name.         *)
LoopActs(c) ==
  /\ "video" \in watching
  /\ \/ OpenPipe(c)
     \/ /\ EndLoop(c) \/ NextFrame(c) \/ PipeOpens(c) \/ PollFrame(c)
        /\ UNCHANGED hostVars
  /\ UNCHANGED <<watching, streamVars>>

StopActs(c) ==
  /\ "video" \in watching
  /\ StopStep(c)
  /\ UNCHANGED <<watching, hostVars, streamVars>>

VideoActs ==
  /\ "video" \in watching
  /\ \/ \E c \in Captures : StartStep(c) \/ Shoot(c)
     \/ PopSession
  /\ UNCHANGED <<watching, hostVars, streamVars>>

StreamActs ==
  /\ "log" \in watching
  /\ StreamStep
  /\ UNCHANGED <<watching, hostVars, captureVars>>

Next ==
  \/ HostActs
  \/ \E c \in Captures : LoopActs(c) \/ StopActs(c)
  \/ VideoActs
  \/ StreamActs

Spec == Init /\ [][Next]_vars

(* Threads run; an open() that hangs is not asked to return.               *)
Fairness == \A c \in Captures : WF_vars(LoopActs(c)) /\ WF_vars(StopActs(c))

FairSpec == Spec /\ Fairness

TypeOK ==
  /\ watching \in Watchings
  /\ HostTypeOK
  /\ CaptureTypeOK
  /\ StreamTypeOK
=============================================================================
