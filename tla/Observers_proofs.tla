-------------------------- MODULE Observers_proofs --------------------------
(***************************************************************************)
(* The safety of those who watch an instance, for any number of head       *)
(* units, captures, frames and lines.  The host, the captures and the log  *)
(* view have invariants of their own; the host's is used by both others,   *)
(* the captures act on the host by making a file of the pipe's name.       *)
(***************************************************************************)
EXTENDS Observers, TLAPS

(* A handler has a number left for the head unit it is to start; the log   *)
(* that has the name is no newer than the one that would be made now.      *)
HostInv ==
  /\ HostTypeOK
  /\ host \in {"creating", "killed", "removed"} => units < MaxUnits
  /\ host \in {"running", "killed", "made", "failed", "destroying"} => units > 0
  /\ log <= NextLog

(* The directory holds the frames that count and at most one more, none is *)
(* asked for beyond those a capture may have, and a thread that ended in   *)
(* time takes none after that: the video is what was counted.              *)
Counted(s) ==
  /\ s.stop # "answered" => s.count <= s.files /\ s.files <= s.count + 1
  /\ s.asked # {} => s.count < MaxFrames
  /\ s.stop \in {"joined", "stitched", "answered"} /\ ~ s.late =>
       s.loop \in {"none", "top", "ended"}
  /\ s.stop \notin {"stitched", "answered"} => s.video = 0
  /\ s.stop \in {"stitched", "answered"} /\ ~ s.late /\ s.video > 0 =>
       s.video \in {s.count, s.count + 1}

(* A session that is listed is in the table, or taken out by a stop; only  *)
(* a listed one has a thread or a directory.                               *)
Sound(c, s) ==
  /\ s.start \in {"listed", "answered"} => active = c \/ s.stop # "none"
  /\ active = c => s.start \in {"listed", "answered"} /\ s.stop = "none"
  /\ s.start = "new" => s.stop = "none"
  /\ s.loop # "none" => s.start = "answered"
  /\ s.loop \in {"open", "blocked", "poll"} => s.count < MaxFrames
  /\ s.loop = "blocked" => s.on \in Units
  /\ s.dir => active = c \/ s.stop \notin {"none", "answered"}
  /\ Counted(s)

CaptureInv ==
  /\ CaptureTypeOK
  /\ \A c \in Captures : Sound(c, session[c])

(* While the log that is open has the log's name, what was sent of it ends *)
(* where the reader stands; the log that would be made now is a newer one. *)
StreamInv ==
  /\ StreamTypeOK
  /\ open <= IF log = Nothing THEN NextLog - 1 ELSE log
  /\ tail = "none" => open = Nothing
  /\ open = Nothing => sent = {}
  /\ open # Nothing /\ open = log =>
       /\ at <= lines[open]
       /\ \A n \in 1..MaxLines : n > at => <<open, n>> \notin sent

-----------------------------------------------------------------------------
Files == [reads : 0..MaxUnits, writes : 0..(MaxUnits + 1)]

(* What a log is made for, and what a head unit is started with.           *)
LEMMA FilesTyped ==
  ASSUME HostInv
  PROVE  /\ NextLog \in Logs
         /\ \A n \in Units : LogAfter(n) \in Logs /\ PipeAfter(n) \in 1..RegularFile
         /\ \A p \in 0..RegularFile, l \in Logs : Started(p, l) \in Files
         /\ Dead \in Files
         /\ \A u \in Units : unit[u].writes # Nothing => unit[u].writes \in Logs
<1> USE HeadUnitAssumption DEF HostInv, HostTypeOK, Units, Nothing, RegularFile, Logs
<1>1. NextLog \in Logs
  BY DEF NextLog
<1>2. \A n \in Units : LogAfter(n) \in Logs /\ PipeAfter(n) \in 1..RegularFile
  BY DEF LogAfter, PipeAfter
<1>3. \A p \in 0..RegularFile, l \in Logs : Started(p, l) \in Files
  BY DEF Started, Files
<1>4. Dead \in Files
  BY DEF Dead, Files
<1>5. \A u \in Units : unit[u].writes # Nothing => unit[u].writes \in Logs
  <2>1. \A u \in Units : unit[u] \in Files
    BY DEF Files
  <2>2. \A f \in Files : f.writes \in 0..(MaxUnits + 1)
    BY DEF Files
  <2>3. \A n \in 0..(MaxUnits + 1) : n # Nothing => n \in Logs
    OBVIOUS
  <2> HIDE DEF HostInv, HostTypeOK, Units, Nothing, RegularFile, Logs
  <2> QED
    BY <2>1, <2>2, <2>3
<1> HIDE DEF HostInv, HostTypeOK, Units, Nothing, RegularFile, Logs
<1> QED
  BY <1>1, <1>2, <1>3, <1>4, <1>5

LEMMA OneMoreLine ==
  ASSUME HostInv, NEW l \in Logs, lines[l] < MaxLines,
         lines' = [lines EXCEPT ![l] = @ + 1]
  PROVE  /\ lines' \in [Logs -> 0..MaxLines]
         /\ \A k \in Logs : lines[k] <= lines'[k]
<1> DEFINE more == lines[l] + 1
<1>1. lines \in [Logs -> 0..MaxLines] /\ MaxLines \in Nat
  BY HeadUnitAssumption DEF HostInv, HostTypeOK
<1>2. more \in 0..MaxLines /\ lines[l] <= more
  BY <1>1
<1>3. lines' = [lines EXCEPT ![l] = more]
  OBVIOUS
<1> HIDE DEF more
<1> QED
  BY <1>1, <1>2, <1>3

LEMMA HostActsStep ==
  ASSUME HostInv, HostStep
  PROVE  HostInv'
<1>0. /\ NextLog \in Logs /\ Dead \in Files
      /\ \A n \in Units : LogAfter(n) \in Logs /\ PipeAfter(n) \in 1..RegularFile
      /\ \A p \in 0..RegularFile, l \in Logs : Started(p, l) \in Files
      /\ \A u \in Units : unit[u].writes # Nothing => unit[u].writes \in Logs
      /\ unit \in [Units -> Files]
  BY FilesTyped DEF HostInv, HostTypeOK, Files
<1> USE HeadUnitAssumption DEF Nothing
<1>a. /\ units \in 0..MaxUnits /\ path \in 0..RegularFile /\ log \in 0..(MaxUnits + 1)
      /\ lines \in [Logs -> 0..MaxLines] /\ ran \in BOOLEAN /\ log <= NextLog
  BY DEF HostInv, HostTypeOK
<1>b. ASSUME unit' \in [Units -> Files], units' \in 0..MaxUnits, log' <= NextLog',
             path' \in 0..RegularFile, log' \in 0..(MaxUnits + 1), ran' \in BOOLEAN,
             lines' \in [Logs -> 0..MaxLines],
             host' \in {"absent", "creating", "failed", "running", "killed",
                        "removed", "made", "destroying", "erased"},
             host' \in {"creating", "killed", "removed"} => units' < MaxUnits,
             host' \in {"running", "killed", "made", "failed", "destroying"} => units' > 0
      PROVE  HostInv'
  BY <1>b DEF HostInv, HostTypeOK, Files
<1>1. CASE Create \/ CreateFails
  <2>0. /\ host = "creating" /\ units < MaxUnits /\ host' \in {"running", "failed"}
        /\ ran' \in BOOLEAN /\ lines' = lines /\ NextLog = units + 1
    BY <1>1, <1>a DEF Create, CreateFails, HostInv, HostTypeOK, NextLog
  <2>1. units' = units + 1 /\ units' \in Units /\ path' = PipeAfter(units')
    BY <1>1, <1>a, <2>0 DEF Create, CreateFails, Units
  <2>2. log' \in {log, LogAfter(units')}
    BY <1>1 DEF Create, CreateFails
  <2>3. unit' = unit \/
          (log' = LogAfter(units') /\ unit' = [unit EXCEPT ![units'] = Started(path', log')])
    BY <1>1 DEF Create, CreateFails
  <2>4. path' \in 0..RegularFile /\ log' \in 0..(MaxUnits + 1)
    BY <1>0, <1>a, <2>1, <2>2 DEF Logs, RegularFile
  <2>5. unit' \in [Units -> Files]
    <3>1. LogAfter(units') \in Logs
      BY <1>0, <2>1
    <3>2. log' = LogAfter(units') => Started(path', log') \in Files
      BY <1>0, <2>4, <3>1
    <3> QED
      BY <1>0, <2>1, <2>3, <3>2
  <2>6. log' <= NextLog'
    BY <1>a, <2>0, <2>1, <2>2 DEF LogAfter, NextLog
  <2>7. units' \in 0..MaxUnits /\ units' > 0
    BY <2>1 DEF Units
  <2> QED
    BY <1>a, <1>b, <2>0, <2>4, <2>5, <2>6, <2>7
<1>2. CASE KillUnit \/ BeginDestroy
  <2>1. unit' \in [Units -> Files]
    BY <1>0, <1>2 DEF KillUnit, BeginDestroy, Kill
  <2>2. UNCHANGED <<ran, units, path, log, lines>> /\ host' \in {"killed", "destroying"}
        /\ host = "running" /\ (host' = "killed" => units < MaxUnits) /\ units > 0
    BY <1>2 DEF KillUnit, BeginDestroy, HostInv
  <2> QED
    BY <1>a, <1>b, <2>1, <2>2 DEF NextLog
<1>3. CASE RemoveFiles \/ EraseFiles
  BY <1>0, <1>3, <1>a, <1>b DEF RemoveFiles, EraseFiles, HostInv, NextLog, RegularFile
<1>4. CASE MakePipe
  <2>1. /\ units' = units + 1 /\ units' \in Units /\ path' = PipeAfter(units')
        /\ UNCHANGED <<ran, unit, log, lines>> /\ host' = "made"
        /\ NextLog = units + 1 /\ NextLog' = units + 1
    BY <1>4, <1>a DEF MakePipe, HostInv, Units, NextLog
  <2>2. path' \in 0..RegularFile
    BY <1>0, <2>1 DEF RegularFile
  <2> QED
    BY <1>0, <1>a, <1>b, <2>1, <2>2 DEF Units
<1>5. CASE SpawnUnit
  <2>1. /\ units \in Units /\ UNCHANGED <<ran, units, path, lines>> /\ host' = "running"
        /\ NextLog = units /\ NextLog' = units
    BY <1>5, <1>a DEF SpawnUnit, HostInv, Units, NextLog
  <2>2. log' \in {log, LogAfter(units)} /\ LogAfter(units) \in Logs
    BY <1>0, <1>5, <2>1 DEF SpawnUnit
  <2>3. unit' \in [Units -> Files]
    <3>1. LogAfter(units) \in Logs => Started(path, LogAfter(units)) \in Files
      BY <1>0, <1>a
    <3>2. unit' = unit \/ unit' = [unit EXCEPT ![units] = Started(path, LogAfter(units))]
      BY <1>5 DEF SpawnUnit
    <3> QED
      BY <1>0, <2>1, <2>2, <3>1, <3>2
  <2>4. log' <= units /\ log' \in 0..(MaxUnits + 1)
    BY <1>a, <2>1, <2>2 DEF LogAfter, Logs
  <2> QED
    BY <1>a, <1>b, <2>1, <2>3, <2>4 DEF Units
<1>6. CASE BeginCreate \/ RemoveRecord
  BY <1>0, <1>6, <1>a, <1>b DEF BeginCreate, RemoveRecord, HostInv, NextLog
<1>7. CASE UnitDies
  <2>1. unit' \in [Units -> Files]
    BY <1>0, <1>7 DEF UnitDies
  <2> QED
    BY <1>7, <1>a, <1>b, <2>1 DEF UnitDies, HostInv, HostTypeOK, NextLog
<1>8. CASE LogLine
  <2>1. PICK u \in Units :
          /\ unit[u].writes # Nothing /\ lines[unit[u].writes] < MaxLines
          /\ lines' = [lines EXCEPT ![unit[u].writes] = @ + 1]
    BY <1>8 DEF LogLine
  <2>2. lines' \in [Logs -> 0..MaxLines]
    BY <1>0, <2>1, OneMoreLine
  <2> QED
    BY <1>0, <1>8, <1>a, <1>b, <2>2 DEF LogLine, HostInv, HostTypeOK, NextLog
<1>9. CASE EchoLine
  <2>1. log' \in Logs /\ log' <= NextLog
    BY <1>0, <1>9, <1>a DEF EchoLine, LogAfter, Logs
  <2>2. lines' \in [Logs -> 0..MaxLines]
    BY <1>9, <2>1, OneMoreLine DEF EchoLine
  <2> QED
    BY <1>0, <1>9, <1>a, <1>b, <2>1, <2>2 DEF EchoLine, Logs, HostInv, HostTypeOK, NextLog
<1>10. CASE WritePipe
  BY <1>0, <1>10, <1>a, <1>b DEF WritePipe, RegularFile, HostInv, HostTypeOK, NextLog
<1> QED
  BY <1>1, <1>2, <1>3, <1>4, <1>5, <1>6, <1>7, <1>8, <1>9, <1>10 DEF HostStep

-----------------------------------------------------------------------------
(* One session changes, and the table does not.                            *)
LEMMA OneSession ==
  ASSUME CaptureInv, NEW c \in Captures, NEW s \in Session, Sound(c, s),
         active' = active, session' = [session EXCEPT ![c] = s]
  PROVE  CaptureInv'
  BY DEF CaptureInv, CaptureTypeOK, Sound, Counted

LEMMA SessionFields ==
  ASSUME CaptureInv, NEW c \in Captures
  PROVE  session[c] \in Session /\ Sound(c, session[c])
  BY DEF CaptureInv, CaptureTypeOK

LEMMA StartActs ==
  ASSUME CaptureInv, NEW c \in Captures, StartStep(c)
  PROVE  CaptureInv'
<1>0. session[c] \in Session /\ Sound(c, session[c])
  BY SessionFields
<1>1. CASE List(c) /\ active = NoCapture
  <2> DEFINE s == [session[c] EXCEPT !.start = "listed", !.dir = TRUE]
  <2>1. active' = c /\ session' = [session EXCEPT ![c] = s]
    BY <1>0, <1>1 DEF List, CaptureInv, CaptureTypeOK
  <2>2. s \in Session
    BY <1>0 DEF Session
  <2>3. Sound(c, session[c])'
    <3>1. session'[c] = s
      BY <2>1 DEF CaptureInv, CaptureTypeOK
    <3>2. /\ s.start = "listed" /\ s.dir = TRUE /\ s.loop = session[c].loop
          /\ s.count = session[c].count /\ s.on = session[c].on
          /\ s.stop = session[c].stop
      BY <1>0 DEF Session
    <3>3. session[c].start = "new" /\ session[c].stop = "none"
      BY <1>0, <1>1 DEF List, IsNextCall, Sound
    <3>4. Counted(s)
      BY <1>0 DEF Sound, Counted, Session
    <3> HIDE DEF s
    <3> QED
      BY <1>0, <2>1, <3>1, <3>2, <3>3, <3>4 DEF Sound
  <2>4. \A d \in Captures \ {c} : Sound(d, session[d])'
    BY <1>1, <2>1, CaptureAssumption
    DEF Sound, Counted, CaptureInv, CaptureTypeOK, Captures, NoCapture
  <2> QED
    BY <2>1, <2>2, <2>3, <2>4 DEF CaptureInv, CaptureTypeOK
<1>2. CASE List(c) /\ active # NoCapture
  <2> DEFINE s == [session[c] EXCEPT !.start = "refused"]
  <2>1. active' = active /\ session' = [session EXCEPT ![c] = s]
    BY <1>2 DEF List
  <2>2. s \in Session /\ Sound(c, s)
    BY <1>0, <1>2 DEF Session, Sound, Counted, List, IsNextCall
  <2> QED
    BY <2>1, <2>2, OneSession
<1>3. CASE StartThread(c)
  <2> DEFINE s == [session[c] EXCEPT !.start = "answered", !.loop = "top"]
  <2>1. active' = active /\ session' = [session EXCEPT ![c] = s]
    BY <1>3 DEF StartThread, CaptureInv, CaptureTypeOK
  <2>2. s \in Session /\ Sound(c, s)
    BY <1>0, <1>3 DEF Session, Sound, Counted, StartThread
  <2> QED
    BY <2>1, <2>2, OneSession
<1> QED
  BY <1>1, <1>2, <1>3 DEF StartStep

LEMMA LoopSteps ==
  ASSUME CaptureInv, NEW c \in Captures,
         \/ EndLoop(c) \/ NextFrame(c) \/ PollFrame(c) \/ Shoot(c)
         \/ StopStep(c)
  PROVE  CaptureInv'
<1>0. session[c] \in Session /\ Sound(c, session[c])
  BY SessionFields
<1>1. CASE EndLoop(c)
  <2> DEFINE s == [session[c] EXCEPT !.loop = "ended"]
  <2>1. active' = active /\ session' = [session EXCEPT ![c] = s]
    BY <1>1 DEF EndLoop
  <2>2. s \in Session /\ Sound(c, s)
    BY <1>0, <1>1 DEF Session, Sound, Counted, EndLoop
  <2> QED
    BY <2>1, <2>2, OneSession
<1>2. CASE NextFrame(c)
  <2> DEFINE s == [session[c] EXCEPT !.loop = "open", !.files = session[c].count]
  <2>1. active' = active /\ session' = [session EXCEPT ![c] = s]
    BY <1>2 DEF NextFrame, CaptureInv, CaptureTypeOK
  <2>2. session[c].count < MaxFrames
    BY <1>0, <1>2, CaptureAssumption DEF NextFrame, FrameLimit, Session
  <2>3. s \in Session
    BY <1>0 DEF Session
  <2>4. Counted(s)
    <3>1. session[c].count \in Nat
      BY <1>0, CaptureAssumption DEF Session
    <3>2. /\ s.count = session[c].count /\ s.files = session[c].count
          /\ s.stop = session[c].stop /\ s.asked = session[c].asked
          /\ s.loop = "open" /\ s.video = session[c].video
      BY <1>0 DEF Session
    <3>3. session[c].stop \in {"none", "popped"}
      BY <1>2 DEF NextFrame, Signalled
    <3> HIDE DEF s
    <3> QED
      BY <1>0, <3>1, <3>2, <3>3 DEF Sound, Counted
  <2>5. Sound(c, s)
    BY <1>0, <1>2, <2>2, <2>4 DEF Session, Sound, NextFrame
  <2> QED
    BY <2>1, <2>3, <2>5, OneSession
<1>3. CASE PollFrame(c)
  <2>1. PICK n \in {session[c].count, session[c].count + 1},
             a \in {{}, session[c].asked} :
          /\ active' = active
          /\ \/ n = session[c].count
             \/ session[c].files > session[c].count /\ a = {}
          /\ session' = [session EXCEPT ![c] =
               [session[c] EXCEPT !.loop = "top", !.count = n, !.asked = a]]
    <3>1. CASE /\ session[c].files > session[c].count
               /\ session' = [session EXCEPT ![c].loop = "top", ![c].count = @ + 1,
                                             ![c].asked = {}]
      BY <1>0, <1>3, <3>1 DEF PollFrame, CaptureInv, CaptureTypeOK, Session
    <3>2. CASE session' = [session EXCEPT ![c].loop = "top"]
      BY <1>0, <1>3, <3>2 DEF PollFrame, CaptureInv, CaptureTypeOK, Session
    <3> QED
      BY <1>3, <3>1, <3>2 DEF PollFrame
  <2> DEFINE s == [session[c] EXCEPT !.loop = "top", !.count = n, !.asked = a]
  <2>2. n \in 0..MaxFrames
    BY <1>0, <1>3, CaptureAssumption DEF Session, Sound, PollFrame
  <2>3. s \in Session
    BY <1>0, <2>2 DEF Session
  <2>4. Counted(s)
    <3>1. session[c].count \in Nat /\ session[c].files \in Nat
      BY <1>0, CaptureAssumption DEF Session
    <3>2. /\ s.count = n /\ s.loop = "top" /\ s.stop = session[c].stop
          /\ s.files = session[c].files /\ s.asked = a
          /\ s.late = session[c].late /\ s.video = session[c].video
      BY <1>0 DEF Session
    <3> HIDE DEF s
    <3>4. a # {} => n < MaxFrames
      BY <1>0, <2>1 DEF Sound, Counted
    <3> QED
      BY <1>0, <1>3, <2>1, <3>1, <3>2, <3>4 DEF Sound, Counted, PollFrame
  <2>5. Sound(c, s)
    BY <1>0, <1>3, <2>4 DEF Session, Sound, PollFrame
  <2> QED
    BY <2>1, <2>3, <2>5, OneSession
<1>4. CASE Shoot(c)
  <2>1. PICK u \in session[c].asked :
          session' = [session EXCEPT ![c].asked = @ \ {u},
                                     ![c].files = session[c].count + 1]
    BY <1>4 DEF Shoot
  <2> DEFINE f == session[c].count + 1
             s == [session[c] EXCEPT !.asked = session[c].asked \ {u}, !.files = f]
  <2>2. active' = active /\ session' = [session EXCEPT ![c] = s]
    BY <1>4, <2>1 DEF Shoot, CaptureInv, CaptureTypeOK
  <2>3. f \in 0..MaxFrames /\ session[c].count <= f /\ f <= session[c].count + 1
    BY <1>0, <2>1, CaptureAssumption DEF Session, Sound, Counted
  <2> HIDE DEF f
  <2>5. s \in Session /\ Sound(c, s)
    BY <1>0, <2>3 DEF Session, Sound, Counted
  <2> QED
    BY <2>2, <2>5, OneSession
<1>5. CASE SetEvent(c)
  <2> DEFINE s == [session[c] EXCEPT !.stop = "signalled"]
  <2>1. active' = active /\ session' = [session EXCEPT ![c] = s]
    BY <1>5 DEF SetEvent
  <2>2. s \in Session /\ Sound(c, s)
    BY <1>0, <1>5 DEF Session, Sound, Counted, SetEvent
  <2> QED
    BY <2>1, <2>2, OneSession
<1>6. CASE Join(c)
  <2> DEFINE l == session[c].loop = "blocked"
             s == [session[c] EXCEPT !.stop = "joined", !.late = l]
  <2>1. active' = active /\ session' = [session EXCEPT ![c] = s]
    BY <1>6 DEF Join, CaptureInv, CaptureTypeOK
  <2>2. l \in BOOLEAN /\ (~ l => session[c].loop \in {"none", "ended"})
    BY <1>6 DEF Join
  <2> HIDE DEF l
  <2>3. s \in Session /\ Sound(c, s)
    BY <1>0, <1>6, <2>2 DEF Session, Sound, Counted, Join
  <2> QED
    BY <2>1, <2>3, OneSession
<1>7. CASE Stitch(c)
  <2>1. PICK v \in {0, session[c].files} :
          /\ active' = active
          /\ session' = [session EXCEPT ![c].stop = "stitched", ![c].video = v,
                                        ![c].asked = {}]
    BY <1>7 DEF Stitch
  <2> DEFINE none == {}
             s == [session[c] EXCEPT !.stop = "stitched", !.video = v, !.asked = none]
  <2>2. active' = active /\ session' = [session EXCEPT ![c] = s]
    BY <2>1 DEF CaptureInv, CaptureTypeOK
  <2>3. none \in SUBSET Units /\ none = {} /\ v \in 0..MaxFrames
    BY <1>0, CaptureAssumption DEF Session
  <2> HIDE DEF none
  <2>4. s \in Session
    BY <1>0, <2>3 DEF Session
  <2>5. Counted(s)
    <3>1. /\ session[c].count \in Nat /\ session[c].files \in Nat
          /\ session[c].stop = "joined" /\ session[c].video = 0
      BY <1>0, <1>7, CaptureAssumption DEF Session, Sound, Counted, Stitch
    <3>2. session[c].files \in {session[c].count, session[c].count + 1}
      BY <1>0, <3>1 DEF Sound, Counted
    <3>3. /\ s.count = session[c].count /\ s.loop = session[c].loop
          /\ s.stop = "stitched" /\ s.video = v
          /\ s.files = session[c].files /\ s.asked = none
          /\ s.late = session[c].late
      BY <1>0 DEF Session
    <3> HIDE DEF s
    <3> QED
      BY <1>0, <2>1, <2>3, <3>1, <3>2, <3>3 DEF Sound, Counted
  <2>6. Sound(c, s)
    BY <1>0, <1>7, <2>5 DEF Session, Sound, Stitch
  <2> QED
    BY <2>2, <2>4, <2>6, OneSession
<1>8. CASE CleanUp(c)
  <2> DEFINE gone == {}
             s == [session[c] EXCEPT !.stop = "answered", !.dir = FALSE,
                                     !.files = 0, !.asked = gone]
  <2>1. active' = active /\ session' = [session EXCEPT ![c] = s]
    BY <1>8 DEF CleanUp, CaptureInv, CaptureTypeOK
  <2>2. gone \in SUBSET Units /\ 0 \in 0..MaxFrames /\ gone = {}
    BY CaptureAssumption
  <2> HIDE DEF gone
  <2>3. s \in Session
    BY <1>0, <2>2 DEF Session
  <2>4. Sound(c, s)
    BY <1>0, <1>8, <2>2 DEF Session, Sound, Counted, CleanUp
  <2> QED
    BY <2>1, <2>3, <2>4, OneSession
<1> QED
  BY <1>1, <1>2, <1>3, <1>4, <1>5, <1>6, <1>7, <1>8 DEF StopStep

(* What the stop has taken out of the table it will signal.                *)
LEMMA PopActs ==
  ASSUME CaptureInv, PopSession
  PROVE  CaptureInv'
<1>1. active \in Captures
  BY DEF PopSession, CaptureInv, CaptureTypeOK
<1> DEFINE s == [session[active] EXCEPT !.stop = "popped"]
<1>2. session[active] \in Session /\ Sound(active, session[active])
  BY <1>1, SessionFields
<1>3. active' = NoCapture /\ session' = [session EXCEPT ![active] = s]
  BY DEF PopSession
<1>4. s \in Session
  BY <1>2 DEF Session
<1>5. CaptureTypeOK'
  BY <1>3, <1>4 DEF CaptureInv, CaptureTypeOK
<1>6. ASSUME NEW c \in Captures
      PROVE  Sound(c, session[c])'
  <2>1. CASE c = active
    <3>1. session'[c] = s
      BY <1>1, <1>3, <2>1 DEF CaptureInv, CaptureTypeOK
    <3>2. session[active].stop = "none" /\ c # NoCapture
      BY <1>1, <1>2 DEF Sound, Captures, NoCapture
    <3>3. Counted(s)
      BY <1>2, <3>2 DEF Sound, Counted, Session
    <3>4. session[active].start # "new"
      BY <1>2 DEF Sound
    <3>5. /\ s.start = session[active].start /\ s.dir = session[active].dir
          /\ s.loop = session[active].loop /\ s.on = session[active].on
          /\ s.count = session[active].count /\ s.stop = "popped"
      BY <1>2 DEF Session
    <3> HIDE DEF s
    <3> QED
      BY <1>2, <1>3, <2>1, <3>1, <3>2, <3>3, <3>4, <3>5 DEF Sound
  <2>2. CASE c # active
    <3>1. session'[c] = session[c]
      BY <1>1, <1>3, <2>2 DEF CaptureInv, CaptureTypeOK
    <3>2. c # NoCapture
      BY DEF Captures, NoCapture
    <3> QED
      BY <1>3, <2>2, <3>1, <3>2 DEF CaptureInv, Sound
  <2> QED
    BY <2>1, <2>2
<1> QED
  BY <1>5, <1>6 DEF CaptureInv

LEMMA AskActs ==
  ASSUME CaptureInv, NEW c \in Captures, NEW u \in Units, Ask(c, u),
         active' = active, session[c].loop \in {"open", "blocked"}
  PROVE  CaptureInv'
<1>0. session[c] \in Session /\ Sound(c, session[c])
  BY SessionFields
<1> DEFINE a == {q \in session[c].asked \cup {u} : unit[q] # Dead /\ session[c].dir}
           s == [session[c] EXCEPT !.loop = "poll", !.on = Nothing, !.asked = a]
<1>1. session' = [session EXCEPT ![c] = s]
  BY DEF Ask, CaptureInv, CaptureTypeOK
<1>2. session[c].count < MaxFrames
  BY <1>0 DEF Sound, Counted
<1>3. a \in SUBSET Units
  BY <1>0 DEF Session
<1>4. Nothing \in 0..MaxUnits
  BY HeadUnitAssumption DEF Nothing
<1> HIDE DEF a
<1>5. s \in Session
  BY <1>0, <1>3, <1>4 DEF Session
<1>6. Sound(c, s)
  BY <1>0, <1>2 DEF Sound, Counted, Session
<1> QED
  BY <1>1, <1>5, <1>6, OneSession

(* open(): the pipe is read, or nobody reads it, or it is no pipe.         *)
LEMMA PipeActs ==
  ASSUME HostInv, CaptureInv, NEW c \in Captures,
         OpenPipe(c) \/ (PipeOpens(c) /\ UNCHANGED hostVars)
  PROVE  HostInv' /\ CaptureInv'
<1>0. session[c] \in Session /\ Sound(c, session[c])
  BY SessionFields
<1>1. HostInv'
  BY HeadUnitAssumption
  DEF OpenPipe, HostInv, HostTypeOK, hostVars, RegularFile, Units, NextLog
<1>2. CASE PipeOpens(c)
  <2>1. PICK u \in Units : Ask(c, u)
    BY <1>2 DEF PipeOpens, Readers
  <2> QED
    BY <1>1, <1>2, <2>1, AskActs DEF PipeOpens
<1>3. CASE OpenPipe(c) /\ \E u \in Readers(path) : Ask(c, u)
  <2>1. PICK u \in Units : Ask(c, u)
    BY <1>3 DEF Readers
  <2> QED
    BY <1>1, <1>3, <2>1, AskActs DEF OpenPipe
<1>4. CASE /\ OpenPipe(c) /\ path \in Units
           /\ session' = [session EXCEPT ![c].loop = "blocked", ![c].on = path]
  <2> DEFINE s == [session[c] EXCEPT !.loop = "blocked", !.on = path]
  <2>1. active' = active /\ session' = [session EXCEPT ![c] = s]
    BY <1>4 DEF OpenPipe, CaptureInv, CaptureTypeOK
  <2>2. path \in 0..MaxUnits
    BY <1>4, HeadUnitAssumption DEF Units
  <2>3. s \in Session
    BY <1>0, <2>2 DEF Session
  <2>4. Sound(c, s)
    BY <1>0, <1>4 DEF Session, Sound, Counted, OpenPipe
  <2> QED
    BY <1>1, <2>1, <2>3, <2>4, OneSession
<1>5. CASE OpenPipe(c) /\ session' = [session EXCEPT ![c].loop = "poll"]
  <2> DEFINE s == [session[c] EXCEPT !.loop = "poll"]
  <2>1. active' = active /\ session' = [session EXCEPT ![c] = s]
    BY <1>5 DEF OpenPipe
  <2>2. s \in Session /\ Sound(c, s)
    BY <1>0, <1>5 DEF Session, Sound, Counted, OpenPipe
  <2> QED
    BY <1>1, <2>1, <2>2, OneSession
<1> QED
  BY <1>2, <1>3, <1>4, <1>5 DEF OpenPipe

-----------------------------------------------------------------------------
(* A new log is none that the reader has open.                             *)
LEMMA HostUnderStream ==
  ASSUME HostInv, StreamInv, HostStep, UNCHANGED streamVars
  PROVE  StreamInv'
<1> USE HeadUnitAssumption DEF Nothing
<1>1. UNCHANGED <<tail, open, at, sent, resent>> /\ open \in Nat /\ units \in Nat
      /\ log \in Nat /\ NextLog \in Nat
  BY DEF streamVars, StreamInv, StreamTypeOK, HostInv, HostTypeOK, NextLog
<1>2. ASSUME UNCHANGED lines,
             log' = log \/ (log = Nothing /\ log' >= NextLog) \/ log' = Nothing,
             open <= IF log' = Nothing THEN NextLog' - 1 ELSE log'
      PROVE  StreamInv'
  BY <1>1, <1>2 DEF StreamInv, StreamTypeOK
<1>3. ASSUME NEW l \in Logs, lines[l] < MaxLines, lines' = [lines EXCEPT ![l] = @ + 1],
             log' \in Nat, log' = log \/ (log = Nothing /\ log' >= NextLog),
             NextLog' = NextLog
      PROVE  StreamInv'
  <2>1. \A k \in Logs : lines[k] <= lines'[k]
    BY <1>3, OneMoreLine
  <2>2. lines \in [Logs -> 0..MaxLines] /\ lines' \in [Logs -> 0..MaxLines] /\ MaxLines \in Nat
    BY <1>3, OneMoreLine DEF HostInv, HostTypeOK
  <2>3. open # Nothing => open \in Logs
    BY DEF StreamInv, StreamTypeOK, Logs
  <2>4. open # Nothing /\ open = log' => open = log
    BY <1>1, <1>3 DEF StreamInv
  <2>5. open # Nothing /\ open = log' => at <= lines'[open]
    <3>1. open # Nothing => lines[open] \in Nat /\ lines'[open] \in Nat
      BY <2>2, <2>3
    <3> QED
      BY <2>1, <2>2, <2>3, <2>4, <3>1 DEF StreamInv, StreamTypeOK
  <2>6. open <= IF log' = Nothing THEN NextLog' - 1 ELSE log'
    <3>1. open <= IF log = Nothing THEN NextLog - 1 ELSE log
      BY DEF StreamInv
    <3>2. NextLog \in Logs
      BY FilesTyped
    <3> QED
      BY <1>1, <1>3, <3>1, <3>2 DEF Logs
  <2> QED
    BY <1>1, <2>4, <2>5, <2>6 DEF StreamInv, StreamTypeOK
<1> USE DEF HostInv, HostTypeOK, NextLog
<1>4. CASE BeginCreate \/ KillUnit \/ BeginDestroy \/ UnitDies \/ WritePipe
  BY <1>1, <1>2, <1>4 DEF BeginCreate, KillUnit, BeginDestroy, UnitDies, WritePipe, StreamInv
<1>5. CASE Create
  <2>1. /\ units' = units + 1 /\ log' = LogAfter(units') /\ UNCHANGED lines
        /\ host = "creating" /\ host' = "running"
    BY <1>5 DEF Create
  <2> QED
    BY <1>1, <1>2, <2>1 DEF LogAfter, StreamInv
<1>6. CASE CreateFails
  <2>1. /\ units' = units + 1 /\ log' \in {log, LogAfter(units')} /\ UNCHANGED lines
        /\ host = "creating" /\ host' = "failed"
    BY <1>6 DEF CreateFails
  <2> QED
    BY <1>1, <1>2, <2>1 DEF LogAfter, StreamInv
<1>7. CASE RemoveFiles \/ EraseFiles
  BY <1>1, <1>2, <1>7 DEF RemoveFiles, EraseFiles, StreamInv
<1>8. CASE MakePipe
  BY <1>1, <1>2, <1>8 DEF MakePipe, StreamInv
<1>9. CASE SpawnUnit
  <2>1. /\ units' = units /\ log' \in {log, LogAfter(units)} /\ UNCHANGED lines
        /\ host = "made" /\ host' = "running"
    BY <1>9 DEF SpawnUnit
  <2> QED
    BY <1>1, <1>2, <2>1 DEF LogAfter, StreamInv
<1>10. CASE RemoveRecord
  BY <1>1, <1>2, <1>10 DEF RemoveRecord, StreamInv
<1>11. CASE LogLine
  <2>1. PICK u \in Units :
          /\ unit[u].writes # Nothing /\ lines[unit[u].writes] < MaxLines
          /\ lines' = [lines EXCEPT ![unit[u].writes] = @ + 1]
    BY <1>11 DEF LogLine
  <2>2. unit[u].writes \in Logs
    BY <2>1, FilesTyped
  <2> QED
    BY <1>1, <1>3, <1>11, <2>1, <2>2 DEF LogLine
<1>12. CASE EchoLine
  <2>1. log' \in Logs
    BY <1>12, FilesTyped DEF EchoLine, LogAfter, Logs
  <2>2. log' = log \/ (log = Nothing /\ log' >= NextLog)
    BY <1>1, <1>12 DEF EchoLine, LogAfter
  <2>3. log' \in Nat
    BY <2>1 DEF Logs
  <2> QED
    BY <1>3, <1>12, <2>1, <2>2, <2>3 DEF EchoLine
<1> QED
  BY <1>4, <1>5, <1>6, <1>7, <1>8, <1>9, <1>10, <1>11, <1>12 DEF HostStep

LEMMA StreamActsStep ==
  ASSUME HostInv, StreamInv, StreamStep, UNCHANGED hostVars
  PROVE  /\ StreamInv'
         /\ resent' # resent => open # log
<1> USE HeadUnitAssumption
    DEF HostInv, HostTypeOK, StreamInv, StreamTypeOK, hostVars, Logs, Nothing, NextLog
<1>1. CASE OpenStream
  BY <1>1 DEF OpenStream, OpenAtEnd
<1>2. CASE CheckSize
  BY <1>2 DEF CheckSize
<1>3. CASE ReadLines /\ open = Nothing
  BY <1>3 DEF ReadLines
<1>6. CASE ReadLines /\ open # Nothing
  <2> DEFINE new == {open} \X ((at + 1)..lines[open])
  <2>1. /\ sent' = sent \cup new /\ resent' = resent \cup (new \cap sent)
        /\ at' = lines[open] /\ tail' = "rescan" /\ open' = open
    BY <1>6 DEF ReadLines
  <2>2. /\ open \in Logs /\ lines[open] \in 0..MaxLines /\ at \in 0..MaxLines
        /\ MaxLines \in Nat
    BY <1>6
  <2>3. /\ new \subseteq Logs \X (1..MaxLines)
        /\ \A n \in 1..MaxLines : <<open, n>> \in new => n <= lines[open]
    BY <2>2
  <2>4. open = log => new \cap sent = {} /\ at <= lines[open]
    BY <1>6, <2>2
  <2> HIDE DEF new
  <2>5. StreamTypeOK'
    BY <2>1, <2>2, <2>3
  <2>6. ASSUME open = log
        PROVE  \A n \in 1..MaxLines : n > lines[open] => <<open, n>> \notin sent'
    BY <1>6, <2>1, <2>2, <2>3, <2>4, <2>6
  <2> QED
    BY <1>6, <2>1, <2>2, <2>4, <2>5, <2>6
<1>4. CASE Rescan
  BY <1>4 DEF Rescan, OpenAtEnd
<1>5. CASE CloseStream
  BY <1>5 DEF CloseStream
<1> QED
  BY <1>1, <1>2, <1>3, <1>4, <1>5, <1>6 DEF StreamStep
-----------------------------------------------------------------------------
ObserversInv ==
  /\ watching \in Watchings
  /\ HostInv
  /\ CaptureInv
  /\ StreamInv

LEMMA ObserversInitial == Init => ObserversInv
<1> SUFFICES ASSUME Init
             PROVE  ObserversInv
  OBVIOUS
<1> USE HeadUnitAssumption, CaptureAssumption DEF Init
<1>1. HostInv
  <2>1. Dead \in [reads : 0..MaxUnits, writes : 0..(MaxUnits + 1)]
    BY DEF Dead, Nothing
  <2>2. unit \in [Units -> [reads : 0..MaxUnits, writes : 0..(MaxUnits + 1)]]
    BY <2>1 DEF HostInit
  <2>3. lines \in [Logs -> 0..MaxLines]
    BY DEF HostInit
  <2> QED
    <3>1. NextLog = 1 /\ log = 0 /\ units = 0 /\ path = 0 /\ host = "absent"
          /\ ran = FALSE
      BY DEF HostInit, NextLog, Nothing
    <3>2. /\ units \in 0..MaxUnits /\ path \in 0..(MaxUnits + 1)
          /\ log \in 0..(MaxUnits + 1) /\ log <= NextLog
      BY <3>1
    <3>3. ran \in BOOLEAN
      BY <3>1
    <3> HIDE DEF Init
    <3>4. HostTypeOK
      BY <2>2, <2>3, <3>1, <3>2, <3>3 DEF HostTypeOK, RegularFile
    <3> QED
      BY <3>1, <3>2, <3>4 DEF HostInv
<1>2. NewSession \in Session
  <2> DEFINE nothing == {}
  <2>1. nothing \in SUBSET Units
        /\ 0 \in 0..MaxFrames /\ 0 \in 0..MaxUnits
    OBVIOUS
  <2>2. NewSession =
          [start |-> "new", loop |-> "none", stop |-> "none", on |-> 0,
           asked |-> nothing, count |-> 0, files |-> 0, dir |-> FALSE,
           late |-> FALSE, video |-> 0]
    BY DEF NewSession, Nothing
  <2> HIDE DEF nothing
  <2> QED
    BY <2>1, <2>2 DEF Session
<1>3. \A c \in Captures : CaptureInit => Sound(c, NewSession)
  <2>1. NoCapture \notin Captures
    BY DEF Captures, NoCapture
  <2> QED
    BY <2>1 DEF NewSession, CaptureInit, Sound, Counted
<1>4. CaptureInv
  BY <1>2, <1>3 DEF CaptureInit, CaptureInv, CaptureTypeOK
<1>5. StreamInv
  BY DEF StreamInit, HostInit, StreamInv, StreamTypeOK, Nothing, NextLog
<1> QED
  BY <1>1, <1>4, <1>5 DEF ObserversInv

LEMMA Undisturbed ==
  /\ HostInv /\ UNCHANGED hostVars => HostInv'
  /\ CaptureInv /\ UNCHANGED captureVars => CaptureInv'
  /\ StreamInv /\ UNCHANGED streamVars /\ UNCHANGED <<host, units, log, lines>>
       => StreamInv'
<1>1. HostInv /\ UNCHANGED hostVars => HostInv'
  BY DEF HostInv, HostTypeOK, hostVars, NextLog
<1>2. CaptureInv /\ UNCHANGED captureVars => CaptureInv'
  BY DEF CaptureInv, CaptureTypeOK, Sound, Counted, captureVars
<1>3. StreamInv /\ UNCHANGED streamVars /\ UNCHANGED <<host, units, log, lines>>
        => StreamInv'
  BY DEF StreamInv, StreamTypeOK, streamVars, NextLog
<1> QED
  BY <1>1, <1>2, <1>3

(* Each part's steps keep its invariant; what is left alone keeps its own. *)
LEMMA ObserversStep ==
  ASSUME ObserversInv, [Next]_vars
  PROVE  /\ ObserversInv'
         /\ [resent' # resent => open # log]_streamVars
<1> USE DEF ObserversInv
<1>1. CASE HostActs
  BY <1>1, HostActsStep, HostUnderStream, Undisturbed DEF HostActs
<1>2. ASSUME NEW c \in Captures, LoopActs(c)
      PROVE  ObserversInv' /\ UNCHANGED streamVars
  <2>1. UNCHANGED streamVars /\ watching' = watching
    BY <1>2 DEF LoopActs
  <2>2. UNCHANGED <<host, units, log, lines>>
    BY <1>2 DEF LoopActs, OpenPipe, hostVars
  <2>3. StreamInv'
    BY <2>1, <2>2, Undisturbed
  <2>4. CASE OpenPipe(c) \/ (PipeOpens(c) /\ UNCHANGED hostVars)
    BY <2>1, <2>3, <2>4, PipeActs
  <2>5. CASE /\ EndLoop(c) \/ NextFrame(c) \/ PollFrame(c)
             /\ UNCHANGED hostVars
    BY <2>1, <2>3, <2>5, LoopSteps, Undisturbed
  <2> QED
    BY <1>2, <2>1, <2>4, <2>5 DEF LoopActs
<1>3. ASSUME NEW c \in Captures, StopActs(c)
      PROVE  ObserversInv' /\ UNCHANGED streamVars
  <2>1. /\ StopStep(c) /\ UNCHANGED streamVars /\ watching' = watching
        /\ UNCHANGED hostVars /\ UNCHANGED <<host, units, log, lines>>
    BY <1>3 DEF StopActs, hostVars
  <2> QED
    BY <2>1, LoopSteps, Undisturbed
<1>4. CASE VideoActs
  <2>1. /\ UNCHANGED streamVars /\ watching' = watching
        /\ UNCHANGED hostVars /\ UNCHANGED <<host, units, log, lines>>
    BY <1>4 DEF VideoActs, hostVars
  <2>2. CaptureInv'
    BY <1>4, StartActs, LoopSteps, PopActs DEF VideoActs
  <2> QED
    BY <2>1, <2>2, Undisturbed
<1>5. CASE StreamActs
  BY <1>5, StreamActsStep, Undisturbed DEF StreamActs
<1>6. CASE UNCHANGED vars
  BY <1>6, Undisturbed DEF vars, hostVars
<1> QED
  BY <1>1, <1>2, <1>3, <1>4, <1>5, <1>6 DEF Next, HostActs

LEMMA ObserversInductive == Spec => []ObserversInv
  BY ObserversInitial, ObserversStep, PTL DEF Spec

-----------------------------------------------------------------------------
(* The variables of host, captures and log view have their types.          *)
THEOREM ObserversTyped == Spec => []TypeOK
<1>1. ObserversInv => TypeOK
  BY DEF ObserversInv, HostInv, CaptureInv, StreamInv, TypeOK
<1> QED
  BY <1>1, ObserversInductive, PTL

(* Of two capture threads of an instance that are at work on a frame one   *)
(* is being stopped, or was left behind by a stop, over any number of      *)
(* restarts, failed creations and removals of the instance                 *)
(* (video_capture.py, start() and stop() outside their lock).              *)
THEOREM OneCaptureFilmsCorrect == Spec => []OneCaptureFilms
<1>1. ASSUME ObserversInv
      PROVE  OneCaptureFilms
  <2>1. ASSUME NEW c \in Captures, active # c, Filming(c)
        PROVE  BeingStopped(c)
    <3>1. session[c] \in Session /\ Sound(c, session[c])
      BY <1>1, SessionFields DEF ObserversInv
    <3> QED
      BY <2>1, <3>1 DEF Session, Sound, Counted, Filming, BeingStopped
  <2> QED
    BY <2>1 DEF OneCaptureFilms
<1> QED
  BY <1>1, ObserversInductive, PTL

(* Every directory of frames that nobody has asked rmtree() to remove      *)
(* belongs to a session in the table, or to a stop at work.                *)
THEOREM DirectoriesGo == Spec => []NoDirectoryIsLeft
<1>1. ObserversInv => NoDirectoryIsLeft
  BY DEF ObserversInv, CaptureInv, Sound, Counted, NoDirectoryIsLeft
<1> QED
  BY <1>1, ObserversInductive, PTL

(* The frame count of a stopped capture is that of its video, or one less, *)
(* for any number of captures and frames, and of restarts of the head unit *)
(* that is filmed: the thread's count, the files it removes and those the  *)
(* head unit still writes never drift apart (video_capture.py).            *)
THEOREM CountIsVideoCorrect == Spec => []CountIsVideo
<1>1. ObserversInv => CountIsVideo
  BY DEF ObserversInv, CaptureInv, Sound, Counted, CountIsVideo
<1> QED
  BY <1>1, ObserversInductive, PTL

(* A log view repeats lines only of a log that has lost its name           *)
(* (log_collector.py, the size of the name's file).                        *)
THEOREM OneLogIsSentOnce == Spec => OnlyReplacedRepeats
<1>1. ObserversInv /\ [Next]_vars => [resent' # resent => open # log]_streamVars
  BY ObserversStep
<1> QED
  BY <1>1, ObserversInductive, PTL DEF Spec, OnlyReplacedRepeats
=============================================================================
