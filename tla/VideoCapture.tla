---------------------------- MODULE VideoCapture ----------------------------
(***************************************************************************)
(* Video capture of a head unit: VideoCaptureManager                       *)
(* (instance_manager/src/video_capture.py) and the RPCs StartVideoCapture  *)
(* and StopVideoCapture.                                                   *)
(*                                                                         *)
(* Every StartVideoCapture call has a session of its own, with a thread    *)
(* that asks the head unit for one frame after the other through its pipe. *)
(* open() of a pipe nobody reads does not return; open() of a name nothing *)
(* has creates a file.  stop() takes the session from the table, sets its  *)
(* event, waits ten seconds for the thread, and stitches what it finds.    *)
(***************************************************************************)
EXTENDS HeadUnit

CONSTANTS
  MaxCaptures,  \* bound: StartVideoCapture calls
  MaxFrames     \* bound: frames of the first capture

ASSUME CaptureAssumption ==
  MaxCaptures \in Nat \ {0} /\ MaxFrames \in Nat \ {0}

VARIABLES
  active,   \* _sessions, for the one name
  session   \* CaptureSession and the calls that have it, by capture

captureVars == <<active, session>>

(* The calls, in the order in which they get the manager's lock.            *)
Captures == 1..MaxCaptures
NoCapture == 0

Session ==
  [start : {"new", "listed", "answered", "refused"},
   loop : {"none", "top", "open", "blocked", "poll", "ended"},
   stop : {"none", "popped", "signalled", "joined", "stitched", "answered"},
   on : 0..MaxUnits,                             \* the pipe open() waits for
   asked : SUBSET Units,                         \* asked for the next frame
   count : 0..MaxFrames,                         \* frame_count
   files : 0..MaxFrames,                         \* frames in the directory
   dir : BOOLEAN,                                \* made, and not removed yet
   late : BOOLEAN,                               \* history: join() timed out
   video : 0..MaxFrames]                         \* frames stitched

NewSession ==
  [start |-> "new", loop |-> "none", stop |-> "none", on |-> Nothing,
   asked |-> {}, count |-> 0, files |-> 0, dir |-> FALSE, late |-> FALSE,
   video |-> 0]

CaptureInit ==
  /\ active = NoCapture
  /\ session = [c \in Captures |-> NewSession]

-----------------------------------------------------------------------------
(* StartVideoCapture wants a RUNNING record, StopVideoCapture any.  Either *)
(* goes on with what it saw: nothing that happens to the record between    *)
(* the look and the manager's lock makes a difference, and they are one    *)
(* step here.                                                              *)
RecordRuns == host \in {"running", "killed", "removed", "made"}

IsNextCall(c) ==
  /\ session[c].start = "new"
  /\ \A d \in 1..(c - 1) : session[d].start # "new"

(* Variant: a session in the table is replaced.                            *)
List_Replaces(c) ==
  /\ RecordRuns /\ IsNextCall(c)
  /\ active' = c
  /\ session' = [session EXCEPT ![c].start = "listed", ![c].dir = TRUE]

(* StartVideoCapture, under the manager's lock: a name that has a session  *)
(* is refused; otherwise a directory is made and the session put in the    *)
(* table.                                                                  *)
List(c) ==
  /\ RecordRuns /\ IsNextCall(c)
  /\ \/ /\ active = NoCapture
        /\ active' = c
        /\ session' = [session EXCEPT ![c].start = "listed", ![c].dir = TRUE]
     \/ /\ active # NoCapture
        /\ session' = [session EXCEPT ![c].start = "refused"]
        /\ UNCHANGED active

(* Out of the lock: the thread is started.                                 *)
StartThread(c) ==
  /\ session[c].start = "listed"
  /\ session' = [session EXCEPT ![c].start = "answered", ![c].loop = "top"]
  /\ UNCHANGED active

-----------------------------------------------------------------------------
Signalled(c) == session[c].stop \notin {"none", "popped"}

(* _capture_loop: the event is set, or max_duration_s has passed.          *)
EndLoop(c) ==
  /\ session[c].loop = "top"
  /\ session' = [session EXCEPT ![c].loop = "ended"]
  /\ UNCHANGED active

(* Bound: the captures after the first are short.                          *)
FrameLimit(c) == IF c = 1 THEN MaxFrames ELSE 1

(* The next frame's file is removed, if an earlier request has left one.   *)
NextFrame(c) ==
  /\ session[c].loop = "top" /\ ~ Signalled(c) /\ session[c].count < FrameLimit(c)
  /\ session' = [session EXCEPT ![c].loop = "open",
                                ![c].files = session[c].count]
  /\ UNCHANGED active

(* The command is in the pipe, and the thread polls for the frame.  What a *)
(* head unit gone by now was asked for never comes, nor does a frame for a *)
(* directory that is gone.                                                 *)
Ask(c, u) ==
  session' = [session EXCEPT
    ![c].loop = "poll", ![c].on = Nothing,
    ![c].asked = {a \in @ \cup {u} : unit[a] # Dead /\ session[c].dir}]

OpenPipe(c) ==
  /\ session[c].loop = "open"
  /\ \/ \E u \in Readers(path) : Ask(c, u) /\ UNCHANGED path
     \/ /\ path \in Units /\ Readers(path) = {}
        /\ session' = [session EXCEPT ![c].loop = "blocked", ![c].on = path]
        /\ UNCHANGED path
     \/ /\ path \notin Units
        /\ path' = RegularFile
        /\ session' = [session EXCEPT ![c].loop = "poll"]
  /\ UNCHANGED <<host, ran, units, unit, log, lines, active>>

PipeOpens(c) ==
  /\ session[c].loop = "blocked"
  /\ \E u \in Readers(session[c].on) : Ask(c, u)
  /\ UNCHANGED active

(* A head unit writes the frame it was asked for.                          *)
Shoot(c) ==
  /\ \E u \in session[c].asked :
       /\ unit[u] # Dead
       /\ session' = [session EXCEPT ![c].asked = @ \ {u},
                                     ![c].files = session[c].count + 1]
  /\ UNCHANGED active

(* Variant: the frame counts whether it came or not.                       *)
PollFrame_CountsAll(c) ==
  /\ session[c].loop = "poll"
  /\ session' = [session EXCEPT ![c].loop = "top", ![c].count = @ + 1,
                                ![c].asked = {}]
  /\ UNCHANGED active

(* The file is there, and counts - who else was asked for it writes it     *)
(* once more -; or three seconds are over, and the frame may come late.    *)
PollFrame(c) ==
  /\ session[c].loop = "poll"
  /\ \/ /\ session[c].files > session[c].count
        /\ session' = [session EXCEPT ![c].loop = "top", ![c].count = @ + 1,
                                      ![c].asked = {}]
     \/ session' = [session EXCEPT ![c].loop = "top"]
  /\ UNCHANGED active

-----------------------------------------------------------------------------
(* StopVideoCapture: the session, if there is one, is taken from the       *)
(* table,                                                                  *)
PopSession ==
  /\ Listed /\ active # NoCapture
  /\ active' = NoCapture
  /\ session' = [session EXCEPT ![active].stop = "popped"]

(* its event is set,                                                       *)
SetEvent(c) ==
  /\ session[c].stop = "popped"
  /\ session' = [session EXCEPT ![c].stop = "signalled"]
  /\ UNCHANGED active

(* Variant: join() without a timeout.                                      *)
Join_Forever(c) ==
  /\ session[c].stop = "signalled" /\ session[c].loop \in {"none", "ended"}
  /\ session' = [session EXCEPT ![c].stop = "joined"]
  /\ UNCHANGED active

(* its thread, if it has been started, ends within the ten seconds of      *)
(* join() - the three of a frame and the pause are shorter - or waits for  *)
(* its pipe and is left behind,                                            *)
Join(c) ==
  /\ session[c].stop = "signalled"
  /\ session[c].loop \in {"none", "ended", "blocked"}
  /\ session' = [session EXCEPT ![c].stop = "joined",
                                ![c].late = session[c].loop = "blocked"]
  /\ UNCHANGED active

(* the frames are stitched - without one, or when ffmpeg fails, the video  *)
(* is empty; frames that come now are in no video -,                       *)
Stitch(c) ==
  /\ session[c].stop = "joined"
  /\ \E video \in IF session[c].count > 0 THEN {0, session[c].files} ELSE {0} :
       session' = [session EXCEPT ![c].stop = "stitched", ![c].video = video,
                                  ![c].asked = {}]
  /\ UNCHANGED active

(* Variant: without a frame there is nothing to clean up.                  *)
CleanUp_WithFrames(c) ==
  /\ session[c].stop = "stitched"
  /\ session' = [session EXCEPT ![c].stop = "answered",
                                ![c].dir = session[c].count = 0,
                                ![c].files = 0, ![c].asked = {}]
  /\ UNCHANGED active

(* and the directory goes (rmtree() ignores errors: what it could not      *)
(* remove, a frame that came meanwhile, stays, and nobody looks at it).    *)
CleanUp(c) ==
  /\ session[c].stop = "stitched"
  /\ session' = [session EXCEPT ![c].stop = "answered", ![c].dir = FALSE,
                                ![c].files = 0, ![c].asked = {}]
  /\ UNCHANGED active

-----------------------------------------------------------------------------
StartStep(c) == List(c) \/ StartThread(c)

StopStep(c) == SetEvent(c) \/ Join(c) \/ Stitch(c) \/ CleanUp(c)

CaptureTypeOK ==
  /\ active \in Captures \cup {NoCapture}
  /\ session \in [Captures -> Session]

(* "Each instance can have at most one active capture at a time": of two   *)
(* threads at work on a frame one belongs to a capture that is being       *)
(* stopped and has its event set in a moment, or was left behind by a stop *)
(* that has waited ten seconds for its open() (start() leaves the lock     *)
(* before it starts the thread, stop() before it sets the event).  That    *)
(* the one capture can be stopped is not said: StopVideoCapture wants a    *)
(* record of the name, and there may be none any more.                     *)
Filming(c) == session[c].loop \in {"open", "blocked", "poll"}

BeingStopped(c) ==
  session[c].stop \in {"popped", "signalled"} \/ session[c].late

OneCaptureFilms ==
  \A c, d \in Captures :
    c # d /\ Filming(c) /\ Filming(d) => BeingStopped(c) \/ BeingStopped(d)

(* The frame_count of the answer is the number of frames in the video, or  *)
(* one less when a head unit was late with the last of them - unless       *)
(* ffmpeg failed, or the thread was left behind and went on (a frame       *)
(* counts when its file was seen in time, ffmpeg takes every file).        *)
CountIsVideo ==
  \A c \in Captures :
    LET s == session[c] IN
      s.stop = "answered" /\ s.video > 0 /\ ~ s.late =>
        s.video \in {s.count, s.count + 1}

(* No directory of frames outlives the session it was made for without     *)
(* rmtree() being asked to remove it (stop() has two ways out, start() one *)
(* that raises).  A session only a stop ends: a capture whose              *)
(* max_duration_s has passed, or whose instance is gone, keeps its.        *)
NoDirectoryIsLeft ==
  \A c \in Captures :
    session[c].dir =>
      active = c \/ session[c].stop \notin {"none", "answered"}

(* StopVideoCapture is answered, also when the thread hangs in open() of a *)
(* pipe nobody reads.                                                      *)
StopIsAnswered ==
  \A c \in Captures :
    session[c].stop = "popped" ~> session[c].stop = "answered"
=============================================================================
