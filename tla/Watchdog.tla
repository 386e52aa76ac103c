------------------------------ MODULE Watchdog ------------------------------
(***************************************************************************)
(* The watchdog, supervisor/src/watchdog.py: threads that compare an       *)
(* agent's pane with what they last saw and emit a WatchdogTimeout after   *)
(* too long a silence.                                                     *)
(*                                                                         *)
(* register_session replaces the agent's _SessionState by a new object;    *)
(* objects are numbered.  A check works on a snapshot taken under the      *)
(* lock, and without the lock after that.  stop() waits five seconds for   *)
(* the thread and forgets it; the flag it raised is the one start() clears *)
(* again, so a thread held up by tmux for longer finds it cleared and goes *)
(* on beside its successor.                                                *)
(***************************************************************************)
EXTENDS AgentSession

CONSTANTS
  Timeout,            \* timeout_seconds
  MaxNow,             \* bound: the clock
  MaxRegistrations,   \* bound: _SessionState objects
  MaxLoops            \* bound: threads started

ASSUME WatchdogAssumption ==
  /\ Timeout \in Nat \ {0} /\ MaxNow \in Nat
  /\ MaxRegistrations \in Nat /\ MaxLoops \in Nat

VARIABLES
  now,          \* the monotonic clock
  registered,   \* the object in _sessions, 0 for none
  registrations,\* objects made
  lastOutput,   \* by object: last_output, -1 for None
  lastActivity, \* by object: last_activity_time
  loop,         \* by thread: where it is
  looked,       \* by thread: its snapshot and "now"
  thread,       \* _thread, 0 for None
  threads,      \* threads made
  stopFlag,     \* _stop_event
  timeouts,     \* history: the times events were emitted for
  paired        \* history: two threads have run at once

watchdogVars ==
  <<now, registered, registrations, lastOutput, lastActivity, loop, looked,
    thread, threads, stopFlag, timeouts, paired>>

Objects == 1..MaxRegistrations
Loops == 1..MaxLoops
NothingSeen == MaxPanes + 1
Looking == [object : 0..MaxRegistrations, at : 0..MaxNow]
NoLook == [object |-> 0, at |-> 0]
Running(t) == loop[t] \notin {"none", "over"}

WatchdogInit ==
  /\ now = 0
  /\ registered = 0 /\ registrations = 0
  /\ lastOutput = [o \in Objects |-> NothingSeen]
  /\ lastActivity = [o \in Objects |-> 0]
  /\ loop = [t \in Loops |-> "none"]
  /\ looked = [t \in Loops |-> NoLook]
  /\ thread = 0 /\ threads = 0 /\ stopFlag = FALSE
  /\ timeouts = {} /\ paired = FALSE

objectVars == <<registered, registrations, lastOutput, lastActivity>>
loopVars == <<loop, looked, thread, threads, stopFlag, paired>>

TimePasses ==
  /\ now < MaxNow
  /\ now' = now + 1
  /\ UNCHANGED <<objectVars, loopVars, timeouts>>

RegisterSession ==
  /\ registrations < MaxRegistrations
  /\ registrations' = registrations + 1
  /\ registered' = registrations + 1
  /\ lastActivity' = [lastActivity EXCEPT ![registrations + 1] = now]
  /\ UNCHANGED <<now, lastOutput, loopVars, timeouts>>

UnregisterSession ==
  /\ registered # 0
  /\ registered' = 0
  /\ UNCHANGED <<now, registrations, lastOutput, lastActivity, loopVars,
                 timeouts>>

(* start(): nothing if a thread it knows of is alive.                      *)
StartWatchdog ==
  /\ ~ \E t \in Loops : t = thread /\ Running(t)
  /\ threads < MaxLoops
  /\ stopFlag' = FALSE
  /\ threads' = threads + 1 /\ thread' = threads + 1
  /\ loop' = [loop EXCEPT ![threads + 1] = "head"]
  /\ paired' = (paired \/ \E t \in Loops : Running(t))
  /\ UNCHANGED <<now, objectVars, looked, timeouts>>

(* stop() raises the flag                                                  *)
StopWatchdog ==
  /\ thread # 0 /\ ~ stopFlag
  /\ stopFlag' = TRUE
  /\ UNCHANGED <<now, objectVars, loop, looked, thread, threads, paired,
                 timeouts>>

(* and returns when the thread has ended, or after its five seconds.       *)
StopReturns ==
  /\ stopFlag /\ thread # 0
  /\ thread' = 0
  /\ UNCHANGED <<now, objectVars, loop, looked, threads, stopFlag, paired,
                 timeouts>>

Goto(t, l) == loop' = [loop EXCEPT ![t] = l]

(* Back to the head of the loop; what the round had looked at is gone.     *)
NextRound(t) ==
  /\ Goto(t, "head")
  /\ looked' = [looked EXCEPT ![t] = NoLook]

(* The head of the loop; a check begins with the snapshot and the time.    *)
Snapshot(t) ==
  /\ loop[t] = "head"
  /\ \/ stopFlag /\ Goto(t, "over") /\ UNCHANGED looked
     \/ /\ ~ stopFlag
        /\ registered # 0
        /\ looked' = [looked EXCEPT ![t] =
             [object |-> registered, at |-> now]]
        /\ Goto(t, "capture")
  /\ UNCHANGED <<now, objectVars, thread, threads, stopFlag, paired, timeouts>>

(* tmux capture-pane, without a timeout of its own, raises for a session   *)
(* that is gone: the agent is skipped.                                     *)
CaptureFails(t) ==
  /\ loop[t] = "capture"
  /\ ~ alive
  /\ NextRound(t)
  /\ UNCHANGED <<now, objectVars, thread, threads, stopFlag, paired, timeouts>>

(* The pane shows what the object remembers, and has for so long.          *)
SeenBefore(v) == lastOutput[v.object] = pane
LongSilent(v) == v.at >= lastActivity[v.object] + Timeout

(* New output - the first is always new - resets the timer;                *)
NewOutput(t) ==
  /\ loop[t] = "capture"
  /\ alive /\ ~ SeenBefore(looked[t])
  /\ lastOutput' = [lastOutput EXCEPT ![looked[t].object] = pane]
  /\ lastActivity' = [lastActivity EXCEPT ![looked[t].object] = looked[t].at]
  /\ NextRound(t)
  /\ UNCHANGED <<now, registered, registrations, thread, threads, stopFlag,
                 paired, timeouts>>

(* Variant: the silence has to be longer than the timeout.                 *)
OldOutput_Longer(t) ==
  /\ loop[t] = "capture"
  /\ alive /\ SeenBefore(looked[t])
  /\ \/ /\ looked[t].at > lastActivity[looked[t].object] + Timeout
        /\ Goto(t, "emit") /\ UNCHANGED looked
     \/ /\ looked[t].at <= lastActivity[looked[t].object] + Timeout
        /\ NextRound(t)
  /\ UNCHANGED <<now, objectVars, thread, threads, stopFlag, paired, timeouts>>

(* old output is reported once the silence has lasted long enough.         *)
OldOutput(t) ==
  /\ loop[t] = "capture"
  /\ alive /\ SeenBefore(looked[t])
  /\ \/ LongSilent(looked[t]) /\ Goto(t, "emit") /\ UNCHANGED looked
     \/ ~ LongSilent(looked[t]) /\ NextRound(t)
  /\ UNCHANGED <<now, objectVars, thread, threads, stopFlag, paired, timeouts>>

(* Variant: the timer is not reset after an event.                         *)
EmitTimeout_NoReset(t) ==
  /\ loop[t] = "emit"
  /\ timeouts' = timeouts \cup {looked[t].at}
  /\ NextRound(t)
  /\ UNCHANGED <<now, objectVars, thread, threads, stopFlag, paired>>

(* The event, and the timer starts anew.                                   *)
EmitTimeout(t) ==
  /\ loop[t] = "emit"
  /\ timeouts' = timeouts \cup {looked[t].at}
  /\ lastActivity' = [lastActivity EXCEPT ![looked[t].object] = looked[t].at]
  /\ NextRound(t)
  /\ UNCHANGED <<now, registered, registrations, lastOutput, thread, threads,
                 stopFlag, paired>>

CheckStep(t) == 
  \/ Snapshot(t)
  \/ CaptureFails(t)
  \/ NewOutput(t)
  \/ OldOutput(t)
  \/ EmitTimeout(t)

WatchdogStep ==
  \/ TimePasses
  \/ RegisterSession
  \/ UnregisterSession
  \/ StartWatchdog
  \/ StopWatchdog
  \/ StopReturns
  \/ \E t \in Loops : CheckStep(t)

WatchdogTypeOK ==
  /\ now \in 0..MaxNow
  /\ registered \in 0..registrations /\ registrations \in 0..MaxRegistrations
  /\ lastOutput \in [Objects -> 0..NothingSeen]
  /\ lastActivity \in [Objects -> 0..MaxNow]
  /\ loop \in [Loops -> {"none", "head", "capture", "emit", "over"}]
  /\ looked \in [Loops -> Looking]
  /\ thread \in 0..threads /\ threads \in 0..MaxLoops
  /\ stopFlag \in BOOLEAN /\ paired \in BOOLEAN
  /\ timeouts \subseteq 0..MaxNow

(* An agent is not reported more often than once per timeout, however it   *)
(* is registered, unregistered and registered again during a check - as    *)
(* long as no second thread runs beside a forgotten one (watchdog.py:       *)
(* snapshot without lock, one object per registration).                     *)
TimeoutsAreSpaced ==
  ~ paired => \A e, f \in timeouts : e < f => f >= e + Timeout

(* A registered agent whose session lives and shows nothing new is         *)
(* reported, while there is time left and the watchdog runs.               *)
SilentSince(o, t) ==
  /\ registered = o /\ alive /\ lastOutput[o] = pane /\ lastActivity[o] = t
  /\ thread # 0 /\ ~ stopFlag

SilenceIsReported ==
  \A o \in Objects, t \in 0..(MaxNow - Timeout) :
    SilentSince(o, t) ~> ~ SilentSince(o, t)
=============================================================================
