--------------------------- MODULE OrderlyShutdown ---------------------------
(***************************************************************************)
(* The end of the instance manager: the signal handler of server.py, which *)
(* runs on the main thread and destroys every instance it finds listed     *)
(* (cleanup.py) while worker threads and the refresh thread go on; then    *)
(* the server takes no more calls, and the process ends once the workers   *)
(* have returned.                                                          *)
(***************************************************************************)
EXTENDS InstanceManager

VARIABLES
  main,       \* where the main thread is
  doomed,     \* the records it has still to destroy
  victim,     \* the record it is destroying
  disturbed   \* history: a call changed an instance since the signal

mainVars == <<main, doomed, victim, disturbed>>
allVars == <<vars, mainVars>>

Changes == {c \in Calls : /\ pc[c] \in RunningLabels \cup {"queued"}
                          /\ Rpc(c) \in Changing}

ShutdownInit ==
  /\ Init
  /\ main = "serving" /\ doomed = {} /\ victim = NoCall
  /\ disturbed = FALSE

(* Variant: only the running instances are destroyed.                      *)
Signal_OnlyRunning ==
  /\ main = "serving"
  /\ main' = "destroying"
  /\ doomed' = GetRunning
  /\ disturbed' = (Changes # {})
  /\ UNCHANGED <<vars, victim>>

(* SIGTERM: shutdown_all_instances lists the records,                      *)
Signal ==
  /\ main = "serving"
  /\ main' = "destroying"
  /\ doomed' = {instances[n] : n \in {m \in Names : Present(m)}}
  /\ disturbed' = (Changes # {})
  /\ UNCHANGED <<vars, victim>>

(* destroys the next one: its processes,                                   *)
KillNext ==
  /\ main = "destroying"
  /\ \E r \in doomed :
       /\ KillProcesses(Name(r), r)
       /\ victim' = r
       /\ doomed' = doomed \ {r}
  /\ main' = "erasing"
  /\ UNCHANGED <<storeVars, pipe, leftover, callVars, refreshVars, disturbed>>

(* and its files.  Nothing is released or removed from the store.          *)
EraseNext ==
  /\ main = "erasing"
  /\ RemoveFiles(Name(victim), victim)
  /\ main' = "destroying"
  /\ UNCHANGED <<storeVars, alive, strays, handles, leftover, callVars,
                 refreshVars, doomed, victim, disturbed>>

(* server.stop(5): no call is taken any more; sys.exit waits for the       *)
(* workers, who finish what they have and may start what is queued.        *)
StopServer ==
  /\ main = "destroying" /\ doomed = {}
  /\ main' = "stopped"
  /\ UNCHANGED <<vars, doomed, victim, disturbed>>

Exit ==
  /\ main = "stopped" /\ Running = {}
  /\ main' = "exited"
  /\ UNCHANGED <<vars, doomed, victim, disturbed>>

(* What goes on beside the main thread: calls arrive until the server is   *)
(* stopped, workers and the refresh thread run until the process is over.  *)
NoteChange ==
  /\ disturbed' = (disturbed \/ (main # "serving" /\ Changes' # {}))
  /\ UNCHANGED <<main, doomed, victim>>

Arrive(c) == main \notin {"stopped", "exited"} /\ Submit(c) /\ NoteChange
Work(c) == main # "exited" /\ Handle(c) /\ NoteChange
Watch == main # "exited" /\ Refresh /\ UNCHANGED mainVars

ProcessDies == Die /\ UNCHANGED mainVars

(* The service is started again: after its end, or killed at any time.     *)
StartAgain ==
  /\ main = "exited" \/ ServiceMayRestart
  /\ StartOver
  /\ main' = "serving" /\ doomed' = {} /\ victim' = NoCall
  /\ disturbed' = FALSE

ShutdownNext ==
  \/ Signal \/ KillNext \/ EraseNext \/ StopServer \/ Exit
  \/ \E c \in Calls : Arrive(c) \/ Work(c)
  \/ Watch \/ ProcessDies \/ StartAgain

ShutdownSpec == ShutdownInit /\ [][ShutdownNext]_allVars

(* Worker threads and the refresh thread run.                              *)
Fairness == WF_allVars(Watch) /\ \A c \in Calls : WF_allVars(Work(c))

FairShutdownSpec == ShutdownSpec /\ Fairness

-----------------------------------------------------------------------------
ShutdownTypeOK ==
  /\ main \in {"serving", "destroying", "erasing", "stopped", "exited"}
  /\ doomed \subseteq Calls
  /\ victim \in Calls \cup {NoCall}
  /\ main = "erasing" => victim \in Calls
  /\ disturbed \in BOOLEAN

(* A signal that meets no call at work on an instance leaves nothing       *)
(* running that a call of this service has started and answered with       *)
(* success: whatever the refresh thread, readers of the pipes and dying    *)
(* processes do meanwhile, and whatever state the records are in, each     *)
(* such process is reached by the handles or the pids of a listed record.  *)
(* Of a call that failed only strays are left.                             *)
(* (cleanup.py:14-29 through emulator_lifecycle.py:236.)                   *)
NothingOutlives ==
  main \in {"stopped", "exited"} /\ ~ disturbed =>
    /\ alive \subseteq leftover
    /\ \A p \in strays \ leftover : At(p.by, "failed")

(* Every request is answered, unless the server is stopped before a worker *)
(* had the time: a handler goes through all of its steps, its waits end in *)
(* time-outs, and what one call leaves of an instance - slot, pipe, head   *)
(* unit - lets the next one go on (instance_manager_service.py over        *)
(* emulator_lifecycle.py).  One thing does not: a restart that failed to   *)
(* start the head unit leaves a pipe nobody reads, and the next to write   *)
(* to it does not return.                                                  *)
Answered(c) == pc[c] \in {"ok", "failed"}

Unread(n) == Present(n) /\ Outstanding(n) = {} /\ Hangs(n)

EveryCallAnswered ==
  \A c \in Calls :
    At(c, "queued") ~>
      (Answered(c) \/ main # "serving" \/ \E n \in Names : Unread(n))

(* An instance listed as RUNNING with a dead process does not stay so:     *)
(* the refresh thread's check_health finds it, unless that thread hangs or *)
(* the service ends.                                                       *)
Broken(n) ==
  /\ Present(n) /\ record[instances[n]].state = "RUNNING"
  /\ \E k \in Kinds : handles[n][k] # NoCall /\ P(k, handles[n][k]) \notin alive

DeadIsNoticed ==
  \A n \in Names :
    Broken(n) ~> (~ Broken(n) \/ refresh = "stuck" \/ main # "serving")

=============================================================================
