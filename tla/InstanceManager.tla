--------------------------- MODULE InstanceManager ---------------------------
(***************************************************************************)
(* The emulator instance manager: the handlers of                          *)
(* instance_manager_service.py on the server's worker threads,             *)
(* EmulatorLifecycle (emulator_lifecycle.py) with its table of process     *)
(* handles, the screenshot refresh thread of server.py, and the processes  *)
(* they start, kill and write to.                                          *)
(*                                                                         *)
(* Four RPCs change an instance.  The others use a running one:            *)
(* ScreenshotInstance and DhuCommand write to its pipe (so does the video  *)
(* capture, see VideoCapture), and five only ask its emulator.  A call is  *)
(* a thread; its steps are the accesses other threads can fall between.    *)
(*                                                                         *)
(* "dhu" is the desktop head unit, the shell it runs under and the process *)
(* that keeps its pipe open: they are started and tracked together.        *)
(* Killing by handles goes to the process group and takes all of them;     *)
(* where only the shell is killed the head unit itself goes on, a stray.   *)
(***************************************************************************)
EXTENDS InstanceStore

CONSTANTS
  Workers,            \* _MAX_WORKERS (4)
  Rpcs,               \* what the clients call
  Mortal,             \* the kinds of process that may die by themselves
  ClientsWait,        \* no client changes an instance while a call does
  ServiceMayRestart

Kinds == {"emulator", "socat", "dhu"}
Changing == {"CreateInstance", "DestroyInstance", "RestartDhu", "InstallApk"}
Asking == {"AdbShell", "AdbPush", "AdbPull", "SaveSnapshot", "LoadSnapshot"}
AllRpcs == Changing \cup Asking \cup {"ScreenshotInstance", "DhuCommand"}

ASSUME ManagerAssumption ==
  /\ Workers \in Nat \ {0}
  /\ Rpcs \subseteq AllRpcs
  /\ Mortal \subseteq Kinds
  /\ ClientsWait \in BOOLEAN /\ ServiceMayRestart \in BOOLEAN

VARIABLES
  alive,    \* the processes running on the host that a handle or a pid tells of
  strays,   \* those that run and nothing refers to: head units whose shell was
            \* killed, keepers of a pipe no head unit was started for
  handles,  \* EmulatorLifecycle._handles, by name
  pipe,     \* the head units that opened the named pipe of an instance, by
            \* name (each by the call that was to start it); none: no pipe
  leftover, \* history: what restarts of the service did not look for or could
            \* not kill
  pc,       \* where the call's handler is
  request,  \* the RPC it is and its request.name
  target,   \* the record it looked up
  refresh,  \* where the refresh thread is
  todo,     \* records it has still to look at
  looking   \* the record it is looking at

procVars == <<alive, strays, handles, pipe, leftover>>
callVars == <<pc, request, target>>
refreshVars == <<refresh, todo, looking>>
vars == <<storeVars, procVars, callVars, refreshVars>>

Request == [rpc : Rpcs, name : Names]
Rpc(c) == request[c].rpc
Name(c) == request[c].name

Process == [kind : Kinds, by : Calls]
P(k, c) == [kind |-> k, by |-> c]
Stray == [kind : {"dhu", "keeper"}, by : Calls]

(* An entry of _handles; none of them is an entry that is not there.       *)
Handles == [Kinds -> Calls \cup {NoCall}]
NoHandles == [k \in Kinds |-> NoCall]

CreateLabels == {"allocate", "record", "spawn", "boot", "dhu", "focus",
                 "track", "answer", "cleanup", "release", "unlist"}
DestroyLabels == {"mark", "kill", "clean", "free", "remove"}
RestartLabels == {"install", "stop", "respawn", "refocus"}
UseLabels == {"shoot", "command", "adb"}
RunningLabels == CreateLabels \cup DestroyLabels \cup RestartLabels
                   \cup UseLabels \cup {"stuck"}
Labels == {"unsent", "queued", "ok", "failed"} \cup RunningLabels

Running == {c \in Calls : pc[c] \in RunningLabels}

(* The calls under way that change the instance of the name.               *)
Outstanding(n) ==
  {c \in Calls : /\ pc[c] \in RunningLabels \cup {"queued"}
                 /\ Name(c) = n /\ Rpc(c) \in Changing}

Init ==
  /\ StoreInit
  /\ alive = {} /\ strays = {}
  /\ handles = [n \in Names |-> NoHandles]
  /\ pipe = [n \in Names |-> {}]
  /\ leftover = {}
  /\ pc = [c \in Calls |-> "unsent"]
  /\ request \in [Calls -> Request]
  /\ target = [c \in Calls |-> NoCall]
  /\ refresh = "sleep" /\ todo = {} /\ looking = NoCall

At(c, label) == pc[c] = label
Goto(c, label) == pc' = [pc EXCEPT ![c] = label]

(* adb emu kill goes to whatever emulator listens on the slot's port.      *)
EmulatorsOn(s) == {p \in alive : p.kind = "emulator" /\ ports[p.by] = s}

(* Writing to the pipe: it has a reader while a head unit that opened it   *)
(* lives; open() of a pipe without one does not return.                    *)
Answers(n) == \E d \in pipe[n] : P("dhu", d) \in alive \cup strays
Hangs(n) == pipe[n] # {} /\ ~ Answers(n)

(* What becomes of the head units in a set whose shell alone is killed.    *)
Adrift(killed) == {p \in killed : p.kind = "dhu" /\ p \in alive}

-----------------------------------------------------------------------------
(* A client sends its request; it waits for a worker.                      *)
Submit(c) ==
  /\ At(c, "unsent")
  /\ ClientsWait /\ Rpc(c) \in Changing => Outstanding(Name(c)) = {}
  /\ Goto(c, "queued")
  /\ UNCHANGED <<storeVars, procVars, request, target, refreshVars>>

(* Every handler looks the name up first.                                  *)
Accepted(c) ==
  LET n == Name(c)
  IN CASE Rpc(c) = "CreateInstance"  -> ~ Present(n)
       [] Rpc(c) = "DestroyInstance" -> Present(n)
       [] OTHER -> Present(n) /\ record[instances[n]].state = "RUNNING"

FirstStep(c) ==
  CASE Rpc(c) = "CreateInstance"     -> "allocate"
    [] Rpc(c) = "DestroyInstance"    -> "mark"
    [] Rpc(c) = "RestartDhu"         -> "stop"
    [] Rpc(c) = "InstallApk"         -> "install"
    [] Rpc(c) = "ScreenshotInstance" -> "shoot"
    [] Rpc(c) = "DhuCommand"         -> "command"
    [] Rpc(c) \in Asking             -> "adb"

(* A worker takes the request.                                             *)
Begin(c) ==
  /\ At(c, "queued")
  /\ Cardinality(Running) < Workers
  /\ target' = [target EXCEPT ![c] = instances[Name(c)]]
  /\ Goto(c, IF Accepted(c) THEN FirstStep(c) ELSE "failed")
  /\ UNCHANGED <<storeVars, procVars, request, refreshVars>>

-----------------------------------------------------------------------------
(* CreateInstance                                                          *)
AllocatePorts(c) ==
  /\ At(c, "allocate")
  /\ \/ Allocate(c) /\ Goto(c, "record")
     \/ AllUsed /\ Goto(c, "failed") /\ UNCHANGED <<used, ports>>
  /\ UNCHANGED <<instances, record, procVars, request, target, refreshVars>>

(* store.create is outside the handler's try: its ValueError ends the call *)
(* with the slot still allocated.                                          *)
CreateRecord(c) ==
  /\ At(c, "record")
  /\ \/ PutRecord(Name(c), c) /\ Goto(c, "spawn")
     \/ Present(Name(c)) /\ Goto(c, "failed") /\ UNCHANGED <<instances, record>>
  /\ UNCHANGED <<used, ports, procVars, request, target, refreshVars>>

(* Popen of the emulator may raise; update() raises when the name is gone. *)
SpawnEmulator(c) ==
  /\ At(c, "spawn")
  /\ \/ alive' = alive \cup {P("emulator", c)}
        /\ Goto(c, IF Present(Name(c)) THEN "boot" ELSE "cleanup")
     \/ Goto(c, "cleanup") /\ UNCHANGED alive
  /\ UNCHANGED <<storeVars, strays, handles, pipe, leftover, request, target,
                 refreshVars>>

(* _wait_for_boot asks whatever emulator is on the port.                   *)
MayBoot(c) == EmulatorsOn(ports[c]) # {}

(* It answers and socat is started, or the wait times out.                 *)
SpawnSocat(c) ==
  /\ At(c, "boot")
  /\ \/ /\ MayBoot(c)
        /\ alive' = alive \cup {P("socat", c)}
        /\ \/ Present(Name(c)) /\ SetField(Name(c), "socat", c) /\ Goto(c, "dhu")
           \/ ~ Present(Name(c)) /\ Goto(c, "cleanup") /\ UNCHANGED record
     \/ Goto(c, "cleanup") /\ UNCHANGED <<record, alive>>
  /\ UNCHANGED <<used, ports, instances, strays, handles, pipe, leftover,
                 request, target, refreshVars>>

(* mkfifo, whose failure on a pipe that is there already goes unnoticed:   *)
(* the head units of a creation that failed and of a service that was      *)
(* killed share theirs with the next one of the name.                      *)
OpenPipe(c) == pipe' = [pipe EXCEPT ![Name(c)] = @ \cup {c}]

(* The pipe is made and the head unit started, unless adb forward fails    *)
(* before both or a Popen between them.                                    *)
SpawnDhu(c) ==
  /\ At(c, "dhu")
  /\ \/ /\ alive' = alive \cup {P("dhu", c)}
        /\ OpenPipe(c)
        /\ \/ Present(Name(c)) /\ SetField(Name(c), "dhu", c) /\ Goto(c, "focus")
           \/ ~ Present(Name(c)) /\ Goto(c, "cleanup") /\ UNCHANGED record
     \/ /\ OpenPipe(c) \/ UNCHANGED pipe
        /\ Goto(c, "cleanup") /\ UNCHANGED <<record, alive>>
  /\ UNCHANGED <<used, ports, instances, strays, handles, leftover, request,
                 target, refreshVars>>

(* _wait_for_dhu and _wait_for_dhu_screenshot, then state RUNNING.         *)
AwaitFocus(c) ==
  /\ At(c, "focus")
  /\ \/ /\ Answers(Name(c))
        /\ \/ /\ Present(Name(c)) /\ SetField(Name(c), "state", "RUNNING")
              /\ Goto(c, "track")
           \/ ~ Present(Name(c)) /\ Goto(c, "cleanup") /\ UNCHANGED record
     \/ Goto(c, "cleanup") /\ UNCHANGED record
     \/ Hangs(Name(c)) /\ Goto(c, "stuck") /\ UNCHANGED record
  /\ UNCHANGED <<used, ports, instances, procVars, request, target, refreshVars>>

TrackHandles(c) ==
  /\ At(c, "track")
  /\ handles' = [handles EXCEPT ![Name(c)] = [k \in Kinds |-> c]]
  /\ Goto(c, "answer")
  /\ UNCHANGED <<storeVars, alive, strays, pipe, leftover, request, target,
                 refreshVars>>

(* The answer is built from store.get(name): None raises in the handler.   *)
AnswerCreate(c) ==
  /\ At(c, "answer")
  /\ Goto(c, IF Present(Name(c)) THEN "ok" ELSE "release")
  /\ UNCHANGED <<storeVars, procVars, request, target, refreshVars>>

(* lifecycle.create's except: the processes it has started are killed - of *)
(* the head unit only the shell, it goes astray - and the record, if the   *)
(* name has one, is put in ERROR.  The pipe stays.                         *)
CleanUpCreate(c) ==
  LET started == {P(k, c) : k \in Kinds} IN
  /\ At(c, "cleanup")
  /\ alive' = alive \ started
  /\ strays' = strays \cup Adrift(started)
  /\ \/ Present(Name(c)) /\ SetField(Name(c), "state", "ERROR")
     \/ ~ Present(Name(c)) /\ UNCHANGED record
  /\ Goto(c, "release")
  /\ UNCHANGED <<used, ports, instances, handles, pipe, leftover, request,
                 target, refreshVars>>

(* Variant: the record is removed and the slot not released.               *)
ReleasePorts_Forgotten(c) ==
  /\ At(c, "release")
  /\ Goto(c, "unlist")
  /\ UNCHANGED <<storeVars, procVars, request, target, refreshVars>>

(* The handler's except: release - a ValueError of it skips the removal -  *)
(* then remove.                                                            *)
ReleasePorts(c) ==
  /\ At(c, "release")
  /\ Release(ports[c])
  /\ Goto(c, IF ports[c] \in used THEN "unlist" ELSE "failed")
  /\ UNCHANGED <<ports, instances, record, procVars, request, target,
                 refreshVars>>

Unlist(c) ==
  /\ At(c, "unlist")
  /\ RemoveRecord(Name(c))
  /\ Goto(c, "failed")
  /\ UNCHANGED <<used, ports, record, procVars, request, target, refreshVars>>

-----------------------------------------------------------------------------
(* DestroyInstance                                                         *)
(* Variant: the slot is released first.                                    *)
MarkDestroying_FreesFirst(c) ==
  /\ At(c, "mark")
  /\ \/ /\ Present(Name(c)) /\ SetField(Name(c), "state", "DESTROYING")
        /\ Release(ports[target[c]])
        /\ Goto(c, "kill")
     \/ ~ Present(Name(c)) /\ Goto(c, "failed") /\ UNCHANGED <<used, record>>
  /\ UNCHANGED <<ports, instances, procVars, request, target, refreshVars>>

(* The record goes to DESTROYING.                                          *)
MarkDestroying(c) ==
  /\ At(c, "mark")
  /\ \/ /\ Present(Name(c)) /\ SetField(Name(c), "state", "DESTROYING")
        /\ Goto(c, "kill")
     \/ ~ Present(Name(c)) /\ Goto(c, "failed") /\ UNCHANGED record
  /\ UNCHANGED <<used, ports, instances, procVars, request, target, refreshVars>>

(* lifecycle.destroy pops the handles and kills by them, or by the         *)
(* record's pids when there are none - a pid of a head unit is its shell's *)
(* alone; r is the record, n its name.                                     *)
KillProcesses(n, r) ==
  LET h == handles[n]
      tracked == {P(k, h[k]) : k \in Kinds}
      recorded == {P("dhu", record[r].dhu), P("socat", record[r].socat)}
  IN /\ alive' =
          IF h = NoHandles
          THEN alive \ (recorded \cup EmulatorsOn(ports[r]))
          ELSE alive \ (tracked \cup
                 IF P("emulator", h["emulator"]) \in alive
                 THEN EmulatorsOn(ports[r]) ELSE {})
     /\ strays' = strays \cup (IF h = NoHandles THEN Adrift(recorded) ELSE {})
     /\ handles' = [handles EXCEPT ![n] = NoHandles]

KillInstance(c) ==
  /\ At(c, "kill")
  /\ KillProcesses(Name(c), target[c])
  /\ Goto(c, "clean")
  /\ UNCHANGED <<storeVars, pipe, leftover, request, target, refreshVars>>

(* ... and removes the pipe, if the record has its path.                   *)
RemoveFiles(n, r) ==
  pipe' = IF record[r].dhu = NoCall THEN pipe ELSE [pipe EXCEPT ![n] = {}]

CleanFiles(c) ==
  /\ At(c, "clean")
  /\ RemoveFiles(Name(c), target[c])
  /\ Goto(c, "free")
  /\ UNCHANGED <<storeVars, alive, strays, handles, leftover, request, target,
                 refreshVars>>

(* release, whose ValueError is ignored.                                   *)
FreePorts(c) ==
  /\ At(c, "free")
  /\ Release(ports[target[c]])
  /\ Goto(c, "remove")
  /\ UNCHANGED <<ports, instances, record, procVars, request, target,
                 refreshVars>>

RemoveInstance(c) ==
  /\ At(c, "remove")
  /\ RemoveRecord(Name(c))
  /\ Goto(c, IF Present(Name(c)) THEN "ok" ELSE "failed")
  /\ UNCHANGED <<used, ports, record, procVars, request, target, refreshVars>>

-----------------------------------------------------------------------------
(* InstallApk: adb may refuse the package; then the head unit is           *)
(* restarted, or the answer built from store.get(name).                    *)
Install(c) ==
  /\ At(c, "install")
  /\ \/ Goto(c, "stop")
     \/ Present(Name(c)) /\ Goto(c, "ok")
     \/ Goto(c, "failed")
  /\ UNCHANGED <<storeVars, procVars, request, target, refreshVars>>

(* RestartDhu, which kills by the handle's process group or, when there is *)
(* no handle, by the pid.                                                  *)
StopDhu(c) ==
  LET h == handles[Name(c)]
      old == {P("dhu", IF h = NoHandles THEN record[target[c]].dhu ELSE h["dhu"])}
  IN /\ At(c, "stop")
     /\ alive' = alive \ old
     /\ strays' = strays \cup (IF h = NoHandles THEN Adrift(old) ELSE {})
     /\ Goto(c, "respawn")
     /\ UNCHANGED <<storeVars, handles, pipe, leftover, request, target,
                    refreshVars>>

(* rm and mkfifo: a new pipe, which the head unit of this call is to open. *)
RenewPipe(c) == pipe' = [pipe EXCEPT ![Name(c)] = {c}]

(* Variant: the table keeps the handle of the old head unit.               *)
RespawnDhu_OldHandle(c) ==
  /\ At(c, "respawn")
  /\ RenewPipe(c)
  /\ alive' = alive \cup {P("dhu", c)}
  /\ handles' = IF handles[Name(c)] # NoHandles THEN handles
                ELSE [handles EXCEPT ![Name(c)]["dhu"] = c]
  /\ \/ Present(Name(c)) /\ SetField(Name(c), "dhu", c) /\ Goto(c, "refocus")
     \/ ~ Present(Name(c)) /\ Goto(c, "failed") /\ UNCHANGED record
  /\ UNCHANGED <<used, ports, instances, strays, leftover, request, target,
                 refreshVars>>

(* Variant: the pipe is written to before the head unit is started.        *)
RespawnDhu_PipeFirst(c) ==
  /\ At(c, "respawn")
  /\ RenewPipe(c)
  /\ Goto(c, "refocus")
  /\ UNCHANGED <<storeVars, alive, strays, handles, leftover, request, target,
                 refreshVars>>

(* A new pipe, a new head unit, its handle - in an entry of its own if the *)
(* name has none - and its pid, whose update() may raise.                  *)
RespawnDhu(c) ==
  /\ At(c, "respawn")
  /\ RenewPipe(c)
  /\ alive' = alive \cup {P("dhu", c)}
  /\ handles' = [handles EXCEPT ![Name(c)]["dhu"] = c]
  /\ \/ Present(Name(c)) /\ SetField(Name(c), "dhu", c) /\ Goto(c, "refocus")
     \/ ~ Present(Name(c)) /\ Goto(c, "failed") /\ UNCHANGED record
  /\ UNCHANGED <<used, ports, instances, strays, leftover, request, target,
                 refreshVars>>

(* One of the two Popen calls raises: the new pipe has no reader, its      *)
(* keeper may have been started, and the tables tell of the old head unit. *)
RespawnFails(c) ==
  /\ At(c, "respawn")
  /\ RenewPipe(c)
  /\ strays' = strays \cup {P("keeper", c)} \/ UNCHANGED strays
  /\ Goto(c, "failed")
  /\ UNCHANGED <<storeVars, alive, handles, leftover, request, target,
                 refreshVars>>

(* The waits, the update of the screenshots and the answer.                *)
AwaitRefocus(c) ==
  /\ At(c, "refocus")
  /\ \/ Answers(Name(c)) /\ Present(Name(c)) /\ Goto(c, "ok")
     \/ Goto(c, "failed")
     \/ Hangs(Name(c)) /\ Goto(c, "stuck")
  /\ UNCHANGED <<storeVars, procVars, request, target, refreshVars>>

-----------------------------------------------------------------------------
(* ScreenshotInstance                                                      *)
Shoot(c) ==
  /\ At(c, "shoot")
  /\ \/ Answers(Name(c)) /\ Present(Name(c)) /\ Goto(c, "ok")
     \/ ~ Hangs(Name(c)) /\ Goto(c, "failed")
     \/ Hangs(Name(c)) /\ Goto(c, "stuck")
  /\ UNCHANGED <<storeVars, procVars, request, target, refreshVars>>

(* DhuCommand, with a screenshot or without.                               *)
SendCommand(c) ==
  /\ At(c, "command")
  /\ \/ ~ Hangs(Name(c)) /\ (Goto(c, "ok") \/ Goto(c, "failed"))
     \/ Hangs(Name(c)) /\ Goto(c, "stuck")
  /\ UNCHANGED <<storeVars, procVars, request, target, refreshVars>>

(* adb_shell, adb_push, adb_pull, save_snapshot and load_snapshot: adb     *)
(* succeeds, fails, or meets its timeout.                                  *)
AdbReturns(c) == Goto(c, "ok") \/ Goto(c, "failed")

(* The five handlers that ask the emulator.                                *)
RunAdb(c) ==
  /\ At(c, "adb")
  /\ AdbReturns(c)
  /\ UNCHANGED <<storeVars, procVars, request, target, refreshVars>>

-----------------------------------------------------------------------------
(* _screenshot_refresh_loop                                                *)
Wake ==
  /\ refresh = "sleep"
  /\ refresh' = "scan"
  /\ todo' = GetRunning
  /\ UNCHANGED <<storeVars, procVars, callVars, looking>>

(* Variant: socat is not among the processes checked.                      *)
Healthy_NotSocat(n) ==
  \A k \in Kinds \ {"socat"} :
    handles[n][k] = NoCall \/ P(k, handles[n][k]) \in alive

(* check_health: every tracked process is alive, or none is tracked.       *)
Healthy(n) ==
  \A k \in Kinds : handles[n][k] = NoCall \/ P(k, handles[n][k]) \in alive

CheckHealth ==
  /\ refresh = "scan"
  /\ \E r \in todo :
       /\ todo' = todo \ {r}
       /\ looking' = r
       /\ refresh' = IF Healthy(Name(r)) THEN "shoot" ELSE "mark"
  /\ UNCHANGED <<storeVars, procVars, callVars>>

(* The record under the name is put in ERROR, if there is one.             *)
MarkError ==
  /\ refresh = "mark"
  /\ \/ Present(Name(looking)) /\ SetField(Name(looking), "state", "ERROR")
     \/ ~ Present(Name(looking)) /\ UNCHANGED record
  /\ refresh' = "scan"
  /\ looking' = NoCall
  /\ UNCHANGED <<used, ports, instances, procVars, callVars, todo>>

(* The screenshot is taken, fails and is ignored, or its write never       *)
(* returns.                                                                *)
RefreshScreenshot ==
  /\ refresh = "shoot"
  /\ refresh' = IF Hangs(Name(looking)) THEN "stuck" ELSE "scan"
  /\ looking' = NoCall
  /\ UNCHANGED <<storeVars, procVars, callVars, todo>>

Sleep ==
  /\ refresh = "scan" /\ todo = {}
  /\ refresh' = "sleep"
  /\ UNCHANGED <<storeVars, procVars, callVars, todo, looking>>

Refresh == Wake \/ CheckHealth \/ MarkError \/ RefreshScreenshot \/ Sleep

-----------------------------------------------------------------------------
(* A process dies by itself.                                               *)
Die ==
  /\ \E p \in alive \cup strays :
       /\ p.kind \in Mortal
       /\ alive' = alive \ {p} /\ strays' = strays \ {p}
  /\ UNCHANGED <<storeVars, handles, pipe, leftover, callVars, refreshVars>>

(* kill_orphan_emulators looks for emulators and for nothing else.         *)
Unswept == {p \in alive : p.kind # "emulator"}

(* Variant: without kill_orphan_emulators.                                 *)
StartOver_NoSweep ==
  /\ used' = {}
  /\ instances' = [n \in Names |-> NoCall]
  /\ handles' = [n \in Names |-> NoHandles]
  /\ leftover' = Unswept \cup strays
  /\ pc' = [c \in Calls |-> IF c \in Running \/ At(c, "queued")
                            THEN "failed" ELSE pc[c]]
  /\ refresh' = "sleep" /\ todo' = {} /\ looking' = NoCall
  /\ UNCHANGED <<alive, strays, ports, record, pipe, request, target>>

(* The service starts over: its memory is lost, the processes are not;     *)
(* main() kills the emulators left over, those that kill can kill.         *)
StartOver ==
  /\ used' = {}
  /\ instances' = [n \in Names |-> NoCall]
  /\ handles' = [n \in Names |-> NoHandles]
  /\ \E resisting \in SUBSET (alive \ Unswept) :
       alive' = Unswept \cup resisting
  /\ leftover' = alive' \cup strays
  /\ pc' = [c \in Calls |-> IF c \in Running \/ At(c, "queued")
                            THEN "failed" ELSE pc[c]]
  /\ refresh' = "sleep" /\ todo' = {} /\ looking' = NoCall
  /\ UNCHANGED <<ports, record, strays, pipe, request, target>>

(* It is killed and started again.                                         *)
ServiceRestart == ServiceMayRestart /\ StartOver

CreateStep(c) ==
  \/ AllocatePorts(c) \/ CreateRecord(c) \/ SpawnEmulator(c) \/ SpawnSocat(c)
  \/ SpawnDhu(c) \/ AwaitFocus(c) \/ TrackHandles(c) \/ AnswerCreate(c)
  \/ CleanUpCreate(c) \/ ReleasePorts(c) \/ Unlist(c)

DestroyStep(c) ==
  \/ MarkDestroying(c) \/ KillInstance(c) \/ CleanFiles(c) \/ FreePorts(c)
  \/ RemoveInstance(c)

RestartStep(c) ==
  \/ Install(c) \/ StopDhu(c) \/ RespawnDhu(c) \/ RespawnFails(c)
  \/ AwaitRefocus(c)

UseStep(c) == Shoot(c) \/ SendCommand(c) \/ RunAdb(c)

Handle(c) ==
  \/ Begin(c)
  \/ CreateStep(c) \/ DestroyStep(c) \/ RestartStep(c) \/ UseStep(c)

Next ==
  \/ \E c \in Calls : Submit(c) \/ Handle(c)
  \/ Refresh
  \/ Die
  \/ ServiceRestart

Spec == Init /\ [][Next]_vars

-----------------------------------------------------------------------------
(* The shape of the state.                                                 *)
TypeOK ==
  /\ StoreTypeOK
  /\ alive \subseteq Process
  /\ handles \in [Names -> Handles]
  /\ strays \subseteq Stray
  /\ pipe \in [Names -> SUBSET Calls]
  /\ leftover \subseteq Process \cup Stray
  /\ pc \in [Calls -> Labels]
  /\ request \in [Calls -> Request]
  /\ target \in [Calls -> Calls \cup {NoCall}]
  /\ refresh \in {"sleep", "scan", "mark", "shoot", "stuck"}
  /\ todo \subseteq Calls
  /\ looking \in Calls \cup {NoCall}

(* The call's slot is its instance's: from allocate() to the release() of  *)
(* the handler that ends the instance.                                     *)
Creating(c) ==
  /\ Rpc(c) = "CreateInstance"
  /\ pc[c] \in (CreateLabels \ {"allocate", "unlist"}) \cup {"stuck"}

Ending(c) == At(c, "unlist") \/ \E d \in Calls : At(d, "remove") /\ target[d] = c

Owns(c) == Creating(c) \/ (instances[Name(c)] = c /\ ~ Ending(c))

(* Every slot in use is owned by one instance, and every instance has the  *)
(* slot its record tells: none is leaked and none is given away twice, by  *)
(* CreateInstance's three ways to fail or by DestroyInstance's port        *)
(* arithmetic.                                                             *)
PortsAccounted ==
  /\ \A c \in Calls : Owns(c) => ports[c] \in used
  /\ \A s \in used : \E c \in Calls : Owns(c) /\ ports[c] = s
  /\ \A c, d \in Calls : Owns(c) /\ Owns(d) /\ ports[c] = ports[d] => c = d

(* To its clients the manager is a pool of slots: a name has at most one,  *)
(* the lowest that was free; what runs for it runs while it has one; and   *)
(* neither a failed CreateInstance nor DestroyInstance returns it before   *)
(* all of that is gone, but for the strays of a failure                    *)
(* (instance_manager_service.py over port_allocator.py and                 *)
(* emulator_lifecycle.py).                                                 *)
Pool == INSTANCE InstancePool WITH
          free <- Slots \ used,
          granted <- {<<Name(c), ports[c]>> : c \in {d \in Calls : Owns(d)}},
          serving <- {Name(p.by) : p \in alive \ leftover}

ImplementsPool == Pool!PoolSpec

(* A process that runs belongs to an instance that owns its ports, neither *)
(* a failed CreateInstance nor DestroyInstance leaves one behind - but a   *)
(* head unit of a creation that fails outlives its shell                   *)
(* (emulator_lifecycle.py:220), and a restart of the head unit that fails  *)
(* may leave a keeper: nothing runs unknown to the tables that no failed   *)
(* call has started.  What a killed service leaves its successor is not    *)
(* counted.                                                                *)
NoOrphans ==
  /\ \A p \in alive \ leftover :
       \E c \in Calls : Owns(c) /\ Name(c) = Name(p.by)
  /\ \A p \in strays \ leftover : pc[p.by] \in {"release", "unlist", "failed"}

(* emulator-instance-manager.md:13: "allocates ports automatically so      *)
(* multiple instances coexist" - no two emulators on one port, unless the  *)
(* service found one it could not kill when it started.                    *)
InstancesCoexist ==
  \A p, q \in alive \ leftover :
    /\ p.kind = "emulator" /\ q.kind = "emulator"
    /\ ports[p.by] = ports[q.by]
    => p = q

(* When no call for it is under way, what the manager knows of an instance *)
(* agrees: the handles it kills by and the pids it falls back to are those *)
(* of the same processes, the newest ones; and what it writes to the pipe  *)
(* is read by the head unit of those, while that lives, and by none it has *)
(* started since and lost the handle of.                                   *)
ViewsAgree ==
  \A n \in Names :
    Present(n) /\ Outstanding(n) = {} =>
      LET dhu == handles[n]["dhu"] IN
      /\ dhu = record[instances[n]].dhu
      /\ P("dhu", dhu) \in alive => dhu \in pipe[n]
      /\ \A d \in pipe[n] : P("dhu", d) \in alive \ leftover => d = dhu
      /\ handles[n]["socat"] = record[instances[n]].socat
      /\ handles[n]["emulator"] = instances[n]

(* A handler kills only processes of the instance it was called for -      *)
(* although adb emu kill goes by port - and what an earlier service left.  *)
OnlyOwnKilled ==
  [][\A c \in Calls : pc[c] # pc'[c] /\ c \in Running /\ Running' # {} =>
       \A p \in (alive \ alive') \ leftover : Name(p.by) = Name(c)]_vars

=============================================================================
