------------------------------ MODULE HeadUnit ------------------------------
(***************************************************************************)
(* One instance of the manager as those who watch it see it: the record    *)
(* under its name, the named pipe and the log of its head units, over      *)
(* CreateInstance, RestartDhu, DestroyInstance, failures of the first two, *)
(* DhuCommand and the head units' own deaths (emulator_lifecycle.py).      *)
(* InstanceManager models those handlers and how they interleave; here one *)
(* follows the other, and each is cut where the pipe and the log change.   *)
(*                                                                         *)
(* Pipe and log keep their names.  A file is identified by the number of   *)
(* the head unit it was first there for; a head unit that is started where *)
(* there is a pipe or a log already shares it.                             *)
(***************************************************************************)
EXTENDS Naturals, FiniteSets

CONSTANTS
  MaxUnits,   \* bound: head units that were to be started
  MaxLines    \* bound: lines of one log

ASSUME HeadUnitAssumption == MaxUnits \in Nat \ {0} /\ MaxLines \in Nat

VARIABLES
  host,    \* the record of the name, and where the handler working on it is
  ran,     \* the name has had a record in state RUNNING
  units,   \* head units that were to be started so far
  path,    \* what the pipe's name stands for
  unit,    \* the files each head unit has open, as long as it lives
  log,     \* the file that has the log's name
  lines    \* the length of each log

hostVars == <<host, ran, units, path, unit, log, lines>>

Units == 1..MaxUnits
Logs == 1..(MaxUnits + 1)
Nothing == 0
RegularFile == MaxUnits + 1
Dead == [reads |-> Nothing, writes |-> Nothing]

HostInit ==
  /\ host = "absent"
  /\ ran = FALSE
  /\ units = 0
  /\ path = Nothing /\ log = Nothing
  /\ unit = [u \in Units |-> Dead]
  /\ lines = [l \in Logs |-> 0]

Listed == host # "absent"

Readers(p) == {u \in Units : p # Nothing /\ unit[u].reads = p}

(* mkfifo does nothing when there is something of that name.               *)
PipeAfter(n) == IF path = Nothing THEN n ELSE path

(* The head unit appends to what has the log's name.                       *)
LogAfter(n) == IF log = Nothing THEN n ELSE log

(* A head unit that finds a regular file for its pipe reads its end.       *)
Started(p, l) == [reads |-> IF p = RegularFile THEN Nothing ELSE p, writes |-> l]

(* The log that would be made now is the one of this head unit.            *)
NextLog == IF host \in {"running", "killed", "made", "failed", "destroying"}
           THEN units ELSE units + 1

-----------------------------------------------------------------------------
(* CreateInstance: the record,                                             *)
BeginCreate ==
  /\ host = "absent" /\ units < MaxUnits
  /\ host' = "creating"
  /\ UNCHANGED <<ran, units, path, unit, log, lines>>

(* and from mkfifo to RUNNING.  On a regular file the head unit would read *)
(* an end of file, and the call fail.                                      *)
Create ==
  /\ host = "creating" /\ path # RegularFile
  /\ host' = "running" /\ ran' = TRUE
  /\ units' = units + 1
  /\ path' = PipeAfter(units') /\ log' = LogAfter(units')
  /\ unit' = [unit EXCEPT ![units'] = Started(path', log')]
  /\ UNCHANGED lines

(* A creation that fails at the pipe or after it leaves what it has made:  *)
(* pipe, log and, as only its shell is killed, the head unit, which lives  *)
(* until it dies by itself.                                                *)
CreateFails ==
  /\ host = "creating"
  /\ host' = "failed"
  /\ units' = units + 1
  /\ path' = PipeAfter(units')
  /\ \/ UNCHANGED <<unit, log>>
     \/ /\ log' = LogAfter(units')
        /\ unit' = [unit EXCEPT ![units'] = Started(path', log')]
  /\ UNCHANGED <<ran, lines>>

-----------------------------------------------------------------------------
(* The newest head unit is killed, the whole process group.                *)
Kill == unit' = [unit EXCEPT ![units] = Dead]

(* RestartDhu: the kill;                                                   *)
KillUnit ==
  /\ host = "running" /\ units < MaxUnits
  /\ host' = "killed"
  /\ Kill
  /\ UNCHANGED <<ran, units, path, log, lines>>

(* pipe and log are removed,                                               *)
RemoveFiles ==
  /\ host = "killed"
  /\ host' = "removed"
  /\ path' = Nothing /\ log' = Nothing
  /\ UNCHANGED <<ran, units, unit, lines>>

(* mkfifo makes the next pipe,                                             *)
MakePipe ==
  /\ host = "removed"
  /\ host' = "made"
  /\ units' = units + 1
  /\ path' = PipeAfter(units')
  /\ UNCHANGED <<ran, unit, log, lines>>

(* and the next head unit is started on it - or keeper or head unit cannot *)
(* be started, and the record stays RUNNING.                               *)
SpawnUnit ==
  /\ host = "made"
  /\ host' = "running"
  /\ \/ /\ log' = LogAfter(units)
        /\ unit' = [unit EXCEPT ![units] = Started(path, log')]
     \/ UNCHANGED <<unit, log>>
  /\ UNCHANGED <<ran, units, path, lines>>

(* DestroyInstance: state DESTROYING and the kill, the files.              *)
BeginDestroy ==
  /\ host = "running"
  /\ host' = "destroying"
  /\ Kill
  /\ UNCHANGED <<ran, units, path, log, lines>>

EraseFiles ==
  /\ host = "destroying"
  /\ host' = "erased"
  /\ path' = Nothing /\ log' = Nothing
  /\ UNCHANGED <<ran, units, unit, lines>>

(* The record goes, after a destruction or a failed creation.              *)
RemoveRecord ==
  /\ host \in {"erased", "failed"}
  /\ host' = "absent"
  /\ UNCHANGED <<ran, units, path, unit, log, lines>>

-----------------------------------------------------------------------------
(* A head unit dies by itself,                                             *)
UnitDies ==
  /\ \E u \in Units : unit[u] # Dead /\ unit' = [unit EXCEPT ![u] = Dead]
  /\ UNCHANGED <<host, ran, units, path, log, lines>>

(* or writes to its log, whatever name that has by now.                    *)
LogLine ==
  /\ \E u \in Units :
       LET l == unit[u].writes IN
         /\ l # Nothing /\ lines[l] < MaxLines
         /\ lines' = [lines EXCEPT ![l] = @ + 1]
  /\ UNCHANGED <<host, ran, units, path, unit, log>>

(* DhuCommand, whose handler has seen a RUNNING record that may be gone by *)
(* now: the echo in the log, which open() makes if it must,                *)
EchoLine ==
  /\ ran
  /\ log' = LogAfter(NextLog)
  /\ lines[log'] < MaxLines
  /\ lines' = [lines EXCEPT ![log'] = @ + 1]
  /\ UNCHANGED <<host, ran, units, path, unit>>

(* and the write to the pipe, which makes a regular file if it must.       *)
WritePipe ==
  /\ ran /\ path = Nothing
  /\ path' = RegularFile
  /\ UNCHANGED <<host, ran, units, unit, log, lines>>

HostStep ==
  \/ BeginCreate \/ Create \/ CreateFails
  \/ KillUnit \/ RemoveFiles \/ MakePipe \/ SpawnUnit
  \/ BeginDestroy \/ EraseFiles \/ RemoveRecord
  \/ UnitDies \/ LogLine
  \/ EchoLine \/ WritePipe

HostTypeOK ==
  /\ host \in {"absent", "creating", "failed", "running", "killed",
               "removed", "made", "destroying", "erased"}
  /\ ran \in BOOLEAN
  /\ units \in 0..MaxUnits
  /\ path \in 0..RegularFile
  /\ unit \in [Units -> [reads : 0..MaxUnits, writes : 0..(MaxUnits + 1)]]
  /\ log \in 0..(MaxUnits + 1)
  /\ lines \in [Logs -> 0..MaxLines]
=============================================================================
