---------------------------- MODULE AgentMonitor ----------------------------
(***************************************************************************)
(* The supervisor's agent side: the parts that watch and drive one agent,  *)
(* over the same session and log.  Which of them a process starts is its   *)
(* deployment: server.py starts the tailer only, the rest is started by    *)
(* its tests.                                                              *)
(***************************************************************************)
EXTENDS LogTailer, InputInjector, Watchdog

CONSTANT Deployments  \* the sets of parts that are started together

Parts == {"tailer", "injector", "watchdog"}

ASSUME DeploymentAssumption == Deployments \subseteq SUBSET Parts

VARIABLE deployed

vars == <<deployed, agentVars, tailerVars, injectorVars, watchdogVars>>

Init ==
  /\ deployed \in Deployments
  /\ AgentInit
  /\ TailerInit
  /\ InjectorInit
  /\ WatchdogInit

(* The agent does what somebody watches: the log is of no interest to a     *)
(* watchdog, nor the pane to the others.                                    *)
AgentActs ==
  /\ AgentStep
  /\ \/ alive' # alive
     \/ pane' # pane /\ "watchdog" \in deployed
     \/ <<generation, size>>' # <<generation, size>>
          /\ deployed \cap {"tailer", "injector"} # {}
  /\ NoteGrowth
  /\ UNCHANGED <<deployed, tailerVars, stage, before, late, typed, failures,
                 watchdogVars>>

TailerActs ==
  /\ "tailer" \in deployed
  /\ TailerStep
  /\ UNCHANGED <<deployed, agentVars, injectorVars, watchdogVars>>

InjectorActs(i) ==
  /\ "injector" \in deployed
  /\ InjectionStep(i)
  /\ UNCHANGED <<deployed, agentVars, tailerVars, watchdogVars>>

WatchdogActs ==
  /\ "watchdog" \in deployed
  /\ WatchdogStep
  /\ UNCHANGED <<deployed, agentVars, tailerVars, injectorVars>>

Next ==
  \/ AgentActs
  \/ TailerActs
  \/ \E i \in Inputs : InjectorActs(i)
  \/ WatchdogActs

Spec == Init /\ [][Next]_vars

(* Threads run, time passes and tmux answers.  Nothing is asked of the     *)
(* agent, the user or of whoever registers and stops.                      *)
Fairness ==
  /\ WF_vars(TailerActs)
  /\ \A i \in Inputs :
       WF_vars(/\ stage[i] # "new"
               /\ InjectorActs(i))
  /\ WF_vars(/\ "watchdog" \in deployed
             /\ TimePasses
             /\ UNCHANGED <<deployed, agentVars, tailerVars, injectorVars>>)
  /\ \A t \in Loops :
       WF_vars(/\ "watchdog" \in deployed
               /\ CheckStep(t)
               /\ UNCHANGED <<deployed, agentVars, tailerVars, injectorVars>>)

FairSpec == Spec /\ Fairness

TypeOK ==
  /\ deployed \in Deployments
  /\ AgentTypeOK
  /\ TailerTypeOK
  /\ InjectorTypeOK
  /\ WatchdogTypeOK

(* What the agent says reaches the store: a whole line of a log is emitted *)
(* in the end, unless it was read in two halves, lies before the place     *)
(* where its file was first read, its file was rotated away or is as long  *)
(* as the one before was, and so is taken for it - or a read ended within  *)
(* a character and took the tailer with it.                                *)
Written(l) == generation = l.gen /\ 2 * l.at <= size
Mistaken == entered[generation] > MaxSize /\ size = offset

LinesReachStore ==
  "tailer" \in deployed =>
    \A l \in Lines :
      Written(l) ~>
        (l \in emitted \/ Split(l) \/ PassedOver(l) \/ ~ Written(l) \/ Mistaken
           \/ tailing = "dead")
=============================================================================
