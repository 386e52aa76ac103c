---------------------------- MODULE AgentSession ----------------------------
(***************************************************************************)
(* What the supervisor's agent-side components watch and drive: an agent   *)
(* in a tmux session (supervisor/src/tmux_launcher.py) and the JSONL log   *)
(* it writes.  The agent itself is external: it writes, prints and dies    *)
(* when it pleases.                                                        *)
(*                                                                         *)
(* The log is counted in half lines, so that a reader can find a line half *)
(* written: line i of a file is its units 2*i-1 and 2*i.  A rotated log is *)
(* a new file, of the next generation, under the same name.                *)
(***************************************************************************)
EXTENDS Naturals, FiniteSets

CONSTANTS
  MaxSize,          \* bound: half lines per file
  MaxGenerations,   \* bound: files that have carried the log's name
  MaxPanes          \* bound: contents the pane has shown

ASSUME AgentAssumption ==
  MaxSize \in Nat /\ MaxGenerations \in Nat \ {0} /\ MaxPanes \in Nat

VARIABLES
  alive,       \* the tmux session exists
  pane,        \* what the pane shows, numbered
  generation,  \* which file carries the log's name
  size         \* its size

agentVars == <<alive, pane, generation, size>>

AgentInit ==
  /\ alive = TRUE
  /\ pane = 0
  /\ generation = 1
  /\ size = 0

(* start_session: tmux refuses a name that exists.                         *)
StartSession ==
  /\ ~ alive /\ pane < MaxPanes
  /\ alive' = TRUE
  /\ pane' = pane + 1
  /\ UNCHANGED <<generation, size>>

(* kill_session, or the agent's own end: the session goes with it.         *)
KillSession ==
  /\ alive
  /\ alive' = FALSE
  /\ UNCHANGED <<pane, generation, size>>

AgentPrints ==
  /\ alive /\ pane < MaxPanes
  /\ pane' = pane + 1
  /\ UNCHANGED <<alive, generation, size>>

(* The agent writes the next half line.                                    *)
AgentWrites ==
  /\ alive /\ size < MaxSize
  /\ size' = size + 1
  /\ UNCHANGED <<alive, pane, generation>>

RotateLog ==
  /\ generation < MaxGenerations
  /\ generation' = generation + 1
  /\ size' = 0
  /\ UNCHANGED <<alive, pane>>

AgentStep ==
  \/ StartSession
  \/ KillSession
  \/ AgentPrints
  \/ AgentWrites
  \/ RotateLog

AgentTypeOK ==
  /\ alive \in BOOLEAN
  /\ pane \in 0..MaxPanes
  /\ generation \in 1..MaxGenerations
  /\ size \in 0..MaxSize
=============================================================================
