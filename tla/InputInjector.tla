--------------------------- MODULE InputInjector ----------------------------
(***************************************************************************)
(* User input on its way to the agent: SyncService.SendUserInput and       *)
(* supervisor/src/input_injector.py, one daemon thread per input.          *)
(*                                                                         *)
(* A thread notes the size of the agent's log, types the text into the     *)
(* session and watches the log until it has grown or the time is up.  The  *)
(* deadline is a state change of its own: it may pass before any look.     *)
(***************************************************************************)
EXTENDS AgentSession

CONSTANTS
  Inputs,        \* user inputs
  InjectorWired  \* whether the service was given an injector

ASSUME InjectorAssumption == InjectorWired \in BOOLEAN

VARIABLES
  stage,      \* where an input's thread is
  before,     \* size_before
  late,       \* inputs whose deadline has passed
  typed,      \* inputs that reached the session
  failures,   \* inputs with an InputDeliveryFailure in the store
  grown       \* history: inputs since whose size_before the log has grown

injectorVars == <<stage, before, late, typed, failures, grown>>

(* "refused": SendUserInput answered accepted = false.                     *)
Stages == {"new", "refused", "accepted", "measured", "waiting", "reporting",
           "answered", "failed", "raised"}

InjectorInit ==
  /\ stage = [i \in Inputs |-> "new"]
  /\ before = [i \in Inputs |-> 0]
  /\ late = {} /\ typed = {} /\ failures = {} /\ grown = {}

To(i, s) == stage' = [stage EXCEPT ![i] = s]

(* SendUserInput: the thread is started and the call answered.             *)
SendUserInput(i) ==
  /\ stage[i] = "new"
  /\ To(i, IF InjectorWired THEN "accepted" ELSE "refused")
  /\ UNCHANGED <<before, late, typed, failures, grown>>

MeasureLog(i) ==
  /\ stage[i] = "accepted"
  /\ before' = [before EXCEPT ![i] = size]
  /\ grown' = grown \ {i}
  /\ To(i, "measured")
  /\ UNCHANGED <<late, typed, failures>>

(* send_keys: with no session it raises, and the daemon thread ends there. *)
SendKeys(i) ==
  /\ stage[i] = "measured"
  /\ \/ alive /\ typed' = typed \cup {i} /\ To(i, "waiting")
     \/ ~ alive /\ UNCHANGED typed /\ To(i, "raised")
  /\ UNCHANGED <<before, late, failures, grown>>

DeadlinePasses(i) ==
  /\ stage[i] = "waiting" /\ i \notin late
  /\ late' = late \cup {i}
  /\ UNCHANGED <<stage, before, typed, failures, grown>>

(* Variant: a log that is not shorter will do.                             *)
Look_NotShorter(i) ==
  /\ stage[i] = "waiting"
  /\ \/ i \notin late /\ size >= before[i] /\ To(i, "answered")
     \/ i \in late /\ To(i, "reporting")
  /\ UNCHANGED <<before, late, typed, failures, grown>>

(* _wait_for_response: one round of its loop.                              *)
Look(i) ==
  /\ stage[i] = "waiting"
  /\ \/ i \notin late /\ size > before[i] /\ To(i, "answered")
     \/ i \in late /\ To(i, "reporting")
  /\ UNCHANGED <<before, late, typed, failures, grown>>

(* Variant: the failure is only returned.                                  *)
EmitFailure_Silent(i) ==
  /\ stage[i] = "reporting"
  /\ To(i, "failed")
  /\ UNCHANGED <<before, late, typed, failures, grown>>

EmitFailure(i) ==
  /\ stage[i] = "reporting"
  /\ failures' = failures \cup {i}
  /\ To(i, "failed")
  /\ UNCHANGED <<before, late, typed, grown>>

InjectionStep(i) ==
  \/ SendUserInput(i)
  \/ MeasureLog(i)
  \/ SendKeys(i)
  \/ DeadlinePasses(i)
  \/ Look(i)
  \/ EmitFailure(i)

(* The history a write of the agent leaves behind.                         *)
NoteGrowth ==
  grown' = IF size' > size
           THEN grown \cup {i \in Inputs : stage[i] \in {"measured", "waiting"}}
           ELSE grown

InjectorTypeOK ==
  /\ stage \in [Inputs -> Stages]
  /\ before \in [Inputs -> 0..MaxSize]
  /\ late \subseteq Inputs /\ typed \subseteq Inputs
  /\ failures \subseteq Inputs /\ grown \subseteq Inputs

(* An input is called answered only if it was typed and the agent wrote    *)
(* something after it was measured, and reported as undelivered only if it *)
(* was typed; never both, whatever other inputs wait for the same log      *)
(* (input_injector.py: any growth counts, as its docstring says).          *)
AnswerFollowsInput ==
  \A i \in Inputs :
    /\ stage[i] = "answered" => i \in typed \cap grown
    /\ i \in failures => i \in typed /\ stage[i] = "failed"

(* Every accepted input comes to an end the supervisor can see: an answer  *)
(* or a failure in the store - unless its session was gone when the keys   *)
(* were sent.                                                              *)
InputIsSettled ==
  \A i \in Inputs :
    stage[i] = "accepted" ~>
      (stage[i] \in {"answered", "raised"} \/ i \in failures)
=============================================================================
