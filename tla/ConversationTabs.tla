-------------------------- MODULE ConversationTabs --------------------------
(***************************************************************************)
(* The conversations of the car screen: ConversationTabManager.kt, and the *)
(* way a text message takes into it on the polling thread                  *)
(* (GrpcPollLoop.routeTextMessage).                                        *)
(*                                                                         *)
(* The lead agent has a list of its own.  A sub-agent gets a tab with its  *)
(* first message, if one is left; what an agent without a tab says is      *)
(* dropped.  Every call of the manager is one step under its lock; routing *)
(* a message is two of them and the callback.                              *)
(***************************************************************************)
EXTENDS Naturals, Sequences, SequencesExt

CONSTANTS
  Agents,       \* sub-agents
  Lead,         \* the lead agent
  MaxSubTabs,   \* MAX_SUB_AGENT_TABS
  MaxMessages   \* bound: text messages of the poll loop

ASSUME TabsAssumption ==
  Lead \notin Agents /\ MaxSubTabs \in Nat /\ MaxMessages \in Nat

VARIABLES
  order,       \* subAgentOrder
  messages,    \* leadAgentMessages and subAgentMessages; <<>> for no entry
  route,       \* where the polling thread is with which message
  from,        \* history: the agent of each message so far
  crowdedOut,  \* history: messages for which no tab was left
  removed      \* history: messages of an agent when its tab was removed

tabVars == <<order, messages, route, from, crowdedOut, removed>>

Speakers == Agents \cup {Lead}
Messages == 1..MaxMessages
HasTab(a) == a \in {order[i] : i \in 1..Len(order)}

TabsInit ==
  /\ order = <<>>
  /\ messages = [a \in Speakers |-> <<>>]
  /\ route = "idle"
  /\ from = <<>>
  /\ crowdedOut = {} /\ removed = {}

Message == Len(from)
Agent == from[Message]

(* A text message comes in.                                                *)
RouteTextMessage(a) ==
  /\ route = "idle" /\ Len(from) < MaxMessages
  /\ from' = Append(from, a)
  /\ route' = IF a = Lead THEN "append" ELSE "add"
  /\ UNCHANGED <<order, messages, crowdedOut, removed>>

(* Variant: an agent that has a tab is not looked for.                     *)
AddSubAgent_Anew ==
  /\ route = "add"
  /\ IF Len(order) >= MaxSubTabs /\ ~ HasTab(Agent)
     THEN /\ crowdedOut' = crowdedOut \cup {Message}
          /\ UNCHANGED <<order, messages>>
     ELSE /\ order' = IF HasTab(Agent) THEN order ELSE Append(order, Agent)
          /\ messages' = [messages EXCEPT ![Agent] = <<>>]
          /\ UNCHANGED crowdedOut
  /\ route' = "append"
  /\ UNCHANGED <<from, removed>>

(* addSubAgent: a tab for a new agent, while there is one.                 *)
AddSubAgent ==
  /\ route = "add"
  /\ \/ /\ ~ HasTab(Agent) /\ Len(order) < MaxSubTabs
        /\ order' = Append(order, Agent)
        /\ messages' = [messages EXCEPT ![Agent] = <<>>]
        /\ UNCHANGED crowdedOut
     \/ /\ ~ HasTab(Agent) /\ Len(order) >= MaxSubTabs
        /\ crowdedOut' = crowdedOut \cup {Message}
        /\ UNCHANGED <<order, messages>>
     \/ HasTab(Agent) /\ UNCHANGED <<order, messages, crowdedOut>>
  /\ route' = "append"
  /\ UNCHANGED <<from, removed>>

(* addLeadAgentMessage, addSubAgentMessage.                                *)
AddMessage ==
  /\ route = "append"
  /\ messages' = IF Agent = Lead \/ HasTab(Agent)
                 THEN [messages EXCEPT ![Agent] = Append(@, Message)]
                 ELSE messages
  /\ route' = "update"
  /\ UNCHANGED <<order, from, crowdedOut, removed>>

(* removeSubAgent, by whoever decides that an agent has gone.              *)
RemoveSubAgent(a) ==
  /\ \E i \in 1..Len(order) : order[i] = a /\ order' = RemoveAt(order, i)
  /\ messages' = [messages EXCEPT ![a] = <<>>]
  /\ removed' = removed \cup {m \in 1..Len(from) : from[m] = a}
  /\ UNCHANGED <<route, from, crowdedOut>>

TabsTypeOK ==
  /\ order \in Seq(Agents) /\ Len(order) <= MaxSubTabs
  /\ messages \in [Speakers -> Seq(Messages)]
  /\ route \in {"idle", "add", "append", "update"}
  /\ from \in Seq(Speakers) /\ Len(from) <= MaxMessages
  /\ crowdedOut \subseteq Messages /\ removed \subseteq Messages

(* No message is lost on its way: it is in the list of its agent - in the  *)
(* order of arrival -, or all tabs were taken by others when it came, or   *)
(* its agent's tab has been removed since (routing takes the lock twice,   *)
(* and what has no list is dropped without a word).                        *)
MessagesKept ==
  /\ \A m \in 1..Len(from) :
       \/ \E i \in 1..Len(messages[from[m]]) : messages[from[m]][i] = m
       \/ m \in crowdedOut \cup removed
       \/ m = Message /\ route \in {"add", "append"}
  /\ \A a \in Speakers : \A i, j \in 1..Len(messages[a]) :
       i < j => messages[a][i] < messages[a][j]
=============================================================================
