---------------------------- MODULE Screen_proofs ---------------------------
(***************************************************************************)
(* The safety of the car screen, for any number of agents, messages and    *)
(* bitmaps.  Conversations, pictures and templates have invariants of      *)
(* their own; those of the templates rest on the other two.                *)
(***************************************************************************)
EXTENDS Screen, SequenceTheorems, FiniteSetTheorems, TLAPS

(* No agent has two tabs.                                                  *)
OneTabEach ==
  \A i, j \in 1..Len(order) : order[i] = order[j] => i = j

(* An agent without a tab has no messages.                                 *)
Untabbed ==
  \A a \in Agents : ~ HasTab(a) => messages[a] = <<>>

(* What is on its way is newer than what is listed.                        *)
NewestOnItsWay ==
  \A a \in Speakers : \A i \in 1..Len(messages[a]) :
    /\ messages[a][i] <= Len(from)
    /\ route \in {"add", "append"} => messages[a][i] < Len(from)

(* The message on its way has an agent, which has a list by the time the   *)
(* message is appended.                                                    *)
Routed ==
  /\ route # "idle" => Len(from) > 0
  /\ route = "add" => Agent # Lead
  /\ route = "append" =>
       Agent = Lead \/ HasTab(Agent) \/ Message \in crowdedOut \cup removed

TabsInv ==
  /\ TabsTypeOK
  /\ OneTabEach
  /\ Untabbed
  /\ NewestOnItsWay
  /\ Routed
  /\ MessagesKept

LEMMA ListedIsMessage ==
  ASSUME TabsTypeOK, NEW a \in Speakers
  PROVE  /\ messages[a] \in Seq(Messages) /\ Len(messages[a]) \in Nat
         /\ \A i \in 1..Len(messages[a]) :
              messages[a][i] \in Messages /\ messages[a][i] \in Nat
<1>1. messages[a] \in Seq(Messages)
  BY DEF TabsTypeOK
<1>2. Len(messages[a]) \in Nat
  BY <1>1, LenProperties
<1>3. \A i \in 1..Len(messages[a]) : messages[a][i] \in Messages
  BY <1>1, ElementOfSeq
<1>4. Messages \subseteq Nat
  BY TabsAssumption DEF Messages
<1> QED
  BY <1>1, <1>2, <1>3, <1>4

LEMMA TabsInitial == TabsInit => TabsInv
<1> USE DEF TabsInit
<1>1. TabsInit => TabsTypeOK
  BY TabsAssumption DEF TabsTypeOK
<1>2. TabsInit => OneTabEach /\ Untabbed /\ NewestOnItsWay /\ Routed /\ MessagesKept
  BY DEF OneTabEach, Untabbed, NewestOnItsWay, Routed, MessagesKept, Speakers
<1> QED
  BY <1>1, <1>2 DEF TabsInv

(* A message comes in.                                                     *)
LEMMA RouteStep ==
  ASSUME TabsInv, NEW a \in Speakers, RouteTextMessage(a)
  PROVE  TabsInv'
<1>1. /\ from' = Append(from, a) /\ from \in Seq(Speakers)
      /\ Len(from') = Len(from) + 1
      /\ from'[Len(from) + 1] = a
      /\ \A m \in 1..Len(from) : from'[m] = from[m]
      /\ Len(from) \in Nat
  BY AppendProperties, LenProperties DEF RouteTextMessage, TabsInv, TabsTypeOK
<1>2. /\ route = "idle" /\ Len(from) < MaxMessages
      /\ route' = IF a = Lead THEN "append" ELSE "add"
      /\ UNCHANGED <<order, messages, crowdedOut, removed>>
  BY DEF RouteTextMessage
<1> USE DEF TabsInv
<1>3. TabsTypeOK'
  BY <1>1, <1>2, TabsAssumption DEF TabsTypeOK
<1>4. OneTabEach' /\ Untabbed'
  BY <1>2 DEF OneTabEach, Untabbed, HasTab
<1>5. NewestOnItsWay'
  <2>1. ASSUME NEW b \in Speakers, NEW i \in 1..Len(messages[b])
        PROVE  messages[b][i] <= Len(from') /\ messages[b][i] < Len(from')
    <3>1. messages[b][i] \in Nat
      BY ListedIsMessage
    <3>2. messages[b][i] <= Len(from)
      BY DEF NewestOnItsWay
    <3> QED
      BY <1>1, <3>1, <3>2
  <2> QED
    BY <1>2, <2>1 DEF NewestOnItsWay
<1>6. Routed'
  BY <1>1, <1>2 DEF Routed, Agent, Message
<1>7. MessagesKept'
  BY <1>1, <1>2 DEF MessagesKept, Message
<1> QED
  BY <1>3, <1>4, <1>5, <1>6, <1>7


(* addSubAgent: the tab of a new agent is empty, as its list was.          *)
LEMMA AddTabStep ==
  ASSUME TabsInv, AddSubAgent
  PROVE  TabsInv'
<1> USE DEF TabsInv
<1>1. /\ route = "add" /\ route' = "append"
      /\ from' = from /\ removed' = removed
      /\ Agent' = Agent /\ Message' = Message
  BY DEF AddSubAgent, Agent, Message
<1>2. /\ Len(from) \in Nat /\ Message \in 1..Len(from) /\ Message \in Messages
      /\ Agent \in Agents
  <2>1. from \in Seq(Speakers) /\ Len(from) \in Nat /\ Len(from) > 0
    BY <1>1, LenProperties DEF TabsTypeOK, Routed
  <2>2. Agent \in Speakers
    BY <2>1, ElementOfSeq DEF Agent, Message
  <2> QED
    BY <1>1, <2>1, <2>2, TabsAssumption
    DEF Routed, Speakers, Message, Messages, TabsTypeOK
<1>3. CASE HasTab(Agent) /\ UNCHANGED <<order, messages, crowdedOut>>
  <2>1. TabsTypeOK' /\ OneTabEach' /\ Untabbed' /\ NewestOnItsWay'
    BY <1>1, <1>3 DEF TabsTypeOK, OneTabEach, Untabbed, HasTab, NewestOnItsWay
  <2>2. Routed' /\ MessagesKept'
    BY <1>1, <1>2, <1>3 DEF Routed, HasTab, MessagesKept
  <2> QED
    BY <2>1, <2>2
<1>4. CASE /\ ~ HasTab(Agent)
           /\ crowdedOut' = crowdedOut \cup {Message}
           /\ UNCHANGED <<order, messages>>
  <2>1. TabsTypeOK'
    BY <1>1, <1>2, <1>4 DEF TabsTypeOK
  <2>2. OneTabEach' /\ Untabbed' /\ NewestOnItsWay'
    BY <1>1, <1>4 DEF OneTabEach, Untabbed, HasTab, NewestOnItsWay
  <2>3. Routed' /\ MessagesKept'
    BY <1>1, <1>2, <1>4 DEF Routed, MessagesKept
  <2> QED
    BY <2>1, <2>2, <2>3
<1>5. CASE /\ ~ HasTab(Agent) /\ Len(order) < MaxSubTabs
           /\ order' = Append(order, Agent)
           /\ messages' = [messages EXCEPT ![Agent] = <<>>]
           /\ UNCHANGED crowdedOut
  <2>1. messages' = messages
    BY <1>2, <1>5 DEF Untabbed, TabsTypeOK
  <2>2. /\ order \in Seq(Agents) /\ order' \in Seq(Agents)
        /\ Len(order) \in Nat /\ Len(order') = Len(order) + 1
        /\ \A i \in 1..Len(order) : order'[i] = order[i]
        /\ order'[Len(order) + 1] = Agent
    BY <1>2, <1>5, AppendProperties, LenProperties DEF TabsTypeOK
  <2>3. \A a : HasTab(a)' <=> HasTab(a) \/ a = Agent
    BY <2>2 DEF HasTab
  <2>4. TabsTypeOK'
    <3>1. Len(order') <= MaxSubTabs
      BY <1>5, <2>2, TabsAssumption
    <3>2. UNCHANGED <<messages, from, crowdedOut, removed>> /\ route' = "append"
      BY <1>1, <1>5, <2>1
    <3> QED
      BY <2>2, <3>1, <3>2 DEF TabsTypeOK
  <2>5. OneTabEach'
    BY <1>5, <2>2 DEF OneTabEach, HasTab
  <2>6. Untabbed' /\ NewestOnItsWay'
    BY <1>1, <2>1, <2>3 DEF Untabbed, NewestOnItsWay
  <2>7. Routed' /\ MessagesKept'
    BY <1>1, <1>2, <1>5, <2>1, <2>3 DEF Routed, MessagesKept
  <2> QED
    BY <2>4, <2>5, <2>6, <2>7
<1> QED
  BY <1>3, <1>4, <1>5 DEF AddSubAgent

(* addLeadAgentMessage, addSubAgentMessage.                                *)
LEMMA AddMessageStep ==
  ASSUME TabsInv, AddMessage
  PROVE  TabsInv'
<1> USE DEF TabsInv
<1>1. /\ route = "append" /\ route' = "update"
      /\ UNCHANGED <<order, from, crowdedOut, removed>>
      /\ Agent' = Agent /\ Message' = Message
      /\ \A a : HasTab(a)' <=> HasTab(a)
  BY DEF AddMessage, Agent, Message, HasTab
<1>2. /\ Len(from) \in Nat /\ Len(from) > 0 /\ Message = Len(from)
      /\ Message \in Messages /\ Agent \in Speakers /\ Agent = from[Message]
  <2>1. from \in Seq(Speakers) /\ Len(from) \in Nat /\ Len(from) > 0
    BY <1>1, LenProperties DEF TabsTypeOK, Routed
  <2> QED
    BY <2>1, ElementOfSeq, TabsAssumption DEF Agent, Message, Messages, TabsTypeOK
<1>3. CASE Agent # Lead /\ ~ HasTab(Agent)
  <2>1. messages' = messages
    BY <1>3 DEF AddMessage
  <2>2. TabsTypeOK' /\ OneTabEach' /\ Untabbed' /\ Routed'
    BY <1>1, <1>2, <2>1 DEF TabsTypeOK, OneTabEach, Untabbed, HasTab, Routed
  <2>3. NewestOnItsWay'
    BY <1>1, <2>1 DEF NewestOnItsWay
  <2>4. MessagesKept'
    BY <1>1, <1>3, <2>1 DEF MessagesKept, Routed
  <2> QED
    BY <2>2, <2>3, <2>4
<1>4. CASE Agent = Lead \/ HasTab(Agent)
  <2>1. messages' = [messages EXCEPT ![Agent] = Append(@, Message)]
    BY <1>4 DEF AddMessage
  <2>2. /\ messages[Agent] \in Seq(Messages)
        /\ messages'[Agent] = Append(messages[Agent], Message)
        /\ \A a \in Speakers \ {Agent} : messages'[a] = messages[a]
    BY <1>2, <2>1 DEF TabsTypeOK
  <2>3. /\ messages'[Agent] \in Seq(Messages) /\ Len(messages[Agent]) \in Nat
        /\ Len(messages'[Agent]) = Len(messages[Agent]) + 1
        /\ \A i \in 1..Len(messages[Agent]) :
             messages'[Agent][i] = messages[Agent][i]
        /\ messages'[Agent][Len(messages[Agent]) + 1] = Message
    BY <1>2, <2>2, AppendProperties, LenProperties
  <2>4. TabsTypeOK'
    BY <1>1, <1>2, <2>1, <2>3 DEF TabsTypeOK
  <2>5. OneTabEach' /\ Routed'
    BY <1>1, <1>2 DEF OneTabEach, Routed
  <2>6. Untabbed'
    BY <1>1, <1>4, <2>2, TabsAssumption DEF Untabbed, Speakers
  <2>7. NewestOnItsWay'
    <3>1. ASSUME NEW a \in Speakers, NEW i \in 1..Len(messages'[a])
          PROVE  messages'[a][i] <= Len(from)
      <4>1. CASE a # Agent
        BY <2>2, <4>1 DEF NewestOnItsWay
      <4>2. CASE a = Agent /\ i \in 1..Len(messages[Agent])
        BY <1>2, <2>3, <4>2 DEF NewestOnItsWay
      <4>3. CASE a = Agent /\ i = Len(messages[Agent]) + 1
        BY <1>2, <2>3, <4>3
      <4> QED
        BY <2>3, <4>1, <4>2, <4>3
    <3> QED
      BY <1>1, <3>1 DEF NewestOnItsWay
  <2>8. \A m \in 1..Len(from) :
          \/ \E i \in 1..Len(messages'[from[m]]) : messages'[from[m]][i] = m
          \/ m \in crowdedOut \cup removed
    <3> SUFFICES ASSUME NEW m \in 1..Len(from), m \notin crowdedOut \cup removed
                 PROVE  \E i \in 1..Len(messages'[from[m]]) :
                          messages'[from[m]][i] = m
      OBVIOUS
    <3>1. CASE m = Message
      BY <1>2, <2>3, <3>1
    <3>2. CASE m # Message
      <4>1. PICK i \in 1..Len(messages[from[m]]) : messages[from[m]][i] = m
        BY <3>2 DEF MessagesKept
      <4>2. from[m] \in Speakers
        BY ElementOfSeq DEF TabsTypeOK
      <4>3. CASE from[m] = Agent
        BY <2>3, <4>1, <4>3
      <4>4. CASE from[m] # Agent
        BY <2>2, <4>1, <4>2, <4>4
      <4> QED
        BY <4>3, <4>4
    <3> QED
      BY <3>1, <3>2
  <2>9. ASSUME NEW a \in Speakers, NEW i \in 1..Len(messages'[a]),
               NEW j \in 1..Len(messages'[a]), i < j
        PROVE  messages'[a][i] < messages'[a][j]
    <3>1. CASE a # Agent
      BY <2>2, <2>9, <3>1 DEF MessagesKept
    <3>2. CASE a = Agent /\ j <= Len(messages[Agent])
      BY <2>3, <2>9, <3>2 DEF MessagesKept
    <3>3. CASE a = Agent /\ j = Len(messages[Agent]) + 1
      <4>1. messages'[a][i] = messages[Agent][i] /\ i \in 1..Len(messages[Agent])
        BY <2>3, <2>9, <3>3
      <4>2. messages[Agent][i] < Len(from)
        BY <1>1, <1>2, <4>1 DEF NewestOnItsWay
      <4> QED
        BY <1>2, <2>3, <3>3, <4>1, <4>2
    <3> QED
      BY <2>3, <3>1, <3>2, <3>3
  <2>10. MessagesKept'
    BY <1>1, <2>8, <2>9 DEF MessagesKept
  <2> QED
    BY <2>4, <2>5, <2>6, <2>7, <2>10
<1> QED
  BY <1>3, <1>4

(* What is left of a sequence without its i-th element.                    *)
LEMMA RemovedAt ==
  ASSUME NEW S, NEW s \in Seq(S), NEW i \in 1..Len(s)
  PROVE  /\ RemoveAt(s, i) \in Seq(S)
         /\ Len(RemoveAt(s, i)) = Len(s) - 1
         /\ \A j \in 1..(Len(s) - 1) :
              RemoveAt(s, i)[j] = IF j < i THEN s[j] ELSE s[j + 1]
<1> DEFINE l == SubSeq(s, 1, i - 1)
           r == SubSeq(s, i + 1, Len(s))
<1>1. Len(s) \in Nat /\ \A j \in 1..Len(s) : s[j] \in S
  BY LenProperties, ElementOfSeq
<1>2. /\ l \in Seq(S) /\ Len(l) = i - 1
      /\ \A j \in 1..(i - 1) : l[j] = s[j]
  BY <1>1, SubSeqProperties
<1>3. /\ r \in Seq(S) /\ Len(r) = Len(s) - i
      /\ \A j \in 1..(Len(s) - i) : r[j] = s[j + i]
  BY <1>1, SubSeqProperties
<1> HIDE DEF l, r
<1>4. /\ l \o r \in Seq(S) /\ Len(l \o r) = Len(l) + Len(r)
      /\ \A j \in 1..(Len(l) + Len(r)) :
           (l \o r)[j] = IF j <= Len(l) THEN l[j] ELSE r[j - Len(l)]
  BY <1>2, <1>3, ConcatProperties
<1>5. RemoveAt(s, i) = l \o r
  BY DEF RemoveAt, l, r
<1>6. ASSUME NEW j \in 1..(Len(s) - 1)
      PROVE  (l \o r)[j] = IF j < i THEN s[j] ELSE s[j + 1]
  <2>1. CASE j < i
    BY <1>1, <1>2, <1>3, <1>4, <2>1
  <2>2. CASE j >= i
    <3>1. (l \o r)[j] = r[j - (i - 1)]
      BY <1>1, <1>2, <1>3, <1>4, <2>2
    <3>2. j - (i - 1) \in 1..(Len(s) - i) /\ j - (i - 1) + i = j + 1
      BY <1>1, <2>2
    <3>3. r[j - (i - 1)] = s[j - (i - 1) + i]
      BY <1>3, <3>2
    <3>4. ~ (j < i)
      BY <1>1, <2>2
    <3> QED
      BY <3>1, <3>2, <3>3, <3>4, Zenon
  <2>3. j < i \/ j >= i
    BY <1>1
  <2> QED
    BY <2>1, <2>2, <2>3, Zenon
<1>7. Len(l \o r) = Len(s) - 1
  BY <1>1, <1>2, <1>3, <1>4
<1> QED
  BY <1>4, <1>5, <1>6, <1>7

(* removeSubAgent: the others keep their tabs.                             *)
LEMMA RemoveTabStep ==
  ASSUME TabsInv, NEW a \in Agents, RemoveSubAgent(a)
  PROVE  /\ TabsInv'
         /\ \A b : HasTab(b)' <=> HasTab(b) /\ b # a
<1> USE DEF TabsInv
<1>1. PICK i \in 1..Len(order) : order[i] = a /\ order' = RemoveAt(order, i)
  BY DEF RemoveSubAgent
<1>2. /\ messages' = [messages EXCEPT ![a] = <<>>]
      /\ removed' = removed \cup {m \in 1..Len(from) : from[m] = a}
      /\ UNCHANGED <<route, from, crowdedOut>>
      /\ Agent' = Agent /\ Message' = Message
  BY DEF RemoveSubAgent, Agent, Message
<1>3. order \in Seq(Agents) /\ Len(order) \in Nat /\ Len(order) <= MaxSubTabs
  BY LenProperties DEF TabsTypeOK
<1>4. /\ order' \in Seq(Agents) /\ Len(order') = Len(order) - 1
      /\ \A j \in 1..Len(order') :
           order'[j] = IF j < i THEN order[j] ELSE order[j + 1]
  BY <1>1, <1>3, RemovedAt
<1>5. \A b : HasTab(b)' <=> HasTab(b) /\ b # a
  <2>1. ASSUME NEW j \in 1..Len(order')
        PROVE  HasTab(order'[j]) /\ order'[j] # a
    BY <1>1, <1>3, <1>4 DEF HasTab, OneTabEach
  <2>2. ASSUME NEW b, HasTab(b), b # a
        PROVE  HasTab(b)'
    <3>1. PICK j \in 1..Len(order) : order[j] = b
      BY <2>2 DEF HasTab
    <3>2. CASE j < i
      BY <1>3, <1>4, <3>1, <3>2 DEF HasTab
    <3>3. CASE j > i
      <4>1. j - 1 \in 1..Len(order') /\ order'[j - 1] = order[j]
        BY <1>3, <1>4, <3>3
      <4> QED
        BY <3>1, <4>1 DEF HasTab
    <3> QED
      BY <1>1, <2>2, <3>1, <3>2, <3>3
  <2> QED
    BY <2>1, <2>2 DEF HasTab
<1>6. /\ messages'[a] = <<>>
      /\ \A b \in Speakers \ {a} : messages'[b] = messages[b]
      /\ messages' \in [Speakers -> Seq(Messages)]
      /\ Len(from) \in Nat /\ from \in Seq(Speakers) /\ a \in Speakers
  BY <1>2, LenProperties DEF TabsTypeOK, Speakers
<1>7. TabsTypeOK'
  <2>1. {m \in 1..Len(from) : from[m] = a} \subseteq Messages
    BY <1>6, TabsAssumption DEF TabsTypeOK, Messages
  <2> QED
    BY <1>2, <1>3, <1>4, <1>6, <2>1, TabsAssumption DEF TabsTypeOK
<1>8. OneTabEach'
  BY <1>3, <1>4 DEF OneTabEach
<1>9. Untabbed'
  BY <1>5, <1>6 DEF Untabbed, Speakers
<1>10. NewestOnItsWay'
  BY <1>2, <1>6 DEF NewestOnItsWay
<1>11. Routed'
  <2>1. route # "idle" => Agent = from[Len(from)] /\ Message = Len(from)
    BY DEF Agent, Message
  <2> QED
    BY <1>2, <1>5, <1>6, <2>1 DEF Routed
<1>12. MessagesKept'
  <2>1. ASSUME NEW m \in 1..Len(from)
        PROVE  \/ \E j \in 1..Len(messages'[from[m]]) : messages'[from[m]][j] = m
               \/ m \in crowdedOut' \cup removed'
               \/ m = Message' /\ route' \in {"add", "append"}
    <3>1. CASE from[m] = a
      BY <1>2, <3>1
    <3>2. CASE from[m] # a
      <4>1. messages'[from[m]] = messages[from[m]]
        BY <1>6, <3>2, ElementOfSeq
      <4> QED
        BY <1>2, <4>1 DEF MessagesKept
    <3> QED
      BY <3>1, <3>2
  <2>2. \A b \in Speakers : \A j, k \in 1..Len(messages'[b]) :
          j < k => messages'[b][j] < messages'[b][k]
    BY <1>6 DEF MessagesKept
  <2> QED
    BY <1>2, <2>1, <2>2 DEF MessagesKept
<1> QED
  BY <1>5, <1>7, <1>8, <1>9, <1>10, <1>11, <1>12

(* The end of a message.                                                   *)
LEMMA UpdateStep ==
  ASSUME TabsInv, OnUpdate
  PROVE  TabsInv'
<1>1. /\ route = "update" /\ route' = "idle"
      /\ UNCHANGED <<order, messages, from, crowdedOut, removed>>
  BY DEF OnUpdate
<1> QED
  BY <1>1 DEF TabsInv, TabsTypeOK, OneTabEach, Untabbed, HasTab, NewestOnItsWay,
              Routed, MessagesKept

LEMMA TabsUnchanged ==
  ASSUME TabsInv, UNCHANGED tabVars
  PROVE  TabsInv'
  BY DEF tabVars, TabsInv, TabsTypeOK, OneTabEach, Untabbed, HasTab,
         NewestOnItsWay, Routed, Agent, Message, MessagesKept

-----------------------------------------------------------------------------
PicturesInv ==
  /\ PicturesTypeOK
  /\ PictureOfHistory

LEMMA PicturesInitial == PicturesInit => PicturesInv
<1> SUFFICES ASSUME PicturesInit
             PROVE  PicturesInv
  OBVIOUS
<1>1. entries \in Seq(Keys) /\ Len(entries) = 0 /\ index = 0
  BY EmptySeq DEF PicturesInit
<1>2. missed \in BOOLEAN
  BY DEF PicturesInit
<1>3. PicturesTypeOK
  BY <1>1, <1>2, HistoryAssumption DEF PicturesInit, PicturesTypeOK
<1>4. PictureOfHistory
  BY DEF PicturesInit, PictureOfHistory
<1> QED
  BY <1>3, <1>4 DEF PicturesInv

(* What addEntry leaves is within its bound, and current.                  *)
LEMMA EntryAdded ==
  ASSUME PicturesTypeOK, NEW k \in Keys, AddEntry(k)
  PROVE  /\ entries' \in Seq(Keys) /\ Len(entries') <= HistorySize
         /\ index' \in 0..Len(entries')
         /\ CurrentKey' = k
<1>1. /\ entries \in Seq(Keys) /\ Len(entries) \in Nat /\ index \in 0..Len(entries)
      /\ Len(entries) <= HistorySize /\ HistorySize \in Nat \ {0}
      /\ \A i \in 1..Len(entries) : entries[i] \in Keys
  BY LenProperties, ElementOfSeq, HistoryAssumption DEF PicturesTypeOK
<1>2. CASE CurrentKey = k
  BY <1>1, <1>2 DEF AddEntry, CurrentKey
<1>3. CASE CurrentKey # k
  <2> DEFINE old == SubSeq(entries, 1, index)
             new == Append(old, k)
             kept == IF Len(new) > HistorySize THEN Tail(new) ELSE new
  <2>1. old \in Seq(Keys) /\ Len(old) = index
    BY <1>1, SubSeqProperties
  <2>2. entries' = kept /\ index' = Len(kept)
    BY <1>3 DEF AddEntry
  <2> HIDE DEF old
  <2>3. new \in Seq(Keys) /\ Len(new) = index + 1 /\ new[index + 1] = k
    BY <2>1, AppendProperties
  <2> HIDE DEF new
  <2>4. CASE Len(new) > HistorySize
    <3>1. new # <<>> /\ index > 0
      BY <1>1, <2>3, <2>4
    <3>2. /\ Tail(new) \in Seq(Keys) /\ Len(Tail(new)) = index
          /\ Tail(new)[index] = new[index + 1]
      BY <1>1, <2>3, <3>1, HeadTailProperties
    <3>3. kept = Tail(new)
      BY <2>4
    <3>4. index' = index /\ entries'[index] = k
      BY <2>2, <2>3, <3>2, <3>3
    <3> QED
      BY <1>1, <2>2, <3>1, <3>2, <3>3, <3>4 DEF CurrentKey
  <2>5. CASE ~ (Len(new) > HistorySize)
    <3>1. kept = new
      BY <2>5
    <3>2. index' = index + 1 /\ entries'[index + 1] = k
      BY <2>2, <2>3, <3>1
    <3> QED
      BY <1>1, <2>2, <2>3, <2>5, <3>1, <3>2 DEF CurrentKey
  <2> QED
    BY <2>4, <2>5
<1> QED
  BY <1>2, <1>3

(* A new picture is shown, and is the current entry.                       *)
LEMMA DisplayStep ==
  ASSUME PicturesInv, NEW k \in Keys, Display(k)
  PROVE  PicturesInv'
<1>1. /\ entries' \in Seq(Keys) /\ Len(entries') <= HistorySize
      /\ index' \in 0..Len(entries') /\ CurrentKey' = k
  BY EntryAdded DEF Display, PicturesInv
<1>2. /\ picture' = k /\ missed' = FALSE
      /\ surface' = IF surface = "none" THEN surface ELSE k
  BY DEF Display, DisplayBitmap
<1>3. PicturesTypeOK'
  BY <1>1, <1>2 DEF PicturesInv, PicturesTypeOK
<1>4. PictureOfHistory'
  BY <1>1, <1>2 DEF PictureOfHistory, NoKey
<1> QED
  BY <1>3, <1>4 DEF PicturesInv

(* A step back or forward shows the entry it leads to, or is missed.       *)
LEMMA GoToStep ==
  ASSUME PicturesInv, GoBack \/ GoForward
  PROVE  PicturesInv'
<1>1. /\ entries \in Seq(Keys) /\ Len(entries) \in Nat /\ index \in 0..Len(entries)
      /\ \A i \in 1..Len(entries) : entries[i] \in Keys
  BY LenProperties, ElementOfSeq DEF PicturesInv, PicturesTypeOK
<1>2. PICK i \in 1..Len(entries) : GoTo(i)
  BY <1>1 DEF GoBack, GoForward, CanGoBack, CanGoForward
<1>3. /\ entries' = entries /\ index' = i /\ CurrentKey' = entries[i]
      /\ entries[i] \in Keys
  BY <1>1, <1>2 DEF GoTo, CurrentKey
<1>4. CASE DisplayBitmap(entries[i])
  <2>1. /\ picture' = entries[i] /\ missed' = FALSE
        /\ surface' = IF surface = "none" THEN surface ELSE entries[i]
    BY <1>4 DEF DisplayBitmap
  <2>2. PicturesTypeOK'
    <3>1. missed' \in BOOLEAN
      BY <2>1
    <3>2. Len(entries') <= HistorySize /\ index' \in 0..Len(entries')
      BY <1>1, <1>3 DEF PicturesInv, PicturesTypeOK
    <3>3. picture' \in Keys \cup {NoKey} /\ surface' \in Keys \cup {"none", Blank}
      BY <1>3, <2>1 DEF PicturesInv, PicturesTypeOK
    <3> QED
      BY <1>1, <1>3, <3>1, <3>2, <3>3 DEF PicturesTypeOK
  <2>3. PictureOfHistory'
    BY <1>3, <2>1 DEF PictureOfHistory, NoKey
  <2> QED
    BY <2>2, <2>3 DEF PicturesInv
<1>5. CASE missed' = TRUE /\ UNCHANGED <<picture, surface>>
  <2>1. missed' = TRUE /\ UNCHANGED <<picture, surface>>
    BY <1>5
  <2>2. PicturesTypeOK'
    <3>1. missed' \in BOOLEAN
      BY <2>1
    <3>2. Len(entries') <= HistorySize /\ index' \in 0..Len(entries')
      BY <1>1, <1>3 DEF PicturesInv, PicturesTypeOK
    <3> QED
      BY <1>1, <1>3, <2>1, <3>1, <3>2 DEF PicturesInv, PicturesTypeOK
  <2>3. PictureOfHistory'
    BY <2>1 DEF PicturesInv, PictureOfHistory, NoKey
  <2> QED
    BY <2>2, <2>3 DEF PicturesInv
<1> QED
  BY <1>2, <1>4, <1>5 DEF GoTo

LEMMA SurfaceStep ==
  ASSUME PicturesInv,
         \/ \E k \in Keys : CachePut(k)
         \/ SurfaceAvailable \/ SurfaceDestroyed \/ ClearBitmap
         \/ UNCHANGED pictureVars
  PROVE  PicturesInv'
<1> USE DEF PicturesInv, PicturesTypeOK, PictureOfHistory, CurrentKey
<1>1. CASE \E k \in Keys : CachePut(k)
  BY <1>1 DEF CachePut
<1>2. CASE SurfaceAvailable
  BY <1>2 DEF SurfaceAvailable
<1>3. CASE SurfaceDestroyed
  BY <1>3 DEF SurfaceDestroyed
<1>4. CASE ClearBitmap
  BY <1>4 DEF ClearBitmap
<1>5. CASE UNCHANGED pictureVars
  BY <1>5 DEF pictureVars
<1> QED
  BY <1>1, <1>2, <1>3, <1>4, <1>5

-----------------------------------------------------------------------------
(* The tabs of a template, made or being made, fit the host.               *)
FitsHost(tabs) ==
  IsFiniteSet(tabs) /\ Cardinality(tabs) <= 2 + MaxSubTabs

TemplateInv ==
  /\ ids # {} => {Visual, Lead} \subseteq ids /\ FitsHost(ids)
  /\ template.active \in template.tabs
  /\ FitsHost(template.tabs)

(* A template that is being made has what it will not be asked for again.  *)
NothingMissed ==
  ids # {} /\ ~ dirty /\ route \in {"idle", "add"} =>
    \A a \in Agents : HasTab(a) => a \in ids

ScreenTypeOK ==
  /\ activeTab \in Tabs
  /\ dirty \in BOOLEAN
  /\ ids \in SUBSET Tabs
  /\ template \in Template

ScreenInv ==
  /\ TabsInv
  /\ PicturesInv
  /\ ScreenTypeOK
  /\ TemplateInv
  /\ NothingMissed
  /\ UpdatesAreShown

LEMMA OneMore ==
  ASSUME NEW S, IsFiniteSet(S), NEW x
  PROVE  /\ IsFiniteSet(S \cup {x})
         /\ Cardinality(S) \in Nat /\ Cardinality(S \cup {x}) \in Nat
         /\ Cardinality(S \cup {x}) <= Cardinality(S) + 1
<1>1. /\ IsFiniteSet(S \cup {x})
      /\ Cardinality(S \cup {x}) =
           IF x \in S THEN Cardinality(S) ELSE Cardinality(S) + 1
  BY FS_AddElement
<1>2. Cardinality(S) \in Nat
  BY FS_CardinalityType
<1> QED
  BY <1>1, <1>2

LEMMA TwoFit == FitsHost({Visual, Lead})
<1>1. IsFiniteSet({Visual}) /\ Cardinality({Visual}) = 1
  BY FS_Singleton
<1>2. /\ IsFiniteSet({Visual} \cup {Lead})
      /\ Cardinality({Visual} \cup {Lead}) \in Nat
      /\ Cardinality({Visual} \cup {Lead}) <= Cardinality({Visual}) + 1
  BY <1>1, OneMore
<1>3. {Visual, Lead} = {Visual} \cup {Lead}
  OBVIOUS
<1> QED
  BY <1>1, <1>2, <1>3, TabsAssumption DEF FitsHost

(* There are no more sub-agents' tabs than places for them.                *)
LEMMA TabsFit ==
  ASSUME TabsInv
  PROVE  FitsHost({Visual, Lead} \cup {order[i] : i \in 1..Len(order)})
<1> DEFINE D == 1..Len(order)
           R == {order[i] : i \in D}
           f == [i \in D |-> order[i]]
<1>1. Len(order) \in Nat /\ Len(order) <= MaxSubTabs
  BY LenProperties DEF TabsInv, TabsTypeOK
<1>2. IsFiniteSet(D) /\ Cardinality(D) = Len(order)
  BY <1>1, FS_Interval
<1>3. f \in Surjection(D, R)
  BY DEF Surjection
<1> HIDE DEF D, R, f
<1>7. IsFiniteSet(R) /\ Cardinality(R) <= Cardinality(D)
  BY <1>2, <1>3, FS_Surjection
<1>4. IsFiniteSet(R) /\ Cardinality(R) <= Len(order)
  BY <1>2, <1>7
<1>5. /\ IsFiniteSet(R \cup {Visual})
      /\ Cardinality(R) \in Nat /\ Cardinality(R \cup {Visual}) \in Nat
      /\ Cardinality(R \cup {Visual}) <= Cardinality(R) + 1
  BY <1>4, OneMore
<1>6. /\ IsFiniteSet(R \cup {Visual} \cup {Lead})
      /\ Cardinality(R \cup {Visual} \cup {Lead}) \in Nat
      /\ Cardinality(R \cup {Visual} \cup {Lead}) <= Cardinality(R \cup {Visual}) + 1
  BY <1>5, OneMore
<1>8. Cardinality(R \cup {Visual} \cup {Lead}) <= 2 + MaxSubTabs
  BY <1>1, <1>4, <1>5, <1>6, TabsAssumption
<1>9. {Visual, Lead} \cup R = R \cup {Visual} \cup {Lead}
  OBVIOUS
<1> QED
  BY <1>6, <1>8, <1>9 DEF FitsHost, R, D

LEMMA ScreenInitial == Init => ScreenInv
<1> SUFFICES ASSUME Init
             PROVE  ScreenInv
  OBVIOUS
<1> USE DEF Init
<1>1. TabsInv /\ PicturesInv
  BY TabsInitial, PicturesInitial
<1>2. TemplateInv
  BY TwoFit DEF TemplateInv, Tabs
<1>3. NothingMissed
  BY DEF NothingMissed
<1>4. UpdatesAreShown
  <2>1. \A a : ~ HasTab(a)
    BY DEF TabsInit, HasTab
  <2>2. CanGoBack = FALSE /\ CanGoForward = FALSE
    BY DEF PicturesInit, CanGoBack, CanGoForward
  <2> QED
    BY <2>1, <2>2, ScreenAssumption DEF UpdatesAreShown, Speakers
<1>5. ScreenTypeOK
  <2>1. template \in Template
    BY EmptySeq DEF Template, Tabs, Speakers
  <2>2. dirty \in BOOLEAN
    BY Zenon
  <2> QED
    BY <2>1, <2>2 DEF ScreenTypeOK, Tabs
<1> QED
  BY <1>1, <1>2, <1>3, <1>4, <1>5 DEF ScreenInv

(* A template is asked for again: the rest follows when it has been made.  *)
LEMMA AskedAgain ==
  ASSUME dirty = TRUE
  PROVE  NothingMissed /\ UpdatesAreShown
  BY DEF NothingMissed, UpdatesAreShown

(* Agents with a tab are agents; the visual card has no messages.          *)
LEMMA TabIsAgent ==
  ASSUME TabsTypeOK, NEW a, HasTab(a)
  PROVE  a \in Agents /\ a # Visual
<1>1. a \in Agents
  BY ElementOfSeq, LenProperties DEF TabsTypeOK, HasTab
<1> QED
  BY <1>1, ScreenAssumption DEF Speakers

LEMMA LastMessages ==
  ASSUME TabsTypeOK, NEW a \in Speakers
  PROVE  TakeLast(messages[a]) \in Seq(Messages)
<1>1. messages[a] \in Seq(Messages) /\ Len(messages[a]) \in Nat
  BY ListedIsMessage
<1> DEFINE l == Len(messages[a])
           n == (IF l > MaxRows THEN l - MaxRows ELSE 0) + 1
<1>2. n \in 1..(l + 1)
  BY <1>1, ScreenAssumption
<1>3. SubSeq(messages[a], n, l) \in Seq(Messages)
  BY <1>1, <1>2, SubSeqProperties
<1> QED
  BY <1>3 DEF TakeLast

LEMMA BeginTemplateStep ==
  ASSUME ScreenInv, BeginTemplate
  PROVE  ScreenInv'
<1> DEFINE R == {order[i] : i \in 1..Len(order)}
<1>1. /\ ids' = {Visual, Lead} \cup R /\ dirty' = FALSE
      /\ UNCHANGED <<activeTab, template>>
      /\ UNCHANGED tabVars /\ UNCHANGED pictureVars
  BY DEF BeginTemplate
<1>2. TabsInv' /\ PicturesInv'
  BY <1>1, TabsUnchanged, SurfaceStep DEF ScreenInv
<1>3. R \subseteq Agents
  BY TabIsAgent DEF HasTab, ScreenInv, TabsInv
<1>4. ScreenTypeOK'
  <2>1. ids' \in SUBSET Tabs
    BY <1>1, <1>3 DEF Tabs, Speakers
  <2>2. dirty' \in BOOLEAN
    BY <1>1
  <2> QED
    BY <1>1, <2>1, <2>2 DEF ScreenInv, ScreenTypeOK, Template
<1>5. TemplateInv'
  <2>1. FitsHost(ids')
    BY <1>1, TabsFit DEF ScreenInv
  <2>2. {Visual, Lead} \subseteq ids'
    BY <1>1
  <2> QED
    BY <1>1, <2>1, <2>2 DEF ScreenInv, TemplateInv, FitsHost
<1>6. NothingMissed'
  BY <1>1 DEF NothingMissed, HasTab, tabVars
<1>7. UpdatesAreShown'
  BY <1>1 DEF UpdatesAreShown
<1> QED
  BY <1>2, <1>4, <1>5, <1>6, <1>7 DEF ScreenInv

LEMMA BuildTemplateStep ==
  ASSUME ScreenInv, BuildTemplate
  PROVE  ScreenInv'
<1> DEFINE t == EffectiveTab
           rows == IF t = Visual THEN <<>> ELSE TakeLast(messages[t])
           back == t = Visual /\ CanGoBack
           forward == t = Visual /\ CanGoForward
<1>1. /\ ids # {} /\ ids' = {} /\ UNCHANGED <<activeTab, dirty>>
      /\ UNCHANGED tabVars /\ UNCHANGED pictureVars
      /\ template' = [tabs |-> ids, active |-> t, rows |-> rows,
                      back |-> back, forward |-> forward]
  BY DEF BuildTemplate
<1>2. TabsInv' /\ PicturesInv'
  BY <1>1, TabsUnchanged, SurfaceStep DEF ScreenInv
<1>3. /\ {Visual, Lead} \subseteq ids /\ FitsHost(ids) /\ t \in ids
      /\ ids \subseteq Tabs
  BY <1>1 DEF ScreenInv, TemplateInv, ScreenTypeOK, EffectiveTab
<1>4. rows \in Seq(Messages)
  <2>1. CASE t = Visual
    BY <2>1, EmptySeq
  <2>2. CASE t # Visual
    BY <1>3, <2>2, LastMessages DEF Tabs, ScreenInv, TabsInv
  <2> QED
    BY <2>1, <2>2
<1>5. /\ template'.tabs = ids /\ template'.active = t /\ template'.rows = rows
      /\ template'.back = back /\ template'.forward = forward
  BY <1>1
<1>6. back \in BOOLEAN /\ forward \in BOOLEAN
  BY Zenon
<1> HIDE DEF rows, back, forward, t
<1>7. ScreenTypeOK'
  <2>1. template' \in Template
    BY <1>1, <1>3, <1>4, <1>6 DEF Template
  <2> QED
    BY <1>1, <2>1 DEF ScreenInv, ScreenTypeOK
<1>8. TemplateInv' /\ NothingMissed'
  BY <1>1, <1>3, <1>5 DEF TemplateInv, NothingMissed, FitsHost
<1>9. UpdatesAreShown'
  <2> SUFFICES ASSUME ~ dirty, route \in {"idle", "add"}
               PROVE  /\ \A a \in Agents : HasTab(a) => a \in ids
                      /\ t = Lead \/ HasTab(t) => rows = TakeLast(messages[t])
                      /\ t = Visual => back = CanGoBack /\ forward = CanGoForward
    BY <1>1, <1>5
    DEF UpdatesAreShown, tabVars, pictureVars, HasTab, TakeLast, CanGoBack, CanGoForward
  <2>1. \A a \in Agents : HasTab(a) => a \in ids
    BY <1>1 DEF ScreenInv, NothingMissed
  <2>2. t = Lead \/ HasTab(t) => t # Visual
    BY TabIsAgent, ScreenAssumption DEF ScreenInv, TabsInv, Speakers
  <2>3. t # Visual => rows = TakeLast(messages[t])
    BY DEF rows
  <2>4. t = Visual => back = CanGoBack /\ forward = CanGoForward
    BY SMT DEF back, forward, CanGoBack, CanGoForward
  <2> QED
    BY <2>1, <2>2, <2>3, <2>4
<1> QED
  BY <1>2, <1>7, <1>8, <1>9 DEF ScreenInv

(* Steps after which a template is asked for.                              *)
LEMMA AskingStep ==
  ASSUME ScreenInv, TabsInv', PicturesInv', dirty' = TRUE, activeTab' \in Tabs,
         UNCHANGED <<ids, template>>
  PROVE  ScreenInv'
<1>1. ScreenTypeOK'
  <2>1. dirty' \in BOOLEAN
    OBVIOUS
  <2> QED
    BY <2>1 DEF ScreenInv, ScreenTypeOK, Template
<1>2. TemplateInv'
  BY DEF ScreenInv, TemplateInv, FitsHost
<1>3. NothingMissed' /\ UpdatesAreShown'
  BY DEF NothingMissed, UpdatesAreShown
<1> QED
  BY <1>1, <1>2, <1>3 DEF ScreenInv

LEMMA UserStep ==
  ASSUME ScreenInv,
         \/ \E t \in Tabs : SelectTab(t)
         \/ \E k \in Keys : ShowPicture(k)
         \/ OnUpdate
  PROVE  ScreenInv'
<1>1. CASE \E t \in Tabs : SelectTab(t)
  <2>1. /\ activeTab' \in Tabs /\ dirty' = TRUE /\ UNCHANGED <<ids, template>>
        /\ UNCHANGED tabVars /\ UNCHANGED pictureVars
    BY <1>1 DEF SelectTab
  <2> QED
    BY <2>1, TabsUnchanged, SurfaceStep, AskingStep DEF ScreenInv
<1>2. CASE \E k \in Keys : ShowPicture(k)
  <2>1. /\ \E k \in Keys : Display(k)
        /\ dirty' = TRUE /\ UNCHANGED <<activeTab, ids, template>>
        /\ UNCHANGED tabVars
    BY <1>2 DEF ShowPicture
  <2>2. activeTab' \in Tabs
    BY <2>1 DEF ScreenInv, ScreenTypeOK
  <2> QED
    BY <2>1, <2>2, TabsUnchanged, DisplayStep, AskingStep DEF ScreenInv
<1>3. CASE OnUpdate
  <2>1. /\ dirty' = TRUE /\ UNCHANGED <<activeTab, ids, template>>
        /\ UNCHANGED pictureVars
    BY <1>3 DEF OnUpdate
  <2>2. activeTab' \in Tabs
    BY <2>1 DEF ScreenInv, ScreenTypeOK
  <2> QED
    BY <1>3, <2>1, <2>2, UpdateStep, SurfaceStep, AskingStep DEF ScreenInv
<1> QED
  BY <1>1, <1>2, <1>3

(* An arrow whose bitmap is not drawn does not ask for a template.         *)
LEMMA ClickArrowStep ==
  ASSUME ScreenInv, ClickArrow
  PROVE  ScreenInv'
<1>1. /\ ids = {} /\ UNCHANGED <<activeTab, ids, template>> /\ UNCHANGED tabVars
      /\ dirty' = (dirty \/ ~ missed')
  BY DEF ClickArrow
<1>2. GoBack \/ GoForward
  BY DEF ClickArrow
<1>3. TabsInv' /\ PicturesInv'
  BY <1>1, <1>2, TabsUnchanged, GoToStep DEF ScreenInv
<1>4. ScreenTypeOK' /\ TemplateInv' /\ NothingMissed'
  <2>1. dirty' \in BOOLEAN
    BY <1>1, Zenon
  <2> QED
    BY <1>1, <2>1
    DEF ScreenInv, ScreenTypeOK, Template, TemplateInv, FitsHost, NothingMissed
<1>5. UpdatesAreShown'
  <2>1. ~ dirty' => ~ dirty /\ missed'
    BY <1>1, Zenon
  <2> QED
    BY <1>1, <2>1 DEF ScreenInv, UpdatesAreShown, tabVars, HasTab, TakeLast
<1> QED
  BY <1>3, <1>4, <1>5 DEF ScreenInv

LEMMA TalkStep ==
  ASSUME ScreenInv, Talk
  PROVE  ScreenInv'
<1>1. UNCHANGED <<activeTab, dirty, ids, template>> /\ UNCHANGED pictureVars
  BY DEF Talk, screenVars
<1>2. ASSUME TabsInv', NothingMissed', UpdatesAreShown'
      PROVE  ScreenInv'
  BY <1>1, <1>2, SurfaceStep
  DEF ScreenInv, ScreenTypeOK, Template, TemplateInv, FitsHost
<1>3. CASE \E a \in Speakers : RouteTextMessage(a)
  <2>1. /\ TabsInv' /\ route = "idle" /\ UNCHANGED <<order, messages>>
    BY <1>3, RouteStep DEF ScreenInv, RouteTextMessage
  <2>2. NothingMissed' /\ UpdatesAreShown'
    BY <1>1, <2>1
    DEF ScreenInv, NothingMissed, UpdatesAreShown, HasTab, TakeLast, pictureVars,
        CanGoBack, CanGoForward
  <2> QED
    BY <1>2, <2>1, <2>2
<1>4. CASE AddSubAgent \/ AddMessage
  <2>1. TabsInv' /\ route' \in {"append", "update"}
    BY <1>4, AddTabStep, AddMessageStep DEF ScreenInv, AddSubAgent, AddMessage
  <2> QED
    BY <1>2, <2>1 DEF NothingMissed, UpdatesAreShown
<1>5. CASE \E a \in Agents : RemoveSubAgent(a)
  <2>1. PICK a \in Agents : RemoveSubAgent(a)
    BY <1>5
  <2>2. TabsInv' /\ \A b : HasTab(b)' <=> HasTab(b) /\ b # a
    BY <2>1, RemoveTabStep DEF ScreenInv
  <2>3. /\ route' = route
        /\ \A b : (b = Lead \/ HasTab(b)') => messages'[b] = messages[b]
    <3>1. messages' = [messages EXCEPT ![a] = <<>>] /\ route' = route
      BY <2>1 DEF RemoveSubAgent
    <3>2. ASSUME NEW b, b = Lead \/ HasTab(b)'
          PROVE  b \in Speakers /\ b # a
      BY <2>2, <3>2, TabIsAgent, TabsAssumption DEF ScreenInv, TabsInv, Speakers
    <3> QED
      BY <3>1, <3>2 DEF ScreenInv, TabsInv, TabsTypeOK
  <2>4. NothingMissed'
    BY <1>1, <2>2, <2>3 DEF ScreenInv, NothingMissed
  <2>5. UpdatesAreShown'
    BY <1>1, <2>2, <2>3
    DEF ScreenInv, UpdatesAreShown, TakeLast, pictureVars, CanGoBack, CanGoForward
  <2> QED
    BY <1>2, <2>2, <2>4, <2>5
<1> QED
  BY <1>3, <1>4, <1>5 DEF Talk

LEMMA PicturesStep ==
  ASSUME ScreenInv, Pictures \/ UNCHANGED vars
  PROVE  ScreenInv'
<1>1. UNCHANGED screenVars /\ UNCHANGED tabVars /\ UNCHANGED <<entries, index, missed>>
  BY DEF Pictures, vars, pictureVars, CachePut, SurfaceAvailable, SurfaceDestroyed,
         ClearBitmap
<1>2. TabsInv' /\ PicturesInv'
  BY <1>1, TabsUnchanged, SurfaceStep DEF ScreenInv, Pictures, vars
<1>3. ScreenTypeOK' /\ TemplateInv' /\ NothingMissed' /\ UpdatesAreShown'
  BY <1>1
  DEF ScreenInv, ScreenTypeOK, Template, TemplateInv, FitsHost, NothingMissed,
      UpdatesAreShown, screenVars, tabVars, HasTab, TakeLast, CanGoBack, CanGoForward
<1> QED
  BY <1>2, <1>3 DEF ScreenInv

LEMMA ScreenInductive == Spec => []ScreenInv
<1>1. ScreenInv /\ [Next]_vars => ScreenInv'
  BY BeginTemplateStep, BuildTemplateStep, UserStep, ClickArrowStep, TalkStep,
     PicturesStep DEF Next
<1> QED
  BY ScreenInitial, <1>1, PTL DEF Spec

-----------------------------------------------------------------------------
(* A message of an agent is in the agent's list, in order, unless no tab   *)
(* was left for the agent or its tab was removed: for any number of agents *)
(* and messages (ConversationTabManager.kt, GrpcPollLoop.kt).              *)
THEOREM NoMessageIsLost == Spec => []MessagesKept
<1>1. ScreenInv => MessagesKept
  BY DEF ScreenInv, TabsInv
<1> QED
  BY <1>1, ScreenInductive, PTL

(* The host never gets a template with an unknown active tab or with more  *)
(* tabs than it takes (VanPilotScreen.onGetTemplate).                      *)
THEOREM TemplatesAreTaken == Spec => []TemplateIsValid
<1>1. ScreenInv => TemplateIsValid
  BY DEF ScreenInv, TemplateInv, FitsHost, TemplateIsValid
<1> QED
  BY <1>1, ScreenInductive, PTL

(* A change of the conversations or the history between two templates is   *)
(* shown or asks for a template (VanPilotScreen's two looks at the tab     *)
(* manager, with the polling thread between them).                         *)
THEOREM NoUpdateIsForgotten == Spec => []UpdatesAreShown
<1>1. ScreenInv => UpdatesAreShown
  BY DEF ScreenInv
<1> QED
  BY <1>1, ScreenInductive, PTL

(* What is drawn is the current entry of the history                       *)
(* (DisplayHistory.kt, VanPilotSurfaceCallback.kt).                        *)
THEOREM DrawnIsCurrent == Spec => []PictureOfHistory
<1>1. ScreenInv => PictureOfHistory
  BY DEF ScreenInv, PicturesInv
<1> QED
  BY <1>1, ScreenInductive, PTL

(* Every variable of the screen has its type; the scenes are chosen once.  *)
THEOREM ScreenTyped == Spec => []TypeOK
<1>1. Init => scene \in Scenes
  BY DEF Init
<1>2. scene \in Scenes /\ [Next]_vars => (scene \in Scenes)'
  BY DEF Next, vars, BeginTemplate, BuildTemplate, SelectTab, ClickArrow,
         ShowPicture, OnUpdate, Talk, Pictures
<1>3. ScreenInv /\ scene \in Scenes => TypeOK
  BY DEF ScreenInv, TabsInv, PicturesInv, ScreenTypeOK, TypeOK
<1> QED
  BY <1>1, <1>2, <1>3, ScreenInductive, PTL DEF Spec
=============================================================================
