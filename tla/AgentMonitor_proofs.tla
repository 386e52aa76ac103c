------------------------- MODULE AgentMonitor_proofs -------------------------
(***************************************************************************)
(* The safety of the parts that watch and drive an agent, for any length   *)
(* of its logs, number of inputs, registrations and threads.  They share   *)
(* the agent and nothing else: each has an invariant of its own, kept by   *)
(* the agent's steps and by its own.                                       *)
(***************************************************************************)
EXTENDS AgentMonitor, Integers, TLAPS

(* What AnswerFollowsInput needs to last: whose log has outgrown the size  *)
(* noted before has seen it grow.                                          *)
InjectorInv ==
  /\ InjectorTypeOK
  /\ \A i \in Inputs :
       /\ stage[i] \in {"waiting", "reporting", "answered", "failed"} => i \in typed
       /\ i \in failures => stage[i] = "failed"
       /\ stage[i] \in {"measured", "waiting"} /\ size > before[i] => i \in grown
       /\ stage[i] = "answered" => i \in grown

(* A file has been read from some place on; of the file that carries the   *)
(* name, the offset is where the last read ended.                          *)
Entered(g) == entered[g] \in 0..MaxSize

TailerInv ==
  /\ TailerTypeOK
  /\ \A g \in 1..MaxGenerations : Entered(g) => g <= generation
  /\ Entered(generation) =>
       /\ offset <= size /\ entered[generation] <= offset
       /\ [gen |-> generation, at |-> offset] \in cuts
       /\ tailing = "read" => from = offset
  /\ \A c \in cuts : Entered(c.gen)
  /\ \A l \in emitted \cup found :
       Entered(l.gen) /\ (l.gen = generation => 2 * l.at <= offset)
  /\ found \cap emitted = {}
  /\ tailing # "emit" => found = {}
  /\ EachLineOnce

(* With one thread at a time: no event is later than the last activity of  *)
(* an object that a check, this one or the next, looks at.                 *)
OneLoop ==
  \A t, u \in Loops : Running(t) /\ Running(u) => t = u

Checking(t) == loop[t] \in {"capture", "emit"}

Current(o) ==
  /\ lastActivity[o] <= now
  /\ \A e \in timeouts : e <= lastActivity[o]

CheckInv(t) ==
  LET o == looked[t].object
      a == looked[t].at IN
    /\ o \in 1..registrations /\ a <= now
    /\ lastActivity[o] <= a /\ Current(o)
    /\ registered \notin {0, o} => lastActivity[registered] >= a
    /\ loop[t] = "emit" => a >= lastActivity[o] + Timeout

WatchdogInv ==
  /\ WatchdogTypeOK
  /\ \A e \in timeouts : e <= now
  /\ \A t \in Loops : looked[t].at <= now
  /\ ~ paired =>
       /\ OneLoop
       /\ registered # 0 => Current(registered)
       /\ \A t \in Loops : Checking(t) => CheckInv(t)
       /\ \A e, f \in timeouts : e < f => f >= e + Timeout

-----------------------------------------------------------------------------
LEMMA LineAt ==
  ASSUME NEW l \in Lines
  PROVE  l.gen \in 1..MaxGenerations /\ l.at \in LineNumbers /\ l.at \in Nat \ {0}
<1>1. MaxSize \div 2 \in Int
  BY AgentAssumption
<1> QED
  BY <1>1 DEF Lines, LineNumbers

LEMMA AgentTyped ==
  ASSUME AgentTypeOK, AgentStep
  PROVE  AgentTypeOK'
<1> USE AgentAssumption DEF AgentTypeOK
<1>1. CASE StartSession
  BY <1>1 DEF StartSession
<1>2. CASE KillSession
  BY <1>2 DEF KillSession
<1>3. CASE AgentPrints
  BY <1>3 DEF AgentPrints
<1>4. CASE AgentWrites
  BY <1>4 DEF AgentWrites
<1>5. CASE RotateLog
  BY <1>5 DEF RotateLog
<1> QED
  BY <1>1, <1>2, <1>3, <1>4, <1>5 DEF AgentStep

(* The log grows, or another one takes its place and is empty.             *)
LEMMA LogStep ==
  ASSUME AgentTypeOK, AgentStep
  PROVE  \/ generation' = generation /\ size' \in {size, size + 1}
         \/ generation' = generation + 1 /\ size' = 0
<1> QED
  BY DEF AgentStep, StartSession, KillSession, AgentPrints, AgentWrites, RotateLog

-----------------------------------------------------------------------------
LEMMA InjectorUnderAgent ==
  ASSUME AgentTypeOK, InjectorInv, AgentStep, NoteGrowth,
         UNCHANGED <<stage, before, late, typed, failures>>
  PROVE  InjectorInv'
<1>1. size \in Nat /\ size' \in Nat /\ grown \subseteq grown' /\ grown' \subseteq Inputs
  BY AgentTyped, AgentAssumption DEF AgentTypeOK, NoteGrowth, InjectorInv, InjectorTypeOK
<1>2. ASSUME NEW i \in Inputs, stage[i] \in {"measured", "waiting"}, size' > before[i]
      PROVE  i \in grown'
  <2>1. CASE size' > size
    BY <1>2, <2>1 DEF NoteGrowth
  <2>2. CASE size' <= size
    <3>1. size > before[i]
      BY <1>1, <1>2, <2>2 DEF InjectorInv, InjectorTypeOK
    <3> QED
      BY <1>1, <1>2, <3>1 DEF InjectorInv
  <2> QED
    BY <1>1, <2>1, <2>2
<1> QED
  BY <1>1, <1>2 DEF InjectorInv, InjectorTypeOK

LEMMA InjectionKeeps ==
  ASSUME AgentTypeOK, InjectorInv, NEW i \in Inputs, InjectionStep(i),
         UNCHANGED agentVars
  PROVE  InjectorInv'
<1> USE DEF InjectorInv, InjectorTypeOK, To, Stages, agentVars
<1>1. CASE SendUserInput(i)
  BY <1>1 DEF SendUserInput
<1>2. CASE MeasureLog(i)
  BY <1>2 DEF MeasureLog, AgentTypeOK
<1>3. CASE SendKeys(i)
  BY <1>3 DEF SendKeys
<1>4. CASE DeadlinePasses(i)
  BY <1>4 DEF DeadlinePasses
<1>5. CASE Look(i)
  BY <1>5 DEF Look
<1>6. CASE EmitFailure(i)
  BY <1>6 DEF EmitFailure
<1> QED
  BY <1>1, <1>2, <1>3, <1>4, <1>5, <1>6 DEF InjectionStep

LEMMA InjectorUnchanged ==
  InjectorInv /\ UNCHANGED injectorVars /\ UNCHANGED agentVars => InjectorInv'
  BY DEF InjectorInv, InjectorTypeOK, injectorVars, agentVars
-----------------------------------------------------------------------------
(* What was read stays read; a file rotated away is not looked at again.   *)
LEMMA TailerUnderAgent ==
  ASSUME AgentTypeOK, TailerInv, AgentStep, UNCHANGED tailerVars
  PROVE  TailerInv'
<1> USE DEF tailerVars
<1>1. AgentTypeOK'
  BY AgentTyped
<1>2. TailerTypeOK'
  BY DEF TailerInv, TailerTypeOK
<1>3. EachLineOnce' /\ \A g : Entered(g)' <=> Entered(g)
  BY DEF TailerInv, EachLineOnce, Split, PassedOver, Entered
<1>4. CASE generation' = generation /\ size' \in {size, size + 1}
  <2>1. size <= size'
    BY <1>4 DEF AgentTypeOK
  <2>2. Entered(generation)' =>
          /\ offset <= size'
          /\ entered[generation] <= offset
          /\ [gen |-> generation, at |-> offset] \in cuts
          /\ tailing = "read" => from = offset
    <3>1. Entered(generation) => offset <= size
      BY DEF TailerInv
    <3>2. size \in Nat /\ size' \in Nat /\ offset \in Nat
      BY <1>1 DEF AgentTypeOK, TailerInv, TailerTypeOK
    <3> QED
      BY <1>3, <1>4, <2>1, <3>1, <3>2 DEF TailerInv
  <2> QED
    BY <1>2, <1>3, <1>4, <2>2 DEF TailerInv
<1>5. CASE generation' = generation + 1
  <2>1. ~ Entered(generation)'
    BY <1>1, <1>3, <1>5 DEF TailerInv, AgentTypeOK
  <2>2. ASSUME NEW l \in emitted \cup found
        PROVE  l.gen # generation'
    <3>1. l.gen \in 1..MaxGenerations /\ Entered(l.gen)
      BY LineAt DEF TailerInv, TailerTypeOK
    <3> QED
      BY <1>1, <1>3, <2>1, <3>1
  <2>3. \A g \in 1..MaxGenerations : Entered(g)' => g <= generation'
    BY <1>3, <1>5 DEF TailerInv, AgentTypeOK
  <2> QED
    BY <1>2, <1>3, <2>1, <2>2, <2>3 DEF TailerInv
<1> QED
  BY <1>4, <1>5, LogStep

(* A read that finds something: what it finds lies behind all that was     *)
(* emitted of the same file, and what it does not find before its start    *)
(* was found by an earlier read or is missed.                              *)
LEMMA ReadKeeps ==
  ASSUME AgentTypeOK, TailerInv, ReadFile, UNCHANGED agentVars
  PROVE  TailerInv'
<1> DEFINE cut == [gen |-> generation, at |-> size]
<1>1. /\ tailing = "read" /\ size > from /\ offset' = size
      /\ found' = WholeLines(from, size) /\ cuts' = cuts \cup {cut}
      /\ entered' = [entered EXCEPT ![generation] = Least(@, from)]
      /\ tailing' = "emit"
      /\ UNCHANGED <<from, emitted, twice, generation, size>>
  BY DEF ReadFile, agentVars
<1>2. /\ generation \in 1..MaxGenerations /\ size \in 0..MaxSize
      /\ from \in 0..MaxSize /\ offset \in 0..MaxSize
      /\ entered \in [1..MaxGenerations -> 0..(MaxSize + 1)]
      /\ MaxSize \in Nat /\ found = {}
  BY <1>1, AgentAssumption DEF AgentTypeOK, TailerInv, TailerTypeOK
<1>3. /\ Entered(generation) => from = offset /\ entered'[generation] = entered[generation]
      /\ ~ Entered(generation) => entered'[generation] = from
  BY <1>1, <1>2 DEF TailerInv, Entered, Least
<1>4. /\ \A g \in 1..MaxGenerations : g # generation => entered'[g] = entered[g]
      /\ entered' \in [1..MaxGenerations -> 0..(MaxSize + 1)]
      /\ entered'[generation] <= from
      /\ Entered(generation)'
  BY <1>1, <1>2, <1>3 DEF TailerInv, Entered, Least
<1>5. \A g \in 1..MaxGenerations : Entered(g)' <=> Entered(g) \/ g = generation
  BY <1>1, <1>4 DEF Entered
<1>6. \A l \in found' : /\ l \in Lines /\ l.gen = generation
                        /\ from <= 2 * (l.at - 1) /\ 2 * l.at <= size
  BY <1>1 DEF WholeLines
<1>7. TailerTypeOK'
  <2>1. found' \subseteq Lines
    BY <1>6
  <2>2. cut \in [gen : 1..MaxGenerations, at : 0..MaxSize]
    BY <1>2
  <2> QED
    BY <1>1, <1>2, <1>4, <2>1, <2>2 DEF TailerInv, TailerTypeOK
<1>8. found' \cap emitted' = {}
  <2> SUFFICES ASSUME NEW l \in found', l \in emitted
               PROVE  FALSE
    BY <1>1
  <2>1. Entered(l.gen) /\ (l.gen = generation => 2 * l.at <= offset)
    BY DEF TailerInv
  <2> QED
    BY <1>2, <1>3, <1>6, <2>1, LineAt
<1>9. ASSUME NEW c \in cuts', NEW n \in LineNumbers, 2 * n <= c.at
      PROVE  LET l == [gen |-> c.gen, at |-> n] IN
               l \in emitted' \cup found' \/ Split(l)' \/ PassedOver(l)'
  <2> DEFINE l == [gen |-> c.gen, at |-> n]
  <2>1. c.gen \in 1..MaxGenerations /\ l \in Lines /\ n \in Nat \ {0}
    <3>1. c.gen \in 1..MaxGenerations
      BY <1>1, <1>2 DEF TailerInv, TailerTypeOK
    <3>2. l \in Lines
      BY <3>1 DEF Lines
    <3> QED
      BY <3>1, <3>2, LineAt
  <2>2. Split(l) => Split(l)'
    BY <1>1 DEF Split
  <2>3. Entered(c.gen) /\ PassedOver(l) => PassedOver(l)'
    BY <1>2, <1>3, <1>4, <2>1 DEF PassedOver
  <2>4. ASSUME NEW d \in cuts, d.gen = c.gen, 2 * n <= d.at
        PROVE  l \in emitted' \cup found' \/ Split(l)' \/ PassedOver(l)'
    <3>1. l \in emitted \cup found \/ Split(l) \/ PassedOver(l)
      BY <2>4 DEF TailerInv, EachLineOnce
    <3>2. Entered(c.gen)
      BY <2>4 DEF TailerInv
    <3> QED
      BY <1>1, <1>2, <2>2, <2>3, <3>1, <3>2
  <2>5. CASE c \in cuts
    BY <1>9, <2>4, <2>5
  <2>6. CASE c = cut
    <3>0. c.gen = generation /\ c.at = size
      BY <2>6
    <3>1. CASE from <= 2 * (n - 1)
      <4>1. l \in found'
        BY <1>1, <1>9, <2>1, <3>0, <3>1 DEF WholeLines
      <4> QED
        BY <4>1
    <3>2. CASE from > 2 * (n - 1) /\ ~ Entered(generation)
      <4>1. entered'[l.gen] \in (2 * n - 1)..MaxSize
        BY <1>2, <1>3, <2>1, <3>0, <3>2
      <4> QED
        BY <4>1 DEF PassedOver
    <3>3. CASE 2 * n <= from /\ Entered(generation)
      <4>1. [gen |-> generation, at |-> from] \in cuts
        BY <1>3, <3>3 DEF TailerInv
      <4> QED
        BY <2>4, <3>0, <3>3, <4>1
    <3>4. CASE from = 2 * n - 1 /\ Entered(generation)
      <4>1. [gen |-> generation, at |-> 2 * n - 1] \in cuts
        BY <1>3, <3>4 DEF TailerInv
      <4> QED
        BY <2>2, <3>0, <4>1 DEF Split
    <3> QED
      BY <1>2, <2>1, <3>1, <3>2, <3>3, <3>4
  <2> QED
    BY <1>1, <2>5, <2>6
<1>10. EachLineOnce'
  BY <1>1, <1>9 DEF TailerInv, EachLineOnce
<1>11. \A d \in emitted' \cup found' :
         Entered(d.gen)' /\ (d.gen = generation' => 2 * d.at <= offset')
  <2>1. ASSUME NEW d \in found'
        PROVE  Entered(d.gen)' /\ 2 * d.at <= offset'
    BY <1>1, <1>2, <1>5, <1>6, <2>1
  <2>2. ASSUME NEW d \in emitted
        PROVE  Entered(d.gen)' /\ (d.gen = generation => 2 * d.at <= offset')
    <3>1. d \in Lines /\ Entered(d.gen) /\ (d.gen = generation => 2 * d.at <= offset)
      BY DEF TailerInv, TailerTypeOK
    <3>2. d.gen \in 1..MaxGenerations /\ d.at \in Nat
      BY <3>1, LineAt
    <3>3. Entered(generation) => offset < size
      BY <1>1, <1>3
    <3> QED
      BY <1>1, <1>2, <1>5, <3>1, <3>2, <3>3
  <2> QED
    BY <1>1, <2>1, <2>2
<1>12. \A d \in cuts' : Entered(d.gen)'
  BY <1>1, <1>2, <1>5 DEF TailerInv, TailerTypeOK
<1> QED
  BY <1>1, <1>2, <1>4, <1>5, <1>7, <1>8, <1>10, <1>11, <1>12 DEF TailerInv

LEMMA TailerKeeps ==
  ASSUME AgentTypeOK, TailerInv, TailerStep, UNCHANGED agentVars
  PROVE  TailerInv'
<1>1. CASE StatFile
  <2>1. /\ tailing = "idle" /\ tailing' = "read"
        /\ from' = IF size < offset THEN 0 ELSE offset
        /\ UNCHANGED <<offset, found, emitted, twice, cuts, entered, generation, size>>
    BY <1>1 DEF StatFile, agentVars
  <2>2. from' \in 0..MaxSize /\ (Entered(generation) => from' = offset)
    BY <2>1, AgentAssumption DEF TailerInv, TailerTypeOK, AgentTypeOK
  <2> QED
    BY <2>1, <2>2
    DEF TailerInv, TailerTypeOK, Entered, EachLineOnce, Split, PassedOver
<1>2. CASE ReadFile
  BY <1>2, ReadKeeps
<1>3. CASE ReadNothing
  <2>1. /\ tailing = "read" /\ tailing' = "idle" /\ offset' = from
        /\ UNCHANGED <<from, found, emitted, twice, cuts, entered, generation, size>>
    BY <1>3 DEF ReadNothing, agentVars
  <2>2. Entered(generation) => from = offset
    BY <2>1 DEF TailerInv
  <2>3. ASSUME NEW l \in emitted \cup found, l.gen = generation
        PROVE  2 * l.at <= from
    BY <2>2, <2>3 DEF TailerInv
  <2> QED
    BY <2>1, <2>2, <2>3
    DEF TailerInv, TailerTypeOK, Entered, EachLineOnce, Split, PassedOver
<1>4. CASE ReadRaises
  BY <1>4
  DEF ReadRaises, agentVars, TailerInv, TailerTypeOK, Entered, EachLineOnce, Split,
      PassedOver
<1>5. CASE EmitLine
  <2>1. CASE found = {} /\ tailing' = "idle" /\ UNCHANGED <<found, emitted, twice>>
    BY <1>5, <2>1
    DEF EmitLine, agentVars, TailerInv, TailerTypeOK, Entered, EachLineOnce, Split,
        PassedOver
  <2>2. CASE \E l \in found : /\ found' = found \ {l}
                              /\ emitted' = emitted \cup {l}
                              /\ twice' = (twice \/ l \in emitted)
                              /\ UNCHANGED tailing
    <3>1. PICK l \in found : /\ found' = found \ {l}
                            /\ emitted' = emitted \cup {l}
                            /\ twice' = (twice \/ l \in emitted)
                            /\ UNCHANGED tailing
      BY <2>2
    <3>2. /\ emitted' \cup found' = emitted \cup found
          /\ found' \cap emitted' = {} /\ l \notin emitted
      BY <3>1 DEF TailerInv
    <3>3. UNCHANGED <<offset, from, cuts, entered, generation, size>> /\ tailing = "emit"
      BY <1>5 DEF EmitLine, agentVars
    <3>4. twice' = FALSE
      BY <3>1, <3>2, Zenon DEF TailerInv, EachLineOnce
    <3>5. TailerTypeOK'
      <4>1. twice' \in BOOLEAN
        BY <3>4
      <4> QED
        BY <3>1, <3>3, <4>1 DEF TailerInv, TailerTypeOK
    <3>6. EachLineOnce'
      BY <3>2, <3>3, <3>4 DEF TailerInv, EachLineOnce, Split, PassedOver
    <3> QED
      BY <3>1, <3>2, <3>3, <3>5, <3>6 DEF TailerInv, Entered
  <2> QED
    BY <1>5, <2>1, <2>2 DEF EmitLine
<1> QED
  BY <1>1, <1>2, <1>3, <1>4, <1>5 DEF TailerStep

LEMMA TailerUnchanged ==
  TailerInv /\ UNCHANGED tailerVars /\ UNCHANGED agentVars => TailerInv'
  BY DEF TailerInv, TailerTypeOK, Entered, EachLineOnce, Split, PassedOver,
         tailerVars, agentVars
-----------------------------------------------------------------------------
(* Time, registrations and threads that come and go.                       *)
LEMMA WatchdogAround ==
  ASSUME WatchdogInv, AgentTypeOK,
         \/ TimePasses \/ RegisterSession \/ UnregisterSession
         \/ StartWatchdog \/ StopWatchdog \/ StopReturns
  PROVE  WatchdogInv'
<1> USE WatchdogAssumption
    DEF WatchdogInv, WatchdogTypeOK, OneLoop, Running, Checking, Current, CheckInv,
        Objects, Loops, Looking
<1>1. CASE TimePasses
  <2>1. /\ now' = now + 1 /\ now' \in 0..MaxNow
        /\ UNCHANGED <<registered, registrations, lastOutput, lastActivity, loop,
                       looked, thread, threads, stopFlag, paired, timeouts>>
    BY <1>1 DEF TimePasses, objectVars, loopVars
  <2>2. WatchdogTypeOK'
    BY <2>1
  <2>3. \A n \in Int : n <= now => n <= now'
    BY <2>1
  <2>4. /\ \A e \in timeouts : e \in Int
        /\ \A o \in Objects : lastActivity[o] \in Int
        /\ \A t \in Loops : looked[t].at \in Int
    OBVIOUS
  <2>5. \A t \in Loops : CheckInv(t) => CheckInv(t)'
    BY <2>1, <2>3, <2>4
  <2>6. ~ paired /\ registered # 0 => Current(registered)'
    BY <2>1, <2>3, <2>4
  <2>7. /\ \A e \in timeouts' : e <= now'
        /\ \A t \in Loops : looked'[t].at <= now'
    BY <2>1, <2>3, <2>4
  <2> HIDE DEF CheckInv, Current, WatchdogTypeOK
  <2> QED
    BY <2>1, <2>2, <2>5, <2>6, <2>7
<1>2. CASE RegisterSession
  <2>1. /\ registrations' = registrations + 1 /\ registered' = registrations + 1
        /\ registrations' \in Objects
        /\ lastActivity' = [lastActivity EXCEPT ![registrations + 1] = now]
        /\ UNCHANGED <<now, lastOutput, loop, looked, thread, threads, stopFlag,
                       paired, timeouts>>
    BY <1>2 DEF RegisterSession, loopVars
  <2>2. /\ \A o \in 1..registrations : lastActivity'[o] = lastActivity[o]
        /\ lastActivity'[registered'] = now
    BY <2>1
  <2>3. WatchdogTypeOK'
    BY <2>1
  <2>4. ~ paired => Current(registered)'
    BY <2>1, <2>2
  <2>5. ASSUME NEW t \in Loops, CheckInv(t)
        PROVE  CheckInv(t)'
    <3> DEFINE u == looked[t].object
    <3>1. u \in 1..registrations /\ lastActivity'[u] = lastActivity[u] /\ u # registered'
      BY <2>1, <2>2, <2>5
    <3>2. looked[t].at <= lastActivity'[registered']
      BY <2>2, <2>5
    <3>3. u \in 1..registrations'
      BY <2>1, <3>1
    <3>4. Current(u)'
      BY <2>1, <2>5, <3>1
    <3> QED
      BY <2>1, <2>5, <3>1, <3>2, <3>3, <3>4
  <2> HIDE DEF CheckInv, Current
  <2> QED
    BY <2>1, <2>3, <2>4, <2>5
<1>3. CASE UnregisterSession
  BY <1>3 DEF UnregisterSession, loopVars
<1>4. CASE StartWatchdog
  <2>1. /\ threads + 1 \in Loops /\ threads' = threads + 1 /\ thread' = threads + 1
        /\ loop' = [loop EXCEPT ![threads + 1] = "head"]
        /\ stopFlag' = FALSE
        /\ UNCHANGED <<now, registered, registrations, lastOutput, lastActivity,
                       looked, timeouts>>
    BY <1>4 DEF StartWatchdog, objectVars
  <2>2. paired' = (paired \/ \E t \in Loops : Running(t))
    BY <1>4 DEF StartWatchdog
  <2>3. paired' \in BOOLEAN /\ stopFlag' \in BOOLEAN
    BY <2>1, <2>2, Zenon
  <2>4. ~ paired' => ~ paired /\ \A t \in Loops : ~ Running(t)
    BY <2>2, Zenon
  <2>5. WatchdogTypeOK'
    BY <2>1, <2>3
  <2>6. ~ paired' => \A t \in Loops : ~ Checking(t)' /\ (Running(t)' => t = threads + 1)
    BY <2>1, <2>4
  <2> QED
    BY <2>1, <2>4, <2>5, <2>6
<1>5. CASE StopWatchdog
  BY <1>5 DEF StopWatchdog, objectVars
<1>6. CASE StopReturns
  BY <1>6 DEF StopReturns, objectVars
<1> QED
  BY <1>1, <1>2, <1>3, <1>4, <1>5, <1>6

(* The end of a round, after which no thread is checking.                  *)
LEMMA RoundEnds ==
  ASSUME WatchdogInv, NEW t \in Loops, Running(t), NextRound(t),
         registered' = registered, registrations' = registrations, now' = now,
         UNCHANGED <<thread, threads, stopFlag, paired>>,
         lastOutput' \in [Objects -> 0..NothingSeen],
         lastActivity' \in [Objects -> 0..MaxNow],
         timeouts' \subseteq 0..MaxNow, \A e \in timeouts' : e <= now,
         ~ paired /\ registered # 0 => Current(registered)',
         ~ paired => \A e, f \in timeouts' : e < f => f >= e + Timeout
  PROVE  WatchdogInv'
<1>1. /\ loop' = [loop EXCEPT ![t] = "head"]
      /\ looked' = [looked EXCEPT ![t] = NoLook]
  BY DEF NextRound, Goto
<1>2. NoLook \in Looking
  BY WatchdogAssumption DEF NoLook, Looking
<1>3. WatchdogTypeOK'
  BY <1>1, <1>2 DEF WatchdogInv, WatchdogTypeOK
<1>4. \A u \in Loops : Running(u)' <=> Running(u)
  BY <1>1 DEF Running, WatchdogInv, WatchdogTypeOK
<1>5. ~ paired => \A u \in Loops : ~ Checking(u)'
  <2> SUFFICES ASSUME ~ paired, NEW u \in Loops, Checking(u)'
               PROVE  FALSE
    OBVIOUS
  <2>1. Running(u)'
    BY DEF Running, Checking
  <2>2. u = t
    BY <1>4, <2>1 DEF WatchdogInv, OneLoop
  <2> QED
    BY <1>1, <2>2 DEF Checking, WatchdogInv, WatchdogTypeOK
<1>6. \A u \in Loops : looked'[u].at <= now
  <2>1. \A u \in Loops : looked'[u] = looked[u] \/ looked'[u] = NoLook
    BY <1>1 DEF WatchdogInv, WatchdogTypeOK
  <2>2. NoLook.at <= now
    BY WatchdogAssumption DEF NoLook, WatchdogInv, WatchdogTypeOK
  <2> QED
    BY <2>1, <2>2 DEF WatchdogInv
<1> QED
  BY <1>3, <1>4, <1>5, <1>6 DEF WatchdogInv, OneLoop, Current

(* A round of a thread.                                                    *)
LEMMA WatchdogRound ==
  ASSUME WatchdogInv, AgentTypeOK, NEW t \in Loops, CheckStep(t)
  PROVE  WatchdogInv'
<1> DEFINE o == looked[t].object
           a == looked[t].at
<1> USE WatchdogAssumption DEF Objects, Loops
<1>0. Running(t) /\ o \in 0..MaxRegistrations /\ a \in 0..MaxNow
  BY DEF CheckStep, Snapshot, CaptureFails, NewOutput, OldOutput, EmitTimeout,
         Running, WatchdogInv, WatchdogTypeOK, Looking
<1>1. CASE Snapshot(t) /\ stopFlag
  BY <1>1
  DEF Snapshot, Goto, objectVars, WatchdogInv, WatchdogTypeOK, OneLoop, Running,
      Checking, CheckInv, Current
<1>2. CASE Snapshot(t) /\ ~ stopFlag
  <2>1. /\ loop' = [loop EXCEPT ![t] = "capture"] /\ loop[t] = "head"
        /\ looked' = [looked EXCEPT ![t] = [object |-> registered, at |-> now]]
        /\ registered # 0
        /\ UNCHANGED <<now, registered, registrations, lastOutput, lastActivity,
                       thread, threads, stopFlag, paired, timeouts>>
    BY <1>2 DEF Snapshot, Goto, objectVars
  <2>2. WatchdogTypeOK'
    <3>1. [object |-> registered, at |-> now] \in Looking
      BY DEF WatchdogInv, WatchdogTypeOK, Looking
    <3> QED
      BY <2>1, <3>1 DEF WatchdogInv, WatchdogTypeOK
  <2>3. OneLoop \/ paired => OneLoop' \/ paired
    BY <2>1 DEF OneLoop, Running, WatchdogInv, WatchdogTypeOK
  <2>4. ASSUME ~ paired, NEW u \in Loops, Checking(u)'
        PROVE  CheckInv(u)'
    <3>1. u = t
      BY <1>0, <2>1, <2>4 DEF Checking, Running, WatchdogInv, WatchdogTypeOK, OneLoop
    <3>2. looked'[t] = [object |-> registered, at |-> now] /\ loop'[t] = "capture"
      BY <2>1 DEF WatchdogInv, WatchdogTypeOK
    <3>3. /\ registered \in 1..registrations /\ now \in Nat
          /\ Current(registered) /\ Current(registered)'
      BY <2>1, <2>4 DEF WatchdogInv, WatchdogTypeOK, Current
    <3> QED
      BY <2>1, <3>1, <3>2, <3>3 DEF CheckInv, Current
  <2>5. \A u \in Loops : looked'[u].at <= now
    BY <2>1 DEF WatchdogInv, WatchdogTypeOK
  <2> QED
    BY <2>1, <2>2, <2>3, <2>4, <2>5 DEF WatchdogInv, Current
<1>3. CASE CaptureFails(t)
  BY <1>0, <1>3, RoundEnds
  DEF CaptureFails, objectVars, WatchdogInv, WatchdogTypeOK, Current
<1>4. CASE NewOutput(t)
  <2>1. /\ NextRound(t) /\ loop[t] = "capture"
        /\ lastOutput' = [lastOutput EXCEPT ![o] = pane]
        /\ lastActivity' = [lastActivity EXCEPT ![o] = a]
        /\ UNCHANGED <<now, registered, registrations, thread, threads, stopFlag,
                       paired, timeouts>>
    BY <1>4 DEF NewOutput
  <2>2. /\ lastOutput' \in [Objects -> 0..NothingSeen]
        /\ lastActivity' \in [Objects -> 0..MaxNow]
    <3>1. pane \in 0..NothingSeen
      BY AgentAssumption DEF AgentTypeOK, NothingSeen
    <3>2. lastOutput \in [Objects -> 0..NothingSeen]
      BY DEF WatchdogInv, WatchdogTypeOK
    <3>3. lastOutput' \in [Objects -> 0..NothingSeen]
      BY <2>1, <3>1, <3>2
    <3> QED
      BY <1>0, <2>1, <3>3 DEF WatchdogInv, WatchdogTypeOK
  <2>3. ASSUME ~ paired, registered # 0
        PROVE  Current(registered)'
    <3>1. CheckInv(t) /\ Current(registered) /\ registered \in Objects
      BY <2>1, <2>3 DEF WatchdogInv, WatchdogTypeOK, Checking
    <3>2. o \in Objects /\ a \in Nat /\ lastActivity[o] \in Nat /\ now \in Nat
          /\ timeouts \subseteq Nat
      BY <1>0, <3>1 DEF CheckInv, WatchdogInv, WatchdogTypeOK
    <3>3. CASE registered = o
      BY <2>1, <3>1, <3>2, <3>3 DEF CheckInv, Current, WatchdogInv, WatchdogTypeOK
    <3>4. CASE registered # o
      BY <2>1, <3>1, <3>2, <3>4 DEF Current, WatchdogInv, WatchdogTypeOK
    <3> QED
      BY <3>3, <3>4
  <2> QED
    BY <1>0, <2>1, <2>2, <2>3, RoundEnds DEF WatchdogInv, WatchdogTypeOK
<1>5. CASE OldOutput(t) /\ ~ LongSilent(looked[t])
  BY <1>0, <1>5, RoundEnds
  DEF OldOutput, objectVars, WatchdogInv, WatchdogTypeOK, Current
<1>6. CASE OldOutput(t) /\ LongSilent(looked[t])
  <2>1. /\ loop' = [loop EXCEPT ![t] = "emit"] /\ loop[t] = "capture"
        /\ a >= lastActivity[o] + Timeout
        /\ UNCHANGED <<now, registered, registrations, lastOutput, lastActivity,
                       looked, thread, threads, stopFlag, paired, timeouts>>
    BY <1>6 DEF OldOutput, LongSilent, Goto, objectVars
  <2>2. WatchdogTypeOK' /\ (OneLoop \/ paired => OneLoop' \/ paired)
    BY <2>1 DEF WatchdogInv, WatchdogTypeOK, OneLoop, Running
  <2>3. ASSUME ~ paired, NEW u \in Loops, Checking(u)'
        PROVE  CheckInv(u)'
    BY <2>1, <2>3 DEF Checking, CheckInv, Current, WatchdogInv, WatchdogTypeOK
  <2> QED
    BY <2>1, <2>2, <2>3 DEF WatchdogInv, Current
<1>7. CASE EmitTimeout(t)
  <2>1. /\ NextRound(t) /\ loop[t] = "emit"
        /\ timeouts' = timeouts \cup {a}
        /\ lastActivity' = [lastActivity EXCEPT ![o] = a]
        /\ UNCHANGED <<now, registered, registrations, lastOutput, thread, threads,
                       stopFlag, paired>>
    BY <1>7 DEF EmitTimeout
  <2>2. /\ lastActivity' \in [Objects -> 0..MaxNow] /\ timeouts' \subseteq 0..MaxNow
        /\ lastOutput' \in [Objects -> 0..NothingSeen]
    BY <1>0, <2>1 DEF WatchdogInv, WatchdogTypeOK
  <2>3. ASSUME ~ paired
        PROVE  /\ CheckInv(t) /\ o \in Objects /\ a \in Nat /\ now \in Nat
               /\ lastActivity[o] \in Nat /\ timeouts \subseteq Nat
               /\ a >= lastActivity[o] + Timeout
    BY <1>0, <2>1, <2>3 DEF CheckInv, WatchdogInv, WatchdogTypeOK, Checking
  <2>4. ASSUME ~ paired, registered # 0
        PROVE  Current(registered)'
    <3>1. registered \in Objects /\ Current(registered)
      BY <2>4 DEF WatchdogInv, WatchdogTypeOK
    <3>2. CASE registered = o
      <4>1. lastActivity'[o] = a /\ a <= now /\ registered' = registered /\ now' = now
        BY <2>1, <2>3, <2>4 DEF CheckInv, WatchdogInv, WatchdogTypeOK
      <4>2. \A e \in timeouts' : e <= a
        BY <2>1, <2>3, <2>4, WatchdogAssumption DEF CheckInv, Current
      <4> QED
        BY <3>2, <4>1, <4>2 DEF Current
    <3>3. CASE registered # o
      BY <2>1, <2>3, <2>4, <3>1, <3>3
      DEF CheckInv, Current, WatchdogInv, WatchdogTypeOK
    <3> QED
      BY <3>2, <3>3
  <2>5. ASSUME ~ paired, NEW e \in timeouts', NEW f \in timeouts', e < f
        PROVE  f >= e + Timeout
    <3>1. \A d \in timeouts : d <= lastActivity[o] /\ d \in Nat
      BY <2>3, <2>5 DEF CheckInv, Current
    <3>2. CASE f = a
      BY <2>1, <2>3, <2>5, <3>1, <3>2
    <3>3. CASE f # a
      BY <2>1, <2>3, <2>5, <3>1, <3>3 DEF WatchdogInv
    <3> QED
      BY <3>2, <3>3
  <2>6. \A e \in timeouts' : e <= now
    <3>1. a <= now
      BY DEF WatchdogInv
    <3> QED
      BY <2>1, <3>1 DEF WatchdogInv
  <2> QED
    BY <1>0, <2>1, <2>2, <2>4, <2>5, <2>6, RoundEnds
<1> QED
  BY <1>1, <1>2, <1>3, <1>4, <1>5, <1>6, <1>7 DEF CheckStep, OldOutput

LEMMA WatchdogUnchanged ==
  WatchdogInv /\ UNCHANGED watchdogVars => WatchdogInv'
  BY DEF WatchdogInv, WatchdogTypeOK, OneLoop, Running, Checking, Current, CheckInv,
         watchdogVars
-----------------------------------------------------------------------------
MonitorInv ==
  /\ deployed \in Deployments
  /\ AgentTypeOK
  /\ TailerInv
  /\ InjectorInv
  /\ WatchdogInv

LEMMA MonitorInitial == Init => MonitorInv
<1> SUFFICES ASSUME Init
             PROVE  MonitorInv
  OBVIOUS
<1> USE AgentAssumption, WatchdogAssumption DEF Init
<1>1. AgentTypeOK
  BY DEF AgentInit, AgentTypeOK
<1>2. TailerInv
  <2>1. \A g \in 1..MaxGenerations : ~ Entered(g)
    BY DEF TailerInit, Entered
  <2>2. generation \in 1..MaxGenerations
    BY DEF AgentInit
  <2>3. TailerTypeOK
    <3>1. twice \in BOOLEAN
      BY DEF TailerInit
    <3> QED
      BY <3>1 DEF TailerInit, TailerTypeOK
  <2> QED
    BY <2>1, <2>2, <2>3 DEF TailerInit, TailerInv, EachLineOnce
<1>3. InjectorInv
  BY DEF InjectorInit, InjectorInv, InjectorTypeOK, Stages
<1>4. WatchdogInv
  <2>1. WatchdogTypeOK
    <3>1. stopFlag \in BOOLEAN /\ paired \in BOOLEAN
      BY DEF WatchdogInit
    <3>2. NothingSeen \in 0..NothingSeen
      BY DEF NothingSeen
    <3>3. NoLook \in Looking
      BY DEF NoLook, Looking
    <3> QED
      BY <3>1, <3>2, <3>3 DEF WatchdogInit, WatchdogTypeOK
  <2>2. \A t \in Loops : ~ Running(t) /\ ~ Checking(t) /\ looked[t].at <= now
    BY DEF WatchdogInit, Running, Checking, NoLook
  <2> QED
    BY <2>1, <2>2 DEF WatchdogInit, WatchdogInv, OneLoop
<1> QED
  BY <1>1, <1>2, <1>3, <1>4 DEF MonitorInv

LEMMA MonitorStep ==
  ASSUME MonitorInv, [Next]_vars
  PROVE  MonitorInv'
<1> USE DEF MonitorInv
<1>1. CASE AgentActs
  <2>1. /\ AgentStep /\ NoteGrowth /\ deployed' = deployed
        /\ UNCHANGED tailerVars /\ UNCHANGED watchdogVars
        /\ UNCHANGED <<stage, before, late, typed, failures>>
    BY <1>1 DEF AgentActs
  <2> QED
    BY <2>1, AgentTyped, TailerUnderAgent, InjectorUnderAgent, WatchdogUnchanged
<1>2. CASE TailerActs
  <2>1. /\ TailerStep /\ deployed' = deployed /\ UNCHANGED agentVars
        /\ UNCHANGED injectorVars /\ UNCHANGED watchdogVars
    BY <1>2 DEF TailerActs
  <2>2. AgentTypeOK'
    BY <2>1 DEF AgentTypeOK, agentVars
  <2> QED
    BY <2>1, <2>2, TailerKeeps, InjectorUnchanged, WatchdogUnchanged
<1>3. CASE \E i \in Inputs : InjectorActs(i)
  <2>1. /\ \E i \in Inputs : InjectionStep(i)
        /\ deployed' = deployed /\ UNCHANGED agentVars
        /\ UNCHANGED tailerVars /\ UNCHANGED watchdogVars
    BY <1>3 DEF InjectorActs
  <2>2. AgentTypeOK'
    BY <2>1 DEF AgentTypeOK, agentVars
  <2> QED
    BY <2>1, <2>2, InjectionKeeps, TailerUnchanged, WatchdogUnchanged
<1>4. CASE WatchdogActs
  <2>1. /\ WatchdogStep /\ deployed' = deployed /\ UNCHANGED agentVars
        /\ UNCHANGED tailerVars /\ UNCHANGED injectorVars
    BY <1>4 DEF WatchdogActs
  <2>2. AgentTypeOK'
    BY <2>1 DEF AgentTypeOK, agentVars
  <2>3. WatchdogInv'
    BY <2>1, WatchdogAround, WatchdogRound DEF WatchdogStep
  <2> QED
    BY <2>1, <2>2, <2>3, TailerUnchanged, InjectorUnchanged
<1>5. CASE UNCHANGED vars
  <2>1. /\ deployed' = deployed /\ UNCHANGED agentVars /\ UNCHANGED tailerVars
        /\ UNCHANGED injectorVars /\ UNCHANGED watchdogVars
    BY <1>5 DEF vars
  <2>2. AgentTypeOK'
    BY <2>1 DEF AgentTypeOK, agentVars
  <2> QED
    BY <2>1, <2>2, TailerUnchanged, InjectorUnchanged, WatchdogUnchanged
<1> QED
  BY <1>1, <1>2, <1>3, <1>4, <1>5 DEF Next

LEMMA MonitorInductive == Spec => []MonitorInv
  BY MonitorInitial, MonitorStep, PTL DEF Spec

-----------------------------------------------------------------------------
(* The agent and the parts that watch it have their types.                 *)
THEOREM MonitorTyped == Spec => []TypeOK
<1>1. MonitorInv => TypeOK
  BY DEF MonitorInv, TailerInv, InjectorInv, WatchdogInv, TypeOK
<1> QED
  BY <1>1, MonitorInductive, PTL

(* For logs of any length, rotated any number of times between any two     *)
(* steps of the tailer, no line is emitted twice and the only lines missed *)
(* of what was read are split lines and lines passed over (log_tailer.py). *)
THEOREM NoLineTwice == Spec => []EachLineOnce
<1>1. MonitorInv => EachLineOnce
  BY DEF MonitorInv, TailerInv
<1> QED
  BY <1>1, MonitorInductive, PTL

(* Any number of inputs that wait for the same log: an answer is never     *)
(* claimed before the log has grown, nor a failure for an answered input   *)
(* (input_injector.py).                                                    *)
THEOREM AnswersAreTrue == Spec => []AnswerFollowsInput
<1>1. MonitorInv => AnswerFollowsInput
  BY DEF MonitorInv, InjectorInv, AnswerFollowsInput
<1> QED
  BY <1>1, MonitorInductive, PTL

(* Over any registrations during a check, two events are a timeout apart,  *)
(* as long as one thread runs at a time (watchdog.py).                     *)
THEOREM EventsAreSpaced == Spec => []TimeoutsAreSpaced
<1>1. MonitorInv => TimeoutsAreSpaced
  BY DEF MonitorInv, WatchdogInv, TimeoutsAreSpaced
<1> QED
  BY <1>1, MonitorInductive, PTL
-----------------------------------------------------------------------------
(* The tailer has nothing to do: it takes the file for one it has read.    *)
AtRest == tailing = "idle" /\ size = IF size < offset THEN 0 ELSE offset

RestMeansDone ==
  AtRest =>
    \A l \in Lines :
      Written(l) => l \in emitted \/ Split(l) \/ PassedOver(l) \/ Mistaken

(* A tailer at rest has emitted every line of the log but those that       *)
(* LinesReachStore excepts: nothing waits for a change that need not come  *)
(* (log_tailer.py, the comparison of size and offset).                     *)
THEOREM RestIsComplete == Spec => []RestMeansDone
<1>1. ASSUME MonitorInv, AtRest, NEW l \in Lines, Written(l), ~ Mistaken
      PROVE  l \in emitted \/ Split(l) \/ PassedOver(l)
  <2>1. /\ size \in Nat /\ offset \in Nat /\ generation \in 1..MaxGenerations
        /\ entered[generation] \in 0..(MaxSize + 1) /\ MaxSize \in Nat
    BY <1>1, AgentAssumption
    DEF MonitorInv, AgentTypeOK, TailerInv, TailerTypeOK
  <2>2. l.gen = generation /\ l.at \in LineNumbers /\ l.at \in Nat \ {0}
    BY <1>1, LineAt DEF Written
  <2>3. size = offset /\ 2 * l.at <= offset
    BY <1>1, <2>1, <2>2 DEF AtRest, Written
  <2>4. Entered(generation)
    BY <1>1, <2>1, <2>3 DEF Mistaken, Entered
  <2>5. PICK c \in cuts : c.gen = generation /\ c.at = offset
    BY <1>1, <2>4 DEF MonitorInv, TailerInv
  <2>6. [gen |-> c.gen, at |-> l.at] = l
    BY <2>2, <2>5 DEF Lines
  <2>7. l \in emitted \cup found \/ Split(l) \/ PassedOver(l)
    BY <1>1, <2>2, <2>3, <2>5, <2>6 DEF MonitorInv, TailerInv, EachLineOnce
  <2> QED BY <1>1, <2>7 DEF AtRest, MonitorInv, TailerInv
<1>2. MonitorInv => RestMeansDone
  BY <1>1 DEF RestMeansDone
<1> QED
  BY <1>2, MonitorInductive, PTL

(* A watchdog that was started and not stopped since has its thread.       *)
StartedRuns == thread # 0 /\ ~ stopFlag => Running(thread)

(* The one flag serves all threads, forgotten ones as well; still none of  *)
(* them takes the end of another for its own: what start() has started     *)
(* runs until stop() (watchdog.py, start, stop, _run_loop): the safety part  *)
(* of SilenceIsReported.                                                   *)
THEOREM WatchdogKeepsRunning == Spec => []StartedRuns
<1>1. Init => StartedRuns
  BY DEF Init, WatchdogInit, StartedRuns
<1>2. ASSUME MonitorInv, StartedRuns, [Next]_vars
      PROVE  StartedRuns'
  <2>0. /\ thread \in 0..threads /\ threads \in 0..MaxLoops
        /\ loop \in [Loops -> {"none", "head", "capture", "emit", "over"}]
        /\ MaxLoops \in Nat
    BY <1>2, WatchdogAssumption DEF MonitorInv, WatchdogInv, WatchdogTypeOK
  <2>1. CASE UNCHANGED watchdogVars
    BY <2>1, <1>2 DEF watchdogVars, StartedRuns, Running
  <2>2. CASE \/ TimePasses \/ RegisterSession \/ UnregisterSession
             \/ StopWatchdog \/ StopReturns
    BY <2>2, <1>2
    DEF TimePasses, RegisterSession, UnregisterSession, StopWatchdog, StopReturns,
      loopVars, StartedRuns, Running
  <2>3. CASE StartWatchdog
    BY <2>0, <2>3 DEF StartWatchdog, StartedRuns, Running, Loops
  <2>4. ASSUME NEW t \in Loops, CheckStep(t)
        PROVE  StartedRuns'
    <3>1. /\ UNCHANGED <<thread, stopFlag>>
          /\ \E l \in {"head", "capture", "emit", "over"} :
               /\ loop' = [loop EXCEPT ![t] = l]
               /\ l = "over" => stopFlag
      BY <2>4 DEF CheckStep, Snapshot, CaptureFails, NewOutput, OldOutput,
        EmitTimeout, NextRound, Goto
    <3> QED BY <1>2, <2>0, <3>1 DEF StartedRuns, Running, Loops
  <2> QED
    BY <1>2, <2>1, <2>2, <2>3, <2>4
    DEF Next, AgentActs, TailerActs, InjectorActs, WatchdogActs, WatchdogStep, vars
<1> QED
  BY <1>1, <1>2, MonitorInductive, PTL DEF Spec
=============================================================================
