------------------------ MODULE DisplayServer_proofs ------------------------
(***************************************************************************)
(* The display tools over the store and the polling loop: the composition  *)
(* implements the loop's specification, so that what is proved of the loop *)
(* holds here too, and a display command follows its bitmap, a screenshot  *)
(* is what the app shows, and a confirmation is true.                      *)
(***************************************************************************)
EXTENDS DisplayServer, SyncManager_proofs

Step == [ServerNext \/ OthersStep]_allVars

(* A display request is made for a key the cache holds, by an agent or by  *)
(* the second half of calibrate_display.                                   *)
Requests(k, b) ==
  /\ \/ phase = "idle" /\ k \in held
     \/ phase = "submitted" /\ k = call.key
  /\ RequestDisplay(k, b)

(* What a step can do to the list and what producers hold.                 *)
LEMMA StepCases ==
  ASSUME Step
  PROVE  \/ \E tool \in {"submit_bitmap", "calibrate_display"}, k \in Keys :
              SubmitBitmap(tool, k)
         \/ \E k \in Keys \cup {call.key}, b \in BOOLEAN : Requests(k, b)
         \/ AppendEvent
         \/ ProcessRestart
         \/ AskApp \/ HearApp \/ GiveUp
         \/ OthersStep
         \/ UNCHANGED allVars
<1>1. ASSUME NEW k \in Keys, NEW b \in BOOLEAN, DisplayBitmap(k, b)
      PROVE  Requests(k, b)
  BY <1>1 DEF DisplayBitmap, Requests
<1>2. DisplayPattern => Requests(call.key, FALSE)
  BY DEF DisplayPattern, Requests
<1> QED
  BY <1>1, <1>2 DEF Step, ServerNext

LEMMA OthersCases ==
  ASSUME OthersStep
  PROVE  /\ UNCHANGED <<held, wanted, phase, call, seen>>
         /\ \/ \E p \in Producers \ {Mcp} : Stamp(p, SeedBody)
            \/ \E x \in stamped : x.by # Mcp /\ AddEvent(x)
            \/ UNCHANGED <<stamped, events>>
BY DEF OthersStep, Tick, SendRequest, ServeGetEvents, CallFails,
       ReceiveResponse, ProcessNext, FetchDone, AppRestart, storeVars

-----------------------------------------------------------------------------
(* The server's state and its event: what is requested is held, a display  *)
(* being carried out is the one remembered, the server holds back at most  *)
(* one event, that of its request, and what is held has reached the list   *)
(* or is about to.                                                         *)
ServerInv ==
  /\ held \subseteq Keys
  /\ phase # "idle" => call.key \in held
  /\ wanted # NoKey => wanted \in held
  /\ phase \in {"displaying", "polling", "heard"} => wanted = call.key
  /\ \A x, y \in stamped : x.by = Mcp /\ y.by = Mcp => x = y
  /\ \A x \in stamped :
       \/ x.by # Mcp /\ x.body = SeedBody
       \/ x.by = Mcp /\ phase = "submitting" /\ x.body = BitmapOf(call.key)
       \/ x.by = Mcp /\ phase = "displaying" /\ x.body = DisplayOf(call.key)
  /\ \A k \in held : \/ phase = "submitting" /\ call.key = k
                     \/ \E f \in events : f.body = BitmapOf(k)

LEMMA ServerInvRequest ==
  ASSUME ServerInv, NEW k, NEW b, Requests(k, b)
  PROVE  ServerInv'
<1> DEFINE new == [by |-> Mcp, ts |-> clock, body |-> DisplayOf(k)]
<1>1. /\ stamped' = stamped \cup {new} /\ \A x \in stamped : x.by # Mcp
      /\ new.by = Mcp /\ new.body = DisplayOf(k)
      /\ UNCHANGED <<events, held>> /\ wanted' = k
      /\ phase' = "displaying" /\ call'.key = k
  BY DEF Requests, RequestDisplay, Stamp
<1>2. k \in held /\ phase # "submitting"
  BY DEF ServerInv, Requests
<1> HIDE DEF new
<1> QED
  BY <1>1, <1>2 DEF ServerInv, BitmapOf, DisplayOf

LEMMA ServerInvAppend ==
  ASSUME ServerInv, AppendEvent
  PROVE  ServerInv'
<1>1. PICK x \in stamped : x.by = Mcp /\ AddEvent(x)
  BY DEF AppendEvent
<1> DEFINE new == [ts |-> x.ts, pos |-> appended + 1, body |-> x.body]
<1>2. /\ events' = events \cup {new} /\ new.body = x.body
      /\ stamped' = stamped \ {x} /\ UNCHANGED <<held, wanted>>
  BY <1>1 DEF AddEvent, AppendEvent
<1>3. \A y \in stamped' : y.by # Mcp /\ y.body = SeedBody
  BY <1>1, <1>2 DEF ServerInv
<1>4. /\ phase \in {"submitting", "displaying"}
      /\ phase' \in {"idle", "submitted", "polling"}
      /\ phase' # "idle" => call' = call
      /\ phase' = "polling" => phase = "displaying"
  BY DEF AppendEvent, Finish
<1>5. phase = "submitting" => x.body = BitmapOf(call.key)
  BY <1>1 DEF ServerInv
<1>6. \A k \in held : \E f \in events' : f.body = BitmapOf(k)
  BY <1>2, <1>5 DEF ServerInv
<1> HIDE DEF new
<1> QED
  BY <1>2, <1>3, <1>4, <1>6 DEF ServerInv, BitmapOf

LEMMA ServerInvStep == ServerInv /\ Step => ServerInv'
<1> SUFFICES ASSUME ServerInv, Step PROVE ServerInv'
  OBVIOUS
<1>1. ASSUME NEW tool \in {"submit_bitmap", "calibrate_display"}, NEW k \in Keys,
             SubmitBitmap(tool, k)
      PROVE  ServerInv'
  <2> DEFINE new == [by |-> Mcp, ts |-> clock, body |-> BitmapOf(k)]
  <2>1. /\ stamped' = stamped \cup {new} /\ \A x \in stamped : x.by # Mcp
        /\ new.by = Mcp /\ new.body = BitmapOf(k)
        /\ UNCHANGED <<events, wanted>> /\ held' = held \cup {k}
        /\ phase = "idle" /\ phase' = "submitting" /\ call'.key = k
    BY <1>1 DEF SubmitBitmap, Stamp
  <2> HIDE DEF new
  <2> QED
    BY <2>1 DEF ServerInv, BitmapOf, DisplayOf
<1>2. ASSUME NEW k, NEW b, Requests(k, b)
      PROVE  ServerInv'
  BY <1>2, ServerInvRequest
<1>3. CASE AppendEvent
  BY <1>3, ServerInvAppend
<1>4. CASE ProcessRestart
  BY <1>4 DEF ProcessRestart, SupervisorRestart, Finish, ServerInv
<1>5. CASE AskApp \/ HearApp \/ GiveUp \/ UNCHANGED allVars
  <2>1. /\ UNCHANGED <<stamped, events, held, wanted>>
        /\ \/ phase' = phase /\ call' = call
           \/ phase \notin {"submitting", "displaying"} /\ phase' = "idle"
           \/ /\ phase \in {"polling", "heard"} /\ phase' \in {"polling", "heard"}
              /\ call' = call
    BY <1>5 DEF AskApp, HearApp, GiveUp, Finish, allVars, serverVars, vars,
                storeVars
  <2> QED
    BY <2>1 DEF ServerInv, BitmapOf, DisplayOf
<1>6. CASE OthersStep
  <2>1. UNCHANGED <<held, wanted, phase, call>>
    BY <1>6, OthersCases
  <2>2. ASSUME NEW p \in Producers \ {Mcp}, Stamp(p, SeedBody)
        PROVE  ServerInv'
    <3> DEFINE new == [by |-> p, ts |-> clock, body |-> SeedBody]
    <3>1. /\ stamped' = stamped \cup {new} /\ events' = events
          /\ new.by # Mcp /\ new.body = SeedBody
      BY <2>2 DEF Stamp
    <3> HIDE DEF new
    <3> QED
      BY <2>1, <3>1 DEF ServerInv, BitmapOf, DisplayOf
  <2>3. ASSUME NEW x \in stamped, x.by # Mcp, AddEvent(x)
        PROVE  ServerInv'
    <3>1. events \subseteq events' /\ stamped' \subseteq stamped
      BY <2>3 DEF AddEvent
    <3> QED
      BY <2>1, <3>1 DEF ServerInv, BitmapOf, DisplayOf
  <2>4. CASE UNCHANGED <<stamped, events>>
    BY <2>1, <2>4 DEF ServerInv, BitmapOf, DisplayOf
  <2> QED
    BY <1>6, <2>2, <2>3, <2>4, OthersCases
<1> QED
  BY <1>1, <1>2, <1>3, <1>4, <1>5, <1>6, StepCases

(* The request under way, its stamp and what the server remembers agree    *)
(* (handlers.py and mcp_bridge.py: the state is written before the event   *)
(* is appended).                                                           *)
THEOREM ServerInvCorrect == DisplaySpec => []ServerInv
<1>1. Init /\ ServerInit => ServerInv
  BY DEF Init, StoreInit, ServerInit, ServerInv
<1> QED
  BY <1>1, ServerInvStep, PTL DEF DisplaySpec, Step

-----------------------------------------------------------------------------
LEMMA SyncStep ==
  ASSUME ServerInv, Step
  PROVE  [Next]_vars
<1>0. StoreStep => Next
  BY DEF Next
<1>1. ASSUME NEW tool \in {"submit_bitmap", "calibrate_display"},
             NEW k \in Keys, SubmitBitmap(tool, k)
      PROVE  StoreStep
  BY <1>1, ServerAssumption DEF SubmitBitmap, StoreStep, StoreNext
<1>2. ASSUME NEW k, NEW b, Requests(k, b)
      PROVE  StoreStep
  <2>1. k \in Keys
    BY <1>2 DEF Requests, ServerInv
  <2> QED
    BY <1>2, <2>1, ServerAssumption
    DEF Requests, RequestDisplay, StoreStep, StoreNext
<1>3. CASE AppendEvent
  BY <1>0, <1>3 DEF AppendEvent, StoreStep, StoreNext
<1>4. CASE ProcessRestart
  BY <1>0, <1>4 DEF ProcessRestart, StoreStep, StoreNext
<1>5. CASE AskApp \/ HearApp \/ GiveUp \/ UNCHANGED allVars
  BY <1>5 DEF AskApp, HearApp, GiveUp, allVars
<1>6. CASE OthersStep
  BY <1>0, <1>6, StoreAssumption DEF OthersStep, StoreStep, StoreNext, Next
<1> QED
  BY <1>0, <1>1, <1>2, <1>3, <1>4, <1>5, <1>6, StepCases

(* The composition implements the loop's specification, for any number of  *)
(* other producers: the server is one more of them, and it touches nothing *)
(* else of the store, the network or the app (server.py and mcp_bridge.py  *)
(* against event_store.py and SyncManager.kt).                             *)
THEOREM ImplementsSync == DisplaySpec => Spec
<1>1. ServerInv /\ Step => [Next]_vars
  BY SyncStep
<1> QED
  BY <1>1, ServerInvCorrect, PTL DEF DisplaySpec, Spec, Step

(* So what the loop promises it promises while the server is at work: the  *)
(* app shows the newest command it has or that command's millisecond is    *)
(* crowded, and its answers bring news while the batch has room for them   *)
(* (SyncManager.poll under handle_display_bitmap).                         *)
THEOREM LoopServesTheServer == DisplaySpec => []DisplayIsNewest /\ AnswersBringNews
BY ImplementsSync, DisplayIsNewestCorrect, AnswersBringNewsCorrect

-----------------------------------------------------------------------------
(* What the app has, it had, or it comes from the list.                    *)
LEMMA KnownStep ==
  ASSUME [Next]_vars
  PROVE  Known' \subseteq Known \cup events
<1>1. CASE ServeGetEvents
  BY <1>1, AnswerIsStored DEF ServeGetEvents, processorVars, Known
<1>2. CASE ProcessNext
  BY <1>2 DEF ProcessNext, ProcessEvent, Known
<1>3. CASE \/ StoreStep \/ SendRequest \/ CallFails \/ ReceiveResponse
           \/ FetchDone \/ AppRestart \/ UNCHANGED vars
  BY <1>3 DEF StoreStep, SendRequest, CallFails, ReceiveResponse, FetchDone,
              CompleteFetch, AppRestart, vars, Known, processorVars, clientVars
<1> QED
  BY <1>1, <1>2, <1>3 DEF Next

LEMMA OnlyServerDisplays ==
  \A b : b = SeedBody \/ (\E k : b = BitmapOf(k)) => b.kind # "display"
  BY ServerAssumption DEF BitmapOf

(* Every display command, in the list or on its way into it, has its       *)
(* bitmap in the list before it.                                           *)
HasBitmap ==
  /\ \A x \in Displays(stamped) :
       \E f \in events : f.body = BitmapOf(x.body.key) /\ f.ts <= x.ts
  /\ \A e \in Displays(events) :
       \E f \in events : f.body = BitmapOf(e.body.key) /\ Before(f, e)

LEMMA HasBitmapStamp ==
  ASSUME HasBitmap, NEW p, NEW b, Stamp(p, b),
         b.kind = "display" =>
           \E f \in events : f.body = BitmapOf(b.key) /\ f.ts <= clock
  PROVE  HasBitmap'
<1> DEFINE new == [by |-> p, ts |-> clock, body |-> b]
<1>1. /\ stamped' = stamped \cup {new} /\ events' = events
      /\ new.ts = clock /\ new.body = b
  BY DEF Stamp
<1> HIDE DEF new
<1> QED
  BY <1>1 DEF HasBitmap, Displays, Before

LEMMA HasBitmapAdd ==
  ASSUME StoreTypeOK, HasBitmap, NEW x \in stamped, AddEvent(x)
  PROVE  HasBitmap'
<1> DEFINE new == [ts |-> x.ts, pos |-> appended + 1, body |-> x.body]
<1>1. /\ events' = events \cup {new} /\ stamped' \subseteq stamped
      /\ new.ts = x.ts /\ new.body = x.body /\ new.pos = appended + 1
  BY DEF AddEvent
<1>2. /\ x.ts \in Nat
      /\ \A f \in events : f.ts \in Nat /\ f.pos \in Nat /\ f.pos < appended + 1
  BY DEF StoreTypeOK, Stamped, Event
<1> HIDE DEF new
<1>3. \A f \in events : f.ts <= x.ts => Before(f, new)
  BY <1>1, <1>2 DEF Before
<1> QED
  BY <1>1, <1>3 DEF HasBitmap, Displays, Before

LEMMA HasBitmapStep ==
  ASSUME StoreTypeOK, ServerInv, HasBitmap, Step
  PROVE  HasBitmap'
<1>1. ASSUME NEW tool \in {"submit_bitmap", "calibrate_display"}, NEW k \in Keys,
             SubmitBitmap(tool, k)
      PROVE  HasBitmap'
  BY <1>1, HasBitmapStamp, OnlyServerDisplays DEF SubmitBitmap
<1>2. ASSUME NEW k, NEW b, Requests(k, b)
      PROVE  HasBitmap'
  <2>1. PICK f \in events : f.body = BitmapOf(k)
    BY <1>2 DEF Requests, ServerInv
  <2>2. f.ts <= clock /\ DisplayOf(k).key = k
    BY DEF StoreTypeOK, DisplayOf
  <2>3. Stamp(Mcp, DisplayOf(k))
    BY <1>2 DEF Requests, RequestDisplay
  <2> QED
    BY <2>1, <2>2, <2>3, HasBitmapStamp
<1>3. CASE AppendEvent
  BY <1>3, HasBitmapAdd DEF AppendEvent
<1>4. CASE ProcessRestart
  <2>1. Displays(Seed) = {}
    BY OnlyServerDisplays DEF Displays, Seed
  <2> QED
    BY <1>4, <2>1 DEF ProcessRestart, SupervisorRestart, HasBitmap, Displays
<1>5. CASE UNCHANGED <<stamped, events>>
  BY <1>5 DEF HasBitmap, Displays, Before
<1>6. CASE OthersStep
  <2>1. ASSUME NEW p \in Producers \ {Mcp}, Stamp(p, SeedBody)
        PROVE  HasBitmap'
    BY <2>1, HasBitmapStamp, OnlyServerDisplays
  <2> QED
    BY <1>5, <1>6, <2>1, HasBitmapAdd, OthersCases
<1>7. AskApp \/ HearApp \/ GiveUp \/ UNCHANGED allVars =>
        UNCHANGED <<stamped, events>>
  BY DEF AskApp, HearApp, GiveUp, allVars, vars, storeVars
<1> QED
  BY <1>1, <1>2, <1>3, <1>4, <1>5, <1>6, <1>7, StepCases

(* A display command reaches the app after its bitmap, or the bitmap was   *)
(* overtaken: the order in which the server submits and displays survives  *)
(* stamps, appends, pages and retries, with any number of other producers  *)
(* (handle_submit_bitmap and handle_display_bitmap through event_store.py  *)
(* and SyncManager.kt).                                                    *)
THEOREM BitmapComesFirstCorrect == DisplaySpec => []BitmapComesFirst
<1>1. Init => HasBitmap
  <2> SUFFICES ASSUME Init PROVE HasBitmap
    OBVIOUS
  <2>1. Displays(Seed) = {}
    BY OnlyServerDisplays DEF Displays, Seed
  <2> QED
    BY <2>1 DEF Init, StoreInit, HasBitmap, Displays
<1>2. ClientInv /\ ServerInv /\ HasBitmap /\ Step => HasBitmap'
  BY HasBitmapStep DEF ClientInv, TypeOK
<1>3. ClientInv /\ HasBitmap => BitmapComesFirst
  BY DEF ClientInv, Covered, HasBitmap, BitmapComesFirst, Displays
<1> QED
  BY <1>1, <1>2, <1>3, ServerInvCorrect, ImplementsSync, ClientInvCorrect, PTL
  DEF DisplaySpec, Step

-----------------------------------------------------------------------------
(* The display remembered by the server is the last one of all that are    *)
(* listed or known to the app.                                             *)
Latest(e) == \A f \in Displays(events \cup Known) : f = e \/ Before(f, e)

LastDisplay ==
  /\ \A x \in Displays(stamped), f \in Displays(events \cup Known) : f.ts <= x.ts
  /\ wanted # NoKey /\ phase # "displaying" =>
       \E e \in Displays(events) : e.body.key = wanted /\ Latest(e)

(* Nothing that is displayed is added.                                     *)
LEMMA LastDisplayKept ==
  ASSUME LastDisplay, Known' \subseteq Known \cup events,
         Displays(events') = Displays(events),
         Displays(stamped') \subseteq Displays(stamped),
         wanted' = wanted, phase' = "displaying" \/ phase # "displaying"
  PROVE  LastDisplay'
<1>1. Displays(events' \cup Known') \subseteq Displays(events \cup Known)
  BY DEF Displays
<1>2. Displays(events)' = Displays(events')
  BY DEF Displays
<1> QED
  BY <1>1 DEF LastDisplay, Latest, Displays, Before

LEMMA LastDisplayStep ==
  ASSUME ClientInv, ServerInv, LastDisplay, Step
  PROVE  LastDisplay'
<1>0. Known' \subseteq Known \cup events
  BY SyncStep, KnownStep
<1>1. ASSUME NEW p, NEW b, Stamp(p, b), b.kind # "display"
      PROVE  Displays(events') = Displays(events) /\ Displays(stamped') = Displays(stamped)
  BY <1>1 DEF Stamp, Displays
<1>2. ASSUME NEW x \in stamped, AddEvent(x), x.body.kind # "display"
      PROVE  /\ Displays(events') = Displays(events)
             /\ Displays(stamped') \subseteq Displays(stamped)
  BY <1>2 DEF AddEvent, Displays
<1>3. ASSUME NEW tool \in {"submit_bitmap", "calibrate_display"}, NEW k \in Keys,
             SubmitBitmap(tool, k)
      PROVE  LastDisplay'
  BY <1>0, <1>1, <1>3, OnlyServerDisplays, LastDisplayKept DEF SubmitBitmap
<1>4. ASSUME NEW k, NEW b, Requests(k, b)
      PROVE  LastDisplay'
  <2> DEFINE new == [by |-> Mcp, ts |-> clock, body |-> DisplayOf(k)]
  <2>1. /\ stamped' = stamped \cup {new} /\ \A x \in stamped : x.by # Mcp
        /\ new.ts = clock /\ events' = events /\ phase' = "displaying"
    BY <1>4 DEF Requests, RequestDisplay, Stamp
  <2>2. \A f \in events \cup Known : f.ts <= clock
    BY DEF ClientInv, TypeOK, StoreTypeOK, FromList
  <2>3. Displays(stamped) = {}
    BY <2>1, OnlyServerDisplays DEF Displays, ServerInv
  <2> HIDE DEF new
  <2> QED
    BY <1>0, <2>1, <2>2, <2>3 DEF LastDisplay, Displays
<1>5. CASE AppendEvent
  <2>1. PICK x \in stamped : x.by = Mcp /\ AddEvent(x)
    BY <1>5 DEF AppendEvent
  <2>2. CASE phase = "submitting"
    <3>1. x.body.kind # "display" /\ wanted' = wanted
      BY <1>5, <2>1, <2>2, OnlyServerDisplays DEF ServerInv, AppendEvent
    <3> QED
      BY <1>0, <1>2, <2>1, <2>2, <3>1, LastDisplayKept
  <2>3. CASE phase = "displaying"
    <3> DEFINE new == [ts |-> x.ts, pos |-> appended + 1, body |-> x.body]
    <3>1. /\ events' = events \cup {new} /\ stamped' = stamped \ {x}
          /\ wanted' = wanted /\ wanted = call.key
      BY <1>5, <2>1, <2>3 DEF AddEvent, AppendEvent, ServerInv
    <3>2. /\ new.body.kind = "display" /\ new.body.key = wanted
          /\ x \in Displays(stamped)
          /\ new.ts = x.ts /\ new.pos = appended + 1
      BY <2>1, <2>3, <3>1 DEF ServerInv, DisplayOf, Displays
    <3>3. /\ x.ts \in Nat
          /\ \A f \in events \cup Known : /\ f.ts \in Nat /\ f.pos \in Nat
                                          /\ f.pos < appended + 1
      BY DEF ClientInv, TypeOK, StoreTypeOK, ClientTypeOK, Covered, Stamped,
             Event, Known
    <3> HIDE DEF new
    <3>4. \A f \in Displays(events \cup Known) : Before(f, new)
      BY <3>2, <3>3 DEF LastDisplay, Before, Displays
    <3>5. Displays(events' \cup Known') \subseteq Displays(events \cup Known) \cup {new}
      BY <1>0, <3>1 DEF Displays
    <3>6. new \in Displays(events')
      BY <3>1, <3>2 DEF Displays
    <3>7. Displays(stamped') = {}
      <4>1. \A y \in stamped' : y.by # Mcp
        BY <2>1, <3>1 DEF ServerInv
      <4> QED
        BY <3>1, <4>1, OnlyServerDisplays DEF Displays, ServerInv
    <3> QED
      BY <3>1, <3>2, <3>4, <3>5, <3>6, <3>7 DEF LastDisplay, Latest, Displays, Before
  <2> QED
    BY <1>5, <2>2, <2>3 DEF AppendEvent
<1>6. CASE ProcessRestart
  BY <1>6 DEF ProcessRestart, SupervisorRestart, LastDisplay, Displays
<1>7. CASE AskApp \/ HearApp \/ GiveUp \/ UNCHANGED allVars
  <2>1. /\ UNCHANGED <<stamped, events, wanted>>
        /\ phase' = "displaying" \/ phase # "displaying"
    BY <1>7 DEF AskApp, HearApp, GiveUp, allVars, serverVars, vars, storeVars
  <2> QED
    BY <1>0, <2>1, LastDisplayKept
<1>8. CASE OthersStep
  <2>1. wanted' = wanted /\ phase' = phase
    BY <1>8, OthersCases
  <2>2. ASSUME NEW p \in Producers \ {Mcp}, Stamp(p, SeedBody)
        PROVE  LastDisplay'
    BY <1>0, <1>1, <2>1, <2>2, OnlyServerDisplays, LastDisplayKept
  <2>3. ASSUME NEW x \in stamped, x.by # Mcp, AddEvent(x)
        PROVE  LastDisplay'
    <3>1. x.body.kind # "display"
      BY <2>3, OnlyServerDisplays DEF ServerInv
    <3> QED
      BY <1>0, <1>2, <2>1, <2>3, <3>1, LastDisplayKept
  <2>4. CASE UNCHANGED <<stamped, events>>
    BY <1>0, <2>1, <2>4, LastDisplayKept
  <2> QED
    BY <1>8, <2>2, <2>3, <2>4, OthersCases
<1> QED
  BY <1>3, <1>4, <1>5, <1>6, <1>7, <1>8, StepCases

LEMMA LastDisplayCorrect == DisplaySpec => []LastDisplay
<1>1. Init /\ ServerInit => LastDisplay
  BY DEF Init, StoreInit, ServerInit, LastDisplay, Displays
<1>2. ClientInv /\ ServerInv /\ LastDisplay /\ Step => LastDisplay'
  BY LastDisplayStep
<1> QED
  BY <1>1, <1>2, ServerInvCorrect, ImplementsSync, ClientInvCorrect, PTL
  DEF DisplaySpec, Step

(* What get_screenshot shows is what the app shows once the app has all    *)
(* that was requested, after whatever restarts, retries and redeliveries,  *)
(* except for a command of a crowded millisecond (handle_get_screenshot    *)
(* against SyncManager.kt and EventProcessor.kt).                          *)
THEOREM ScreenshotIsTrueCorrect == DisplaySpec => []ScreenshotIsTrue
<1>1. ServerInv /\ LastDisplay /\ DisplayIsNewest => ScreenshotIsTrue
  <2> SUFFICES ASSUME ServerInv, LastDisplay, DisplayIsNewest,
                      phase = "idle", wanted # NoKey, pc = "idle",
                      \A e \in Displays(events) : e \in received
               PROVE  displayKey = Screenshot \/ LastIsCrowded
    BY DEF ScreenshotIsTrue
  <2>1. PICK e \in Displays(events) : e.body.key = wanted /\ Latest(e)
    BY DEF LastDisplay
  <2>2. e \in Displays(received)
    BY DEF Displays
  <2>3. \A f \in Displays(received) : f = e \/ Before(f, e)
    BY <2>1 DEF Latest, Displays, Known
  <2> QED
    BY <2>1, <2>2, <2>3 DEF DisplayIsNewest, Screenshot, ServerInv, LastIsCrowded
<1>2. DisplaySpec => []DisplayIsNewest
  BY ImplementsSync, DisplayIsNewestCorrect
<1> QED
  BY <1>1, <1>2, ServerInvCorrect, LastDisplayCorrect, PTL

-----------------------------------------------------------------------------
(* The history: what the app shows it has shown, and so has whatever it    *)
(* answered.                                                               *)
ShownInv ==
  /\ displayKey \in shownOnce \cup {NoKey}
  /\ seen \in shownOnce \cup {NoKey}
  /\ phase \in {"displaying", "polling", "heard"} => wanted # NoKey

LEMMA ShownStep == ServerInv /\ ShownInv /\ Step => ShownInv'
<1> SUFFICES ASSUME ServerInv, ShownInv, Step PROVE ShownInv'
  OBVIOUS
<1> USE DEF ShownInv
<1>1. ASSUME NEW tool \in {"submit_bitmap", "calibrate_display"}, NEW k \in Keys,
             SubmitBitmap(tool, k)
      PROVE  ShownInv'
  BY <1>1 DEF SubmitBitmap, processorVars
<1>2. ASSUME NEW k, NEW b, Requests(k, b)
      PROVE  ShownInv'
  <2>1. k # NoKey
    BY <1>2, ProcessorAssumption DEF Requests, ServerInv
  <2> QED
    BY <1>2, <2>1 DEF Requests, RequestDisplay, processorVars
<1>3. CASE AppendEvent
  BY <1>3 DEF AppendEvent, Finish, processorVars
<1>4. CASE ProcessRestart
  BY <1>4 DEF ProcessRestart, Finish, processorVars
<1>5. CASE AskApp \/ HearApp \/ GiveUp \/ UNCHANGED allVars
  BY <1>5 DEF AskApp, HearApp, GiveUp, Finish, Confirmations, CurrentDisplay,
              allVars, serverVars, vars, processorVars
<1>6. CASE OthersStep
  BY <1>6 DEF OthersStep
<1> QED
  BY <1>1, <1>2, <1>3, <1>4, <1>5, <1>6, StepCases

(* A confirmed display is one the app has shown: a command for its key has *)
(* gone all the way, whatever restarted meanwhile (_wait_for_confirmation  *)
(* over GetCurrentDisplay).                                                *)
THEOREM ConfirmedWasShownCorrect == DisplaySpec => ConfirmedWasShown
<1>1. Init /\ ServerInit => ShownInv
  BY DEF Init, ProcessorInit, ServerInit, ShownInv
<1>2. ASSUME ServerInv, LastDisplay, ShownInv, Step,
             phase = "heard", phase' = "idle", events' = events
      PROVE  call.key \in shownOnce
  <2>1. CASE HearApp
    <3>1. seen = call.key /\ call.key # NoKey
      BY <1>2, <2>1, ProcessorAssumption DEF HearApp, ServerInv
    <3> QED
      BY <1>2, <3>1 DEF ShownInv
  <2>2. ~ ProcessRestart
    <3>1. PICK e \in Displays(events) : TRUE
      BY <1>2 DEF LastDisplay, ShownInv
    <3>2. e \notin Seed
      BY <3>1, OnlyServerDisplays DEF Displays, Seed
    <3> QED
      BY <1>2, <3>1, <3>2 DEF ProcessRestart, SupervisorRestart, Displays
  <2> QED
    BY <1>2, <2>1, <2>2, StepCases
    DEF SubmitBitmap, Requests, AppendEvent, AskApp, GiveUp, OthersStep,
        allVars, serverVars
<1>3. ServerInv /\ LastDisplay /\ ShownInv /\ Step =>
        [phase = "heard" /\ phase' = "idle" /\ events' = events =>
           call.key \in shownOnce]_allVars
  BY <1>2
<1> QED
  BY <1>1, <1>3, ShownStep, ServerInvCorrect, LastDisplayCorrect, PTL
  DEF DisplaySpec, Step, ConfirmedWasShown
=============================================================================
