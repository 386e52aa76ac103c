# VanPilot in TLA+

VanPilot puts coding agents into a car: a *supervisor* on a workstation collects
what the agents say and show, an *Android Auto app* polls it and displays the
result, an *MCP server* gives the agents a display tool, and an *instance
manager* runs emulators with desktop head units for tests.  This directory holds
TLA+ modules of the parts that run concurrently or have to survive failures, the
TLC configurations that check them, and TLAPS proofs of their safety properties.

Paths below are relative to `src/`.

## 1. The system

| Part | State | Operations | Talks to |
| --- | --- | --- | --- |
| Event store (`supervisor/src/event_store.py`) | list of events, lock | `add_event`, `get_events` | called by all producers and by GetEvents |
| Log tailer (`log_tailer.py`) | byte offset of each file | `poll_once`, `start`, `stop` | event store |
| Watchdog (`watchdog.py`) | last output and time of each session | `register_session`, `unregister_session`, `check_sessions`, `start`, `stop` | tmux, event store |
| Input injector (`input_injector.py`, `tmux_launcher.py`) | none; a thread for each injection | `inject`, `inject_async` | tmux, log files, event store |
| MCP bridge, bitmap store, cache tracker (`mcp_bridge.py`, `bitmap_cache_tracker.py`) | bitmaps, sent keys of each client, one event | `store_bitmap`, `get_bitmap`, `wait_for_new_bitmap`, `mark_sent`, `reconcile` | event store, SyncService |
| SyncService (`sync_service.py`) | none; 10 worker threads | GetEvents, GetBitmap, ReconcileCache, SendUserInput | the above |
| SyncManager (`android/.../connectivity/`) | cursor, batch size, connection state | `poll` | SyncService, event processor |
| Event processor (`android/.../sync/EventProcessor.kt`) | lists, display key, cache, pending fetches | `processEvent`, `completeFetch` | bitmap cache |
| Tabs, screen, history, caches (`android/.../auto`) | messages of each agent, history index, LRU map | add, go back, go forward, put | UI thread and polling thread |
| Voice (`android/.../voice/`) | IDLE, LISTENING, PROCESSING, SPEAKING, DISABLED | activate, cancel, callbacks of the engines | STT and TTS engines |
| MCP display server (`mcp/src/`) | bitmaps, displayed key | `submit_bitmap`, `display_bitmap`, blocking display | bridge, app |
| Instance manager service (`instance_manager/src/instance_manager_service.py`) | none; 4 worker threads | 15 RPCs | allocator, store, lifecycle |
| Port allocator, instance store | slots in use; records by name | `allocate`, `release`; `create`, `get`, `update`, `remove` | service, lifecycle, refresh thread |
| Emulator lifecycle (`emulator_lifecycle.py`) | handles by name; processes; pipes | `create`, `destroy`, `restart_dhu`, `check_health`, screenshots | adb, emulator, socat, head unit |
| Refresh thread, cleanup (`server.py`, `cleanup.py`) | none | a round every 30 s; the sweep at the start; the end on a signal | store, lifecycle |
| Video capture, log collector, web server, client | capture sessions; read positions | start, stop, tail | pipe, files |

What is hard here: producers stamp an event before they append it; the cursor of
the client is a timestamp and not a position; calls fail and are repeated; both
sides lose their memory when they restart; all waiting GetBitmap calls share one
event and one pool; an instance is created, destroyed, restarted and watched by
threads that share four tables none of which is locked for more than one access;
processes die by themselves, and a pipe without a reader blocks its writer; logs
are rotated and replaced under their readers; the engines of the voice interaction
report late, twice or never; the host of the car screen, the polling thread and the
user act on templates, tabs and a history at once.
`PROJECT.json` lists these points one by one under `hazards`, with the line where
each bites and the property that covers it, or the reason why none does.

What makes each modelled part correct:

* **Synchronisation.**  No event of the store is skipped, none comes back from
  before the cursor, the batch size fits the connection, and every event is
  received in the end.
* **Display.**  A bitmap arrives before the command that shows it, the display ends
  on the newest command, a confirmation and a screenshot tell what the app shows.
* **Bitmaps.**  A waiting call whose bitmap is stored gets it; every call is
  answered.
* **Agents.**  A line of a log becomes one event, an input ends with an answer or a
  failure, silence is reported and not too often.
* **Voice.**  Nobody is recorded unless the app shows it, nor while it speaks;
  listening and speaking end.
* **Screen.**  No message is lost on its way to its tab, every template is one the
  host takes, no update is forgotten, the picture is the history's.
* **Instances.**  Slots are owned by exactly one instance, processes by one that
  exists; two emulators never meet on a port; nobody kills another's processes;
  the tables agree when nobody is at work; the dead are noticed; an orderly end
  leaves nothing running but what a failed call let go of.
* **Observers of an instance.**  One capture at a time films, a stop is answered and has
  the frames removed; a log view repeats nothing of a log that is in place.

## 2. Modules

| Module | Models |
| --- | --- |
| `EventStore` | the list, its producers, `get_events`, the loss of the list |
| `EventProcessor` | `processEvent`, `completeFetch`, the cache as a bounded set of keys |
| `SyncManager` | `poll()` over both; extends `EventStore` and `EventProcessor` |
| `EventFeed` | abstract: a feed of numbered events read in order and to the end |
| `DisplayServer` | the display tools, the bridge and the reverse call; extends `SyncManager` |
| `BitmapFetch` | GetBitmap and ReconcileCache over the cache tracker |
| `AgentSession` | an agent in its tmux session and the log it writes |
| `LogTailer`, `InputInjector`, `Watchdog` | the three components, each over `AgentSession` |
| `AgentMonitor` | the three over one agent, as a process starts them |
| `Voice` | the voice state machine over its two engines |
| `ConversationTabs` | the tab manager and the routing of text messages |
| `DisplayHistory` | LRU cache, display history and surface |
| `Screen` | `VanPilotScreen` over both |
| `InstanceStore` | the port allocator and the instance store |
| `InstanceManager` | handlers, lifecycle, refresh thread, processes; extends `InstanceStore` |
| `OrderlyShutdown` | the signal handler that destroys every instance; extends `InstanceManager` |
| `InstancePool` | abstract: a pool of slots, granted to names, returned when nothing runs on them |
| `HeadUnit` | one instance as its observers see it: record, pipe, log |
| `VideoCapture`, `LogStream` | the two observers, each over `HeadUnit` |
| `Observers` | both over one head unit |
| `MCSyncManager`, `MCDisplayServer`, `MCInstanceManager`, `MCOrderlyShutdown`, `MCScreen` | small instances, the refinement mapping |
| `SyncManager_proofs` (with the store's), `DisplayServer_proofs`, `BitmapFetch_proofs`, `AgentMonitor_proofs`, `Voice_proofs`, `Screen_proofs`, `InstanceManager_proofs`, `Observers_proofs` | theorems |

Operators named `X_Something` next to an operator `X` are variants of `X` with a
plausible mistake.  No specification uses them; `PROJECT.json` pairs each with the
property that rejects it (`mutants`).

### Event store and polling loop

* A producer is two actions: `Stamp` reads the clock and builds the event,
  `AddEvent` appends it under the lock.  Between them others may append.  The list
  is a set of events that carry their position: nothing is ever removed from it.
* `GetEvents(since, n)` is the set of the first `n` events at or after `since` in
  the order of a stable sort by timestamp.  `AnswerIsSortedPrefix` says what that has to
  do with the four lines of `get_events`: sorted, filtered and cut, as sequences, the
  list gives just these events.  `SyncSafety` checks it for every request on every
  reachable list; `AnswerIsSortedPrefixCorrect` proves it for every list.
* `poll()` is split where other threads and the network can come between: the
  request leaves (`SendRequest`), the server answers from the list of that moment
  (`ServeGetEvents`), the call fails (`CallFails`, before or after the server has
  answered) or the answer arrives (`ReceiveResponse`), and events are processed
  one by one (`ProcessNext`); the last one moves the cursor.
* `SupervisorRestart` empties the list down to the seed events, `AppRestart` resets
  the whole client: neither side persists anything.  Event positions go on over a
  restart, so the model never takes one event for another.
* `streak` is `successCountSinceReset`, saturating at the stable size; `failing` and
  `flashed` are `consecutiveFailures > 0` and `wasRecentlyReconnected`.
* `ProcessEvent` handles an event of unknown type as the code does: it has been received.
  Bitmaps are fetched always: `GrpcPollLoop.kt:26` makes the processor with
  `fetchEnabled = true`.
* The LRU cache is a set of keys bounded by its number of entries.  A put keeps the
  new key (a bitmap fits into one message of 4 MB, the byte budget is 10 MB) and may
  evict any others: which and how many depends on sizes and uses left out here.

### Display tools

* The server reads one request after the other, so `phase` is where its only
  thread is.  `SubmitBitmap` and `DisplayBitmap` end with the stamp of the bridge's
  event, `AppendEvent` is its append and what the handler does next; between the two
  other producers append, the app polls and restarts.
* A blocking request alternates `AskApp` (one call of the confirmer, whose answer is
  the app's `currentDisplayKey` of that moment or nothing) and `HearApp` (the
  comparison); `GiveUp` is its deadline.
* `get_screenshot` changes nothing and is an operator (`Screenshot`).
  `calibrate_display` is a submission followed by a display that does not block.
* The app has to have caught up for `ScreenshotIsTrue`; what it skips because a slow
  producer overtook it is excepted by name, as in `OnlyOvertakenAreLost`, and so is a last
  command in a millisecond with more events than the smallest batch (`LastIsCrowded`).
* `OthersStep` is what goes on around the server: the other producers, and every step
  of `poll()` and of the app.

### Bitmaps

A GetBitmap call is a thread: `Begin` takes a worker, `Look` looks the key up,
`MarkSent` marks it as sent, an access of its own, before the answer, `Decide` is the
test of `wait_ms`, deadline and `is_active`,
`EnterWait` and `ClearEvent` are the two halves of `wait_for_new_bitmap`.  `Put` and
`SetEvent` are the two halves of `store_bitmap`.  `threading.Event.set` notifies the
threads that wait at that moment, so `SetEvent` moves them on even when another
thread clears the flag before they run.  A client sends what it likes, whatever else
it has under way.  `Reconcile` replaces its sent set by any set of keys: the app's
cache evicts, so it may have fewer than it was given.  Nothing in the program reads
the sent sets, and no property is about them.

### Agents

* A log is counted in half lines, so that a read can end within a line.  Its name
  may come to stand for another file (`RotateLog`), also between the tailer's look at
  the size (`StatFile`) and its read (`ReadFile`, `ReadNothing`).  A read that begins or ends
  within a character raises an error the code does not catch (`ReadRaises`).
* The history variables `cuts` and `entered` hold where reads ended and where each file
  was first read: they name the two ways in which the tailer does miss a line.
* Each input has a thread.  `SendKeys` raises when the session is gone, and the thread
  is over; the deadline (`DeadlinePasses`) may fall before any look at the log.
* The watchdog's objects are numbered, because a check works on the object of its
  snapshot while the agent may be registered anew.  `StopReturns` forgets the thread,
  ended or not; `StartWatchdog` clears the one flag for all of them.
* The parts share the agent and nothing else, so the run takes them one at a time
  (`Deployments`); `server.py` starts the tailer only, the others are started by tests.

### Voice

* Every method of the state machine holds its lock and is one action; the callbacks
  of the engines are actions of their own, enabled as long as their report is
  outstanding.  A recognizer that was stopped still reports (`owing`).
* `OnDone` and `OnTtsCompleted` are two actions because the callback of the speech service
  waits for the lock between them: meanwhile the state may have moved to the next
  utterance.  `superseded` records when that happened, and `NeverBoth` is stated without it.
* `silent` are the utterances nobody will report: spoken before the engine was ready,
  or failed.  Only these may leave the state in SPEAKING.

### Screen

* `routeTextMessage` takes the tab manager's lock twice (`AddSubAgent`, `AddMessage`) and then
  calls `onUpdate`; tabs may be removed between any two of these.
* `onGetTemplate` looks twice as well: at the ids (`BeginTemplate`) and at the messages
  (`BuildTemplate`).  `dirty` is an `invalidate()` the host has not yet answered.
* Clicks are on what the last template shows, which may be outdated.
* `TrimToSize` is the shortest prefix whose removal keeps both limits, instead of the
  loop.  The cache's keys are in order of use.
* A click on an arrow moves the history first; the picture follows unless there is no
  bitmap cache (`bitmapCache` is null by default, and nothing in the app sets it), the
  bitmap has been evicted or does not decode (`GoTo`).  `missed` says that the last step
  was not drawn.

### Instances

* A call is a thread with a program counter; each action is one access to a shared
  table or one change of the set of processes.  Combined into one step are those
  pairs between which no other thread can tell the difference or act on it: a Popen
  and the update of the record with its pid; the pop of the handles and the kills;
  in `restart_dhu` the new pipe, the new processes, their handles and pids, or the
  Popen that raises (`RespawnFails`).
* A record is identified by the call that created it, because handlers keep the
  record they looked up while the name may come to stand for another one.
* Processes are `[kind, by]`: what it is, and the call that spawned it.  The head
  unit, the shell it runs under and the shell that keeps its pipe open are one, "dhu":
  they are started and tracked together.  `destroy` and `restart_dhu` kill the process
  group and so all of them; where only the shell is killed - after a failed creation
  (`emulator_lifecycle.py:220`), and by pid - the head unit goes on and is one of the
  `strays`, which no table tells of (`Adrift`).  So is a keeper whose head unit could not be
  started.  (A shell that replaces itself by the head unit leaves no stray: that is a
  stray which dies at once, and the theorems cover it.)  The emulator's pid is stored by the code and never read: an
  emulator is killed by `adb emu kill` through its port, which hits whichever
  emulator listens there (`EmulatorsOn`).
* A pipe has a reader while a head unit that opened it lives; `open()` for writing
  blocks otherwise (`Hangs`), and the thread goes to `stuck`.  `mkfifo` fails unnoticed
  where there is a pipe, so the pipe of a name is a set of head units: those of failed
  creations and of a killed service share it with the next one.
* A service that starts again sweeps emulators, those that kill can kill: `StartOver`
  leaves any of them running.  What it leaves is `leftover`, and excepted by name.
* `Mortal` says which kinds of process may die by themselves, `ServiceMayRestart`
  whether the service may be killed and start again.
* `ClientsWait = TRUE` is the discipline of clients that do not change an instance
  while another call changes it: create, destroy, restart or install.  Calls that only
  use it (screenshots, commands, adb) may come at any time, in any number.  The client
  of the repository does not keep even that: its calls time out (`client.py:65`,
  `client.py:227`) while the handler goes on.  The passing runs and the proofs assume
  it; `FleetSharedPort` shows what happens without.
* Four RPCs change an instance; `ScreenshotInstance` and `DhuCommand` write to its pipe (so
  do the video RPCs, which have modules of their own); `AdbShell`, `AdbPush`, `AdbPull`,
  `SaveSnapshot` and `LoadSnapshot` only ask its emulator, with a timeout, and are one
  action: the runs make one of them.  ListInstances and GetInstance only read the store.
* InstallApk is a step of its own and then the steps of RestartDhu, unless the client
  wants no restart.
* On a signal the main thread lists the records (`Signal`) and destroys one after the
  other in two steps (`KillNext`, `EraseNext`), by the operators the steps of
  DestroyInstance use; nothing is released or removed.  Meanwhile calls arrive (`Arrive`)
  until the server is stopped, and workers (`Work`) and the refresh thread (`Watch`) go
  on until the process ends, once no call is at work.  `disturbed` records that a call
  changed an instance since the signal.

### Observers of an instance

* `HeadUnit` is one instance of `InstanceManager`, cut finer where pipe and log change and
  without the rest: `restart_dhu` is four steps here, because a capture may open the
  pipe's name between any two of them - and create a regular file when nothing has it.
  A creation that fails (`CreateFails`) leaves pipe, log and head unit; a restart may
  fail to start the next one.  `EchoLine` and `WritePipe` are a DhuCommand whose handler
  looked the record up earlier: either may make the file it opens.
* A capture is three threads: the call that starts it, its own loop, the call that
  stops it.  StartVideoCapture wants a RUNNING record (`RecordRuns`), StopVideoCapture any
  (`Listed`): without one a capture goes on and cannot be stopped.
* `open()` of a pipe nobody reads leaves the loop in `blocked`.  `Join` waits for a loop that
  will end and gives up on one that hangs; every other wait of the loop is shorter
  than the ten seconds of `join`.  What `rmtree` cannot remove - a frame that comes
  meanwhile - is left out: nobody looks at it again.
* `tail()` keeps its file open and asks for the size of whatever has the name; `sent`
  and `resent` are the lines the stream has delivered, by log and number.  The branch
  of `tail()` for a path that has changed is left out: a name's log path never does.

## 3. Runs

Every run is exhaustive within its bounds; symmetry is used only where keys, names,
agents or calls are interchangeable and no liveness property is checked.  Deadlock is
not checked: clients may stop calling, agents and producers may have nothing to say,
and the bounded models end.

| Run | Bounds | What it shows |
| --- | --- | --- |
| `SyncSafety` | 2 producers, 3 ms, 3 appends after 1 seed event, batches 1..3, both sides restart, calls fail | `OnlyOvertakenAreLost`; `BatchFollowsConnection`; `AnswerIsSortedPrefix`; `OnlyCursorIsRepeated`; `SettledAnswersStay` |
| `SyncDelivery` | 1 producer, 4 ms, 3 appends, calls fail, the supervisor restarts, one event a millisecond | `ImplementsFairFeed`: every event is received, in order |
| `DisplayServer` | the server and one more producer, 2 keys, a cache of 1, 2 ms with at most 2 events each, 4 appends, both sides restart, calls fail | `BitmapComesFirst`, `DisplayIsNewest`, `AnswersBringNews`, `ScreenshotIsTrue`, `ConfirmedWasShown` |
| `BitmapFetch` | 3 calls, 2 workers, 1 client, 1 key | `StoredIsDelivered`, `EveryCallAnswered` |
| `AgentMonitor` | 2 log files of 2 lines and a half, 2 inputs, a timeout of 2 in 3 ticks, 2 registrations, 2 watchdog threads | `EachLineOnce`, `LinesReachStore`; `AnswerFollowsInput`, `InputIsSettled`; `TimeoutsAreSpaced`, `SilenceIsReported` |
| `Voice` | 4 recognizers, 3 utterances | `RecordingIsShown`, `NeverBoth`, `ListeningEnds`, `SpeakingEnds` |
| `Screen` | 3 sub-agents for 2 tabs, 4 messages, 2 rows; 3 bitmaps, one of double size, a cache of 2, a history of 3 | `MessagesKept`, `TemplateIsValid`, `UpdatesAreShown`, `PictureOfHistory` |
| `FleetSafety` | 3 calls (create, destroy, install with its restart, command, screenshot, adb), 3 names, 2 slots, 3 workers, emulators die, creations and restarts of the head unit fail, the service restarts | `ViewsAgree`, `InstancesCoexist`, `OnlyOwnKilled`; `ImplementsPool`: a pool of slots |
| `FleetLifetime` | 2 calls (create, install, screenshot, command, adb), 2 names, 2 slots, 1 worker, socats die, restarts of the head unit fail, a signal at any time, a new start after the end | `NothingOutlives`; `EveryCallAnswered`, `DeadIsNoticed` |
| `Observers` | 2 head units, 2 lines a log, 2 captures, 2 frames | `OneCaptureFilms`, `NoDirectoryIsLeft`, `CountIsVideo`, `StopIsAnswered`; `OnlyReplacedRepeats` |
| `SyncSameStamp` | batch 2, three events in a millisecond | `EventuallyReceived` **fails** |
| `FleetSharedPort` | 3 calls, clients that do not wait | `InstancesCoexist` **fails** |

**Why the bounds are enough.**  Two producers and three milliseconds give every
order of two stamps and two appends, with a third event to be displaced or passed
over; batches of 1, 2 and 3 against up to four events cover a batch that is smaller
than, equal to and larger than what is there, and the doubling with its cap (3 is
not a power of two).  The display tools need two bitmaps and two commands for one to
replace the other.  Three calls on two workers fill the pool with one in the queue.
Three calls and three names on two slots make one creation fail for want of a slot, or
let a destruction or a restart overlap with a creation and the refresh thread.  Two
calls and two names are two records for the signal handler to destroy, or one and a
worker beside it; with one worker a call waits for another, and no command meets a
restart under way, which would hang it for ever.  Two
files of two lines and a half can be equal, shorter and longer than one another and
end within a line; a second watchdog thread and a second registration are what the
hazards name.  Four recognizers and three utterances leave two old ones to report
during a third.  Three agents are one more than there are tabs, three bitmaps one
more than the cache holds.  Two captures and two head units are one to be replaced
and one that replaces it.  Where a bound would hide a case the theorems of section 5
have none.

**Milliseconds that fill a batch.**  Nothing bounds the number of events in one
millisecond: `MaxPerStamp` is a bound of the runs, and no theorem assumes anything of it.
(`SyncDelivery`, which is about liveness, keeps it below the smallest batch.)  What a
crowded millisecond does is named in the properties it touches.  When it holds as many
events as the batch, the loop cannot pass it - `SyncSameStamp` shows that -, so
`AnswersBringNews` is about an answer that has room beyond the cursor's millisecond
(`RoomForNews`).  When it holds more than the smallest batch (5 in the code), a
display command is repeated from its middle and may be the last one processed, so
`DisplayIsNewest` and `ScreenshotIsTrue` except a newest command of such a millisecond
(`Crowded`).  The run of the display server has neither case; the theorems have both.

**The failing runs**, listed under `findings` with the text each contradicts:

1. `SyncSameStamp`: the bound is inclusive and the answer is cut, so a millisecond
   that holds as many events as the batch is answered for ever.
2. `FleetSharedPort`: DestroyInstance of an instance that is being created frees the
   slot under the creation; two emulators end up on one port.

**Also met while modelling**, not made into runs of their own:

* A GetBitmap waiter that clears the shared event takes the wake-up from a call that
  has looked and not yet begun to wait; that one sleeps until its deadline although
  its bitmap is stored (`sync_service.py:92` says otherwise).  `StoredIsDelivered` holds:
  the last look still finds it.  Waiting calls can fill the pool and delay GetEvents.
* The first poll asks for the stable batch although the comment at `SyncManager.kt:36`
  promises a conservative one.
* The refresh thread sees the head unit that `restart_dhu` has just killed, puts the
  instance in ERROR, and the restart leaves it there.  A head unit that dies between
  the health check and the screenshot blocks that thread for ever.
* A command, a screenshot or a video RPC that comes between the kill and the new head
  unit of `restart_dhu`, or during a destruction, opens a pipe that nobody reads: its
  worker hangs for ever.  Four of them and the service answers nobody, and
  since the process waits for its workers, `sys.exit` does not end it.
* `docs/runbook.md:303` says that the service will not clean up its emulators on Ctrl-C or
  SIGTERM; the handler destroys every instance.
* `store.create` outside the try block leaks a slot when two creations of one name race.
* A creation under way when the signal comes starts its next processes after its record
  was destroyed, and a queued one may start after the handler's list was taken: their
  processes outlive the service.  `NothingOutlives` excepts these (`disturbed`).
* After a restart of the head unit a log view goes back to the start of the old log at
  every poll until the new log is longer, and it never reads the new one, although
  `log_collector.py:110` says that rescans see it: the path is the same.
* A capture that opens the pipe's name between `rm` and `mkfifo` creates a regular file;
  the new head unit reads the end of that file.
* DestroyInstance does not stop a capture, and without a record StopVideoCapture answers
  NOT_FOUND: the capture can be stopped only once the name has a record again, and
  until then its directory stays.
* A creation that fails kills the shell of its head unit and not the process group,
  though `destroy` knows that these are two processes (`emulator_lifecycle.py:220` against
  `:267`): the head unit goes on in no table, with the pipe, which the next one of the
  name shares, since `mkfifo` fails unnoticed.  No signal and no sweep finds it.
* A `restart_dhu` whose Popen raises leaves a RUNNING instance with a pipe that nobody
  reads: the next screenshot or command of it hangs.
* Nothing reads the sets of sent keys: ReconcileCache answers from what the client
  reports, and GetBitmap sends whatever is asked.
* An input into a session that has gone raises in its thread, and neither an answer
  nor a failure is ever reported.
* A read that ends within a multi-byte character ends the tailer's thread.
* An error of the speech service, or a response before it is ready, leaves the voice
  state in SPEAKING; a late completion of one utterance may end the next one's state.
* A step back to an evicted bitmap moves the history and not the picture; as long as
  nothing sets `bitmapCache`, every step does.  A third
  sub-agent's messages are dropped.  The colour of the screen's indicator comes from
  a `ConnectionMonitor` of its own and not from the polling loop's.

## 4. Fairness

* `SyncManager!Fairness`: the loop polls and processes (weak fairness: one thread
  that never stops); the server's answer and its arrival are strongly fair: each call
  may fail, but not all of them for ever.  Nothing is asked of producers or restarts.
* `BitmapFetch!Fairness`: worker threads run, a producer that has stored sets the
  event, and time passes, so deadlines do.  Nobody has to submit or to call.
* `AgentMonitor!Fairness`: the threads that were started run, and time passes.  Nothing
  is asked of the agent, the user, or of whoever registers, starts and stops.
* `Voice!Fairness`: a recognizer reports in the end (Android ends a session by silence
  or an error), an utterance is spoken or fails, and callbacks get the lock.  Nothing
  is asked of the user or of the response.
* `OrderlyShutdown!Fairness`: worker threads and the refresh thread run.  A thread
  that is `stuck` has no step, so fairness does not rescue it.  `DeadIsNoticed` asks
  for nothing once the refresh thread hangs; `EveryCallAnswered` is checked while head
  units live, and asks for nothing once a failed restart has left a pipe without a
  reader (`Unread`).  Both end at a signal, which nobody has to send.
* `Observers!Fairness`: the capture threads and the stop calls run; an `open()` that hangs
  is not asked to return.

`DisplayServer` and `Screen` state no liveness: the confirmer's call has no deadline, and the
host decides when it asks for a template.

## 5. Proofs

All proofs are checked for every value of the constants that satisfies the named
assumptions: any number of producers, calls, names, agents, inputs or captures, any
batch sizes, any bounds.  Each module's type invariant is a theorem; the runs check
the other properties only.

* `SyncManager_proofs`, the store: `StoreTypeCorrect`; `SettledAnswersStayCorrect` (an append
  can only push an event out of an answer if it is older than that event, and a
  settled event has no older one still to come); `AnswerIsSortedPrefixCorrect` (the
  answer is what sorting, filtering and cutting the list gives, for every list and
  request).
* `SyncManager_proofs`, the loop: `TypeCorrect`; `CoveredCorrect`; `OnlyOvertakenAreLostCorrect`;
  `CursorNeverBackCorrect`; `OnlyCursorIsRepeatedCorrect`; `BatchFollowsConnectionCorrect`;
  `DisplayIsNewestCorrect`, `AnswersBringNewsCorrect`; `StoreIsOnlyRead` (the composed
  system implements the store alone) and with it `SettledAnswersStayForTheApp` and
  `SortedAnswersForTheApp`;
  `ImplementsFeed` (with one producer it implements the safety part of `EventFeed`).
* `DisplayServer_proofs`: `ServerInvCorrect`; `ImplementsSync` (the composition implements
  the loop's specification) and with it `LoopServesTheServer`;
  `BitmapComesFirstCorrect`, `ScreenshotIsTrueCorrect`, `ConfirmedWasShownCorrect`.
* `InstanceManager_proofs`: `ManagerTyped`; under `ClientsWait`, `SlotsAreAccounted`,
  `NothingIsOrphaned`, `EmulatorsCoexist`, `TablesAgree`, `OthersAreSpared`,
  `ManagerIsPool` (it implements `InstancePool`) and `ShutdownLeavesNothing`; and while
  head units do not die by themselves, `ChangesNeverHang` (the safety part of
  `EveryCallAnswered`).
* `BitmapFetch_proofs`: `FetchTyped`, `WaitingIsNotInVain` (a waiter whose
  bitmap was stored finds it: the safety part of `StoredIsDelivered`).
* `AgentMonitor_proofs`: `MonitorTyped`, `NoLineTwice`, `AnswersAreTrue`, `EventsAreSpaced`;
  `RestIsComplete` and `WatchdogKeepsRunning` (safety parts of `LinesReachStore` and
  `SilenceIsReported`).
* `Voice_proofs`: `VoiceTyped`, `OnlyShownRecording`, `NeverBothAtOnce`; `AReportIsDue` (the
  safety part of `ListeningEnds` and `SpeakingEnds`).
* `Screen_proofs`: `ScreenTyped`, `NoMessageIsLost`, `TemplatesAreTaken`,
  `NoUpdateIsForgotten`, `DrawnIsCurrent`.
* `Observers_proofs`: `ObserversTyped`, `OneCaptureFilmsCorrect`, `DirectoriesGo`,
  `CountIsVideoCorrect`, `OneLogIsSentOnce`.

**The polling loop.**  "No event before the cursor is missing" is not inductive: it says
nothing of the events on the page being processed, nor of appends that land between
what the app has and what it is about to get.  `Covered` strengthens it: every
stored event before (by timestamp, then position) an event the app has, or has on
its page, is there as well or was *overtaken*, appended after a younger event the
app already had.  A served page keeps it because the answer is a prefix of the
store's order (`AnswerHasNoGap`); an append keeps it because its position is new, so
a late stamp is by definition overtaken; `ProcessNext` keeps it because it takes the
page's first event.  The cursor is the timestamp of a received event, and the
invariant gives the rest.  `OnlyCursorIsRepeatedCorrect` needs one invariant more
(`Behind`): what the app has lies at or before the cursor or before the rest of the
page.

**Sorting and counting.**  In a sorted list an element stands at its `Rank`, the number of
elements before it.  Ranks are different, because positions are unique (`ListInv`), and
there are as many as elements, so each number below the size is one of them
(`EveryRankTaken`).  That gives the sorted list of `get_events` (`SortedListExists`), and it makes
an answer that leaves an event out a full one (`FullAnswer`).  The batch size rests on a
recursive function, `Doubled`; `DoubledExists` proves its equation from functions on
beginnings of the naturals, because the library's theorem on recursive definitions
takes an operator.

**What is repeated, and shown.**  Every poll gets the events of the cursor's millisecond
again.  An answer that leaves an event out is full (`CutAnswer`); if that millisecond does
not fill it, it reaches beyond, and brings news.  `PageWhole` says that what the app has
had, and what follows one of the page's events, is on the page too, so that a
repetition goes on to its end - unless the millisecond is more than the smallest batch
holds (`Filled`, `Crowded`), and such a millisecond stays so for what the app has
(`CrowdedStays`).  So the newest command the app has is shown, or is on the page and about
to be processed again, or is one of those (`ShowsNewest`).

**The feed.**  With one producer, stamps are appended in their order (`InOrder`), so the
order of positions is that of `Before` and nothing is overtaken.  A step of the loop reads
the feed's next event or one it has read (`ProcessReads`), an append publishes, restarts
lose and forget; no other step changes the feed (`FeedStep`).

**The display server.**  Every step of the composition is a step of the loop or leaves
its variables alone (`SyncStep`), so the loop's invariants hold.  Over them: what the
server holds has its bitmap in the list, unless the request under way is about to
append it (`ServerInv`); so a display command, which is stamped no earlier and appended
later, comes after its bitmap (`HasBitmap`); and the last of all display commands, in the
list or only with the app, is the one the server remembers, once it is appended
(`LastDisplay`).  `Covered` and `ShowsNewest` give the rest.

**The instance manager.**  The inductive invariant has three layers, each resting on the
one before.  `CallsInv`: with clients that wait, one call at most changes the instance of
a name (`OneCall`), however many use it, and it works on the record the name has (`Listed`, `Creation`, `Targets`).
`PortsAccounted` is inductive over it: slots are taken and given back by the call that
owns the name.  `ProcessInv`: what runs for a name is what the creation under way has
started, or what the handles track (`TrackedAt`), the three tables agree once an
instance is created (`AgreedAt`), and nothing tracked is left after the kills (`Swept`).
Strays are not owned by anybody: the invariant says only that the call which started
one has failed or is about to.  The lemma
`LocalStep` says once that a step of a call disturbs its own name only; `adb emu kill`
needs the slots for that, because it goes by port.

**The pool.**  A slot of `InstancePool` is granted to the name of the call that owns it
(`Owns`), and a name is served while a process of a call for it runs that is not a
leftover of an earlier service.  `CallSlots` sorts the steps of a call by what they do
to ownership: nothing, one slot taken, one given back.  The taken slot is the lowest
(`PoolGrants`); what starts, starts for an owner (`OwnService`, `PoolServes`); a slot goes
back in `release` or `free` only, and by `Swept` nothing runs for its name then
(`PoolReturns`).  A restarted service starts over, and what survived is a leftover.
With this `PortsAccounted` and `NoOrphans` need no run of their own: the pool rests on
them, and they are the theorems `SlotsAreAccounted` and `NothingIsOrphaned`.

**The shutdown.**  A signal that meets no change under way finds the manager's invariant,
and with nobody at work that says: what runs and is no leftover is the process some
listed record's handles name (`SignalFinds`).  From then on nothing is started or listed
(`CalmStep`), and each record destroyed takes what runs for its name (`KillTakes`), so what
runs has its record still to come (`Doomed`); when none is left, nothing tracked runs, and
what is astray was so before.  Kills by
pid are not needed for this - without a change under way a listed instance that runs
anything has handles - and `adb emu kill` may miss a dead emulator's port: the proof
looks only at what is still alive.

**What hangs.**  A creation or a restart that waits for the focus of its head unit finds it
alive and at the pipe (`Lively`): only a change of the same name kills it or takes the
pipe, and there is no other one at work (`KillsItsOwn`, `TouchesAreChanges`).  So the step that
writes to the pipe returns.  Commands and screenshots have no such protection: not from
a change under way, and not from a restart that failed.

**The others.**  *Agents*: the offset of the file that carries
the name is where its last read ended (`TailerInv`), so reads of a file follow one
another and lines are emitted once; while one thread checks at a time, no event is
later than the last activity of any object a check may look at (`WatchdogInv`).
A tailer at rest stands where a read ended, so `EachLineOnce` speaks of all that is written.
*Voice*: what is heard has not ended, so its completion is still to come (`NotYetEnded`);
whatever takes a report away takes the state with it (`DueStep`).
*Screen*: the message on its way is newer than all that are listed, and its agent has a
list by the time it is appended (`Routed`); templates rest on the invariants of tabs and
pictures (`TemplateInv`).  *Observers*: a listed session is in the table or was taken out by
a stop, and a thread at work outside the table has its event set, is about to, or
was left behind (`CaptureInv`), and the frames in its directory are those it counted and at most one
more (`Counted`); while the open
log has the log's name, what was sent of it ends where the reader stands (`StreamInv`).

**Only model-checked.**  Liveness, that of the feed's refinement included (fairness and
`ENABLED` are beyond the prover; `ImplementsFeed` is the part without them): `ImplementsFairFeed`,
`EveryCallAnswered`, `DeadIsNoticed` and the other properties of that kind; of most, a
theorem named above states what must never happen for them to hold.  Every
invariant and action property of a passing run is a theorem, those of the instance
manager for clients that wait.

## 6. Not modelled

* Sizes of messages (the 4 MB limit of a gRPC message); sizes of bitmaps are modelled
  in `DisplayHistory` only.
* Wall clocks that go back; processes whose pid is reused; ports taken by programs that
  are not instances.
* The instance manager's listing and one-time log, its web pages and command line; a
  second signal while the first is handled.
* `SyncClient`, a second polling client that only its tests make; the JSON-RPC framing
  of the MCP server.
* Calibration and PNG code (pixels and floating point), colours and layout of templates,
  phone views, protocol, build, container and test files.

## 7. Plan

Done: every component with a state of its own and with concurrency is modelled, but for
the parts listed above.  What is left: `SyncClient` against `EventFeed`, should the app come
to use it.
