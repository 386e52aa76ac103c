--------------------------- MODULE DisplayServer ----------------------------
(***************************************************************************)
(* The display tools an agent calls: mcp/src/server.py and handlers.py,    *)
(* the bridge that turns them into events (supervisor/src/mcp_bridge.py)   *)
(* and the reverse call by which a blocking request asks the app what it   *)
(* shows (android_app_client.py, AndroidAppServiceImpl.kt) - over the      *)
(* store, the network and the app of SyncManager.                          *)
(*                                                                         *)
(* The server answers one request before it reads the next.  It runs in    *)
(* the supervisor's process, as the end-to-end tests wire it, and is one   *)
(* of the store's producers.                                               *)
(***************************************************************************)
EXTENDS SyncManager

CONSTANTS
  Mcp,        \* the producer that is the server's thread
  Confirmer   \* whether an Android app client is configured

NoCall == [tool |-> "none", key |-> NoKey, blocking |-> FALSE]
BitmapOf(k) == [kind |-> "bitmap", key |-> k]
DisplayOf(k) == [kind |-> "display", key |-> k]

(* The server's events are of the payloads, and the hard-coded ones are    *)
(* none of them: texts and alerts.                                         *)
ASSUME ServerAssumption ==
  /\ Mcp \in Producers /\ Confirmer \in BOOLEAN
  /\ \A k \in Keys : BitmapOf(k) \in Bodies /\ DisplayOf(k) \in Bodies
  /\ SeedBody.kind \in {"text", "alert"}

VARIABLES
  held,      \* _cache
  wanted,    \* _current_display_key
  phase,     \* where the request being handled is
  call,      \* the request
  seen,      \* what the app last answered to it
  shownOnce  \* history: keys the app's processes have shown

serverVars == <<held, wanted, phase, call, seen, shownOnce>>
allVars == <<vars, serverVars>>

ServerInit ==
  /\ held = {}
  /\ wanted = NoKey
  /\ phase = "idle"
  /\ call = NoCall
  /\ seen = NoKey
  /\ shownOnce = {}

Finish ==
  /\ phase' = "idle"
  /\ call' = NoCall
  /\ seen' = NoKey

-----------------------------------------------------------------------------
(* submit_bitmap and the first half of calibrate_display: the bitmap goes  *)
(* to the cache, and the bridge stamps its event.                          *)
SubmitBitmap(tool, k) ==
  /\ phase = "idle"
  /\ Stamp(Mcp, BitmapOf(k))
  /\ held' = held \cup {k}
  /\ phase' = "submitting"
  /\ call' = [tool |-> tool, key |-> k, blocking |-> FALSE]
  /\ UNCHANGED <<processorVars, clientVars, wanted, seen, shownOnce>>

(* Variant: only a request that blocks is remembered.                      *)
RequestDisplay_Forgets(k, blocking) ==
  /\ Stamp(Mcp, DisplayOf(k))
  /\ wanted' = IF blocking THEN k ELSE wanted
  /\ phase' = "displaying"
  /\ call' = [tool |-> "display_bitmap", key |-> k, blocking |-> blocking]
  /\ UNCHANGED <<processorVars, clientVars, held, seen, shownOnce>>

(* The display key is remembered, and the bridge stamps its event.         *)
RequestDisplay(k, blocking) ==
  /\ Stamp(Mcp, DisplayOf(k))
  /\ wanted' = k
  /\ phase' = "displaying"
  /\ call' = [tool |-> "display_bitmap", key |-> k, blocking |-> blocking]
  /\ UNCHANGED <<processorVars, clientVars, held, seen, shownOnce>>

(* Variant: the key is not looked up.                                      *)
DisplayBitmap_Unchecked(k, blocking) ==
  /\ phase = "idle"
  /\ RequestDisplay(k, blocking)

(* display_bitmap; a key the cache does not hold is answered by an error   *)
(* and changes nothing.                                                    *)
DisplayBitmap(k, blocking) ==
  /\ phase = "idle"
  /\ k \in held
  /\ RequestDisplay(k, blocking)

(* The bridge appends the event it has stamped, and the request is         *)
(* answered - a blocking one without a confirmer by an error -, goes on to *)
(* its display or begins to poll.                                          *)
AppendEvent ==
  /\ phase \in {"submitting", "displaying"}
  /\ \E x \in stamped : x.by = Mcp /\ AddEvent(x)
  /\ \/ /\ phase = "submitting" /\ call.tool = "submit_bitmap"
        /\ Finish
     \/ /\ phase = "submitting" /\ call.tool = "calibrate_display"
        /\ phase' = "submitted"
        /\ UNCHANGED <<call, seen>>
     \/ /\ phase = "displaying" /\ ~ (call.blocking /\ Confirmer)
        /\ Finish
     \/ /\ phase = "displaying" /\ call.blocking /\ Confirmer
        /\ phase' = "polling"
        /\ UNCHANGED <<call, seen>>
  /\ UNCHANGED <<processorVars, clientVars, held, wanted, shownOnce>>

(* The second half of calibrate_display: handle_display_bitmap.            *)
DisplayPattern ==
  /\ phase = "submitted"
  /\ RequestDisplay(call.key, FALSE)

(* The app's answer to GetCurrentDisplay.                                  *)
CurrentDisplay == displayKey

(* What the confirmer can say: a call that fails is "".                    *)
Confirmations == {CurrentDisplay, NoKey}

AskApp ==
  /\ phase = "polling"
  /\ seen' \in Confirmations
  /\ phase' = "heard"
  /\ UNCHANGED <<vars, held, wanted, call, shownOnce>>

(* Variant: any answer will do.                                            *)
HearApp_AnyKey ==
  /\ phase = "heard"
  /\ Finish
  /\ UNCHANGED <<vars, held, wanted, shownOnce>>

HearApp ==
  /\ phase = "heard"
  /\ \/ seen = call.key /\ Finish
     \/ /\ seen # call.key
        /\ phase' = "polling" /\ seen' = NoKey
        /\ UNCHANGED <<call>>
  /\ UNCHANGED <<vars, held, wanted, shownOnce>>

(* The deadline, looked at before each call of the confirmer.              *)
GiveUp ==
  /\ phase = "polling"
  /\ Finish
  /\ UNCHANGED <<vars, held, wanted, shownOnce>>

-----------------------------------------------------------------------------
(* get_screenshot answers from the server's own state.                     *)
Screenshot == IF wanted \in held THEN wanted ELSE NoKey

(* What goes on around the server: everything of SyncManager, except that  *)
(* only the server stamps display events.                                  *)
OthersStep ==
  /\ \/ /\ \/ Tick
           \/ \E p \in Producers \ {Mcp} : Stamp(p, SeedBody)
           \/ \E x \in stamped : x.by # Mcp /\ AddEvent(x)
        /\ UNCHANGED <<processorVars, clientVars>>
     \/ SendRequest
     \/ ServeGetEvents
     \/ CallFails
     \/ ReceiveResponse
     \/ ProcessNext
     \/ FetchDone
     \/ AppRestart
  /\ shownOnce' = shownOnce \cup ({displayKey'} \ {NoKey})
  /\ UNCHANGED <<held, wanted, phase, call, seen>>

(* The supervisor's process starts anew, and the server with it.           *)
ProcessRestart ==
  /\ SupervisorRestart
  /\ held' = {} /\ wanted' = NoKey
  /\ Finish
  /\ UNCHANGED <<processorVars, clientVars, shownOnce>>

ServerNext ==
  \/ \E tool \in {"submit_bitmap", "calibrate_display"}, k \in Keys :
       SubmitBitmap(tool, k)
  \/ \E k \in Keys, b \in BOOLEAN : DisplayBitmap(k, b)
  \/ AppendEvent
  \/ DisplayPattern
  \/ AskApp
  \/ HearApp
  \/ GiveUp
  \/ ProcessRestart

DisplaySpec ==
  /\ Init /\ ServerInit
  /\ [][ServerNext \/ OthersStep]_allVars

-----------------------------------------------------------------------------
(* A display command reaches the app after its bitmap: the app has had the *)
(* bitmap's event when it shows the key, unless a slower producer made it  *)
(* skip that event (the order of handle_submit_bitmap and                  *)
(* handle_display_bitmap through stamps, the store and the pages of the    *)
(* client).                                                                *)
BitmapComesFirst ==
  \A e \in Displays(received) \cap events :
    \E f \in events :
      /\ f.body = BitmapOf(e.body.key) /\ Before(f, e)
      /\ f \in received \/ Overtaken(f, received)

(* A confirmation means that the app has shown the key: a command for it   *)
(* has gone through the store, the network and the app.  It need not be    *)
(* the command of this request - the comparison is by key -, so an earlier *)
(* display of the same key confirms a later one.                           *)
ConfirmedWasShown ==
  [][phase = "heard" /\ phase' = "idle" /\ events' = events =>
       call.key \in shownOnce]_allVars

(* What get_screenshot shows an agent is what the app displays, as soon as *)
(* the app has received all that was requested: no restart, retry or       *)
(* redelivery leaves the app on another picture (the server never asks the *)
(* app) - except when the command is of a millisecond with more events     *)
(* than the smallest batch.                                                *)
LastIsCrowded ==
  \E e \in Displays(received) : e.body.key = wanted /\ Crowded(e.ts)

ScreenshotIsTrue ==
  /\ phase = "idle" /\ wanted # NoKey /\ pc = "idle"
  /\ \A e \in Displays(events) : e \in received
  => displayKey = Screenshot \/ LastIsCrowded
=============================================================================
