------------------------------- MODULE Voice --------------------------------
(***************************************************************************)
(* The car app's voice interaction: VoiceStateMachine.kt over its two      *)
(* engines, SttManager.kt and TtsManager.kt.                               *)
(*                                                                         *)
(* Every method of the state machine runs under one lock, so each is one   *)
(* action.  Around the lock are Android's two services, which report when  *)
(* they please: a recognizer that was told to stop still reports what it   *)
(* heard (stopListening is not cancel), and the end of an utterance is     *)
(* reported from a thread of the speech service.  Recognizers and          *)
(* utterances are numbered in the order they are made; 0 is none.          *)
(*                                                                         *)
(* A call whose require() fails throws and changes nothing: it is no step. *)
(***************************************************************************)
EXTENDS Naturals

CONSTANTS
  MaxSessions,    \* bound: recognizers made
  MaxUtterances   \* bound: responses received

ASSUME VoiceAssumption == MaxSessions \in Nat /\ MaxUtterances \in Nat

VARIABLES
  state,        \* uiState.currentState
  shown,        \* the recognizer whose words uiState.partialTranscript holds
  session,      \* the recognizer SttManager refers to
  open,         \* recognizers that are recording
  owing,        \* recognizers whose result or error is still to come
  isListening,  \* SttManager._isListening
  initialized,  \* TtsManager.initialized
  utterance,    \* the last response handed to speak()
  playing,      \* the utterance that can be heard
  ended,        \* utterances that ended, their onDone not yet called
  completing,   \* utterances whose onDone waits for the lock
  isSpeaking,   \* TtsManager._isSpeaking
  silent,       \* history: utterances that nobody will report as done
  superseded    \* history: an old utterance's onDone ended a newer one's state

sttVars == <<session, open, owing, isListening>>
ttsVars == <<initialized, utterance, playing, ended, completing, isSpeaking,
             silent, superseded>>
vars == <<state, shown, sttVars, ttsVars>>

States == {"IDLE", "LISTENING", "PROCESSING", "SPEAKING", "DISABLED"}

Init ==
  /\ state = "IDLE" /\ shown = 0
  /\ session = 0 /\ open = {} /\ owing = {} /\ isListening = FALSE
  /\ initialized = FALSE
  /\ utterance = 0 /\ playing = 0 /\ ended = {} /\ completing = {}
  /\ isSpeaking = FALSE
  /\ silent = {} /\ superseded = FALSE

UpdateState(s, text) == state' = s /\ shown' = text

-----------------------------------------------------------------------------
(* SttManager                                                              *)

(* A new recognizer with a listener of its own; the old one keeps its.     *)
StartListening ==
  /\ session' = session + 1
  /\ open' = open \cup {session + 1}
  /\ owing' = owing \cup {session + 1}
  /\ isListening' = TRUE

(* Variant: the flag falls and the recorder stays on.                      *)
StopListening_FlagOnly(reported) ==
  /\ isListening' = FALSE
  /\ owing' = owing \ reported
  /\ UNCHANGED <<session, open>>

(* stopListening() after the recognizers in "reported" have said their     *)
(* last word: the current recognizer stops recording.                      *)
StopListening(reported) ==
  /\ isListening' = FALSE
  /\ open' = open \ {session}
  /\ owing' = owing \ reported
  /\ UNCHANGED session

(* A report that the state machine has no use for.                         *)
OnlyReported(s) ==
  /\ isListening' = FALSE
  /\ open' = open \ {s}
  /\ owing' = owing \ {s}
  /\ UNCHANGED session

-----------------------------------------------------------------------------
(* TtsManager                                                              *)

(* The service is up: the callback of the TextToSpeech constructor.  It    *)
(* may never come, or report a failure.                                    *)
TtsReady ==
  /\ ~ initialized
  /\ initialized' = TRUE
  /\ UNCHANGED <<state, shown, sttVars, utterance, playing, ended, completing,
                 isSpeaking, silent, superseded>>

(* speak(): without a service the text is dropped, otherwise it flushes    *)
(* what is playing.                                                        *)
Speak ==
  /\ utterance' = utterance + 1
  /\ \/ /\ ~ initialized
        /\ silent' = silent \cup {utterance + 1}
        /\ UNCHANGED <<playing, isSpeaking>>
     \/ /\ initialized
        /\ playing' = utterance + 1
        /\ isSpeaking' = TRUE
        /\ UNCHANGED silent
  /\ UNCHANGED <<initialized, ended, completing, superseded>>

(* Variant: stop() only drops the flag.                                    *)
StopSpeaking_FlagOnly ==
  /\ isSpeaking' = FALSE
  /\ UNCHANGED <<initialized, utterance, playing, ended, completing, silent,
                 superseded>>

StopSpeaking ==
  /\ isSpeaking' = FALSE
  /\ playing' = 0
  /\ UNCHANGED <<initialized, utterance, ended, completing, silent, superseded>>

(* The speech service reaches the end of the text,                         *)
UtteranceEnds ==
  /\ playing # 0
  /\ ended' = ended \cup {playing}
  /\ playing' = 0
  /\ UNCHANGED <<state, shown, sttVars, initialized, utterance, completing,
                 isSpeaking, silent, superseded>>

(* or fails: onError drops the flag and tells nobody.                      *)
UtteranceFails ==
  /\ playing # 0
  /\ playing' = 0
  /\ isSpeaking' = FALSE
  /\ silent' = silent \cup {playing}
  /\ UNCHANGED <<state, shown, sttVars, initialized, utterance, ended,
                 completing, superseded>>

(* Variant: the flag falls and nobody is told.                             *)
OnDone_NoCallback(u) ==
  /\ u \in ended
  /\ ended' = ended \ {u}
  /\ isSpeaking' = FALSE
  /\ UNCHANGED <<state, shown, sttVars, initialized, utterance, playing,
                 completing, silent, superseded>>

(* onDone, before the callback gets the lock.                              *)
OnDone(u) ==
  /\ u \in ended
  /\ ended' = ended \ {u}
  /\ completing' = completing \cup {u}
  /\ isSpeaking' = FALSE
  /\ UNCHANGED <<state, shown, sttVars, initialized, utterance, playing,
                 silent, superseded>>

-----------------------------------------------------------------------------
(* VoiceStateMachine                                                       *)

ActivateVoice ==
  /\ state = "IDLE"
  /\ session < MaxSessions
  /\ StartListening
  /\ UpdateState("LISTENING", 0)
  /\ UNCHANGED ttsVars

CancelListening ==
  /\ state = "LISTENING"
  /\ StopListening({})
  /\ UpdateState("IDLE", 0)
  /\ UNCHANGED ttsVars

OnResponseReceived ==
  /\ state = "PROCESSING"
  /\ utterance < MaxUtterances
  /\ Speak
  /\ UpdateState("SPEAKING", 0)
  /\ UNCHANGED sttVars

OnProcessingTimeout ==
  /\ state = "PROCESSING"
  /\ UpdateState("IDLE", 0)
  /\ UNCHANGED <<sttVars, ttsVars>>

Disable ==
  /\ state # "DISABLED"
  /\ \/ state = "LISTENING" /\ StopListening({}) /\ UNCHANGED ttsVars
     \/ state = "SPEAKING" /\ StopSpeaking /\ UNCHANGED sttVars
     \/ state \in {"IDLE", "PROCESSING"} /\ UNCHANGED <<sttVars, ttsVars>>
  /\ UpdateState("DISABLED", 0)

Enable ==
  /\ state = "DISABLED"
  /\ UpdateState("IDLE", 0)
  /\ UNCHANGED <<sttVars, ttsVars>>

(* A recognizer's result - of whichever session - ends the listening that  *)
(* is going on; onTranscriptionReady gets its words.                       *)
OnSttResult(s) ==
  /\ s \in owing
  /\ \/ /\ state = "LISTENING"
        /\ StopListening({s})
        /\ UpdateState("PROCESSING", s)
     \/ /\ state # "LISTENING"
        /\ OnlyReported(s)
        /\ UNCHANGED <<state, shown>>
  /\ UNCHANGED ttsVars

OnSttPartialResult(s) ==
  /\ s \in owing
  /\ state = "LISTENING"
  /\ shown' = s
  /\ UNCHANGED <<state, sttVars, ttsVars>>

(* Variant: the recorder is stopped and the state left as it is.           *)
OnSttError_NoState(s) ==
  /\ s \in owing
  /\ \/ state = "LISTENING" /\ StopListening({s})
     \/ state # "LISTENING" /\ OnlyReported(s)
  /\ UNCHANGED <<state, shown, ttsVars>>

OnSttError(s) ==
  /\ s \in owing
  /\ \/ /\ state = "LISTENING"
        /\ StopListening({s})
        /\ UpdateState("IDLE", 0)
     \/ /\ state # "LISTENING"
        /\ OnlyReported(s)
        /\ UNCHANGED <<state, shown>>
  /\ UNCHANGED ttsVars

(* The completion of an utterance - whichever - ends SPEAKING.             *)
OnTtsCompleted(u) ==
  /\ u \in completing
  /\ completing' = completing \ {u}
  /\ \/ /\ state = "SPEAKING"
        /\ UpdateState("IDLE", 0)
        /\ superseded' = (superseded \/ u # utterance)
     \/ state # "SPEAKING" /\ UNCHANGED <<state, shown, superseded>>
  /\ UNCHANGED <<sttVars, initialized, utterance, playing, ended, isSpeaking,
                 silent>>

-----------------------------------------------------------------------------
Sessions == 1..MaxSessions
Utterances == 1..MaxUtterances

Next ==
  \/ TtsReady
  \/ UtteranceEnds
  \/ UtteranceFails
  \/ \E u \in Utterances : OnDone(u) \/ OnTtsCompleted(u)
  \/ ActivateVoice
  \/ CancelListening
  \/ OnResponseReceived
  \/ OnProcessingTimeout
  \/ Disable
  \/ Enable
  \/ \E s \in Sessions :
       OnSttResult(s) \/ OnSttPartialResult(s) \/ OnSttError(s)

Spec == Init /\ [][Next]_vars

(* Every recognizer reports in the end - Android ends a session by silence *)
(* or by an error of its own -, an utterance is spoken to its end or fails *)
(* and the service's threads call back.  Nothing is asked of the user, or  *)
(* of whoever delivers the response.                                       *)
Fairness ==
  /\ \A s \in Sessions : WF_vars(OnSttResult(s) \/ OnSttError(s))
  /\ WF_vars(UtteranceEnds \/ UtteranceFails)
  /\ \A u \in Utterances : WF_vars(OnDone(u)) /\ WF_vars(OnTtsCompleted(u))

FairSpec == Spec /\ Fairness

-----------------------------------------------------------------------------
(* The shape of the state.                                                 *)
TypeOK ==
  /\ state \in States
  /\ session \in Nat /\ shown \in 0..session
  /\ open \subseteq 1..session /\ owing \subseteq 1..session
  /\ isListening \in BOOLEAN /\ initialized \in BOOLEAN
  /\ utterance \in Nat /\ playing \in 0..utterance
  /\ ended \subseteq 1..utterance /\ completing \subseteq 1..utterance
  /\ silent \subseteq 1..utterance
  /\ isSpeaking \in BOOLEAN /\ superseded \in BOOLEAN

(* Nobody is recorded unless the app shows that it listens: whatever old    *)
(* recognizers still report, and however often the user cancels, disables   *)
(* and starts again, at most the current recognizer records, and only in    *)
(* LISTENING (VoiceStateMachine's transitions over SttManager's single      *)
(* recognizer field; the flag of SttManager claims it only then).           *)
RecordingIsShown ==
  /\ open \subseteq {session}
  /\ open # {} => state = "LISTENING"
  /\ isListening => open # {}

(* STT and TTS never run together (VoiceStateMachine's comment), for as     *)
(* long as no completion of an older utterance, held back by its thread     *)
(* until the next answer was being spoken, was taken for that answer's.     *)
NeverBoth ==
  ~ superseded => /\ playing # 0 => state = "SPEAKING" /\ playing = utterance
                  /\ ~ (open # {} /\ playing # 0)

(* Listening comes to an end by itself.                                     *)
ListeningEnds == state = "LISTENING" ~> state # "LISTENING"

(* So does SPEAKING, except when nobody reports the utterance as done: the  *)
(* service was not ready, or it failed (TtsManager.speak and onError); then *)
(* only disable() helps.                                                    *)
SpeakingEnds ==
  \A u \in Utterances :
    (state = "SPEAKING" /\ utterance = u) ~>
      (state # "SPEAKING" \/ utterance # u \/ u \in silent)
=============================================================================
