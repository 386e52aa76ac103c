---------------------------- MODULE Voice_proofs ----------------------------
(***************************************************************************)
(* The safety of the voice interaction, for any number of recognizers and  *)
(* utterances.                                                             *)
(***************************************************************************)
EXTENDS Voice, TLAPS

(* The types, in two parts: sets of numbers, and flags.                    *)
Numbered ==
  /\ state \in States
  /\ session \in Nat /\ shown \in 0..session
  /\ open \subseteq 1..session /\ owing \subseteq 1..session
  /\ utterance \in Nat /\ playing \in 0..utterance
  /\ ended \subseteq 1..utterance /\ completing \subseteq 1..utterance
  /\ silent \subseteq 1..utterance

Flags ==
  /\ isListening \in BOOLEAN /\ initialized \in BOOLEAN
  /\ isSpeaking \in BOOLEAN /\ superseded \in BOOLEAN

(* What is heard has not ended, so its completion is still to come.        *)
NotYetEnded == playing # 0 => playing \notin ended \cup completing

(* Somebody will report: while the app listens the current recognizer owes *)
(* a report, and while it speaks the last utterance is on its way to its   *)
(* completion or one of those that nobody reports.                         *)
ReportIsDue ==
  /\ state = "LISTENING" => session \in owing
  /\ state = "SPEAKING" =>
       utterance \in silent \cup {playing} \cup ended \cup completing

VoiceInv ==
  /\ Numbered
  /\ Flags
  /\ RecordingIsShown
  /\ NeverBoth
  /\ NotYetEnded

LEMMA VoiceInitial == Init => VoiceInv
<1>1. Init => Numbered
  BY DEF Init, Numbered, States
<1>2. Init => Flags
  BY DEF Init, Flags
<1>3. Init => RecordingIsShown /\ NeverBoth /\ NotYetEnded
  BY DEF Init, RecordingIsShown, NeverBoth, NotYetEnded
<1> QED
  BY <1>1, <1>2, <1>3 DEF VoiceInv

(* The steps of the speech service's threads.                              *)
LEMMA ServiceStep ==
  ASSUME VoiceInv,
         \/ TtsReady \/ UtteranceEnds \/ UtteranceFails
         \/ \E u \in Utterances : OnDone(u) \/ OnTtsCompleted(u)
  PROVE  VoiceInv'
<1> USE DEF VoiceInv, sttVars
<1>1. CASE TtsReady
  BY <1>1 DEF TtsReady, Numbered, Flags, RecordingIsShown, NeverBoth, NotYetEnded
<1>2. CASE UtteranceEnds
  <2>0. Flags'
    BY <1>2 DEF UtteranceEnds, Flags
  <2>1. Numbered'
    BY <1>2 DEF UtteranceEnds, Numbered
  <2> QED
    BY <1>2, <2>0, <2>1 DEF UtteranceEnds, RecordingIsShown, NeverBoth, NotYetEnded
<1>3. CASE UtteranceFails
  <2>0. Flags'
    BY <1>3 DEF UtteranceFails, Flags
  <2>1. Numbered'
    BY <1>3 DEF UtteranceFails, Numbered
  <2> QED
    BY <1>3, <2>0, <2>1 DEF UtteranceFails, RecordingIsShown, NeverBoth, NotYetEnded
<1>4. ASSUME NEW u \in Utterances, OnDone(u)
      PROVE  VoiceInv'
  <2>0. Flags'
    BY <1>4 DEF OnDone, Flags
  <2>1. Numbered'
    BY <1>4 DEF OnDone, Numbered
  <2> QED
    BY <1>4, <2>0, <2>1 DEF OnDone, RecordingIsShown, NeverBoth, NotYetEnded
<1>5. ASSUME NEW u \in Utterances, OnTtsCompleted(u)
      PROVE  VoiceInv'
  <2>0. Flags'
    BY <1>5 DEF OnTtsCompleted, UpdateState, Flags
  <2>1. Numbered'
    BY <1>5 DEF OnTtsCompleted, UpdateState, Numbered, States
  <2>2. RecordingIsShown'
    BY <1>5 DEF OnTtsCompleted, UpdateState, RecordingIsShown
  <2>3. NotYetEnded'
    BY <1>5 DEF OnTtsCompleted, NotYetEnded
  <2>4. NeverBoth'
    <3>1. CASE state = "SPEAKING"
      <4>1. ~ superseded' => ~ superseded /\ u = utterance
        BY <1>5, <3>1, Zenon DEF OnTtsCompleted
      <4>2. ~ superseded' => playing = 0
        BY <1>5, <4>1 DEF OnTtsCompleted, NeverBoth, NotYetEnded
      <4> QED
        BY <1>5, <4>2 DEF OnTtsCompleted, NeverBoth
    <3>2. CASE state # "SPEAKING"
      BY <1>5, <3>2 DEF OnTtsCompleted, NeverBoth
    <3> QED
      BY <3>1, <3>2
  <2> QED
    BY <2>0, <2>1, <2>2, <2>3, <2>4
<1> QED
  BY <1>1, <1>2, <1>3, <1>4, <1>5

(* The steps of the user and of whoever delivers the response.             *)
LEMMA UserStep ==
  ASSUME VoiceInv,
         \/ ActivateVoice \/ CancelListening \/ OnResponseReceived
         \/ OnProcessingTimeout \/ Disable \/ Enable
  PROVE  VoiceInv'
<1> USE DEF VoiceInv, UpdateState, sttVars, ttsVars
<1>1. CASE ActivateVoice
  <2>0. Flags'
    BY <1>1 DEF ActivateVoice, StartListening, Flags
  <2>1. Numbered'
    BY <1>1 DEF ActivateVoice, StartListening, Numbered, States
  <2> QED
    BY <1>1, <2>0, <2>1 DEF ActivateVoice, StartListening, Numbered, RecordingIsShown,
                      NeverBoth, NotYetEnded
<1>2. CASE CancelListening
  <2>0. Flags'
    BY <1>2 DEF CancelListening, StopListening, Flags
  <2>1. Numbered'
    BY <1>2 DEF CancelListening, StopListening, Numbered, States
  <2> QED
    BY <1>2, <2>0, <2>1 DEF CancelListening, StopListening, RecordingIsShown,
                      NeverBoth, NotYetEnded
<1>3. CASE OnResponseReceived
  <2>0. Flags'
    BY <1>3 DEF OnResponseReceived, Speak, Flags
  <2>1. Numbered'
    <3>1. CASE initialized
      <4>1. /\ state' = "SPEAKING" /\ shown' = 0
            /\ utterance' = utterance + 1 /\ playing' = utterance + 1
            /\ UNCHANGED <<session, open, owing, ended, completing, silent>>
        BY <1>3, <3>1 DEF OnResponseReceived, Speak, Numbered
      <4> QED
        BY <4>1 DEF Numbered, States
    <3>2. CASE ~ initialized
      <4>1. /\ state' = "SPEAKING" /\ shown' = 0
            /\ utterance' = utterance + 1
            /\ silent' = silent \cup {utterance + 1}
            /\ UNCHANGED <<session, open, owing, playing, ended, completing>>
        BY <1>3, <3>2 DEF OnResponseReceived, Speak, Numbered
      <4> QED
        BY <4>1 DEF Numbered, States
    <3> QED
      BY <1>3, <3>1, <3>2 DEF OnResponseReceived, Speak, Numbered
  <2>2. NotYetEnded'
    BY <1>3 DEF OnResponseReceived, Speak, Numbered, NotYetEnded
  <2> QED
    BY <1>3, <2>0, <2>1, <2>2 DEF OnResponseReceived, Speak, Numbered,
                            RecordingIsShown, NeverBoth
<1>4. CASE OnProcessingTimeout
  <2>0. Flags'
    BY <1>4 DEF OnProcessingTimeout, Flags
  <2>1. Numbered'
    BY <1>4 DEF OnProcessingTimeout, Numbered, States
  <2> QED
    BY <1>4, <2>0, <2>1 DEF OnProcessingTimeout, RecordingIsShown, NeverBoth,
                      NotYetEnded
<1>5. CASE Disable
  <2>0. Flags'
    BY <1>5 DEF Disable, StopListening, StopSpeaking, Flags
  <2>1. Numbered'
    <3>1. CASE state = "LISTENING"
      <4>1. /\ state' = "DISABLED" /\ shown' = 0
            /\ open' = open \ {session} /\ owing' = owing
            /\ UNCHANGED <<utterance, playing, ended, completing, silent>>
            /\ UNCHANGED session
        BY <1>5, <3>1 DEF Disable, StopListening, Numbered
      <4> QED
        BY <4>1 DEF Numbered, States
    <3>2. CASE state = "SPEAKING"
      <4>1. /\ state' = "DISABLED" /\ shown' = 0
            /\ playing' = 0
            /\ UNCHANGED <<session, open, owing, utterance, ended, completing, silent>>
        BY <1>5, <3>2 DEF Disable, StopSpeaking, Numbered
      <4> QED
        BY <4>1 DEF Numbered, States
    <3>3. CASE state \in {"IDLE", "PROCESSING"}
      <4>1. /\ state' = "DISABLED" /\ shown' = 0
            /\ UNCHANGED <<session, open, owing>>
            /\ UNCHANGED <<utterance, playing, ended, completing, silent>>
        BY <1>5, <3>3 DEF Disable, Numbered
      <4> QED
        BY <4>1 DEF Numbered, States
    <3> QED
      BY <1>5, <3>1, <3>2, <3>3 DEF Disable, Numbered, States
  <2> QED
    BY <1>5, <2>0, <2>1 DEF Disable, StopListening, StopSpeaking, RecordingIsShown,
                      NeverBoth, NotYetEnded
<1>6. CASE Enable
  <2>0. Flags'
    BY <1>6 DEF Enable, Flags
  <2>1. Numbered'
    BY <1>6 DEF Enable, Numbered, States
  <2> QED
    BY <1>6, <2>0, <2>1 DEF Enable, RecordingIsShown, NeverBoth, NotYetEnded
<1> QED
  BY <1>1, <1>2, <1>3, <1>4, <1>5, <1>6

(* A recognizer's report, expected or late.                                *)
LEMMA RecognizerStep ==
  ASSUME VoiceInv, NEW s \in Sessions,
         OnSttResult(s) \/ OnSttPartialResult(s) \/ OnSttError(s)
  PROVE  VoiceInv'
<1> USE DEF VoiceInv, UpdateState, StopListening, OnlyReported, sttVars, ttsVars
<1>1. CASE OnSttResult(s)
  <2>0. Flags'
    BY <1>1 DEF OnSttResult, Flags
  <2>1. Numbered'
    <3>1. CASE state = "LISTENING"
      <4>1. /\ state' = "PROCESSING" /\ shown' = s /\ s \in owing
            /\ open' = open \ {session} /\ owing' = owing \ {s}
            /\ UNCHANGED <<utterance, playing, ended, completing, silent>>
            /\ UNCHANGED session
        BY <1>1, <3>1 DEF OnSttResult, Numbered
      <4> QED
        BY <4>1 DEF Numbered, States
    <3>2. CASE state # "LISTENING"
      BY <1>1, <3>2 DEF OnSttResult, Numbered, States
    <3> QED
      BY <1>1, <3>1, <3>2 DEF OnSttResult
  <2> QED
    BY <1>1, <2>0, <2>1 DEF OnSttResult, RecordingIsShown, NeverBoth, NotYetEnded
<1>2. CASE OnSttPartialResult(s)
  <2>0. Flags'
    BY <1>2 DEF OnSttPartialResult, Flags
  <2>1. Numbered'
    BY <1>2 DEF OnSttPartialResult, Numbered
  <2> QED
    BY <1>2, <2>0, <2>1 DEF OnSttPartialResult, RecordingIsShown, NeverBoth,
                      NotYetEnded
<1>3. CASE OnSttError(s)
  <2>0. Flags'
    BY <1>3 DEF OnSttError, Flags
  <2>1. Numbered'
    <3>1. CASE state = "LISTENING"
      <4>1. /\ state' = "IDLE" /\ shown' = 0
            /\ open' = open \ {session} /\ owing' = owing \ {s}
            /\ UNCHANGED <<utterance, playing, ended, completing, silent>>
            /\ UNCHANGED session
        BY <1>3, <3>1 DEF OnSttError, Numbered
      <4>2. shown' \in 0..session' /\ state' \in States
        BY <4>1 DEF Numbered, States
      <4>3. open' \subseteq 1..session' /\ owing' \subseteq 1..session'
        BY <4>1 DEF Numbered
      <4> QED
        BY <4>1, <4>2, <4>3 DEF Numbered
    <3>2. CASE state # "LISTENING"
      BY <1>3, <3>2 DEF OnSttError, Numbered, States
    <3> QED
      BY <1>3, <3>1, <3>2 DEF OnSttError
  <2> QED
    BY <1>3, <2>0, <2>1 DEF OnSttError, RecordingIsShown, NeverBoth, NotYetEnded
<1> QED
  BY <1>1, <1>2, <1>3

LEMMA VoiceSteps == VoiceInv /\ [Next]_vars => VoiceInv'
<1> SUFFICES ASSUME VoiceInv, [Next]_vars
             PROVE  VoiceInv'
  OBVIOUS
<1>1. CASE UNCHANGED vars
  BY <1>1 DEF vars, sttVars, ttsVars, VoiceInv, Numbered, Flags, RecordingIsShown,
              NeverBoth, NotYetEnded
<1>2. CASE Next
  BY <1>2, ServiceStep, UserStep, RecognizerStep DEF Next
<1> QED
  BY <1>1, <1>2

(* Whatever takes a report away takes the state with it.                   *)
LEMMA DueStep ==
  ASSUME VoiceInv, ReportIsDue, [Next]_vars
  PROVE  ReportIsDue'
<1> USE DEF VoiceInv, Numbered, ReportIsDue, UpdateState, sttVars, ttsVars
<1>1. CASE UNCHANGED vars
  BY <1>1 DEF vars
<1>2. CASE TtsReady \/ UtteranceEnds \/ UtteranceFails
  BY <1>2 DEF TtsReady, UtteranceEnds, UtteranceFails
<1>3. ASSUME NEW u \in Utterances, OnDone(u) \/ OnTtsCompleted(u)
      PROVE  ReportIsDue'
  BY <1>3 DEF OnDone, OnTtsCompleted
<1>4. CASE ActivateVoice \/ CancelListening \/ OnProcessingTimeout
  BY <1>4 DEF ActivateVoice, CancelListening, OnProcessingTimeout, StartListening
<1>5. CASE OnResponseReceived
  BY <1>5 DEF OnResponseReceived, Speak
<1>6. CASE Disable \/ Enable
  BY <1>6 DEF Disable, Enable
<1>7. ASSUME NEW s \in Sessions,
             OnSttResult(s) \/ OnSttPartialResult(s) \/ OnSttError(s)
      PROVE  ReportIsDue'
  BY <1>7 DEF OnSttResult, OnSttPartialResult, OnSttError
<1> QED
  BY <1>1, <1>2, <1>3, <1>4, <1>5, <1>6, <1>7 DEF Next

-----------------------------------------------------------------------------
LEMMA Typed == Numbered /\ Flags => TypeOK
  BY DEF Numbered, Flags, TypeOK

LEMMA VoiceInvariant == Spec => []VoiceInv
  BY VoiceInitial, VoiceSteps, PTL DEF Spec

(* The types of the voice interaction (VoiceUiState, the fields of         *)
(* SttManager and TtsManager).                                             *)
THEOREM VoiceTyped == Spec => []TypeOK
  BY VoiceInvariant, Typed, PTL DEF VoiceInv

(* Only the current recognizer records, and only in LISTENING              *)
(* (VoiceStateMachine over SttManager).                                    *)
THEOREM OnlyShownRecording == Spec => []RecordingIsShown
  BY VoiceInvariant, PTL DEF VoiceInv

(* The app does not speak while it listens, up to the first completion     *)
(* taken for a newer utterance's (VoiceStateMachine over both engines).    *)
THEOREM NeverBothAtOnce == Spec => []NeverBoth
  BY VoiceInvariant, PTL DEF VoiceInv

(* The app neither listens nor speaks without a report of its engines      *)
(* still to come that takes it out of that state, unless the utterance is  *)
(* one that TtsManager reports to nobody: the safety part of ListeningEnds *)
(* and SpeakingEnds (VoiceStateMachine over both engines).                 *)
THEOREM AReportIsDue == Spec => []ReportIsDue
<1>1. Init => ReportIsDue
  BY DEF Init, ReportIsDue
<1> QED BY <1>1, VoiceInvariant, DueStep, PTL DEF Spec
=============================================================================
