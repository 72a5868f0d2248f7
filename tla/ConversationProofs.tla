------------------------- MODULE ConversationProofs -------------------------
(***************************************************************************)
(* RealtimeBridge implements Conversation: every step of the bridge, of    *)
(* Twilio and of OpenAI is a step of the conversation or none.             *)
(***************************************************************************)
EXTENDS RealtimeBridgeProofs

Settling == Larger(acked, cut)

\* Only a mark, the end of the audio and the completion event can hang up.
MayHangUp == TMark \/ OAudioDone \/ OCompletedEvent

LEMMA HungUpSame ==
    ASSUME [Next]_vars, ~MayHangUp
    PROVE  HungUp' = HungUp
<1> USE DEF HungUp, MayHangUp, Storing, Stopped
<1>1. CASE Run
  BY <1>1 DEF Run, Connect, ConnectedEvent, Configure, RelayEnds, Close,
              DisconnectedEvent, RunUnchanged
<1>2. CASE T
  BY <1>2 DEF T, TMedia, TAppend, TStop, TStopEvent, TDisconnect, TCancel,
              TAwait, TAt, TUnchanged
<1>3. CASE O
  <2>1. UNCHANGED t_pc
    BY <1>3 DEF O, OUnchanged, ODelta, OSendMark, OInterrupt, OClear,
       OCancelled, OSendMedia, OSpeechStarted, OSpeechEventFails,
       OInterruptEvent, OTruncate, OCommitted, OTranscript, OStoreTranscript,
       ODone, OCreated, OEvent, OToolEvent, OToolAwait, OSubmitTool,
       ORequestResponse, OError, ODisconnect, OCancel, OAwait, OForward
  <2>2. UNCHANGED o_pc \/ (o_pc # "hung_up" /\ o_pc' # "hung_up")
    BY <1>3 DEF O, ODelta, OSendMark, OInterrupt, OClear, OClearing,
       OCancelled, OSendMedia, OSpeechStarted, OSpeechEventFails,
       OInterruptEvent, OTruncate, OCommitted, OTranscript, OStoreTranscript,
       ODone, OCreated, OEvent, OToolEvent, OToolAwait, OSubmitTool,
       ORequestResponse, OError, ODisconnect, OCancel, OAwait, OForward, OAt,
       Receive
  <2> QED BY <2>1, <2>2
<1>4. CASE OpenAI \/ Twilio \/ LoseOpenAI \/ LoseTwilio
  BY <1>4 DEF OpenAI, Twilio, LoseOpenAI, LoseTwilio, BridgeUnchanged
<1>5. CASE UNCHANGED vars BY <1>5 DEF vars
<1> QED BY <1>1, <1>2, <1>3, <1>4, <1>5 DEF Next

LEMMA HungUpStays ==
    ASSUME Next, HungUp
    PROVE  HungUp'
<1>1. CASE ~MayHangUp BY <1>1, HungUpSame
<1>2. CASE TMark BY <1>2 DEF TMark, TAt, TUnchanged, HungUp
<1>3. CASE OAudioDone \/ OCompletedEvent
  BY <1>3 DEF OAudioDone, OCompletedEvent, OAt, Receive, OUnchanged, HungUp
<1> QED BY <1>1, <1>2, <1>3 DEF MayHangUp

\* What the conversation sees of the state.
seen == <<mark_sequence, Settling, suppressed_response_ids, heard, truncations,
          HungUp>>

LEMMA SeenTypes ==
    ASSUME TrackingInv
    PROVE  /\ mark_sequence \in Nat /\ acked \in Nat /\ cut \in Nat
           /\ Settling \in Nat /\ Settling <= mark_sequence
           /\ acked <= Settling /\ cut <= Settling
           /\ heard \in [AgentItems -> Nat]
BY DEF TrackingInv, TypeOK, PlaybackTypeOK, MediaTypeOK, AudioInv, Counters, Settling,
       Larger

\* A step that may hang up settles at most one more piece.
LEMMA HangUpSettles ==
    ASSUME TrackingInv, TrackingInv', Next, MayHangUp,
           ~isPlaying' => mark_sequence' = Larger(acked', cut')
    PROVE  Talk!Settle
<1>1. /\ UNCHANGED <<mark_sequence, cut, suppressed_response_ids, heard,
                     truncations>>
      /\ acked' \in {acked, acked + 1}
  <2>1. CASE TMark
    BY <2>1 DEF TMark, ReceiveMark, AcknowledgeMark, playbackVars, trackerVars,
                historyVars, TUnchanged, handlerVars
  <2>2. CASE OAudioDone
    BY <2>2 DEF OAudioDone, OutputDone, playbackVars, trackerVars, historyVars,
                mediaVars, handlerVars
  <2>3. CASE OCompletedEvent
    BY <2>3 DEF OCompletedEvent, playbackVars, trackerVars, historyVars,
                mediaVars, handlerVars
  <2> QED BY <2>1, <2>2, <2>3 DEF MayHangUp
<1>2. /\ mark_sequence \in Nat /\ acked \in Nat /\ cut \in Nat
      /\ Settling \in Nat
  BY SeenTypes
<1>3. Settling' \in Settling..(Settling + 1)
  BY <1>1, <1>2 DEF Settling, Larger
<1>4. Settling' <= mark_sequence
  <2>1. acked' \in Nat /\ cut' \in Nat /\ acked' <= mark_sequence'
          /\ cut' <= mark_sequence'
    BY DEF TrackingInv, TypeOK, PlaybackTypeOK, MediaTypeOK, AudioInv, Counters
  <2> QED BY <1>1, <2>1 DEF Settling, Larger
<1>5. HungUp' = HungUp \/ (HungUp' /\ Settling' = mark_sequence)
  BY <1>1, HungUpStays, HangUpStep DEF Settling, Larger, HungUp
<1> QED BY <1>1, <1>3, <1>4, <1>5 DEF Talk!Settle, Settling, Larger

LEMMA SaysOrDrops ==
    ASSUME TrackingInv, ODelta, HungUp' = HungUp
    PROVE  UNCHANGED seen \/ \E r \in Responses : Talk!Say(r)
<1> DEFINE r == Head(events).response
<1>1. r \in Responses
  BY ReceiveType, EventFields DEF ODelta, TrackingInv, TypeOK
<1>2. UNCHANGED truncations BY DEF ODelta, handlerVars
<1>3. CASE Suppressed(r)
  BY <1>2, <1>3 DEF ODelta, seen, audioVars, playbackVars, trackerVars,
                    historyVars, mediaVars, Settling, Larger
<1>4. CASE ~Suppressed(r)
  <2>1. /\ mark_sequence' = mark_sequence + 1
        /\ UNCHANGED <<suppressed_response_ids, cut, acked, heard>>
    BY <1>4 DEF ODelta, AddAudio, RegisterChunk
  <2>2. Talk!Say(r)
    BY <1>2, <1>4, <2>1 DEF Talk!Say, Suppressed, Larger
  <2> QED BY <1>1, <2>2
<1> QED BY <1>3, <1>4

LEMMA EndsAnswers ==
    ASSUME TrackingInv, OInterrupt \/ OCancelled, HungUp' = HungUp
    PROVE  UNCHANGED seen \/ \E r \in Responses : Talk!Mute(r)
<1>1. CASE OInterrupt /\ isActive
  <2>1. response_id \in Responses
    BY <1>1 DEF isActive, TrackingInv, TypeOK, PlaybackTypeOK
  <2>2. /\ suppressed_response_ids' = suppressed_response_ids \cup {response_id}
        /\ cut' = mark_sequence
        /\ UNCHANGED <<mark_sequence, acked, heard, truncations>>
    BY <1>1 DEF OInterrupt, Interrupt, mediaVars
  <2>3. Larger(acked', cut') = mark_sequence
    BY <2>2, SeenTypes DEF Larger, Settling
  <2>4. Talk!Mute(response_id)
    BY <2>2, <2>3 DEF Talk!Mute, Larger
  <2> QED BY <2>1, <2>4
<1>2. CASE OInterrupt /\ ~isActive
  BY <1>2 DEF OInterrupt, seen, playbackVars, trackerVars, historyVars,
              mediaVars, Settling, Larger
<1>3. CASE OCancelled
  <2> DEFINE r == Head(events).response
  <2>1. r \in Responses
    BY <1>3, ReceiveType, EventFields DEF OCancelled, TrackingInv, TypeOK
  <2>2. /\ suppressed_response_ids' = suppressed_response_ids \cup {r}
        /\ UNCHANGED <<mark_sequence, cut, acked, heard, truncations>>
    BY <1>3 DEF OCancelled, CancelResponse, mediaVars, handlerVars
  <2>3. Talk!Mute(r) BY <2>2 DEF Talk!Mute, Larger
  <2> QED BY <2>1, <2>3
<1> QED BY <1>1, <1>2, <1>3

LEMMA TellsHeard ==
    ASSUME TrackingInv, OTruncate, HungUp' = HungUp
    PROVE  UNCHANGED seen \/ \E t \in truncations' : Talk!Tell(t)
<1>1. UNCHANGED <<mark_sequence, cut, suppressed_response_ids, acked, heard>>
  BY DEF OTruncate, audioVars, playbackVars, trackerVars, historyVars, mediaVars
<1>2. CASE openai = "open"
  <2>1. truncations' = truncations \cup {point}
    BY <1>2 DEF OTruncate
  <2>2. BytesPerMs * point.audio_end_ms <= heard[point.item]
    BY DEF TrackingInv, AudioInv, TruncatedItems, TruncationHeard, OTruncate, OAt
  <2>3. Talk!Tell(point)
    BY <1>1, <2>1, <2>2 DEF Talk!Tell, Larger
  <2> QED BY <2>1, <2>3
<1>3. CASE openai # "open"
  BY <1>1, <1>3 DEF OTruncate, seen, Settling, Larger
<1> QED BY <1>2, <1>3

LEMMA Hears ==
    ASSUME TrackingInv, TrackingInv', Twilio
    PROVE  UNCHANGED seen \/ Talk!Hear
<1>1. /\ UNCHANGED <<playbackVars, acked, truncations, t_pc, o_pc>>
  BY DEF Twilio, BridgeUnchanged, handlerVars, PlayChunk, ProcessClear
<1>2. CASE PlayChunk
  <2>1. heard \in [AgentItems -> Nat] /\ heard' \in [AgentItems -> Nat]
    BY DEF TrackingInv, TypeOK, MediaTypeOK
  <2>2. playhead + 1 \in DOMAIN chunks
    BY <1>2 DEF PlayChunk, TrackingInv, TypeOK, MediaTypeOK, PlaybackTypeOK, AudioInv,
                Counters
  <2>3. chunks[playhead + 1].bytes \in Nat
    BY <2>2, ChunkFields DEF TrackingInv, TypeOK
  <2>4. \A i \in AgentItems : heard[i] <= heard'[i]
    BY <1>2, <2>1, <2>3 DEF PlayChunk
  <2>5. Talk!Hear
    BY <1>1, <2>1, <2>4 DEF Talk!Hear, playbackVars, trackerVars, historyVars,
                            Larger, HungUp
  <2> QED BY <2>5
<1>3. CASE ProcessClear
  BY <1>1, <1>3 DEF ProcessClear, seen, playbackVars, trackerVars,
                    historyVars, Settling, Larger, HungUp
<1> QED BY <1>2, <1>3 DEF Twilio

\* The other steps change nothing the conversation sees.
LEMMA UnseenStep ==
    ASSUME [Next]_vars, ~MayHangUp,
           ~(ODelta \/ OInterrupt \/ OCancelled \/ OTruncate \/ Twilio)
    PROVE  UNCHANGED seen
<1>1. HungUp' = HungUp BY HungUpSame
<1> USE DEF audioVars, playbackVars, trackerVars, historyVars, mediaVars,
        handlerVars
<1>2. UNCHANGED <<mark_sequence, cut, suppressed_response_ids, acked, heard,
                  truncations>>
  <2>1. CASE Run
    BY <2>1 DEF Run, Connect, ConnectedEvent, Configure, RelayEnds, Close,
                DisconnectedEvent, RunUnchanged
  <2>2. CASE T
    BY <2>2 DEF MayHangUp, T, TMedia, TAppend, TStop, TStopEvent, TDisconnect,
                TCancel, TAwait, TUnchanged
  <2>3. CASE OSilent
    BY <2>3, OSilentAudio
       DEF MayHangUp, OSilent, OSendMedia, OSpeechStarted, OSpeechEventFails,
           OInterruptEvent, OCommitted, OTranscript, OStoreTranscript, ODone,
           OCreated, OEvent, OToolEvent, OToolAwait, OSubmitTool,
           ORequestResponse, OError, ODisconnect, OCancel, OAwait, OForward
  <2>4. CASE OSendMark \/ OClear
    BY <2>4 DEF OSendMark, OClear, SendMark, SendClear
  <2>5. CASE OpenAI \/ LoseOpenAI \/ LoseTwilio
    BY <2>5 DEF OpenAI, LoseOpenAI, LoseTwilio, BridgeUnchanged
  <2>6. CASE UNCHANGED vars BY <2>6 DEF vars
  <2> QED
    BY <2>1, <2>2, <2>3, <2>4, <2>5, <2>6 DEF Next, O, OSilent, MayHangUp
<1> QED BY <1>1, <1>2 DEF seen, Settling, Larger

LEMMA ConversationInit == Init => Talk!Init
BY DEF Init, PlaybackInit, MediaInit, Talk!Init, Larger, HungUp

LEMMA ConversationStep ==
    ASSUME TrackingInv, TrackingInv', [Next]_vars,
           ~isPlaying' => mark_sequence' = Larger(acked', cut')
    PROVE  [Talk!Next]_(Talk!conversationVars)
<1>1. UNCHANGED seen => UNCHANGED Talk!conversationVars
  BY DEF seen, Talk!conversationVars, Settling
<1>2. CASE MayHangUp
  <2>1. Next BY <1>2 DEF Next, MayHangUp, T, O
  <2> QED BY <1>2, <2>1, HangUpSettles DEF Talk!Next
<1>3. CASE ~MayHangUp
  <2>1. HungUp' = HungUp BY <1>3, HungUpSame
  <2>2. CASE ODelta BY <1>1, <2>1, <2>2, SaysOrDrops DEF Talk!Next
  <2>3. CASE OInterrupt \/ OCancelled
    BY <1>1, <2>1, <2>3, EndsAnswers DEF Talk!Next
  <2>4. CASE OTruncate BY <1>1, <2>1, <2>4, TellsHeard DEF Talk!Next
  <2>5. CASE Twilio BY <1>1, <2>5, Hears DEF Talk!Next
  <2> QED BY <1>1, <1>3, <2>2, <2>3, <2>4, <2>5, UnseenStep
<1> QED BY <1>2, <1>3

\* The bridge implements Conversation for any number of responses, items and
\* turns: no ended answer is taken up again, OpenAI is told of an item at most
\* what was heard of it, and the bridge hangs up only with everything it said
\* heard or cut off.
THEOREM ConversationCorrect == Spec => ConversationKept
<1>1. (TrackingInv /\ ~isPlaying => mark_sequence = Larger(acked, cut))'
  BY NothingPending, PTL
<1>2. TrackingInv /\ TrackingInv' /\ [Next]_vars => [Talk!Next]_(Talk!conversationVars)
  BY <1>1, ConversationStep DEF Larger
<1> QED
  BY <1>2, ConversationInit, TrackingInvariant, PTL DEF Spec, ConversationKept, Talk!Spec
=============================================================================
