------------------------ MODULE RealtimeBridgeProofs ------------------------
(***************************************************************************)
(* Proofs about RealtimeBridge, for every value of its constants.          *)
(***************************************************************************)
EXTENDS BridgeInvariant, TLAPS

-----------------------------------------------------------------------------
(* Types: each part of the state keeps its type under each operation. *)

LEMMA PlaybackSame ==
    PlaybackTypeOK /\ UNCHANGED playbackVars => PlaybackTypeOK'
BY DEF PlaybackTypeOK, playbackVars, trackerVars, historyVars

LEMMA MediaSame == MediaTypeOK /\ UNCHANGED mediaVars => MediaTypeOK'
BY DEF MediaTypeOK, mediaVars

LEMMA ServerSame == ServerTypeOK /\ UNCHANGED serverVars => ServerTypeOK'
BY DEF ServerTypeOK, serverVars, generationVars

LEMMA MsNat ==
    \A bytes \in Nat : Ms(bytes) \in Nat /\ BytesPerMs * Ms(bytes) <= bytes
BY DEF Ms, BytesPerMs

LEMMA AddAudioType ==
    ASSUME PlaybackTypeOK, NEW r \in Responses, NEW i \in AgentItems,
           NEW bytes \in DeltaBytes, AddAudio(r, i, bytes)
    PROVE  PlaybackTypeOK'
<1>1. bytes \in Nat BY AudioIdsAssumption
<1>2. CASE Tracks(r, i)
  <2> USE DEF PlaybackTypeOK
  <2>1. /\ response_id' = r /\ item_id' = i
        /\ generated_bytes' = generated_bytes + bytes
        /\ UNCHANGED <<played_audio_ms, output_done, run_base>>
    BY <1>2 DEF Tracks, AddAudio, ContinueResponse
  <2>2. Ms(generated_bytes + bytes) \in Nat
    <3>1. generated_bytes + bytes \in Nat BY <1>1
    <3> QED BY <3>1, MsNat
  <2>3. [name |-> mark_sequence + 1, response |-> response_id,
         audio_end_ms |-> Ms(generated_bytes + bytes)] \in Mark
    BY <2>2, <1>2 DEF Mark, Tracks
  <2>4. pending_marks' \subseteq Mark
    BY <1>2, <2>3 DEF AddAudio, ContinueResponse
  <2>5. /\ mark_sequence' = mark_sequence + 1
        /\ UNCHANGED <<suppressed_response_ids, cut, silenced>>
    BY DEF AddAudio
  <2> QED BY <1>1, <2>1, <2>4, <2>5
<1>3. CASE ~Tracks(r, i)
  <2> USE DEF PlaybackTypeOK
  <2>1. /\ response_id' = r /\ item_id' = i
        /\ generated_bytes' = bytes /\ played_audio_ms' = 0
        /\ output_done' = FALSE /\ run_base' = mark_sequence
    BY <1>3 DEF AddAudio, BeginResponse
  <2>2. [name |-> mark_sequence + 1, response |-> r,
         audio_end_ms |-> Ms(bytes)] \in Mark
    BY <1>1, MsNat DEF Mark
  <2>3. pending_marks' \subseteq Mark
    BY <1>3, <2>2 DEF AddAudio, BeginResponse
  <2>4. /\ mark_sequence' = mark_sequence + 1
        /\ UNCHANGED <<suppressed_response_ids, cut, silenced>>
    BY DEF AddAudio
  <2>5. output_done' \in BOOLEAN BY <2>1
  <2> QED BY <1>1, <2>1, <2>3, <2>4, <2>5
<1> QED BY <1>2, <1>3

LEMMA AcknowledgeType ==
    ASSUME PlaybackTypeOK, NEW k \in Nat, AcknowledgeMark(k)
    PROVE  PlaybackTypeOK'
<1> USE DEF PlaybackTypeOK, AcknowledgeMark, ResetActive, playbackVars,
        trackerVars, historyVars
<1>1. pending_marks' \subseteq pending_marks OBVIOUS
<1>2. played_audio_ms' \in Nat BY DEF Mark, Larger
<1>3. UNCHANGED <<suppressed_response_ids, mark_sequence, historyVars>> OBVIOUS
<1>4. response_id' \in Responses \cup {NoId} OBVIOUS
<1>5. item_id' \in AgentItems \cup {NoId} OBVIOUS
<1>6. generated_bytes' \in Nat OBVIOUS
<1>7. output_done' \in BOOLEAN OBVIOUS
<1> QED
  BY ONLY <1>1, <1>2, <1>3, <1>4, <1>5, <1>6, <1>7, PlaybackTypeOK
     DEF PlaybackTypeOK, historyVars

LEMMA OutputDoneType ==
    ASSUME PlaybackTypeOK, NEW r \in Responses, OutputDone(r)
    PROVE  PlaybackTypeOK'
<1> USE DEF PlaybackTypeOK, OutputDone, ResetActive, isPlaying, playbackVars,
        trackerVars, historyVars
<1>1. pending_marks' \subseteq pending_marks OBVIOUS
<1>2. played_audio_ms' \in Nat OBVIOUS
<1>3. UNCHANGED <<suppressed_response_ids, mark_sequence, historyVars>> OBVIOUS
<1>4. response_id' \in Responses \cup {NoId} OBVIOUS
<1>5. item_id' \in AgentItems \cup {NoId} OBVIOUS
<1>6. generated_bytes' \in Nat OBVIOUS
<1>7. output_done' \in BOOLEAN OBVIOUS
<1> QED
  BY ONLY <1>1, <1>2, <1>3, <1>4, <1>5, <1>6, <1>7, PlaybackTypeOK
     DEF PlaybackTypeOK, historyVars

LEMMA CancelType ==
    ASSUME PlaybackTypeOK, NEW r \in Responses, CancelResponse(r)
    PROVE  PlaybackTypeOK'
BY DEF PlaybackTypeOK, CancelResponse

LEMMA InterruptType ==
    ASSUME PlaybackTypeOK, isActive, Interrupt
    PROVE  PlaybackTypeOK'
<1> USE DEF PlaybackTypeOK, Interrupt, ResetActive, isActive
<1>1. pending_marks' \subseteq Mark OBVIOUS
<1>2. silenced' \subseteq [response : Responses, at : Nat] OBVIOUS
<1> QED BY <1>1, <1>2

LEMMA RegisterChunkType ==
    ASSUME MediaTypeOK, NEW r \in Responses, NEW i \in AgentItems,
           NEW bytes \in DeltaBytes, NEW total \in Nat,
           RegisterChunk(r, i, bytes, total)
    PROVE  MediaTypeOK'
BY DEF MediaTypeOK, RegisterChunk, Chunk

LEMMA PlayChunkType ==
    ASSUME MediaTypeOK, sent <= Len(chunks), PlayChunk
    PROVE  MediaTypeOK'
<1> DEFINE chunk == chunks[playhead + 1]
<1>1. playhead + 1 \in DOMAIN chunks BY DEF MediaTypeOK, PlayChunk
<1>2. chunk \in Chunk BY <1>1 DEF MediaTypeOK
<1>3. chunk.item \in AgentItems /\ chunk.bytes \in Nat
  BY <1>2, AudioIdsAssumption DEF Chunk
<1>4. heard[chunk.item] + chunk.bytes \in Nat BY <1>3 DEF MediaTypeOK
<1>5. heard' = [heard EXCEPT ![chunk.item] = heard[chunk.item] + chunk.bytes]
  BY DEF PlayChunk
<1>6. heard' \in [AgentItems -> Nat] BY <1>3, <1>4, <1>5 DEF MediaTypeOK
<1> QED BY <1>6 DEF MediaTypeOK, PlayChunk

LEMMA ProcessClearType ==
    ASSUME MediaTypeOK, ProcessClear
    PROVE  MediaTypeOK'
BY DEF MediaTypeOK, ProcessClear

LEMMA MediaMessageType ==
    ASSUME MediaTypeOK, SendMark \/ SendClear \/ ReceiveMark
    PROVE  MediaTypeOK'
<1>1. CASE SendMark BY <1>1 DEF MediaTypeOK, SendMark
<1>2. CASE SendClear BY <1>2 DEF MediaTypeOK, SendClear
<1>3. CASE ReceiveMark BY <1>3 DEF MediaTypeOK, ReceiveMark
<1> QED BY <1>1, <1>2, <1>3

LEMMA RequestsTail ==
    ASSUME requests \in Seq(BOOLEAN), requests # <<>>
    PROVE  Tail(requests) \in Seq(BOOLEAN)
OBVIOUS

LEMMA EmitType ==
    ASSUME ServerTypeOK, NEW event \in Event, Emit(event)
    PROVE  events' \in Seq(Event)
BY DEF ServerTypeOK, Emit

LEMMA CreateType ==
    ASSUME ServerTypeOK, CreateRequested \/ CreateForTurn
    PROVE  ServerTypeOK'
<1>1. PICK isGoodbye \in BOOLEAN : StartResponse(isGoodbye)
  <2>1. CASE CreateRequested
    <3>1. Head(requests) \in BOOLEAN BY <2>1 DEF ServerTypeOK, CreateRequested
    <3> QED BY <3>1, <2>1 DEF CreateRequested
  <2>2. CASE CreateForTurn BY <2>2 DEF CreateForTurn
  <2> QED BY <2>1, <2>2
<1>2. responses + 1 \in Responses
  BY <1>1, AudioIdsAssumption DEF StartResponse, ServerTypeOK, Responses
<1>3. [type |-> "created", response |-> responses + 1] \in Event
  BY <1>2 DEF Event
<1>4. events' \in Seq(Event) BY <1>1, <1>3, EmitType DEF StartResponse
<1>5. responses' \in 0..MaxResponses
  BY <1>1, AudioIdsAssumption DEF StartResponse, ServerTypeOK
<1>6. /\ active' \in Responses \cup {0} /\ goodbye' \in Responses \cup {0}
      /\ stretch' \in 0..MaxItems /\ deltas' \in Nat
      /\ ~stretch_open'
  BY <1>1, <1>2, AudioIdsAssumption DEF StartResponse, ServerTypeOK
<1>7. interrupted' \in BOOLEAN BY <1>1 DEF StartResponse
<1>8. stretch_open' \in BOOLEAN BY <1>1 DEF StartResponse
<1>9. UNCHANGED <<speeches, tool_turns, conversation, untranscribed>>
  BY <1>1 DEF StartResponse
<1>10. requests' \in Seq(BOOLEAN)
  <2>1. requests' = requests \/ (requests # <<>> /\ requests' = Tail(requests))
    BY DEF CreateRequested, CreateForTurn
  <2> QED BY <2>1, RequestsTail DEF ServerTypeOK
<1>11. turn' \in {"none", "talking", "committed"}
  <2>1. turn' = turn \/ turn' = "none" BY DEF CreateRequested, CreateForTurn
  <2> QED BY <2>1 DEF ServerTypeOK
<1>12. turn' = "talking" => speeches' # 0
  <2>1. turn' = "talking" => turn = "talking" /\ speeches' = speeches
    BY <1>9 DEF CreateRequested, CreateForTurn
  <2> QED BY <2>1 DEF ServerTypeOK
<1> QED
  BY <1>4, <1>5, <1>6, <1>7, <1>8, <1>9, <1>10, <1>11, <1>12
  DEF ServerTypeOK

LEMMA EnterType ==
    ASSUME ServerTypeOK, NEW item \in Items, Enter(item)
    PROVE  conversation' \in Seq(Items) /\ untranscribed' \subseteq Items
BY DEF ServerTypeOK, Enter

LEMMA DeltaType ==
    ASSUME ServerTypeOK, NEW bytes \in DeltaBytes, Delta(bytes)
    PROVE  ServerTypeOK'
<1> DEFINE n == IF stretch_open THEN stretch ELSE stretch + 1
           item == <<active, n>>
<1>1. active \in Responses BY DEF ServerTypeOK, Delta
<1>2. n \in 1..MaxItems BY AudioIdsAssumption DEF ServerTypeOK, Delta
<1>3. item \in AgentItems BY <1>1, <1>2 DEF AgentItems
<1>4. [type |-> "delta", response |-> active, item |-> item,
       bytes |-> bytes] \in Event
  BY <1>1, <1>3 DEF Event
<1>5. events' \in Seq(Event) BY <1>4, EmitType DEF Delta
<1>6. stretch' = n /\ stretch_open' = TRUE BY DEF Delta
<1>7. conversation' \in Seq(Items) /\ untranscribed' \subseteq Items
  <2>1. CASE stretch_open BY <2>1 DEF Delta, ServerTypeOK
  <2>2. CASE ~stretch_open
    <3>1. Enter(item) BY <2>2 DEF Delta
    <3>2. item \in Items BY <1>3 DEF Items
    <3> QED BY <3>1, <3>2, EnterType
  <2> QED BY <2>1, <2>2
<1>8. stretch' \in 0..MaxItems /\ (stretch_open' => stretch' # 0)
  BY <1>2, <1>6, AudioIdsAssumption
<1>9. stretch_open' \in BOOLEAN BY <1>6
<1>10. deltas' \in Nat BY DEF Delta, ServerTypeOK
<1>11. UNCHANGED <<active, interrupted, responses, goodbye, requests, turn,
                   speeches, tool_turns>>
  BY DEF Delta
<1> QED BY <1>5, <1>7, <1>8, <1>9, <1>10, <1>11 DEF ServerTypeOK

LEMMA CommittedType ==
    ASSUME ServerTypeOK, Committed
    PROVE  ServerTypeOK'
<1>1. <<0, speeches>> \in Items
  <2>1. speeches \in 1..MaxSpeech
    BY AudioIdsAssumption DEF ServerTypeOK, Committed
  <2> QED BY <2>1 DEF Items, RemoteItems
<1>2. [type |-> "committed", item |-> <<0, speeches>>] \in Event
  BY <1>1 DEF Event
<1>3. events' \in Seq(Event) BY <1>2, EmitType DEF Committed
<1>4. conversation' \in Seq(Items) /\ untranscribed' \subseteq Items
  BY <1>1, EnterType DEF Committed
<1> QED BY <1>3, <1>4 DEF ServerTypeOK, Committed, generationVars

LEMMA AudioDoneType ==
    ASSUME ServerTypeOK, AudioDone
    PROVE  ServerTypeOK'
<1>1. [type |-> "audio_done", response |-> active] \in Event
  BY DEF ServerTypeOK, AudioDone, Event
<1>2. events' \in Seq(Event) BY <1>1, EmitType DEF AudioDone
<1>3. stretch_open' \in BOOLEAN BY DEF AudioDone
<1> QED BY <1>2, <1>3 DEF ServerTypeOK, AudioDone

LEMMA EndType ==
    ASSUME ServerTypeOK,
           Cancelled \/ \E batch \in ToolBatches \cup {<<>>} : Done(batch)
    PROVE  ServerTypeOK'
<1>1. PICK event \in Event : EndResponse(event)
  BY DEF ServerTypeOK, Cancelled, Done, Event
<1>2. events' \in Seq(Event) BY <1>1, EmitType DEF EndResponse
<1>3. tool_turns' \in Nat
  <2>1. tool_turns' = tool_turns \/ tool_turns' = tool_turns + 1
    BY DEF Cancelled, Done
  <2> QED BY <2>1 DEF ServerTypeOK
<1> QED BY <1>1, <1>2, <1>3 DEF ServerTypeOK, EndResponse

LEMMA SpeechType ==
    ASSUME ServerTypeOK, SpeechStarted
    PROVE  ServerTypeOK'
<1>1. [type |-> "speech_started", cancels |-> active] \in Event
  BY DEF ServerTypeOK, Event
<1>2. events' \in Seq(Event) BY <1>1, EmitType DEF SpeechStarted
<1>3. interrupted' \in BOOLEAN BY DEF SpeechStarted
<1>4. speeches' \in 0..MaxSpeech /\ speeches' # 0
  BY AudioIdsAssumption DEF ServerTypeOK, SpeechStarted
<1> QED BY <1>2, <1>3, <1>4 DEF ServerTypeOK, SpeechStarted

LEMMA ErrorType ==
    ASSUME ServerTypeOK, APIError \/ RejectRequest
    PROVE  ServerTypeOK'
<1>1. [type |-> "error"] \in Event BY DEF Event
<1>2. events' \in Seq(Event) BY <1>1, EmitType DEF APIError, RejectRequest
<1>3. requests' \in Seq(BOOLEAN)
  <2>1. requests' = requests \/ (requests # <<>> /\ requests' = Tail(requests))
    BY DEF APIError, RejectRequest
  <2> QED BY <2>1, RequestsTail DEF ServerTypeOK
<1>4. UNCHANGED <<generationVars, turn, speeches, tool_turns, conversation,
                  untranscribed>>
  BY DEF APIError, RejectRequest
<1> QED BY <1>2, <1>3, <1>4 DEF ServerTypeOK, generationVars

LEMMA TranscribedType ==
    ASSUME ServerTypeOK, NEW item \in untranscribed, Transcribed(item)
    PROVE  ServerTypeOK'
<1>1. [type |-> "transcript", item |-> item] \in Event
  BY DEF ServerTypeOK, Event
<1>2. events' \in Seq(Event) BY <1>1, EmitType DEF Transcribed
<1> QED BY <1>2 DEF ServerTypeOK, Transcribed, generationVars

LEMMA RunType ==
    ASSUME TypeOK, Run
    PROVE  TypeOK'
<1>1. PlaybackTypeOK' /\ MediaTypeOK'
  BY PlaybackSame, MediaSame DEF TypeOK, Run, Connect, ConnectedEvent, Configure, RelayEnds, Close, DisconnectedEvent, RunUnchanged, audioVars
<1>2. ServerTypeOK'
  <2>1. CASE Configure
    <3>1. CASE RequestResponse(FALSE) BY <3>1 DEF TypeOK, ServerTypeOK, RequestResponse, generationVars
    <3>2. CASE UNCHANGED serverVars BY <3>2, ServerSame DEF TypeOK
    <3> QED BY <2>1, <3>1, <3>2 DEF Configure
  <2>2. CASE ~Configure BY <2>2, ServerSame DEF TypeOK, Run, Connect, ConnectedEvent, RelayEnds, Close, DisconnectedEvent
  <2> QED BY <2>1, <2>2
<1>3. BridgeTypeOK'
  <2> USE DEF TypeOK, BridgeTypeOK, RunUnchanged, finishVars, transcriptVars, handlerVars, RunPc
  <2>1. run_pc' \in RunPc BY DEF Run, Connect, ConnectedEvent, Configure, RelayEnds, Close, DisconnectedEvent, Storing
  <2>2. raised' \in BOOLEAN BY DEF Run, Connect, ConnectedEvent, Configure, RelayEnds, Close, DisconnectedEvent, DatabaseMayFail
  <2>3. openai' \in {"none", "open", "lost", "closed"} BY DEF Run, Connect, ConnectedEvent, Configure, RelayEnds, Close, DisconnectedEvent
  <2>4. RunUnchanged BY DEF Run, Connect, ConnectedEvent, Configure, RelayEnds, Close, DisconnectedEvent
  <2> QED BY <2>1, <2>2, <2>3, <2>4
<1> QED BY <1>1, <1>2, <1>3 DEF TypeOK

LEMMA TType ==
    ASSUME TypeOK, T
    PROVE  TypeOK'
<1>1. TUnchanged BY DEF T, TMark, TMedia, TAppend, TStop, TStopEvent, TDisconnect, TCancel, TAwait
<1>2. ServerTypeOK' BY <1>1, ServerSame DEF TUnchanged, TypeOK
<1>3. PlaybackTypeOK' /\ MediaTypeOK'
  <2>1. CASE TMark
    <3>1. acked' \in Nat BY <2>1 DEF TMark, ReceiveMark, TypeOK, MediaTypeOK
    <3> QED BY <2>1, <3>1, AcknowledgeType, MediaMessageType DEF TMark, TypeOK
  <2>2. CASE UNCHANGED audioVars BY <2>2, PlaybackSame, MediaSame DEF audioVars, TypeOK
  <2> QED BY <2>1, <2>2 DEF T, TMedia, TAppend, TStop, TStopEvent, TDisconnect, TCancel, TAwait
<1>4. t_pc' \in TPc
  BY DEF T, TMark, TMedia, TAppend, TStop, TStopEvent, TDisconnect, TCancel, TAwait, Storing, TPc, Stopped
<1> QED BY <1>1, <1>2, <1>3, <1>4 DEF TypeOK, BridgeTypeOK, TUnchanged, runVars, linkVars, finishVars, transcriptVars, handlerVars

LEMMA ReceiveType ==
    ASSUME ServerTypeOK, NEW type, Receive(type)
    PROVE  /\ ServerTypeOK'
           /\ Head(events) \in Event /\ Head(events).type = type
BY DEF ServerTypeOK, Receive, generationVars

LEMMA EventFields ==
    ASSUME NEW event \in Event
    PROVE  /\ event.type = "delta" =>
                /\ event.response \in Responses /\ event.item \in AgentItems
                /\ event.bytes \in DeltaBytes
           /\ event.type \in {"audio_done", "cancelled"} =>
                event.response \in Responses
           /\ event.type \in {"committed", "transcript"} => event.item \in Items
           /\ event.type = "speech_started" =>
                event.cancels \in Responses \cup {0}
           /\ event.type = "done" => event.calls \in Seq(STRING)
<1> USE DEF Event
<1>1. CASE event \in [type : {"created", "audio_done", "cancelled"},
                      response : Responses]
  BY <1>1
<1>2. CASE event \in [type : {"delta"}, response : Responses,
                      item : AgentItems, bytes : DeltaBytes]
  BY <1>2
<1>3. CASE event \in [type : {"speech_started"},
                      cancels : Responses \cup {0}]
  BY <1>3
<1>4. CASE event \in [type : {"committed", "transcript"}, item : Items]
  BY <1>4
<1>5. CASE event \in [type : {"done"}, calls : ToolBatches \cup {<<>>}]
  <2>1. ToolBatches \cup {<<>>} \subseteq Seq(STRING)
    <3>1. <<>> \in Seq(STRING) OBVIOUS
    <3> QED BY <3>1, RealtimeServerAssumption
  <2> QED BY <1>5, <2>1
<1>6. CASE event \in [type : {"error"}]
  BY <1>6
<1> QED BY <1>1, <1>2, <1>3, <1>4, <1>5, <1>6

LEMMA SequenceType ==
    ASSUME BridgeTypeOK, NEW item \in Items, SequenceForItem(item)
    PROVE  item_sequences' \in [Items -> Nat] /\ next_sequence' \in Nat
BY DEF BridgeTypeOK, SequenceForItem

\* The steps of O that leave the tracker and the media channel alone.
OSilent ==
    \/ OSendMedia \/ OSpeechStarted \/ OSpeechEventFails \/ OInterruptEvent
    \/ OTruncate \/ OCommitted \/ OTranscript \/ OStoreTranscript
    \/ ODone \/ OCompletedEvent \/ OCreated \/ OEvent \/ OToolEvent
    \/ OToolAwait \/ OSubmitTool \/ ORequestResponse \/ OError
    \/ ODisconnect \/ OCancel

LEMMA OSilentAudio == OSilent => UNCHANGED audioVars
BY DEF OSilent, OSendMedia, OSpeechStarted, OSpeechEventFails, OInterruptEvent,
       OTruncate, OCommitted, OTranscript, OStoreTranscript, ODone,
       OCompletedEvent, OCreated, OEvent, OToolEvent, OToolAwait,
       OSubmitTool, ORequestResponse, OError, ODisconnect, OCancel,
       OAwait, OForward, audioVars

LEMMA OServerType ==
    ASSUME TypeOK, O
    PROVE  ServerTypeOK'
<1>1. CASE UNCHANGED serverVars BY <1>1, ServerSame DEF TypeOK
<1>2. CASE \E type : Receive(type) BY <1>2, ReceiveType DEF TypeOK
<1>3. CASE RequestResponse(finish_requested)
  BY <1>3 DEF TypeOK, ServerTypeOK, BridgeTypeOK, RequestResponse, generationVars
<1>4. UNCHANGED serverVars \/ (\E type : Receive(type))
        \/ RequestResponse(finish_requested)
  BY DEF O, ODelta, OSendMark, OInterrupt, OClear, OAudioDone, OCancelled, 
       OSendMedia, OSpeechStarted, OSpeechEventFails, OInterruptEvent,
       OTruncate, OCommitted, OTranscript, OStoreTranscript, ODone,
       OCompletedEvent, OCreated, OEvent, OToolEvent, OToolAwait,
       OSubmitTool, ORequestResponse, OError, ODisconnect, OCancel,
       OAwait, OForward
<1> QED BY <1>1, <1>2, <1>3, <1>4

LEMMA OAudioType ==
    ASSUME TypeOK, O
    PROVE  PlaybackTypeOK' /\ MediaTypeOK'
<1> USE DEF TypeOK
<1>1. CASE UNCHANGED audioVars BY <1>1, PlaybackSame, MediaSame DEF audioVars
<1>2. CASE ODelta
  <2>1. /\ Head(events).response \in Responses /\ Head(events).item \in AgentItems
        /\ Head(events).bytes \in DeltaBytes
    BY <1>2, ReceiveType, EventFields DEF ODelta
  <2>2. CASE ~Suppressed(Head(events).response)
    <3>1. AddAudio(Head(events).response, Head(events).item, Head(events).bytes) BY <1>2, <2>2 DEF ODelta
    <3>2. PlaybackTypeOK' BY <2>1, <3>1, AddAudioType
    <3>3. generated_bytes' \in Nat BY <3>2 DEF PlaybackTypeOK
    <3>4. RegisterChunk(Head(events).response, Head(events).item, Head(events).bytes, generated_bytes') BY <1>2, <2>2 DEF ODelta
    <3> QED BY <2>1, <3>2, <3>3, <3>4, RegisterChunkType
  <2> QED BY <1>1, <1>2, <2>2 DEF ODelta
<1>3. CASE OSendMark BY <1>3, PlaybackSame, MediaSame, MediaMessageType DEF OSendMark
<1>4. CASE OInterrupt
  BY <1>4, PlaybackSame, MediaSame, InterruptType DEF OInterrupt
<1>5. CASE OClear BY <1>5, PlaybackSame, MediaSame, MediaMessageType DEF OClear
<1>6. CASE OAudioDone
  <2>1. Head(events).response \in Responses
    BY <1>6, ReceiveType, EventFields DEF OAudioDone
  <2> QED BY <1>6, <2>1, OutputDoneType, MediaSame DEF OAudioDone
<1>7. CASE OCancelled
  <2>1. Head(events).response \in Responses
    BY <1>7, ReceiveType, EventFields DEF OCancelled
  <2> QED BY <1>7, <2>1, CancelType, MediaSame DEF OCancelled
<1> QED BY <1>1, <1>2, <1>3, <1>4, <1>5, <1>6, <1>7, OSilentAudio DEF O, OSilent

LEMMA OBridgeType ==
    ASSUME TypeOK, O
    PROVE  BridgeTypeOK'
<1> USE DEF TypeOK, BridgeTypeOK, OUnchanged, runVars, linkVars, finishVars,
        transcriptVars, handlerVars, OPc, OSending, OInterrupting, OClearing, OTool,
        Stopped, Storing, OAt, OAwait, OForward
<1>1. CASE ODelta
  <2>1. Head(events).item \in Items
    BY <1>1, ReceiveType, EventFields DEF ODelta, Items
  <2>2. item_sequences' \in [Items -> Nat] /\ next_sequence' \in Nat
    BY <1>1, <2>1, SequenceType DEF ODelta
  <2> QED BY <1>1, <2>2 DEF ODelta
<1>2. CASE OSendMedia BY <1>2 DEF OSendMedia
<1>3. CASE OSendMark BY <1>3 DEF OSendMark
<1>4. CASE OSpeechStarted
  <2>1. Head(events).cancels \in Responses \cup {0}
    BY <1>4, ReceiveType, EventFields DEF OSpeechStarted
  <2>2. talked_over' \subseteq [response : Responses, at : Nat]
    BY <1>4, <2>1 DEF OSpeechStarted, PlaybackTypeOK
  <2> QED BY <1>4, <2>2 DEF OSpeechStarted
<1>5. CASE OInterrupt
  <2>1. point' \in Truncation
    BY <1>5 DEF OInterrupt, InterruptionPoint, Truncation, PlaybackTypeOK
  <2> QED BY <1>5, <2>1 DEF OInterrupt
<1>6. CASE OSpeechEventFails BY <1>6 DEF OSpeechEventFails
<1>7. CASE OInterruptEvent BY <1>7 DEF OInterruptEvent
<1>8. CASE OTruncate BY <1>8 DEF OTruncate
<1>9. CASE OClear
  <2>1. point' \in Truncation BY <1>9 DEF OClear, NoPoint, Truncation
  <2>2. o_pc' \in {"recv", "escaped", "cancelled"} BY <1>9 DEF OClear
  <2> QED BY <1>9, <2>1, <2>2 DEF OClear
<1>10. CASE OCommitted
  <2>1. Head(events).item \in Items
    BY <1>10, ReceiveType, EventFields DEF OCommitted
  <2>2. item_sequences' \in [Items -> Nat] /\ next_sequence' \in Nat
    BY <1>10, <2>1, SequenceType DEF OCommitted
  <2> QED BY <1>10, <2>2 DEF OCommitted
<1>11. CASE OTranscript
  <2>1. Head(events).item \in Items
    BY <1>11, ReceiveType, EventFields DEF OTranscript
  <2>2. item_sequences' \in [Items -> Nat] /\ next_sequence' \in Nat
    BY <1>11, <2>1, SequenceType DEF OTranscript
  <2> QED BY <1>11, <2>1, <2>2 DEF OTranscript
<1>12. CASE OStoreTranscript
  <2>1. row \in Items BY <1>12 DEF OStoreTranscript
  <2>2. [item |-> row, sequence |-> item_sequences[row]]
           \in [item : Items, sequence : Nat]
    BY <2>1
  <2>3. transcripts' \subseteq [item : Items, sequence : Nat]
    BY <1>12, <2>2 DEF OStoreTranscript
  <2> QED BY <1>12, <2>3 DEF OStoreTranscript
<1>13. CASE OAudioDone BY <1>13 DEF OAudioDone
<1>14. CASE OCancelled BY <1>14 DEF OCancelled
<1>15. CASE ODone
  <2>1. Head(events).calls \in Seq(STRING)
    BY <1>15, ReceiveType, EventFields DEF ODone
  <2> QED BY <1>15, <2>1 DEF ODone
<1>16. CASE OCompletedEvent BY <1>16 DEF OCompletedEvent
<1>17. CASE OCreated BY <1>17 DEF OCreated
<1>18. CASE OEvent BY <1>18 DEF OEvent
<1>19. CASE OToolEvent BY <1>19 DEF OToolEvent
<1>20. CASE OToolAwait BY <1>20 DEF OToolAwait
<1>21. CASE OSubmitTool
  <2>1. calls' \in Seq(STRING)
    <3>1. calls # <<>> BY <1>21 DEF OSubmitTool
    <3>2. \A s \in Seq(STRING) : s # <<>> => Tail(s) \in Seq(STRING) OBVIOUS
    <3> QED BY <1>21, <3>1, <3>2 DEF OSubmitTool
  <2>2. finishing' \in BOOLEAN BY <1>21 DEF OSubmitTool
  <2>3. final_response_done' \in BOOLEAN BY <1>21 DEF OSubmitTool
  <2>4. UNCHANGED finish_requested BY <1>21 DEF OSubmitTool
  <2>5. o_pc' \in OPc /\ (o_pc' \in OTool => calls' # <<>>)
          /\ o_pc' # "store_transcript"
    BY <1>21 DEF OSubmitTool
  <2> QED BY <1>21, <2>1, <2>2, <2>3, <2>4, <2>5 DEF OSubmitTool
<1>22. CASE ORequestResponse BY <1>22 DEF ORequestResponse
<1>23. CASE OError BY <1>23 DEF OError
<1>24. CASE ODisconnect BY <1>24 DEF ODisconnect
<1>25. CASE OCancel BY <1>25 DEF OCancel
<1> QED
  BY <1>1, <1>2, <1>3, <1>4, <1>5, <1>6, <1>7, <1>8, <1>9, <1>10, <1>11, <1>12, <1>13, <1>14, <1>15, <1>16, <1>17, <1>18, <1>19, <1>20, <1>21, <1>22, <1>23, <1>24, <1>25 DEF O

LEMMA EndsType ==
    ASSUME TypeOK, sent <= Len(chunks),
           OpenAI \/ Twilio \/ LoseOpenAI \/ LoseTwilio
    PROVE  TypeOK'
<1> USE DEF TypeOK
<1>1. BridgeUnchanged BY DEF OpenAI, Twilio, LoseOpenAI, LoseTwilio
<1>2. PlaybackTypeOK' BY <1>1, PlaybackSame DEF BridgeUnchanged
<1>3. ServerTypeOK'
  <2>1. CASE ServerStep
    BY <2>1, CreateType, DeltaType, AudioDoneType, EndType, SpeechType,
       CommittedType, ErrorType, TranscribedType
       DEF ServerStep
  <2>2. CASE UNCHANGED serverVars BY <2>2, ServerSame
  <2> QED BY <2>1, <2>2 DEF OpenAI, Twilio, LoseOpenAI, LoseTwilio
<1>4. MediaTypeOK'
  BY MediaSame, PlayChunkType, ProcessClearType
     DEF OpenAI, Twilio, LoseOpenAI, LoseTwilio
<1>5. openai' \in {"none", "open", "lost", "closed"} /\ twilio' \in {"open", "lost"}
  BY DEF OpenAI, Twilio, LoseOpenAI, LoseTwilio, BridgeTypeOK, linkVars
<1>6. BridgeTypeOK'
  BY <1>1, <1>5 DEF BridgeTypeOK, BridgeUnchanged, runVars, finishVars,
                    transcriptVars, handlerVars
<1> QED BY <1>2, <1>3, <1>4, <1>6

LEMMA TypeInit == Init => TypeOK
<1> SUFFICES ASSUME Init PROVE TypeOK OBVIOUS
<1>1. PlaybackTypeOK BY DEF Init, PlaybackInit, PlaybackTypeOK
<1>2. MediaTypeOK BY DEF Init, MediaInit, MediaTypeOK
<1>3. ServerTypeOK
  <2> USE DEF Init, ServerInit
  <2>1. /\ events \in Seq(Event) /\ requests \in Seq(BOOLEAN)
        /\ conversation \in Seq(Items) /\ untranscribed \subseteq Items
    OBVIOUS
  <2>2. /\ stretch \in 0..MaxItems /\ responses \in 0..MaxResponses
        /\ speeches \in 0..MaxSpeech
    BY AudioIdsAssumption
  <2>3. interrupted \in BOOLEAN OBVIOUS
  <2>4. stretch_open \in BOOLEAN OBVIOUS
  <2> QED BY <2>1, <2>2, <2>3, <2>4 DEF ServerTypeOK
<1>4. BridgeTypeOK
  <2> USE DEF Init
  <2>1. point \in Truncation BY DEF NoPoint, Truncation
  <2>2. item_sequences \in [Items -> Nat] OBVIOUS
  <2>3. run_pc \in RunPc /\ t_pc \in TPc /\ o_pc \in OPc /\ o_pc \notin OTool
    BY DEF RunPc, TPc, OPc, OTool
  <2>4. raised \in BOOLEAN OBVIOUS
  <2>5. finishing \in BOOLEAN OBVIOUS
  <2>6. final_response_done \in BOOLEAN OBVIOUS
  <2>7. finish_requested \in BOOLEAN OBVIOUS
  <2> QED BY <2>1, <2>2, <2>3, <2>4, <2>5, <2>6, <2>7 DEF BridgeTypeOK
<1> QED BY <1>1, <1>2, <1>3, <1>4 DEF TypeOK

\* Only that Twilio plays no chunk that does not exist is needed besides.
LEMMA TypeStep ==
    ASSUME TypeOK, sent <= Len(chunks), [Next]_vars
    PROVE  TypeOK'
<1>1. CASE Run BY <1>1, RunType
<1>2. CASE T BY <1>2, TType
<1>3. CASE O
  BY <1>3, OServerType, OAudioType, OBridgeType DEF TypeOK
<1>4. CASE OpenAI \/ Twilio \/ LoseOpenAI \/ LoseTwilio BY <1>4, EndsType
<1>5. CASE UNCHANGED vars
  <2>1. BridgeTypeOK'
    BY <1>5 DEF TypeOK, BridgeTypeOK, vars, runVars, linkVars, finishVars,
                transcriptVars, handlerVars
  <2> QED
    BY <1>5, <2>1, PlaybackSame, MediaSame, ServerSame DEF TypeOK, vars, audioVars
<1> QED BY <1>1, <1>2, <1>3, <1>4, <1>5 DEF Next

-----------------------------------------------------------------------------
(* The invariant holds initially and is kept by each step. *)

LEMMA InvInit == Init => AudioInv
<1> SUFFICES ASSUME Init PROVE AudioInv OBVIOUS
<1> USE DEF Init, PlaybackInit, MediaInit, isActive
<1>1. Counters BY DEF Counters, OSending, Stopped
<1>2. Idle BY DEF Idle, OInterrupting, OClearing
<1>3. TrackedChunks /\ PendingMarks /\ HeardTracked /\ Clears
  BY DEF TrackedChunks, PendingMarks, HeardTracked, Clears
<1>4. Settled BY DEF Settled, Larger
<1>5. TruncatedItems /\ TruncationHeard BY DEF TruncatedItems, TruncationHeard
<1>6. SilencedSuppressed /\ InterruptedStaysSilent
  BY DEF SilencedSuppressed, InterruptedStaysSilent
<1> QED BY <1>1, <1>2, <1>3, <1>4, <1>5, <1>6 DEF AudioInv

\* Steps that touch neither the tracker nor the media channel, and neither
\* begin to send a chunk nor an interruption.
LEMMA SilentStep ==
    ASSUME TrackingInv, UNCHANGED audioVars,
           o_pc' \in OSending => o_pc \in OSending,
           o_pc' \notin OSending \cup Stopped => o_pc \notin OSending \cup Stopped,
           o_pc' \in OInterrupting => o_pc \in OInterrupting,
           o_pc' \in {"interrupt_event", "truncate"} =>
              o_pc \in {"interrupt_event", "truncate"},
           truncations' \subseteq truncations \cup ({point} \ {NoPoint}),
           UNCHANGED point
    PROVE  AudioInv'
<1> USE DEF TrackingInv, AudioInv, audioVars, playbackVars, trackerVars, historyVars,
        mediaVars
<1>1. Counters' BY DEF Counters
<1>2. Idle' BY DEF Idle, isActive
<1>3. TrackedChunks' BY DEF TrackedChunks, Tracked, isActive
<1>4. PendingMarks' BY DEF PendingMarks, Tracked, isActive
<1>5. Clears' BY DEF Clears, isActive
<1>6. HeardTracked' BY DEF HeardTracked, isActive
<1>7. Settled' BY DEF Settled, isActive
<1>8. TruncatedItems' BY DEF TruncatedItems
<1>9. SilencedSuppressed' BY DEF SilencedSuppressed, Suppressed
<1>10. TruncationHeard' BY DEF TruncationHeard
<1>11. InterruptedStaysSilent' BY DEF InterruptedStaysSilent
<1> QED
  BY <1>1, <1>2, <1>3, <1>4, <1>5, <1>6, <1>7, <1>8, <1>9, <1>10, <1>11

LEMMA SendMarkStep ==
    ASSUME TrackingInv, OSendMark
    PROVE  AudioInv'
<1>1. CASE UNCHANGED mediaVars
  <2>1. /\ UNCHANGED audioVars /\ o_pc' = "escaped"
        /\ UNCHANGED <<truncations, point>>
    BY <1>1 DEF OSendMark, audioVars, handlerVars, SendMark, mediaVars, TrackingInv, TypeOK, MediaTypeOK
  <2> QED BY <2>1, SilentStep DEF OSending, OInterrupting, OClearing, Stopped
<1>2. CASE SendMark /\ o_pc' = "recv"
  <2> USE <1>2 DEF TrackingInv, AudioInv
  <2>1. /\ sent' = sent + 1 /\ UNCHANGED playbackVars
        /\ UNCHANGED <<chunks, playhead, acked, clears, heard>>
        /\ UNCHANGED <<truncations, point>>
        /\ o_pc = "send_mark"
    BY DEF OSendMark, SendMark, handlerVars, OAt
  <2>2. Counters'
    BY <2>1 DEF Counters, OSending, Stopped, TypeOK, MediaTypeOK, playbackVars, trackerVars, historyVars
  <2> USE <2>1 DEF playbackVars, trackerVars, historyVars, isActive
  <2>3. Idle' BY DEF Idle, OInterrupting, OClearing
  <2>4. TrackedChunks' BY DEF TrackedChunks, Tracked
  <2>5. PendingMarks' BY DEF PendingMarks, Tracked
  <2>6. Clears' BY DEF Clears, TypeOK, MediaTypeOK
  <2>7. HeardTracked' BY DEF HeardTracked
  <2>8. Settled' BY DEF Settled
  <2>9. TruncatedItems' BY DEF TruncatedItems
  <2>10. SilencedSuppressed' BY DEF SilencedSuppressed, Suppressed
  <2>11. TruncationHeard' BY DEF TruncationHeard
  <2>12. InterruptedStaysSilent' BY DEF InterruptedStaysSilent
  <2> QED BY <2>2, <2>3, <2>4, <2>5, <2>6, <2>7, <2>8, <2>9, <2>10, <2>11, <2>12
<1> QED BY <1>1, <1>2 DEF OSendMark

LEMMA ClearStep ==
    ASSUME TrackingInv, OClear
    PROVE  AudioInv'
<1> USE DEF TrackingInv, AudioInv
<1>1. /\ UNCHANGED playbackVars
      /\ UNCHANGED <<chunks, sent, playhead, acked, heard>>
      /\ clears' \subseteq clears \cup {sent}
      /\ o_pc' \in {"recv", "escaped", "cancelled"}
      /\ o_pc \in OClearing
      /\ truncations' = truncations /\ point' = NoPoint
  BY DEF OClear, SendClear, mediaVars, OClearing, OAt
<1>2. ~isActive BY <1>1 DEF Idle, OInterrupting
<1> USE <1>1 DEF playbackVars, trackerVars, historyVars, isActive
<1>3. Counters' BY DEF Counters, OSending, OClearing, Stopped
<1>4. Idle' BY DEF Idle, OInterrupting, OClearing
<1>5. TrackedChunks' /\ PendingMarks' /\ HeardTracked'
  BY <1>2 DEF TrackedChunks, PendingMarks, HeardTracked
<1>6. Clears'
  BY <1>2 DEF Clears, Counters, TypeOK, MediaTypeOK
<1>8. Settled' BY DEF Settled
<1>9. TruncatedItems' BY DEF TruncatedItems
<1>10. SilencedSuppressed' BY DEF SilencedSuppressed, Suppressed
<1>11. TruncationHeard' BY DEF TruncationHeard
<1>12. InterruptedStaysSilent' BY DEF InterruptedStaysSilent
<1> QED BY <1>3, <1>4, <1>5, <1>6, <1>8, <1>9, <1>10, <1>11, <1>12

LEMMA CancelledStep ==
    ASSUME TrackingInv, OCancelled
    PROVE  AudioInv'
<1> USE DEF TrackingInv, AudioInv
<1>1. PICK r \in Responses :
         /\ suppressed_response_ids' = suppressed_response_ids \cup {r}
         /\ silenced' = silenced \cup {[response |-> r, at |-> mark_sequence]}
  BY ReceiveType, EventFields DEF OCancelled, CancelResponse, TypeOK
<1>2. /\ UNCHANGED mediaVars
      /\ UNCHANGED <<response_id, item_id, generated_bytes, played_audio_ms,
                     pending_marks, mark_sequence, output_done, run_base, cut>>
      /\ UNCHANGED <<o_pc, truncations, point>>
  BY DEF OCancelled, CancelResponse, handlerVars
<1> USE <1>2 DEF mediaVars, isActive
<1>3. Counters' BY DEF Counters
<1>4. Idle' BY DEF Idle
<1>5. TrackedChunks' BY DEF TrackedChunks, Tracked
<1>6. PendingMarks' BY DEF PendingMarks, Tracked
<1>7. Clears' BY DEF Clears
<1>8. HeardTracked' BY DEF HeardTracked
<1>9. Settled' BY DEF Settled
<1>10. TruncatedItems' BY DEF TruncatedItems
<1>11. SilencedSuppressed'
  BY <1>1 DEF SilencedSuppressed, Suppressed, TypeOK, PlaybackTypeOK
<1>12. TruncationHeard' BY DEF TruncationHeard
<1>13. InterruptedStaysSilent'
  <2>1. DOMAIN chunks = 1..mark_sequence
    BY DEF Counters, TypeOK, MediaTypeOK
  <2> QED
    BY <1>1, <2>1 DEF InterruptedStaysSilent, TypeOK, PlaybackTypeOK
<1> QED
  BY <1>3, <1>4, <1>5, <1>6, <1>7, <1>8, <1>9, <1>10, <1>11, <1>12, <1>13

LEMMA InterruptStep ==
    ASSUME TrackingInv, OInterrupt
    PROVE  AudioInv'
<1>1. CASE ~isActive
  <2>1. /\ UNCHANGED audioVars /\ UNCHANGED <<truncations, point>>
        /\ o_pc' = "recv" /\ o_pc = "speech_event"
    BY <1>1 DEF OInterrupt, audioVars, OAt
  <2> QED BY <2>1, SilentStep DEF OSending, OInterrupting, OClearing, Stopped
<1>2. CASE isActive
  <2> USE <1>2 DEF TrackingInv, AudioInv
  <2>1. /\ UNCHANGED mediaVars /\ UNCHANGED <<mark_sequence, run_base>>
        /\ UNCHANGED truncations
        /\ point' = [item |-> item_id, audio_end_ms |-> played_audio_ms]
        /\ suppressed_response_ids' = suppressed_response_ids \cup {response_id}
        /\ silenced' = silenced \cup
                       {[response |-> response_id, at |-> mark_sequence]}
        /\ cut' = mark_sequence
        /\ ResetActive
        /\ o_pc' = "interrupt_event" /\ o_pc = "speech_event"
    BY DEF OInterrupt, Interrupt, InterruptionPoint, OAt
  <2>2. item_id \in AgentItems
    BY DEF Idle, TypeOK, PlaybackTypeOK
  <2>3. ~isActive' BY <2>1 DEF ResetActive, isActive
  <2> USE DEF mediaVars, TypeOK, PlaybackTypeOK, MediaTypeOK
  <2>4. Counters' BY <2>1 DEF Counters, OSending, Stopped
  <2>5. Idle' BY <2>1, <2>3 DEF Idle, ResetActive
  <2>6. TrackedChunks' /\ PendingMarks' /\ HeardTracked'
    BY <2>3 DEF TrackedChunks, PendingMarks, HeardTracked
  <2>7. Clears' BY <2>1, <2>3 DEF Clears
  <2>8. Settled' BY <2>1 DEF Settled, Larger
  <2>9. TruncatedItems'
    <3>1. NoPoint.item = NoId BY DEF NoPoint
    <3>2. point'.item = item_id BY <2>1
    <3>3. point' # NoPoint BY <2>2, <3>1, <3>2, AudioIdsAssumption DEF AgentItems, Responses
    <3> QED BY <2>1, <2>2, <3>2, <3>3 DEF TruncatedItems
  <2>10. SilencedSuppressed' BY <2>1 DEF SilencedSuppressed, Suppressed, isActive
  <2>11. TruncationHeard'
    <3>1. BytesPerMs * point'.audio_end_ms <= heard'[point'.item]
      BY <2>1 DEF HeardTracked
    <3>2. \A t \in truncations : BytesPerMs * t.audio_end_ms <= heard[t.item]
      BY DEF TruncationHeard
    <3> QED BY <2>1, <3>1, <3>2 DEF TruncationHeard
  <2>12. InterruptedStaysSilent'
    <3>1. DOMAIN chunks = 1..mark_sequence BY DEF Counters
    <3> QED BY <2>1, <3>1 DEF InterruptedStaysSilent
  <2> QED
    BY <2>4, <2>5, <2>6, <2>7, <2>8, <2>9, <2>10, <2>11, <2>12
<1> QED BY <1>1, <1>2

\* With no mark pending, every tracked chunk was acknowledged.
LEMMA PlayedOut ==
    ASSUME TrackingInv, isActive, pending_marks = {}
    PROVE  mark_sequence <= acked
BY DEF TrackingInv, AudioInv, PendingMarks, Idle, Tracked, TypeOK, PlaybackTypeOK,
       MediaTypeOK

LEMMA AudioDoneStep ==
    ASSUME TrackingInv, OAudioDone
    PROVE  AudioInv'
<1> USE DEF TrackingInv, AudioInv
<1>1. PICK r \in Responses : OutputDone(r)
  BY ReceiveType, EventFields DEF OAudioDone, TypeOK
<1>2. /\ UNCHANGED mediaVars /\ UNCHANGED <<truncations, point>>
      /\ o_pc = "recv" /\ o_pc' \in {"recv", "hung_up"}
      /\ UNCHANGED <<suppressed_response_ids, mark_sequence, run_base, cut, silenced>>
  BY <1>1 DEF OAudioDone, OutputDone, Receive, OAt, handlerVars, playbackVars, trackerVars, historyVars
<1> USE <1>2 DEF mediaVars
<1>3. Counters' BY DEF Counters, OSending, Stopped
<1>4. TruncatedItems' BY DEF TruncatedItems
<1>5. SilencedSuppressed' BY DEF SilencedSuppressed, Suppressed
<1>6. TruncationHeard' BY DEF TruncationHeard
<1>7. InterruptedStaysSilent' BY DEF InterruptedStaysSilent
<1>8. CASE UNCHANGED <<response_id, item_id, generated_bytes, played_audio_ms, pending_marks>>
  <2> USE <1>8 DEF isActive
  <2>1. Idle' BY DEF Idle, OInterrupting, OClearing
  <2>2. TrackedChunks' BY DEF TrackedChunks, Tracked
  <2>3. PendingMarks' BY DEF PendingMarks, Tracked
  <2>4. Clears' BY DEF Clears
  <2>5. HeardTracked' BY DEF HeardTracked
  <2>6. Settled' BY DEF Settled
  <2> QED BY <1>3, <1>4, <1>5, <1>6, <1>7, <2>1, <2>2, <2>3, <2>4, <2>5, <2>6
<1>9. CASE isActive /\ pending_marks = {} /\ ResetActive
  <2>1. ~isActive' BY <1>9 DEF isActive, ResetActive
  <2>2. Idle' BY <1>9, <2>1 DEF Idle, ResetActive
  <2>3. TrackedChunks' /\ PendingMarks' /\ HeardTracked'
    BY <2>1 DEF TrackedChunks, PendingMarks, HeardTracked
  <2>4. Clears' BY <2>1 DEF Clears
  <2>5. Settled'
    BY <1>9, PlayedOut DEF Settled, Larger, TypeOK, PlaybackTypeOK, MediaTypeOK
  <2> QED BY <1>3, <1>4, <1>5, <1>6, <1>7, <2>2, <2>3, <2>4, <2>5
<1>10. \/ UNCHANGED <<response_id, item_id, generated_bytes, played_audio_ms, pending_marks>>
       \/ isActive /\ pending_marks = {} /\ ResetActive
  <2>1. NoId \notin Responses BY AudioIdsAssumption DEF Responses
  <2> QED BY <1>1, <2>1 DEF OutputDone, isActive, isPlaying, playbackVars, trackerVars
<1> QED BY <1>8, <1>9, <1>10

LEMMA ChunkFields ==
    ASSUME MediaTypeOK, NEW k \in DOMAIN chunks
    PROVE  /\ chunks[k].response \in Responses /\ chunks[k].item \in AgentItems
           /\ chunks[k].bytes \in Nat /\ chunks[k].total \in Nat
<1>1. chunks[k] \in Chunk BY DEF MediaTypeOK
<1> QED BY <1>1, AudioIdsAssumption DEF Chunk

LEMMA MarkStep ==
    ASSUME TrackingInv, TMark
    PROVE  AudioInv'
<1> USE DEF TrackingInv, AudioInv
<1>1. /\ acked' = acked + 1 /\ acked < playhead
      /\ UNCHANGED <<chunks, sent, playhead, clears, heard>>
      /\ UNCHANGED <<o_pc, truncations, point>>
      /\ AcknowledgeMark(acked + 1)
      /\ UNCHANGED <<suppressed_response_ids, mark_sequence, run_base, cut, silenced>>
  BY DEF TMark, TUnchanged, ReceiveMark, handlerVars, AcknowledgeMark, playbackVars, trackerVars, historyVars
<1> USE <1>1
<1> DEFINE rest == {m \in pending_marks : m.name # acked + 1}
           acknowledged == {m \in pending_marks : m.name = acked + 1}
<1> USE DEF TypeOK, PlaybackTypeOK, MediaTypeOK
<1>3. Counters' BY DEF Counters
<1>4. TruncatedItems' BY DEF TruncatedItems
<1>5. SilencedSuppressed' BY DEF SilencedSuppressed, Suppressed
<1>6. TruncationHeard' BY DEF TruncationHeard
<1>7. InterruptedStaysSilent' BY DEF InterruptedStaysSilent
<1>8. CASE acknowledged = {}
  <2>1. UNCHANGED <<response_id, item_id, generated_bytes, played_audio_ms, pending_marks>>
    BY <1>8 DEF AcknowledgeMark, playbackVars, trackerVars
  <2> USE <2>1 DEF isActive
  <2>2. Idle' BY DEF Idle
  <2>3. TrackedChunks' BY DEF TrackedChunks, Tracked
  <2>4. PendingMarks' BY <1>8 DEF PendingMarks, Tracked
  <2>5. Clears' BY DEF Clears
  <2>6. HeardTracked' BY DEF HeardTracked
  <2>7. Settled' BY DEF Settled, Larger
  <2> QED
    BY <1>3, <1>4, <1>5, <1>6, <1>7, <2>2, <2>3, <2>4, <2>5, <2>6, <2>7
<1>9. CASE acknowledged # {} /\ output_done /\ rest = {}
  <2>1. isActive /\ ResetActive BY <1>9 DEF AcknowledgeMark, Idle
  <2>2. ~isActive' BY <2>1 DEF isActive, ResetActive
  <2>3. Idle' BY <2>1, <2>2 DEF Idle, ResetActive
  <2>4. TrackedChunks' /\ PendingMarks' /\ HeardTracked'
    BY <2>2 DEF TrackedChunks, PendingMarks, HeardTracked
  <2>5. Clears' BY <2>2 DEF Clears
  <2>6. mark_sequence <= acked + 1
    BY <1>9, <2>1 DEF PendingMarks, Idle, Tracked
  <2>7. Settled' BY <2>6 DEF Settled, Larger
  <2> QED BY <1>3, <1>4, <1>5, <1>6, <1>7, <2>3, <2>4, <2>5, <2>7
<1>10. CASE acknowledged # {} /\ ~(output_done /\ rest = {})
  <2>1. /\ UNCHANGED <<response_id, item_id, generated_bytes>>
        /\ pending_marks' = rest /\ isActive
        /\ \E m \in acknowledged :
              played_audio_ms' = IF m.response = response_id
                                   THEN Larger(played_audio_ms, m.audio_end_ms)
                                   ELSE played_audio_ms
    BY <1>10 DEF AcknowledgeMark, Idle
  <2> USE <2>1 DEF isActive
  <2>2. Idle' BY DEF Idle
  <2>3. TrackedChunks' BY DEF TrackedChunks, Tracked
  <2>4. PendingMarks'
    <3>1. Tracked' = Tracked BY DEF Tracked
    <3>2. ASSUME NEW m \in rest
          PROVE  /\ m.name \in Tracked' /\ m.name > acked'
                 /\ m.response = response_id'
                 /\ m.audio_end_ms = Ms(chunks'[m.name].total)
      BY <3>1 DEF PendingMarks, Tracked
    <3>3. ASSUME NEW k \in Tracked, k > acked + 1
          PROVE  \E m \in rest : m.name = k
      <4>1. PICK m \in pending_marks : m.name = k
        BY <3>3 DEF PendingMarks, Tracked
      <4> QED BY <3>3, <4>1
    <3> QED BY <3>1, <3>2, <3>3 DEF PendingMarks
  <2>5. Clears' BY DEF Clears
  <2>6. HeardTracked'
    <3>1. PICK m \in acknowledged :
             played_audio_ms' = Larger(played_audio_ms, m.audio_end_ms)
      BY DEF PendingMarks
    <3>2. /\ acked + 1 \in Tracked /\ playhead \in Tracked
          /\ m.audio_end_ms = Ms(chunks[acked + 1].total)
      BY DEF PendingMarks, Counters, Tracked
    <3>3. chunks[acked + 1].total <= chunks[playhead].total
      BY <3>2 DEF TrackedChunks
    <3>4. chunks[acked + 1].total \in Nat /\ chunks[playhead].total \in Nat
      <4>1. acked + 1 \in DOMAIN chunks /\ playhead \in DOMAIN chunks
        BY <3>2 DEF Counters, Tracked
      <4> QED BY <4>1, ChunkFields
    <3>5. BytesPerMs * m.audio_end_ms <= chunks[acked + 1].total
      BY <3>2, <3>4, MsNat
    <3>6. heard[item_id] \in Nat /\ chunks[playhead].total <= heard[item_id]
      BY <3>2 DEF HeardTracked, Tracked, Idle
    <3>7. m.audio_end_ms \in Nat BY <3>2, <3>4, MsNat
    <3>8. BytesPerMs * m.audio_end_ms <= heard[item_id]
      BY <3>3, <3>4, <3>5, <3>6, <3>7 DEF BytesPerMs
    <3>9. BytesPerMs * played_audio_ms <= heard[item_id] BY DEF HeardTracked
    <3>10. BytesPerMs * played_audio_ms' <= heard[item_id]
      BY <3>1, <3>7, <3>8, <3>9 DEF Larger
    <3> QED BY <3>6, <3>10 DEF HeardTracked
  <2>7. Settled' BY DEF Settled
  <2> QED
    BY <1>3, <1>4, <1>5, <1>6, <1>7, <2>2, <2>3, <2>4, <2>5, <2>6, <2>7
<1> QED BY <1>8, <1>9, <1>10

LEMMA TwilioStep ==
    ASSUME TrackingInv, Twilio
    PROVE  AudioInv'
<1> USE DEF TrackingInv, AudioInv
<1>1. /\ UNCHANGED playbackVars /\ UNCHANGED <<o_pc, truncations, point>>
      /\ UNCHANGED <<chunks, sent, acked>>
      /\ clears' \subseteq clears
  BY DEF Twilio, BridgeUnchanged, handlerVars, PlayChunk, ProcessClear
<1> USE <1>1 DEF playbackVars, trackerVars, historyVars, isActive
<1> USE DEF TypeOK, PlaybackTypeOK, MediaTypeOK
<1>2. Idle' BY DEF Idle
<1>3. TrackedChunks' BY DEF TrackedChunks, Tracked
<1>4. PendingMarks' BY DEF PendingMarks, Tracked
<1>5. Settled' BY DEF Settled
<1>6. TruncatedItems' BY DEF TruncatedItems
<1>7. SilencedSuppressed' BY DEF SilencedSuppressed, Suppressed
<1>8. InterruptedStaysSilent' BY DEF InterruptedStaysSilent
<1>9. Counters' BY DEF Twilio, PlayChunk, ProcessClear, Counters, Clears
<1>10. Clears' BY DEF Twilio, PlayChunk, ProcessClear, Clears
<1>11. \A i \in AgentItems : heard[i] <= heard'[i]
  <2>1. CASE PlayChunk
    <3> DEFINE chunk == chunks[playhead + 1]
    <3>1. playhead + 1 \in DOMAIN chunks BY <2>1 DEF PlayChunk, Counters
    <3>2. chunk.bytes \in Nat BY <3>1, ChunkFields
    <3>3. heard' = [heard EXCEPT ![chunk.item] = heard[chunk.item] + chunk.bytes]
      BY <2>1 DEF PlayChunk
    <3> QED BY <3>2, <3>3
  <2>2. CASE ProcessClear BY <2>2 DEF ProcessClear
  <2> QED BY <2>1, <2>2 DEF Twilio
<1>12. TruncationHeard'
  <2> SUFFICES ASSUME NEW t \in truncations \cup ({point} \ {NoPoint})
               PROVE  BytesPerMs * t.audio_end_ms <= heard'[t.item]
    BY DEF TruncationHeard
  <2>1. t.item \in AgentItems BY DEF TruncatedItems
  <2>2. t.audio_end_ms \in Nat BY DEF BridgeTypeOK, Truncation
  <2>3. heard[t.item] <= heard'[t.item] /\ heard[t.item] \in Nat BY <2>1, <1>11
  <2>4. heard'[t.item] \in Nat
    <3>1. MediaTypeOK'
      BY PlayChunkType, ProcessClearType DEF Twilio, Counters
    <3> QED BY <3>1, <2>1
  <2>5. BytesPerMs * t.audio_end_ms <= heard[t.item] BY DEF TruncationHeard
  <2> QED BY <2>2, <2>3, <2>4, <2>5 DEF BytesPerMs
<1>13. HeardTracked'
  <2> SUFFICES ASSUME isActive PROVE HeardTracked' BY DEF HeardTracked
  <2>1. item_id \in AgentItems BY DEF Idle
  <2>2. heard'[item_id] \in Nat
    <3>1. MediaTypeOK'
      BY PlayChunkType, ProcessClearType DEF Twilio, Counters
    <3> QED BY <3>1, <2>1
  <2>3. BytesPerMs * played_audio_ms <= heard'[item_id]
    BY <2>1, <2>2, <1>11 DEF HeardTracked, BytesPerMs
  <2>4. CASE ProcessClear
    <3>1. playhead' <= run_base BY <2>4 DEF ProcessClear, Clears
    <3>2. playhead' \in Nat BY <2>4 DEF ProcessClear
    <3> QED BY <2>3, <3>1, <3>2 DEF HeardTracked
  <2>5. CASE PlayChunk
    <3> DEFINE k == playhead + 1
               chunk == chunks[k]
    <3>1. playhead' = k /\ k \in DOMAIN chunks BY <2>5 DEF PlayChunk, Counters
    <3>2. chunk.bytes \in Nat /\ chunk.item \in AgentItems
      BY <3>1, ChunkFields
    <3>3. heard' = [heard EXCEPT ![chunk.item] = heard[chunk.item] + chunk.bytes]
      BY <2>5 DEF PlayChunk
    <3>4. ASSUME k > run_base PROVE heard'[item_id] >= chunk.total
      <4>1. k \in Tracked BY <3>1, <3>4 DEF Tracked, Counters
      <4>2. chunk.item = item_id BY <4>1 DEF TrackedChunks
      <4>3. heard'[item_id] = heard[item_id] + chunk.bytes
        BY <3>3, <4>2, <2>1
      <4>4. CASE k = run_base + 1
        <5>1. chunk.total = chunk.bytes BY <4>1, <4>4 DEF TrackedChunks
        <5> QED BY <5>1, <4>3, <3>2, <2>1
      <4>5. CASE k # run_base + 1
        <5>1. chunk.total = chunks[playhead].total + chunk.bytes
          BY <4>1, <4>5 DEF TrackedChunks
        <5>2. playhead > run_base BY <3>4, <4>5
        <5>3. chunks[playhead].total <= heard[item_id]
          BY <5>2 DEF HeardTracked
        <5>4. chunks[playhead].total \in Nat
          <6>1. playhead \in DOMAIN chunks BY <5>2, <3>1
          <6> QED BY <6>1, ChunkFields
        <5> QED BY <5>1, <5>3, <5>4, <4>3, <3>2, <2>1
      <4> QED BY <4>4, <4>5
    <3> QED BY <2>3, <3>1, <3>4 DEF HeardTracked
  <2> QED BY <2>4, <2>5 DEF Twilio
<1> QED
  BY <1>2, <1>3, <1>4, <1>5, <1>6, <1>7, <1>8, <1>9, <1>10, <1>12, <1>13

LEMMA IntervalExtends ==
    ASSUME NEW a \in Nat, NEW b \in Nat, a <= b
    PROVE  (a + 1)..(b + 1) = ((a + 1)..b) \cup {b + 1}
  OBVIOUS

\* A chunk of a response that is not suppressed is registered.
LEMMA AddAudioStep ==
    ASSUME TrackingInv, NEW r \in Responses, NEW i \in AgentItems,
           NEW bytes \in DeltaBytes, ~Suppressed(r),
           o_pc = "recv", o_pc' = "send_media",
           UNCHANGED <<truncations, point>>,
           AddAudio(r, i, bytes),
           RegisterChunk(r, i, bytes, generated_bytes')
    PROVE  AudioInv'
<1> USE DEF TrackingInv, AudioInv
<1> USE DEF TypeOK, PlaybackTypeOK, MediaTypeOK
<1> DEFINE new == mark_sequence + 1
           chunk == [response |-> r, item |-> i, bytes |-> bytes,
                     total |-> generated_bytes']
<1>1. /\ chunks' = Append(chunks, chunk)
      /\ UNCHANGED <<sent, playhead, acked, clears, heard>>
      /\ mark_sequence' = new
      /\ UNCHANGED <<suppressed_response_ids, cut, silenced>>
      /\ run_base' = run_base \/ run_base' = mark_sequence
      /\ response_id' = r /\ item_id' = i
  BY DEF RegisterChunk, AddAudio, ContinueResponse, BeginResponse, Tracks
<1>2. bytes \in Nat /\ generated_bytes' \in Nat
  BY AddAudioType, AudioIdsAssumption
<1>3. /\ DOMAIN chunks = 1..mark_sequence
      /\ DOMAIN chunks' = 1..new
      /\ chunks'[new] = chunk
      /\ \A k \in 1..mark_sequence : chunks'[k] = chunks[k]
  BY <1>1 DEF Counters
<1>4. isActive' /\ NoId \notin Responses /\ NoId # i
  BY <1>1, AudioIdsAssumption DEF isActive, Responses, AgentItems
<1>5. sent = mark_sequence BY DEF Counters, OSending, Stopped
<1>6. Counters' BY <1>1, <1>3, <1>5 DEF Counters, OSending, Stopped
<1>7. Idle' BY <1>1, <1>4 DEF Idle, OInterrupting, OClearing, Counters
<1>8. Clears'
  <2>1. CASE Tracks(r, i)
    <3>1. isActive BY <2>1, <1>4 DEF isActive, Tracks
    <3>2. run_base' = run_base BY <2>1 DEF AddAudio, ContinueResponse
    <3> QED BY <1>1, <3>1, <3>2 DEF Clears
  <2>2. CASE ~Tracks(r, i)
    <3>1. run_base' = mark_sequence BY <2>2 DEF AddAudio, BeginResponse
    <3> QED BY <1>1, <1>5, <3>1 DEF Clears
  <2> QED BY <2>1, <2>2
<1>9. Settled' BY <1>4 DEF Settled
<1>10. TruncatedItems' BY DEF TruncatedItems
<1>11. SilencedSuppressed' BY <1>1 DEF SilencedSuppressed, Suppressed
<1>12. TruncationHeard' BY <1>1 DEF TruncationHeard
<1>13. InterruptedStaysSilent'
  BY <1>1, <1>3 DEF InterruptedStaysSilent, SilencedSuppressed, Suppressed
<1>14. CASE Tracks(r, i)
  <2>1. /\ isActive /\ response_id = r /\ item_id = i
        /\ run_base' = run_base /\ run_base < mark_sequence
        /\ generated_bytes' = generated_bytes + bytes
        /\ played_audio_ms' = played_audio_ms
        /\ pending_marks' = pending_marks \cup
             {[name |-> new, response |-> r, audio_end_ms |-> Ms(generated_bytes')]}
    BY <1>14, <1>4 DEF Tracks, isActive, AddAudio, ContinueResponse, Idle
  <2>2. Tracked' = Tracked \cup {new}
    <3>1. run_base \in Nat /\ mark_sequence \in Nat /\ run_base <= mark_sequence
      BY DEF Counters
    <3> HIDE DEF TrackingInv, AudioInv, TypeOK, PlaybackTypeOK, MediaTypeOK
    <3> QED BY <1>1, <2>1, <3>1, IntervalExtends DEF Tracked
  <2>3. Tracked \subseteq 1..mark_sequence /\ new \notin Tracked
          /\ mark_sequence \in Tracked
    BY <2>1 DEF Tracked
  <2>4. \A k \in Tracked : chunks'[k] = chunks[k] BY <1>3, <2>3
  <2>5. \A k \in Tracked : k # run_base + 1 => chunks'[k - 1] = chunks[k - 1]
    BY <1>3 DEF Tracked
  <2>6. chunks'[new].total = chunks[mark_sequence].total + bytes
    BY <1>3, <2>1 DEF TrackedChunks
  <2>7. TrackedChunks'
    <3>1. \A k \in Tracked' : /\ chunks'[k].response = response_id'
                              /\ chunks'[k].item = item_id'
      <4> SUFFICES ASSUME NEW k \in Tracked'
                   PROVE  chunks'[k].response = r /\ chunks'[k].item = i
        BY <1>1
      <4>1. CASE k = new BY <4>1, <1>3
      <4>2. CASE k \in Tracked BY <4>2, <2>1, <2>4 DEF TrackedChunks
      <4> QED BY <4>1, <4>2, <2>2
    <3>2. \A k \in Tracked' :
             chunks'[k].total = IF k = run_base' + 1
                                  THEN chunks'[k].bytes
                                  ELSE chunks'[k - 1].total + chunks'[k].bytes
      <4>1. chunks'[new - 1] = chunks[mark_sequence] /\ new # run_base + 1
        BY <1>3, <2>1, <2>3
      <4>2. chunks'[new].bytes = bytes BY <1>3
      <4> QED BY <2>1, <2>2, <2>4, <2>5, <2>6, <4>1, <4>2 DEF TrackedChunks
    <3>3. \A j, k \in Tracked' : j <= k => chunks'[j].total <= chunks'[k].total
      <4> SUFFICES ASSUME NEW j \in Tracked', NEW k \in Tracked', j <= k
                   PROVE  chunks'[j].total <= chunks'[k].total
        OBVIOUS
      <4>1. CASE k \in Tracked
        <5>1. j \in Tracked BY <4>1, <2>2 DEF Tracked
        <5> QED BY <4>1, <5>1, <2>4, <2>1 DEF TrackedChunks
      <4>2. CASE k = new /\ j \in Tracked
        <5>1. chunks[j].total <= chunks[mark_sequence].total
          BY <4>2, <2>1, <2>3 DEF TrackedChunks, Tracked
        <5>2. chunks[j].total \in Nat /\ chunks[mark_sequence].total \in Nat
          BY <4>2, <2>3, <1>3, ChunkFields
        <5>3. chunks'[j].total = chunks[j].total BY <4>2, <2>4
        <5>4. chunks'[k].total = chunks[mark_sequence].total + bytes
          BY <4>2, <2>6
        <5> QED BY <5>1, <5>2, <5>3, <5>4, <1>2
      <4>3. CASE k = new /\ j = new BY <4>3, <1>2, <1>3
      <4> QED BY <4>1, <4>2, <4>3, <2>2
    <3>4. generated_bytes' = chunks'[mark_sequence'].total BY <1>1, <1>3
    <3> QED BY <3>1, <3>2, <3>3, <3>4 DEF TrackedChunks
  <2>8. PendingMarks'
    <3>1. new > acked BY DEF Counters
    <3>2. \A m \in pending_marks' :
             /\ m.name \in Tracked' /\ m.name > acked'
             /\ m.response = response_id'
             /\ m.audio_end_ms = Ms(chunks'[m.name].total)
      <4> SUFFICES ASSUME NEW m \in pending_marks'
                   PROVE  /\ m.name \in Tracked' /\ m.name > acked
                          /\ m.response = r
                          /\ m.audio_end_ms = Ms(chunks'[m.name].total)
        BY <1>1
      <4>1. CASE m \in pending_marks
        <5>1. /\ m.name \in Tracked /\ m.name > acked
              /\ m.response = response_id
              /\ m.audio_end_ms = Ms(chunks[m.name].total)
          BY <4>1, <2>1 DEF PendingMarks
        <5> QED BY <5>1, <2>1, <2>2, <2>4
      <4>2. CASE m = [name |-> new, response |-> r,
                      audio_end_ms |-> Ms(generated_bytes')]
        BY <4>2, <1>3, <2>2, <3>1
      <4> QED BY <4>1, <4>2, <2>1
    <3>3. \A k \in Tracked' : k > acked' => \E m \in pending_marks' : m.name = k
      <4> SUFFICES ASSUME NEW k \in Tracked', k > acked
                   PROVE  \E m \in pending_marks' : m.name = k
        BY <1>1
      <4>1. CASE k = new
        <5> DEFINE m == [name |-> new, response |-> r,
                         audio_end_ms |-> Ms(generated_bytes')]
        <5>1. m \in pending_marks' /\ m.name = k BY <4>1, <2>1
        <5> QED BY <5>1
      <4>2. CASE k \in Tracked
        <5>1. PICK m \in pending_marks : m.name = k
          BY <4>2, <2>1 DEF PendingMarks
        <5>2. m \in pending_marks' BY <2>1
        <5> QED BY <5>1, <5>2
      <4> QED BY <4>1, <4>2, <2>2
    <3> QED BY <3>2, <3>3 DEF PendingMarks
  <2>9. HeardTracked'
    <3>1. playhead \in Nat /\ playhead <= mark_sequence BY DEF Counters
    <3>2. ASSUME playhead > run_base PROVE chunks'[playhead] = chunks[playhead]
      BY <3>1, <3>2, <1>3
    <3> QED BY <1>1, <2>1, <3>2 DEF HeardTracked
  <2> QED
    BY <1>6, <1>7, <1>8, <1>9, <1>10, <1>11, <1>12, <1>13, <2>7, <2>8, <2>9
<1>15. CASE ~Tracks(r, i)
  <2>1. /\ run_base' = mark_sequence
        /\ generated_bytes' = bytes
        /\ played_audio_ms' = 0
        /\ pending_marks' =
             {[name |-> new, response |-> r, audio_end_ms |-> Ms(bytes)]}
    BY <1>15 DEF AddAudio, BeginResponse
  <2>2. Tracked' = {new} BY <1>1, <2>1 DEF Tracked
  <2>3. TrackedChunks'
    BY <1>1, <1>2, <1>3, <2>1, <2>2 DEF TrackedChunks
  <2>4. PendingMarks'
    BY <1>1, <1>3, <2>1, <2>2 DEF PendingMarks, Counters
  <2>5. HeardTracked'
    <3>1. heard[i] \in Nat OBVIOUS
    <3> QED BY <1>1, <2>1, <3>1 DEF HeardTracked, Counters, BytesPerMs
  <2> QED
    BY <1>6, <1>7, <1>8, <1>9, <1>10, <1>11, <1>12, <1>13, <2>3, <2>4, <2>5
<1> QED BY <1>14, <1>15

LEMMA DeltaStep ==
    ASSUME TrackingInv, ODelta
    PROVE  AudioInv'
<1> DEFINE delta == Head(events)
<1>1. /\ delta.response \in Responses /\ delta.item \in AgentItems
      /\ delta.bytes \in DeltaBytes
  BY ReceiveType, EventFields DEF ODelta, TrackingInv, TypeOK
<1>2. o_pc = "recv" /\ UNCHANGED <<truncations, point>>
  BY DEF ODelta, Receive, OAt, handlerVars
<1>3. CASE Suppressed(delta.response)
  <2>1. UNCHANGED audioVars /\ UNCHANGED o_pc BY <1>3 DEF ODelta
  <2> QED BY <1>2, <2>1, SilentStep
<1>4. CASE ~Suppressed(delta.response)
  <2>1. /\ AddAudio(delta.response, delta.item, delta.bytes)
        /\ RegisterChunk(delta.response, delta.item, delta.bytes, generated_bytes')
        /\ o_pc' = "send_media"
    BY <1>4 DEF ODelta
  <2> QED BY <1>1, <1>2, <1>4, <2>1, AddAudioStep
<1> QED BY <1>3, <1>4

\* Every other step of the O task is silent.
LEMMA OSilentStep ==
    ASSUME TrackingInv, OSilent
    PROVE  AudioInv'
<1>1. UNCHANGED audioVars BY OSilentAudio
<1> USE DEF OAt, OSending, OInterrupting, OClearing, OTool, Stopped, Storing,
        handlerVars, Receive, OAwait, OForward
<1>2. CASE OSendMedia BY <1>1, <1>2, SilentStep DEF OSendMedia
<1>3. CASE OSpeechStarted BY <1>1, <1>3, SilentStep DEF OSpeechStarted
<1>4. CASE OSpeechEventFails BY <1>1, <1>4, SilentStep DEF OSpeechEventFails
<1>5. CASE OInterruptEvent BY <1>1, <1>5, SilentStep DEF OInterruptEvent
<1>6. CASE OTruncate
  <2>1. point # NoPoint BY <1>6 DEF TrackingInv, AudioInv, TruncatedItems, OTruncate
  <2> QED BY <1>1, <1>6, <2>1, SilentStep DEF OTruncate
<1>7. CASE OCommitted BY <1>1, <1>7, SilentStep DEF OCommitted
<1>8. CASE OTranscript BY <1>1, <1>8, SilentStep DEF OTranscript
<1>9. CASE OStoreTranscript BY <1>1, <1>9, SilentStep DEF OStoreTranscript
<1>10. CASE ODone BY <1>1, <1>10, SilentStep DEF ODone
<1>11. CASE OCompletedEvent BY <1>1, <1>11, SilentStep DEF OCompletedEvent
<1>12. CASE OCreated BY <1>1, <1>12, SilentStep DEF OCreated
<1>13. CASE OEvent BY <1>1, <1>13, SilentStep DEF OEvent
<1>14. CASE OToolEvent BY <1>1, <1>14, SilentStep DEF OToolEvent
<1>15. CASE OToolAwait BY <1>1, <1>15, SilentStep DEF OToolAwait
<1>16. CASE OSubmitTool BY <1>1, <1>16, SilentStep DEF OSubmitTool
<1>17. CASE ORequestResponse BY <1>1, <1>17, SilentStep DEF ORequestResponse
<1>18. CASE OError BY <1>1, <1>18, SilentStep DEF OError
<1>19. CASE ODisconnect BY <1>1, <1>19, SilentStep DEF ODisconnect
<1>20. CASE OCancel BY <1>1, <1>20, SilentStep DEF OCancel
<1> QED
  BY <1>2, <1>3, <1>4, <1>5, <1>6, <1>7, <1>8, <1>9, <1>10, <1>11, <1>12,
     <1>13, <1>14, <1>15, <1>16, <1>17, <1>18, <1>19, <1>20 DEF OSilent

LEMMA InvStep ==
    ASSUME TrackingInv, [Next]_vars
    PROVE  TrackingInv'
<1>1. TypeOK' BY TypeStep DEF TrackingInv, AudioInv, Counters
<1>2. AudioInv'
  <2>1. CASE Run
    <3>1. UNCHANGED <<audioVars, o_pc, handlerVars>>
      BY <2>1 DEF Run, Connect, ConnectedEvent, Configure, RelayEnds, Close,
                  DisconnectedEvent, RunUnchanged
    <3> QED BY <3>1, SilentStep DEF handlerVars
  <2>2. CASE TMark BY <2>2, MarkStep
  <2>3. CASE T /\ ~TMark
    <3>1. UNCHANGED <<audioVars, o_pc, handlerVars>>
      BY <2>3 DEF T, TMedia, TAppend, TStop, TStopEvent, TDisconnect, TCancel, TAwait,
                  TUnchanged
    <3> QED BY <3>1, SilentStep DEF handlerVars
  <2>4. CASE O
    BY <2>4, DeltaStep, SendMarkStep, InterruptStep, ClearStep, AudioDoneStep,
       CancelledStep, OSilentStep DEF O, OSilent
  <2>5. CASE Twilio BY <2>5, TwilioStep
  <2>6. CASE OpenAI \/ LoseOpenAI \/ LoseTwilio
    <3>1. UNCHANGED <<audioVars, o_pc, handlerVars>>
      BY <2>6 DEF OpenAI, LoseOpenAI, LoseTwilio, BridgeUnchanged, audioVars
    <3> QED BY <3>1, SilentStep DEF handlerVars
  <2>7. CASE UNCHANGED vars
    BY <2>7, SilentStep DEF vars, handlerVars
  <2> QED BY <2>1, <2>2, <2>3, <2>4, <2>5, <2>6, <2>7 DEF Next
<1> QED BY <1>1, <1>2 DEF TrackingInv

\* What BridgeInvariant says of the tracker, the chunks and the marks holds in
\* every reachable state.
THEOREM TrackingInvariant == Spec => []TrackingInv
<1>1. Init => TrackingInv BY TypeInit, InvInit DEF TrackingInv
<1>2. TrackingInv /\ [Next]_vars => TrackingInv' BY InvStep
<1> QED BY <1>1, <1>2, PTL DEF Spec

\* Every variable keeps its type: in particular Twilio never plays a chunk the
\* tracker did not register, and nothing but responses is ever suppressed.
THEOREM TypeCorrect == Spec => []TypeOK
<1>1. TrackingInv => TypeOK BY DEF TrackingInv
<1> QED BY <1>1, TrackingInvariant, PTL

\* _interrupt_assistant never tells OpenAI that the caller heard more of an
\* answer than Twilio has played of it.
THEOREM TruncationCorrect == Spec => []TruncationHeard
<1>1. TrackingInv => TruncationHeard BY DEF TrackingInv, AudioInv
<1> QED BY <1>1, TrackingInvariant, PTL

\* No late delta of a response the tracker has suppressed reaches Twilio.
THEOREM SilenceCorrect == Spec => []InterruptedStaysSilent
<1>1. TrackingInv => InterruptedStaysSilent BY DEF TrackingInv, AudioInv
<1> QED BY <1>1, TrackingInvariant, PTL

\* With nothing pending, every chunk was acknowledged or cut off.
LEMMA NothingPending ==
    TrackingInv /\ ~isPlaying => mark_sequence = Larger(acked, cut)
<1> SUFFICES ASSUME TrackingInv, pending_marks = {}
             PROVE  mark_sequence = Larger(acked, cut)
  BY DEF isPlaying
<1>1. mark_sequence <= Larger(acked, cut)
  BY PlayedOut DEF TrackingInv, AudioInv, Settled, Larger, TypeOK, PlaybackTypeOK,
                   MediaTypeOK
<1>2. acked <= mark_sequence /\ cut <= mark_sequence
  BY DEF TrackingInv, AudioInv, Counters, TypeOK, PlaybackTypeOK, MediaTypeOK
<1> QED
  BY <1>1, <1>2 DEF Larger, TrackingInv, TypeOK, PlaybackTypeOK, MediaTypeOK

\* Both tasks hang up only where _finish_if_ready raises.
LEMMA HangUpStep ==
    ASSUME Next, HungUp', ~HungUp
    PROVE  ~isPlaying'
<1> USE DEF HungUp, isPlaying, FinishReady, Storing
<1>1. CASE Run
  BY <1>1 DEF Run, Connect, ConnectedEvent, Configure, RelayEnds, Close,
              DisconnectedEvent, RunUnchanged
<1>2. CASE T
  BY <1>2 DEF T, TMark, TMedia, TAppend, TStop, TStopEvent, TDisconnect,
              TCancel, TAwait, TUnchanged
<1>3. CASE O
  <2>1. UNCHANGED t_pc
    BY <1>3 DEF O, OUnchanged, ODelta, OSendMark, OInterrupt, OClear, OAudioDone, OCancelled,
       OSendMedia, OSpeechStarted, OSpeechEventFails, OInterruptEvent,
       OTruncate, OCommitted, OTranscript, OStoreTranscript, ODone,
       OCompletedEvent, OCreated, OEvent, OToolEvent, OToolAwait,
       OSubmitTool, ORequestResponse, OError, ODisconnect, OCancel,
       OAwait, OForward
  <2>2. CASE OAudioDone BY <2>1, <2>2 DEF OAudioDone
  <2>3. CASE OCompletedEvent BY <2>1, <2>3 DEF OCompletedEvent
  <2>4. CASE ~OAudioDone /\ ~OCompletedEvent
    <3>1. o_pc' # "hung_up" \/ UNCHANGED o_pc
      BY <1>3, <2>4 DEF O, ODelta, OSendMark, OInterrupt, OClear, OClearing,
         OCancelled, OSendMedia, OSpeechStarted, OSpeechEventFails,
         OInterruptEvent, OTruncate, OCommitted, OTranscript,
         OStoreTranscript, ODone, OCreated, OEvent, OToolEvent, OToolAwait,
         OSubmitTool, ORequestResponse, OError, ODisconnect, OCancel,
       OAwait, OForward, OAt
    <3> QED BY <2>1, <3>1
  <2> QED BY <2>2, <2>3, <2>4
<1>4. CASE OpenAI \/ Twilio \/ LoseOpenAI \/ LoseTwilio
  BY <1>4 DEF OpenAI, Twilio, LoseOpenAI, LoseTwilio, BridgeUnchanged
<1> QED BY <1>1, <1>2, <1>3, <1>4 DEF Next

\* A call that hangs up because its goodbye is over leaves no chunk behind
\* that was neither acknowledged by Twilio nor cut off by the caller.
THEOREM HangUpCorrect == Spec => HangUpAfterPlayback
<1>1. (TrackingInv /\ ~isPlaying => mark_sequence = Larger(acked, cut))'
  BY NothingPending, PTL
<1>2. TrackingInv' /\ [Next]_vars =>
        [HungUp' /\ ~HungUp => mark_sequence' = Larger(acked', cut')]_vars
  BY <1>1, HangUpStep DEF Larger
<1> QED BY <1>2, TrackingInvariant, PTL DEF Spec, HangUpAfterPlayback
-----------------------------------------------------------------------------
\* O leaves a truncation with the clear sent, or has nobody to send it to, or
\* T cancels it while it sends the clear.
LEMMA ClearedStep ==
    ASSUME TrackingInv, [Next]_vars, Truncating, ~Truncating'
    PROVE  \/ Cleared'
           \/ twilio = "lost"
           \/ t_pc \in Stopped /\ o_pc \in {"clear", "clear_failed"}
<1> USE DEF Truncating, OClearing
<1>1. o_pc' # o_pc
  OBVIOUS
<1>2. O
  <2>1. CASE Run
    BY <1>1, <2>1 DEF Run, Connect, ConnectedEvent, Configure, RelayEnds, Close,
                      DisconnectedEvent, RunUnchanged
  <2>2. CASE T
    BY <1>1, <2>2 DEF T, TMark, TMedia, TAppend, TStop, TStopEvent, TDisconnect,
                      TCancel, TAwait, TUnchanged
  <2>3. CASE OpenAI \/ Twilio \/ LoseOpenAI \/ LoseTwilio
    BY <1>1, <2>3 DEF OpenAI, Twilio, LoseOpenAI, LoseTwilio, BridgeUnchanged
  <2> QED BY <1>1, <2>1, <2>2, <2>3 DEF Next, vars
<1>3. OTruncate \/ OClear \/ OCancel
  BY <1>2 DEF O, ODelta, OSendMark, OInterrupt, OAudioDone, OCancelled,
       OSendMedia, OSpeechStarted, OSpeechEventFails, OInterruptEvent,
       OCommitted, OTranscript, OStoreTranscript, ODone, OCompletedEvent,
       OCreated, OEvent, OToolEvent, OToolAwait, OSubmitTool,
       ORequestResponse, OError, ODisconnect, OAwait, OForward, Receive, OAt, OTool
<1>4. CASE OTruncate
  BY <1>4 DEF OTruncate
<1>5. CASE OClear
  <2>1. CASE twilio = "open"
    <3>1. clears' = clears \cup {sent} /\ UNCHANGED playbackVars
      BY <1>5, <2>1 DEF OClear, SendClear
    <3>2. cut' = cut /\ sent \in clears'
      BY <3>1 DEF playbackVars, historyVars
    <3>3. sent >= cut
      BY DEF TrackingInv, AudioInv, Counters, OSending, Stopped, TypeOK,
             MediaTypeOK, PlaybackTypeOK
    <3> QED BY <3>2, <3>3 DEF Cleared
  <2>2. CASE twilio # "open"
    BY <2>2 DEF TrackingInv, TypeOK, BridgeTypeOK
  <2> QED BY <2>1, <2>2
<1>6. CASE OCancel
  BY <1>6 DEF OCancel
<1> QED BY <1>3, <1>4, <1>5, <1>6

\* _interrupt_assistant sends Twilio the clear of what the caller cut off,
\* whether its truncation was sent, failed or was cancelled, unless Twilio's
\* side is lost or T ends while the clear itself is being sent.
THEOREM ClearFollows == Spec => InterruptionCleared
<1>1. TrackingInv /\ [Next]_vars =>
        [Truncating /\ ~Truncating' =>
            \/ Cleared'
            \/ twilio = "lost"
            \/ t_pc \in Stopped /\ o_pc \in {"clear", "clear_failed"}]_vars
  BY ClearedStep
<1> QED BY <1>1, TrackingInvariant, PTL DEF Spec, InterruptionCleared
=============================================================================
