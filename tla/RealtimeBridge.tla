--------------------------- MODULE RealtimeBridge ---------------------------
(***************************************************************************)
(* RealtimeAudioBridge (app/services/realtime_bridge.py): run() and its    *)
(* two relay tasks, T (_twilio_to_openai) and O (_openai_to_twilio), with  *)
(* the playback tracker they share, Twilio at one end and OpenAI at the    *)
(* other.  The tasks share one event loop: what a task does between two    *)
(* awaits is one action, and its program counter names the await it is     *)
(* suspended at.                                                           *)
(***************************************************************************)
EXTENDS Playback, TwilioMedia, RealtimeServer

VARIABLES
    run_pc,     \* run(): the await it is suspended at, "ended" at the end
    raised,     \* run() ends with an exception
    t_pc,       \* task T, or how it ended
    o_pc,       \* task O, or how it ended
    openai,     \* the OpenAI socket: "none", "open", "lost", "closed"
    twilio,     \* the Twilio socket: "open", "lost"
    finishing,              \* _finishing
    final_response_done,    \* _final_response_done
    finish_requested,       \* tool_dispatcher.runtime.finish_requested
    calls,          \* O: tool calls still to handle
    point,          \* O: the interruption being carried out
    row,            \* O: the item whose transcript is being stored
    item_sequences, \* _item_sequences; 0 for an item that has none
    next_sequence,  \* _next_transcript_sequence
    transcripts,    \* transcript rows stored
    (* History, read by the properties only. *)
    truncations,    \* every truncation sent to OpenAI
    talked_over     \* responses speech interrupted, and mark_sequence when the
                    \* bridge received the speech_started event

linkVars == <<openai, twilio>>
finishVars == <<finishing, final_response_done, finish_requested>>
transcriptVars == <<row, item_sequences, next_sequence, transcripts>>
handlerVars == <<calls, point, truncations, talked_over>>
runVars == <<run_pc, raised>>
audioVars == <<playbackVars, mediaVars>>
vars == <<audioVars, serverVars, runVars, t_pc, o_pc, linkVars, finishVars,
          transcriptVars, handlerVars>>

RunPc == {"connect", "connected_event", "configure", "relay", "close",
          "disconnected_event", "ended"}

\* How a relay task ends: finished by _BridgeFinished, the last time by the
\* end of the goodbye; escaped by any other exception; or cancelled.
Stopped == {"finished", "hung_up", "escaped", "cancelled"}

TPc == {"recv", "append", "stop_event"} \cup Stopped

OSending == {"send_media", "send_mark"}
\* Sending the clear, with an exception raised again behind it or without
OClearing == {"clear", "clear_failed", "clear_cancelled"}
OInterrupting == {"interrupt_event", "truncate"} \cup OClearing
OTool == {"tool_event", "start_recording", "persist_tool", "submit_tool"}
OPc == {"recv", "event", "completed_event", "speech_event", "store_transcript",
        "request_response"}
         \cup OTool \cup OSending \cup OInterrupting \cup Stopped

Truncation == [item : AgentItems \cup {NoId}, audio_end_ms : Nat]

BridgeTypeOK ==
    /\ run_pc \in RunPc
    /\ raised \in BOOLEAN
    /\ t_pc \in TPc
    /\ o_pc \in OPc
    /\ openai \in {"none", "open", "lost", "closed"}
    /\ twilio \in {"open", "lost"}
    /\ finishing \in BOOLEAN
    /\ final_response_done \in BOOLEAN
    /\ finish_requested \in BOOLEAN
    /\ calls \in Seq(STRING)
    /\ o_pc \in OTool => calls # <<>>
    /\ point \in Truncation
    /\ row \in Items \cup {NoId}
    /\ o_pc = "store_transcript" => row \in Items
    /\ item_sequences \in [Items -> Nat]
    /\ next_sequence \in Nat
    /\ transcripts \subseteq [item : Items, sequence : Nat]
    /\ truncations \subseteq Truncation
    /\ talked_over \subseteq [response : Responses, at : Nat]

TypeOK == PlaybackTypeOK /\ MediaTypeOK /\ ServerTypeOK /\ BridgeTypeOK

NoPoint == [item |-> NoId, audio_end_ms |-> 0]

Init ==
    /\ PlaybackInit
    /\ MediaInit
    /\ ServerInit
    /\ run_pc = "connect"
    /\ raised = FALSE
    /\ t_pc = "recv"
    /\ o_pc = "recv"
    /\ openai = "none"
    /\ twilio = "open"
    /\ finishing = FALSE
    /\ final_response_done = FALSE
    /\ finish_requested = FALSE
    /\ calls = <<>>
    /\ point = NoPoint
    /\ row = NoId
    /\ item_sequences = [i \in Items |-> 0]
    /\ next_sequence = 1
    /\ transcripts = {}
    /\ truncations = {}
    /\ talked_over = {}
-----------------------------------------------------------------------------
(* Failures of what an await waits for. *)

DatabaseMayFail == "db_failure" \in Inputs

\* Where the await of a database write leaves a task: it stored, or it raised
Storing(stored, failed) ==
    {stored} \cup IF DatabaseMayFail THEN {failed} ELSE {}

\* The condition of _finish_if_ready, behind a handler that changed the marks
FinishReady(finalResponseDone) ==
    /\ finishing
    /\ finalResponseDone
    /\ pending_marks' = {}
-----------------------------------------------------------------------------
(* run() *)

RunUnchanged == UNCHANGED <<audioVars, t_pc, o_pc, twilio, finishVars,
                            transcriptVars, handlerVars>>

\* A RealtimeDisconnected of connect() or configure() is caught
Connect ==
    /\ run_pc = "connect"
    /\ \/ openai' = "open" /\ run_pc' = "connected_event"
       \/ "openai_loss" \in Inputs /\ run_pc' = "close" /\ UNCHANGED openai
    /\ UNCHANGED <<raised, serverVars>>
    /\ RunUnchanged

ConnectedEvent ==
    /\ run_pc = "connected_event"
    /\ run_pc' \in Storing("configure", "close")
    /\ raised' = (run_pc' = "close")
    /\ UNCHANGED <<openai, serverVars>>
    /\ RunUnchanged

\* configure() ends with the request for the first utterance
Configure ==
    /\ run_pc = "configure"
    /\ IF openai = "open"
         THEN run_pc' = "relay" /\ RequestResponse(FALSE)
         ELSE run_pc' = "close" /\ UNCHANGED serverVars
    /\ UNCHANGED <<raised, openai>>
    /\ RunUnchanged

\* The task group ends when both tasks have; only _BridgeFinished is caught,
\* and the except for RealtimeDisconnected does not match a group
RelayEnds ==
    /\ run_pc = "relay"
    /\ t_pc \in Stopped /\ o_pc \in Stopped
    /\ run_pc' = "close"
    /\ raised' = (t_pc = "escaped" \/ o_pc = "escaped")
    /\ UNCHANGED <<openai, serverVars>>
    /\ RunUnchanged

Close ==
    /\ run_pc = "close"
    /\ run_pc' = "disconnected_event"
    /\ openai' = "closed"
    /\ UNCHANGED <<raised, serverVars>>
    /\ RunUnchanged

DisconnectedEvent ==
    /\ run_pc = "disconnected_event"
    /\ run_pc' = "ended"
    /\ raised' \in {raised, raised \/ DatabaseMayFail}
    /\ UNCHANGED <<openai, serverVars>>
    /\ RunUnchanged

Run == \/ Connect \/ ConnectedEvent \/ Configure
       \/ RelayEnds \/ Close \/ DisconnectedEvent
-----------------------------------------------------------------------------
(* T: _twilio_to_openai *)

TUnchanged == UNCHANGED <<serverVars, runVars, o_pc, linkVars, finishVars,
                          transcriptVars, handlerVars>>

TAt(pc) == run_pc = "relay" /\ t_pc = pc

\* T goes on to a next await, or ends, and changes nothing else
TAwait(pc, next) ==
    /\ TAt(pc)
    /\ t_pc' \in next
    /\ TUnchanged /\ UNCHANGED audioVars

\* Variant: acknowledging a mark never looks whether the call can finish
TMarkUnfinished ==
    /\ TAt("recv")
    /\ ReceiveMark
    /\ AcknowledgeMark(acked')
    /\ t_pc' = "recv"
    /\ TUnchanged

\* A "mark" message
TMark ==
    /\ TAt("recv")
    /\ ReceiveMark
    /\ AcknowledgeMark(acked')
    /\ t_pc' = IF FinishReady(final_response_done) THEN "hung_up" ELSE "recv"
    /\ TUnchanged

\* A "media" message, up to the await of append_input_audio
TMedia == "media" \in Inputs /\ TAwait("recv", {"append"})

TAppend == TAwait("append", IF openai = "open" THEN {"recv"} ELSE {"finished"})

\* A "stop" message
TStop == "stop" \in Inputs /\ TAwait("recv", {"stop_event"})

TStopEvent == TAwait("stop_event", Storing("finished", "escaped"))

\* WebSocketDisconnect
TDisconnect == twilio = "lost" /\ TAwait("recv", {"finished"})

\* Variant: T is left to itself when O ends
TNeverCancelled == FALSE

\* The task group cancels T once O has ended by an exception
TCancel ==
    /\ run_pc = "relay"
    /\ o_pc \in Stopped /\ t_pc \notin Stopped
    /\ t_pc' = "cancelled"
    /\ TUnchanged /\ UNCHANGED audioVars

T == TMark \/ TMedia \/ TAppend \/ TStop \/ TStopEvent \/ TDisconnect \/ TCancel
-----------------------------------------------------------------------------
(* O: _openai_to_twilio *)

OAt(pc) == run_pc = "relay" /\ o_pc = pc

OUnchanged == UNCHANGED <<runVars, t_pc, linkVars>>

\* O goes on to a next await, or ends, and changes nothing else
OAwait(pc, next) ==
    /\ OAt(pc)
    /\ o_pc' \in next
    /\ OUnchanged
    /\ UNCHANGED <<audioVars, serverVars, finishVars, transcriptVars,
                   handlerVars>>

\* The next event is taken off the socket
Receive(type) ==
    /\ OAt("recv")
    /\ events # <<>>
    /\ Head(events).type = type
    /\ events' = Tail(events)
    /\ UNCHANGED <<generationVars, requests, turn, speeches, tool_turns,
                   conversation, untranscribed>>

\* The event only makes O go on to a next await
OForward(type, pc) ==
    /\ Receive(type)
    /\ o_pc' = pc
    /\ OUnchanged
    /\ UNCHANGED <<audioVars, finishVars, transcriptVars, handlerVars>>

\* _sequence_for_item
SequenceForItem(item) ==
    IF item_sequences[item] = 0
      THEN /\ item_sequences' = [item_sequences EXCEPT ![item] = next_sequence]
           /\ next_sequence' = next_sequence + 1
      ELSE UNCHANGED <<item_sequences, next_sequence>>

\* response.output_audio.delta, up to the await that sends the media; the
\* audio of a suppressed response is dropped
ODelta ==
    /\ Receive("delta")
    /\ LET delta == Head(events)
       IN  /\ SequenceForItem(delta.item)
           /\ IF Suppressed(delta.response)
                THEN /\ UNCHANGED audioVars
                     /\ UNCHANGED o_pc
                ELSE /\ AddAudio(delta.response, delta.item, delta.bytes)
                     /\ RegisterChunk(delta.response, delta.item, delta.bytes,
                                      generated_bytes')
                     /\ o_pc' = "send_media"
    /\ OUnchanged
    /\ UNCHANGED <<row, transcripts, finishVars, handlerVars>>

OSendMedia ==
    OAwait("send_media",
           IF twilio = "open" THEN {"send_mark"} ELSE {"escaped"})

OSendMark ==
    /\ OAt("send_mark")
    /\ IF twilio = "open"
         THEN SendMark /\ o_pc' = "recv"
         ELSE UNCHANGED mediaVars /\ o_pc' = "escaped"
    /\ OUnchanged
    /\ UNCHANGED <<playbackVars, serverVars, finishVars, transcriptVars,
                   handlerVars>>

\* input_audio_buffer.speech_started, up to the event it records
OSpeechStarted ==
    /\ Receive("speech_started")
    /\ o_pc' = "speech_event"
    /\ talked_over' = talked_over \cup
                      {[response |-> r, at |-> mark_sequence] :
                           r \in {Head(events).cancels} \ {0}}
    /\ OUnchanged
    /\ UNCHANGED <<audioVars, finishVars, transcriptVars, calls, point,
                   truncations>>

\* _interrupt_assistant, up to the event it records
OInterrupt ==
    /\ OAt("speech_event")
    /\ IF isActive
         THEN /\ Interrupt
              /\ point' = InterruptionPoint
              /\ o_pc' = "interrupt_event"
         ELSE /\ UNCHANGED <<playbackVars, point>>
              /\ o_pc' = "recv"
    /\ OUnchanged
    /\ UNCHANGED <<mediaVars, serverVars, finishVars, transcriptVars, calls,
                   truncations, talked_over>>

\* Recording REMOTE_SPEECH_STARTED raises
OSpeechEventFails == DatabaseMayFail /\ OAwait("speech_event", {"escaped"})

OInterruptEvent == OAwait("interrupt_event", Storing("truncate", "escaped"))

\* Variant: a truncation that fails leaves without the clear
OTruncateUnguarded ==
    /\ OAt("truncate")
    /\ IF openai = "open"
         THEN /\ truncations' = truncations \cup {point}
              /\ o_pc' = "clear"
         ELSE /\ UNCHANGED truncations
              /\ o_pc' = "escaped"
    /\ OUnchanged
    /\ UNCHANGED <<audioVars, serverVars, finishVars, transcriptVars, calls,
                   point, talked_over>>

\* truncate_conversation_item; its finally clause sends the clear whatever
\* happens, and a failure is raised again behind it
OTruncate ==
    /\ OAt("truncate")
    /\ IF openai = "open"
         THEN /\ truncations' = truncations \cup {point}
              /\ o_pc' = "clear"
         ELSE /\ UNCHANGED truncations
              /\ o_pc' = "clear_failed"
    /\ OUnchanged
    /\ UNCHANGED <<audioVars, serverVars, finishVars, transcriptVars, calls,
                   point, talked_over>>

OClear ==
    /\ \E pc \in OClearing : OAt(pc)
    /\ IF twilio = "open"
         THEN /\ SendClear
              /\ o_pc' = CASE o_pc = "clear" -> "recv"
                           [] o_pc = "clear_failed" -> "escaped"
                           [] o_pc = "clear_cancelled" -> "cancelled"
         ELSE UNCHANGED mediaVars /\ o_pc' = "escaped"
    /\ point' = NoPoint
    /\ OUnchanged
    /\ UNCHANGED <<playbackVars, serverVars, finishVars, transcriptVars, calls,
                   truncations, talked_over>>

\* Variant: a committed turn gets its number only with its transcript
OCommittedUnnumbered ==
    /\ Receive("committed")
    /\ OUnchanged
    /\ UNCHANGED <<audioVars, o_pc, finishVars, transcriptVars, handlerVars>>

\* input_audio_buffer.committed
OCommitted ==
    /\ Receive("committed")
    /\ SequenceForItem(Head(events).item)
    /\ OUnchanged
    /\ UNCHANGED <<audioVars, o_pc, finishVars, row, transcripts, handlerVars>>

\* _persist_transcript, for either speaker, up to the await that stores the row
OTranscript ==
    /\ Receive("transcript")
    /\ SequenceForItem(Head(events).item)
    /\ row' = Head(events).item
    /\ o_pc' = "store_transcript"
    /\ OUnchanged
    /\ UNCHANGED <<audioVars, finishVars, transcripts, handlerVars>>

OStoreTranscript ==
    /\ OAt("store_transcript")
    /\ o_pc' \in Storing("recv", "escaped")
    /\ row' = NoId
    /\ transcripts' = IF o_pc' = "recv"
                        THEN transcripts \cup
                             {[item |-> row, sequence |-> item_sequences[row]]}
                        ELSE transcripts
    /\ OUnchanged
    /\ UNCHANGED <<audioVars, serverVars, finishVars, item_sequences,
                   next_sequence, handlerVars>>

\* response.output_audio.done
OAudioDone ==
    /\ Receive("audio_done")
    /\ OutputDone(Head(events).response)
    /\ final_response_done' = (finishing \/ final_response_done)
    /\ UNCHANGED <<finishing, finish_requested>>
    /\ o_pc' = IF FinishReady(final_response_done') THEN "hung_up" ELSE "recv"
    /\ OUnchanged
    /\ UNCHANGED <<mediaVars, transcriptVars, handlerVars>>

\* response.cancelled, or response.done with status "cancelled"
OCancelled ==
    /\ Receive("cancelled")
    /\ CancelResponse(Head(events).response)
    /\ OUnchanged
    /\ UNCHANGED <<mediaVars, o_pc, finishVars, transcriptVars, handlerVars>>

\* response.done otherwise: tool calls, or the completion event
ODone ==
    /\ Receive("done")
    /\ calls' = Head(events).calls
    /\ o_pc' = IF calls' # <<>> THEN "tool_event" ELSE "completed_event"
    /\ OUnchanged
    /\ UNCHANGED <<audioVars, finishVars, transcriptVars, point, truncations,
                   talked_over>>

OCompletedEvent ==
    /\ OAt("completed_event")
    /\ \/ /\ final_response_done' = (finishing \/ final_response_done)
          /\ UNCHANGED <<finishing, finish_requested, playbackVars>>
          /\ o_pc' = IF FinishReady(final_response_done') THEN "hung_up" ELSE "recv"
       \/ /\ DatabaseMayFail
          /\ UNCHANGED <<finishVars, playbackVars>>
          /\ o_pc' = "escaped"
    /\ OUnchanged
    /\ UNCHANGED <<mediaVars, serverVars, transcriptVars, handlerVars>>

\* response.created
OCreated == OForward("created", "event")

OEvent == OAwait("event", Storing("recv", "escaped"))

\* _handle_tool_calls, from the TOOL_CALLED event of a call to its dispatch
OToolEvent ==
    /\ OAt("tool_event")
    /\ o_pc' \in Storing(IF Head(calls) = "start_recording_after_consent"
                           THEN "start_recording"
                           ELSE "persist_tool",
                         "escaped")
    /\ finish_requested' =
          IF o_pc' # "escaped" /\ Head(calls) = "finish_call"
            THEN TRUE
            ELSE finish_requested
    /\ OUnchanged
    /\ UNCHANGED <<audioVars, serverVars, finishing, final_response_done,
                   transcriptVars, handlerVars>>

\* recording.start and _persist_tool_result
OToolAwait ==
    \/ OAwait("start_recording", Storing("persist_tool", "escaped"))
    \/ OAwait("persist_tool", Storing("submit_tool", "escaped"))

\* submit_tool_output, and what follows the last call
OSubmitTool ==
    /\ OAt("submit_tool")
    /\ calls' = Tail(calls)
    /\ IF openai # "open"
         THEN o_pc' = "escaped" /\ UNCHANGED finishVars
         ELSE IF calls' # <<>>
         THEN o_pc' = "tool_event" /\ UNCHANGED finishVars
         ELSE /\ o_pc' = "request_response"
              /\ finishing' = (finishing \/ finish_requested)
              /\ final_response_done' =
                    (final_response_done /\ ~finish_requested)
              /\ UNCHANGED finish_requested
    /\ OUnchanged
    /\ UNCHANGED <<audioVars, serverVars, transcriptVars, point, truncations,
                   talked_over>>

ORequestResponse ==
    /\ OAt("request_response")
    /\ IF openai = "open"
         THEN RequestResponse(finish_requested) /\ o_pc' = "recv"
         ELSE UNCHANGED serverVars /\ o_pc' = "escaped"
    /\ OUnchanged
    /\ UNCHANGED <<audioVars, finishVars, transcriptVars, handlerVars>>

\* RealtimeAPIError
OError == OForward("error", "finished")

\* RealtimeDisconnected, after the events received before it
ODisconnect ==
    /\ events = <<>>
    /\ openai = "lost"
    /\ OAwait("recv", {"finished"})

\* The task group cancels O once T has ended by an exception; the truncation
\* still runs its finally clause
OCancel ==
    /\ run_pc = "relay"
    /\ t_pc \in Stopped /\ o_pc \notin Stopped
    /\ o_pc # "clear_cancelled"
    /\ o_pc' = IF o_pc = "truncate" THEN "clear_cancelled" ELSE "cancelled"
    /\ OUnchanged
    /\ UNCHANGED <<audioVars, serverVars, finishVars, transcriptVars,
                   handlerVars>>

O == \/ ODelta \/ OSendMedia \/ OSendMark
     \/ OSpeechStarted \/ OInterrupt \/ OSpeechEventFails \/ OInterruptEvent
     \/ OTruncate \/ OClear
     \/ OCommitted \/ OTranscript \/ OStoreTranscript
     \/ OAudioDone \/ OCancelled \/ ODone \/ OCompletedEvent
     \/ OCreated \/ OEvent
     \/ OToolEvent \/ OToolAwait \/ OSubmitTool \/ ORequestResponse
     \/ OError \/ ODisconnect \/ OCancel
-----------------------------------------------------------------------------
(* The two ends *)

BridgeUnchanged == UNCHANGED <<playbackVars, runVars, t_pc, o_pc, finishVars,
                               transcriptVars, handlerVars>>

OpenAI ==
    /\ openai = "open"
    /\ ServerStep
    /\ UNCHANGED <<mediaVars, linkVars>>
    /\ BridgeUnchanged

Twilio ==
    /\ twilio = "open"
    /\ PlayChunk \/ ProcessClear
    /\ UNCHANGED <<serverVars, linkVars>>
    /\ BridgeUnchanged

LoseOpenAI ==
    /\ "openai_loss" \in Inputs
    /\ openai = "open"
    /\ openai' = "lost"
    /\ UNCHANGED <<mediaVars, serverVars, twilio>>
    /\ BridgeUnchanged

LoseTwilio ==
    /\ "twilio_loss" \in Inputs
    /\ twilio = "open"
    /\ twilio' = "lost"
    /\ UNCHANGED <<mediaVars, serverVars, openai>>
    /\ BridgeUnchanged

Next == Run \/ T \/ O \/ OpenAI \/ Twilio \/ LoseOpenAI \/ LoseTwilio

Spec == Init /\ [][Next]_vars
-----------------------------------------------------------------------------
(* Fairness.  The event loop runs every task that can continue.  Twilio's   *)
(* messages arrive in order, so media messages never starve a mark or the   *)
(* disconnect behind them: strong fairness, because T leaves "recv" between *)
(* two media messages.  Twilio plays what it was sent; OpenAI answers what  *)
(* it was asked, ends the responses it began and commits a turn that began. *)
(* Nobody is obliged to speak, to send media or audio, to stop or to fail.  *)

ServerProgress ==
    /\ openai = "open"
    /\ \/ CreateRequested \/ CreateForTurn \/ RejectRequest
       \/ AudioDone \/ Done(<<>>) \/ Cancelled \/ Committed
    /\ UNCHANGED <<mediaVars, linkVars>>
    /\ BridgeUnchanged

\* What the process owes its own coroutines, whatever the two ends do
EventLoop ==
    /\ WF_vars(Run) /\ WF_vars(O)
    /\ WF_vars(TAppend) /\ WF_vars(TStopEvent) /\ WF_vars(TCancel)
    /\ SF_vars(TDisconnect)

Fairness ==
    /\ EventLoop
    /\ SF_vars(TMark)
    /\ WF_vars(Twilio)
    /\ WF_vars(ServerProgress)

LoopSpec == Spec /\ EventLoop
FairSpec == Spec /\ Fairness
-----------------------------------------------------------------------------
(* Properties *)

\* What OpenAI is told the caller heard of an item when an answer is cut off
\* (the truncation of _interrupt_assistant) is never more than Twilio played.
TruncationHeard ==
    \A t \in truncations \cup ({point} \ {NoPoint}) :
        BytesPerMs * t.audio_end_ms <= heard[t.item]

\* Once the tracker has interrupted or cancelled a response, none of its late
\* deltas reaches Twilio, however the next responses interleave with them.
InterruptedStaysSilent ==
    \A s \in silenced : \A k \in DOMAIN chunks :
        k > s.at => chunks[k].response # s.response

\* However a truncation ends, sent, failed or cancelled: when O is done with it,
\* Twilio has dropped or is about to drop all the audio that the interruption
\* cut off.  It is not told when its side is lost, or when T ended the
\* conversation while the clear itself was being sent (_interrupt_assistant).
Truncating == o_pc \in {"truncate"} \cup OClearing
Cleared == playhead >= cut \/ \E c \in clears : c >= cut

InterruptionCleared ==
    [][Truncating /\ ~Truncating' =>
           \/ Cleared'
           \/ twilio = "lost"
           \/ t_pc \in Stopped /\ o_pc \in {"clear", "clear_failed"}]_vars

HungUp == t_pc = "hung_up" \/ o_pc = "hung_up"

\* _finish_if_ready ends the call only when every chunk ever handed to the
\* tracker was acknowledged by Twilio or cut off by an interruption.
HangUpAfterPlayback ==
    [][HungUp' /\ ~HungUp => mark_sequence' = Larger(acked', cut')]_vars

\* Transcript rows are numbered in the order their items entered the
\* conversation, whenever their texts arrive and whoever spoke.
TranscriptOrder ==
    \A a, b \in transcripts : \A m, n \in DOMAIN conversation :
        conversation[m] = a.item /\ conversation[n] = b.item /\ m < n
            => a.sequence < b.sequence

\* A call the agent decided to finish ends, also when the goodbye is
\* interrupted, cancelled or followed by another answer.
FinishEnds == finishing ~> (run_pc = "ended")

\* When either side disconnects, both relay tasks and run() end.
DisconnectEnds ==
    (run_pc = "relay" /\ "lost" \in {openai, twilio}) ~> (run_pc = "ended")

\* The bridge keeps the promise of a conversation: no ended answer is taken up
\* again, nothing is told that was not heard, no hang-up before all was heard.
Talk == INSTANCE Conversation
          WITH Answers <- Responses, Stretches <- AgentItems, Unit <- BytesPerMs,
               said <- mark_sequence, settled <- Larger(acked, cut),
               muted <- suppressed_response_ids, told <- truncations,
               over <- HungUp

ConversationKept == Talk!Spec

\* The call hangs up only after the goodbye finish_call asked for was begun.
GoodbyeBeforeHangUp == HungUp => goodbye # 0

\* Once the bridge has processed the caller's speech, no delta of the response
\* that speech interrupted is played to the caller.
NoStaleAudio ==
    \A s \in talked_over : \A k \in DOMAIN chunks :
        k > s.at => chunks[k].response # s.response
=============================================================================
