------------------------------ MODULE Playback ------------------------------
(***************************************************************************)
(* AssistantPlaybackTracker (app/services/playback.py): what the bridge    *)
(* believes of the assistant audio buffered at Twilio.  Every method is    *)
(* synchronous, so each is one action.  The k-th mark the tracker hands    *)
(* out, "assistant-audio-k", is the number k; an item has one content      *)
(* part, so item_id stands for the pair (item_id, content_index).          *)
(***************************************************************************)
EXTENDS AudioIds

VARIABLES
    response_id,            \* response whose audio the tracker follows
    item_id,                \* its item
    generated_bytes,        \* generated_audio_ms * 8: audio of the item so far
    played_audio_ms,        \* furthest boundary of it that was acknowledged
    pending_marks,          \* marks not acknowledged yet
    suppressed_response_ids,
    mark_sequence,
    output_done,
    (* History, read by the properties only. *)
    run_base,               \* mark_sequence when the tracked item was begun
    cut,                    \* mark_sequence at the latest interruption
    silenced                \* responses suppressed, and mark_sequence then

trackerVars == <<response_id, item_id, generated_bytes, played_audio_ms,
                 pending_marks, suppressed_response_ids, mark_sequence,
                 output_done>>
historyVars == <<run_base, cut, silenced>>
playbackVars == <<trackerVars, historyVars>>

Mark == [name : Nat, response : Responses, audio_end_ms : Nat]

PlaybackTypeOK ==
    /\ response_id \in Responses \cup {NoId}
    /\ item_id \in AgentItems \cup {NoId}
    /\ generated_bytes \in Nat
    /\ played_audio_ms \in Nat
    /\ pending_marks \subseteq Mark
    /\ suppressed_response_ids \subseteq Responses
    /\ mark_sequence \in Nat
    /\ output_done \in BOOLEAN
    /\ run_base \in Nat
    /\ cut \in Nat
    /\ silenced \subseteq [response : Responses, at : Nat]

PlaybackInit ==
    /\ response_id = NoId
    /\ item_id = NoId
    /\ generated_bytes = 0
    /\ played_audio_ms = 0
    /\ pending_marks = {}
    /\ suppressed_response_ids = {}
    /\ mark_sequence = 0
    /\ output_done = FALSE
    /\ run_base = 0
    /\ cut = 0
    /\ silenced = {}

\* Variant: interrupt() without its early return when nothing is tracked
AlwaysActive == TRUE

isActive == response_id # NoId

isPlaying == pending_marks # {}

\* _reset_active
ResetActive ==
    /\ response_id' = NoId
    /\ item_id' = NoId
    /\ generated_bytes' = 0
    /\ played_audio_ms' = 0
    /\ pending_marks' = {}
    /\ output_done' = FALSE

\* Variant: _begin_response keeps the marks of the previous item
BeginKeepingMarks(r, i, bytes) ==
    /\ response_id' = r
    /\ item_id' = i
    /\ generated_bytes' = bytes
    /\ played_audio_ms' = 0
    /\ pending_marks' = pending_marks \cup
                        {[name |-> mark_sequence + 1, response |-> r,
                          audio_end_ms |-> Ms(bytes)]}
    /\ output_done' = FALSE
    /\ run_base' = mark_sequence

\* _begin_response, followed by the first chunk of the item
BeginResponse(r, i, bytes) ==
    /\ response_id' = r
    /\ item_id' = i
    /\ generated_bytes' = bytes
    /\ played_audio_ms' = 0
    /\ pending_marks' = {[name |-> mark_sequence + 1, response |-> r,
                          audio_end_ms |-> Ms(bytes)]}
    /\ output_done' = FALSE
    /\ run_base' = mark_sequence

\* A further chunk of the item being tracked
ContinueResponse(bytes) ==
    /\ generated_bytes' = generated_bytes + bytes
    /\ pending_marks' = pending_marks \cup
                        {[name |-> mark_sequence + 1, response |-> response_id,
                          audio_end_ms |-> Ms(generated_bytes + bytes)]}
    /\ UNCHANGED <<response_id, item_id, played_audio_ms, output_done,
                   run_base>>

Tracks(r, i) == response_id = r /\ item_id = i

Suppressed(r) == r \in suppressed_response_ids

\* add_audio for a response that is not suppressed
AddAudio(r, i, bytes) ==
    /\ IF Tracks(r, i)
         THEN ContinueResponse(bytes)
         ELSE BeginResponse(r, i, bytes)
    /\ mark_sequence' = mark_sequence + 1
    /\ UNCHANGED <<suppressed_response_ids, cut, silenced>>

\* acknowledge_mark: a mark no longer pending is stale and changes nothing
AcknowledgeMark(k) ==
    LET rest == {m \in pending_marks : m.name # k}
        acknowledged == {m \in pending_marks : m.name = k}
        furthest(m) == IF m.response = response_id
                         THEN Larger(played_audio_ms, m.audio_end_ms)
                         ELSE played_audio_ms
    IN  IF acknowledged = {}
          THEN UNCHANGED playbackVars
          ELSE /\ IF output_done /\ rest = {}
                    THEN ResetActive
                    ELSE /\ pending_marks' = rest
                         /\ \E m \in acknowledged : played_audio_ms' = furthest(m)
                         /\ UNCHANGED <<response_id, item_id, generated_bytes,
                                        output_done>>
               /\ UNCHANGED <<suppressed_response_ids, mark_sequence>>
               /\ UNCHANGED historyVars

\* Variant: output_done forgets the response while its audio still plays
OutputDoneForgets(r) ==
    IF r # response_id
      THEN UNCHANGED playbackVars
      ELSE /\ ResetActive
           /\ UNCHANGED <<suppressed_response_ids, mark_sequence>>
           /\ UNCHANGED historyVars

\* output_done
OutputDone(r) ==
    IF r # response_id
      THEN UNCHANGED playbackVars
      ELSE /\ IF isPlaying
                THEN /\ output_done' = TRUE
                     /\ UNCHANGED <<response_id, item_id, generated_bytes,
                                    played_audio_ms, pending_marks>>
                ELSE ResetActive
           /\ UNCHANGED <<suppressed_response_ids, mark_sequence>>
           /\ UNCHANGED historyVars

\* cancel_response
CancelResponse(r) ==
    /\ suppressed_response_ids' = suppressed_response_ids \cup {r}
    /\ silenced' = silenced \cup {[response |-> r, at |-> mark_sequence]}
    /\ UNCHANGED <<response_id, item_id, generated_bytes, played_audio_ms,
                   pending_marks, mark_sequence, output_done, run_base, cut>>

\* Variant: the point assumes that everything generated was heard
PointGenerated == [item |-> item_id, audio_end_ms |-> Ms(generated_bytes)]

\* The point interrupt() returns; it is None unless a response is tracked
InterruptionPoint == [item |-> item_id, audio_end_ms |-> played_audio_ms]

\* Variant: interrupt() does not suppress the response
InterruptUnsuppressed ==
    /\ UNCHANGED suppressed_response_ids
    /\ silenced' = silenced \cup
                   {[response |-> response_id, at |-> mark_sequence]}
    /\ cut' = mark_sequence
    /\ ResetActive
    /\ UNCHANGED <<mark_sequence, run_base>>

\* interrupt, when a response is tracked
Interrupt ==
    /\ suppressed_response_ids' = suppressed_response_ids \cup {response_id}
    /\ silenced' = silenced \cup
                   {[response |-> response_id, at |-> mark_sequence]}
    /\ cut' = mark_sequence
    /\ ResetActive
    /\ UNCHANGED <<mark_sequence, run_base>>
=============================================================================
