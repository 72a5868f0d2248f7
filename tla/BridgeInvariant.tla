-------------------------- MODULE BridgeInvariant ---------------------------
(***************************************************************************)
(* The inductive invariant behind the safety properties of RealtimeBridge: *)
(* how the tracker's fields relate to the chunks on their way to Twilio.   *)
(* The chunks of the item the tracker follows are a run at the end of the  *)
(* sequence, run_base+1..mark_sequence.  And how the numbers of transcript *)
(* rows relate to the conversation and to the events on their way: items   *)
(* are numbered in the order in which they are first heard of, which is    *)
(* the order they entered the conversation in.                             *)
(***************************************************************************)
EXTENDS RealtimeBridge

Tracked == (run_base + 1)..mark_sequence

\* The counters of the two channels are ordered; the O task is at most one
\* mark behind the tracker, and only while it sends that chunk
Counters ==
    /\ Len(chunks) = mark_sequence
    /\ acked <= playhead /\ playhead <= sent /\ sent <= mark_sequence
    /\ run_base <= mark_sequence /\ cut <= mark_sequence
    /\ o_pc \in OSending => sent + 1 = mark_sequence
    /\ o_pc \notin OSending \cup Stopped => sent = mark_sequence

\* An interruption being carried out has left the tracker idle
Idle ==
    /\ ~isActive => item_id = NoId /\ pending_marks = {}
    /\ isActive => item_id # NoId /\ run_base < mark_sequence
    /\ o_pc \in OInterrupting => ~isActive

\* The tracked chunks belong to the tracked item, their totals add up
TrackedChunks ==
    isActive =>
        /\ \A k \in Tracked : /\ chunks[k].response = response_id
                              /\ chunks[k].item = item_id
        /\ \A k \in Tracked :
              chunks[k].total = IF k = run_base + 1
                                  THEN chunks[k].bytes
                                  ELSE chunks[k - 1].total + chunks[k].bytes
        /\ \A j, k \in Tracked : j <= k => chunks[j].total <= chunks[k].total
        /\ generated_bytes = chunks[mark_sequence].total

\* The pending marks are those of the tracked chunks not acknowledged yet
PendingMarks ==
    isActive =>
        /\ \A m \in pending_marks :
              /\ m.name \in Tracked /\ m.name > acked
              /\ m.response = response_id
              /\ m.audio_end_ms = Ms(chunks[m.name].total)
        /\ \A k \in Tracked : k > acked => \E m \in pending_marks : m.name = k

\* No clear is on its way that could drop a tracked chunk
Clears ==
    \A c \in clears : /\ playhead <= c /\ c <= sent
                      /\ isActive => c <= run_base

\* What Twilio has played of the tracked item bounds what was acknowledged
HeardTracked ==
    isActive =>
        /\ playhead > run_base => heard[item_id] >= chunks[playhead].total
        /\ BytesPerMs * played_audio_ms <= heard[item_id]

\* When nothing is tracked, every chunk was acknowledged or cut off
Settled == ~isActive => mark_sequence <= Larger(acked, cut)

TruncatedItems ==
    /\ \A t \in truncations : t.item \in AgentItems
    /\ point # NoPoint => point.item \in AgentItems
    /\ o_pc \in {"interrupt_event", "truncate"} => point # NoPoint

SilencedSuppressed ==
    \A s \in silenced : Suppressed(s.response) /\ s.at <= mark_sequence

AudioInv ==
    /\ Counters
    /\ Idle
    /\ TrackedChunks
    /\ PendingMarks
    /\ Clears
    /\ HeardTracked
    /\ Settled
    /\ TruncatedItems
    /\ SilencedSuppressed
    /\ TruncationHeard
    /\ InterruptedStaysSilent

TrackingInv == TypeOK /\ AudioInv
-----------------------------------------------------------------------------
(* The order of the transcripts *)

InConversation(item) == \E n \in DOMAIN conversation : conversation[n] = item
Numbered(item) == item_sequences[item] # 0

\* The k-th event on the socket makes the bridge number the item
Mentions(k, item) ==
    /\ events[k].type \in {"delta", "committed", "transcript"}
    /\ events[k].item = item

\* Every item enters the conversation once: the next one is none of those
EnteredOnce ==
    /\ \A m, n \in DOMAIN conversation :
          conversation[m] = conversation[n] => m = n
    /\ active <= responses
    /\ \A n \in DOMAIN conversation : LET item == conversation[n] IN
          /\ item[1] <= responses
          /\ item[1] = 0 => item[2] <= speeches /\ (turn = "talking" => item[2] < speeches)
          /\ item[1] = active => active = 0 \/ item[2] <= stretch

\* Events, transcripts and an open stretch are about items of the conversation
AboutConversation ==
    /\ active # 0 /\ stretch_open => InConversation(<<active, stretch>>)
    /\ \A item \in Items : Numbered(item) \/ item \in untranscribed => InConversation(item)
    /\ \A k \in DOMAIN events, item \in Items : Mentions(k, item) => InConversation(item)

\* An event that mentions an item finds those before it in the conversation
\* numbered, or comes behind an event that mentions them
MentionedInOrder ==
    /\ \A n \in DOMAIN conversation :
          \/ Numbered(conversation[n])
          \/ \E k \in DOMAIN events : Mentions(k, conversation[n])
    /\ \A k \in DOMAIN events, m, n \in DOMAIN conversation :
          m < n /\ Mentions(k, conversation[n]) =>
              \/ Numbered(conversation[m])
              \/ \E j \in 1..(k - 1) : Mentions(j, conversation[m])

\* The numbered items are the first of the conversation, in its order
NumberedInOrder ==
    /\ \A item \in Items : item_sequences[item] < next_sequence
    /\ \A m, n \in DOMAIN conversation : m < n /\ Numbered(conversation[n]) =>
          /\ Numbered(conversation[m])
          /\ item_sequences[conversation[m]] < item_sequences[conversation[n]]

\* A row has the number of its item
RowsNumbered ==
    /\ o_pc = "store_transcript" => Numbered(row)
    /\ \A t \in transcripts :
          Numbered(t.item) /\ t.sequence = item_sequences[t.item]

OrderInv ==
    /\ EnteredOnce
    /\ AboutConversation
    /\ MentionedInOrder
    /\ NumberedInOrder
    /\ RowsNumbered

IInv == TrackingInv /\ OrderInv
=============================================================================
