---------------------------- MODULE TwilioMedia -----------------------------
(***************************************************************************)
(* The far end of the media WebSocket, as the bridge uses it: Twilio plays *)
(* the chunks it is sent in order, answers the mark behind each with an    *)
(* acknowledgement once it was played, and on "clear" drops what it has    *)
(* not played and answers the marks of what it dropped.  External code.    *)
(*                                                                         *)
(* The k-th chunk and the k-th mark travel together, so the messages on    *)
(* their way are intervals of one count:                                   *)
(*     acked <= playhead <= sent <= Len(chunks)                            *)
(* chunks playhead+1..sent are buffered, acknowledgements acked+1..        *)
(* playhead are on their way back.                                         *)
(***************************************************************************)
EXTENDS AudioIds

VARIABLES
    chunks,     \* every chunk registered: response, item, bytes, total of item
    sent,       \* chunks whose media and mark the bridge has sent
    playhead,   \* chunks Twilio has played or dropped
    acked,      \* acknowledgements the bridge has received
    clears,     \* "clear" messages on their way: the value of sent at each
    heard       \* bytes of each item the remote party has heard

mediaVars == <<chunks, sent, playhead, acked, clears, heard>>

Chunk == [response : Responses, item : AgentItems, bytes : DeltaBytes,
          total : Nat]

MediaTypeOK ==
    /\ chunks \in Seq(Chunk)
    /\ sent \in Nat
    /\ playhead \in Nat
    /\ acked \in Nat
    /\ clears \subseteq Nat
    /\ heard \in [AgentItems -> Nat]

MediaInit ==
    /\ chunks = <<>>
    /\ sent = 0
    /\ playhead = 0
    /\ acked = 0
    /\ clears = {}
    /\ heard = [i \in AgentItems |-> 0]

\* The next chunk is played; a clear that reached Twilio first has dropped it
PlayChunk ==
    /\ playhead < sent
    /\ \A c \in clears : playhead < c
    /\ playhead' = playhead + 1
    /\ LET chunk == chunks[playhead + 1]
       IN  heard' = [heard EXCEPT ![chunk.item] = @ + chunk.bytes]
    /\ UNCHANGED <<chunks, sent, acked, clears>>

\* The oldest clear reaches Twilio
ProcessClear ==
    \E c \in clears :
        /\ \A d \in clears : c <= d
        /\ clears' = clears \ {c}
        /\ playhead' = c
        /\ UNCHANGED <<chunks, sent, acked, heard>>

RegisterChunk(r, i, bytes, total) ==
    /\ chunks' = Append(chunks, [response |-> r, item |-> i, bytes |-> bytes,
                                 total |-> total])
    /\ UNCHANGED <<sent, playhead, acked, clears, heard>>

SendMark ==
    /\ sent' = sent + 1
    /\ UNCHANGED <<chunks, playhead, acked, clears, heard>>

SendClear ==
    /\ clears' = clears \cup {sent}
    /\ UNCHANGED <<chunks, sent, playhead, acked, heard>>

\* The next acknowledgement arrives at the bridge
ReceiveMark ==
    /\ acked < playhead
    /\ acked' = acked + 1
    /\ UNCHANGED <<chunks, sent, playhead, clears, heard>>
=============================================================================
