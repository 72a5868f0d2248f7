-------------------------- MODULE RealtimeServer ---------------------------
(***************************************************************************)
(* The OpenAI Realtime session as openai_realtime.py configures it and     *)
(* realtime_bridge.py consumes it: one response at a time, audio deltas,   *)
(* tool calls in response.done, server-side turn detection that interrupts *)
(* a response when speech starts and creates one when the turn is          *)
(* committed.  External code.                                              *)
(***************************************************************************)
EXTENDS AudioIds

CONSTANTS
    MaxEvents,      \* bound: events buffered on the socket
    MaxDeltas,      \* bound: deltas of one response
    MaxToolTurns,   \* bound: responses that end in tool calls
    ToolBatches,    \* the sequences of tool calls a response may end with
    Inputs          \* which optional behaviours of the environment occur

ASSUME RealtimeServerAssumption ==
    /\ MaxEvents \in Nat /\ MaxDeltas \in Nat /\ MaxToolTurns \in Nat
    /\ MaxResponses >= 1 + MaxSpeech + MaxToolTurns  \* never out of responses
    /\ ToolBatches \subseteq Seq(STRING) \ {<<>>}

VARIABLES
    events,         \* server events on their way to the bridge
    active,         \* response being generated, 0 if none
    interrupted,    \* speech started while it was: it will end as cancelled
    stretch,        \* its audio items so far
    stretch_open,   \* the last of them may get more deltas
    deltas,         \* its deltas so far
    responses,      \* responses created so far
    requests,       \* response.create messages not answered: is it the goodbye?
    goodbye,        \* the response created for the finishing request, 0 if none
    turn,           \* the remote party's turn: "none", "talking", "committed"
    speeches,       \* turns the remote party has taken
    tool_turns,     \* responses that ended in tool calls
    conversation,   \* items in the order they entered the conversation
    untranscribed   \* items whose transcript was not sent yet

generationVars == <<active, interrupted, stretch, stretch_open, deltas,
                    responses, goodbye>>
serverVars == <<events, generationVars, requests, turn, speeches, tool_turns,
                conversation, untranscribed>>

Event ==
    [type : {"created", "audio_done", "cancelled"}, response : Responses]
      \cup [type : {"delta"}, response : Responses, item : AgentItems,
            bytes : DeltaBytes]
      \cup [type : {"speech_started"}, cancels : Responses \cup {0}]
      \cup [type : {"committed", "transcript"}, item : Items]
      \cup [type : {"done"}, calls : ToolBatches \cup {<<>>}]
      \cup [type : {"error"}]

ServerTypeOK ==
    /\ events \in Seq(Event)
    /\ active \in Responses \cup {0}
    /\ interrupted \in BOOLEAN
    /\ stretch \in 0..MaxItems
    /\ stretch_open \in BOOLEAN
    /\ stretch_open => stretch # 0
    /\ deltas \in Nat
    /\ responses \in 0..MaxResponses
    /\ requests \in Seq(BOOLEAN)
    /\ goodbye \in Responses \cup {0}
    /\ turn \in {"none", "talking", "committed"}
    /\ speeches \in 0..MaxSpeech
    /\ turn = "talking" => speeches # 0
    /\ tool_turns \in Nat
    /\ conversation \in Seq(Items)
    /\ untranscribed \subseteq Items

ServerInit ==
    /\ events = <<>>
    /\ active = 0
    /\ interrupted = FALSE
    /\ stretch = 0
    /\ stretch_open = FALSE
    /\ deltas = 0
    /\ responses = 0
    /\ requests = <<>>
    /\ goodbye = 0
    /\ turn = "none"
    /\ speeches = 0
    /\ tool_turns = 0
    /\ conversation = <<>>
    /\ untranscribed = {}

Emit(event) ==
    /\ Len(events) < MaxEvents
    /\ events' = Append(events, event)

\* A response starts; it is the goodbye when the bridge asked for that one
StartResponse(isGoodbye) ==
    /\ active = 0
    /\ responses < MaxResponses
    /\ Emit([type |-> "created", response |-> responses + 1])
    /\ responses' = responses + 1
    /\ active' = responses + 1
    /\ interrupted' = FALSE
    /\ stretch' = 0
    /\ stretch_open' = FALSE
    /\ deltas' = 0
    /\ goodbye' = IF isGoodbye THEN responses + 1 ELSE goodbye
    /\ UNCHANGED <<speeches, tool_turns, conversation, untranscribed>>

CreateRequested ==
    /\ requests # <<>>
    /\ StartResponse(Head(requests))
    /\ requests' = Tail(requests)
    /\ UNCHANGED turn

CreateForTurn ==
    /\ turn = "committed"
    /\ StartResponse(FALSE)
    /\ turn' = "none"
    /\ UNCHANGED requests

\* A request while a response is active is answered with an error event
RejectRequest ==
    /\ requests # <<>>
    /\ active # 0
    /\ Emit([type |-> "error"])
    /\ requests' = Tail(requests)
    /\ UNCHANGED <<generationVars, turn, speeches, tool_turns, conversation,
                   untranscribed>>

\* Items enter the conversation when they are first heard of
Enter(item) ==
    /\ conversation' = Append(conversation, item)
    /\ untranscribed' = IF "transcripts" \in Inputs
                          THEN untranscribed \cup {item}
                          ELSE untranscribed

\* Audio of the active response, interrupted or not: late deltas are possible
Delta(bytes) ==
    /\ active # 0
    /\ deltas < MaxDeltas
    /\ stretch_open \/ stretch < MaxItems
    /\ LET item == <<active, IF stretch_open THEN stretch ELSE stretch + 1>>
       IN  /\ Emit([type |-> "delta", response |-> active, item |-> item,
                    bytes |-> bytes])
           /\ stretch' = item[2]
           /\ IF stretch_open
                THEN UNCHANGED <<conversation, untranscribed>>
                ELSE Enter(item)
    /\ stretch_open' = TRUE
    /\ deltas' = deltas + 1
    /\ UNCHANGED <<active, interrupted, responses, goodbye, requests, turn,
                   speeches, tool_turns>>

AudioDone ==
    /\ active # 0
    /\ stretch_open
    /\ Emit([type |-> "audio_done", response |-> active])
    /\ stretch_open' = FALSE
    /\ UNCHANGED <<active, interrupted, stretch, deltas, responses, goodbye,
                   requests, turn, speeches, tool_turns, conversation,
                   untranscribed>>

EndResponse(event) ==
    /\ Emit(event)
    /\ active' = 0
    /\ UNCHANGED <<interrupted, stretch, stretch_open, deltas, responses,
                   goodbye, requests, turn, speeches, conversation,
                   untranscribed>>

\* response.done; the goodbye is generated with tool_choice "none"
Done(calls) ==
    /\ active # 0
    /\ ~interrupted
    /\ ~stretch_open
    /\ IF calls = <<>>
         THEN UNCHANGED tool_turns
         ELSE /\ active # goodbye
              /\ tool_turns < MaxToolTurns
              /\ tool_turns' = tool_turns + 1
    /\ EndResponse([type |-> "done", calls |-> calls])

\* response.cancelled, or response.done with status "cancelled"
Cancelled ==
    /\ active # 0
    /\ interrupted
    /\ EndResponse([type |-> "cancelled", response |-> active])
    /\ UNCHANGED tool_turns

SpeechStarted ==
    /\ turn = "none"
    /\ speeches < MaxSpeech
    /\ Emit([type |-> "speech_started", cancels |-> active])
    /\ speeches' = speeches + 1
    /\ turn' = "talking"
    /\ interrupted' = (active # 0)
    /\ UNCHANGED <<active, stretch, stretch_open, deltas, responses, goodbye,
                   requests, tool_turns, conversation, untranscribed>>

Committed ==
    /\ turn = "talking"
    /\ Emit([type |-> "committed", item |-> <<0, speeches>>])
    /\ turn' = "committed"
    /\ Enter(<<0, speeches>>)
    /\ UNCHANGED <<generationVars, requests, speeches, tool_turns>>

Transcribed(item) ==
    /\ item \in untranscribed
    /\ Emit([type |-> "transcript", item |-> item])
    /\ untranscribed' = untranscribed \ {item}
    /\ UNCHANGED <<generationVars, requests, turn, speeches, tool_turns,
                   conversation>>

APIError ==
    /\ "api_error" \in Inputs
    /\ Emit([type |-> "error"])
    /\ UNCHANGED <<generationVars, requests, turn, speeches, tool_turns,
                   conversation, untranscribed>>

\* A message of the bridge: response.create
RequestResponse(isGoodbye) ==
    /\ requests' = Append(requests, isGoodbye)
    /\ UNCHANGED <<events, generationVars, turn, speeches, tool_turns,
                   conversation, untranscribed>>

ServerStep ==
    \/ CreateRequested
    \/ CreateForTurn
    \/ RejectRequest
    \/ \E bytes \in DeltaBytes : Delta(bytes)
    \/ AudioDone
    \/ \E calls \in ToolBatches \cup {<<>>} : Done(calls)
    \/ Cancelled
    \/ SpeechStarted
    \/ Committed
    \/ \E item \in untranscribed : Transcribed(item)
    \/ APIError
=============================================================================
