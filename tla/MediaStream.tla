----------------------------- MODULE MediaStream -----------------------------
(***************************************************************************)
(* media_stream (app/routers/twilio.py): one WebSocket of Twilio, from its *)
(* accept to its close.  MediaStreamSession applies the messages before    *)
(* and during the conversation; in between the endpoint updates the call,  *)
(* may start a recording and runs the bridge.  Of the conversation this    *)
(* module has what it leaves in the database: the tool calls that          *)
(* ToolDispatcher accepts or rejects, their effects, and transcripts.      *)
(* RealtimeBridge has the audio.                                           *)
(***************************************************************************)
EXTENDS Naturals

CONSTANTS
    Policies,   \* the recording policies a call may be configured with
    Tools,      \* the names the model calls, allowed or not
    MaxTurns,   \* bound: tool calls and transcripts of the conversation
    Losses      \* the failures that occur: "db_failure", "openai_loss"

ASSUME StreamAssumption ==
    /\ Policies \subseteq {"off", "ask", "always"}
    /\ MaxTurns \in Nat

VARIABLES
    phone,      \* Twilio's side: "live", or who ended the call
    policy,     \* runtime.configuration.recording_policy
    started,    \* MediaStreamSession has the identifiers of a start message
    handler,    \* media_stream: the await it is suspended at
    o,          \* the bridge's O task: the same, "off" when it is not running
    tool,       \* the tool call O handles
    turn,       \* tool calls and transcripts so far; each is known by its number
    runtime,    \* CallRuntime, with the grounds on which a recording was asked for
    db          \* the tables of the call

streamVars == <<phone, policy, started, handler, o, tool, turn, runtime, db>>

\* A start may be of an unknown call, announce another format or lack a field.
\* "other" is a message that changes nothing here, refused or not.
Starts == {"start", "foreign_start"}
Messages == Starts \cup {"wrong_format", "bad_start", "connected", "stop", "other"}

HandlerPc == {"receive", "update", "stream_event", "record", "connect",
              "connected_event", "relay", "disconnected_event", "closing",
              "closed"}

\* The awaits of O that write to the database, and the others
Writing == {"called", "completed", "fact", "objective", "effect", "transcript"}
OPc == Writing \cup {"off", "listen", "recording", "submit"}

Consent == "start_recording_after_consent"
Turns == 1..MaxTurns

\* An event is its type and the tool call it is about.  Writing any other event
\* is an await like these, but nothing tells whether it is there.
EventTypes == {"TOOL_COMPLETED", "FACT_CAPTURED", "OBJECTIVE_STATUS_CHANGED",
               "CALL_END_REQUESTED"}

Tables == [completed : BOOLEAN, objective : 0..MaxTurns,
           transcripts : SUBSET Turns, facts : SUBSET Turns,
           events : SUBSET (EventTypes \X Turns)]

StreamTypeOK ==
    /\ phone \in {"live", "stream", "remote", "owner"}
    /\ policy \in Policies
    /\ started \in BOOLEAN
    /\ handler \in HandlerPc
    /\ o \in OPc
    /\ tool \in [name : Tools \cup {"none"}, valid : BOOLEAN]
    /\ turn \in 0..MaxTurns
    /\ runtime \in [facts : SUBSET Turns, objective : 0..MaxTurns,
                    finish_requested : BOOLEAN,
                    recordings : SUBSET {"policy", "consent"}]
    /\ db \in Tables

NoTool == [name |-> "none", valid |-> FALSE]

StreamInit ==
    /\ phone = "live"
    /\ policy \in Policies
    /\ started = FALSE
    /\ handler = "receive"
    /\ o = "off"
    /\ tool = NoTool
    /\ turn = 0
    /\ runtime = [facts |-> {}, objective |-> 0, finish_requested |-> FALSE,
                  recordings |-> {}]
    /\ db = [completed |-> FALSE, objective |-> 0, transcripts |-> {},
             facts |-> {}, events |-> {}]

With(type, n) == [db EXCEPT !.events = @ \cup {<<type, n>>}]

DatabaseMayFail == "db_failure" \in Losses
-----------------------------------------------------------------------------
(* MediaStreamSession.handle_event *)

\* Variant: the identifiers are stored before the rest of a start is checked
ApplyUnchecked(m) ==
    started' = (started \/ m \in Starts \cup {"bad_start", "wrong_format"})

\* A start is checked to the end before the session takes anything from it
Apply(m) == started' = (started \/ m \in Starts)
-----------------------------------------------------------------------------
(* The endpoint up to the bridge *)

HandlerOnly == UNCHANGED <<phone, policy, started, o, tool, turn>>

\* receive_text and what the loop does with the message.  Closing the stream
\* ends the call, as the TwiML of voice() has nothing behind it.
ReceiveMessage(m) ==
    /\ handler = "receive"
    /\ m = "stop" => phone # "live"
    /\ Apply(m)
    /\ handler' = CASE m = "start" -> "update"
                    [] m \in {"foreign_start", "wrong_format", "stop"} -> "closing"
                    [] OTHER -> "receive"
    /\ UNCHANGED <<phone, policy, o, tool, turn, runtime, db>>

\* WebSocketDisconnect
ReceiveDisconnect ==
    /\ handler = "receive"
    /\ phone # "live"
    /\ handler' = "closed"
    /\ HandlerOnly /\ UNCHANGED <<runtime, db>>

\* A write of the endpoint that fails ends it with the exception
Endpoint(await, next, new) ==
    /\ handler = await
    /\ \/ handler' = next /\ db' = new
       \/ DatabaseMayFail /\ handler' = "closing" /\ UNCHANGED db
    /\ HandlerOnly /\ UNCHANGED runtime

\* Status "in-progress", whatever it was
UpdateCall == Endpoint("update", "stream_event", [db EXCEPT !.completed = FALSE])

\* The STREAM_STARTED event
StreamStarted ==
    Endpoint("stream_event", IF policy = "always" THEN "record" ELSE "connect", db)

\* recording.start(consent=False); it raises only when the database fails
RecordAlways ==
    /\ handler = "record"
    /\ \/ handler' = "connect"
       \/ DatabaseMayFail /\ handler' = "closing"
    /\ runtime' = [runtime EXCEPT !.recordings = @ \cup {"policy"}]
    /\ HandlerOnly /\ UNCHANGED db
-----------------------------------------------------------------------------
(* RealtimeAudioBridge.run *)

\* Without an API key, or when OpenAI does not answer, run() goes on to its
\* finally clause
Connect ==
    /\ handler = "connect"
    /\ \/ handler' = "connected_event"
       \/ "openai_loss" \in Losses /\ handler' = "disconnected_event"
    /\ HandlerOnly /\ UNCHANGED <<runtime, db>>

\* OPENAI_CONNECTED, configure() and the start of the two tasks
Connected ==
    /\ handler = "connected_event"
    /\ \/ handler' = "relay" /\ o' = "listen"
       \/ Losses # {} /\ handler' = "disconnected_event" /\ UNCHANGED o
    /\ UNCHANGED <<phone, policy, started, tool, turn, runtime, db>>

\* OPENAI_DISCONNECTED, whether or not it is stored
Disconnected ==
    /\ handler = "disconnected_event"
    /\ handler' = "closing"
    /\ HandlerOnly /\ UNCHANGED <<runtime, db>>

\* The WebSocket is closed, by the endpoint or by the server when it raised
Close ==
    /\ handler = "closing"
    /\ handler' = "closed"
    /\ phone' = IF phone = "live" THEN "stream" ELSE phone
    /\ UNCHANGED <<policy, started, o, tool, turn, runtime, db>>
-----------------------------------------------------------------------------
(* The O task: _handle_tool_calls, ToolDispatcher and _persist_transcript *)

OUnchanged == UNCHANGED <<phone, policy, started>>

\* Variant: the consent tool is registered whatever the policy
AllowedAlways == {"save_fact", "set_objective_status", "finish_call", Consent}

\* The handlers of ToolDispatcher
Allowed ==
    {"save_fact", "set_objective_status", "finish_call"}
      \cup (IF policy = "ask" THEN {Consent} ELSE {})

\* An unknown name or arguments that do not validate are answered with an error
Accepted == tool.name \in Allowed /\ tool.valid

\* The event that follows the effect of a tool
EffectEvent ==
    [save_fact |-> "FACT_CAPTURED",
     set_objective_status |-> "OBJECTIVE_STATUS_CHANGED",
     finish_call |-> "CALL_END_REQUESTED"]

\* What _persist_tool_result writes behind the outcome of a tool
Effect ==
    [save_fact |-> "fact",
     set_objective_status |-> "objective",
     finish_call |-> "effect",
     start_recording_after_consent |-> "submit"]

\* What the write O awaits commits
Written ==
    CASE o = "completed" -> With("TOOL_COMPLETED", turn)
      [] o = "fact" -> [db EXCEPT !.facts = @ \cup {turn}]
      [] o = "objective" -> [db EXCEPT !.objective = turn]
      [] o = "effect" -> With(EffectEvent[tool.name], turn)
      [] o = "transcript" -> [db EXCEPT !.transcripts = @ \cup {turn}]
      [] OTHER -> db

\* Variant: the objective status is not stored, only its event
BehindUnstored ==
    CASE o = "called" -> IF Accepted /\ tool.name = Consent THEN "recording"
                                                            ELSE "completed"
      [] o = "completed" -> IF Accepted /\ tool.name = "save_fact" THEN "fact"
                            ELSE IF Accepted /\ tool.name # Consent THEN "effect"
                            ELSE "submit"
      [] o = "fact" -> "effect"
      [] o = "effect" -> "submit"
      [] o = "transcript" -> "listen"

\* The await behind it
Behind ==
    CASE o = "called" -> IF Accepted /\ tool.name = Consent THEN "recording"
                                                            ELSE "completed"
      [] o = "completed" -> IF Accepted THEN Effect[tool.name] ELSE "submit"
      [] o \in {"fact", "objective"} -> "effect"
      [] o = "effect" -> "submit"
      [] o = "transcript" -> "listen"

\* dispatch(): the tool changes the runtime at once
Dispatched ==
    IF ~Accepted THEN runtime
    ELSE CASE tool.name = "save_fact" ->
                 [runtime EXCEPT !.facts = @ \cup {turn}]
           [] tool.name = "set_objective_status" ->
                 [runtime EXCEPT !.objective = turn]
           [] tool.name = "finish_call" ->
                 [runtime EXCEPT !.finish_requested = TRUE]
           [] tool.name = Consent ->
                 [runtime EXCEPT !.recordings = @ \cup {"consent"}]

\* The model calls a tool
ToolCalled(name, valid) ==
    /\ o = "listen"
    /\ turn < MaxTurns
    /\ turn' = turn + 1
    /\ tool' = [name |-> name, valid |-> valid]
    /\ o' = "called"
    /\ OUnchanged /\ UNCHANGED <<handler, runtime, db>>

\* A final text of either speaker; a blank one is not stored
Transcript ==
    /\ o = "listen"
    /\ turn < MaxTurns
    /\ turn' = turn + 1
    /\ o' \in {"transcript", "listen"}
    /\ OUnchanged /\ UNCHANGED <<handler, tool, runtime, db>>

\* Variant: the outcome is recorded behind the effect, not before it
WriteEffectFirst ==
    /\ o \in Writing
    /\ db' = CASE o = "completed" /\ Behind \in {"fact", "objective"} -> db
               [] o = "effect" -> [db EXCEPT !.events = @ \cup
                                     {<<"TOOL_COMPLETED", turn>>,
                                      <<EffectEvent[tool.name], turn>>}]
               [] OTHER -> Written
    /\ o' = Behind
    /\ runtime' = IF o = "called" THEN Dispatched ELSE runtime
    /\ OUnchanged /\ UNCHANGED <<handler, tool, turn>>

Write ==
    /\ o \in Writing
    /\ db' = Written
    /\ o' = Behind
    /\ runtime' = IF o = "called" THEN Dispatched ELSE runtime
    /\ OUnchanged /\ UNCHANGED <<handler, tool, turn>>

\* recording.start(consent=True)
RecordWithConsent ==
    /\ o = "recording"
    /\ o' = "completed"
    /\ OUnchanged /\ UNCHANGED <<handler, tool, turn, runtime, db>>

\* submit_tool_output
Submit ==
    /\ o = "submit"
    /\ o' = "listen"
    /\ tool' = NoTool
    /\ OUnchanged /\ UNCHANGED <<handler, turn, runtime, db>>
-----------------------------------------------------------------------------
(* The end of the relay, by whichever task ends first.  The other is         *)
(* cancelled: of the write it awaits nobody knows whether it was committed.  *)

RelayEnds(outcomes) ==
    /\ handler = "relay"
    /\ handler' = "disconnected_event"
    /\ o' = "off"
    /\ db' \in outcomes
    /\ UNCHANGED <<phone, policy, started, tool, turn, runtime>>

\* Variant: the end of Twilio's side does not end the relay
TEndsQuietly ==
    /\ handler = "relay"
    /\ phone # "live"
    /\ UNCHANGED streamVars

\* T: a "stop" message and its event, or WebSocketDisconnect
TEnds == phone # "live" /\ RelayEnds({db, Written})

\* _finish_if_ready: the response behind finish_call was heard, in T or in O
GoodbyeHeard ==
    /\ \E n \in Turns :
          /\ <<"CALL_END_REQUESTED", n>> \in db.events
          /\ n = turn => o = "listen"
    /\ RelayEnds({db, Written})

\* O: OpenAI is lost, or a write fails
OEnds ==
    /\ \/ o \in {"listen", "submit"} /\ "openai_loss" \in Losses
       \/ o \in Writing \cup {"recording"} /\ DatabaseMayFail
    /\ RelayEnds({db})

\* The remote party hangs up
RemoteHangsUp ==
    /\ phone = "live"
    /\ phone' = "remote"
    /\ UNCHANGED <<policy, started, handler, o, tool, turn, runtime, db>>

Progress ==
    \/ ReceiveDisconnect \/ UpdateCall \/ StreamStarted \/ RecordAlways
    \/ Connect \/ Connected \/ Disconnected \/ Close
    \/ Write \/ RecordWithConsent \/ Submit \/ TEnds

StreamNext ==
    \/ \E m \in Messages : ReceiveMessage(m)
    \/ \E name \in Tools, valid \in BOOLEAN : ToolCalled(name, valid)
    \/ Transcript
    \/ Progress
    \/ GoodbyeHeard
    \/ OEnds
    \/ RemoteHangsUp
-----------------------------------------------------------------------------
(* Properties *)

Has(type, n) == <<type, n>> \in db.events

\* A call is only ever recorded under its policy: at once with "always", and
\* with "ask" only behind a call of the consent tool whose arguments say that
\* the remote person agreed.  With "off" it never is, whatever the model calls.
RecordingConsent ==
    /\ "policy" \in runtime.recordings => policy = "always"
    /\ "consent" \in runtime.recordings => policy = "ask"
    /\ o = "recording" => policy = "ask" /\ tool.name = Consent /\ tool.valid

\* What the model is told has been done is in the database: when the output of
\* a tool call is sent, and ever after, the facts, the objective status and the
\* end the call runtime holds are stored, and the event that says so with them.
EffectsDurable ==
    o \in {"submit", "listen"} =>
        /\ runtime.facts = db.facts
        /\ runtime.objective = db.objective
        /\ \A n \in runtime.facts : Has("FACT_CAPTURED", n)
        /\ runtime.objective # 0 =>
               Has("OBJECTIVE_STATUS_CHANGED", runtime.objective)
        /\ runtime.finish_requested =>
               \E n \in Turns : Has("CALL_END_REQUESTED", n)

\* What the stream applies of a start message it applies as a whole: the
\* endpoint runs with the identifiers of a start that was checked to the end,
\* and as long as it waits for one, media is refused.
StreamKnown ==
    /\ handler = "receive" => ~started
    /\ handler \notin {"receive", "closing", "closed"} => started

\* The tool O is carrying out is name, and O is at one of the awaits
Doing(name, awaits) == tool.name = name /\ Accepted /\ o \in awaits

\* What is stored was asked for, and never without the outcome that caused it
Caused ==
    /\ db.facts \subseteq runtime.facts
    /\ \A n \in db.facts : Has("TOOL_COMPLETED", n)
    /\ db.objective # 0 => Has("TOOL_COMPLETED", db.objective)

\* What O is about to store is what the last tool call asked for
InHand ==
    /\ o = "fact" => Doing("save_fact", {"fact"}) /\ Has("TOOL_COMPLETED", turn)
    /\ o = "objective" => /\ Doing("set_objective_status", {"objective"})
                          /\ Has("TOOL_COMPLETED", turn)
    /\ o = "effect" => Accepted /\ tool.name # Consent
    /\ Doing("save_fact", {"completed", "fact", "effect"}) =>
           turn \in runtime.facts
    /\ Doing("set_objective_status", {"completed", "objective", "effect"}) =>
           runtime.objective = turn

\* What was asked for is stored, or O is about to store it
FactsStored ==
    \A n \in runtime.facts :
        /\ n \in db.facts
             \/ (n = turn /\ Doing("save_fact", {"completed", "fact"}))
        /\ Has("FACT_CAPTURED", n)
             \/ (n = turn /\ Doing("save_fact", {"completed", "fact", "effect"}))

StatusStored ==
    /\ runtime.objective = db.objective
         \/ Doing("set_objective_status", {"completed", "objective"})
    /\ runtime.objective # 0 =>
         \/ Has("OBJECTIVE_STATUS_CHANGED", runtime.objective)
         \/ Doing("set_objective_status", {"completed", "objective", "effect"})

EndStored ==
    runtime.finish_requested =>
        \/ \E n \in Turns : Has("CALL_END_REQUESTED", n)
        \/ Doing("finish_call", {"completed", "effect"})

EffectInv ==
    /\ Caused
    /\ InHand
    /\ o # "off" => FactsStored /\ StatusStored /\ EndStored

\* Nothing was asked for before the relay
BeforeRelay ==
    handler \in {"receive", "update", "stream_event", "record", "connect",
                 "connected_event"} =>
        /\ runtime.facts = {} /\ runtime.objective = 0
        /\ ~runtime.finish_requested
        /\ db.objective = 0

\* The inductive invariant of the stream
StreamInv ==
    /\ StreamTypeOK
    /\ StreamKnown
    /\ o # "off" <=> handler = "relay"
    /\ handler = "record" => policy = "always"
    /\ o \in Writing \cup {"recording"}
         => turn # 0
    /\ RecordingConsent
    /\ BeforeRelay
    /\ EffectInv

\* The endpoint is done once the phone call is over.
StreamEnds == phone # "live" ~> handler = "closed"
=============================================================================
