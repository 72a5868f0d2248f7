-------------------------- MODULE CallRecordProofs --------------------------
(***************************************************************************)
(* Proofs about MediaStream and CallRecord, for any tools and policies,    *)
(* any number of tool calls, requests and pages, and any failures.         *)
(***************************************************************************)
EXTENDS CallRecord, PostCallSummaryProofs

-----------------------------------------------------------------------------
(* The stream.  Its invariant has four parts with few variables in common. *)

Control ==
    /\ StreamKnown
    /\ o # "off" <=> handler = "relay"
    /\ handler = "record" => policy = "always"
    /\ BeforeRelay

Turning == o \in Writing \cup {"recording"} => turn # 0

LEMMA StreamParts ==
  StreamInv <=> StreamTypeOK /\ Control /\ Turning /\ RecordingConsent /\ EffectInv
  BY DEF StreamInv, Control, Turning

LEMMA StreamPartsNext ==
  StreamTypeOK' /\ Control' /\ Turning' /\ RecordingConsent' /\ EffectInv'
    => StreamInv'
  BY DEF StreamInv, Control, Turning

\* The variables EffectInv and RecordingConsent speak of
effectVars == <<policy, o, tool, turn, runtime, db.facts, db.objective, db.events>>

LEMMA EffectSame ==
  ASSUME UNCHANGED effectVars
  PROVE  /\ EffectInv => EffectInv'
         /\ RecordingConsent => RecordingConsent'
         /\ Turning => Turning'
  BY DEF effectVars, EffectInv, Caused, InHand, FactsStored, StatusStored, EndStored,
         RecordingConsent, Turning, Has, Doing, Accepted, Allowed

\* An accepted tool is one of the four.
LEMMA AcceptedTools ==
  Accepted => \/ tool.name \in {"save_fact", "set_objective_status", "finish_call"}
              \/ tool.name = Consent /\ policy = "ask"
  BY DEF Accepted, Allowed

LEMMA EffectTools ==
  ASSUME EffectInv, o = "effect"
  PROVE  tool.name \in {"save_fact", "set_objective_status", "finish_call"}
  BY AcceptedTools DEF EffectInv, InHand

\* What a write of O commits is a well-formed database.
LEMMA WrittenType ==
  ASSUME StreamTypeOK, Turning, EffectInv
  PROVE  Written \in Tables
<1> USE DEF StreamTypeOK, Turning, Writing, Tables, Turns, EventTypes
<1>1. CASE o = "completed"
  BY <1>1 DEF Written, With
<1>2. CASE o = "fact"
  BY <1>2 DEF Written
<1>3. CASE o = "objective"
  BY <1>3 DEF Written
<1>4. CASE o = "effect"
  <2>1. EffectEvent[tool.name] \in EventTypes
    BY <1>4, EffectTools DEF EffectEvent
  <2>2. Written = [db EXCEPT !.events = @ \cup {<<EffectEvent[tool.name], turn>>}]
    BY <1>4 DEF Written, With
  <2>3. turn \in Turns
    BY <1>4, StreamAssumption
  <2> HIDE DEF EventTypes, Turns
  <2> QED BY <2>1, <2>2, <2>3
<1>5. CASE o = "transcript"
  BY <1>5 DEF Written
<1>6. CASE o \notin {"completed", "fact", "objective", "effect", "transcript"}
  BY <1>6 DEF Written
<1> QED BY <1>1, <1>2, <1>3, <1>4, <1>5, <1>6

\* The effects once O is cancelled at an await whose write may be committed.
LEMMA EffectOff ==
  ASSUME StreamTypeOK, Turning, EffectInv, o' = "off",
         UNCHANGED <<policy, tool, turn, runtime>>, db' \in {db, Written}
  PROVE  EffectInv'
<1> USE DEF EffectInv, Caused, InHand, Doing, Accepted, Allowed, Has
<1>1. CASE db' = db
  BY <1>1
<1>2. CASE db' = Written
  <2> USE DEF StreamTypeOK, Tables
  <2>1. CASE o = "completed"
    BY <1>2, <2>1 DEF Written, With
  <2>2. CASE o = "fact"
    BY <1>2, <2>2 DEF Written
  <2>3. CASE o = "objective"
    BY <1>2, <2>3 DEF Written
  <2>4. CASE o = "effect"
    BY <1>2, <2>4 DEF Written, With
  <2>5. CASE o = "transcript"
    BY <1>2, <2>5 DEF Written
  <2>6. CASE o \notin {"completed", "fact", "objective", "effect", "transcript"}
    BY <1>2, <2>6 DEF Written
  <2> QED BY <2>1, <2>2, <2>3, <2>4, <2>5, <2>6
<1> QED BY <1>1, <1>2

LEMMA DispatchedType ==
  ASSUME StreamTypeOK, turn # 0
  PROVE  /\ Dispatched \in [facts : SUBSET Turns, objective : 0..MaxTurns,
                            finish_requested : BOOLEAN,
                            recordings : SUBSET {"policy", "consent"}]
         /\ ~Accepted => Dispatched = runtime
         /\ Accepted /\ tool.name = "save_fact" =>
                Dispatched = [runtime EXCEPT !.facts = @ \cup {turn}]
         /\ Accepted /\ tool.name = "set_objective_status" =>
                Dispatched = [runtime EXCEPT !.objective = turn]
         /\ Accepted /\ tool.name = "finish_call" =>
                Dispatched = [runtime EXCEPT !.finish_requested = TRUE]
         /\ Accepted /\ tool.name = Consent =>
                Dispatched = [runtime EXCEPT !.recordings = @ \cup {"consent"}]
<1> USE DEF StreamTypeOK, Turns, Consent
<1>1. CASE ~Accepted
  BY <1>1 DEF Dispatched
<1>2. CASE Accepted /\ tool.name = "save_fact"
  BY <1>2 DEF Dispatched
<1>3. CASE Accepted /\ tool.name = "set_objective_status"
  BY <1>3 DEF Dispatched
<1>4. CASE Accepted /\ tool.name = "finish_call"
  BY <1>4 DEF Dispatched
<1>5. CASE Accepted /\ tool.name = Consent
  BY <1>5 DEF Dispatched
<1> QED BY <1>1, <1>2, <1>3, <1>4, <1>5, AcceptedTools

\* What a write of O does, table by table.
LEMMA WriteTables ==
  ASSUME StreamTypeOK, Turning, EffectInv, Write
  PROVE  /\ db'.facts = db.facts \cup (IF o = "fact" THEN {turn} ELSE {})
         /\ db'.objective = IF o = "objective" THEN turn ELSE db.objective
         /\ db.events \subseteq db'.events
         /\ o = "completed" => Has("TOOL_COMPLETED", turn)'
         /\ o = "effect" =>
              /\ tool.name = "save_fact" => Has("FACT_CAPTURED", turn)'
              /\ tool.name = "set_objective_status" =>
                    Has("OBJECTIVE_STATUS_CHANGED", turn)'
              /\ tool.name = "finish_call" => Has("CALL_END_REQUESTED", turn)'
<1> USE DEF StreamTypeOK, Tables, Has, Write, OUnchanged
<1>1. CASE o = "completed"
  BY <1>1 DEF Written, With
<1>2. CASE o = "fact"
  BY <1>2 DEF Written
<1>3. CASE o = "objective"
  BY <1>3 DEF Written
<1>4. CASE o = "effect"
  <2>1. db' = [db EXCEPT !.events = @ \cup {<<EffectEvent[tool.name], turn>>}]
    BY <1>4 DEF Written, With
  <2> QED BY <1>4, <2>1 DEF EffectEvent
<1>5. CASE o = "transcript"
  BY <1>5 DEF Written
<1>6. CASE o = "called"
  BY <1>6 DEF Written
<1> QED BY <1>1, <1>2, <1>3, <1>4, <1>5, <1>6 DEF Writing

LEMMA WriteRuntime ==
  ASSUME StreamTypeOK, Turning, Write
  PROVE  /\ runtime'.facts = runtime.facts \cup
              (IF o = "called" /\ Accepted /\ tool.name = "save_fact"
                 THEN {turn} ELSE {})
         /\ runtime'.objective =
              IF o = "called" /\ Accepted /\ tool.name = "set_objective_status"
                THEN turn ELSE runtime.objective
         /\ runtime'.finish_requested <=>
              \/ runtime.finish_requested
              \/ o = "called" /\ Accepted /\ tool.name = "finish_call"
         /\ runtime'.recordings = runtime.recordings \cup
              (IF o = "called" /\ Accepted /\ tool.name = Consent
                 THEN {"consent"} ELSE {})
<1> USE DEF StreamTypeOK, Write
<1>1. CASE o # "called"
  BY <1>1
<1>2. CASE o = "called"
  <2>1. runtime' = Dispatched /\ turn # 0
    BY <1>2 DEF Turning, Writing
  <2>2. CASE ~Accepted
    BY <1>2, <2>1, <2>2, DispatchedType
  <2>3. CASE Accepted /\ tool.name = "save_fact"
    BY <1>2, <2>1, <2>3, DispatchedType DEF Consent
  <2>4. CASE Accepted /\ tool.name = "set_objective_status"
    BY <1>2, <2>1, <2>4, DispatchedType DEF Consent
  <2>5. CASE Accepted /\ tool.name = "finish_call"
    BY <1>2, <2>1, <2>5, DispatchedType DEF Consent
  <2>6. CASE Accepted /\ tool.name = Consent
    BY <1>2, <2>1, <2>6, DispatchedType DEF Consent
  <2> QED BY <2>2, <2>3, <2>4, <2>5, <2>6, AcceptedTools
<1> QED BY <1>1, <1>2

\* The await behind each write.
LEMMA WriteNext ==
  ASSUME EffectInv, Write
  PROVE  /\ UNCHANGED <<policy, tool, turn, handler>> /\ (Accepted' <=> Accepted)
         /\ o \in Writing
         /\ o = "called" => o' = IF Accepted /\ tool.name = Consent
                                   THEN "recording" ELSE "completed"
         /\ o = "completed" =>
              \/ ~Accepted /\ o' = "submit"
              \/ Accepted /\ tool.name = Consent /\ o' = "submit"
              \/ Accepted /\ tool.name = "save_fact" /\ o' = "fact"
              \/ Accepted /\ tool.name = "set_objective_status" /\ o' = "objective"
              \/ Accepted /\ tool.name = "finish_call" /\ o' = "effect"
         /\ o = "fact" => o' = "effect"
         /\ o = "objective" => o' = "effect"
         /\ o = "effect" => o' = "submit"
         /\ o = "transcript" => o' = "listen"
<1>1. UNCHANGED <<policy, tool, turn, handler>> /\ o \in Writing /\ o' = Behind
  BY DEF Write, OUnchanged
<1>2. Accepted' <=> Accepted
  BY <1>1 DEF Accepted, Allowed
<1>3. o = "completed" => o' = IF Accepted THEN Effect[tool.name] ELSE "submit"
  BY <1>1 DEF Behind
<1> QED BY <1>1, <1>2, <1>3, AcceptedTools DEF Behind, Effect, Consent

\* A write of O leaves the effects of every tool call where they belong.
LEMMA WriteEffects ==
  ASSUME StreamTypeOK, Turning, EffectInv, Write
  PROVE  EffectInv'
<1> USE WriteTables, WriteRuntime, WriteNext
        DEF EffectInv, Doing, Consent
<1>1. Caused'
  BY DEF Caused, InHand, Has
<1>2. InHand'
  BY DEF Caused, InHand, Writing, Has
<1>3. ASSUME o # "off" PROVE FactsStored'
  <2> SUFFICES ASSUME NEW n \in runtime'.facts
               PROVE  /\ n \in db'.facts
                           \/ (n = turn /\ Doing("save_fact", {"completed", "fact"})')
                      /\ Has("FACT_CAPTURED", n)'
                           \/ (n = turn /\ Doing("save_fact",
                                                {"completed", "fact", "effect"})')
    BY DEF FactsStored
  <2>1. CASE n \in runtime.facts
    <3>1. /\ n \in db.facts
               \/ (n = turn /\ Doing("save_fact", {"completed", "fact"}))
          /\ Has("FACT_CAPTURED", n)
               \/ (n = turn /\ Doing("save_fact", {"completed", "fact", "effect"}))
      BY <1>3, <2>1 DEF FactsStored
    <3>2. Has("FACT_CAPTURED", n) => Has("FACT_CAPTURED", n)'
      BY DEF Has
    <3> QED BY <3>1, <3>2 DEF Writing
  <2>2. CASE n \notin runtime.facts
    <3>1. n = turn /\ o = "called" /\ Accepted /\ tool.name = "save_fact"
      BY <2>2
    <3> QED BY <3>1
  <2> QED BY <2>1, <2>2
<1>4. ASSUME o # "off" PROVE StatusStored'
  BY <1>4 DEF InHand, StatusStored, Writing, Has
<1>5. ASSUME o # "off" PROVE EndStored'
  <2>1. (\E n \in Turns : Has("CALL_END_REQUESTED", n))
           => (\E n \in Turns : Has("CALL_END_REQUESTED", n)')
    BY DEF Has
  <2>2. o = "effect" => turn \in Turns
    BY StreamAssumption DEF StreamTypeOK, Turning, Writing, Turns
  <2> QED BY <1>5, <2>1, <2>2 DEF InHand, EndStored, Writing
<1>6. o # "off"
  BY DEF Writing
<1> QED BY <1>1, <1>2, <1>3, <1>4, <1>5, <1>6

\* The end of the relay, however it comes about.
LEMMA RelayEndsInv ==
  ASSUME StreamInv, RelayEnds({db, Written}) PROVE StreamInv'
<1> USE StreamParts, StreamPartsNext
<1>1. StreamTypeOK'
  BY WrittenType DEF RelayEnds, StreamTypeOK, HandlerPc, OPc
<1>2. Control' /\ Turning' /\ RecordingConsent'
  BY DEF Control, StreamKnown, BeforeRelay, Turning, Writing, RecordingConsent,
         RelayEnds
<1>3. EffectInv'
  BY EffectOff DEF RelayEnds
<1> QED BY <1>1, <1>2, <1>3

LEMMA WriteInv == ASSUME StreamInv, Write PROVE StreamInv'
<1> USE StreamParts, StreamPartsNext
<1>0. o \in Writing /\ runtime' = IF o = "called" THEN Dispatched ELSE runtime
  BY DEF Write
<1>1. StreamTypeOK'
  <2>1. db' \in Tables
    BY WrittenType DEF Write, StreamTypeOK
  <2>2. runtime' \in [facts : SUBSET Turns, objective : 0..MaxTurns,
                      finish_requested : BOOLEAN,
                      recordings : SUBSET {"policy", "consent"}]
    BY <1>0, DispatchedType DEF StreamTypeOK, Turning, Writing
  <2>3. o' \in OPc
    BY <1>0, WriteNext DEF OPc, Writing
  <2> QED BY <2>1, <2>2, <2>3 DEF StreamTypeOK, Write, OUnchanged
<1>2. Control'
  BY <1>0, WriteNext DEF Control, StreamKnown, BeforeRelay, Write, OUnchanged, Writing
<1>3. Turning'
  BY <1>0, WriteNext DEF Turning, Write, Writing
<1>4. RecordingConsent'
  BY <1>0, WriteNext, WriteRuntime, AcceptedTools
  DEF RecordingConsent, Accepted, Consent, Writing
<1>5. EffectInv'
  BY WriteEffects
<1> QED BY <1>1, <1>2, <1>3, <1>4, <1>5

\* The steps that leave O and the database alone.
LEMMA HandlerInv ==
  ASSUME StreamInv, UNCHANGED <<policy, o, tool, turn, runtime, db>>,
         phone' \in {"live", "stream", "remote", "owner"},
         handler' \in HandlerPc, started' \in BOOLEAN, Control'
  PROVE  StreamInv'
<1>1. StreamTypeOK'
  BY StreamParts DEF StreamTypeOK
<1>2. UNCHANGED effectVars
  BY DEF effectVars
<1> QED BY <1>1, <1>2, StreamParts, StreamPartsNext, EffectSame

\* Every step of the stream preserves its invariant.
LEMMA StreamStepInv == StreamInv /\ StreamNext => StreamInv'
<1> SUFFICES ASSUME StreamInv, StreamNext PROVE StreamInv'
  OBVIOUS
<1> USE StreamParts, StreamPartsNext
<1>1. ASSUME NEW m \in Messages, ReceiveMessage(m) PROVE StreamInv'
  <2>1. handler' \in {"update", "closing", "receive"} /\ started' \in BOOLEAN
    BY <1>1 DEF ReceiveMessage, Apply, StreamTypeOK
  <2>2. Control'
    BY <1>1 DEF ReceiveMessage, Apply, Control, StreamKnown, BeforeRelay, Starts, Messages,
                StreamTypeOK
  <2> QED BY <1>1, <2>1, <2>2, HandlerInv
          DEF ReceiveMessage, StreamTypeOK, HandlerPc
<1>2. CASE ReceiveDisconnect
  BY <1>2, HandlerInv
  DEF ReceiveDisconnect, HandlerOnly, StreamTypeOK, HandlerPc, Control, StreamKnown,
      BeforeRelay
<1>3. CASE UpdateCall
  <2>1. UNCHANGED effectVars
    BY <1>3 DEF UpdateCall, Endpoint, HandlerOnly, effectVars, StreamTypeOK, Tables
  <2>2. StreamTypeOK'
    BY <1>3 DEF UpdateCall, Endpoint, HandlerOnly, StreamTypeOK, Tables, HandlerPc
  <2>3. Control'
    BY <1>3, <2>1 DEF UpdateCall, Endpoint, HandlerOnly, Control, StreamKnown,
                      BeforeRelay, effectVars
  <2> QED BY <2>1, <2>2, <2>3, EffectSame
<1>4. CASE StreamStarted
  BY <1>4, HandlerInv
  DEF StreamStarted, Endpoint, HandlerOnly, StreamTypeOK, HandlerPc, Control,
      StreamKnown, BeforeRelay
<1>5. CASE RecordAlways
  <2>1. o = "off" /\ policy = "always" /\ UNCHANGED <<policy, o, tool, turn, db>>
    BY <1>5 DEF RecordAlways, HandlerOnly, Control
  <2>2. /\ UNCHANGED <<runtime.facts, runtime.objective, runtime.finish_requested>>
        /\ runtime'.recordings = runtime.recordings \cup {"policy"}
    BY <1>5 DEF RecordAlways, StreamTypeOK
  <2>3. StreamTypeOK'
    BY <1>5 DEF RecordAlways, HandlerOnly, StreamTypeOK, HandlerPc
  <2>4. Control' /\ Turning'
    BY <1>5, <2>2 DEF RecordAlways, HandlerOnly, Control, StreamKnown, BeforeRelay,
                      Turning, Writing
  <2>5. RecordingConsent'
    BY <2>1, <2>2 DEF RecordingConsent
  <2>6. EffectInv'
    BY <2>1, <2>2 DEF EffectInv, Caused, InHand, Doing, Accepted, Allowed, Has
  <2> QED BY <2>3, <2>4, <2>5, <2>6
<1>6. CASE Connect
  BY <1>6, HandlerInv
  DEF Connect, HandlerOnly, StreamTypeOK, HandlerPc, Control, StreamKnown,
      BeforeRelay
<1>7. CASE Connected
  <2>1. CASE UNCHANGED o
    BY <1>7, <2>1, HandlerInv
    DEF Connected, StreamTypeOK, HandlerPc, Control, StreamKnown,
      BeforeRelay
  <2>2. CASE handler' = "relay" /\ o' = "listen"
    <3>1. StreamTypeOK' /\ Control' /\ Turning' /\ RecordingConsent'
      BY <1>7, <2>2 DEF Connected, StreamTypeOK, HandlerPc, OPc, Writing, Control,
                        StreamKnown, BeforeRelay, Turning, RecordingConsent
    <3>2. Caused' /\ InHand'
      BY <1>7, <2>2 DEF Connected, Control, EffectInv, Caused, InHand, Doing,
                        Accepted, Allowed, Has
    <3>3. FactsStored' /\ StatusStored' /\ EndStored'
      BY <1>7, <2>2 DEF Connected, Control, BeforeRelay, FactsStored,
                        StatusStored, EndStored
    <3>4. EffectInv'
      BY <3>2, <3>3 DEF EffectInv
    <3> QED BY <3>1, <3>4
  <2> QED BY <1>7, <2>1, <2>2 DEF Connected
<1>8. CASE Disconnected
  BY <1>8, HandlerInv
  DEF Disconnected, HandlerOnly, StreamTypeOK, HandlerPc, Control, StreamKnown,
      BeforeRelay
<1>9. CASE Close
  BY <1>9, HandlerInv DEF Close, StreamTypeOK, HandlerPc, Control, StreamKnown,
      BeforeRelay
<1>10. CASE RemoteHangsUp
  BY <1>10, HandlerInv
  DEF RemoteHangsUp, StreamTypeOK, Control, StreamKnown, BeforeRelay
<1>11. CASE Write
  BY <1>11, WriteInv
<1>12. CASE TEnds \/ GoodbyeHeard \/ OEnds
  <2>1. RelayEnds({db, Written})
    BY <1>12 DEF TEnds, GoodbyeHeard, OEnds, RelayEnds
  <2> QED BY <2>1, RelayEndsInv
<1>13. ASSUME NEW name \in Tools, NEW valid \in BOOLEAN, ToolCalled(name, valid)
       PROVE  StreamInv'
  <2>1. StreamTypeOK' /\ Control' /\ Turning' /\ RecordingConsent'
    BY <1>13, StreamAssumption
    DEF ToolCalled, OUnchanged, StreamTypeOK, OPc, Writing, Control, StreamKnown,
        BeforeRelay, Turning, RecordingConsent
  <2>2. EffectInv'
    BY <1>13 DEF ToolCalled, EffectInv, Caused, InHand, FactsStored, StatusStored,
                 EndStored, Doing, Has
  <2> QED BY <2>1, <2>2
<1>14. CASE Transcript
  <2>1. StreamTypeOK' /\ Control' /\ Turning' /\ RecordingConsent'
    BY <1>14, StreamAssumption
    DEF Transcript, OUnchanged, StreamTypeOK, OPc, Writing, Control, StreamKnown,
        BeforeRelay, Turning, RecordingConsent
  <2>2. EffectInv'
    BY <1>14 DEF Transcript, EffectInv, Caused, InHand, FactsStored, StatusStored,
                 EndStored, Doing, Has
  <2> QED BY <2>1, <2>2
<1>15. CASE RecordWithConsent
  <2>1. StreamTypeOK' /\ Control' /\ Turning' /\ RecordingConsent'
    BY <1>15
    DEF RecordWithConsent, OUnchanged, StreamTypeOK, OPc, Writing, Control,
        StreamKnown, BeforeRelay, Turning, RecordingConsent
  <2>2. EffectInv'
    BY <1>15 DEF RecordWithConsent, RecordingConsent, EffectInv, Caused, InHand,
                 FactsStored, StatusStored, EndStored, Doing, Has, Consent
  <2> QED BY <2>1, <2>2
<1>16. CASE Submit
  <2>1. StreamTypeOK' /\ Control' /\ Turning' /\ RecordingConsent'
    BY <1>16
    DEF Submit, OUnchanged, NoTool, StreamTypeOK, OPc, Writing, Control,
        StreamKnown, BeforeRelay, Turning, RecordingConsent
  <2>2. EffectInv'
    BY <1>16 DEF Submit, EffectInv, Caused, InHand, FactsStored, StatusStored,
                 EndStored, Doing, Has
  <2> QED BY <2>1, <2>2
<1> QED
  BY <1>1, <1>2, <1>3, <1>4, <1>5, <1>6, <1>7, <1>8, <1>9, <1>10, <1>11, <1>12,
     <1>13, <1>14, <1>15, <1>16
  DEF StreamNext, Progress

\* The end of the call changes the row and Twilio's side only.
LEMMA EndOfCallInv ==
  ASSUME StreamInv, UNCHANGED <<policy, started, handler, o, tool, turn, runtime>>,
         phone' \in {"live", "stream", "remote", "owner"},
         db' = db \/ db' = [db EXCEPT !.completed = TRUE]
  PROVE  StreamInv'
<1> USE StreamParts, StreamPartsNext
<1>1. StreamTypeOK'
  BY DEF StreamTypeOK, Tables
<1>2. UNCHANGED effectVars
  BY DEF effectVars, StreamTypeOK, Tables
<1>3. Control'
  BY <1>2 DEF Control, StreamKnown, BeforeRelay, effectVars
<1> QED BY <1>1, <1>2, <1>3, EffectSame

LEMMA CrashStreamInv == ASSUME StreamInv, Crash PROVE StreamInv'
<1> USE StreamParts, StreamPartsNext
<1>1. StreamTypeOK'
  BY WrittenType DEF Crash, StreamTypeOK, HandlerPc, OPc
<1>2. Control' /\ Turning' /\ RecordingConsent'
  BY DEF Crash, Control, StreamKnown, BeforeRelay, Turning, Writing,
         RecordingConsent
<1>3. EffectInv'
  BY EffectOff DEF Crash
<1> QED BY <1>1, <1>2, <1>3

LEMMA RecordStreamInv == StreamInv /\ [RecordNext]_recordVars => StreamInv'
<1> SUFFICES ASSUME StreamInv, [RecordNext]_recordVars PROVE StreamInv'
  OBVIOUS
<1>1. CASE Stream
  BY <1>1, StreamStepInv DEF Stream
<1>2. CASE CallCompleted \/ OwnerHangsUp \/ OwnerSaves
  <2>1. phone \in {"live", "stream", "remote", "owner"}
    BY DEF StreamInv, StreamTypeOK
  <2> QED BY <1>2, <2>1, EndOfCallInv DEF CallCompleted, OwnerHangsUp, OwnerSaves
<1>3. CASE Crash
  BY <1>3, CrashStreamInv
<1>4. CASE UNCHANGED streamVars
  <2>1. phone' \in {"live", "stream", "remote", "owner"}
    BY <1>4 DEF StreamInv, StreamTypeOK, streamVars
  <2> QED BY <1>4, <2>1, EndOfCallInv DEF streamVars
<1>5. ASSUME NEW r \in Requests,
             Retry(r) \/ ReadInput(r) \/ Report(r) \/ ReportWriteFails(r)
      PROVE  UNCHANGED streamVars
  BY <1>5 DEF Retry, ReadInput, Fetch, Report, ReportWriteFails
<1>6. ASSUME NEW p \in Pages, ReadPage(p) \/ LookAgain(p)
      PROVE  UNCHANGED streamVars
  BY <1>6 DEF ReadPage, Fetch, LookAgain
<1>7. CASE UNCHANGED recordVars
  BY <1>7, <1>4 DEF recordVars
<1> QED BY <1>1, <1>2, <1>3, <1>4, <1>5, <1>6, <1>7 DEF RecordNext

LEMMA InitStreamInv == StreamInit => StreamInv
<1> SUFFICES ASSUME StreamInit PROVE StreamInv
  OBVIOUS
<1>1. StreamTypeOK
  <2>1. 0 \in 0..MaxTurns
    BY StreamAssumption
  <2>2. db \in Tables
    BY <2>1 DEF StreamInit, Tables
  <2> QED BY <2>1, <2>2 DEF StreamInit, StreamTypeOK, NoTool, HandlerPc, OPc
<1>2. Control /\ Turning /\ RecordingConsent
  BY DEF StreamInit, Control, StreamKnown, BeforeRelay, Turning, Writing,
         RecordingConsent
<1>3. EffectInv
  BY DEF StreamInit, EffectInv, Caused, InHand, Doing
<1> QED BY <1>1, <1>2, <1>3, StreamParts

\* What the stream's invariant says of every state of the record.
THEOREM StreamInvariant == RecordSpec => []StreamInv
<1>1. RecordInit => StreamInv
  BY InitStreamInv DEF RecordInit
<1> QED BY <1>1, RecordStreamInv, PTL DEF RecordSpec

\* Whatever is stored and whatever fails, the model is told only of effects
\* that are stored (_handle_tool_calls, _persist_tool_result).
THEOREM EffectsAlwaysDurable == RecordSpec => []EffectsDurable
<1>1. StreamInv => EffectsDurable
  BY DEF StreamInv, EffectInv, FactsStored, StatusStored, EndStored, Caused,
         EffectsDurable, Doing
<1> QED BY <1>1, StreamInvariant, PTL

\* No call is recorded but under its policy (ToolDispatcher, media_stream).
THEOREM RecordingConsentAlways == RecordSpec => []RecordingConsent
<1>1. StreamInv => RecordingConsent
  BY DEF StreamInv
<1> QED BY <1>1, StreamInvariant, PTL

\* A start message is taken as a whole or not at all (_handle_start).
THEOREM StreamAlwaysKnown == RecordSpec => []StreamKnown
<1>1. StreamInv => StreamKnown
  BY DEF StreamInv
<1> QED BY <1>1, StreamInvariant, PTL
-----------------------------------------------------------------------------
(* The report's columns change as PostCallSummary says *)

LEMMA StepSummary == [RecordNext]_recordVars => [SummaryNext]_summaryVars
<1> SUFFICES ASSUME [RecordNext]_recordVars PROVE [SummaryNext]_summaryVars
  OBVIOUS
<1> USE RecordAssumption
<1>1. CASE Stream
  BY <1>1 DEF Stream, StreamAlone
<1>2. CASE CallCompleted
  BY <1>2 DEF CallCompleted, SummaryNext
<1>3. CASE OwnerHangsUp \/ OwnerSaves
  BY <1>3 DEF OwnerHangsUp, OwnerSaves
<1>4. ASSUME NEW r \in Requests, Retry(r) PROVE SummaryNext
  BY <1>4 DEF Retry, SummaryNext
<1>5. ASSUME NEW r \in Requests, ReadInput(r) PROVE UNCHANGED summaryVars
  BY <1>5 DEF ReadInput, Fetch
<1>6. ASSUME NEW r \in Requests, Report(r) PROVE SummaryNext
  BY <1>6 DEF Report, RequestReport, SummaryNext, Proceed
<1>7. ASSUME NEW r \in Requests, ReportWriteFails(r) PROVE SummaryNext
  BY <1>7 DEF ReportWriteFails, SummaryNext
<1>8. ASSUME NEW p \in Pages, ReadPage(p) \/ LookAgain(p)
      PROVE  UNCHANGED summaryVars
  BY <1>8 DEF ReadPage, Fetch, LookAgain
<1>9. CASE Crash
  BY <1>9 DEF Crash, SummaryNext
<1>10. CASE UNCHANGED recordVars
  BY <1>10 DEF recordVars
<1> QED BY <1>1, <1>2, <1>3, <1>4, <1>5, <1>6, <1>7, <1>8, <1>9, <1>10
        DEF RecordNext

\* With the conversation, the page and the end of the call around it, the
\* report is still the service's alone (generate, call_status, retry_summary).
THEOREM SummaryInRecord == RecordSpec => SummarySpec
<1>1. RecordInit => SummaryInit
  BY DEF RecordInit
<1> QED BY <1>1, StepSummary, PTL DEF RecordSpec, SummarySpec
-----------------------------------------------------------------------------
(* The readers *)

ReaderTypes ==
    /\ at \in [Readers -> 0..4]
    /\ seen \in [Readers -> Snapshots]
    /\ material \in Snapshots

LEMMA CurrentType ==
  ASSUME StreamTypeOK, SummaryTypeOK
  PROVE  /\ Current.call = Row /\ Current.transcripts = db.transcripts
         /\ Current.facts = db.facts /\ Current.events = db.events
         /\ Row.objective = db.objective
         /\ Row \in [completed : BOOLEAN, objective : 0..MaxTurns, report : Nat,
                     summary_status : SummaryStatuses]
         /\ db.transcripts \in SUBSET Turns
         /\ db.facts \in SUBSET Turns
         /\ db.events \in SUBSET (EventTypes \X Turns)
  BY DEF Current, Row, StreamTypeOK, SummaryTypeOK, Tables

LEMMA BlankType == Blank \in Snapshots
<1>1. 0 \in 0..MaxTurns
  BY StreamAssumption
<1> QED BY <1>1 DEF Blank, Snapshots, SummaryStatuses

\* One await of a reader, by the table it reads.
LEMMA FetchTable ==
  ASSUME StreamTypeOK, SummaryTypeOK, ReaderTypes, NEW x \in Readers,
         NEW order, Fetch(x, order), Len(order) = 4,
         order[at[x] + 1] \in {"call", "transcripts", "facts", "events"}
  PROVE  /\ at[x] < 4 /\ at' = [at EXCEPT ![x] = at[x] + 1]
         /\ \A y \in Readers \ {x} : seen'[y] = seen[y]
         /\ seen'[x].call = IF order[at[x] + 1] = "call" THEN Row
                                                         ELSE seen[x].call
         /\ seen'[x].transcripts = IF order[at[x] + 1] = "transcripts"
                                     THEN db.transcripts ELSE seen[x].transcripts
         /\ seen'[x].facts = IF order[at[x] + 1] = "facts" THEN db.facts
                                                           ELSE seen[x].facts
         /\ seen'[x].events = IF order[at[x] + 1] = "events" THEN db.events
                                                             ELSE seen[x].events
         /\ ReaderTypes'
<1> DEFINE t == order[at[x] + 1]
<1>1. /\ at[x] < 4 /\ at' = [at EXCEPT ![x] = at[x] + 1]
      /\ seen' = [seen EXCEPT ![x] = [seen[x] EXCEPT ![t] = Current[t]]]
      /\ material' = material
  BY DEF Fetch, ReaderTypes
<1>2. seen[x] \in Snapshots /\ at[x] \in 0..4 /\ at'[x] \in 0..4
  BY <1>1 DEF ReaderTypes
<1>3. [seen[x] EXCEPT ![t] = Current[t]] \in Snapshots
  <2> HIDE DEF t
  <2>1. CASE t = "call"
    BY <1>2, <2>1, CurrentType DEF Snapshots
  <2>2. CASE t = "transcripts"
    BY <1>2, <2>2, CurrentType DEF Snapshots
  <2>3. CASE t = "facts"
    BY <1>2, <2>3, CurrentType DEF Snapshots
  <2>4. CASE t = "events"
    BY <1>2, <2>4, CurrentType DEF Snapshots
  <2>5. t \in {"call", "transcripts", "facts", "events"}
    BY DEF t
  <2> QED BY <2>1, <2>2, <2>3, <2>4, <2>5
<1>4. ReaderTypes'
  BY <1>1, <1>2, <1>3 DEF ReaderTypes
<1>5. seen'[x] = [seen[x] EXCEPT ![t] = Current[t]]
  BY <1>1 DEF ReaderTypes
<1>6. \A y \in Readers \ {x} : seen'[y] = seen[y]
  BY <1>1 DEF ReaderTypes
<1>7. /\ seen'[x].call = IF t = "call" THEN Row ELSE seen[x].call
      /\ seen'[x].transcripts = IF t = "transcripts" THEN db.transcripts
                                                     ELSE seen[x].transcripts
      /\ seen'[x].facts = IF t = "facts" THEN db.facts ELSE seen[x].facts
      /\ seen'[x].events = IF t = "events" THEN db.events ELSE seen[x].events
  <2> HIDE DEF t
  <2> QED BY <1>2, <1>5, CurrentType DEF Snapshots
<1> QED BY <1>1, <1>4, <1>6, <1>7

LEMMA Orders ==
  /\ Len(InputOrder) = 4 /\ Len(SnapshotOrder) = 4
  /\ InputOrder[1] = "call" /\ InputOrder[2] = "events"
  /\ InputOrder[3] = "transcripts" /\ InputOrder[4] = "facts"
  /\ SnapshotOrder[1] = "call" /\ SnapshotOrder[2] = "transcripts"
  /\ SnapshotOrder[3] = "facts" /\ SnapshotOrder[4] = "events"
  BY DEF InputOrder, SnapshotOrder

LEMMA FetchOrders ==
  ASSUME ReaderTypes, NEW x \in Readers, at[x] < 4
  PROVE  /\ InputOrder[at[x] + 1] \in {"call", "transcripts", "facts", "events"}
         /\ SnapshotOrder[at[x] + 1] \in {"call", "transcripts", "facts", "events"}
<1>1. at[x] = 0 \/ at[x] = 1 \/ at[x] = 2 \/ at[x] = 3
  BY DEF ReaderTypes
<1> QED BY <1>1, Orders

\* The tables only grow.
DbGrows == db.facts \subseteq db'.facts /\ db.events \subseteq db'.events

LEMMA WrittenGrows ==
  ASSUME StreamTypeOK, db' \in {db, Written}
  PROVE  DbGrows
<1> USE DEF DbGrows, StreamTypeOK, Tables
<1>1. CASE db' = db
  BY <1>1
<1>2. CASE db' = Written
  <2>1. CASE o = "completed"
    BY <1>2, <2>1 DEF Written, With
  <2>2. CASE o = "fact"
    BY <1>2, <2>2 DEF Written
  <2>3. CASE o = "objective"
    BY <1>2, <2>3 DEF Written
  <2>4. CASE o = "effect"
    BY <1>2, <2>4 DEF Written, With
  <2>5. CASE o = "transcript"
    BY <1>2, <2>5 DEF Written
  <2>6. CASE o \notin {"completed", "fact", "objective", "effect", "transcript"}
    BY <1>2, <2>6 DEF Written
  <2> QED BY <2>1, <2>2, <2>3, <2>4, <2>5, <2>6
<1> QED BY <1>1, <1>2

LEMMA StreamGrows == ASSUME StreamTypeOK, StreamNext PROVE DbGrows
<1>1. CASE UpdateCall
  BY <1>1 DEF UpdateCall, Endpoint, StreamTypeOK, Tables, DbGrows
<1>2. CASE Write \/ TEnds \/ GoodbyeHeard \/ OEnds
  BY <1>2, WrittenGrows DEF Write, TEnds, GoodbyeHeard, OEnds, RelayEnds
<1>3. CASE \/ \E m \in Messages : ReceiveMessage(m)
           \/ \E name \in Tools, valid \in BOOLEAN : ToolCalled(name, valid)
           \/ Transcript \/ ReceiveDisconnect \/ StreamStarted \/ RecordAlways
           \/ Connect \/ Connected \/ Disconnected \/ Close
           \/ RecordWithConsent \/ Submit \/ RemoteHangsUp
  BY <1>3
  DEF ReceiveMessage, ToolCalled, Transcript, ReceiveDisconnect, StreamStarted,
      Endpoint, RecordAlways, Connect, Connected, Disconnected, Close,
      RecordWithConsent, Submit, RemoteHangsUp, DbGrows
<1> QED BY <1>1, <1>2, <1>3 DEF StreamNext, Progress

\* A reader that reads nothing keeps what it may say of what it has read.
LEMMA ReaderKept ==
  ASSUME NEW x, DbGrows, at'[x] = at[x], seen'[x] = seen[x]
  PROVE  /\ SeenInv(x) => SeenInv(x)'
         /\ StatusCaused(x) => StatusCaused(x)'
         /\ PageInv(x) => PageInv(x)'
         /\ InputInv(x) /\ (Working(x) => Working(x)') => InputInv(x)'
<1> USE DEF SeenInv, StatusCaused
<1>1. (SeenInv(x) => SeenInv(x)') /\ (StatusCaused(x) => StatusCaused(x)')
  BY DEF DbGrows
<1> QED BY <1>1 DEF PageInv, InputInv

\* Who has forgotten everything has nothing to answer for.
LEMMA ReaderForgot ==
  ASSUME NEW x, at'[x] = 0, seen'[x] = Blank
  PROVE  SeenInv(x)' /\ PageInv(x)' /\ InputInv(x)'
  BY DEF Blank, SeenInv, PageInv, InputInv

LEMMA ReadInputInv ==
  ASSUME StreamInv, SummaryTypeOK, ReaderTypes, ReadersInv,
         NEW r \in Requests, ReadInput(r)
  PROVE  ReadersInv' /\ ReaderTypes'
<1>1. r \in Readers /\ StreamTypeOK /\ Caused /\ Fetch(r, InputOrder)
  BY DEF Readers, StreamInv, EffectInv, ReadInput
<1>2. at[r] < 4
  BY <1>1, Orders DEF Fetch
<1>3. /\ at' = [at EXCEPT ![r] = at[r] + 1] /\ ReaderTypes'
      /\ \A y \in Readers \ {r} : seen'[y] = seen[y]
      /\ seen'[r].call = IF InputOrder[at[r] + 1] = "call" THEN Row
                                                           ELSE seen[r].call
      /\ seen'[r].facts = IF InputOrder[at[r] + 1] = "facts" THEN db.facts
                                                             ELSE seen[r].facts
      /\ seen'[r].events = IF InputOrder[at[r] + 1] = "events" THEN db.events
                                                               ELSE seen[r].events
  BY <1>1, <1>2, Orders, FetchOrders, FetchTable
<1>4. DbGrows /\ UNCHANGED <<db, task>>
  BY <1>1 DEF Fetch, streamVars, summaryVars, DbGrows
<1>5. \A y \in Readers \ {r} : at'[y] = at[y] /\ seen'[y] = seen[y]
  BY <1>3 DEF ReaderTypes
<1>6. SeenInv(r)'
  <2>1. SeenInv(r) /\ Row.objective = db.objective
    BY <1>1 DEF ReadersInv, Row
  <2> QED BY <1>1, <1>3, <1>4, <2>1 DEF SeenInv, Caused, Has
<1>7. InputInv(r)'
  <2>1. at'[r] = at[r] + 1 /\ Working(r)'
    BY <1>1, <1>3, <1>4 DEF ReaderTypes, ReadInput, Working
  <2>2. InputInv(r) /\ SeenInv(r) /\ at[r] \in 0..4
    BY <1>1 DEF ReadersInv, ReaderTypes
  <2>3. CASE at[r] = 0
    BY <2>1, <2>3 DEF InputInv
  <2>4. CASE at[r] = 1
    BY <1>3, <2>1, <2>2, <2>4, Orders DEF InputInv, SeenInv, StatusCaused
  <2>5. CASE at[r] = 2 \/ at[r] = 3
    BY <1>3, <2>1, <2>2, <2>5, Orders DEF InputInv, StatusCaused
  <2> QED BY <1>2, <2>2, <2>3, <2>4, <2>5
<1>8. \A y \in Requests \ {r} : Working(y) => Working(y)'
  BY <1>4 DEF Working
<1>9. Pages \subseteq Readers \ {r}
  BY RecordAssumption DEF Readers
<1> QED BY <1>3, <1>4, <1>5, <1>6, <1>7, <1>8, <1>9, ReaderKept
        DEF ReadersInv, Readers

\* A page reads the events last: all causes of what it has read are there.
LEMMA ReadPageInv ==
  ASSUME StreamInv, SummaryTypeOK, ReaderTypes, ReadersInv,
         NEW p \in Pages, ReadPage(p)
  PROVE  ReadersInv' /\ ReaderTypes'
<1>1. p \in Readers /\ StreamTypeOK /\ Caused /\ Fetch(p, SnapshotOrder)
  BY DEF Readers, StreamInv, EffectInv, ReadPage
<1>2. at[p] < 4
  BY <1>1, Orders DEF Fetch
<1>3. /\ at' = [at EXCEPT ![p] = at[p] + 1] /\ ReaderTypes'
      /\ \A y \in Readers \ {p} : seen'[y] = seen[y]
      /\ seen'[p].call = IF SnapshotOrder[at[p] + 1] = "call" THEN Row
                                                              ELSE seen[p].call
      /\ seen'[p].facts = IF SnapshotOrder[at[p] + 1] = "facts" THEN db.facts
                                                                ELSE seen[p].facts
      /\ seen'[p].events = IF SnapshotOrder[at[p] + 1] = "events" THEN db.events
                                                                  ELSE seen[p].events
  BY <1>1, <1>2, Orders, FetchOrders, FetchTable
<1>4. DbGrows /\ UNCHANGED <<db, task>>
  BY <1>1 DEF Fetch, streamVars, summaryVars, DbGrows
<1>5. \A y \in Readers \ {p} : at'[y] = at[y] /\ seen'[y] = seen[y]
  BY <1>3 DEF ReaderTypes
<1>6. SeenInv(p)'
  <2>1. SeenInv(p) /\ Row.objective = db.objective
    BY <1>1 DEF ReadersInv, Row
  <2> QED BY <1>1, <1>3, <1>4, <2>1 DEF SeenInv, Caused, Has
<1>7. PageInv(p)'
  <2>1. at'[p] = at[p] + 1 /\ at[p] \in 0..4
    BY <1>1, <1>3 DEF ReaderTypes
  <2>2. SeenInv(p)
    BY <1>1 DEF ReadersInv
  <2>3. CASE at[p] # 3
    BY <2>1, <2>3 DEF PageInv
  <2>4. CASE at[p] = 3
    <3>1. /\ UNCHANGED <<seen[p].call, seen[p].facts>>
          /\ seen'[p].events = db.events
      BY <1>3, <2>4, Orders
    <3>2. StatusCaused(p)'
      BY <2>2, <3>1 DEF SeenInv, StatusCaused
    <3>3. \A n \in seen'[p].facts : <<"TOOL_COMPLETED", n>> \in seen'[p].events
      BY <1>1, <2>2, <3>1 DEF SeenInv, Caused, Has
    <3> QED BY <3>2, <3>3 DEF PageInv
  <2> QED BY <2>3, <2>4
<1>8. \A y \in Requests : Working(y) => Working(y)'
  BY <1>4 DEF Working
<1>9. Requests \subseteq Readers \ {p}
  BY RecordAssumption DEF Readers
<1> QED BY <1>3, <1>4, <1>5, <1>6, <1>7, <1>8, <1>9, ReaderKept
        DEF ReadersInv, Readers

\* Who reads nothing while the tables grow keeps what is known of it.
LEMMA ReadersKept ==
  ASSUME ReaderTypes, ReadersInv, DbGrows, UNCHANGED <<at, seen, material>>,
         \A r \in Requests : at[r] # 0 /\ Working(r) => Working(r)'
  PROVE  ReadersInv' /\ ReaderTypes'
<1>1. \A x \in Readers : at'[x] = at[x] /\ seen'[x] = seen[x]
  OBVIOUS
<1>2. ReaderTypes'
  BY DEF ReaderTypes
<1>3. \A r \in Requests : InputInv(r)'
  <2> SUFFICES ASSUME NEW r \in Requests PROVE InputInv(r)'
    OBVIOUS
  <2>1. r \in Readers /\ InputInv(r) /\ (StatusCaused(r) => StatusCaused(r)')
    BY <1>1, ReaderKept DEF Readers, ReadersInv
  <2> QED BY <1>1, <2>1 DEF InputInv
<1>4. \A x \in Readers : SeenInv(x)'
  BY <1>1, ReaderKept DEF ReadersInv
<1>5. \A p \in Pages : PageInv(p)'
  BY <1>1, ReaderKept DEF ReadersInv, Readers
<1> QED BY <1>2, <1>3, <1>4, <1>5 DEF ReadersInv

\* A request whose report is done or has failed forgets what it read.
LEMMA RequestForgets ==
  ASSUME ReaderTypes, ReadersInv, DbGrows, NEW r \in Requests, Forget(r),
         material' \in Snapshots,
         \A s \in Requests \ {r} : Working(s) => Working(s)'
  PROVE  ReadersInv' /\ ReaderTypes'
<1>1. /\ r \in Readers /\ at'[r] = 0 /\ seen'[r] = Blank
      /\ \A x \in Readers \ {r} : at'[x] = at[x] /\ seen'[x] = seen[x]
  BY DEF Forget, ReaderTypes, Readers
<1>2. ReaderTypes'
  <2>0. at' = [at EXCEPT ![r] = 0] /\ at \in [Readers -> 0..4]
    BY DEF Forget, ReaderTypes
  <2>1. at' \in [Readers -> 0..4]
    BY <1>1, <2>0
  <2>2. seen' \in [Readers -> Snapshots]
    <3> HIDE DEF Snapshots
    <3> QED BY BlankType DEF Forget, ReaderTypes
  <2> QED BY <2>1, <2>2 DEF ReaderTypes
<1>3. Pages \subseteq Readers \ {r}
  BY RecordAssumption DEF Readers
<1>4. SeenInv(r)' /\ InputInv(r)'
  BY <1>1, ReaderForgot
<1>5. \A s \in Requests \ {r} : InputInv(s)'
  BY <1>1, ReaderKept DEF ReadersInv, Readers
<1>6. \A x \in Readers \ {r} : SeenInv(x)'
  BY <1>1, ReaderKept DEF ReadersInv
<1>7. \A p \in Pages : PageInv(p)'
  BY <1>1, <1>3, ReaderKept DEF ReadersInv
<1> QED BY <1>2, <1>4, <1>5, <1>6, <1>7 DEF ReadersInv

LEMMA ReportReaders ==
  ASSUME SummaryTypeOK, ReaderTypes, ReadersInv,
         NEW r \in Requests, Report(r) \/ ReportWriteFails(r)
  PROVE  ReadersInv' /\ ReaderTypes'
<1>1. DbGrows
  BY DEF Report, ReportWriteFails, streamVars, DbGrows
<1>2. r \in Readers /\ (at[r] # 0 => Working(r)) /\ seen[r] \in Snapshots
  BY DEF Readers, ReadersInv, InputInv, ReaderTypes
<1>3. CASE Claim(r) /\ NotReading
  BY <1>1, <1>2, <1>3, ReadersKept
  DEF Claim, Goto, NotReading, SummaryTypeOK, Working
<1>4. CASE RequestReport(r)
  BY <1>1, <1>4, ReadersKept
  DEF RequestReport, Generate, Goto, SummaryTypeOK, Working
<1>5. CASE RecordGenerated(r) /\ NotReading
  BY <1>1, <1>2, <1>5, ReadersKept
  DEF RecordGenerated, Goto, NotReading, SummaryTypeOK, Working
<1>6. CASE SaveReport(r) /\ material' = seen[r] /\ Forget(r)
  BY <1>1, <1>2, <1>6, RequestForgets DEF SaveReport, Goto, SummaryTypeOK, Working
<1>7. CASE SaveFailure(r) /\ Forget(r) /\ UNCHANGED material
  <2>1. material' \in Snapshots
    BY <1>7 DEF ReaderTypes
  <2> QED BY <1>1, <1>7, <2>1, RequestForgets
          DEF SaveFailure, Goto, SummaryTypeOK, Working
<1>8. CASE ReportWriteFails(r)
  <2>1. material' \in Snapshots
    BY <1>8 DEF ReportWriteFails, ReaderTypes
  <2> QED BY <1>1, <1>8, <2>1, RequestForgets
          DEF ReportWriteFails, WriteFails, Goto, SummaryTypeOK, Working
<1> QED BY <1>3, <1>4, <1>5, <1>6, <1>7, <1>8 DEF Report

\* What a reader may say of what it has read stays true, and so do the types.
LEMMA ReadersStepInv ==
  ASSUME StreamInv, SummaryTypeOK, ReaderTypes, ReadersInv,
         [RecordNext]_recordVars
  PROVE  ReadersInv' /\ ReaderTypes'
<1>0. StreamTypeOK
  BY DEF StreamInv
<1>1. CASE Stream
  <2>1. UNCHANGED <<at, seen, material, task>> /\ DbGrows
    BY <1>0, <1>1, StreamGrows DEF Stream, StreamAlone, summaryVars
  <2> QED BY <2>1, ReadersKept DEF Working
<1>2. CASE CallCompleted \/ OwnerHangsUp \/ OwnerSaves
  <2>1. UNCHANGED <<at, seen, material>> /\ DbGrows
    BY <1>0, <1>2 DEF CallCompleted, OwnerHangsUp, OwnerSaves, NotReading,
                      StreamTypeOK, Tables, DbGrows
  <2>2. \A r \in Requests : Working(r) => Working(r)'
    BY <1>2, RecordAssumption
    DEF CallCompleted, OwnerHangsUp, OwnerSaves, Ask, Goto, summaryVars,
        SummaryTypeOK, Working
  <2> QED BY <2>1, <2>2, ReadersKept
<1>3. ASSUME NEW r \in Requests, Retry(r) PROVE ReadersInv' /\ ReaderTypes'
  <2>1. UNCHANGED <<at, seen, material>> /\ DbGrows
    BY <1>3 DEF Retry, NotReading, streamVars, DbGrows
  <2>2. \A s \in Requests : Working(s) => Working(s)'
    BY <1>3 DEF Retry, Ask, Goto, SummaryTypeOK, Working
  <2> QED BY <2>1, <2>2, ReadersKept
<1>4. ASSUME NEW r \in Requests, ReadInput(r) \/ Report(r) \/ ReportWriteFails(r)
      PROVE  ReadersInv' /\ ReaderTypes'
  BY <1>4, ReadInputInv, ReportReaders
<1>5. ASSUME NEW p \in Pages, ReadPage(p) PROVE ReadersInv' /\ ReaderTypes'
  BY <1>5, ReadPageInv
<1>6. ASSUME NEW p \in Pages, LookAgain(p) PROVE ReadersInv' /\ ReaderTypes'
  <2>1. /\ p \in Readers \ Requests /\ at' = [at EXCEPT ![p] = 0]
        /\ UNCHANGED <<seen, material, db, task>>
    BY <1>6, RecordAssumption DEF LookAgain, Readers, streamVars, summaryVars
  <2>2. at'[p] = 0 /\ \A x \in Readers \ {p} : at'[x] = at[x]
    BY <2>1 DEF ReaderTypes
  <2>3. ReaderTypes'
    BY <2>1 DEF ReaderTypes
  <2>4. \A x \in Readers : SeenInv(x)'
    BY <2>1 DEF ReadersInv, SeenInv
  <2>5. \A r \in Requests : InputInv(r)'
    BY <2>1, <2>2 DEF ReadersInv, InputInv, StatusCaused, Working, Readers
  <2>6. \A q \in Pages : PageInv(q)'
    BY <2>1, <2>2 DEF ReadersInv, PageInv, StatusCaused, Readers
  <2> QED BY <2>3, <2>4, <2>5, <2>6 DEF ReadersInv
<1>7. CASE Crash
  <2>1. \A x \in Readers : at'[x] = 0 /\ seen'[x] = Blank
    BY <1>7 DEF Crash
  <2>2. ReaderTypes'
    <3> HIDE DEF Snapshots
    <3> QED BY <1>7, BlankType DEF Crash, ReaderTypes
  <2> QED BY <2>1, <2>2, ReaderForgot DEF ReadersInv, Readers
<1>8. CASE UNCHANGED recordVars
  BY <1>8, ReadersKept DEF recordVars, streamVars, summaryVars, DbGrows, Working
<1> QED BY <1>1, <1>2, <1>3, <1>4, <1>5, <1>6, <1>7, <1>8 DEF RecordNext
-----------------------------------------------------------------------------
(* The end of the call *)

\* Once the application has ended the stream, the endpoint does nothing more.
LEMMA StreamOver == ASSUME StreamInv, phone = "stream", handler = "closed"
                    PROVE  ~StreamNext
<1>1. o = "off"
  BY DEF StreamInv
<1> QED
  BY <1>1
  DEF StreamNext, Progress, ReceiveMessage, ToolCalled, Transcript, ReceiveDisconnect,
      UpdateCall, StreamStarted, Endpoint, RecordAlways, Connect, Connected,
      Disconnected, Close, Write, RecordWithConsent, Submit, TEnds, GoodbyeHeard,
      OEnds, RelayEnds, RemoteHangsUp, Writing

LEMMA StreamCompletes ==
  ASSUME StreamInv, StreamNext, ~db.completed
  PROVE  ~db'.completed
<1>0. StreamTypeOK /\ Written.completed = db.completed
  <2> USE DEF StreamInv, StreamTypeOK, Tables
  <2>1. CASE o = "completed"
    BY <2>1 DEF Written, With
  <2>2. CASE o = "fact"
    BY <2>2 DEF Written
  <2>3. CASE o = "objective"
    BY <2>3 DEF Written
  <2>4. CASE o = "effect"
    BY <2>4 DEF Written, With
  <2>5. CASE o = "transcript"
    BY <2>5 DEF Written
  <2>6. CASE o \notin {"completed", "fact", "objective", "effect", "transcript"}
    BY <2>6 DEF Written
  <2> QED BY <2>1, <2>2, <2>3, <2>4, <2>5, <2>6
<1>1. CASE UpdateCall
  BY <1>0, <1>1 DEF UpdateCall, Endpoint, StreamTypeOK, Tables
<1>2. CASE Write \/ TEnds \/ GoodbyeHeard \/ OEnds
  BY <1>0, <1>2 DEF Write, TEnds, GoodbyeHeard, OEnds, RelayEnds
<1>3. CASE \/ \E m \in Messages : ReceiveMessage(m)
           \/ \E name \in Tools, valid \in BOOLEAN : ToolCalled(name, valid)
           \/ Transcript \/ ReceiveDisconnect \/ StreamStarted \/ RecordAlways
           \/ Connect \/ Connected \/ Disconnected \/ Close
           \/ RecordWithConsent \/ Submit \/ RemoteHangsUp
  BY <1>3
  DEF ReceiveMessage, ToolCalled, Transcript, ReceiveDisconnect, StreamStarted,
      Endpoint, RecordAlways, Connect, Connected, Disconnected, Close,
      RecordWithConsent, Submit, RemoteHangsUp
<1> QED BY <1>1, <1>2, <1>3 DEF StreamNext, Progress

\* Only Close ends the call for the application, and it is its last step.
LEMMA StreamPhone ==
  ASSUME StreamInv, StreamNext
  PROVE  /\ phone' = "live" => phone = "live"
         /\ phone' = "stream" =>
               phone = "stream" \/ (phone = "live" /\ handler' = "closed")
<1>1. CASE Close
  BY <1>1 DEF Close
<1>2. CASE RemoteHangsUp
  BY <1>2 DEF RemoteHangsUp
<1>3. CASE /\ ~Close /\ ~RemoteHangsUp
  BY <1>3
  DEF StreamNext, Progress, ReceiveMessage, ToolCalled, Transcript, ReceiveDisconnect,
      UpdateCall, StreamStarted, Endpoint, RecordAlways, Connect, Connected,
      Disconnected, Write, RecordWithConsent, Submit, TEnds, GoodbyeHeard,
      OEnds, RelayEnds, HandlerOnly, OUnchanged
<1> QED BY <1>1, <1>2, <1>3

LEMMA EndStream ==
  ASSUME StreamInv, ReaderTypes, ReadersInv, EndInv, Stream
  PROVE  EndInv'
<1>1. StreamNext /\ UNCHANGED <<owner, at, seen, material, report, task>>
  BY DEF Stream, StreamAlone, summaryVars
<1>2. phone # "stream"
  BY <1>1, StreamOver DEF EndInv
<1>3. phone' = "stream" => handler' = "closed"
  BY <1>1, <1>2, StreamPhone
<1>4. NotEnded'
  BY <1>1, StreamPhone, StreamCompletes DEF EndInv, NotEnded
<1>5. NothingMissed'
  <2> SUFFICES ASSUME owner = "idle", phone = "live" PROVE NothingMissed'
    BY <1>1, <1>2, StreamPhone DEF NothingMissed
  <2>1. report' = 0 /\ \A r \in Requests : task'[r] = "idle"
    BY <1>1 DEF EndInv, NotEnded
  <2>2. \A r \in Requests : at'[r] = 0
    BY <1>1, <2>1 DEF ReadersInv, InputInv, Working, ReaderTypes, Readers
  <2>3. \A r \in Requests : UpToDate(seen[r], at[r])'
    BY <2>2 DEF UpToDate
  <2> QED BY <2>1, <2>3 DEF NothingMissed
<1> QED BY <1>3, <1>4, <1>5 DEF EndInv
LEMMA EndOwner ==
  ASSUME StreamTypeOK, SummaryTypeOK, EndInv,
         CallCompleted \/ OwnerHangsUp \/ OwnerSaves
  PROVE  EndInv'
<1>1. CASE CallCompleted
  <2>1. /\ UNCHANGED <<phone, handler, owner, at, seen, material, report>>
        /\ phone # "live"
        /\ UNCHANGED <<db.objective, db.events, db.transcripts, db.facts>>
    BY <1>1
    DEF CallCompleted, NotReading, Ask, summaryVars, StreamTypeOK, Tables
  <2>2. \A r \in Requests : task'[r] = "save" => task[r] = "save"
    BY <1>1, RecordAssumption
    DEF CallCompleted, Ask, Goto, summaryVars, SummaryTypeOK
  <2> QED BY <2>1, <2>2 DEF EndInv, NotEnded, NothingMissed, UpToDate
<1>2. CASE OwnerHangsUp
  BY <1>2 DEF OwnerHangsUp, EndInv, NotEnded, NothingMissed
<1>3. CASE OwnerSaves
  BY <1>3 DEF OwnerSaves, EndInv, NotEnded, NothingMissed
<1> QED BY <1>1, <1>2, <1>3

\* What was read of a finished conversation stays all there is to read.
LEMMA EndReadInput ==
  ASSUME StreamTypeOK, SummaryTypeOK, ReaderTypes, EndInv,
         NEW r \in Requests, ReadInput(r)
  PROVE  EndInv'
<1>1. r \in Readers /\ Fetch(r, InputOrder) /\ task[r] = "request"
  BY DEF Readers, ReadInput
<1>2. UNCHANGED <<phone, handler, owner, db, report, task, material>>
  BY <1>1 DEF Fetch, OthersUnchanged, streamVars, summaryVars
<1>3. at[r] < 4
  BY <1>1, Orders DEF Fetch
<1>4. /\ at' = [at EXCEPT ![r] = at[r] + 1]
      /\ \A y \in Readers \ {r} : seen'[y] = seen[y]
      /\ seen'[r].call = IF InputOrder[at[r] + 1] = "call" THEN Row
                                                           ELSE seen[r].call
      /\ seen'[r].transcripts = IF InputOrder[at[r] + 1] = "transcripts"
                                  THEN db.transcripts ELSE seen[r].transcripts
      /\ seen'[r].facts = IF InputOrder[at[r] + 1] = "facts" THEN db.facts
                                                             ELSE seen[r].facts
      /\ seen'[r].events = IF InputOrder[at[r] + 1] = "events" THEN db.events
                                                               ELSE seen[r].events
  BY <1>1, <1>3, Orders, FetchOrders, FetchTable
<1>5. NotEnded'
  BY <1>1, <1>2 DEF EndInv, NotEnded
<1>6. NothingMissed'
  <2> SUFFICES ASSUME owner = "idle", phone = "stream" PROVE NothingMissed'
    BY <1>2 DEF NothingMissed
  <2>1. UpToDate(seen[r], at[r]) /\ at[r] \in 0..4 /\ at'[r] = at[r] + 1
    BY <1>1, <1>4 DEF EndInv, NothingMissed, ReaderTypes
  <2>2. UpToDate(seen[r], at[r])'
    <3>1. CASE at[r] = 0
      BY <1>2, <1>4, <2>1, <3>1, Orders, CurrentType DEF UpToDate
    <3>2. CASE at[r] = 1
      BY <1>2, <1>4, <2>1, <3>2, Orders DEF UpToDate
    <3>3. CASE at[r] = 2
      BY <1>2, <1>4, <2>1, <3>3, Orders DEF UpToDate
    <3>4. CASE at[r] = 3
      BY <1>2, <1>4, <2>1, <3>4, Orders DEF UpToDate
    <3> QED BY <1>3, <2>1, <3>1, <3>2, <3>3, <3>4
  <2>3. \A s \in Requests \ {r} : at'[s] = at[s] /\ seen'[s] = seen[s]
    BY <1>4 DEF ReaderTypes, Readers
  <2>4. \A s \in Requests \ {r} : UpToDate(seen[s], at[s])'
    BY <1>2, <2>3 DEF EndInv, NothingMissed, UpToDate
  <2>5. \A s \in Requests : task'[s] = "save" => at'[s] = 4
    BY <1>1, <1>2, <2>3 DEF EndInv, NothingMissed
  <2>6. report' # 0 => UpToDate(material, 4)'
    BY <1>2 DEF EndInv, NothingMissed, UpToDate
  <2> QED BY <2>2, <2>4, <2>5, <2>6 DEF NothingMissed
<1> QED BY <1>2, <1>5, <1>6 DEF EndInv

\* A report is made of all that was read, and all was read.
LEMMA EndReport ==
  ASSUME SummaryTypeOK, ReaderTypes, EndInv,
         NEW r \in Requests, Report(r) \/ ReportWriteFails(r)
  PROVE  EndInv'
<1>1. UNCHANGED <<phone, handler, owner, db>> /\ r \in Readers
  BY DEF Report, ReportWriteFails, OthersUnchanged, streamVars, Readers
<1>2. task[r] # "idle" /\ \A s \in Requests \ {r} : task'[s] = task[s]
  BY DEF Report, ReportWriteFails, Claim, RequestReport, Generate, SaveReport,
         SaveFailure, RecordGenerated, WriteFails, Goto, SummaryTypeOK
<1>3. NotEnded'
  BY <1>1, <1>2 DEF EndInv, NotEnded
<1>4. NothingMissed'
  <2> SUFFICES ASSUME owner = "idle", phone = "stream" PROVE NothingMissed'
    BY <1>1 DEF NothingMissed
  <2>0. NothingMissed
    BY DEF EndInv
  <2>1. CASE UNCHANGED <<at, seen, material, report>>
    <3>1. task'[r] = "save" => task[r] = "save" \/ at[r] = 4
      BY <2>1, Orders
      DEF Report, ReportWriteFails, Claim, RequestReport, Generate, SaveReport,
          SaveFailure, RecordGenerated, WriteFails, Goto, SummaryTypeOK
    <3> QED BY <1>1, <1>2, <2>0, <2>1, <3>1 DEF NothingMissed, UpToDate
  <2>2. CASE Forget(r) /\ task'[r] # "save"
    <3>1. at'[r] = 0 /\ \A s \in Requests \ {r} : at'[s] = at[s] /\ seen'[s] = seen[s]
      BY <2>2 DEF Forget, ReaderTypes, Readers
    <3>2. report' # 0 => UpToDate(material, 4)'
      <4>1. CASE SaveReport(r) /\ material' = seen[r]
        <5>1. UpToDate(seen[r], 4)
          BY <2>0, <4>1 DEF SaveReport, NothingMissed
        <5> QED BY <1>1, <4>1, <5>1 DEF UpToDate
      <4>2. CASE UNCHANGED <<report, material>>
        BY <1>1, <2>0, <4>2 DEF NothingMissed, UpToDate
      <4> QED BY <2>2, <4>1, <4>2
              DEF Report, ReportWriteFails, Claim, RequestReport, Generate,
                  SaveFailure, RecordGenerated, WriteFails, NotReading
    <3>3. UpToDate(seen[r], at[r])'
      BY <3>1 DEF UpToDate
    <3> QED BY <1>1, <1>2, <2>0, <2>2, <3>1, <3>2, <3>3 DEF NothingMissed, UpToDate
  <2>3. Claim(r) \/ RequestReport(r) \/ RecordGenerated(r) => UNCHANGED report
    BY DEF Claim, RequestReport, Generate, RecordGenerated
  <2>4. SaveReport(r) \/ SaveFailure(r) \/ ReportWriteFails(r) => task'[r] # "save"
    BY DEF SaveReport, SaveFailure, ReportWriteFails, WriteFails, Goto, SummaryTypeOK
  <2> QED BY <2>1, <2>2, <2>3, <2>4
          DEF Report, ReportWriteFails, NotReading, RequestReport
<1> QED BY <1>1, <1>3, <1>4 DEF EndInv

LEMMA EndStepInv ==
  ASSUME StreamInv, SummaryTypeOK, ReaderTypes, ReadersInv, EndInv,
         [RecordNext]_recordVars
  PROVE  EndInv'
<1>0. StreamTypeOK
  BY DEF StreamInv
<1>1. CASE Stream
  BY <1>1, EndStream
<1>2. CASE CallCompleted \/ OwnerHangsUp \/ OwnerSaves
  BY <1>0, <1>2, EndOwner
<1>3. ASSUME NEW r \in Requests, Retry(r) PROVE EndInv'
  <2>1. UNCHANGED <<phone, handler, owner, db, at, seen, material, report>>
    BY <1>3 DEF Retry, Ask, NotReading, OthersUnchanged, streamVars
  <2>2. \A s \in Requests : task'[s] = "save" => task[s] = "save"
    BY <1>3 DEF Retry, Ask, Goto, SummaryTypeOK
  <2>3. db.completed
    BY <1>3 DEF Retry
  <2> QED BY <2>1, <2>2, <2>3 DEF EndInv, NotEnded, NothingMissed, UpToDate
<1>4. ASSUME NEW r \in Requests, ReadInput(r) \/ Report(r) \/ ReportWriteFails(r)
      PROVE  EndInv'
  BY <1>0, <1>4, EndReadInput, EndReport
<1>5. ASSUME NEW p \in Pages, ReadPage(p) \/ LookAgain(p) PROVE EndInv'
  <2>1. /\ UNCHANGED <<phone, handler, owner, db, report, task, material>>
        /\ \A r \in Requests : at'[r] = at[r] /\ seen'[r] = seen[r]
    BY <1>5, RecordAssumption
    DEF ReadPage, Fetch, LookAgain, OthersUnchanged, streamVars, summaryVars,
        ReaderTypes, Readers
  <2> QED BY <2>1 DEF EndInv, NotEnded, NothingMissed, UpToDate
<1>6. CASE Crash
  <2>1. /\ handler' = "closed" /\ phone' # "live" /\ UNCHANGED <<report, material>>
        /\ \A r \in Requests : task'[r] = "idle" /\ at'[r] = 0
    BY <1>6 DEF Crash, Abandon, Readers
  <2>2. ASSUME owner' = "idle", phone' = "stream", report' # 0
        PROVE  UpToDate(material, 4)'
    <3>1. owner = "idle" /\ phone = "stream" /\ report # 0
      BY <1>6, <2>1, <2>2 DEF Crash, EndInv, NotEnded
    <3>2. o = "off"
      BY <3>1 DEF EndInv, StreamInv
    <3>3. db' = db
      BY <1>6, <3>2 DEF Crash, Written
    <3> QED BY <2>1, <3>1, <3>3 DEF EndInv, NothingMissed, UpToDate
  <2>3. \A r \in Requests : UpToDate(seen[r], at[r])'
    BY <2>1 DEF UpToDate
  <2> QED BY <2>1, <2>2, <2>3 DEF EndInv, NotEnded, NothingMissed
<1>7. CASE UNCHANGED recordVars
  BY <1>7 DEF recordVars, streamVars, summaryVars, EndInv, NotEnded, NothingMissed,
              UpToDate
<1> QED BY <1>1, <1>2, <1>3, <1>4, <1>5, <1>6, <1>7 DEF RecordNext-----------------------------------------------------------------------------
(* The record *)

RecordRest ==
    /\ owner \in {"idle", "save", "done"}
    /\ delivered \in BOOLEAN /\ crashed \in BOOLEAN

LEMMA RecordParts ==
  RecordInv <=> /\ StreamInv /\ SummaryInv /\ ReaderTypes /\ ReadersInv /\ EndInv
                /\ RecordRest
<1>1. StreamInv => StreamTypeOK
  BY DEF StreamInv
<1>2. SummaryInv => SummaryTypeOK
  BY DEF SummaryInv
<1> QED BY <1>1, <1>2 DEF RecordInv, RecordTypeOK, ReaderTypes, RecordRest

LEMMA RecordPartsNext ==
  StreamInv' /\ SummaryInv' /\ ReaderTypes' /\ ReadersInv' /\ EndInv' /\ RecordRest'
    => RecordInv'
<1>1. StreamInv' => StreamTypeOK'
  BY DEF StreamInv
<1>2. SummaryInv' => SummaryTypeOK'
  BY DEF SummaryInv
<1> QED BY <1>1, <1>2 DEF RecordInv, RecordTypeOK, ReaderTypes, RecordRest

LEMMA RecordInitInv == RecordInit => RecordInv
<1> SUFFICES ASSUME RecordInit PROVE RecordInv
  OBVIOUS
<1>1. StreamInv /\ SummaryInv
  BY InitStreamInv, SummaryInitInv DEF RecordInit
<1>2. ReaderTypes
  <2> HIDE DEF Snapshots
  <2> QED BY BlankType DEF RecordInit, ReaderTypes
<1>3. ReadersInv
  BY DEF RecordInit, ReadersInv, SeenInv, InputInv, PageInv, Blank, Readers
<1>4. EndInv
  BY DEF RecordInit, StreamInit, SummaryInit, EndInv, NotEnded, NothingMissed
<1>5. RecordRest
  BY DEF RecordInit, RecordRest
<1> QED BY <1>1, <1>2, <1>3, <1>4, <1>5, RecordParts

LEMMA RecordStepInv == RecordInv /\ [RecordNext]_recordVars => RecordInv'
<1> SUFFICES ASSUME RecordInv, [RecordNext]_recordVars PROVE RecordInv'
  OBVIOUS
<1>0. /\ StreamInv /\ SummaryInv /\ SummaryTypeOK /\ ReaderTypes /\ ReadersInv
      /\ EndInv /\ RecordRest
  BY RecordParts DEF SummaryInv
<1>1. StreamInv' /\ SummaryInv'
  BY <1>0, RecordStreamInv, StepSummary, SummaryStepInv
<1>2. ReadersInv' /\ ReaderTypes' /\ EndInv'
  BY <1>0, ReadersStepInv, EndStepInv
<1>3. RecordRest'
  BY <1>0
  DEF RecordRest, RecordNext, recordVars, Stream, StreamAlone, CallCompleted,
      OwnerHangsUp, OwnerSaves, Retry, ReadInput, Fetch, Report, ReportWriteFails,
      ReadPage, LookAgain, Crash, OthersUnchanged
<1> QED BY <1>1, <1>2, <1>3, RecordPartsNext

\* What the stream, the readers and the end of the call say of one another in
\* every state (media_stream, _input, _snapshot, call_status, end_call).
THEOREM RecordInvariant == RecordSpec => []RecordInv
  BY RecordInitInv, RecordStepInv, PTL DEF RecordSpec

\* However their reads fall, a page and a report have an objective status only
\* with the outcome that caused it. So has a page its facts; a report, which
\* reads the facts behind the events, has its facts with their outcomes when the
\* application ended the stream and no owner the call (_snapshot, _input,
\* _persist_tool_result).
THEOREM CauseAlwaysShown == RecordSpec => []CauseShown
<1>1. RecordInv => CauseShown
  <2> SUFFICES ASSUME RecordInv, NEW x \in Readers, at[x] = 4
               PROVE  /\ StatusCaused(x)
                      /\ x \in Pages \/ (phone = "stream" /\ owner = "idle") =>
                            \A n \in seen[x].facts :
                               <<"TOOL_COMPLETED", n>> \in seen[x].events
    BY DEF CauseShown, StatusCaused
  <2>1. CASE x \in Requests
    <3>1. StatusCaused(x)
      BY <2>1 DEF RecordInv, ReadersInv, InputInv
    <3>2. ASSUME phone = "stream", owner = "idle"
          PROVE  \A n \in seen[x].facts :
                     <<"TOOL_COMPLETED", n>> \in seen[x].events
      <4>1. UpToDate(seen[x], 4)
        BY <2>1, <3>2 DEF RecordInv, EndInv, NothingMissed
      <4>2. \A n \in db.facts : <<"TOOL_COMPLETED", n>> \in db.events
        BY DEF RecordInv, StreamInv, EffectInv, Caused, Has
      <4>3. seen[x].facts = db.facts /\ seen[x].events = db.events
        BY <4>1 DEF UpToDate
      <4> QED BY <4>2, <4>3
    <3> QED BY <2>1, <3>1, <3>2, RecordAssumption
  <2>2. CASE x \in Pages
    BY <2>2 DEF RecordInv, ReadersInv, PageInv
  <2> QED BY <2>1, <2>2 DEF Readers
<1> QED BY <1>1, RecordInvariant, PTL

\* The report of a call the application ended misses nothing of it
\* (media_stream, call_status, generate).
THEOREM ReportAlwaysComplete == RecordSpec => []ReportComplete
<1>1. RecordInv => ReportComplete
  <2> SUFFICES ASSUME RecordInv, phone = "stream", owner = "idle", report # 0
               PROVE  UpToDate(material, 4)
    BY DEF ReportComplete, UpToDate
  <2> QED BY DEF RecordInv, EndInv, NothingMissed
<1> QED BY <1>1, RecordInvariant, PTL

\* The conversation and its end do not disturb the report's columns: there is
\* one generation at a time, and one report for good (generate, claim_summary).
THEOREM PromiseKeptInRecord == RecordSpec => []OneGeneration /\ ReportPromise
  BY SummaryInRecord, OneGenerationAlways, PromiseKept, PTL
=============================================================================
