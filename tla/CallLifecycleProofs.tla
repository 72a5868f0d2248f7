------------------------ MODULE CallLifecycleProofs ------------------------
(***************************************************************************)
(* Proofs about CallLifecycle, for any number of owners' requests and      *)
(* retries, any bounds and any combination of the failures.                *)
(***************************************************************************)
EXTENDS CallLifecycle, PostCallSummaryProofs

-----------------------------------------------------------------------------
(* The application uses the summary service as PostCallSummary says *)

LEMMA StepSummary == [Next]_vars => [SummaryNext]_summaryVars
<1> SUFFICES ASSUME [Next]_vars PROVE [SummaryNext]_summaryVars
  OBVIOUS
<1> USE LifecycleAssumption
<1>1. CASE Creator
  BY <1>1 DEF Creator, Insert, Dial, CreatorLoads, CreatorSaves,
              CreatorRecords, CreatorUnchanged
<1>2. CASE Progress
  BY <1>2 DEF Progress
<1>3. ASSUME NEW s \in CallStatuses, NEW n \in 1..2, Callback(s, n)
      PROVE  [SummaryNext]_summaryVars
  <2>1. CASE Deliver(s, n) \/ CallbackRecords(s, n) \/ CallbackLoads(s, n)
    BY <2>1 DEF Deliver, CallbackRecords, CallbackLoads
  <2>2. CASE CallbackSaves(s, n)
    <3>1. Ask(CallbackTask) \/ UNCHANGED summaryVars
      BY <2>2 DEF CallbackSaves
    <3> QED BY <3>1 DEF SummaryNext
  <2> QED BY <1>3, <2>1, <2>2 DEF Callback
<1>4. CASE Media
  BY <1>4 DEF Media, MediaStart, MediaLoads, MediaSaves, MediaRecords,
              MediaEnds, MediaUnchanged
<1>5. ASSUME NEW o \in Owners, End(o) PROVE UNCHANGED summaryVars
  BY <1>5 DEF End, EndGets, EndHangsUp, EndLoads, EndSaves, EndRecords,
              OwnerUnchanged
<1>6. ASSUME NEW r \in Requests, Retry(r) PROVE SummaryNext
  BY <1>6 DEF Retry, SummaryNext
<1>7. CASE Summarise
  BY <1>7 DEF Summarise, SummaryNext
<1>8. CASE Crash
  BY <1>8 DEF Crash, SummaryNext
<1>9. CASE UNCHANGED vars
  BY <1>9 DEF vars
<1> QED BY <1>1, <1>2, <1>3, <1>4, <1>5, <1>6, <1>7, <1>8, <1>9 DEF Next

\* No handler of the application touches the summary columns but through
\* the service, so what is proved of the service holds here (call_status,
\* retry_summary).
THEOREM SummaryUsed == Spec => SummaryImplemented
<1>1. Init => SummaryInit
  BY DEF Init
<1> QED BY <1>1, StepSummary, PTL DEF Spec, SummaryImplemented, SummarySpec

\* Over the whole application, one request at a time generates the report.
THEOREM OneGenerationInCall == Spec => []OneGeneration
  BY SummaryUsed, OneGenerationAlways, PTL DEF SummaryImplemented
-----------------------------------------------------------------------------
(* Types: the repository's operations *)

RowType ==
    /\ status \in Statuses
    /\ sid_known \in BOOLEAN /\ ended \in BOOLEAN
    /\ keys \subseteq EventKeys
    /\ loaded \in [Handlers -> Statuses]

HandlerType ==
    /\ in_store \in BOOLEAN /\ crashed \in BOOLEAN
    /\ creator \in CreatorPc
    /\ callback \in [Deliveries -> CallbackPc]
    /\ media \in MediaPc
    /\ owner \in [Owners -> OwnerPc]
    /\ provider \in CallStatuses \cup {"none"}
    /\ sent \in Seq(CallStatuses)
    /\ overtaken \in BOOLEAN /\ scheduled \in Nat /\ unasked \subseteq Owners

LEMMA TypeParts == LifecycleTypeOK <=> RowType /\ HandlerType
  BY DEF LifecycleTypeOK, RowType, HandlerType

LEMMA RowSame == RowType /\ UNCHANGED <<rowVars, loaded>> => RowType'
  BY DEF RowType, rowVars

LEMMA LoadType == ASSUME RowType, NEW h \in Handlers, Load(h) PROVE RowType'
  BY DEF RowType, Load, rowVars

LEMMA SaveType ==
  ASSUME RowType, NEW h \in Handlers, NEW new \in Statuses,
         NEW sid \in BOOLEAN, NEW end \in BOOLEAN, Save(h, new, sid, end)
  PROVE  RowType'
<1>1. "none" \in Statuses
  BY DEF Statuses
<1> QED BY <1>1 DEF RowType, Save

LEMMA RecordType ==
  ASSUME RowType, NEW key \in EventKeys, Record(key) PROVE RowType'
  BY DEF RowType, Record

LEMMA DedupeKeyType == \A s \in CallStatuses : DedupeKey(s) \in EventKeys
  BY DEF DedupeKey, EventKeys

LEMMA SomeHandlers ==
    /\ TheCreator \in Handlers /\ TheMedia \in Handlers
    /\ \A o \in Owners : EndRequest(o) \in Handlers
    /\ \A s \in CallStatuses, n \in 1..2 :
          <<s, n>> \in Handlers /\ <<s, n>> \in Deliveries
  BY DEF Handlers, Deliveries

LEMMA SomeStatuses ==
    /\ CallStatuses \subseteq Statuses
    /\ {"none", "created", "simulated", "queued", "failed", "in-progress",
        "completed"} \subseteq Statuses
    /\ {"queued", "initiated", "ringing", "in-progress", "completed"}
          \subseteq CallStatuses
    /\ Failures \subseteq CallStatuses
  BY LifecycleAssumption DEF Statuses, CallStatuses, Ended, Live

LEMMA TwilioCallsType ==
  ASSUME HandlerType, NEW s \in CallStatuses, TwilioCalls(s)
  PROVE  provider' \in CallStatuses \cup {"none"} /\ sent' \in Seq(CallStatuses)
  BY DEF HandlerType, TwilioCalls
-----------------------------------------------------------------------------
(* Types: the handlers *)

LEMMA CreatorType == RowType /\ HandlerType /\ Creator => RowType' /\ HandlerType'
<1> SUFFICES ASSUME RowType, HandlerType, Creator
             PROVE  RowType' /\ HandlerType'
  OBVIOUS
<1> USE SomeHandlers, SomeStatuses DEF CreatorUnchanged, countVars, CreatorPc
<1>1. CASE Insert
  BY <1>1 DEF Insert, RowType, HandlerType, EventKeys
<1>2. CASE Dial
  BY <1>2, RowSame DEF Dial, HandlerType
<1>3. CASE CreatorLoads
  BY <1>3, LoadType DEF CreatorLoads, HandlerType
<1>4. CASE CreatorSaves
  <2>1. HandlerType'
    BY <1>4 DEF CreatorSaves, HandlerType
  <2>2. CASE creator = "accept_save" /\ Simulated
    BY <1>4, <2>2, <2>1, SaveType DEF CreatorSaves
  <2>3. CASE creator = "accept_save" /\ ~Simulated
    BY <1>4, <2>3, <2>1, SaveType DEF CreatorSaves
  <2>4. CASE creator = "refuse_save"
    BY <1>4, <2>4, <2>1, SaveType DEF CreatorSaves
  <2> QED BY <1>4, <2>2, <2>3, <2>4 DEF CreatorSaves
<1>5. CASE CreatorRecords
  <2>1. HandlerType'
    BY <1>5 DEF CreatorRecords, HandlerType
  <2>2. PICK key \in EventKeys : Record(key)
    BY <1>5 DEF CreatorRecords, EventKeys
  <2> QED BY <2>1, <2>2, RecordType
<1> QED BY <1>1, <1>2, <1>3, <1>4, <1>5 DEF Creator

LEMMA ProgressType ==
    RowType /\ HandlerType /\ Progress => RowType' /\ HandlerType'
<1> SUFFICES ASSUME RowType, HandlerType, Progress
             PROVE  RowType' /\ HandlerType'
  OBVIOUS
<1>1. PICK s \in CallStatuses : TwilioCalls(s)
  BY SomeStatuses DEF Progress
<1>2. RowType'
  BY RowSame DEF Progress, handlerVars
<1> QED BY <1>1, <1>2, TwilioCallsType
        DEF Progress, HandlerType, handlerVars, countVars

LEMMA CallbackType ==
  ASSUME RowType, HandlerType,
         NEW s \in CallStatuses, NEW n \in 1..2, Callback(s, n)
  PROVE  RowType' /\ HandlerType'
<1> USE SomeHandlers, SomeStatuses
<1> DEFINE HandlersKeep == UNCHANGED <<in_store, creator, media, owner, crashed,
                                       provider, sent, unasked>>
<1>1. ASSUME HandlersKeep, NEW pc \in CallbackPc, scheduled' \in Nat,
             overtaken' \in BOOLEAN,
             callback' = [callback EXCEPT ![<<s, n>>] = pc]
      PROVE  HandlerType'
  BY <1>1 DEF HandlerType
<1> USE DEF CallbackPc, CallbackUnchanged, twilioVars
<1>2. scheduled \in Nat /\ overtaken \in BOOLEAN
  BY DEF HandlerType
<1>3. CASE Deliver(s, n)
  <2>1. HandlerType'
    <3>1. overtaken' \in BOOLEAN
      BY <1>2, <1>3 DEF Deliver
    <3> QED BY <1>1, <1>2, <1>3, <3>1 DEF Deliver
  <2>2. RowType'
    BY <1>3, RowSame DEF Deliver
  <2> QED BY <2>1, <2>2
<1>4. CASE CallbackRecords(s, n)
  <2>1. HandlerType'
    BY <1>1, <1>2, <1>4 DEF CallbackRecords
  <2>2. RowType'
    BY <1>4, RecordType, DedupeKeyType DEF CallbackRecords
  <2> QED BY <2>1, <2>2
<1>5. CASE CallbackLoads(s, n)
  <2>1. HandlerType'
    BY <1>1, <1>2, <1>5 DEF CallbackLoads
  <2>2. RowType'
    BY <1>5, LoadType DEF CallbackLoads
  <2> QED BY <2>1, <2>2
<1>6. CASE CallbackSaves(s, n)
  <2>1. scheduled' \in Nat
    BY <1>2, <1>6 DEF CallbackSaves
  <2>2. HandlerType'
    BY <1>1, <1>2, <1>6, <2>1 DEF CallbackSaves
  <2>3. RowType'
    <3>1. Save(<<s, n>>, s, FALSE, s \in Ended)
      BY <1>6 DEF CallbackSaves
    <3>2. s \in Statuses /\ <<s, n>> \in Handlers
      OBVIOUS
    <3>3. CASE s \in Ended
      BY <3>1, <3>2, <3>3, SaveType
    <3>4. CASE s \notin Ended
      <4>1. Save(<<s, n>>, s, FALSE, FALSE)
        BY <3>1, <3>4 DEF Save
      <4> QED BY <3>2, <4>1, SaveType
    <3> QED BY <3>3, <3>4
  <2> QED BY <2>2, <2>3
<1> QED BY <1>3, <1>4, <1>5, <1>6 DEF Callback

LEMMA MediaStepType == RowType /\ HandlerType /\ Media => RowType' /\ HandlerType'
<1> SUFFICES ASSUME RowType, HandlerType, Media
             PROVE  RowType' /\ HandlerType'
  OBVIOUS
<1> USE SomeHandlers, SomeStatuses DEF MediaUnchanged, countVars, MediaPc
<1>1. CASE MediaStart
  BY <1>1, RowSame DEF MediaStart, HandlerType
<1>2. CASE MediaLoads
  BY <1>2, LoadType DEF MediaLoads, HandlerType
<1>3. CASE MediaSaves
  BY <1>3, SaveType DEF MediaSaves, HandlerType
<1>4. CASE MediaRecords
  BY <1>4, RecordType DEF MediaRecords, HandlerType, EventKeys
<1>5. CASE MediaEnds
  <2>1. provider' \in CallStatuses \cup {"none"} /\ sent' \in Seq(CallStatuses)
    BY <1>5, TwilioCallsType DEF MediaEnds, HandlerType
  <2> QED BY <1>5, <2>1, RowSame DEF MediaEnds, HandlerType
<1> QED BY <1>1, <1>2, <1>3, <1>4, <1>5 DEF Media

LEMMA EndType ==
  ASSUME RowType, HandlerType, NEW o \in Owners, End(o)
  PROVE  RowType' /\ HandlerType'
<1> USE SomeHandlers, SomeStatuses DEF OwnerUnchanged, OwnerPc
<1>1. CASE EndGets(o)
  BY <1>1, RowSame DEF EndGets, HandlerType
<1>2. CASE EndHangsUp(o)
  <2>1. provider' \in CallStatuses \cup {"none"} /\ sent' \in Seq(CallStatuses)
    BY <1>2, TwilioCallsType DEF EndHangsUp, HangUp, HandlerType
  <2>2. owner' \in [Owners -> OwnerPc]
    BY <1>2 DEF EndHangsUp, HangUp, HandlerType
  <2> QED BY <1>2, <2>1, <2>2, RowSame DEF EndHangsUp, HandlerType
<1>3. CASE EndLoads(o)
  BY <1>3, LoadType DEF EndLoads, HandlerType
<1>4. CASE EndSaves(o)
  BY <1>4, SaveType DEF EndSaves, HandlerType
<1>5. CASE EndRecords(o)
  BY <1>5, RecordType DEF EndRecords, HandlerType, EventKeys
<1> QED BY <1>1, <1>2, <1>3, <1>4, <1>5 DEF End

LEMMA CrashType == RowType /\ HandlerType /\ Crash => RowType' /\ HandlerType'
<1> SUFFICES ASSUME RowType, HandlerType, Crash
             PROVE  RowType' /\ HandlerType'
  OBVIOUS
<1>1. RowType'
  BY RowSame DEF Crash
<1>2. /\ creator' \in CreatorPc /\ media' \in MediaPc
      /\ callback' \in [Deliveries -> CallbackPc]
      /\ owner' \in [Owners -> OwnerPc]
  BY DEF Crash, HandlerType, CreatorPc, MediaPc, CallbackPc, OwnerPc
<1> QED BY <1>1, <1>2 DEF Crash, HandlerType, twilioVars, countVars

LEMMA StepType ==
    RowType /\ HandlerType /\ [Next]_vars => RowType' /\ HandlerType'
<1> SUFFICES ASSUME RowType, HandlerType, [Next]_vars
             PROVE  RowType' /\ HandlerType'
  OBVIOUS
<1>1. ASSUME RowUnchanged, UNCHANGED <<in_store, crashed>>
      PROVE  RowType' /\ HandlerType'
  BY <1>1, RowSame DEF RowUnchanged, HandlerType, handlerVars, twilioVars,
                       countVars
<1>2. ASSUME NEW r \in Requests, Retry(r) PROVE RowType' /\ HandlerType'
  BY <1>1, <1>2 DEF Retry
<1>3. CASE Summarise
  BY <1>1, <1>3 DEF Summarise
<1>4. CASE UNCHANGED vars
  BY <1>1, <1>4 DEF vars, RowUnchanged
<1>5. ASSUME NEW o \in Owners, End(o) PROVE RowType' /\ HandlerType'
  BY <1>5, EndType
<1>6. ASSUME NEW s \in CallStatuses, NEW n \in 1..2, Callback(s, n)
      PROVE  RowType' /\ HandlerType'
  BY <1>6, CallbackType
<1> QED BY <1>2, <1>3, <1>4, <1>5, <1>6, CreatorType, ProgressType,
           MediaStepType, CrashType
        DEF Next
-----------------------------------------------------------------------------
(* Scheduling *)

\* The "completed" callback is between record_event and its end
Completing(m) == callback[<<"completed", m>>] \in {"load", "save"}

\* A step that lets no "completed" callback pass record_event, and none leave
\* update_call unless the process dies, keeps it.
LEMMA SchedulingKept ==
  ASSUME Scheduling, keys \subseteq keys', scheduled' = scheduled,
         \A m \in 1..2 : Completing(m)' => Completing(m),
         \/ crashed'
         \/ /\ crashed' = crashed
            /\ "call-completed" \in keys' => "call-completed" \in keys
            /\ \A m \in 1..2 : Completing(m) => Completing(m)'
  PROVE  Scheduling'
<1>1. DedupeKey("completed") = "call-completed"
  BY DEF DedupeKey
<1>2. DedupeKey("completed")' = "call-completed"
  BY DEF DedupeKey
<1> QED BY <1>1, <1>2 DEF Scheduling, Completing

LEMMA CallbackScheduling ==
  ASSUME RowType, HandlerType, Scheduling,
         NEW s \in CallStatuses, NEW n \in 1..2, Callback(s, n)
  PROVE  Scheduling'
<1> USE SomeHandlers
<1>1. \A m \in 1..2 : <<s, n>> = <<"completed", m>> <=> s = "completed" /\ n = m
  OBVIOUS
<1>2. \A m \in 1..2 : <<"completed", m>> \in Deliveries
  BY SomeStatuses
<1>3. \A pc : callback' = [callback EXCEPT ![<<s, n>>] = pc] =>
         \A m \in 1..2 : callback'[<<"completed", m>>] =
             IF s = "completed" /\ n = m THEN pc
                                         ELSE callback[<<"completed", m>>]
  BY <1>1, <1>2 DEF HandlerType
<1>4. CASE Deliver(s, n)
  <2>1. PICK pc \in {"event", "handled"} :
            callback' = [callback EXCEPT ![<<s, n>>] = pc]
    BY <1>4 DEF Deliver
  <2>2. UNCHANGED <<keys, scheduled, crashed>> /\ callback[<<s, n>>] = "idle"
    BY <1>4 DEF Deliver, rowVars, countVars
  <2>3. \A m \in 1..2 : Completing(m)' <=> Completing(m)
    BY <1>3, <2>1, <2>2 DEF Completing
  <2> QED BY <2>2, <2>3, SchedulingKept
<1>5. CASE CallbackRecords(s, n)
  <2>1. /\ UNCHANGED <<scheduled, crashed>> /\ keys' = keys \cup {DedupeKey(s)}
        /\ callback[<<s, n>>] = "event"
    BY <1>5 DEF CallbackRecords, CallbackUnchanged, Record
  <2>2. PICK pc : /\ callback' = [callback EXCEPT ![<<s, n>>] = pc]
                  /\ pc = IF DedupeKey(s) \in keys THEN "handled" ELSE "load"
    BY <1>5 DEF CallbackRecords
  <2>3. CASE s = "completed" /\ DedupeKey(s) \notin keys
    <3>1. \A m \in 1..2 : callback[<<"completed", m>>] \notin {"load", "save"}
      BY <2>3 DEF Scheduling
    <3>2. scheduled = 0
      BY <2>3 DEF Scheduling, HandlerType
    <3>3. \A m \in 1..2 : callback'[<<"completed", m>>] \in {"load", "save"} <=> m = n
      BY <1>3, <2>2, <2>3, <3>1
    <3>4. DedupeKey("completed")' \in keys'
      BY <2>1, <2>3 DEF DedupeKey
    <3> QED BY <2>1, <3>2, <3>3, <3>4 DEF Scheduling
  <2>4. CASE s # "completed" \/ DedupeKey(s) \in keys
    <3>1. \A m \in 1..2 : Completing(m)' <=> Completing(m)
      BY <1>3, <2>1, <2>2, <2>4 DEF Completing
    <3>2. "call-completed" \in keys' => "call-completed" \in keys
      BY <2>1, <2>4 DEF DedupeKey
    <3> QED BY <2>1, <3>1, <3>2, SchedulingKept
  <2> QED BY <2>3, <2>4
<1>6. CASE CallbackLoads(s, n)
  <2>1. callback[<<s, n>>] = "load" /\ UNCHANGED <<keys, scheduled, crashed>>
    BY <1>6 DEF CallbackLoads, CallbackUnchanged, Load, rowVars
  <2>2. callback' = [callback EXCEPT ![<<s, n>>] = "save"]
    BY <1>6 DEF CallbackLoads
  <2>3. \A m \in 1..2 : Completing(m)' <=> Completing(m)
    BY <1>3, <2>1, <2>2 DEF Completing
  <2> QED BY <2>1, <2>3, SchedulingKept
<1>7. CASE CallbackSaves(s, n)
  <2>1. callback[<<s, n>>] = "save" /\ UNCHANGED <<keys, crashed>>
    BY <1>7 DEF CallbackSaves, CallbackUnchanged, Save
  <2>2. callback' = [callback EXCEPT ![<<s, n>>] = "handled"]
    BY <1>7 DEF CallbackSaves
  <2>3. CASE s = "completed"
    <3>1. scheduled = 0 /\ DedupeKey("completed") \in keys
      BY <2>1, <2>3 DEF Scheduling
    <3>2. scheduled' = 1
      BY <1>7, <2>3, <3>1 DEF CallbackSaves
    <3>3. \A m \in 1..2 : callback'[<<"completed", m>>] \notin {"load", "save"}
      <4>1. callback[<<"completed", n>>] \in {"load", "save"}
        BY <2>1, <2>3
      <4>2. \A m \in 1..2 :
                callback[<<"completed", m>>] \in {"load", "save"} => m = n
        BY <4>1 DEF Scheduling
      <4>3. \A m \in 1..2 : callback'[<<"completed", m>>] =
                IF n = m THEN "handled" ELSE callback[<<"completed", m>>]
        BY <1>3, <2>2, <2>3
      <4> QED BY <4>2, <4>3
    <3> QED BY <2>1, <3>1, <3>2, <3>3 DEF Scheduling, DedupeKey
  <2>4. CASE s # "completed"
    <3>1. UNCHANGED scheduled
      BY <1>7, <2>4 DEF CallbackSaves
    <3>2. \A m \in 1..2 : Completing(m)' <=> Completing(m)
      BY <1>3, <2>2, <2>4 DEF Completing
    <3> QED BY <2>1, <3>1, <3>2, SchedulingKept
  <2> QED BY <2>3, <2>4
<1> QED BY <1>4, <1>5, <1>6, <1>7 DEF Callback

LEMMA StepScheduling ==
  RowType /\ HandlerType /\ Scheduling /\ [Next]_vars => Scheduling'
<1> SUFFICES ASSUME RowType, HandlerType, Scheduling, [Next]_vars
             PROVE  Scheduling'
  OBVIOUS
<1>1. ASSUME UNCHANGED <<callback, scheduled, crashed>>, keys \subseteq keys',
             "call-completed" \in keys' => "call-completed" \in keys
      PROVE  Scheduling'
  BY <1>1, SchedulingKept DEF Completing
<1>2. CASE Creator
  BY <1>1, <1>2 DEF Creator, Insert, Dial, CreatorLoads, CreatorSaves,
        CreatorRecords, CreatorUnchanged, Load, Save, Record, rowVars, countVars
<1>3. CASE Progress
  BY <1>1, <1>3 DEF Progress, rowVars, handlerVars, countVars
<1>4. ASSUME NEW s \in CallStatuses, NEW n \in 1..2, Callback(s, n)
      PROVE  Scheduling'
  BY <1>4, CallbackScheduling
<1>5. CASE Media
  BY <1>1, <1>5 DEF Media, MediaStart, MediaLoads, MediaSaves, MediaRecords,
        MediaEnds, MediaUnchanged, Load, Save, Record, rowVars, countVars
<1>6. ASSUME NEW o \in Owners, End(o) PROVE Scheduling'
  BY <1>1, <1>6 DEF End, EndGets, EndHangsUp, EndLoads, EndSaves, EndRecords,
        OwnerUnchanged, Load, Save, Record, rowVars
<1>7. CASE Summarise \/ UNCHANGED vars \/ \E r \in Requests : Retry(r)
  BY <1>1, <1>7 DEF Summarise, Retry, RowUnchanged, vars, rowVars, handlerVars,
        countVars
<1>8. CASE Crash
  <2>1. UNCHANGED <<keys, scheduled>>
    BY <1>8 DEF Crash, rowVars, countVars
  <2>2. \A d \in Deliveries : callback'[d] \in {"idle", "handled"}
    BY <1>8 DEF Crash
  <2>3. \A m \in 1..2 : <<"completed", m>> \in Deliveries
    BY SomeHandlers, SomeStatuses
  <2>4. crashed' /\ \A m \in 1..2 : ~Completing(m)'
    BY <1>8, <2>2, <2>3 DEF Crash, Completing
  <2> QED BY <2>1, <2>4, SchedulingKept
<1> QED BY <1>2, <1>3, <1>4, <1>5, <1>6, <1>7, <1>8 DEF Next
-----------------------------------------------------------------------------
(* The order in which Twilio sends and delivers its callbacks *)

EarlyCreator == {"insert", "dial", "refuse", "refuse_save", "refuse_event"}
FinalKeys == {"call-completed", "call-failed"}

LEMMA SentElements ==
  ASSUME HandlerType
  PROVE  /\ Len(sent) \in Nat /\ DOMAIN sent = 1..Len(sent)
         /\ sent = <<>> <=> Len(sent) = 0
         /\ \A k \in 1..Len(sent) : sent[k] \in SentSoFar
         /\ \A s \in SentSoFar : \E k \in 1..Len(sent) : s = sent[k]
  BY DEF HandlerType, SentSoFar

\* Of what was sent, only the last can be terminal
LEMMA TerminalIsLast ==
  ASSUME HandlerType, SentInOrder
  PROVE  /\ \A s \in SentSoFar \cap Ended : s = provider
         /\ provider \in Ended => provider \in SentSoFar
<1>1. ASSUME NEW s \in SentSoFar \cap Ended PROVE s = provider
  <2>1. PICK k \in 1..Len(sent) : s = sent[k]
    BY SentElements
  <2>2. sent # <<>> /\ provider = sent[Len(sent)]
    BY <2>1, SentElements DEF SentInOrder
  <2>3. k \notin 1..(Len(sent) - 1)
    BY <2>1 DEF SentInOrder
  <2>4. k = Len(sent)
    <3>1. Len(sent) \in Nat
      BY SentElements
    <3> QED BY <2>1, <2>3, <3>1
  <2> QED BY <2>1, <2>2, <2>4
<1>2. ASSUME provider \in Ended PROVE provider \in SentSoFar
  <2>1. sent # <<>>
    BY <1>2 DEF SentInOrder, Ended
  <2>2. Len(sent) \in 1..Len(sent) /\ provider = sent[Len(sent)]
    BY <2>1, SentElements DEF SentInOrder
  <2> QED BY <2>2, SentElements
<1> QED BY <1>1, <1>2

LEMMA FinalKeyTypes ==
    \A s \in CallStatuses : DedupeKey(s) \in FinalKeys <=> s \in Ended
  BY DEF DedupeKey, FinalKeys, Ended, CallStatuses, Live

\* A step that Twilio has no part in
LEMMA SentKept ==
  ASSUME SentInOrder, UNCHANGED <<provider, sent>>,
         \A d \in Deliveries : callback'[d] = "idle" <=> callback[d] = "idle",
         creator' \in EarlyCreator => creator \in EarlyCreator,
         creator \in {"done", "crashed"} => creator' \in {"done", "crashed"},
         keys' \cap FinalKeys \subseteq keys
  PROVE  SentInOrder'
<1>1. SentSoFar' = SentSoFar
  BY DEF SentSoFar
<1>2. ASSUME NEW d \in Deliveries, callback'[d] # "idle"
      PROVE  d[1] \in SentSoFar' /\ callback'[<<d[1], 1>>] # "idle"
  <2>1. <<d[1], 1>> \in Deliveries
    BY DEF Deliveries
  <2> QED BY <1>1, <1>2, <2>1 DEF SentInOrder
<1>3. (IF sent = <<>> THEN provider \in {"none", "queued"}
                      ELSE provider = sent[Len(sent)])'
  BY DEF SentInOrder
<1>4. (\A k \in 1..(Len(sent) - 1) : sent[k] \notin Ended)'
  BY DEF SentInOrder
<1>5. (creator \in EarlyCreator => provider = "none")'
  BY DEF SentInOrder, EarlyCreator
<1>6. (keys \cap FinalKeys # {} =>
          \/ provider \in Ended
          \/ provider = "none" /\ creator \in {"done", "crashed"})'
  BY DEF SentInOrder, FinalKeys
<1> QED BY <1>2, <1>3, <1>4, <1>5, <1>6 DEF SentInOrder, EarlyCreator, FinalKeys

\* Twilio's call moves on
LEMMA SentOneMore ==
  ASSUME HandlerType, SentInOrder, NEW s \in CallStatuses, TwilioCalls(s),
         provider \in Live, UNCHANGED <<callback, creator, keys>>
  PROVE  SentInOrder'
<1>1. /\ Len(sent') = Len(sent) + 1 /\ sent' # <<>>
      /\ sent'[Len(sent')] = s /\ provider' = s
      /\ \A k \in 1..Len(sent) : sent'[k] = sent[k]
      /\ DOMAIN sent' = 1..(Len(sent) + 1)
  BY DEF TwilioCalls, HandlerType
<1>2. provider \notin Ended /\ provider # "none"
  BY DEF Live, Ended
<1>3. \A k \in 1..Len(sent) : sent[k] \notin Ended
  BY <1>2, SentElements DEF SentInOrder
<1>4. SentSoFar \subseteq SentSoFar'
  BY <1>1 DEF SentSoFar, HandlerType
<1>5. (IF sent = <<>> THEN provider \in {"none", "queued"}
                      ELSE provider = sent[Len(sent)])'
  BY <1>1
<1>6. (\A k \in 1..(Len(sent) - 1) : sent[k] \notin Ended)'
  BY <1>1, <1>3, SentElements
<1>7. (\A d \in Deliveries : callback[d] # "idle" =>
          d[1] \in SentSoFar /\ callback[<<d[1], 1>>] # "idle")'
  BY <1>4 DEF SentInOrder
<1>8. creator' \notin EarlyCreator /\ keys' \cap FinalKeys = {}
  BY <1>2 DEF SentInOrder, EarlyCreator, FinalKeys
<1> QED BY <1>5, <1>6, <1>7, <1>8 DEF SentInOrder, EarlyCreator, FinalKeys

LEMMA CreatorSent ==
  ASSUME RowType, HandlerType, SentInOrder, Creator
  PROVE  SentInOrder'
<1> USE DEF CreatorUnchanged, EarlyCreator
<1>1. CASE Insert
  BY <1>1, SentKept DEF Insert, FinalKeys
<1>2. CASE Dial
  <2>1. /\ provider = "none" /\ sent = <<>> /\ keys \cap FinalKeys = {}
        /\ provider' \in {"none", "queued"}
        /\ creator' = "refuse" => provider' = "none"
        /\ creator' \in {"accept", "refuse", "done"}
    BY <1>2, SentElements
    DEF Dial, SentInOrder, FinalKeys, Ended, HandlerType, CallStatuses, Live
  <2>2. UNCHANGED <<sent, callback, keys>>
    BY <1>2 DEF Dial, rowVars
  <2>3. SentSoFar' = SentSoFar
    BY <2>2 DEF SentSoFar
  <2>4. (\A d \in Deliveries : callback[d] # "idle" =>
            d[1] \in SentSoFar /\ callback[<<d[1], 1>>] # "idle")'
    BY <2>2, <2>3 DEF SentInOrder
  <2>5. (\A k \in 1..(Len(sent) - 1) : sent[k] \notin Ended)'
    BY <2>2 DEF SentInOrder
  <2> QED BY <2>1, <2>2, <2>4, <2>5 DEF SentInOrder, FinalKeys
<1>3. CASE CreatorLoads
  BY <1>3, SentKept DEF CreatorLoads, Load, rowVars
<1>4. CASE CreatorSaves
  <2>1. UNCHANGED <<provider, sent, callback, keys>>
    BY <1>4 DEF CreatorSaves, Save
  <2>2. /\ creator' \in EarlyCreator => creator \in EarlyCreator
        /\ creator \notin {"done", "crashed"}
    BY <1>4 DEF CreatorSaves
  <2> QED BY <2>1, <2>2, SentKept
<1>5. CASE CreatorRecords /\ creator = "accept_event"
  BY <1>5, SentKept DEF CreatorRecords, Record, FinalKeys
<1>6. CASE CreatorRecords /\ creator = "refuse_event"
  <2>1. UNCHANGED <<provider, sent, callback>> /\ provider = "none" /\ creator' = "done"
    BY <1>6 DEF CreatorRecords, SentInOrder
  <2>2. SentSoFar' = SentSoFar
    BY <2>1 DEF SentSoFar
  <2>3. (\A d \in Deliveries : callback[d] # "idle" =>
            d[1] \in SentSoFar /\ callback[<<d[1], 1>>] # "idle")'
    BY <2>1, <2>2 DEF SentInOrder
  <2> QED BY <2>1, <2>3 DEF SentInOrder
<1> QED BY <1>1, <1>2, <1>3, <1>4, <1>5, <1>6 DEF Creator, CreatorRecords

LEMMA CallbackSent ==
  ASSUME RowType, HandlerType, SentInOrder,
         NEW s \in CallStatuses, NEW n \in 1..2, Callback(s, n)
  PROVE  SentInOrder'
<1> USE SomeHandlers
<1>1. UNCHANGED <<provider, sent, creator>>
  BY DEF Callback, Deliver, CallbackRecords, CallbackLoads, CallbackSaves,
         CallbackUnchanged, twilioVars
<1>2. SentSoFar' = SentSoFar
  BY <1>1 DEF SentSoFar
<1>3. \A pc : callback' = [callback EXCEPT ![<<s, n>>] = pc] =>
          \A d \in Deliveries : callback'[d] = IF d = <<s, n>> THEN pc ELSE callback[d]
  BY DEF HandlerType
<1>4. CASE Deliver(s, n)
  <2>1. PICK pc \in {"event", "handled"} :
            callback' = [callback EXCEPT ![<<s, n>>] = pc]
    BY <1>4 DEF Deliver
  <2>2. /\ s \in SentSoFar /\ keys' = keys
        /\ n = 2 => callback[<<s, 1>>] # "idle"
    BY <1>4 DEF Deliver, rowVars
  <2>3. ASSUME NEW d \in Deliveries, callback'[d] # "idle"
        PROVE  d[1] \in SentSoFar' /\ callback'[<<d[1], 1>>] # "idle"
    <3>1. <<d[1], 1>> \in Deliveries
      BY DEF Deliveries
    <3>2. CASE d = <<s, n>>
      <4>1. d[1] = s /\ (n = 1 \/ n = 2)
        BY <3>2
      <4> QED BY <1>2, <1>3, <2>1, <2>2, <3>1, <4>1
    <3>3. CASE d # <<s, n>>
      <4>1. callback[d] # "idle"
        BY <1>3, <2>1, <2>3, <3>3
      <4> QED BY <1>2, <1>3, <2>1, <3>1, <4>1 DEF SentInOrder
    <3> QED BY <3>2, <3>3
  <2> QED BY <1>1, <2>2, <2>3 DEF SentInOrder
<1>5. CASE CallbackRecords(s, n)
  <2>1. PICK pc \in {"load", "handled"} :
            callback' = [callback EXCEPT ![<<s, n>>] = pc]
    BY <1>5 DEF CallbackRecords
  <2>2. callback[<<s, n>>] = "event" /\ keys' = keys \cup {DedupeKey(s)}
    BY <1>5 DEF CallbackRecords, Record
  <2>3. \A d \in Deliveries : callback'[d] = "idle" <=> callback[d] = "idle"
    BY <1>3, <2>1, <2>2
  <2>4. s \in SentSoFar
    BY <2>2 DEF SentInOrder
  <2>5. CASE s \notin Ended
    <3>1. keys' \cap FinalKeys \subseteq keys
      BY <2>2, <2>5, FinalKeyTypes
    <3> QED BY <1>1, <2>3, <3>1, SentKept DEF EarlyCreator
  <2>6. CASE s \in Ended
    <3>1. provider \in Ended
      BY <2>4, <2>6, TerminalIsLast
    <3>2. (\A d \in Deliveries : callback[d] # "idle" =>
              d[1] \in SentSoFar /\ callback[<<d[1], 1>>] # "idle")'
      <4>1. \A d \in Deliveries : <<d[1], 1>> \in Deliveries
        BY DEF Deliveries
      <4> QED BY <1>2, <2>3, <4>1 DEF SentInOrder
    <3> QED BY <1>1, <3>1, <3>2 DEF SentInOrder
  <2> QED BY <2>5, <2>6
<1>6. CASE CallbackLoads(s, n) \/ CallbackSaves(s, n)
  <2>1. PICK pc \in {"save", "handled"} :
            callback' = [callback EXCEPT ![<<s, n>>] = pc]
    BY <1>6 DEF CallbackLoads, CallbackSaves
  <2>2. callback[<<s, n>>] # "idle" /\ keys' = keys
    BY <1>6 DEF CallbackLoads, CallbackSaves, Load, Save, rowVars
  <2>3. \A d \in Deliveries : callback'[d] = "idle" <=> callback[d] = "idle"
    BY <1>3, <2>1, <2>2
  <2> QED BY <1>1, <2>2, <2>3, SentKept DEF EarlyCreator
<1> QED BY <1>4, <1>5, <1>6 DEF Callback

LEMMA StepSent ==
  RowType /\ HandlerType /\ SentInOrder /\ [Next]_vars => SentInOrder'
<1> SUFFICES ASSUME RowType, HandlerType, SentInOrder, [Next]_vars
             PROVE  SentInOrder'
  OBVIOUS
<1> USE SomeStatuses DEF EarlyCreator
<1>1. CASE Progress
  <2>1. PICK s \in CallStatuses : TwilioCalls(s)
    BY <1>1 DEF Progress
  <2>2. provider \in Live
    BY <1>1 DEF Progress, Live
  <2> QED BY <1>1, <2>1, <2>2, SentOneMore DEF Progress, rowVars, handlerVars
<1>2. CASE Media
  <2>1. CASE MediaEnds /\ provider = "in-progress"
    BY <2>1, SentOneMore DEF MediaEnds, MediaUnchanged, rowVars, Live
  <2>2. CASE ~(MediaEnds /\ provider = "in-progress")
    BY <1>2, <2>2, SentKept
    DEF Media, MediaStart, MediaLoads, MediaSaves, MediaRecords, MediaEnds,
        MediaUnchanged, Load, Save, Record, rowVars, FinalKeys
  <2> QED BY <2>1, <2>2
<1>3. ASSUME NEW o \in Owners, End(o) PROVE SentInOrder'
  <2>1. UNCHANGED <<callback, creator>> /\ keys' \cap FinalKeys \subseteq keys
    BY <1>3 DEF End, EndGets, EndHangsUp, EndLoads, EndSaves, EndRecords,
                OwnerUnchanged, Load, Save, Record, rowVars, FinalKeys
  <2>2. CASE UNCHANGED <<provider, sent>>
    BY <2>1, <2>2, SentKept
  <2>3. CASE ~UNCHANGED <<provider, sent>>
    <3>1. EndHangsUp(o) /\ HangUp
      BY <1>3, <2>3 DEF End, EndGets, EndHangsUp, EndLoads, EndSaves, EndRecords
    <3>2. provider \in Live /\ \E s \in CallStatuses : TwilioCalls(s)
      BY <2>3, <3>1 DEF HangUp
    <3> QED BY <3>1, <3>2, SentOneMore DEF EndHangsUp, OwnerUnchanged, rowVars
  <2> QED BY <2>2, <2>3
<1>4. CASE Summarise \/ UNCHANGED vars \/ \E r \in Requests : Retry(r)
  BY <1>4, SentKept DEF Summarise, Retry, RowUnchanged, vars, rowVars, handlerVars,
                        twilioVars
<1>5. CASE Crash
  <2>1. \A d \in Deliveries : callback'[d] = "idle" <=> callback[d] = "idle"
    BY <1>5 DEF Crash
  <2>2. /\ UNCHANGED <<provider, sent, keys>>
        /\ creator' \in {"done", "crashed"}
    BY <1>5 DEF Crash, twilioVars, rowVars
  <2> QED BY <2>1, <2>2, SentKept
<1> QED BY <1>1, <1>2, <1>3, <1>4, <1>5, CreatorSent, CallbackSent DEF Next
-----------------------------------------------------------------------------
(* Twilio's last callback *)

Last == <<provider, 1>>

\* A step that is no callback's, and does not end Twilio's call
LEMMA FinalKept ==
  ASSUME FinalInTurn, UNCHANGED <<provider, sent, callback>>,
         provider \in Ended => loaded'[Last] = loaded[Last],
         keys \subseteq keys', keys' \cap FinalKeys \subseteq keys,
         overtaken => overtaken', crashed => crashed',
         NothingFollows(Last) =>
            /\ creator' \in {"done", "crashed"}
            /\ media' \notin {"load", "save"}
            /\ "in-progress" \in SentSoFar => media' # "none"
            /\ sid_known' = sid_known
            /\ (status' = status /\ (EndedByOwner => EndedByOwner')) \/ EndedByOwner'
  PROVE  FinalInTurn'
<1> SUFFICES ASSUME provider \in Ended, ~overtaken, ~crashed
             PROVE  /\ callback[Last] # "idle" => NothingFollows(Last)'
                    /\ LastCounts(Last)'
  BY DEF FinalInTurn, Last
<1>1. /\ callback[Last] # "idle" => NothingFollows(Last)
      /\ LastCounts(Last)
  BY DEF FinalInTurn, Last
<1>2. SentSoFar' = SentSoFar
  BY DEF SentSoFar
<1>3. callback[Last] # "idle" => NothingFollows(Last)'
  BY <1>1, <1>2 DEF NothingFollows, Last
<1>4. DedupeKey(provider) \in keys' <=> DedupeKey(provider) \in keys
  BY FinalKeyTypes DEF CallStatuses
<1>5. LastCounts(Last)'
  <2>1. NothingFollows(Last) =>
            \/ status' = status /\ (TellsTheEnd => TellsTheEnd')
            \/ TellsTheEnd'
    BY DEF TellsTheEnd
  <2>2. callback[Last] \in {"event", "load", "save", "handled"} =>
            NothingFollows(Last)
    BY <1>1
  <2> QED BY <1>1, <1>4, <2>1, <2>2 DEF LastCounts, Last
<1> QED BY <1>3, <1>5

\* Twilio's call ends: no callback of its last status was delivered before
LEMMA FinalSent ==
  ASSUME HandlerType, SentInOrder, NEW s \in CallStatuses, TwilioCalls(s),
         provider \in Live, UNCHANGED <<callback, keys>>
  PROVE  FinalInTurn'
<1> SUFFICES ASSUME s \in Ended PROVE LastCounts(<<s, 1>>)' /\ callback'[<<s, 1>>] = "idle"
  BY DEF FinalInTurn, TwilioCalls
<1>1. provider \notin Ended /\ provider # "none"
  BY DEF Live, Ended
<1>2. callback[<<s, 1>>] = "idle"
  <2>1. <<s, 1>> \in Deliveries
    BY DEF Deliveries
  <2>2. s \notin SentSoFar
    BY <1>1, TerminalIsLast
  <2> QED BY <2>1, <2>2 DEF SentInOrder
<1>3. DedupeKey(s) \notin keys
  BY <1>1, FinalKeyTypes DEF SentInOrder, FinalKeys
<1> QED BY <1>2, <1>3 DEF LastCounts, TwilioCalls

\* A callback arrives in turn
LEMMA DeliverFinal ==
  ASSUME HandlerType, SentInOrder, FinalInTurn,
         NEW s \in CallStatuses, NEW n \in 1..2, Deliver(s, n)
  PROVE  FinalInTurn'
<1> USE SomeHandlers
<1> SUFFICES ASSUME provider' \in Ended, ~overtaken', ~crashed'
             PROVE  /\ callback'[Last'] # "idle" => NothingFollows(Last)'
                    /\ LastCounts(Last)'
  BY DEF FinalInTurn, Last
<1> DEFINE h == <<s, n>>
<1>1. /\ s \in SentSoFar /\ callback[h] = "idle" /\ InTurn(s)
      /\ callback' = [callback EXCEPT ![h] = IF sid_known THEN "event" ELSE "handled"]
      /\ UNCHANGED <<status, sid_known, keys, creator, media, owner, loaded,
                     crashed, provider, sent>>
      /\ provider \in Ended /\ ~overtaken /\ ~crashed
  BY DEF Deliver, rowVars, twilioVars
<1>2. /\ Last' = Last /\ SentSoFar' = SentSoFar
      /\ Last \in Deliveries
  BY <1>1 DEF Last, SentSoFar, Deliveries, CallStatuses
<1>3. \A d \in Deliveries : callback'[d] =
          IF d = h THEN IF sid_known THEN "event" ELSE "handled" ELSE callback[d]
  BY <1>1 DEF HandlerType
<1>4. /\ callback[Last] # "idle" => NothingFollows(Last)
      /\ LastCounts(Last)
  BY <1>1 DEF FinalInTurn, Last
<1>11. TellsTheEnd' <=> TellsTheEnd
  BY <1>1 DEF TellsTheEnd, EndedByOwner
<1>5. /\ Len(sent) \in Nat \ {0} /\ provider = sent[Len(sent)]
      /\ \A k \in 1..Len(sent) : sent[k] \in CallStatuses
      /\ DOMAIN sent = 1..Len(sent)
  BY <1>1, SentElements DEF SentInOrder, Ended, HandlerType
<1>6. \A k \in 1..(Len(sent) - 1) :
          <<sent[k], 1>> \in Deliveries /\ <<sent[k], 1>> # Last
  BY <1>1, <1>5 DEF SentInOrder, Last, Deliveries
<1>7. CASE h = Last
  <2>1. s = provider /\ n = 1
    BY <1>7 DEF Last
  <2>2. \A k \in 1..(Len(sent) - 1) : callback[<<sent[k], 1>>] = "handled"
    BY <1>1, <1>5, <2>1 DEF InTurn
  <2>3. \A d \in Deliveries : callback[d] \in {"idle", "handled"}
    BY <1>1 DEF InTurn
  <2>4. /\ creator \in {"done", "crashed"} /\ media \notin {"load", "save"}
        /\ "in-progress" \in SentSoFar => media # "none"
    BY <1>1, <2>1 DEF InTurn
  <2>5. NothingFollows(Last)'
    <3>1. \A k \in 1..(Len(sent) - 1) : callback'[<<sent[k], 1>>] = "handled"
      BY <1>3, <1>6, <1>7, <2>2
    <3>2. \A d \in Deliveries \ {Last} : callback'[d] \in {"idle", "handled"}
      BY <1>3, <1>7, <2>3
    <3> QED BY <1>1, <1>2, <2>4, <3>1, <3>2 DEF NothingFollows
  <2>6. LastCounts(Last)'
    BY <1>1, <1>2, <1>3, <1>4, <1>7, <1>11 DEF LastCounts
  <2> QED BY <2>5, <2>6
<1>8. CASE h # Last
  <2>1. callback'[Last] = callback[Last]
    BY <1>2, <1>3, <1>8
  <2>2. LastCounts(Last)'
    BY <1>1, <1>2, <1>4, <1>11, <2>1 DEF LastCounts
  <2>3. ASSUME callback'[Last] # "idle" PROVE NothingFollows(Last)'
    <3>1. NothingFollows(Last) /\ callback[Last] = "handled"
      BY <1>1, <1>2, <1>4, <2>1, <2>3 DEF InTurn
    <3>2. sid_known => DedupeKey(s) \in keys
      <4>1. CASE s = provider
        BY <1>4, <3>1, <4>1 DEF LastCounts
      <4>2. CASE s # provider
        <5>1. PICK k \in 1..Len(sent) : s = sent[k]
          BY <1>1, SentElements
        <5>2. k # Len(sent)
          BY <1>5, <4>2, <5>1
        <5>3. Len(sent) \in (k + 1)..Len(sent)
          <6>1. Len(sent) \in Nat
            BY <1>5
          <6> QED BY <5>1, <5>2, <6>1
        <5>4. callback[<<sent[Len(sent)], 1>>] # "idle"
          BY <1>5, <3>1 DEF Last
        <5> QED BY <1>1, <1>5, <5>1, <5>3, <5>4 DEF InTurn
      <4> QED BY <4>1, <4>2
    <3>3. \A k \in 1..(Len(sent) - 1) : callback'[<<sent[k], 1>>] = "handled"
      <4>1. \A k \in 1..(Len(sent) - 1) : callback[<<sent[k], 1>>] = "handled"
        BY <3>1 DEF NothingFollows
      <4> QED BY <1>1, <1>3, <1>6, <4>1
    <3>4. \A d \in Deliveries \ {Last} :
              /\ callback'[d] \in {"idle", "event", "handled"}
              /\ callback'[d] = "event" => DedupeKey(d[1]) \in keys
      <4>1. h[1] = s
        OBVIOUS
      <4> QED BY <1>3, <3>1, <3>2, <4>1 DEF NothingFollows
    <3> QED BY <1>1, <1>2, <3>1, <3>3, <3>4 DEF NothingFollows
  <2> QED BY <1>2, <2>2, <2>3
<1> QED BY <1>7, <1>8

\* It is handled, up to its update_call
LEMMA CallbackFinal ==
  ASSUME RowType, HandlerType, SentInOrder, FinalInTurn,
         NEW s \in CallStatuses, NEW n \in 1..2,
         CallbackRecords(s, n) \/ CallbackLoads(s, n) \/ CallbackSaves(s, n)
  PROVE  FinalInTurn'
<1> USE SomeHandlers
<1> SUFFICES ASSUME provider' \in Ended, ~overtaken', ~crashed'
             PROVE  /\ callback'[Last'] # "idle" => NothingFollows(Last)'
                    /\ LastCounts(Last)'
  BY DEF FinalInTurn, Last
<1> DEFINE h == <<s, n>>
<1>1. /\ UNCHANGED <<creator, media, provider, sent>>
      /\ provider \in Ended /\ ~overtaken /\ ~crashed
  <2>1. CallbackUnchanged
    BY DEF CallbackRecords, CallbackLoads, CallbackSaves
  <2> QED BY <2>1 DEF CallbackUnchanged, twilioVars
<1>2. /\ Last' = Last /\ SentSoFar' = SentSoFar
      /\ Last \in Deliveries /\ provider \in CallStatuses
  BY <1>1 DEF Last, SentSoFar, Deliveries, CallStatuses
<1>3. /\ callback[Last] # "idle" => NothingFollows(Last)
      /\ LastCounts(Last)
  BY <1>1 DEF FinalInTurn, Last
<1>10. owner' = owner
  BY DEF CallbackRecords, CallbackLoads, CallbackSaves, CallbackUnchanged
<1>11. status' = status => (TellsTheEnd' <=> TellsTheEnd)
  BY <1>1, <1>10 DEF TellsTheEnd, EndedByOwner
<1>4. PICK pc : /\ callback' = [callback EXCEPT ![h] = pc]
                /\ pc \in {"load", "save", "handled"}
  BY DEF CallbackRecords, CallbackLoads, CallbackSaves
<1>5. \A d \in Deliveries : callback'[d] = IF d = h THEN pc ELSE callback[d]
  BY <1>4 DEF HandlerType
<1>6. callback[h] \in {"event", "load", "save"} /\ h \in Deliveries /\ h[1] = s
  BY DEF CallbackRecords, CallbackLoads, CallbackSaves
<1>7. /\ keys \subseteq keys' /\ sid_known' = sid_known
      /\ callback[h] # "event" => keys' = keys
  BY DEF CallbackRecords, CallbackLoads, CallbackSaves, Load, Save, Record, rowVars,
         RowType
<1>8. CASE h = Last
  <2>1. s = provider
    BY <1>8 DEF Last
  <2>2. NothingFollows(Last)
    BY <1>3, <1>6, <1>8
  <2>3. NothingFollows(Last)'
    <3>1. \A k \in 1..(Len(sent) - 1) : callback'[<<sent[k], 1>>] = "handled"
      <4>1. \A k \in 1..(Len(sent) - 1) :
                sent[k] \in CallStatuses /\ <<sent[k], 1>> \in Deliveries
        BY DEF HandlerType, Deliveries
      <4>2. \A k \in 1..(Len(sent) - 1) : callback[<<sent[k], 1>>] = "handled"
        BY <2>2 DEF NothingFollows
      <4> QED BY <1>5, <1>6, <4>1, <4>2
    <3>2. \A d \in Deliveries \ {Last} :
              /\ callback'[d] \in {"idle", "event", "handled"}
              /\ callback'[d] = "event" => DedupeKey(d[1]) \in keys'
      BY <1>5, <1>7, <1>8, <2>2 DEF NothingFollows
    <3> QED BY <1>1, <1>2, <2>2, <3>1, <3>2 DEF NothingFollows
  <2>4. CASE CallbackRecords(s, n)
    <3>1. callback[Last] = "event" /\ keys' = keys \cup {DedupeKey(provider)}
      BY <1>8, <2>1, <2>4 DEF CallbackRecords, Record
    <3>2. callback'[Last] = "load"
      BY <1>2, <1>3, <1>4, <1>5, <1>8, <2>1, <2>4, <3>1 DEF CallbackRecords, LastCounts, HandlerType
    <3> QED BY <1>1, <1>2, <1>3, <1>7, <2>3, <3>1, <3>2 DEF LastCounts
  <2>5. CASE CallbackLoads(s, n)
    <3>1. /\ callback[Last] = "load" /\ callback'[Last] = "save"
          /\ loaded'[Last] = status /\ UNCHANGED <<status, keys>>
      BY <1>2, <1>8, <2>5 DEF CallbackLoads, Load, rowVars, HandlerType, RowType
    <3> QED BY <1>1, <1>2, <1>3, <1>7, <2>3, <3>1 DEF LastCounts
  <2>6. CASE CallbackSaves(s, n)
    <3>1. /\ callback[Last] = "save" /\ callback'[Last] = "handled"
          /\ status' = IF provider = loaded[Last] THEN status ELSE provider
          /\ keys' = keys
      BY <1>2, <1>8, <2>1, <2>6 DEF CallbackSaves, Save, HandlerType
    <3>2. TellsTheEnd'
      <4>1. CASE status' = provider
        BY <1>1, <4>1 DEF TellsTheEnd
      <4>2. CASE status' # provider
        BY <1>3, <1>11, <3>1, <4>2 DEF LastCounts, TellsTheEnd
      <4> QED BY <4>1, <4>2
    <3> QED BY <1>1, <1>2, <1>3, <1>7, <2>3, <3>1, <3>2 DEF LastCounts
  <2> QED BY <2>4, <2>5, <2>6
<1>9. CASE h # Last
  <2>1. callback'[Last] = callback[Last]
    BY <1>2, <1>5, <1>9
  <2>2. CASE callback[Last] = "idle"
    <3>1. DedupeKey(provider) \notin keys'
      <4>1. DedupeKey(provider) \notin keys
        BY <1>3, <2>2 DEF LastCounts
      <4>2. CASE CallbackRecords(s, n)
        <5>1. keys' = keys \cup {DedupeKey(s)}
          BY <4>2 DEF CallbackRecords, Record
        <5>2. s \in SentSoFar /\ callback[<<s, 1>>] # "idle"
          BY <1>6 DEF SentInOrder
        <5>3. s # provider
          BY <2>2, <5>2 DEF Last
        <5>4. s \notin Ended
          BY <5>2, <5>3, TerminalIsLast
        <5> QED BY <1>1, <1>2, <4>1, <5>1, <5>4, FinalKeyTypes
      <4>3. CASE ~CallbackRecords(s, n)
        BY <4>1, <4>3 DEF CallbackLoads, CallbackSaves, Load, Save, rowVars
      <4> QED BY <4>2, <4>3
    <3> QED BY <1>1, <1>2, <2>1, <2>2, <3>1 DEF LastCounts
  <2>3. CASE callback[Last] # "idle"
    <3>1. NothingFollows(Last)
      BY <1>3, <2>3
    <3>2. callback[h] = "event" /\ DedupeKey(s) \in keys
      BY <1>6, <1>9, <3>1 DEF NothingFollows
    <3>3. CallbackRecords(s, n)
      BY <3>2 DEF CallbackLoads, CallbackSaves
    <3>4. pc = "handled" /\ keys' = keys
      BY <1>4, <1>6, <3>2, <3>3 DEF CallbackRecords, Record, HandlerType
    <3>5. UNCHANGED <<status, loaded>>
      BY <3>3 DEF CallbackRecords, Record
    <3>6. \A k \in 1..(Len(sent) - 1) : callback'[<<sent[k], 1>>] = "handled"
      <4>1. \A k \in 1..(Len(sent) - 1) :
                sent[k] \in CallStatuses /\ <<sent[k], 1>> \in Deliveries
        BY DEF HandlerType, Deliveries
      <4>2. \A k \in 1..(Len(sent) - 1) : callback[<<sent[k], 1>>] = "handled"
        BY <3>1 DEF NothingFollows
      <4> QED BY <1>5, <3>4, <4>1, <4>2
    <3>7. NothingFollows(Last)'
      BY <1>1, <1>2, <1>5, <3>1, <3>4, <3>6 DEF NothingFollows
    <3>8. LastCounts(Last)'
      BY <1>1, <1>2, <1>3, <1>7, <1>11, <2>1, <3>4, <3>5 DEF LastCounts
    <3> QED BY <3>7, <3>8
  <2> QED BY <2>2, <2>3
<1> QED BY <1>8, <1>9

LEMMA StepFinal ==
  RowType /\ HandlerType /\ SentInOrder /\ FinalInTurn /\ [Next]_vars => FinalInTurn'
<1> SUFFICES ASSUME RowType, HandlerType, SentInOrder, FinalInTurn, [Next]_vars
             PROVE  FinalInTurn'
  OBVIOUS
<1>1. ASSUME NEW h, h \in {TheCreator, TheMedia} \cup {EndRequest(o) : o \in Owners},
             NEW v, loaded' = [loaded EXCEPT ![h] = v], provider \in Ended
      PROVE  loaded'[Last] = loaded[Last]
  <2>1. h # Last
    <3>1. provider \notin Owners \cup {"creator", "media"}
      BY <1>1, LifecycleAssumption DEF Ended
    <3> QED BY <1>1, <3>1 DEF Last, TheCreator, TheMedia, EndRequest
  <2> QED BY <1>1, <2>1 DEF RowType
<1>2. CASE Creator
  <2>1. UNCHANGED <<sent, callback, media, overtaken, crashed>>
    BY <1>2 DEF Creator, Insert, Dial, CreatorLoads, CreatorSaves, CreatorRecords,
                CreatorUnchanged, countVars
  <2>2. ~NothingFollows(Last)
    BY <1>2 DEF Creator, Insert, Dial, CreatorLoads, CreatorSaves, CreatorRecords,
                NothingFollows
  <2>3. CASE provider' # provider
    <3>1. provider' \in {"none", "queued"}
      BY <1>2, <2>3 DEF Creator, Insert, Dial, CreatorLoads, CreatorSaves, CreatorRecords,
                        SentInOrder
    <3> QED BY <3>1 DEF FinalInTurn, Ended
  <2>4. CASE provider' = provider /\ creator \in EarlyCreator
    <3>1. provider' = "none"
      BY <2>4 DEF SentInOrder, EarlyCreator
    <3> QED BY <3>1 DEF FinalInTurn, Ended
  <2>5. CASE provider' = provider /\ creator \notin EarlyCreator
    <3>1. provider \in Ended => loaded'[Last] = loaded[Last]
      <4>1. loaded' = loaded \/ \E v : loaded' = [loaded EXCEPT ![TheCreator] = v]
        BY <1>2 DEF Creator, Insert, Dial, CreatorLoads, CreatorSaves,
                    CreatorRecords, Load, Save, Record
      <4> QED BY <1>1, <4>1
    <3>2. keys \subseteq keys' /\ keys' \cap FinalKeys \subseteq keys
      BY <1>2, <2>5 DEF Creator, Insert, Dial, CreatorLoads, CreatorSaves,
                        CreatorRecords, Load, Save, Record, rowVars, EarlyCreator, FinalKeys
    <3> QED BY <2>1, <2>2, <2>5, <3>1, <3>2, FinalKept
  <2> QED BY <2>3, <2>4, <2>5
<1>3. CASE Progress
  <2>1. \E s \in CallStatuses : TwilioCalls(s)
    BY <1>3, SomeStatuses DEF Progress
  <2>2. provider \in Live
    BY <1>3 DEF Progress, Live
  <2> QED BY <1>3, <2>1, <2>2, FinalSent DEF Progress, rowVars, handlerVars
<1>4. ASSUME NEW s \in CallStatuses, NEW n \in 1..2, Callback(s, n)
      PROVE  FinalInTurn'
  BY <1>4, DeliverFinal, CallbackFinal DEF Callback
<1>5. CASE Media
  <2>1. CASE MediaEnds /\ provider = "in-progress"
    BY <2>1, FinalSent, SomeStatuses DEF MediaEnds, MediaUnchanged, rowVars, Live
  <2>2. CASE ~(MediaEnds /\ provider = "in-progress")
    <3>1. UNCHANGED <<provider, sent, callback, owner, overtaken, crashed, creator>>
      BY <1>5, <2>2 DEF Media, MediaStart, MediaLoads, MediaSaves, MediaRecords,
                        MediaEnds, MediaUnchanged, countVars
    <3>2. keys \subseteq keys' /\ keys' \cap FinalKeys \subseteq keys
      BY <1>5 DEF Media, MediaStart, MediaLoads, MediaSaves, MediaRecords, MediaEnds,
                  Load, Save, Record, rowVars, FinalKeys
    <3>3. provider \in Ended => loaded'[Last] = loaded[Last]
      <4>1. loaded' = loaded \/ \E v : loaded' = [loaded EXCEPT ![TheMedia] = v]
        BY <1>5 DEF Media, MediaStart, MediaLoads, MediaSaves, MediaRecords, MediaEnds,
                    Load, Save, Record
      <4> QED BY <1>1, <4>1
    <3>4. NothingFollows(Last) =>
              /\ media' \notin {"none", "load", "save"}
              /\ UNCHANGED <<sid_known, status>>
      BY <1>5 DEF Media, MediaStart, MediaLoads, MediaSaves, MediaRecords, MediaEnds,
                  Record, rowVars, NothingFollows
    <3> QED BY <3>1, <3>2, <3>3, <3>4, FinalKept DEF NothingFollows, EndedByOwner
  <2> QED BY <2>1, <2>2
<1>6. ASSUME NEW o \in Owners, End(o) PROVE FinalInTurn'
  <2>1. UNCHANGED <<callback, creator, media, overtaken, crashed>>
    BY <1>6 DEF End, EndGets, EndHangsUp, EndLoads, EndSaves, EndRecords, OwnerUnchanged
  <2>2. CASE UNCHANGED <<provider, sent>>
    <3>1. keys \subseteq keys' /\ keys' \cap FinalKeys \subseteq keys
      BY <1>6 DEF End, EndGets, EndHangsUp, EndLoads, EndSaves, EndRecords,
                  Load, Save, Record, rowVars, FinalKeys
    <3>2. provider \in Ended => loaded'[Last] = loaded[Last]
      <4>1. loaded' = loaded \/ \E v : loaded' = [loaded EXCEPT ![EndRequest(o)] = v]
        BY <1>6 DEF End, EndGets, EndHangsUp, EndLoads, EndSaves, EndRecords,
                    Load, Save, Record
      <4> QED BY <1>1, <4>1
    <3>3. sid_known' = sid_known
      BY <1>6 DEF End, EndGets, EndHangsUp, EndLoads, EndSaves, EndRecords,
                  Load, Save, Record, rowVars, RowType
    <3>4. \/ status' = status
          \/ status' = "completed" /\ owner'[o] = "event"
      BY <1>6 DEF End, EndGets, EndHangsUp, EndLoads, EndSaves, EndRecords,
                  Load, Save, Record, rowVars, HandlerType
    <3>5. \A p \in Owners :
              owner[p] \in {"event", "ended"} => owner'[p] \in {"event", "ended"}
      BY <1>6 DEF End, EndGets, EndHangsUp, EndLoads, EndSaves, EndRecords,
                  HandlerType
    <3>6. (status' = status /\ (EndedByOwner => EndedByOwner')) \/ EndedByOwner'
      BY <3>4, <3>5 DEF EndedByOwner
    <3> QED BY <2>1, <2>2, <3>1, <3>2, <3>3, <3>6, FinalKept DEF NothingFollows
  <2>3. CASE ~UNCHANGED <<provider, sent>>
    <3>1. EndHangsUp(o) /\ HangUp
      BY <1>6, <2>3 DEF End, EndGets, EndHangsUp, EndLoads, EndSaves, EndRecords
    <3>2. provider \in Live /\ \E s \in CallStatuses : TwilioCalls(s)
      BY <2>3, <3>1, SomeStatuses DEF HangUp
    <3> QED BY <2>1, <3>1, <3>2, FinalSent DEF EndHangsUp, rowVars
  <2> QED BY <2>2, <2>3
<1>7. CASE Summarise \/ UNCHANGED vars \/ \E r \in Requests : Retry(r)
  <2>1. UNCHANGED <<provider, sent, callback, loaded, keys, overtaken, crashed,
                    creator, media, owner, sid_known, status>>
    BY <1>7 DEF Summarise, Retry, RowUnchanged, vars, rowVars, handlerVars, twilioVars,
                countVars
  <2> QED BY <2>1, FinalKept DEF NothingFollows, EndedByOwner
<1>8. CASE Crash
  BY <1>8 DEF Crash, FinalInTurn
<1> QED BY <1>2, <1>3, <1>4, <1>5, <1>6, <1>7, <1>8 DEF Next
-----------------------------------------------------------------------------
(* A call that is shown as over *)

LEMMA CallExists ==
  ASSUME HandlerType, SentInOrder, NEW s \in SentSoFar
  PROVE  provider # "none"
<1>1. sent # <<>>
  BY DEF SentSoFar
<1>2. Len(sent) \in DOMAIN sent
  BY <1>1 DEF HandlerType
<1>3. provider \in CallStatuses
  BY <1>1, <1>2 DEF SentInOrder, HandlerType
<1> QED BY <1>3 DEF CallStatuses, Ended, Live

\* Whoever goes on with a call keeps its end; only a call that is over, or was
\* never made, is newly shown as over
LEMMA ShownKept ==
  ASSUME HandlerType, Dialled, ShownOverIsOver,
         unasked \subseteq unasked',
         provider' = provider \/ (provider \in Live /\ provider' \in CallStatuses),
         sid_known' \/ media' # "none" =>
             sid_known \/ media # "none" \/ provider # "none",
         creator' \in {"insert", "dial"} => creator' = creator,
         status' \in Ended =>
             \/ status \in Ended \/ provider \in Ended \/ unasked # {}
             \/ provider = "none" /\ creator' \notin {"insert", "dial"},
         \A o \in Owners \ unasked' :
             /\ owner'[o] = "hangup" => owner[o] = "hangup" \/ provider # "none"
             /\ owner'[o] \in {"load", "save"} =>
                    owner[o] \in {"load", "save"} \/ provider' \in Ended
  PROVE  Dialled' /\ ShownOverIsOver'
<1>1. /\ provider \notin Live => provider' = provider
      /\ provider # "none" => provider' # "none"
      /\ provider \in Ended => provider' = provider /\ provider \notin Live
  BY DEF CallStatuses, Ended, Live
<1>2. (sid_known \/ media # "none" => provider # "none")'
  BY <1>1 DEF Dialled
<1>3. (creator \in {"insert", "dial"} =>
          provider = "none" /\ (status \in Ended => unasked # {}))'
  BY <1>1 DEF Dialled, Ended, Live
<1>4. (\A o \in Owners \ unasked :
          /\ owner[o] = "hangup" => provider # "none"
          /\ owner[o] \in {"load", "save"} => provider \in Ended)'
  BY <1>1 DEF Dialled
<1>5. ShownOverIsOver'
  BY <1>1 DEF ShownOverIsOver, Live
<1> QED BY <1>2, <1>3, <1>4, <1>5 DEF Dialled

LEMMA CreatorShown ==
  ASSUME RowType, HandlerType, SentInOrder, Dialled, ShownOverIsOver, Creator
  PROVE  Dialled' /\ ShownOverIsOver'
<1>1. UNCHANGED <<media, owner, unasked>>
  BY DEF Creator, Insert, Dial, CreatorLoads, CreatorSaves, CreatorRecords,
         CreatorUnchanged, countVars
<1>2. CASE Insert
  <2>1. /\ status' = "created" /\ UNCHANGED <<sid_known, provider>>
        /\ provider = "none"
    BY <1>2 DEF Insert, Dialled
  <2> QED BY <1>1, <2>1 DEF Dialled, ShownOverIsOver, Ended
<1>3. CASE Dial
  <2>1. /\ creator' \notin {"insert", "dial"}
        /\ UNCHANGED <<status, sid_known>>
    BY <1>3 DEF Dial, rowVars
  <2>2. provider = "none" /\ (status \in Ended => unasked # {})
    BY <1>3 DEF Dial, Dialled
  <2>3. ~sid_known /\ media = "none"
    BY <2>2 DEF Dialled
  <2>4. \A o \in Owners \ unasked : owner[o] \notin {"hangup", "load", "save"}
    BY <2>2 DEF Dialled, Ended
  <2> QED BY <1>1, <2>1, <2>2, <2>3, <2>4 DEF Dialled, ShownOverIsOver
<1>4. CASE CreatorLoads \/ CreatorSaves \/ CreatorRecords
  <2>1. UNCHANGED provider /\ creator' \notin {"insert", "dial"}
    BY <1>4 DEF CreatorLoads, CreatorSaves, CreatorRecords
  <2>2. sid_known' => sid_known \/ provider # "none"
    BY <1>4 DEF CreatorLoads, CreatorSaves, CreatorRecords, Load, Save, Record,
                rowVars, Simulated, RowType
  <2>3. status' \in Ended => status \in Ended \/ provider = "none"
    <3>1. CASE CreatorSaves /\ creator = "refuse_save"
      BY <3>1 DEF SentInOrder
    <3>2. CASE ~(CreatorSaves /\ creator = "refuse_save")
      BY <1>4, <3>2 DEF CreatorLoads, CreatorSaves, CreatorRecords, Load, Save,
                        Record, rowVars, Ended
    <3> QED BY <3>1, <3>2
  <2> QED BY <1>1, <2>1, <2>2, <2>3, ShownKept
<1> QED BY <1>2, <1>3, <1>4 DEF Creator

LEMMA CallbackShown ==
  ASSUME RowType, HandlerType, SentInOrder, Dialled, ShownOverIsOver,
         NEW s \in CallStatuses, NEW n \in 1..2, Callback(s, n)
  PROVE  Dialled' /\ ShownOverIsOver'
<1>1. UNCHANGED <<creator, media, owner, provider, unasked>>
  BY DEF Callback, Deliver, CallbackRecords, CallbackLoads, CallbackSaves,
         CallbackUnchanged, twilioVars
<1>2. sid_known' = sid_known
  BY DEF Callback, Deliver, CallbackRecords, CallbackLoads, CallbackSaves,
         Load, Save, Record, rowVars, RowType
<1>3. status' \in Ended => status \in Ended \/ provider \in Ended
  <2>1. CASE CallbackSaves(s, n) /\ s \in Ended
    <3>1. callback[<<s, n>>] = "save" /\ <<s, n>> \in Deliveries
      BY <2>1 DEF CallbackSaves, Deliveries
    <3>2. s \in SentSoFar
      BY <3>1 DEF SentInOrder
    <3> QED BY <2>1, <3>2, TerminalIsLast
  <2>2. CASE ~(CallbackSaves(s, n) /\ s \in Ended)
    BY <2>2 DEF Callback, Deliver, CallbackRecords, CallbackLoads, CallbackSaves,
                Load, Save, Record, rowVars
  <2> QED BY <2>1, <2>2
<1> QED BY <1>1, <1>2, <1>3, ShownKept

LEMMA MediaShown ==
  ASSUME RowType, HandlerType, SentInOrder, Dialled, ShownOverIsOver, Media
  PROVE  Dialled' /\ ShownOverIsOver'
<1>1. UNCHANGED <<creator, owner, unasked>>
  BY DEF Media, MediaStart, MediaLoads, MediaSaves, MediaRecords, MediaEnds,
         MediaUnchanged, countVars
<1>2. provider' = provider \/ (provider \in Live /\ provider' \in CallStatuses)
  BY DEF Media, MediaStart, MediaLoads, MediaSaves, MediaRecords, MediaEnds,
         TwilioCalls, Live, CallStatuses, Ended
<1>3. provider # "none"
  <2>1. CASE MediaStart
    BY <2>1, CallExists DEF MediaStart
  <2>2. CASE ~MediaStart
    BY <2>2 DEF Media, MediaLoads, MediaSaves, MediaRecords, MediaEnds, Dialled
  <2> QED BY <2>1, <2>2
<1>4. status' \in Ended => status \in Ended
  BY DEF Media, MediaStart, MediaLoads, MediaSaves, MediaRecords, MediaEnds,
         Load, Save, Record, rowVars, Ended
<1> QED BY <1>1, <1>2, <1>3, <1>4, ShownKept

LEMMA EndShown ==
  ASSUME RowType, HandlerType, Dialled, ShownOverIsOver, NEW o \in Owners, End(o)
  PROVE  Dialled' /\ ShownOverIsOver'
<1>1. UNCHANGED <<creator, media>>
  BY DEF End, EndGets, EndHangsUp, EndLoads, EndSaves, EndRecords, OwnerUnchanged
<1>2. sid_known' = sid_known
  BY DEF End, EndGets, EndHangsUp, EndLoads, EndSaves, EndRecords, Load, Save,
         Record, rowVars, RowType
<1>3. \A pc : owner' = [owner EXCEPT ![o] = pc] =>
          \A p \in Owners : owner'[p] = IF p = o THEN pc ELSE owner[p]
  BY DEF HandlerType
<1>4. CASE EndGets(o)
  <2>1. /\ UNCHANGED <<status, provider>> /\ unasked \subseteq unasked'
        /\ unasked' = unasked \cup {p \in {o} : owner'[p] = "load"}
    BY <1>4 DEF EndGets, rowVars
  <2>2. PICK pc : /\ owner' = [owner EXCEPT ![o] = pc]
                  /\ pc \in {"gone", "hangup", "load"}
                  /\ pc = "hangup" => sid_known
    <3> DEFINE next == CASE status \in Ended -> "gone"
                         [] status \notin Ended /\ sid_known -> "hangup"
                         [] status \notin Ended /\ ~sid_known -> "load"
    <3>1. owner' = [owner EXCEPT ![o] = next]
      BY <1>4 DEF EndGets
    <3>2. next \in {"gone", "hangup", "load"} /\ (next = "hangup" => sid_known)
      OBVIOUS
    <3> QED BY <3>1, <3>2
  <2>3. sid_known => provider # "none"
    BY DEF Dialled
  <2> QED BY <1>1, <1>2, <1>3, <2>1, <2>2, <2>3, ShownKept
<1>5. CASE EndHangsUp(o)
  <2>1. UNCHANGED <<status, unasked>>
    BY <1>5 DEF EndHangsUp, rowVars
  <2>2. /\ provider' = provider \/ (provider \in Live /\ provider' \in Ended)
        /\ HangUp => provider' \notin Live
    BY <1>5, LifecycleAssumption DEF EndHangsUp, HangUp, TwilioCalls, Ended, Live
  <2>3. PICK pc : /\ owner' = [owner EXCEPT ![o] = pc]
                  /\ pc \in {"gone", "load"}
                  /\ pc = "load" => HangUp
    BY <1>5 DEF EndHangsUp
  <2>4. o \notin unasked => provider # "none"
    BY <1>5 DEF EndHangsUp, Dialled
  <2>5. o \notin unasked /\ HangUp => provider' \in Ended
    BY <2>2, <2>4 DEF HandlerType, CallStatuses
  <2>6. provider' = provider \/ (provider \in Live /\ provider' \in CallStatuses)
    BY <2>2 DEF CallStatuses
  <2> QED BY <1>1, <1>2, <1>3, <2>1, <2>3, <2>5, <2>6, ShownKept
<1>6. CASE EndLoads(o) \/ EndSaves(o) \/ EndRecords(o)
  <2>1. UNCHANGED <<provider, unasked>>
    BY <1>6 DEF EndLoads, EndSaves, EndRecords
  <2>2. PICK pc : /\ owner' = [owner EXCEPT ![o] = pc]
                  /\ pc \in {"save", "event", "ended"}
                  /\ pc = "save" => owner[o] = "load"
    BY <1>6 DEF EndLoads, EndSaves, EndRecords
  <2>3. status' # status => owner[o] = "save"
    BY <1>6 DEF EndLoads, EndSaves, EndRecords, Load, Record, rowVars
  <2>4. owner[o] = "save" => provider \in Ended \/ unasked # {}
    BY DEF Dialled
  <2> QED BY <1>1, <1>2, <1>3, <2>1, <2>2, <2>3, <2>4, ShownKept
<1> QED BY <1>4, <1>5, <1>6 DEF End

LEMMA StepShown ==
  RowType /\ HandlerType /\ SentInOrder /\ Dialled /\ ShownOverIsOver /\ [Next]_vars
      => Dialled' /\ ShownOverIsOver'
<1> SUFFICES ASSUME RowType, HandlerType, SentInOrder, Dialled, ShownOverIsOver,
                    [Next]_vars
             PROVE  Dialled' /\ ShownOverIsOver'
  OBVIOUS
<1>1. CASE Progress
  <2>1. UNCHANGED <<status, sid_known, creator, media, owner, unasked>>
    BY <1>1 DEF Progress, rowVars, handlerVars, countVars
  <2>2. provider \in Live /\ provider' \in CallStatuses
    BY <1>1, LifecycleAssumption DEF Progress, TwilioCalls, Live, CallStatuses, Ended
  <2> QED BY <2>1, <2>2, ShownKept
<1>2. CASE Summarise \/ UNCHANGED vars \/ \E r \in Requests : Retry(r)
  <2>1. UNCHANGED <<status, sid_known, creator, media, owner, provider, unasked>>
    BY <1>2 DEF Summarise, Retry, RowUnchanged, vars, rowVars, handlerVars,
                twilioVars, countVars
  <2> QED BY <2>1, ShownKept
<1>3. CASE Crash
  <2>1. UNCHANGED <<status, sid_known, provider, unasked>>
    BY <1>3 DEF Crash, rowVars, twilioVars, countVars
  <2>2. /\ creator' \notin {"insert", "dial"}
        /\ media' # "none" => media # "none"
        /\ \A o \in Owners : owner'[o] \notin {"hangup", "load", "save"}
    BY <1>3 DEF Crash
  <2> QED BY <2>1, <2>2, ShownKept
<1> QED
  BY <1>1, <1>2, <1>3, CreatorShown, CallbackShown, MediaShown, EndShown DEF Next
-----------------------------------------------------------------------------
(* Theorems *)

LEMMA InitLifecycle ==
  Init => /\ RowType /\ HandlerType /\ Scheduling /\ SentInOrder /\ FinalInTurn
          /\ Dialled /\ ShownOverIsOver
<1> SUFFICES ASSUME Init
             PROVE  /\ RowType /\ HandlerType /\ Scheduling /\ SentInOrder
                    /\ FinalInTurn /\ Dialled /\ ShownOverIsOver
  OBVIOUS
<1>1. RowType
  BY DEF Init, RowType, Statuses
<1>2. HandlerType
  <2>1. sent \in Seq(CallStatuses)
    BY DEF Init
  <2> QED BY <2>1 DEF Init, HandlerType, CreatorPc, MediaPc, CallbackPc, OwnerPc
<1>3. \A m \in 1..2 : callback[<<"completed", m>>] = "idle"
  BY SomeHandlers, SomeStatuses DEF Init
<1>4. Scheduling
  BY <1>3 DEF Init, Scheduling
<1>5. SentInOrder /\ FinalInTurn
  BY DEF Init, SentInOrder, FinalInTurn, Ended
<1>6. Dialled /\ ShownOverIsOver
  BY DEF Init, Dialled, ShownOverIsOver, Ended
<1> QED BY <1>1, <1>2, <1>4, <1>5, <1>6

\* The row, the handlers and the summary keep their types, the report is
\* scheduled by the one delivery that recorded CALL_COMPLETED, a terminal
\* status whose callback came in turn is written over by an end request only,
\* and an end request goes on with a call that is over (call_status,
\* update_call, end_call).
THEOREM LifecycleInvariant == Spec => []LifecycleInv
<1>1. Spec => [](/\ RowType /\ HandlerType /\ Scheduling /\ SentInOrder /\ FinalInTurn
                 /\ Dialled /\ ShownOverIsOver)
  BY InitLifecycle, StepType, StepScheduling, StepSent, StepFinal, StepShown, PTL
  DEF Spec
<1>2. Spec => []SummaryInv
  BY SummaryUsed, SummaryInvariant, PTL DEF SummaryImplemented
<1>3. SummaryInv /\ RowType /\ HandlerType /\ Scheduling /\ SentInOrder
          /\ FinalInTurn /\ Dialled /\ ShownOverIsOver => LifecycleInv
  BY TypeParts DEF SummaryInv, LifecycleInv, TypeOK
<1> QED BY <1>1, <1>2, <1>3, PTL

\* A "completed" callback schedules one report, however often it is delivered
\* and wherever the process dies in between (call_status).
THEOREM ScheduledOnce == Spec => []ReportScheduledOnce
<1>1. LifecycleInv => ReportScheduledOnce
  BY DEF LifecycleInv, Scheduling, ReportScheduledOnce, TypeOK, LifecycleTypeOK
<1> QED BY <1>1, LifecycleInvariant, PTL

\* A "completed" callback whose event was recorded schedules its report, be the
\* row completed already or not: only the death of the process between
\* record_event and the end of call_status keeps it from that (call_status).
THEOREM CompletionIsReported == Spec => []CompletionReported
<1>1. LifecycleInv => CompletionReported
  BY DEF LifecycleInv, Scheduling, CompletionReported
<1> QED BY <1>1, LifecycleInvariant, PTL

\* Whatever the creator, the media stream and the owners read and write of the
\* row between their awaits, and however many owners there are: once Twilio's
\* call is over and its callbacks were handled in turn, a call whose SID is
\* known shows how Twilio ended it, or "completed" when an owner's request has
\* written that (call_status, update_call, end_call).
THEOREM StatusConverges == Spec => []Converges
<1>1. LifecycleInv => Converges
  <2> SUFFICES ASSUME LifecycleInv, Settled, provider \in Ended, sid_known,
                      ~overtaken, ~crashed
               PROVE  TellsTheEnd
    BY DEF Converges
  <2>1. provider \in SentSoFar
    BY TerminalIsLast, TypeParts DEF LifecycleInv, TypeOK
  <2>2. callback[Last] = "handled"
    BY <2>1 DEF Settled, Last
  <2>3. LastCounts(Last)
    BY DEF LifecycleInv, FinalInTurn, Last
  <2> QED BY <2>2, <2>3 DEF LastCounts
<1> QED BY <1>1, LifecycleInvariant, PTL

\* In whatever order the callbacks come, whatever fails and wherever the process
\* dies: no row shows a call as over that goes on, so nobody is kept from ending
\* it, but by an end request that came before the call's SID (call_status,
\* create_call, end_call).
THEOREM OverIsOver == Spec => []ShownOverIsOver
<1>1. LifecycleInv => ShownOverIsOver
  BY DEF LifecycleInv
<1> QED BY <1>1, LifecycleInvariant, PTL
=============================================================================
