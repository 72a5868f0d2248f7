--------------------------- MODULE CallLifecycle ---------------------------
(***************************************************************************)
(* The row of one call and everything that writes its status: the request  *)
(* that creates the call (routers/calls.py), Twilio's status callbacks and *)
(* the start of the media stream (routers/twilio.py), the owner's requests *)
(* to end the call and to retry its report (routers/web.py).  Handlers run *)
(* concurrently on one event loop; an action is what a handler does        *)
(* between two awaits that another handler could notice.                   *)
(***************************************************************************)
EXTENDS PostCallSummary, Sequences, FiniteSets

\* Faults may also hold "refused" and "unreachable", the outcomes of a request
\* to Twilio besides success, and "dry_run"
CONSTANTS
    Owners,         \* the owner's requests to end the call
    Failures,       \* how Twilio may report a call that was not answered
    Duplicated,     \* the statuses whose callback may be delivered twice
    MaxInFlight     \* bound: a callback arrives when fewer handlers are at work

\* TERMINAL_STATUSES
Ended == {"completed", "busy", "failed", "no-answer", "canceled"}
Live == {"queued", "initiated", "ringing", "in-progress"}

CallbackTask == "callback"

ASSUME LifecycleAssumption ==
    /\ CallbackTask \in Requests
    /\ Failures \subseteq {"busy", "failed", "no-answer", "canceled"}
    /\ MaxInFlight \in Nat
    /\ "db_failure" \notin Faults   \* explored in PostCallSummary only
    /\ Owners \cap (Ended \cup Live \cup {"creator", "media"}) = {}

VARIABLES
    (* The row, and the dedupe keys of its events *)
    status,         \* column status, "none" before the row exists
    sid_known,      \* column twilio_call_sid is not NULL
    ended,          \* column ended_at is not NULL
    keys,
    (* The application *)
    in_store,       \* the CallStore has the call's runtime
    creator,        \* create_call: the await it is suspended at
    callback,       \* call_status: the same, for each delivery
    media,          \* media_stream
    owner,          \* end_call
    loaded,         \* the status each handler's update_call has read
    crashed,        \* the process has died once
    (* Twilio *)
    provider,       \* the state of the phone call, "none" if there is none
    sent,           \* the statuses Twilio has sent callbacks for, in order
    (* History, read by the properties only *)
    overtaken,      \* a callback was delivered out of turn
    scheduled,      \* times the background report was scheduled
    unasked         \* end requests that found no SID and asked Twilio nothing

rowVars == <<status, sid_known, ended, keys>>
twilioVars == <<provider, sent>>
handlerVars == <<creator, callback, media, owner, loaded>>
countVars == <<overtaken, scheduled, unasked>>
vars == <<rowVars, in_store, handlerVars, crashed, twilioVars, countVars,
          summaryVars>>

\* CALL_STATUSES
CallStatuses == Ended \cup Live
Statuses == CallStatuses \cup {"none", "created", "simulated"}

\* The callback of a status is delivered once or, in duplicate, twice
Deliveries == CallStatuses \X (1..2)

TheCreator == <<"creator", 1>>
TheMedia == <<"media", 1>>
EndRequest(o) == <<o, 1>>
Handlers == {TheCreator, TheMedia} \cup {EndRequest(o) : o \in Owners}
              \cup Deliveries

\* The dedupe keys of the events that are recorded once
EventKeys == {"call-created", "call-requested", "call-ringing",
              "call-answered", "call-completed", "call-failed",
              "stream-started", "owner-end-requested"}

CreatorPc == {"insert", "dial", "accept", "accept_save", "accept_event",
              "refuse", "refuse_save", "refuse_event", "done", "crashed"}
CallbackPc == {"idle", "event", "load", "save", "handled"}
MediaPc == {"none", "load", "save", "event", "bridge", "closed"}
OwnerPc == {"idle", "hangup", "load", "save", "event", "ended", "gone"}

LifecycleTypeOK ==
    /\ status \in Statuses
    /\ sid_known \in BOOLEAN /\ ended \in BOOLEAN /\ in_store \in BOOLEAN
    /\ keys \subseteq EventKeys
    /\ creator \in CreatorPc
    /\ callback \in [Deliveries -> CallbackPc]
    /\ media \in MediaPc
    /\ owner \in [Owners -> OwnerPc]
    /\ loaded \in [Handlers -> Statuses]
    /\ crashed \in BOOLEAN
    /\ provider \in CallStatuses \cup {"none"}
    /\ sent \in Seq(CallStatuses)
    /\ overtaken \in BOOLEAN /\ scheduled \in Nat /\ unasked \subseteq Owners

TypeOK == LifecycleTypeOK /\ SummaryTypeOK

Init ==
    /\ SummaryInit
    /\ status = "none"
    /\ sid_known = FALSE /\ ended = FALSE /\ in_store = FALSE
    /\ keys = {}
    /\ creator = "insert"
    /\ callback = [d \in Deliveries |-> "idle"]
    /\ media = "none"
    /\ owner = [o \in Owners |-> "idle"]
    /\ loaded = [h \in Handlers |-> "none"]
    /\ crashed = FALSE
    /\ provider = "none"
    /\ sent = <<>>
    /\ overtaken = FALSE /\ scheduled = 0 /\ unasked = {}
-----------------------------------------------------------------------------
(* The repository.  update_call reads the row, then commits the columns    *)
(* whose new value differs from what it read; other handlers run between.  *)

Load(h) ==
    /\ loaded' = [loaded EXCEPT ![h] = status]
    /\ UNCHANGED rowVars

\* A timestamp is never what was read; an update leaves columns out by
\* passing FALSE for them
Save(h, new, sid, end) ==
    /\ status' = IF new = loaded[h] THEN status ELSE new
    /\ sid_known' = (sid_known \/ sid)
    /\ ended' = (ended \/ end)
    /\ loaded' = [loaded EXCEPT ![h] = "none"]
    /\ UNCHANGED keys

\* record_event: a dedupe key is inserted once
Record(key) ==
    /\ keys' = keys \cup {key}
    /\ UNCHANGED <<status, sid_known, ended, loaded>>
-----------------------------------------------------------------------------
(* create_call *)

CreatorUnchanged == UNCHANGED <<callback, media, owner, crashed, sent,
                                countVars, summaryVars>>

\* store.add, the row and the CALL_CREATED event
Insert ==
    /\ creator = "insert"
    /\ creator' = "dial"
    /\ in_store' = TRUE
    /\ status' = "created"
    /\ keys' = keys \cup {"call-created"}
    /\ UNCHANGED <<sid_known, ended, loaded, provider>>
    /\ CreatorUnchanged

\* service.create in a thread.  A dry run creates no call; a failure that is
\* no ConfigurationError or TwilioRestException, a timeout say, is not caught
Dial ==
    /\ creator = "dial"
    /\ \/ creator' = "accept" /\ provider' = "queued" /\ UNCHANGED in_store
       \/ /\ "dry_run" \in Faults
          /\ creator' = "accept" /\ UNCHANGED <<provider, in_store>>
       \/ /\ "refused" \in Faults
          /\ creator' = "refuse" /\ in_store' = FALSE /\ UNCHANGED provider
       \/ /\ "unreachable" \in Faults
          /\ creator' = "done" /\ UNCHANGED in_store
          /\ provider' \in {"none", "queued"}
    /\ UNCHANGED <<rowVars, loaded>>
    /\ CreatorUnchanged

CreatorLoads ==
    /\ \/ creator = "accept" /\ creator' = "accept_save"
       \/ creator = "refuse" /\ creator' = "refuse_save"
    /\ Load(TheCreator)
    /\ UNCHANGED <<in_store, provider>>
    /\ CreatorUnchanged

\* Whether Twilio has a call was settled by Dial: its response said so
Simulated == provider = "none"

CreatorSaves ==
    /\ \/ /\ creator = "accept_save"
          /\ creator' = "accept_event"
          /\ IF Simulated
               THEN Save(TheCreator, "simulated", FALSE, FALSE)
               ELSE Save(TheCreator, "queued", TRUE, FALSE)
       \/ /\ creator = "refuse_save"
          /\ creator' = "refuse_event"
          /\ Save(TheCreator, "failed", FALSE, TRUE)
    /\ UNCHANGED <<in_store, provider>>
    /\ CreatorUnchanged

CreatorRecords ==
    /\ creator \in {"accept_event", "refuse_event"}
    /\ Record(IF creator = "accept_event" THEN "call-requested"
                                          ELSE "call-failed")
    /\ creator' = "done"
    /\ UNCHANGED <<in_store, provider>>
    /\ CreatorUnchanged

Creator == \/ Insert \/ Dial
           \/ CreatorLoads \/ CreatorSaves \/ CreatorRecords
-----------------------------------------------------------------------------
(* Twilio *)

TwilioCalls(s) == provider' = s /\ sent' = Append(sent, s)

Progress ==
    /\ \/ provider = "queued" /\ TwilioCalls("initiated")
       \/ provider = "initiated" /\ TwilioCalls("ringing")
       \/ provider = "ringing" /\ TwilioCalls("in-progress")
       \/ provider = "in-progress" /\ TwilioCalls("completed")
       \/ /\ provider \in {"queued", "initiated", "ringing"}
          /\ \E f \in Failures : TwilioCalls(f)
    /\ UNCHANGED <<rowVars, in_store, handlerVars, crashed, countVars,
                   summaryVars>>

SentSoFar == {sent[n] : n \in DOMAIN sent}

DedupeKey(s) ==
    CASE s \in {"queued", "initiated"} -> "call-requested"
      [] s = "ringing" -> "call-ringing"
      [] s = "in-progress" -> "call-answered"
      [] s = "completed" -> "call-completed"
      [] OTHER -> "call-failed"

\* Twilio's callback arrives when everything that came before it, the creation
\* of the call and the start of its media stream included, was handled.  Later
\* callbacks may come before its duplicate, unless it had found no call.
InTurn(s) ==
    /\ creator \in {"done", "crashed"}
    /\ media \notin {"load", "save"}
    /\ s \in Ended /\ "in-progress" \in SentSoFar => media # "none"
    /\ \A d \in Deliveries : callback[d] \in {"idle", "handled"}
    /\ \A n \in {k \in DOMAIN sent : sent[k] = s} :
          /\ \A m \in 1..(n - 1) : callback[<<sent[m], 1>>] = "handled"
          /\ \/ DedupeKey(s) \in keys
             \/ \A m \in (n + 1)..Len(sent) : callback[<<sent[m], 1>>] = "idle"

\* The handlers that are between two awaits
AtWork ==
    {TheCreator : c \in {creator} \ {"done", "crashed"}}
      \cup {TheMedia : m \in {media} \cap {"load", "save", "event"}}
      \cup {EndRequest(o) : o \in {p \in Owners :
                               owner[p] \notin {"idle", "ended", "gone"}}}
      \cup {d \in Deliveries : callback[d] \notin {"idle", "handled"}}

\* A callback arrives; a call whose SID is not stored yet is not found
Deliver(s, n) ==
    /\ s \in SentSoFar
    /\ callback[<<s, n>>] = "idle"
    /\ n = 2 => s \in Duplicated /\ callback[<<s, 1>>] # "idle"
    /\ Cardinality(AtWork) < MaxInFlight
    /\ callback' = [callback EXCEPT ![<<s, n>>] =
                       IF sid_known THEN "event" ELSE "handled"]
    /\ overtaken' = (overtaken \/ ~InTurn(s))
    /\ UNCHANGED <<rowVars, in_store, creator, media, owner, loaded, crashed,
                   twilioVars, scheduled, unasked, summaryVars>>
-----------------------------------------------------------------------------
(* call_status, for a call that was found *)

CallbackUnchanged == UNCHANGED <<in_store, creator, media, owner, crashed,
                                 twilioVars, overtaken, unasked>>

\* Variant: the result of record_event is not looked at
CallbackRecordsAgain(s, n) ==
    /\ callback[<<s, n>>] = "event"
    /\ callback' = [callback EXCEPT ![<<s, n>>] = "load"]
    /\ Record(DedupeKey(s))
    /\ CallbackUnchanged
    /\ UNCHANGED <<scheduled, summaryVars>>

CallbackRecords(s, n) ==
    /\ callback[<<s, n>>] = "event"
    /\ callback' = [callback EXCEPT ![<<s, n>>] =
                       IF DedupeKey(s) \in keys THEN "handled" ELSE "load"]
    /\ Record(DedupeKey(s))
    /\ CallbackUnchanged
    /\ UNCHANGED <<scheduled, summaryVars>>

CallbackLoads(s, n) ==
    /\ callback[<<s, n>>] = "load"
    /\ callback' = [callback EXCEPT ![<<s, n>>] = "save"]
    /\ Load(<<s, n>>)
    /\ CallbackUnchanged
    /\ UNCHANGED <<scheduled, summaryVars>>

\* Variant: the report is scheduled only when the row was not completed yet
CallbackSavesChange(s, n) ==
    /\ callback[<<s, n>>] = "save"
    /\ callback' = [callback EXCEPT ![<<s, n>>] = "handled"]
    /\ Save(<<s, n>>, s, FALSE, s \in Ended)
    /\ IF s = "completed" /\ loaded[<<s, n>>] # s
         THEN /\ scheduled' = scheduled + 1
              /\ IF task[CallbackTask] = "idle" /\ attempts < MaxAttempts
                   THEN Ask(CallbackTask)
                   ELSE UNCHANGED summaryVars
         ELSE UNCHANGED <<scheduled, summaryVars>>
    /\ CallbackUnchanged

\* The background task starts once the response is sent
CallbackSaves(s, n) ==
    /\ callback[<<s, n>>] = "save"
    /\ callback' = [callback EXCEPT ![<<s, n>>] = "handled"]
    /\ Save(<<s, n>>, s, FALSE, s \in Ended)
    /\ IF s = "completed"
         THEN /\ scheduled' = scheduled + 1
              /\ IF task[CallbackTask] = "idle" /\ attempts < MaxAttempts
                   THEN Ask(CallbackTask)
                   ELSE UNCHANGED summaryVars
         ELSE UNCHANGED <<scheduled, summaryVars>>
    /\ CallbackUnchanged

Callback(s, n) == \/ Deliver(s, n) \/ CallbackRecords(s, n)
                  \/ CallbackLoads(s, n) \/ CallbackSaves(s, n)
-----------------------------------------------------------------------------
(* media_stream *)

MediaUnchanged == UNCHANGED <<in_store, creator, callback, owner, crashed,
                              countVars, summaryVars>>

\* The start message of the stream the answered call opens; without the
\* call's runtime the stream is closed
MediaStart ==
    /\ media = "none"
    /\ "in-progress" \in SentSoFar
    /\ media' = IF in_store THEN "load" ELSE "closed"
    /\ UNCHANGED <<rowVars, loaded, provider, sent>>
    /\ MediaUnchanged

MediaLoads ==
    /\ media = "load"
    /\ media' = "save"
    /\ Load(TheMedia)
    /\ UNCHANGED <<provider, sent>>
    /\ MediaUnchanged

MediaSaves ==
    /\ media = "save"
    /\ media' = "event"
    /\ Save(TheMedia, "in-progress", TRUE, FALSE)
    /\ UNCHANGED <<provider, sent>>
    /\ MediaUnchanged

MediaRecords ==
    /\ media = "event"
    /\ media' = "bridge"
    /\ Record("stream-started")
    /\ UNCHANGED <<provider, sent>>
    /\ MediaUnchanged

\* bridge.run() returns and the stream is closed; the TwiML ends there, and
\* with it a call still in progress
MediaEnds ==
    /\ media = "bridge"
    /\ media' = "closed"
    /\ IF provider = "in-progress"
         THEN TwilioCalls("completed")
         ELSE UNCHANGED <<provider, sent>>
    /\ UNCHANGED <<rowVars, loaded>>
    /\ MediaUnchanged

Media == \/ MediaStart \/ MediaLoads \/ MediaSaves
         \/ MediaRecords \/ MediaEnds
-----------------------------------------------------------------------------
(* end_call *)

OwnerUnchanged == UNCHANGED <<in_store, creator, callback, media, crashed,
                              overtaken, scheduled, summaryVars>>

\* get_call; a call that ended already is answered at once
EndGets(o) ==
    /\ owner[o] = "idle"
    /\ status # "none"
    /\ owner' = [owner EXCEPT ![o] =
                    CASE status \in Ended -> "gone"
                      [] status \notin Ended /\ sid_known -> "hangup"
                      [] status \notin Ended /\ ~sid_known -> "load"]
    /\ unasked' = unasked \cup {p \in {o} : owner'[p] = "load"}
    /\ UNCHANGED <<rowVars, loaded, provider, sent>>
    /\ OwnerUnchanged

HangUp ==
    IF provider \in Live
      THEN \E e \in {"completed"} \cup Failures : TwilioCalls(e)
      ELSE UNCHANGED <<provider, sent>>

\* Variant: a refusal is logged, and the row says that the call has ended
EndAfterRefusal(o) ==
    /\ owner[o] = "hangup"
    /\ owner' = [owner EXCEPT ![o] = "load"]
    /\ \/ HangUp
       \/ "refused" \in Faults /\ UNCHANGED <<provider, sent>>
    /\ UNCHANGED <<rowVars, loaded, unasked>>
    /\ OwnerUnchanged

\* service.end in a thread.  A refusal is answered with an error; whether
\* Twilio did what it was asked before a timeout, nobody knows
EndHangsUp(o) ==
    /\ owner[o] = "hangup"
    /\ \/ owner' = [owner EXCEPT ![o] = "load"] /\ HangUp
       \/ /\ Faults \cap {"refused", "unreachable"} # {}
          /\ owner' = [owner EXCEPT ![o] = "gone"]
          /\ \/ UNCHANGED <<provider, sent>>
             \/ "unreachable" \in Faults /\ HangUp
    /\ UNCHANGED <<rowVars, loaded, unasked>>
    /\ OwnerUnchanged

EndLoads(o) ==
    /\ owner[o] = "load"
    /\ owner' = [owner EXCEPT ![o] = "save"]
    /\ Load(EndRequest(o))
    /\ UNCHANGED <<provider, sent, unasked>>
    /\ OwnerUnchanged

EndSaves(o) ==
    /\ owner[o] = "save"
    /\ owner' = [owner EXCEPT ![o] = "event"]
    /\ Save(EndRequest(o), "completed", FALSE, TRUE)
    /\ UNCHANGED <<provider, sent, unasked>>
    /\ OwnerUnchanged

EndRecords(o) ==
    /\ owner[o] = "event"
    /\ owner' = [owner EXCEPT ![o] = "ended"]
    /\ Record("owner-end-requested")
    /\ UNCHANGED <<provider, sent, unasked>>
    /\ OwnerUnchanged

End(o) == EndGets(o) \/ EndHangsUp(o) \/ EndLoads(o) \/ EndSaves(o) \/ EndRecords(o)
-----------------------------------------------------------------------------
(* The report, and the process *)

RowUnchanged == UNCHANGED <<rowVars, handlerVars, twilioVars, countVars>>

\* Variant: the retry sets the summary back to pending before it asks
RetryResets(r) ==
    /\ r # CallbackTask
    /\ status = "completed"
    /\ task[r] = "idle"
    /\ attempts < MaxAttempts
    /\ summary_status' = "pending"
    /\ Goto(r, "claim")
    /\ UNCHANGED <<report, attempts, attempt, broken>>
    /\ RowUnchanged /\ UNCHANGED <<in_store, crashed>>

\* retry_summary, up to the call of generate()
Retry(r) ==
    /\ r # CallbackTask
    /\ status = "completed"
    /\ Ask(r)
    /\ RowUnchanged /\ UNCHANGED <<in_store, crashed>>

Summarise ==
    /\ \E r \in Requests : Proceed(r)
    /\ RowUnchanged /\ UNCHANGED <<in_store, crashed>>

\* Handlers, background tasks and the store die with the process; the media
\* stream breaks, Twilio and the database stay
Crash ==
    /\ "crash" \in Faults
    /\ ~crashed
    /\ crashed' = TRUE
    /\ Abandon
    /\ in_store' = FALSE
    /\ creator' = IF creator = "done" THEN "done" ELSE "crashed"
    /\ callback' = [d \in Deliveries |->
                       IF callback[d] = "idle" THEN "idle" ELSE "handled"]
    /\ media' = IF media = "none" THEN "none" ELSE "closed"
    /\ owner' = [o \in Owners |->
                    IF owner[o] \in {"idle", "ended"} THEN owner[o] ELSE "gone"]
    /\ UNCHANGED <<rowVars, loaded, twilioVars, countVars>>

Next ==
    \/ Creator
    \/ Progress
    \/ \E s \in CallStatuses, n \in 1..2 : Callback(s, n)
    \/ Media
    \/ \E o \in Owners : End(o)
    \/ \E r \in Requests : Retry(r)
    \/ Summarise
    \/ Crash

Spec == Init /\ [][Next]_vars
-----------------------------------------------------------------------------
(* Properties *)

\* No step of the system does to the summary columns what PostCallSummary
\* does not: what is proved of the service holds of it in the application.
SummaryImplemented == SummarySpec

\* The report is scheduled by the one delivery that recorded CALL_COMPLETED,
\* which goes on to schedule it unless the process dies
Scheduling ==
    /\ \A m \in 1..2 : callback[<<"completed", m>>] \in {"load", "save"} =>
          /\ scheduled = 0
          /\ DedupeKey("completed") \in keys
          /\ \A n \in 1..2 :
                callback[<<"completed", n>>] \in {"load", "save"} => n = m
    /\ scheduled > 0 => scheduled = 1 /\ DedupeKey("completed") \in keys
    /\ DedupeKey("completed") \in keys /\ ~crashed =>
          \/ scheduled = 1
          \/ \E m \in 1..2 : callback[<<"completed", m>>] \in {"load", "save"}

\* A terminal status is the last that Twilio sends; callbacks tell of what was
\* sent, a duplicate after the first; the keys of terminal statuses are
\* recorded once Twilio's call is over, or by a creator it was refused
SentInOrder ==
    /\ IF sent = <<>> THEN provider \in {"none", "queued"}
                      ELSE provider = sent[Len(sent)]
    /\ \A k \in 1..(Len(sent) - 1) : sent[k] \notin Ended
    /\ \A d \in Deliveries : callback[d] # "idle" =>
          d[1] \in SentSoFar /\ callback[<<d[1], 1>>] # "idle"
    /\ creator \in {"insert", "dial", "refuse", "refuse_save", "refuse_event"} =>
          provider = "none"
    /\ keys \cap {"call-completed", "call-failed"} # {} =>
          \/ provider \in Ended
          \/ provider = "none" /\ creator \in {"done", "crashed"}

\* Twilio's last callback came when the creator and the media stream were done
\* with the row and every status before it was handled; what comes behind it
\* repeats an event that is recorded
NothingFollows(last) ==
    /\ creator \in {"done", "crashed"}
    /\ media \notin {"load", "save"}
    /\ "in-progress" \in SentSoFar => media # "none"
    /\ \A k \in 1..(Len(sent) - 1) : callback[<<sent[k], 1>>] = "handled"
    /\ \A d \in Deliveries \ {last} :
          /\ callback[d] \in {"idle", "event", "handled"}
          /\ callback[d] = "event" => DedupeKey(d[1]) \in keys

\* An end request has written "completed"
EndedByOwner ==
    status = "completed" /\ \E o \in Owners : owner[o] \in {"event", "ended"}

\* The row shows how Twilio's call ended, or that its owner ended it
TellsTheEnd == status = provider \/ EndedByOwner

\* It records its event first, and its update_call leaves a row that tells the
\* end whichever status it has read
LastCounts(last) ==
    /\ callback[last] \in {"event", "load", "save"} => sid_known
    /\ callback[last] \in {"idle", "event"} => DedupeKey(provider) \notin keys
    /\ callback[last] \in {"load", "save", "handled"} /\ sid_known =>
          DedupeKey(provider) \in keys
    /\ callback[last] = "save" => loaded[last] = status \/ TellsTheEnd
    /\ callback[last] = "handled" /\ sid_known => TellsTheEnd

FinalInTurn ==
    provider \in Ended /\ ~overtaken /\ ~crashed =>
        /\ callback[<<provider, 1>>] # "idle" => NothingFollows(<<provider, 1>>)
        /\ LastCounts(<<provider, 1>>)

\* A call the row shows as over, so that no request to end it reaches Twilio
\* any more (end_call), is over, unless an end request found no SID.
ShownOverIsOver == status \in Ended /\ unasked = {} => provider \notin Live

\* A known SID and a media stream are those of a call; before Twilio was asked
\* for one, nobody but an end request without a SID has ended the row; an end
\* request that asked Twilio goes on with a call that is over
Dialled ==
    /\ sid_known \/ media # "none" => provider # "none"
    /\ creator \in {"insert", "dial"} =>
          provider = "none" /\ (status \in Ended => unasked # {})
    /\ \A o \in Owners \ unasked :
          /\ owner[o] = "hangup" => provider # "none"
          /\ owner[o] \in {"load", "save"} => provider \in Ended

\* The inductive invariant
LifecycleInv ==
    TypeOK /\ Scheduling /\ SentInOrder /\ FinalInTurn /\ Dialled /\ ShownOverIsOver

\* One "completed" callback schedules one report, however often and however
\* concurrently Twilio delivers it, and whatever died in between.
ReportScheduledOnce == scheduled <= 1

\* A "completed" callback that was recorded, so that its redelivery is taken for
\* a duplicate, has its report scheduled when no delivery of it is at work any
\* more, whatever the owner wrote of the row before, unless the process died
\* between record_event and the end of call_status.
CompletionReported ==
    /\ DedupeKey("completed") \in keys /\ ~crashed
    /\ \A n \in 1..2 : callback[<<"completed", n>>] \notin {"load", "save"}
    => scheduled = 1

\* Nothing is left to happen: every callback was delivered and handled
Settled ==
    /\ creator \in {"done", "crashed"}
    /\ \A s \in SentSoFar : callback[<<s, 1>>] = "handled"
    /\ \A d \in Deliveries : callback[d] \in {"idle", "handled"}
    /\ media = "closed" \/ (media = "none" /\ "in-progress" \notin SentSoFar)
    /\ \A o \in Owners : owner[o] \in {"idle", "ended", "gone"}

\* When Twilio's call is over and all it sent was handled in turn, the row of
\* a call whose SID is known shows how it ended, or "completed" when an owner's
\* request ended it, whatever the creator, the media stream and the owners read
\* and write in between.
Converges ==
    Settled /\ provider \in Ended /\ sid_known /\ ~overtaken /\ ~crashed
        => TellsTheEnd

\* A terminal status stays, in whatever order the callbacks are delivered.
AlwaysConverges ==
    Settled /\ provider \in Ended /\ sid_known /\ ~crashed
        => status \in Ended
=============================================================================
