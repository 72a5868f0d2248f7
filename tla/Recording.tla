----------------------------- MODULE Recording -----------------------------
(***************************************************************************)
(* The recordings of one call: RecordingCoordinator.start, awaited by the  *)
(* call's media stream, Twilio's recording-status callbacks and the        *)
(* background downloads, which all upsert the rows of call_recordings.     *)
(* An action is what a handler does between two awaits that another        *)
(* handler could notice.  The call's SID was stored before the bridge      *)
(* began, so every callback finds the call.                                *)
(***************************************************************************)
EXTENDS Naturals, FiniteSets

CONSTANTS
    Recordings,     \* the recordings Twilio may make
    MaxStarts,      \* bound: how often the call asks for a recording
    Duplicated,     \* the statuses whose callback may be delivered twice
    MaxInFlight,    \* bound: a callback arrives when fewer handlers are at work
    Options         \* "download": recordings are downloaded; the failures
                    \* "refused", "unreachable" and "cancelled"

ASSUME RecordingAssumption ==
    MaxStarts \in Nat /\ MaxInFlight \in Nat /\ 0 \notin Recordings

VARIABLES
    (* The database *)
    row,        \* column status of each recording, "none" if there is no row
    local_path, \* the recordings whose local_path is not NULL
    keys,       \* the dedupe keys <<recording, status>>
    (* The handlers *)
    pc,         \* the await each handler is suspended at
    read,       \* the status each handler's upsert has read
    current,    \* the recording start() upserts
    starts,     \* calls of start() so far
    (* Twilio *)
    provider,   \* the state of each recording
    (* History, read by the properties only *)
    scheduled,  \* downloads scheduled of each recording
    hidden,     \* a timeout hid from start() that a recording began
    overtaken   \* the recordings one of whose callbacks came out of turn

dbVars == <<row, local_path, keys>>
historyVars == <<scheduled, hidden, overtaken>>
vars == <<dbVars, pc, read, current, starts, provider, historyVars>>

Final == {"completed", "absent"}
\* RECORDING_STATUSES
RecordingStatuses == {"in-progress"} \cup Final
MaybeStatus == RecordingStatuses \cup {"none"}

\* A handler is named <<recording, what, n>>; start() learns its recording
Starter == <<0, "start", 1>>
Callbacks == Recordings \X RecordingStatuses \X (1..2)
Download(r) == <<r, "download", 1>>
Handlers == {Starter} \cup Callbacks \cup {Download(r) : r \in Recordings}

Pc == {"idle", "request", "fetch", "get", "put", "event", "failed_event",
       "handled", "raised", "cancelled"}

TypeOK ==
    /\ row \in [Recordings -> MaybeStatus]
    /\ local_path \subseteq Recordings
    /\ keys \subseteq Recordings \X RecordingStatuses
    /\ pc \in [Handlers -> Pc]
    /\ read \in [Handlers -> MaybeStatus]
    /\ current \in Recordings \cup {0}
    /\ pc[Starter] \in {"get", "put"} => current \in Recordings
    /\ starts \in 0..MaxStarts
    /\ provider \in [Recordings -> MaybeStatus]
    /\ scheduled \in [Recordings -> Nat]
    /\ hidden \in BOOLEAN
    /\ overtaken \subseteq Recordings

Init ==
    /\ row = [r \in Recordings |-> "none"]
    /\ local_path = {} /\ keys = {}
    /\ pc = [h \in Handlers |-> "idle"]
    /\ read = [h \in Handlers |-> "none"]
    /\ current = 0 /\ starts = 0
    /\ provider = [r \in Recordings |-> "none"]
    /\ scheduled = [r \in Recordings |-> 0]
    /\ hidden = FALSE /\ overtaken = {}

Goto(h, next) == pc' = [pc EXCEPT ![h] = next]
-----------------------------------------------------------------------------
(* upsert_recording: the row is read, then inserted or updated where it     *)
(* differs from what was read.  Inserting a row that appeared in between    *)
(* raises, and nobody on the way up to the handler's caller catches it.     *)

UpsertReads(h, r) ==
    /\ pc[h] = "get"
    /\ Goto(h, "put")
    /\ read' = [read EXCEPT ![h] = row[r]]
    /\ UNCHANGED <<dbVars, current, starts, provider, historyVars>>

\* Variant: a row that is there is left as it is
UpsertIgnores(h, r, new, paths, next) ==
    /\ pc[h] = "put"
    /\ Goto(h, next)
    /\ row' = IF row[r] # "none" THEN row ELSE [row EXCEPT ![r] = new]
    /\ local_path' = local_path \cup paths
    /\ read' = [read EXCEPT ![h] = "none"]
    /\ UNCHANGED <<keys, current, starts, provider, historyVars>>

UpsertWrites(h, r, new, paths, next) ==
    /\ pc[h] = "put"
    /\ IF read[h] = "none" /\ row[r] # "none"
         THEN Goto(h, "raised") /\ UNCHANGED <<row, local_path>>
         ELSE /\ Goto(h, next)
              /\ row' = IF read[h] = new THEN row ELSE [row EXCEPT ![r] = new]
              /\ local_path' = local_path \cup paths
    /\ read' = [read EXCEPT ![h] = "none"]
    /\ UNCHANGED <<keys, current, starts, provider, historyVars>>
-----------------------------------------------------------------------------
(* RecordingCoordinator.start *)

Known == \E r \in Recordings : row[r] # "none"

StartUnchanged == UNCHANGED <<dbVars, read, scheduled, overtaken>>

\* Variant: nobody looks for a recording that is there
StartUnchecked ==
    /\ pc[Starter] = "idle"
    /\ starts < MaxStarts
    /\ starts' = starts + 1
    /\ Goto(Starter, "request")
    /\ UNCHANGED <<current, provider, hidden>>
    /\ StartUnchanged

\* The bridge awaits one start() after the other; with a row it is answered
Start ==
    /\ pc[Starter] = "idle"
    /\ starts < MaxStarts
    /\ starts' = starts + 1
    /\ Goto(Starter, IF Known THEN "idle" ELSE "request")
    /\ UNCHANGED <<current, provider, hidden>>
    /\ StartUnchanged

\* Twilio begins a recording
Begins(r) ==
    /\ provider[r] = "none"
    /\ provider' = [provider EXCEPT ![r] = "in-progress"]

\* service.start in a thread, which a cancelled start() does not stop; a
\* timeout hides that the recording began
StartRequests ==
    /\ pc[Starter] = "request"
    /\ \/ /\ \E r \in Recordings : Begins(r) /\ current' = r
          /\ \/ Goto(Starter, "get") /\ UNCHANGED hidden
             \/ "unreachable" \in Options
                /\ Goto(Starter, "failed_event") /\ hidden' = TRUE
             \/ "cancelled" \in Options
                /\ Goto(Starter, "cancelled") /\ UNCHANGED hidden
       \/ /\ "refused" \in Options
          /\ Goto(Starter, "failed_event")
          /\ UNCHANGED <<provider, current, hidden>>
    /\ UNCHANGED starts
    /\ StartUnchanged

StartUpserts ==
    \/ current # 0 /\ UpsertReads(Starter, current)
    \/ current # 0
       /\ UpsertWrites(Starter, current, "in-progress", {}, "event")

\* RECORDING_STARTED or RECORDING_FAILED
StartRecords ==
    /\ pc[Starter] \in {"event", "failed_event"}
    /\ Goto(Starter, "idle")
    /\ UNCHANGED <<current, starts, provider, hidden>>
    /\ StartUnchanged

\* The bridge ends while its O task awaits start()
StartCancelled ==
    /\ "cancelled" \in Options
    /\ pc[Starter] \in {"request", "get", "put", "event", "failed_event"}
    /\ Goto(Starter, "cancelled")
    /\ UNCHANGED <<current, starts, provider, hidden>>
    /\ StartUnchanged
-----------------------------------------------------------------------------
(* recording_status and _download_recording *)

\* Twilio stops recording, at the end of the call
Ends(r) ==
    /\ provider[r] = "in-progress"
    /\ \E s \in Final : provider' = [provider EXCEPT ![r] = s]
    /\ UNCHANGED <<dbVars, pc, read, current, starts, historyVars>>

Quiet(h) == pc[h] \in {"idle", "handled", "raised", "cancelled"}

\* Everything that came before this callback of r was handled
InTurn(r, s) ==
    /\ ~(pc[Starter] \in {"get", "put"} /\ current = r)
    /\ \A h \in Callbacks : h[1] = r => Quiet(h)
    /\ IF s \in Final
         THEN pc[<<r, "in-progress", 1>>] = "handled"
         ELSE \A f \in Final : pc[<<r, f, 1>>] = "idle"

\* A callback arrives
Deliver(r, s, n) ==
    /\ pc[<<r, s, n>>] = "idle"
    /\ IF s \in Final THEN provider[r] = s ELSE provider[r] # "none"
    /\ n = 2 => s \in Duplicated /\ pc[<<r, s, 1>>] # "idle"
    /\ Cardinality({h \in Handlers : ~Quiet(h)}) < MaxInFlight
    /\ Goto(<<r, s, n>>, "get")
    /\ overtaken' = IF InTurn(r, s) THEN overtaken ELSE overtaken \cup {r}
    /\ UNCHANGED <<dbVars, read, current, starts, provider, scheduled, hidden>>

CallbackUpserts(r, s, n) ==
    \/ UpsertReads(<<r, s, n>>, r)
    \/ UpsertWrites(<<r, s, n>>, r, s, {}, "event")

\* Variant: every "completed" callback schedules a download
CallbackSchedulesAgain(r, s, n) ==
    /\ pc[<<r, s, n>>] = "event"
    /\ keys' = keys \cup {<<r, s>>}
    /\ IF s = "completed" /\ "download" \in Options
         THEN /\ scheduled' = [scheduled EXCEPT ![r] = @ + 1]
              /\ pc' = [pc EXCEPT ![<<r, s, n>>] = "handled",
                                  ![Download(r)] = "fetch"]
         ELSE Goto(<<r, s, n>>, "handled") /\ UNCHANGED scheduled
    /\ UNCHANGED <<row, local_path, read, current, starts, provider, hidden,
                   overtaken>>

\* record_event, and the download that the first "completed" schedules
CallbackRecords(r, s, n) ==
    /\ pc[<<r, s, n>>] = "event"
    /\ keys' = keys \cup {<<r, s>>}
    /\ IF <<r, s>> \notin keys /\ s = "completed" /\ "download" \in Options
         THEN /\ scheduled' = [scheduled EXCEPT ![r] = @ + 1]
              /\ pc' = [pc EXCEPT ![<<r, s, n>>] = "handled",
                                  ![Download(r)] = "fetch"]
         ELSE Goto(<<r, s, n>>, "handled") /\ UNCHANGED scheduled
    /\ UNCHANGED <<row, local_path, read, current, starts, provider, hidden,
                   overtaken>>

\* service.download in a thread; a failure is logged
Fetch(r) ==
    /\ pc[Download(r)] = "fetch"
    /\ \E next \in {"get", "handled"} : Goto(Download(r), next)
    /\ UNCHANGED <<dbVars, read, current, starts, provider, historyVars>>

DownloadUpserts(r) ==
    \/ UpsertReads(Download(r), r)
    \/ UpsertWrites(Download(r), r, "completed", {r}, "handled")

Next ==
    \/ Start \/ StartRequests \/ StartUpserts \/ StartRecords \/ StartCancelled
    \/ \E r \in Recordings : Ends(r) \/ Fetch(r) \/ DownloadUpserts(r)
    \/ \E r \in Recordings, s \in RecordingStatuses, n \in 1..2 :
          \/ Deliver(r, s, n) \/ CallbackUpserts(r, s, n)
          \/ CallbackRecords(r, s, n)

Spec == Init /\ [][Next]_vars
-----------------------------------------------------------------------------
(* Properties *)

\* However often and in whatever order Twilio delivers its callbacks, a
\* recording is downloaded once.
DownloadOnce == \A r \in Recordings : scheduled[r] <= 1

\* A bridge that asks again, after a refusal or while callbacks arrive, has
\* Twilio record the call once, unless a timeout hid the recording it made.
StartedOnce ==
    ~hidden =>
        \A r, s \in Recordings :
            provider[r] # "none" /\ provider[s] # "none" => r = s

ScheduledByEvent ==
    \A r \in Recordings :
        scheduled[r] = IF <<r, "completed">> \in keys /\ "download" \in Options
                         THEN 1 ELSE 0

\* A row, or a handler about to write one, belongs to a recording at Twilio
RowsBelong ==
    /\ \A r \in Recordings : row[r] # "none" => provider[r] # "none"
    /\ \A h \in Callbacks : pc[h] # "idle" => provider[h[1]] # "none"
    /\ \A r \in Recordings : pc[Download(r)] # "idle" => provider[r] # "none"
    /\ pc[Starter] \in {"get", "put"} => provider[current] # "none"
    /\ pc[Starter] = "put" /\ read[Starter] # "none" => row[current] # "none"

\* A recording at Twilio has its row, or start() is about to write it, or
\* start() is not called again
RowsFollow ==
  ~hidden =>
    /\ \A r \in Recordings : provider[r] # "none" =>
          \/ row[r] # "none"
          \/ pc[Starter] \in {"get", "put"} /\ current = r
          \/ pc[Starter] \in {"raised", "cancelled"}
    /\ pc[Starter] \in {"request", "failed_event"} =>
          \A r \in Recordings : provider[r] = "none"

RowsInv ==
    /\ TypeOK
    /\ ScheduledByEvent
    /\ RowsBelong
    /\ StartedOnce
    /\ RowsFollow

InStart(r) == pc[Starter] \in {"get", "put"} /\ current = r

\* What is true once a callback with the final status f has come in turn: the
\* first was handled before it, it saw every write there was, and its own
\* write stands
Concluded(r, f) ==
    /\ \A n \in 1..2 : pc[<<r, f, n>>] # "idle" =>
          /\ provider[r] = f
          /\ pc[<<r, f, 1>>] # "idle"
          /\ pc[<<r, "in-progress", 1>>] = "handled"
          /\ Quiet(<<r, "in-progress", 2>>)
    /\ pc[<<r, f, 1>>] \in {"idle", "get", "put", "event", "handled"}
    /\ pc[<<r, f, 1>>] = "put" => read[<<r, f, 1>>] = row[r]
    /\ pc[<<r, f, 1>>] \in {"event", "handled"} => row[r] = f

\* The callbacks of a recording that came in turn were handled one after the
\* other, none before start() was done with it, and no download before the
\* first "completed"
OneAfterTheOther(r) ==
    /\ InStart(r) => \A h \in Callbacks : h[1] = r => pc[h] = "idle"
    /\ \A g, h \in Callbacks :
          g[1] = r /\ h[1] = r /\ ~Quiet(g) /\ ~Quiet(h) => g = h
    /\ \A f \in Final : Concluded(r, f)
    /\ pc[Download(r)] # "idle" => pc[<<r, "completed", 1>>] = "handled"

\* The inductive invariant
RecordingInv ==
    /\ RowsInv
    /\ \A r \in Recordings \ overtaken : OneAfterTheOther(r)

\* Nothing is left to be handled of this recording
Handled(r) ==
    /\ provider[r] \in Final
    /\ \A s \in {"in-progress", provider[r]} : pc[<<r, s, 1>>] # "idle"
    /\ \A h \in Handlers : Quiet(h)

\* When all callbacks of a recording were handled, and in turn, its row says
\* how it ended, so that recording_media offers it exactly when Twilio has it.
EndsAsTwilioSays ==
    \A r \in Recordings \ overtaken : Handled(r) => row[r] = provider[r]
=============================================================================
