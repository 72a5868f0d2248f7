----------------------------- MODULE CallRecord -----------------------------
(***************************************************************************)
(* The record of one call while it is written and read: the media stream   *)
(* writes it (MediaStream), the end of the call marks its row, the report  *)
(* is generated from it (PostCallSummary), and the owner's page shows it.  *)
(* A report reads four tables and a page reads four, one await each, while *)
(* the conversation goes on writing.                                       *)
(***************************************************************************)
EXTENDS MediaStream, PostCallSummary, Sequences

CONSTANTS
    Callback,   \* the request of the "completed" callback
    Pages       \* the pages the owner has open

ASSUME RecordAssumption == Callback \in Requests /\ Pages \cap Requests = {}

VARIABLES
    owner,      \* end_call: the await it is suspended at, or the request's state
    delivered,  \* the "completed" callback has arrived
    crashed,    \* the process has died once
    at,         \* how many tables each reader has read
    seen,       \* what it has read of them
    material    \* what the report was generated from

recordVars == <<streamVars, summaryVars, owner, delivered, crashed, at, seen, material>>

Readers == Requests \cup Pages

\* get_call: the columns of the row that change
Row == [completed |-> db.completed, objective |-> db.objective,
        report |-> report, summary_status |-> summary_status]

Current == [call |-> Row, transcripts |-> db.transcripts,
            facts |-> db.facts, events |-> db.events]

Snapshots == [call : [completed : BOOLEAN, objective : 0..MaxTurns, report : Nat,
                      summary_status : SummaryStatuses],
              transcripts : SUBSET Turns, facts : SUBSET Turns,
              events : SUBSET (EventTypes \X Turns)]

Blank == [call |-> [completed |-> FALSE, objective |-> 0, report |-> 0,
                    summary_status |-> "pending"],
          transcripts |-> {}, facts |-> {}, events |-> {}]

\* The order of the awaits in _input and in _snapshot.  The last await of
\* _snapshot, of the recording's row, is left out with that table.
InputOrder == <<"call", "events", "transcripts", "facts">>
SnapshotOrder == <<"call", "transcripts", "facts", "events">>

RecordInit ==
    /\ StreamInit /\ SummaryInit
    /\ owner = "idle" /\ delivered = FALSE /\ crashed = FALSE
    /\ at = [x \in Readers |-> 0]
    /\ seen = [x \in Readers |-> Blank]
    /\ material = Blank

NotReading == UNCHANGED <<at, seen, material>>
-----------------------------------------------------------------------------
(* The end of the call *)

\* call_status with "completed", and the background task it schedules
CallCompleted ==
    /\ phone # "live"
    /\ ~delivered
    /\ delivered' = TRUE
    /\ db' = [db EXCEPT !.completed = TRUE]
    /\ IF task[Callback] = "idle" /\ attempts < MaxAttempts
         THEN Ask(Callback)
         ELSE UNCHANGED summaryVars
    /\ UNCHANGED <<phone, policy, started, handler, o, tool, turn, runtime, owner,
                   crashed>>
    /\ NotReading

\* end_call.  Until the stream starts the row may lack the SID: then Twilio is
\* not asked.
OwnerHangsUp ==
    /\ owner = "idle"
    /\ ~db.completed
    /\ owner' = "save"
    /\ \/ phone' = IF phone = "live" THEN "owner" ELSE phone
       \/ handler \in {"receive", "update"} /\ UNCHANGED phone
    /\ UNCHANGED <<policy, started, handler, o, tool, turn, runtime, db, delivered,
                   crashed, summaryVars>>
    /\ NotReading

OwnerSaves ==
    /\ owner = "save"
    /\ owner' = "done"
    /\ db' = [db EXCEPT !.completed = TRUE]
    /\ UNCHANGED <<phone, policy, started, handler, o, tool, turn, runtime,
                   delivered, crashed, summaryVars>>
    /\ NotReading
-----------------------------------------------------------------------------
(* The report *)

OthersUnchanged == UNCHANGED <<owner, delivered, crashed>>

\* Variant: a retry does not ask for a completed call
RetryAnyTime(r) ==
    /\ r # Callback
    /\ Ask(r)
    /\ OthersUnchanged /\ UNCHANGED streamVars /\ NotReading

Retry(r) ==
    /\ r # Callback
    /\ db.completed
    /\ Ask(r)
    /\ OthersUnchanged /\ UNCHANGED streamVars /\ NotReading

\* One await of a reader
Fetch(x, order) ==
    LET table == order[at[x] + 1]
    IN  /\ at[x] < Len(order)
        /\ at' = [at EXCEPT ![x] = @ + 1]
        /\ seen' = [seen EXCEPT ![x][table] = Current[table]]
        /\ UNCHANGED <<material, streamVars, summaryVars>>
        /\ OthersUnchanged

ReadInput(r) == task[r] = "request" /\ Fetch(r, InputOrder)

\* Variant: what was read for a report that failed serves the next attempt
ForgetNothing(r) == UNCHANGED <<at, seen>>

Forget(r) ==
    /\ at' = [at EXCEPT ![r] = 0]
    /\ seen' = [seen EXCEPT ![r] = Blank]

\* The provider is asked once all is read; before that only a read can fail
RequestReport(r) ==
    /\ Generate(r)
    /\ at[r] = Len(InputOrder) \/ ("db_failure" \in Faults /\ task'[r] = "fail")
    /\ UNCHANGED <<at, seen, material>>

Report(r) ==
    /\ \/ Claim(r) /\ NotReading
       \/ RequestReport(r)
       \/ SaveReport(r) /\ material' = seen[r] /\ Forget(r)
       \/ SaveFailure(r) /\ Forget(r) /\ UNCHANGED material
       \/ RecordGenerated(r) /\ NotReading
    /\ UNCHANGED streamVars
    /\ OthersUnchanged

ReportWriteFails(r) ==
    /\ task[r] \in {"claim", "save", "fail", "event"}
    /\ WriteFails(r)
    /\ Forget(r)
    /\ UNCHANGED <<material, streamVars>>
    /\ OthersUnchanged
-----------------------------------------------------------------------------
(* The page *)

ReadPage(p) == Fetch(p, SnapshotOrder)

\* Variant: the stream of snapshots ends with the call
LookUntilCompleted(p) ==
    /\ at[p] = Len(SnapshotOrder)
    /\ ~seen[p].call.completed
    /\ at' = [at EXCEPT ![p] = 0]
    /\ UNCHANGED <<seen, material, streamVars, summaryVars>> /\ OthersUnchanged

\* call_updates: the snapshot is shown, and a second later the next is taken
LookAgain(p) ==
    /\ at[p] = Len(SnapshotOrder)
    /\ at' = [at EXCEPT ![p] = 0]
    /\ UNCHANGED <<seen, material, streamVars, summaryVars>> /\ OthersUnchanged
-----------------------------------------------------------------------------
\* The process dies: Twilio loses the stream, the page connects again
Crash ==
    /\ "crash" \in Faults
    /\ ~crashed
    /\ crashed' = TRUE
    /\ Abandon
    /\ phone' = IF phone = "live" THEN "stream" ELSE phone
    /\ handler' = "closed"
    /\ o' = "off"
    /\ db' \in {db, Written}
    /\ owner' = IF owner = "save" THEN "done" ELSE owner
    /\ at' = [x \in Readers |-> 0]
    /\ seen' = [x \in Readers |-> Blank]
    /\ UNCHANGED <<policy, started, tool, turn, runtime, delivered, material>>

StreamAlone == UNCHANGED <<summaryVars, owner, delivered, crashed, at, seen, material>>

Stream == StreamNext /\ StreamAlone

RecordNext ==
    \/ Stream
    \/ CallCompleted \/ OwnerHangsUp \/ OwnerSaves
    \/ \E r \in Requests :
          Retry(r) \/ ReadInput(r) \/ Report(r) \/ ReportWriteFails(r)
    \/ \E p \in Pages : ReadPage(p) \/ LookAgain(p)
    \/ Crash

RecordSpec == RecordInit /\ [][RecordNext]_recordVars

\* Coroutines go on once their awaits are over: the requests for a report, and
\* with them the conversation and the pages.  Nobody is obliged to call, speak or
\* hang up, and Twilio is not obliged to deliver the callback.
ReportsFair == \A r \in Requests : WF_recordVars(ReadInput(r) \/ Report(r))

ReportsSpec == RecordSpec /\ ReportsFair

RecordFairSpec ==
    /\ RecordSpec
    /\ ReportsFair
    /\ WF_recordVars(Progress /\ StreamAlone)
    /\ \A p \in Pages : WF_recordVars(ReadPage(p) \/ LookAgain(p))
-----------------------------------------------------------------------------
(* Properties *)

RecordTypeOK ==
    /\ StreamTypeOK /\ SummaryTypeOK
    /\ owner \in {"idle", "save", "done"}
    /\ delivered \in BOOLEAN /\ crashed \in BOOLEAN
    /\ at \in [Readers -> 0..4]
    /\ seen \in [Readers -> Snapshots]
    /\ material \in Snapshots

\* However the reads of a reader fall between the writes of the conversation, an
\* objective status that a page shows or a report is generated from has its
\* outcome among the events that were read, and so has every fact a page shows.
\* A report reads the facts behind the events (_input): its facts have their
\* outcomes when the application ended the stream and the owner did not end the
\* call; when the conversation may still be running they need not.
CauseShown ==
    \A x \in Readers : at[x] = 4 =>
        /\ seen[x].call.objective # 0 =>
               <<"TOOL_COMPLETED", seen[x].call.objective>> \in seen[x].events
        /\ x \in Pages \/ (phone = "stream" /\ owner = "idle") =>
               \A n \in seen[x].facts : <<"TOOL_COMPLETED", n>> \in seen[x].events

\* When the application ended the stream and the owner did not end the call,
\* the report was generated from all the conversation left behind: the bridge
\* has made its last write before the call can be reported completed.
ReportComplete ==
    phone = "stream" /\ owner = "idle" /\ report # 0 =>
        /\ material.call.objective = db.objective
        /\ material.transcripts = db.transcripts
        /\ material.facts = db.facts
        /\ material.events = db.events

\* A reader has at most what is there, and an effect only if its cause is there
SeenInv(x) ==
    /\ seen[x].facts \subseteq db.facts
    /\ seen[x].events \subseteq db.events
    /\ seen[x].call.objective # 0 =>
          <<"TOOL_COMPLETED", seen[x].call.objective>> \in db.events

\* It has the cause too once it has read the events
StatusCaused(x) ==
    seen[x].call.objective # 0 =>
        <<"TOOL_COMPLETED", seen[x].call.objective>> \in seen[x].events

InputInv(r) ==
    /\ at[r] # 0 => Working(r)
    /\ at[r] > 1 => StatusCaused(r)

PageInv(p) ==
    at[p] = 4 =>
        /\ StatusCaused(p)
        /\ \A n \in seen[p].facts : <<"TOOL_COMPLETED", n>> \in seen[p].events

ReadersInv ==
    /\ \A x \in Readers : SeenInv(x)
    /\ \A r \in Requests : InputInv(r)
    /\ \A p \in Pages : PageInv(p)

\* What a snapshot has of the first n tables a report reads is what is there
UpToDate(snapshot, n) ==
    /\ n > 0 => snapshot.call.objective = db.objective
    /\ n > 1 => snapshot.events = db.events
    /\ n > 2 => snapshot.transcripts = db.transcripts
    /\ n > 3 => snapshot.facts = db.facts

\* A call that nobody ended has no report
NotEnded ==
    owner = "idle" /\ phone = "live" =>
        /\ ~db.completed
        /\ report = 0
        /\ \A r \in Requests : task[r] = "idle"

\* What the application ended is not written to any more
NothingMissed ==
    owner = "idle" /\ phone = "stream" =>
        /\ \A r \in Requests : UpToDate(seen[r], at[r])
        /\ \A r \in Requests : task[r] = "save" => at[r] = 4
        /\ report # 0 => UpToDate(material, 4)

EndInv ==
    /\ phone = "stream" => handler = "closed"
    /\ NotEnded
    /\ NothingMissed

\* The inductive invariant of the record
RecordInv ==
    /\ RecordTypeOK
    /\ StreamInv
    /\ SummaryInv
    /\ ReadersInv
    /\ EndInv

\* An open page comes to show the record as it is, over and over.
PageCatchesUp ==
    \A p \in Pages : []<>(at[p] = 4 /\ seen[p] = Current)
=============================================================================
