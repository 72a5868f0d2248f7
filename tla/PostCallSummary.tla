-------------------------- MODULE PostCallSummary --------------------------
(***************************************************************************)
(* PostCallSummaryService (app/services/post_call_summary.py) for one call *)
(* and the summary columns of its row.  Requests are the coroutines that   *)
(* may be inside generate() at a time: the background task a "completed"   *)
(* callback schedules, and the retries the owner asks for.  A request is   *)
(* one action from an await to the next.                                   *)
(***************************************************************************)
EXTENDS Naturals

CONSTANTS
    Requests,       \* coroutines that may run generate()
    NoRequest,
    MaxAttempts,    \* bound: claims after which nobody asks again
    Faults          \* the failures that occur: here "crash" and "db_failure"

ASSUME SummaryAssumption ==
    /\ NoRequest \notin Requests
    /\ MaxAttempts \in Nat

VARIABLES
    summary_status, \* column summary_status
    report,         \* the attempt summary_json is from, 0 if it is NULL
    attempts,       \* claims that succeeded so far
    task,           \* the await each request is suspended at
    attempt,        \* the attempt each request has claimed
    (* History, read by the properties only *)
    broken          \* a write has failed or the process has died

summaryVars == <<summary_status, report, attempts, task, attempt, broken>>

SummaryStatuses == {"pending", "generating", "completed", "failed"}

TaskPc == {"idle", "claim", "request", "save", "fail", "event"}

\* What the code does between a successful claim and the write that ends it
Working(r) == task[r] \in {"request", "save", "fail"}

SummaryTypeOK ==
    /\ summary_status \in SummaryStatuses
    /\ report \in Nat
    /\ attempts \in Nat
    /\ task \in [Requests -> TaskPc]
    /\ attempt \in [Requests -> Nat]
    /\ broken \in BOOLEAN

SummaryInit ==
    /\ summary_status = "pending"
    /\ report = 0
    /\ attempts = 0
    /\ task = [r \in Requests |-> "idle"]
    /\ attempt = [r \in Requests |-> 0]
    /\ broken = FALSE

Goto(r, pc) == task' = [task EXCEPT ![r] = pc]

\* A write to the database raises; generate() passes that on to its caller
WriteFails(r) ==
    /\ "db_failure" \in Faults
    /\ Goto(r, "idle")
    /\ broken' = TRUE
    /\ UNCHANGED <<summary_status, report, attempts, attempt>>

\* generate() is called
Ask(r) ==
    /\ task[r] = "idle"
    /\ attempts < MaxAttempts
    /\ Goto(r, "claim")
    /\ UNCHANGED <<summary_status, report, attempts, attempt, broken>>

\* Variant: the claim also takes over a report that is being generated
ClaimAny(r) ==
    /\ task[r] = "claim"
    /\ IF summary_status \in {"pending", "generating", "failed"}
         THEN /\ summary_status' = "generating"
              /\ attempts' = attempts + 1
              /\ attempt' = [attempt EXCEPT ![r] = attempts + 1]
              /\ Goto(r, "request")
         ELSE /\ Goto(r, "idle")
              /\ UNCHANGED <<summary_status, attempts, attempt>>
    /\ UNCHANGED <<report, broken>>

\* claim_summary: one conditional UPDATE
Claim(r) ==
    /\ task[r] = "claim"
    /\ IF summary_status \in {"pending", "failed"}
         THEN /\ summary_status' = "generating"
              /\ attempts' = attempts + 1
              /\ attempt' = [attempt EXCEPT ![r] = attempts + 1]
              /\ Goto(r, "request")
         ELSE /\ Goto(r, "idle")
              /\ UNCHANGED <<summary_status, attempts, attempt>>
    /\ UNCHANGED <<report, broken>>

\* _input and _request_report: a validated report, or any exception
Generate(r) ==
    /\ task[r] = "request"
    /\ \E outcome \in {"save", "fail"} : Goto(r, outcome)
    /\ UNCHANGED <<summary_status, report, attempts, attempt, broken>>

\* Nobody else changes the summary columns while the status is "generating",
\* so update_call's read and write are one step here
SaveReport(r) ==
    /\ task[r] = "save"
    /\ summary_status' = "completed"
    /\ report' = attempt[r]
    /\ Goto(r, "event")
    /\ UNCHANGED <<attempts, attempt, broken>>

\* Variant: the exception is logged, the status is left as it is
SaveNoFailure(r) ==
    /\ task[r] = "fail"
    /\ Goto(r, "idle")
    /\ UNCHANGED <<summary_status, report, attempts, attempt, broken>>

SaveFailure(r) ==
    /\ task[r] = "fail"
    /\ summary_status' = "failed"
    /\ Goto(r, "idle")
    /\ UNCHANGED <<report, attempts, attempt, broken>>

\* The SUMMARY_GENERATED event
RecordGenerated(r) ==
    /\ task[r] = "event"
    /\ Goto(r, "idle")
    /\ UNCHANGED <<summary_status, report, attempts, attempt, broken>>

Proceed(r) ==
    \/ Claim(r) \/ Generate(r) \/ SaveReport(r) \/ SaveFailure(r)
    \/ RecordGenerated(r)

\* The process dies; it starts again with the database as it was
Abandon ==
    /\ task' = [r \in Requests |-> "idle"]
    /\ broken' = TRUE
    /\ UNCHANGED <<summary_status, report, attempts, attempt>>

SummaryNext ==
    \/ \E r \in Requests :
          \/ Ask(r)
          \/ Proceed(r)
          \/ task[r] \in {"claim", "save", "fail", "event"} /\ WriteFails(r)
    \/ "crash" \in Faults /\ Abandon

SummarySpec == SummaryInit /\ [][SummaryNext]_summaryVars

\* A request goes on once its await is over; nobody is obliged to ask
SummaryFairSpec ==
    SummarySpec /\ \A r \in Requests : WF_summaryVars(Proceed(r))
-----------------------------------------------------------------------------
(* Properties *)

\* However many callbacks and retries call generate(), and wherever the
\* process dies, at most one of them is between its claim and its outcome:
\* one provider request at a time, and none once there is a report.
OneGeneration ==
    \A r \in Requests :
        Working(r) => /\ summary_status = "generating"
                      /\ report = 0
                      /\ \A s \in Requests : Working(s) => s = r

\* The inductive invariant: the types, OneGeneration, that the status column
\* tells whether there is a report, and that a claimed attempt has a number.
SummaryInv ==
    /\ SummaryTypeOK
    /\ OneGeneration
    /\ (summary_status = "completed") <=> (report # 0)
    /\ \A r \in Requests : Working(r) => attempt[r] # 0

\* Every generation claimed ends in a report or in a failure that may be
\* retried, as long as the process and the database do not fail.
GenerationSettles ==
    summary_status = "generating"
        ~> (summary_status \in {"completed", "failed"} \/ broken)

\* The service implements the abstract promise.
Writer ==
    IF \E r \in Requests : Working(r)
      THEN CHOOSE r \in Requests : Working(r)
      ELSE NoRequest

Promise == INSTANCE DurableReport
             WITH Writers <- Requests, Nobody <- NoRequest, writer <- Writer

ReportPromise == Promise!Spec

\* A report shown as being generated is being generated: a failure leaves it
\* retryable, never pending for ever.
FailuresRetryable ==
    summary_status = "generating" => \E r \in Requests : Working(r)
=============================================================================
