----------------------- MODULE PostCallSummaryProofs -----------------------
(***************************************************************************)
(* The safety properties of the post-call summary, for any number of       *)
(* requests, any bound on the attempts and any combination of failures,    *)
(* and that the service keeps the promise stated in DurableReport.         *)
(***************************************************************************)
EXTENDS PostCallSummary, TLAPS

LEMMA SummaryInitInv == SummaryInit => SummaryInv
<1> SUFFICES ASSUME SummaryInit PROVE SummaryInv
  OBVIOUS
<1>1. SummaryTypeOK
  BY DEF SummaryInit, SummaryTypeOK, SummaryStatuses, TaskPc
<1>2. \A r \in Requests : ~Working(r)
  BY DEF SummaryInit, Working
<1> QED BY <1>1, <1>2 DEF SummaryInit, SummaryInv, OneGeneration

\* One step of the service preserves the invariant.
LEMMA SummaryStepInv == SummaryInv /\ [SummaryNext]_summaryVars => SummaryInv'
<1> SUFFICES ASSUME SummaryInv, [SummaryNext]_summaryVars
             PROVE  SummaryInv'
  OBVIOUS
<1> USE SummaryAssumption
           DEF SummaryInv, SummaryTypeOK, SummaryStatuses, TaskPc,
               OneGeneration, Working
<1>1. ASSUME NEW r \in Requests, Ask(r) PROVE SummaryInv'
  BY <1>1 DEF Ask, Goto
<1>2. ASSUME NEW r \in Requests, Claim(r) PROVE SummaryInv'
  <2>1. CASE summary_status \in {"pending", "failed"}
    BY <1>2, <2>1 DEF Claim, Goto
  <2>2. CASE summary_status \notin {"pending", "failed"}
    BY <1>2, <2>2 DEF Claim, Goto
  <2> QED BY <2>1, <2>2
<1>3. ASSUME NEW r \in Requests, Generate(r) PROVE SummaryInv'
  BY <1>3 DEF Generate, Goto
<1>4. ASSUME NEW r \in Requests, SaveReport(r) PROVE SummaryInv'
  BY <1>4 DEF SaveReport, Goto
<1>5. ASSUME NEW r \in Requests, SaveFailure(r) PROVE SummaryInv'
  BY <1>5 DEF SaveFailure, Goto
<1>6. ASSUME NEW r \in Requests, RecordGenerated(r) PROVE SummaryInv'
  BY <1>6 DEF RecordGenerated, Goto
<1>7. ASSUME NEW r \in Requests, WriteFails(r) PROVE SummaryInv'
  BY <1>7 DEF WriteFails, Goto
<1>8. CASE Abandon
  BY <1>8 DEF Abandon
<1>9. CASE UNCHANGED summaryVars
  BY <1>9 DEF summaryVars
<1> QED BY <1>1, <1>2, <1>3, <1>4, <1>5, <1>6, <1>7, <1>8, <1>9
        DEF SummaryNext, Proceed

\* The summary columns and the requests keep their types, and the status
\* column tells whether there is a report (_generate).
THEOREM SummaryInvariant == SummarySpec => []SummaryInv
  BY SummaryInitInv, SummaryStepInv, PTL DEF SummarySpec

\* At most one request is generating the report, whoever asks and whenever
\* the process or the database fails (generate, claim_summary).
THEOREM OneGenerationAlways == SummarySpec => []OneGeneration
<1>1. SummaryInv => OneGeneration
  BY DEF SummaryInv
<1> QED BY <1>1, SummaryInvariant, PTL

-----------------------------------------------------------------------------
(* Refinement *)

\* There is at most one writer, and Writer is the one there is.
LEMMA WriterIs ==
  ASSUME SummaryInv, NEW r \in Requests, Working(r)
  PROVE  Writer = r
<1>1. \A s \in Requests : Working(s) => s = r
  BY DEF SummaryInv, OneGeneration
<1> QED BY <1>1 DEF Writer

LEMMA WriterIsNext ==
  ASSUME SummaryInv', NEW r \in Requests, Working(r)'
  PROVE  Writer' = r
<1>1. \A s \in Requests : Working(s)' => s = r
  BY DEF SummaryInv, OneGeneration
<1> QED BY <1>1 DEF Writer

\* A step that leaves everybody working or not leaves the writer.
LEMMA WriterSame ==
  ASSUME SummaryInv, SummaryInv',
         \A r \in Requests : Working(r)' <=> Working(r)
  PROVE  Writer' = Writer
<1>1. CASE \E r \in Requests : Working(r)
  <2> PICK r \in Requests : Working(r)
    BY <1>1
  <2> QED BY WriterIs, WriterIsNext
<1>2. CASE ~ \E r \in Requests : Working(r)
  BY <1>2 DEF Writer
<1> QED BY <1>1, <1>2

LEMMA InitPromise == SummaryInit => Promise!Init
  BY DEF SummaryInit, Promise!Init, Writer, Working

\* Every step of the service is one of the abstract promise, or changes
\* neither who writes the report nor the report.
LEMMA StepPromise ==
  ASSUME SummaryInv, SummaryInv', [SummaryNext]_summaryVars
  PROVE  [Promise!Next]_<<Writer, report>>
<1> USE SummaryAssumption DEF SummaryInv, SummaryTypeOK, Goto
<1> DEFINE Stutter == UNCHANGED <<Writer, report>>
<1>1. ASSUME NEW r \in Requests, Ask(r) PROVE Stutter
  BY <1>1, WriterSame DEF Ask, Working
<1>2. ASSUME NEW r \in Requests, Claim(r)
      PROVE  Stutter \/ Promise!Begin(r)
  <2>1. CASE summary_status \in {"pending", "failed"}
    <3>1. \A s \in Requests : ~Working(s)
      BY <2>1 DEF OneGeneration
    <3>2. Writer = NoRequest
      BY <3>1 DEF Writer
    <3>3. report = 0 /\ UNCHANGED report
      BY <1>2, <2>1 DEF Claim
    <3>4. Writer' = r
      BY <1>2, <2>1, WriterIsNext DEF Claim, Working
    <3> QED BY <3>2, <3>3, <3>4 DEF Promise!Begin
  <2>2. CASE summary_status \notin {"pending", "failed"}
    BY <1>2, <2>2, WriterSame DEF Claim, Working
  <2> QED BY <2>1, <2>2
<1>3. ASSUME NEW r \in Requests, Generate(r) PROVE Stutter
  BY <1>3, WriterSame DEF Generate, Working
<1>4. ASSUME NEW r \in Requests, SaveReport(r) PROVE Promise!Publish
  <2>1. Writer = r /\ Working(r)
    BY <1>4, WriterIs DEF SaveReport, Working
  <2>2. \A s \in Requests : ~Working(s)'
    BY <1>4, <2>1 DEF SaveReport, OneGeneration, Working
  <2>3. Writer' = NoRequest
    BY <2>2 DEF Writer
  <2>4. report = 0 /\ report' \in Nat \ {0}
    BY <1>4, <2>1 DEF SaveReport, OneGeneration
  <2> QED BY <2>1, <2>3, <2>4 DEF Promise!Publish
<1>5. ASSUME NEW r \in Requests, Working(r), ~Working(r)', UNCHANGED report,
             \A s \in Requests \ {r} : Working(s)' <=> Working(s)
      PROVE  Promise!GiveUp
  <2>1. Writer = r
    BY <1>5, WriterIs
  <2>2. \A s \in Requests : ~Working(s)'
    BY <1>5 DEF OneGeneration
  <2>3. Writer' = NoRequest
    BY <2>2 DEF Writer
  <2> QED BY <1>5, <2>1, <2>3 DEF Promise!GiveUp
<1>6. ASSUME NEW r \in Requests, SaveFailure(r) PROVE Promise!GiveUp
  BY <1>6, <1>5 DEF SaveFailure, Working
<1>7. ASSUME NEW r \in Requests, RecordGenerated(r) PROVE Stutter
  BY <1>7, WriterSame DEF RecordGenerated, Working
<1>8. ASSUME NEW r \in Requests,
             task[r] \in {"claim", "save", "fail", "event"}, WriteFails(r)
      PROVE  Stutter \/ Promise!GiveUp
  <2>1. CASE Working(r)
    BY <1>8, <2>1, <1>5 DEF WriteFails, Working
  <2>2. CASE ~Working(r)
    BY <1>8, <2>2, WriterSame DEF WriteFails, Working
  <2> QED BY <2>1, <2>2
<1>9. ASSUME Abandon PROVE Stutter \/ Promise!GiveUp
  <2>1. \A s \in Requests : ~Working(s)'
    BY <1>9 DEF Abandon, Working
  <2>2. Writer' = NoRequest /\ UNCHANGED report
    BY <1>9, <2>1 DEF Abandon, Writer
  <2> QED BY <2>2 DEF Promise!GiveUp
<1>10. ASSUME UNCHANGED summaryVars PROVE Stutter
  BY <1>10, WriterSame DEF summaryVars, Working
<1> QED
  BY <1>1, <1>2, <1>3, <1>4, <1>6, <1>7, <1>8, <1>9, <1>10
  DEF SummaryNext, Proceed, Promise!Next

\* The service implements DurableReport: one writer at a time, and a report
\* that is there is never written again (generate, claim_summary).
THEOREM PromiseKept == SummarySpec => ReportPromise
  BY InitPromise, SummaryInvariant, StepPromise, PTL
  DEF SummarySpec, ReportPromise, Promise!Spec
=============================================================================
