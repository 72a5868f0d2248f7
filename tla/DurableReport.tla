--------------------------- MODULE DurableReport ---------------------------
(***************************************************************************)
(* What PostCallSummaryService promises of one call ("Generate at most one *)
(* durable report, while permitting failed retries"): one request at a     *)
(* time writes the report, it may give up, and once there is a report      *)
(* nobody writes or replaces it.                                           *)
(***************************************************************************)
EXTENDS Naturals

CONSTANTS
    Writers,    \* the requests that may generate the report
    Nobody      \* no request, not one of the Writers

VARIABLES
    writer,     \* who is writing the report
    report      \* the report written, 0 as long as there is none

Init == writer = Nobody /\ report = 0

Begin(w) ==
    /\ writer = Nobody
    /\ report = 0
    /\ writer' = w
    /\ UNCHANGED report

GiveUp ==
    /\ writer # Nobody
    /\ writer' = Nobody
    /\ UNCHANGED report

Publish ==
    /\ writer # Nobody
    /\ report = 0
    /\ writer' = Nobody
    /\ report' \in Nat \ {0}

Next == (\E w \in Writers : Begin(w)) \/ GiveUp \/ Publish

Spec == Init /\ [][Next]_<<writer, report>>
=============================================================================
