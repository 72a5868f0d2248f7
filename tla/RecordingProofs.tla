-------------------------- MODULE RecordingProofs --------------------------
(***************************************************************************)
(* Proofs about Recording, for any number of recordings and calls of       *)
(* start(), any duplication of callbacks and any combination of failures.  *)
(***************************************************************************)
EXTENDS Recording, TLAPS

LEMMA HandlerNames ==
    /\ Starter \in Handlers
    /\ \A r \in Recordings : Download(r) \in Handlers /\ Download(r) # Starter
    /\ \A r \in Recordings, s \in RecordingStatuses, n \in 1..2 :
          /\ <<r, s, n>> \in Callbacks /\ <<r, s, n>> \in Handlers
          /\ <<r, s, n>> # Starter
          /\ \A q \in Recordings : <<r, s, n>> # Download(q)
    /\ \A q, r \in Recordings : Download(q) = Download(r) => q = r
    /\ Callbacks \subseteq Handlers
    /\ \A h \in Callbacks : /\ h[1] \in Recordings /\ h # Starter
                            /\ \A q \in Recordings : h # Download(q)
  BY RecordingAssumption
  DEF Starter, Handlers, Callbacks, Download, RecordingStatuses, Final

LEMMA CompletedNames ==
    \A r \in Recordings : <<r, "completed", 1>> \in Callbacks
<1>1. "completed" \in RecordingStatuses /\ 1 \in 1..2
  BY DEF RecordingStatuses, Final
<1> QED BY <1>1, HandlerNames, Zenon

LEMMA InitInv == Init => RowsInv
<1> SUFFICES ASSUME Init PROVE RowsInv
  OBVIOUS
<1>1. TypeOK
  <2>1. /\ row \in [Recordings -> MaybeStatus]
        /\ read \in [Handlers -> MaybeStatus]
        /\ provider \in [Recordings -> MaybeStatus]
    BY DEF Init, MaybeStatus
  <2>2. pc \in [Handlers -> Pc] /\ pc[Starter] = "idle"
    BY HandlerNames DEF Init, Pc
  <2>3. starts \in 0..MaxStarts
    BY RecordingAssumption DEF Init
  <2>4. scheduled \in [Recordings -> Nat]
    BY DEF Init
  <2>5. /\ current = 0 /\ hidden \in BOOLEAN
        /\ local_path = {} /\ keys = {} /\ overtaken = {}
    BY DEF Init
  <2> QED BY <2>1, <2>2, <2>3, <2>4, <2>5 DEF TypeOK
<1>2. ScheduledByEvent
  BY DEF Init, ScheduledByEvent
<1>3. RowsBelong
  BY HandlerNames DEF Init, RowsBelong
<1>4. StartedOnce /\ RowsFollow
  BY HandlerNames DEF Init, StartedOnce, RowsFollow
<1> QED BY <1>1, <1>2, <1>3, <1>4 DEF RowsInv
-----------------------------------------------------------------------------
(* Each step, one part of the invariant after the other *)

\* An upsert, whoever does it
LEMMA UpsertReadsInv ==
  ASSUME RowsInv, NEW r \in Recordings, NEW h \in Handlers,
         h = Starter => r = current, UpsertReads(h, r)
  PROVE  RowsInv'
<1>1. pc[h] = "get" /\ pc' = [pc EXCEPT ![h] = "put"]
  BY DEF UpsertReads, Goto
<1>2. TypeOK'
  BY <1>1, HandlerNames DEF UpsertReads, dbVars, historyVars, RowsInv, TypeOK, Pc
<1>3. ScheduledByEvent'
  BY DEF UpsertReads, dbVars, historyVars, RowsInv, ScheduledByEvent
<1>4. RowsBelong'
  BY <1>1, HandlerNames
  DEF UpsertReads, dbVars, historyVars, RowsInv, RowsBelong, TypeOK
<1>5. StartedOnce' /\ RowsFollow'
  BY <1>1, HandlerNames
  DEF UpsertReads, dbVars, historyVars, RowsInv, RowsFollow, StartedOnce, TypeOK
<1> QED BY <1>2, <1>3, <1>4, <1>5 DEF RowsInv

LEMMA UpsertWritesInv ==
  ASSUME RowsInv, NEW r \in Recordings, NEW h \in Handlers,
         NEW new \in RecordingStatuses, NEW paths \in SUBSET Recordings,
         NEW next \in {"event", "handled"},
         h = Starter => r = current, provider[r] # "none",
         UpsertWrites(h, r, new, paths, next)
  PROVE  RowsInv'
<1>1. PICK to \in {"raised", "event", "handled"} :
          pc[h] = "put" /\ pc' = [pc EXCEPT ![h] = to]
  BY DEF UpsertWrites, Goto
<1>2. /\ row' \in [Recordings -> MaybeStatus]
      /\ \A q \in Recordings : row[q] # "none" => row'[q] # "none"
      /\ \A q \in Recordings : row'[q] # "none" => q = r \/ row[q] # "none"
  BY DEF UpsertWrites, historyVars, RowsInv, TypeOK, MaybeStatus, RecordingStatuses, Final
<1>3. TypeOK'
  <2>1. /\ pc' \in [Handlers -> Pc]
        /\ read' \in [Handlers -> MaybeStatus]
        /\ local_path' \subseteq Recordings
    BY <1>1 DEF UpsertWrites, RowsInv, TypeOK, Pc, MaybeStatus
  <2>2. pc'[Starter] \in {"get", "put"} => current' \in Recordings
    BY <1>1, HandlerNames DEF UpsertWrites, RowsInv, TypeOK
  <2> QED BY <1>2, <2>1, <2>2
          DEF UpsertWrites, historyVars, RowsInv, TypeOK
<1>4. ScheduledByEvent'
  BY DEF UpsertWrites, historyVars, RowsInv, ScheduledByEvent
<1>5. RowsBelong'
  <2>1. /\ UNCHANGED <<current, provider>>
          /\ read' = [read EXCEPT ![h] = "none"]
    BY DEF UpsertWrites
  <2> QED BY <1>1, <1>2, <2>1, HandlerNames DEF RowsInv, RowsBelong, TypeOK
<1>6. h = Starter => row'[r] # "none" \/ pc'[Starter] = "raised"
  <2> SUFFICES ASSUME h = Starter
               PROVE  row'[r] # "none" \/ pc'[Starter] = "raised"
    OBVIOUS
  <2>1. CASE read[h] = "none" /\ row[r] # "none"
    BY <2>1, <1>1, HandlerNames DEF UpsertWrites, Goto, RowsInv, TypeOK
  <2>2. CASE read[h] # "none"
    BY <1>1, <1>2, <2>2 DEF RowsInv, RowsBelong
  <2>3. CASE read[h] = "none" /\ row[r] = "none"
    <3>1. row' = [row EXCEPT ![r] = new] /\ new # "none"
      BY <2>3 DEF UpsertWrites, historyVars, RecordingStatuses, Final
    <3> QED BY <3>1 DEF RowsInv, TypeOK
  <2> QED BY <2>1, <2>2, <2>3
<1>7. StartedOnce' /\ RowsFollow'
  BY <1>1, <1>2, <1>6, HandlerNames
  DEF UpsertWrites, historyVars, RowsInv, RowsFollow, StartedOnce, TypeOK
<1> QED BY <1>3, <1>4, <1>5, <1>7 DEF RowsInv

LEMMA StartInv ==
  ASSUME RowsInv,
         Start \/ StartRequests \/ StartUpserts \/ StartRecords \/ StartCancelled
  PROVE  RowsInv'
<1> USE HandlerNames
<1>1. CASE Start
  <2>1. PICK to \in {"idle", "request"} :
            /\ pc[Starter] = "idle" /\ pc' = [pc EXCEPT ![Starter] = to]
            /\ to = "request" => ~Known
    BY <1>1 DEF Start, Goto
  <2>2. TypeOK'
    BY <1>1, <2>1, RecordingAssumption
    DEF Start, StartUnchanged, dbVars, RowsInv, TypeOK, Pc
  <2>3. ScheduledByEvent' /\ RowsBelong'
    BY <1>1, <2>1
    DEF Start, StartUnchanged, dbVars, RowsInv, ScheduledByEvent,
        RowsBelong, TypeOK
  <2>4. StartedOnce' /\ RowsFollow'
    BY <1>1, <2>1
    DEF Start, StartUnchanged, dbVars, RowsInv, RowsFollow, StartedOnce,
        TypeOK, Known
  <2> QED BY <2>2, <2>3, <2>4 DEF RowsInv
<1>2. CASE StartRequests
  <2>1. PICK to \in {"get", "failed_event", "cancelled"} :
            pc[Starter] = "request" /\ pc' = [pc EXCEPT ![Starter] = to]
    BY <1>2 DEF StartRequests, Goto
  <2>2. \/ UNCHANGED <<provider, current>> /\ pc'[Starter] = "failed_event"
        \/ \E r \in Recordings :
              /\ provider[r] = "none"
              /\ provider' = [provider EXCEPT ![r] = "in-progress"]
              /\ current' = r
              /\ pc'[Starter] = "failed_event" => hidden'
    BY <1>2, <2>1 DEF StartRequests, Begins, Goto, RowsInv, TypeOK
  <2>3. TypeOK'
    BY <1>2, <2>1, <2>2
    DEF StartRequests, StartUnchanged, dbVars, RowsInv, TypeOK, Pc,
        MaybeStatus, RecordingStatuses
  <2>4. ScheduledByEvent'
    BY <1>2 DEF StartRequests, StartUnchanged, dbVars, RowsInv,
                ScheduledByEvent
  <2>5. RowsBelong'
    BY <1>2, <2>1, <2>2
    DEF StartRequests, StartUnchanged, dbVars, RowsInv, RowsBelong, TypeOK
  <2>6. StartedOnce' /\ RowsFollow'
    BY <1>2, <2>1, <2>2
    DEF StartRequests, StartUnchanged, dbVars, RowsInv, RowsFollow,
        StartedOnce, TypeOK
  <2> QED BY <2>3, <2>4, <2>5, <2>6 DEF RowsInv
<1>3. CASE StartUpserts
  <2>1. pc[Starter] \in {"get", "put"}
    BY <1>3 DEF StartUpserts, UpsertReads, UpsertWrites
  <2>2. current \in Recordings /\ provider[current] # "none"
    BY <2>1 DEF RowsInv, RowsBelong, TypeOK
  <2> QED BY <1>3, <2>2, UpsertReadsInv, UpsertWritesInv
          DEF StartUpserts, RecordingStatuses
<1>4. CASE StartRecords \/ StartCancelled
  <2>1. PICK to \in {"idle", "cancelled"} :
            /\ pc' = [pc EXCEPT ![Starter] = to]
            /\ pc[Starter] \notin {"event", "failed_event"} => to = "cancelled"
    BY <1>4 DEF StartRecords, StartCancelled, Goto
  <2>2. TypeOK'
    BY <1>4, <2>1
    DEF StartRecords, StartCancelled, StartUnchanged, dbVars, RowsInv,
        TypeOK, Pc
  <2>3. ScheduledByEvent' /\ RowsBelong'
    BY <1>4, <2>1
    DEF StartRecords, StartCancelled, StartUnchanged, dbVars, RowsInv,
        ScheduledByEvent, RowsBelong, TypeOK
  <2>4. StartedOnce' /\ RowsFollow'
    BY <1>4, <2>1
    DEF StartRecords, StartCancelled, StartUnchanged, dbVars, RowsInv,
        RowsFollow, StartedOnce, TypeOK
  <2> QED BY <2>2, <2>3, <2>4 DEF RowsInv
<1> QED BY <1>1, <1>2, <1>3, <1>4

LEMMA CallbackInv ==
  ASSUME RowsInv,
         NEW r \in Recordings, NEW s \in RecordingStatuses, NEW n \in 1..2,
         Deliver(r, s, n) \/ CallbackUpserts(r, s, n) \/ CallbackRecords(r, s, n)
  PROVE  RowsInv'
<1> USE HandlerNames
<1> DEFINE h == <<r, s, n>>
<1>0. h \in Callbacks /\ h[1] = r
  OBVIOUS
<1>1. CASE Deliver(r, s, n)
  <2>1. pc' = [pc EXCEPT ![h] = "get"] /\ provider[r] # "none"
    BY <1>1 DEF Deliver, Goto, Final
  <2>2. TypeOK'
    BY <1>1, <2>1 DEF Deliver, dbVars, historyVars, RowsInv, TypeOK, Pc
  <2>3. ScheduledByEvent'
    BY <1>1 DEF Deliver, dbVars, historyVars, RowsInv, ScheduledByEvent
  <2>4. RowsBelong'
    BY <1>0, <1>1, <2>1 DEF Deliver, dbVars, historyVars, RowsInv, RowsBelong, TypeOK
  <2>5. StartedOnce' /\ RowsFollow'
    BY <1>1, <2>1
    DEF Deliver, dbVars, historyVars, RowsInv, RowsFollow, StartedOnce, TypeOK
  <2> QED BY <2>2, <2>3, <2>4, <2>5 DEF RowsInv
<1>2. CASE CallbackUpserts(r, s, n)
  <2>1. pc[h] # "idle"
    BY <1>2 DEF CallbackUpserts, UpsertReads, UpsertWrites
  <2>2. provider[r] # "none"
    BY <1>0, <2>1 DEF RowsInv, RowsBelong
  <2> QED BY <1>2, <2>2, UpsertReadsInv, UpsertWritesInv DEF CallbackUpserts
<1>3. CASE CallbackRecords(r, s, n)
  <2> DEFINE schedules == /\ <<r, s>> \notin keys /\ s = "completed"
                          /\ "download" \in Options
  <2>1. pc[h] = "event" /\ provider[r] # "none"
    BY <1>0, <1>3 DEF CallbackRecords, RowsInv, RowsBelong
  <2>2. /\ pc' \in [Handlers -> Pc]
        /\ pc'[Starter] = pc[Starter]
        /\ \A g \in Callbacks : pc'[g] # "idle" => g = h \/ pc[g] # "idle"
        /\ \A q \in Recordings :
              pc'[Download(q)] # "idle" => q = r \/ pc[Download(q)] # "idle"
    <3>1. CASE schedules
      <4>1. pc' = [pc EXCEPT ![h] = "handled", ![Download(r)] = "fetch"]
        BY <1>3, <3>1 DEF CallbackRecords
      <4> QED BY <2>1, <4>1 DEF RowsInv, TypeOK, Pc
    <3>2. CASE ~schedules
      <4>1. pc' = [pc EXCEPT ![h] = "handled"]
        BY <1>3, <3>2 DEF CallbackRecords, Goto
      <4> QED BY <2>1, <4>1 DEF RowsInv, TypeOK, Pc
    <3> QED BY <3>1, <3>2
  <2>3. TypeOK'
    <3>1. scheduled' \in [Recordings -> Nat]
      BY <1>3 DEF CallbackRecords, RowsInv, TypeOK
    <3> QED BY <1>3, <2>2, <3>1 DEF CallbackRecords, RowsInv, TypeOK
  <2>4. ScheduledByEvent'
    <3>1. \A q \in Recordings : <<q, "completed">> \in keys' <=>
              <<q, "completed">> \in keys \/ (q = r /\ s = "completed")
      BY <1>3 DEF CallbackRecords
    <3>2. \A q \in Recordings : scheduled'[q] =
              IF schedules /\ q = r THEN scheduled[q] + 1 ELSE scheduled[q]
      BY <1>3 DEF CallbackRecords, RowsInv, TypeOK
    <3> SUFFICES ASSUME NEW q \in Recordings
                 PROVE  scheduled'[q] = IF <<q, "completed">> \in keys'
                                          /\ "download" \in Options
                                          THEN 1 ELSE 0
      BY DEF ScheduledByEvent
    <3>3. scheduled[q] = IF <<q, "completed">> \in keys /\ "download" \in Options
                           THEN 1 ELSE 0
      BY DEF RowsInv, ScheduledByEvent
    <3>4. CASE schedules /\ q = r
      BY <3>1, <3>2, <3>3, <3>4
    <3>5. CASE ~(schedules /\ q = r)
      BY <3>1, <3>2, <3>3, <3>5
    <3> QED BY <3>4, <3>5
  <2>5. RowsBelong'
    BY <1>0, <1>3, <2>1, <2>2 DEF CallbackRecords, RowsInv, RowsBelong
  <2>6. StartedOnce' /\ RowsFollow'
    BY <1>3, <2>2 DEF CallbackRecords, RowsInv, RowsFollow, StartedOnce
  <2> QED BY <2>3, <2>4, <2>5, <2>6 DEF RowsInv
<1> QED BY <1>1, <1>2, <1>3

LEMMA RecordingStepInv ==
  ASSUME RowsInv, NEW r \in Recordings,
         Ends(r) \/ Fetch(r) \/ DownloadUpserts(r)
  PROVE  RowsInv'
<1> USE HandlerNames
<1>1. CASE Ends(r)
  <2>1. PICK s \in Final : provider' = [provider EXCEPT ![r] = s]
    BY <1>1 DEF Ends
  <2>2. /\ provider' \in [Recordings -> MaybeStatus]
        /\ \A q \in Recordings : provider'[q] # "none" <=> provider[q] # "none"
    BY <1>1, <2>1
    DEF Ends, RowsInv, TypeOK, MaybeStatus, RecordingStatuses, Final
  <2>3. TypeOK' /\ ScheduledByEvent'
    BY <1>1, <2>2 DEF Ends, dbVars, historyVars, RowsInv, TypeOK, ScheduledByEvent
  <2>4. RowsBelong'
    BY <1>1, <2>2 DEF Ends, dbVars, historyVars, RowsInv, RowsBelong, TypeOK
  <2>5. StartedOnce' /\ RowsFollow'
    BY <1>1, <2>2 DEF Ends, dbVars, historyVars, RowsInv, RowsFollow, StartedOnce, TypeOK
  <2> QED BY <2>3, <2>4, <2>5 DEF RowsInv
<1>2. CASE Fetch(r)
  <2>1. PICK to \in {"get", "handled"} :
            pc[Download(r)] = "fetch" /\ pc' = [pc EXCEPT ![Download(r)] = to]
    BY <1>2 DEF Fetch, Goto
  <2>2. TypeOK'
    BY <1>2, <2>1 DEF Fetch, dbVars, historyVars, RowsInv, TypeOK, Pc
  <2>3. ScheduledByEvent' /\ RowsBelong'
    BY <1>2, <2>1
    DEF Fetch, dbVars, historyVars, RowsInv, ScheduledByEvent, RowsBelong, TypeOK
  <2>4. StartedOnce' /\ RowsFollow'
    BY <1>2, <2>1 DEF Fetch, dbVars, historyVars, RowsInv, RowsFollow, StartedOnce, TypeOK
  <2> QED BY <2>2, <2>3, <2>4 DEF RowsInv
<1>3. CASE DownloadUpserts(r)
  <2>1. provider[r] # "none"
    BY <1>3 DEF DownloadUpserts, UpsertReads, UpsertWrites, RowsInv, RowsBelong
  <2> QED BY <1>3, <2>1, UpsertReadsInv, UpsertWritesInv
          DEF DownloadUpserts, RecordingStatuses, Final
<1> QED BY <1>1, <1>2, <1>3

LEMMA StutterInv == RowsInv /\ UNCHANGED vars => RowsInv'
  BY DEF vars, dbVars, historyVars, RowsInv, TypeOK, ScheduledByEvent, RowsBelong,
         RowsFollow, StartedOnce
-----------------------------------------------------------------------------
(* The callbacks that come in turn *)

\* A step that is not about recording r leaves its turns as they are
LEMMA OthersKeepTurns ==
  ASSUME RowsInv, NEW r \in Recordings, OneAfterTheOther(r),
         \A h \in Callbacks : h[1] = r => pc'[h] = pc[h] /\ read'[h] = read[h],
         pc'[Download(r)] # "idle" => pc[Download(r)] # "idle",
         row'[r] = row[r],
         provider'[r] = provider[r] \/ provider[r] \notin Final,
         InStart(r)' => InStart(r) \/ provider[r] = "none"
  PROVE  OneAfterTheOther(r)'
<1> USE HandlerNames
<1>1. \A s \in RecordingStatuses, n \in 1..2 :
          /\ pc'[<<r, s, n>>] = pc[<<r, s, n>>]
          /\ read'[<<r, s, n>>] = read[<<r, s, n>>]
  OBVIOUS
<1>2. InStart(r)' => \A h \in Callbacks : h[1] = r => pc'[h] = "idle"
  BY DEF InStart, OneAfterTheOther, RowsInv, RowsBelong
<1>3. \A g, h \in Callbacks :
          g[1] = r /\ h[1] = r /\ ~Quiet(g)' /\ ~Quiet(h)' => g = h
  BY DEF Quiet, OneAfterTheOther
<1>4. ASSUME NEW f \in Final PROVE Concluded(r, f)'
  <2>1. Concluded(r, f)
    BY DEF OneAfterTheOther
  <2>2. \A n \in 1..2 : pc[<<r, f, n>>] # "idle" => provider'[r] = provider[r]
    BY <2>1 DEF Concluded
  <2>3. f \in RecordingStatuses /\ "in-progress" \in RecordingStatuses
    BY DEF RecordingStatuses
  <2> QED BY <1>1, <2>1, <2>2, <2>3 DEF Concluded, Quiet
<1>5. (pc[Download(r)] # "idle" => pc[<<r, "completed", 1>>] = "handled")'
  <2>1. "completed" \in RecordingStatuses /\ 1 \in 1..2
    BY DEF RecordingStatuses, Final
  <2>2. pc'[<<r, "completed", 1>>] = pc[<<r, "completed", 1>>]
    BY <1>1, <2>1, Zenon
  <2> QED BY <2>2 DEF OneAfterTheOther
<1> QED BY <1>2, <1>3, <1>4, <1>5 DEF OneAfterTheOther

\* start() itself: nothing of its recording came before it is done
LEMMA StartKeepsTurns ==
  ASSUME RowsInv, NEW r \in Recordings, OneAfterTheOther(r),
         Start \/ StartRequests \/ StartUpserts \/ StartRecords \/ StartCancelled
  PROVE  OneAfterTheOther(r)'
<1> USE HandlerNames
<1>1. CASE Start \/ StartRequests \/ StartRecords \/ StartCancelled
  <2>1. PICK to \in {"idle", "request", "get", "failed_event", "cancelled"} :
            pc' = [pc EXCEPT ![Starter] = to]
    BY <1>1 DEF Start, StartRequests, StartRecords, StartCancelled, Goto
  <2>2. UNCHANGED <<row, read>>
    BY <1>1 DEF Start, StartRequests, StartRecords, StartCancelled, StartUnchanged, dbVars
  <2>3. /\ provider'[r] = provider[r] \/ provider[r] \notin Final
        /\ InStart(r)' => InStart(r) \/ provider[r] = "none"
    <3>1. CASE StartRequests
      <4>1. \/ UNCHANGED provider /\ pc'[Starter] = "failed_event"
            \/ \E q \in Recordings :
                  /\ provider[q] = "none"
                  /\ provider' = [provider EXCEPT ![q] = "in-progress"]
                  /\ current' = q
        BY <3>1, <2>1 DEF StartRequests, Begins, Goto, RowsInv, TypeOK
      <4> QED BY <4>1 DEF InStart, Final, RowsInv, TypeOK
    <3>2. CASE Start \/ StartRecords \/ StartCancelled
      <4>1. UNCHANGED <<provider, current>> /\ pc'[Starter] \notin {"get", "put"}
        BY <3>2 DEF Start, StartRecords, StartCancelled, Goto, RowsInv, TypeOK
      <4> QED BY <4>1 DEF InStart
    <3> QED BY <1>1, <3>1, <3>2
  <2>4. \A h \in Callbacks : pc'[h] = pc[h]
    BY <2>1 DEF RowsInv, TypeOK
  <2>5. pc'[Download(r)] = pc[Download(r)]
    BY <2>1 DEF RowsInv, TypeOK
  <2> QED BY <2>2, <2>3, <2>4, <2>5, OthersKeepTurns
<1>2. CASE StartUpserts
  <2>1. PICK to \in Pc : /\ pc[Starter] \in {"get", "put"}
                         /\ pc' = [pc EXCEPT ![Starter] = to]
    BY <1>2 DEF StartUpserts, UpsertReads, UpsertWrites, Goto, Pc
  <2>2. UNCHANGED <<current, provider>>
    BY <1>2 DEF StartUpserts, UpsertReads, UpsertWrites
  <2>3. /\ \A h \in Callbacks : pc'[h] = pc[h] /\ read'[h] = read[h]
        /\ pc'[Download(r)] = pc[Download(r)]
    <3>1. \E v : read' = [read EXCEPT ![Starter] = v]
      BY <1>2 DEF StartUpserts, UpsertReads, UpsertWrites
    <3> QED BY <2>1, <3>1 DEF RowsInv, TypeOK
  <2>4. CASE current = r
    <3>1. InStart(r)
      BY <2>1, <2>4 DEF InStart
    <3>2. \A h \in Callbacks : h[1] = r => pc[h] = "idle" /\ pc'[h] = "idle"
      BY <2>3, <3>1 DEF OneAfterTheOther
    <3>3. \A s \in RecordingStatuses, n \in 1..2 :
              pc'[<<r, s, n>>] = "idle" /\ pc[<<r, s, n>>] = "idle"
      BY <3>2
    <3>4. ASSUME NEW f \in Final PROVE Concluded(r, f)'
      <4>1. \A n \in 1..2 : pc'[<<r, f, n>>] = "idle"
        BY <3>3 DEF RecordingStatuses
      <4> QED BY <4>1 DEF Concluded
    <3>5. pc'[Download(r)] = "idle"
      <4>1. "completed" \in RecordingStatuses /\ 1 \in 1..2
        BY DEF RecordingStatuses, Final
      <4>2. pc[<<r, "completed", 1>>] = "idle"
        BY <3>3, <4>1, Zenon
      <4> QED BY <2>3, <4>2 DEF OneAfterTheOther
    <3> QED BY <3>2, <3>4, <3>5 DEF OneAfterTheOther, Quiet
  <2>5. CASE current # r
    <3>1. row'[r] = row[r] /\ ~InStart(r)'
      BY <1>2, <2>2, <2>5
      DEF StartUpserts, UpsertReads, UpsertWrites, dbVars, InStart, RowsInv, TypeOK
    <3> QED BY <2>2, <2>3, <3>1, OthersKeepTurns
  <2> QED BY <2>4, <2>5
<1> QED BY <1>1, <1>2

\* A callback of another recording
LEMMA OtherCallbacksKeepTurns ==
  ASSUME RowsInv, NEW r \in Recordings, OneAfterTheOther(r),
         NEW q \in Recordings, q # r,
         NEW s \in RecordingStatuses, NEW n \in 1..2,
         Deliver(q, s, n) \/ CallbackUpserts(q, s, n) \/ CallbackRecords(q, s, n)
  PROVE  OneAfterTheOther(r)'
<1> USE HandlerNames
<1> DEFINE h == <<q, s, n>>
<1>1. h \in Handlers /\ h # Starter /\ h # Download(r) /\ Download(q) # Download(r)
  OBVIOUS
<1>2. UNCHANGED <<current, provider>>
  BY DEF Deliver, CallbackUpserts, CallbackRecords, UpsertReads, UpsertWrites
<1>3. row'[r] = row[r]
  BY DEF Deliver, CallbackUpserts, CallbackRecords, UpsertReads, UpsertWrites,
         dbVars, RowsInv, TypeOK
<1>4. \A g \in Handlers : g # h => read'[g] = read[g]
  BY DEF Deliver, CallbackUpserts, CallbackRecords, UpsertReads, UpsertWrites,
         RowsInv, TypeOK
<1>5. \A g \in Handlers : g # h /\ g # Download(q) => pc'[g] = pc[g]
  BY DEF Deliver, CallbackUpserts, CallbackRecords, UpsertReads, UpsertWrites,
         Goto, RowsInv, TypeOK
<1>6. \A g \in Callbacks : g[1] = r => g # h
  OBVIOUS
<1>7. InStart(r)' => InStart(r)
  BY <1>1, <1>2, <1>5 DEF InStart
<1> QED BY <1>1, <1>2, <1>3, <1>4, <1>5, <1>6, <1>7, OthersKeepTurns

\* While a callback that came in turn is at work, start() is not, no callback
\* with another final status has come, and it repeats only what was handled
LEMMA AtWork ==
  ASSUME NEW r \in Recordings, OneAfterTheOther(r),
         NEW s \in RecordingStatuses, NEW n \in 1..2, ~Quiet(<<r, s, n>>)
  PROVE  /\ ~InStart(r)
         /\ \A f \in Final \ {s}, m \in 1..2 : pc[<<r, f, m>>] = "idle"
         /\ s \in Final /\ n = 2 => pc[<<r, s, 1>>] = "handled"
<1> USE HandlerNames
<1>1. ~InStart(r)
  BY DEF OneAfterTheOther, Quiet
<1>2. ASSUME NEW f \in Final \ {s}, NEW m \in 1..2
      PROVE  pc[<<r, f, m>>] = "idle"
  <2>1. Concluded(r, f)
    BY DEF OneAfterTheOther
  <2>2. CASE s \in Final
    <3>1. Concluded(r, s)
      BY <2>2 DEF OneAfterTheOther
    <3> QED BY <2>1, <3>1 DEF Concluded, Quiet
  <2>3. CASE s = "in-progress"
    BY <2>1, <2>3 DEF Concluded, Quiet
  <2> QED BY <2>2, <2>3 DEF RecordingStatuses
<1>3. ASSUME s \in Final, n = 2 PROVE pc[<<r, s, 1>>] = "handled"
  <2>1. Concluded(r, s)
    BY <1>3 DEF OneAfterTheOther
  <2>2. /\ pc[<<r, s, 1>>] \in {"get", "put", "event", "handled"}
        /\ ~Quiet(<<r, s, 2>>)
    BY <1>3, <2>1 DEF Concluded, Quiet
  <2>3. Quiet(<<r, s, 1>>)
    BY <2>2 DEF OneAfterTheOther
  <2> QED BY <2>2, <2>3 DEF Quiet
<1> QED BY <1>1, <1>2, <1>3

\* A callback arrives, after all that came before it
LEMMA DeliverKeepsTurns ==
  ASSUME RowsInv, NEW r \in Recordings, OneAfterTheOther(r),
         NEW s \in RecordingStatuses, NEW n \in 1..2,
         Deliver(r, s, n), r \notin overtaken'
  PROVE  OneAfterTheOther(r)'
<1> USE HandlerNames
<1> DEFINE h == <<r, s, n>>
<1>1. /\ InTurn(r, s) /\ pc[h] = "idle"
      /\ pc' = [pc EXCEPT ![h] = "get"]
      /\ UNCHANGED <<row, read, current, provider>>
      /\ n = 2 => pc[<<r, s, 1>>] # "idle"
      /\ s \in Final => provider[r] = s
  BY DEF Deliver, dbVars, Goto
<1>2. \A g \in Handlers : pc'[g] = IF g = h THEN "get" ELSE pc[g]
  BY <1>1 DEF RowsInv, TypeOK
<1>3. ~InStart(r)'
  BY <1>1, <1>2 DEF InStart, InTurn
<1>4. \A g \in Callbacks : g[1] = r /\ ~Quiet(g)' => g = h
  BY <1>1, <1>2 DEF InTurn, Quiet
<1>5. ASSUME NEW f \in Final PROVE Concluded(r, f)'
  <2>1. Concluded(r, f)
    BY DEF OneAfterTheOther
  <2>2. f \in RecordingStatuses /\ "in-progress" \in RecordingStatuses
    BY DEF RecordingStatuses
  <2>3. CASE f = s
    <3>1. pc[<<r, "in-progress", 1>>] = "handled" /\ Quiet(<<r, "in-progress", 2>>)
      BY <1>1, <2>2, <2>3 DEF InTurn
    <3>2. \A m \in 1..2 : <<r, "in-progress", m>> # h
      BY <2>3 DEF Final
    <3>3. \A m \in 1..2 : pc'[<<r, "in-progress", m>>] = pc[<<r, "in-progress", m>>]
      BY <1>2, <2>2, <3>2
    <3>4. pc'[<<r, f, 1>>] \in {"get", pc[<<r, f, 1>>]} /\ pc'[<<r, f, 1>>] # "idle"
      <4>1. CASE n = 1
        BY <1>2, <2>3, <4>1
      <4>2. CASE n = 2
        <5>1. <<r, f, 1>> \in Handlers /\ <<r, f, 1>> # h
          <6>1. 1 \in 1..2 /\ n # 1
            BY <4>2
          <6>2. <<r, f, 1>> # h
            BY <6>1
          <6> QED BY <2>2, <6>1, <6>2, HandlerNames, Zenon
        <5> QED BY <1>1, <1>2, <2>3, <4>2, <5>1
      <4> QED BY <4>1, <4>2
    <3> QED BY <1>1, <2>1, <2>3, <3>1, <3>3, <3>4 DEF Concluded, Quiet
  <2>4. CASE f # s
    <3>1. \A m \in 1..2 : pc'[<<r, f, m>>] = pc[<<r, f, m>>]
      BY <1>2, <2>2, <2>4
    <3>2. CASE s \in Final
      <4>1. \A m \in 1..2 :
                pc'[<<r, "in-progress", m>>] = pc[<<r, "in-progress", m>>]
        BY <1>2, <2>2, <3>2 DEF Final
      <4> QED BY <1>1, <2>1, <3>1, <4>1 DEF Concluded, Quiet
    <3>3. CASE s \notin Final
      <4>1. \A m \in 1..2 : pc[<<r, f, m>>] = "idle"
        BY <1>1, <2>1, <3>3 DEF InTurn, Concluded
      <4> QED BY <3>1, <4>1 DEF Concluded
    <3> QED BY <3>2, <3>3
  <2> QED BY <2>3, <2>4
<1>6. (pc[Download(r)] # "idle" => pc[<<r, "completed", 1>>] = "handled")'
  <2>1. pc'[Download(r)] = pc[Download(r)]
    BY <1>2
  <2>2. <<r, "completed", 1>> \in Handlers
    BY CompletedNames
  <2> QED BY <1>1, <1>2, <2>1, <2>2 DEF OneAfterTheOther
<1> QED BY <1>3, <1>4, <1>5, <1>6 DEF OneAfterTheOther

\* Its upsert and its event
LEMMA CallbackKeepsTurns ==
  ASSUME RowsInv, NEW r \in Recordings, OneAfterTheOther(r),
         NEW s \in RecordingStatuses, NEW n \in 1..2,
         CallbackUpserts(r, s, n) \/ CallbackRecords(r, s, n)
  PROVE  OneAfterTheOther(r)'
<1> USE HandlerNames
<1> DEFINE h == <<r, s, n>>
<1>1. ~Quiet(h)
  BY DEF CallbackUpserts, CallbackRecords, UpsertReads, UpsertWrites, Quiet
<1>2. /\ ~InStart(r)
      /\ \A f \in Final \ {s}, m \in 1..2 : pc[<<r, f, m>>] = "idle"
      /\ s \in Final /\ n = 2 => pc[<<r, s, 1>>] = "handled"
  BY <1>1, AtWork
<1>3. UNCHANGED <<current, provider>>
  BY DEF CallbackUpserts, CallbackRecords, UpsertReads, UpsertWrites
<1>4. \A g \in Handlers : g # h /\ g # Download(r) => pc'[g] = pc[g]
  BY DEF CallbackUpserts, CallbackRecords, UpsertReads, UpsertWrites, Goto, RowsInv, TypeOK
<1>5. \A g \in Callbacks : g # h => pc'[g] = pc[g]
  BY <1>4
<1>6. ~InStart(r)'
  BY <1>2, <1>3, <1>4 DEF InStart
<1>7. \A g \in Callbacks : g[1] = r /\ ~Quiet(g)' => g = h
  BY <1>1, <1>5 DEF OneAfterTheOther, Quiet
<1>8. ASSUME NEW f \in Final, f # s PROVE Concluded(r, f)'
  <2>1. \A m \in 1..2 : pc'[<<r, f, m>>] = "idle"
    BY <1>2, <1>5, <1>8 DEF RecordingStatuses
  <2> QED BY <2>1 DEF Concluded
<1>9. ASSUME s \in Final
      PROVE  /\ Concluded(r, s)'
             /\ pc[h] = "event" => pc'[<<r, s, 1>>] = "handled"
  <2>1. Concluded(r, s)
    BY <1>9 DEF OneAfterTheOther
  <2>2. "in-progress" \in RecordingStatuses /\ s # "in-progress"
    BY <1>9 DEF RecordingStatuses, Final
  <2>3. \A m \in 1..2 : pc'[<<r, "in-progress", m>>] = pc[<<r, "in-progress", m>>]
    BY <1>5, <2>2
  <2>4. pc[h] # "idle" /\ provider[r] = s /\ pc[<<r, "in-progress", 1>>] = "handled"
        /\ Quiet(<<r, "in-progress", 2>>)
    BY <1>1, <2>1 DEF Concluded, Quiet
  <2>5. CASE n = 1
    <3>1. CASE UpsertReads(h, r)
      <4>1. pc[h] = "get" /\ pc'[h] = "put" /\ read'[h] = row[r] /\ row' = row
        BY <3>1 DEF UpsertReads, dbVars, Goto, RowsInv, TypeOK
      <4> QED BY <1>3, <2>3, <2>4, <2>5, <4>1 DEF Concluded, Quiet
    <3>2. CASE UpsertWrites(h, r, s, {}, "event")
      <4>1. pc[h] = "put" /\ read[h] = row[r]
        BY <2>1, <2>5, <3>2 DEF UpsertWrites, Concluded
      <4>2. pc'[h] = "event" /\ row'[r] = s
        BY <3>2, <4>1 DEF UpsertWrites, Goto, RowsInv, TypeOK
      <4> QED BY <1>3, <2>3, <2>4, <2>5, <4>1, <4>2 DEF Concluded, Quiet
    <3>3. CASE CallbackRecords(r, s, n)
      <4>1. pc[h] = "event" /\ row' = row
        BY <3>3 DEF CallbackRecords
      <4>2. h \in Handlers /\ h # Download(r)
        OBVIOUS
      <4>3. pc'[h] = "handled"
        BY <3>3, <4>2 DEF CallbackRecords, Goto, RowsInv, TypeOK
      <4> QED BY <1>3, <2>1, <2>3, <2>4, <2>5, <4>1, <4>3 DEF Concluded, Quiet
    <3> QED BY <3>1, <3>2, <3>3 DEF CallbackUpserts
  <2>6. CASE n = 2
    <3>1. pc[<<r, s, 1>>] = "handled" /\ pc'[<<r, s, 1>>] = "handled" /\ row[r] = s
      BY <1>2, <1>5, <1>9, <2>1, <2>6 DEF Concluded
    <3>2. row'[r] = s
      BY <3>1 DEF CallbackUpserts, CallbackRecords, UpsertReads, UpsertWrites, dbVars,
                  RowsInv, TypeOK
    <3> QED BY <1>3, <2>3, <2>4, <3>1, <3>2 DEF Concluded, Quiet
  <2> QED BY <2>5, <2>6
<1>10. \A f \in Final : Concluded(r, f)'
  BY <1>8, <1>9
<1>11. (pc[Download(r)] # "idle" => pc[<<r, "completed", 1>>] = "handled")'
  <2>1. <<r, "completed", 1>> \in Callbacks
    BY CompletedNames
  <2>2. CASE pc[Download(r)] # "idle"
    <3>1. pc[<<r, "completed", 1>>] = "handled"
      BY <2>2 DEF OneAfterTheOther
    <3> QED BY <1>1, <1>5, <2>1, <3>1 DEF Quiet
  <2>3. CASE pc[Download(r)] = "idle"
    <3>1. pc'[Download(r)] = "idle" \/ (s = "completed" /\ pc[h] = "event")
      BY <2>3 DEF CallbackUpserts, CallbackRecords, UpsertReads, UpsertWrites, Goto,
                  RowsInv, TypeOK
    <3> QED BY <1>9, <3>1 DEF Final
  <2> QED BY <2>2, <2>3
<1> QED BY <1>6, <1>7, <1>10, <1>11 DEF OneAfterTheOther

\* Twilio's end of the recording, and the download
LEMMA RecordingKeepsTurns ==
  ASSUME RowsInv, NEW r \in Recordings, OneAfterTheOther(r),
         NEW q \in Recordings, Ends(q) \/ Fetch(q) \/ DownloadUpserts(q)
  PROVE  OneAfterTheOther(r)'
<1> USE HandlerNames
<1>1. /\ \A h \in Handlers : h # Download(q) => pc'[h] = pc[h] /\ read'[h] = read[h]
      /\ current' = current
      /\ pc'[Download(q)] # "idle" => pc[Download(q)] # "idle"
  BY DEF Ends, Fetch, DownloadUpserts, UpsertReads, UpsertWrites, historyVars, Goto,
         RowsInv, TypeOK
<1>2. provider'[r] = provider[r] \/ provider[r] \notin Final
  BY DEF Ends, Fetch, DownloadUpserts, UpsertReads, UpsertWrites, Final, RowsInv, TypeOK
<1>3. row'[r] = row[r]
  <2>1. CASE DownloadUpserts(q) /\ q = r
    <3>1. pc[Download(r)] # "idle"
      BY <2>1 DEF DownloadUpserts, UpsertReads, UpsertWrites
    <3>2. Concluded(r, "completed") /\ pc[<<r, "completed", 1>>] = "handled"
      BY <3>1 DEF OneAfterTheOther, Final
    <3>3. row[r] = "completed"
      BY <3>2 DEF Concluded
    <3> QED BY <2>1, <3>3 DEF DownloadUpserts, UpsertReads, UpsertWrites, dbVars,
                              RowsInv, TypeOK
  <2>2. CASE ~(DownloadUpserts(q) /\ q = r)
    BY <2>2 DEF Ends, Fetch, DownloadUpserts, UpsertReads, UpsertWrites, dbVars,
                RowsInv, TypeOK
  <2> QED BY <2>1, <2>2
<1>4. InStart(r)' => InStart(r)
  BY <1>1 DEF InStart
<1>5. pc'[Download(r)] # "idle" => pc[Download(r)] # "idle"
  BY <1>1
<1> QED BY <1>1, <1>2, <1>3, <1>4, <1>5, OthersKeepTurns

LEMMA NextKeepsTurns ==
  ASSUME RowsInv, [Next]_vars, NEW r \in Recordings \ overtaken',
         r \notin overtaken => OneAfterTheOther(r)
  PROVE  OneAfterTheOther(r)'
<1>1. OneAfterTheOther(r)
  <2>1. overtaken \subseteq overtaken'
    <3>1. \A q \in Recordings, s \in RecordingStatuses, n \in 1..2 :
              Deliver(q, s, n) \/ CallbackUpserts(q, s, n) \/ CallbackRecords(q, s, n)
                => overtaken \subseteq overtaken'
      BY DEF Deliver, CallbackUpserts, CallbackRecords, UpsertReads, UpsertWrites,
             historyVars
    <3>2. \A q \in Recordings : Ends(q) \/ Fetch(q) \/ DownloadUpserts(q)
                => overtaken \subseteq overtaken'
      BY DEF Ends, Fetch, DownloadUpserts, UpsertReads, UpsertWrites, historyVars
    <3>3. Start \/ StartRequests \/ StartUpserts \/ StartRecords \/ StartCancelled
                => overtaken \subseteq overtaken'
      BY DEF Start, StartRequests, StartUpserts, StartRecords, StartCancelled,
             StartUnchanged, UpsertReads, UpsertWrites, historyVars
    <3>4. UNCHANGED vars => overtaken \subseteq overtaken'
      BY DEF vars, historyVars
    <3> QED BY <3>1, <3>2, <3>3, <3>4 DEF Next
  <2> QED BY <2>1
<1>2. CASE Start \/ StartRequests \/ StartUpserts \/ StartRecords \/ StartCancelled
  BY <1>1, <1>2, StartKeepsTurns
<1>3. ASSUME NEW q \in Recordings, Ends(q) \/ Fetch(q) \/ DownloadUpserts(q)
      PROVE  OneAfterTheOther(r)'
  BY <1>1, <1>3, RecordingKeepsTurns
<1>4. ASSUME NEW q \in Recordings, NEW s \in RecordingStatuses, NEW n \in 1..2,
             Deliver(q, s, n) \/ CallbackUpserts(q, s, n) \/ CallbackRecords(q, s, n)
      PROVE  OneAfterTheOther(r)'
  <2>1. CASE q # r
    BY <1>1, <1>4, <2>1, OtherCallbacksKeepTurns
  <2>2. CASE q = r
    BY <1>1, <1>4, <2>2, DeliverKeepsTurns, CallbackKeepsTurns
  <2> QED BY <2>1, <2>2
<1>5. CASE UNCHANGED vars
  <2>1. UNCHANGED <<pc, read, row, provider, current>>
    BY <1>5 DEF vars, dbVars
  <2> QED BY <1>1, <2>1, OthersKeepTurns DEF InStart
<1> QED BY <1>2, <1>3, <1>4, <1>5 DEF Next
-----------------------------------------------------------------------------
(* Theorems *)

\* The rows, the handlers and Twilio keep their types, each download has its
\* event, and every row its recording (upsert_recording, recording_status).
THEOREM RecordingInvariant == Spec => []RecordingInv
<1>1. Init => RecordingInv
  <2> SUFFICES ASSUME Init PROVE RecordingInv
    OBVIOUS
  <2>1. RowsInv
    BY InitInv
  <2>2. \A h \in Handlers : pc[h] = "idle"
    BY DEF Init
  <2>3. ASSUME NEW r \in Recordings PROVE OneAfterTheOther(r)
    <3>1. ~InStart(r) /\ pc[Download(r)] = "idle"
      BY <2>2, HandlerNames DEF InStart
    <3>2. \A h \in Callbacks : pc[h] = "idle"
      BY <2>2, HandlerNames
    <3>3. ASSUME NEW f \in Final PROVE Concluded(r, f)
      <4>1. \A n \in 1..2 : pc[<<r, f, n>>] = "idle"
        BY <3>2, HandlerNames DEF RecordingStatuses
      <4> QED BY <4>1 DEF Concluded
    <3> QED BY <3>1, <3>2, <3>3 DEF OneAfterTheOther, Quiet
  <2> QED BY <2>1, <2>3 DEF RecordingInv
<1>2. RecordingInv /\ [Next]_vars => RecordingInv'
  <2> SUFFICES ASSUME RecordingInv, [Next]_vars PROVE RecordingInv'
    OBVIOUS
  <2>1. RowsInv'
    BY StartInv, CallbackInv, RecordingStepInv, StutterInv DEF Next, RecordingInv
  <2>2. \A r \in Recordings \ overtaken' : OneAfterTheOther(r)'
    BY NextKeepsTurns DEF RecordingInv
  <2> QED BY <2>1, <2>2 DEF RecordingInv
<1> QED BY <1>1, <1>2, PTL DEF Spec

\* A recording is downloaded once, however often "completed" is delivered
\* (recording_status).
THEOREM DownloadedOnce == Spec => []DownloadOnce
<1>1. RecordingInv => DownloadOnce
  <2> SUFFICES ASSUME RecordingInv, NEW r \in Recordings
               PROVE  scheduled[r] <= 1
    BY DEF DownloadOnce
  <2>1. scheduled[r] = 1 \/ scheduled[r] = 0
    BY DEF RecordingInv, RowsInv, ScheduledByEvent
  <2> QED BY <2>1
<1> QED BY <1>1, RecordingInvariant, PTL

\* Unless a timeout hides a recording, one bridge starts one recording
\* (RecordingCoordinator.start).
THEOREM OneRecording == Spec => []StartedOnce
<1>1. RecordingInv => StartedOnce
  BY DEF RecordingInv, RowsInv
<1> QED BY <1>1, RecordingInvariant, PTL

\* However many recordings there are and whatever fails: a recording whose
\* callbacks came in turn ends with the status Twilio gave it, the writes of
\* start(), of duplicates and of the download between them notwithstanding
\* (upsert_recording, recording_status, _download_recording).
THEOREM EndsRight == Spec => []EndsAsTwilioSays
<1>1. RecordingInv => EndsAsTwilioSays
  <2> SUFFICES ASSUME RecordingInv, NEW r \in Recordings \ overtaken, Handled(r)
               PROVE  row[r] = provider[r]
    BY DEF EndsAsTwilioSays
  <2> DEFINE f == provider[r]
  <2>1. f \in Final /\ pc[<<r, f, 1>>] # "idle"
    BY DEF Handled
  <2>2. Concluded(r, f)
    BY <2>1 DEF RecordingInv, OneAfterTheOther
  <2>3. Quiet(<<r, f, 1>>)
    <3>1. f \in RecordingStatuses /\ 1 \in 1..2
      BY <2>1 DEF RecordingStatuses
    <3>2. <<r, f, 1>> \in Handlers
      BY <3>1, HandlerNames, Zenon
    <3> QED BY <3>2 DEF Handled
  <2> QED BY <2>1, <2>2, <2>3 DEF Concluded, Quiet
<1> QED BY <1>1, RecordingInvariant, PTL
=============================================================================
