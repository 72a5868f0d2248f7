# Verification of AI-phone-assistant

TLA+ models of the assistant in `src/app`, model-checked with TLC, with the
most important safety properties proved with TLAPS for every value of the
constants. This file says what is modelled, how the models correspond to the
code, what the checks and proofs show, and what is left.

    tlc -workers 2 -config Interruptions.cfg MCRealtimeBridge.tla
    tlapm RealtimeBridgeProofs.tla

## 1. The system

A FastAPI process places outbound calls through Twilio and lets an OpenAI
Realtime session talk. SQLite keeps the history. Everything runs on one asyncio
event loop: *between two awaits a coroutine is atomic, at an await any other
may run*. Blocking provider requests run in threads (`to_thread`) and survive
the cancellation of the coroutine that awaits them.

| Component | State | Operations | What makes it correct |
|---|---|---|---|
| Playback tracker (`services/playback.py`) | tracked response and item, generated and played ms, pending marks, suppressed responses | `add_audio`, `acknowledge_mark`, `output_done`, `interrupt`, `cancel_response` | truncation points are audio that was heard; late audio of an interrupted response is dropped |
| Realtime bridge (`services/realtime_bridge.py`) | two relay tasks, finishing flags, transcript numbering | `run`, Twilio messages, Realtime events, tool turns, interruption | hang-up only behind played audio; both tasks end together; transcripts in conversation order |
| OpenAI session (`services/openai_realtime.py`) | one WebSocket | connect, configure, append, truncate, tool output, receive, close | raises `RealtimeDisconnected` when the socket is gone |
| Media stream (`services/media_stream.py`, `routers/twilio.py`) | stream identifiers, counters | accept, start, media, mark, stop, close | runs only with a start checked to the end; ends with the phone call |
| Tools (`agent/tools.py`) | the runtime's facts, objective status, finish and recording flags | `dispatch` of four tools | only allowed tools act; what the model is told was done is stored |
| Call creation (`routers/calls.py`, `services/twilio.py`) | the call's row, the runtime | `create_call`, `OutboundCallService.create`, `.end` | the row tells the truth about Twilio's call |
| Status callbacks (`routers/twilio.py`) | row, event dedupe keys | `call_status` | each transition applied once, terminal states stay |
| Owner's requests (`routers/web.py`) | row | `end_call`, `retry_summary` | one hang-up; no call survives it |
| Post-call summary (`services/post_call_summary.py`) | summary columns | `generate` with `claim_summary` | one durable report, failures retryable |
| Recording (`services/recording.py`, `routers/twilio.py`) | recording rows, files | `RecordingCoordinator.start`, `recording_status`, download | one recording, downloaded once, row as Twilio says |
| Repository (`db/repository.py`) | SQLite | `update_call`, `record_event`, `claim_summary`, `upsert_recording` | the atomicity the above rely on |
| Live updates (`routers/web.py`) | the last snapshot sent | `call_updates`, `_snapshot` | no effect shown without its cause; the page catches up |
| Other pages, instructions, schemas, config, security | — | read-only or pure | — |

How they interact: `create_call` registers the runtime in the call store and
asks Twilio for a call; Twilio sends status callbacks and opens a media stream;
`media_stream` finds the runtime, writes the row and runs the bridge; the bridge
relays audio, stores transcripts, dispatches tools and starts recordings; the
`completed` callback schedules the summary in the background; the owner may end
the call or retry the report at any time.

What is hard here:

* audio generated, sent, played, acknowledged and cleared are five different
  points in time, with messages of all five kinds crossing on two sockets;
* an interruption is a sequence of awaits during which the other task goes on;
* the call ends by the last of three events that come in any order;
* callbacks are duplicated, reordered and handled concurrently, and
  `update_call` and `upsert_recording` read a row and write it later;
* dedupe keys are committed before the transition they stand for;
* a tool changes the runtime at once and the database in up to three writes,
  while pages and reports read four tables in four sessions;
* a claim survives the process that made it.

`PROJECT.json` lists each hazard at its line, with the properties aimed at it.

## 2. Modules

### The conversation

| Module | Models | Correspondence |
|---|---|---|
| `AudioIds` | identifiers, bounds, `Ms` | bytes of G.711 at 8 per millisecond, `int()` of the total |
| `Playback` | `AssistantPlaybackTracker` | one operator per method; the fields are the variables of the same name |
| `TwilioMedia` | the far end of the stream (external) | chunks are played in order, marks answered behind them, a clear drops what was not played |
| `RealtimeServer` | the Realtime session as the bridge uses it (external) | one response at a time, items, deltas, tool calls, server-side turn detection |
| `RealtimeBridge` | `RealtimeAudioBridge` and the session's calls | `run_pc`, `t_pc`, `o_pc` name the await at which `run()`, `_twilio_to_openai` and `_openai_to_twilio` are suspended; an action goes from one await to the next |
| `BridgeInvariant` | the inductive invariant: `TrackingInv` of the audio, `OrderInv` of the transcripts | used by TLC and by the proofs |
| `MCRealtimeBridge` | instances for TLC | tool batches |
| `Conversation` | abstract: say, hear, settle, mute an answer, tell what was heard, hang up | `RealtimeBridge` implements it (`ConversationKept`): `settled` is the larger of what was acknowledged and what the last interruption cut |
| `RealtimeBridgeProofs`, `ConversationProofs`, `TranscriptProofs` | the proofs: audio, refinement, transcripts | |

Audio is a count of bytes; texts, tool arguments and payloads are left out.
Cancellation is modelled where asyncio delivers it (an await of the sibling
task once a task ended by an exception), including the `finally` of
`_interrupt_assistant` that still sends the clear. Every database write may
fail when `Inputs` contains `"db_failure"`.

### The call's record

| Module | Models | Correspondence |
|---|---|---|
| `MediaStream` | `media_stream`, what `MediaStreamSession` accepts, `ToolDispatcher`, and what the conversation leaves in the database | `handler` names the await of the endpoint, `o` that of the bridge's O task; each tool call and each transcript is its number |
| `CallRecord` | the composition, by EXTENDS, of `MediaStream` and `PostCallSummary` with the `completed` callback, the owner's end request, `_input`, `_snapshot` and `call_updates`; a crash | `at` and `seen` are how far a reader is in its four reads and what it has read, `material` what the report was made from |
| `CallRecordProofs` | the proofs | |

`RealtimeBridge` and `MediaStream` are two views of one bridge. The first has
the audio and treats a database write as an await that may fail; the second has
the tables and treats the audio as an await that may end. They share the order
of the O task's awaits in `_handle_tool_calls` and `_persist_tool_result`. When
T ends first, the write O awaits is cancelled, and whether it was committed is
unknown: `RelayEnds({db, Written})`. `_snapshot` also reads the recording's row
(`web.py:246`); that table is `Recording`'s, so its await is left out of
`ReadPage`, which has the four of the call's own tables.

A start message is taken whole or refused (`Apply`): `_handle_start` assigns its
fields only behind its last check. `Messages` has one member for each thing the
receive loop does with a message.

### The call's row

| Module | Models |
|---|---|
| `DurableReport` | abstract: one writer at a time, at most one report, never replaced |
| `PostCallSummary` | `generate()` for any number of requests: claim, provider request, outcome, event; failing writes and crashes |
| `CallLifecycle` | `create_call`, `call_status`, `media_stream`'s row updates, `end_call`, `retry_summary`, with `PostCallSummary` composed by EXTENDS; Twilio's call and callbacks; a crash |
| `Recording` | `RecordingCoordinator.start`, `recording_status`, downloads, `upsert_recording` |
| `MCRecording` | the symmetry of the recordings, for TLC |
| `PostCallSummaryProofs`, `CallLifecycleProofs`, `RecordingProofs` | the proofs |

`update_call` is two actions, `Load` and `Save`: SQLAlchemy writes the columns
whose value differs from what was read, so `Save` leaves `status` alone when the
new value is the one it read, whatever is there now. `upsert_recording` is the
same, and inserting a row that appeared in between raises `IntegrityError`.
`record_event` and `claim_summary` are one statement each and atomic.

The constants `Faults` and `Options` switch environments on: `"refused"`,
`"unreachable"` (a request whose outcome is unknown), `"dry_run"`, `"crash"`,
`"db_failure"`; for recordings also `"cancelled"` (the bridge ends in the middle
of `start()`) and `"download"`. Callbacks may always be early, concurrent,
reordered and, for the statuses in `Duplicated`, delivered twice. `MaxInFlight`
bounds how many handlers are at work when one more arrives.

Some variables are history that properties read and no action's guard does:
`heard`, `cut`, `silenced`, `talked_over` and `truncations` of the conversation,
`scheduled`, `broken` (a failing database or a crash met the report), `hidden`
(a timeout hid that Twilio began to record), `unasked` (end requests that found
no SID, so that Twilio was not asked to end anything) and `overtaken` (a callback was
delivered before one that Twilio sent earlier was handled, or in the middle of
another handler). A property that speaks of callbacks in turn says so with
`overtaken`, in one model in which they also come out of turn.

Operators introduced by a comment "Variant:" are deliberate mistakes used to
show that a property can fail; no specification uses them.

## 3. Runs

Passing runs:

| Run | Property | Question | Bounds |
|---|---|---|---|
| `Interruptions` | `TypeOK`, `TruncationHeard`, `InterruptedStaysSilent`, `IInv`, `TranscriptOrder`, `ConversationKept` | The caller talks over an answer, with the texts of both speakers in any order | 2 responses, 2 items each, 2 deltas, 1 turn of the caller, 1 buffered event, deltas of 1.5 ms so that rounding shows |
| `Finish` | `HangUpAfterPlayback`, `FinishEnds` | `finish_call` behind a recording, with media, stop and an interruption: no hang-up before the audio was played, and in the end one | fairness, 3 responses, 2 buffered events |
| `Failures` | `InterruptionCleared`, `DisconnectEnds` | a side is lost, the API reports an error or a write fails, while audio, an interruption or a recording tool is under way: is Twilio told to clear what was cut off, and does everything end? | fairness, 3 responses, 1 recording tool |
| `Reports` | `RecordInv`, `ReportComplete`, `CauseShown`, `OneGeneration`, `ReportPromise`, `GenerationSettles` | the callback's task and a retry read what a conversation writes that the agent, the loss of OpenAI, the remote party or the owner ends; they fail, crash, try again | fairness, 2 claims, 1 call of `save_fact` or `finish_call` or 1 transcript, the `ask` policy |
| `LivePage` | `CauseShown`, `EffectsDurable`, `RecordingConsent`, `StreamKnown`, `PageCatchesUp`, `StreamEnds` | a page reads while a conversation is written, under every policy, tool and loss | fairness, 1 page, no report, 1 turn, 4 allowed tools and an unknown one |
| `Lifecycle` | `LifecycleInv`, `ReportScheduledOnce`, `Converges`, `CompletionReported`, `ShownOverIsOver` | early, concurrent, reordered, duplicated callbacks, the media stream, an end request; refusals and timeouts of Twilio | 2 handlers at work |
| `Restarts` | `ReportScheduledOnce`, `SummaryImplemented` | a crash at any await, retries, a creation with unknown outcome | 1 crash, 2 claims, 1 callback at a time |
| `Recordings` | `RecordingInv`, `StartedOnce`, `DownloadOnce`, `EndsAsTwilioSays` | three calls of `start()`, refused, cancelled or timed out, racing callbacks and downloads | 2 recordings (interchangeable, so symmetry is sound for these invariants), 2 handlers at work |

The bounds are the smallest at which what a run asks about happens with
something before and after it: an interruption needs a response before it and
one behind it; the order of transcripts an item of each speaker; a race of
callbacks two of them at a time; a second recording a second SID. `MaxEvents`
bounds the socket's buffer, not what the server does, so no behaviour is cut,
only held up. `LivePage` and `Reports` have one turn: a torn read needs one
write to fall between two reads. What a bridge's run can lose is what its
`Inputs` and tools make happen: `Failures` has the awaits of audio, events,
interruption and tool; those of `append` and of the stop are in `Finish`, those
of transcripts in `Interruptions`, neither with a loss. `StreamEnds` in
`LivePage` asks for the end from the writes of transcripts and of every tool. A page reads the report from the row it reads the status from,
so `LivePage` leaves the report out. Every invariant these runs check is also proved, for
any number of turns, tools, requests, pages, responses, items, recordings and
handlers; the runs say that the properties can fail (their mutants) and that
what they speak of happens. Deadlock checking is off because calls end.

Runs that find a disagreement between the code and a document
(`findings` in `PROJECT.json` quotes both):

| Run | What the counterexample shows |
|---|---|
| `GoodbyeCut` | the end of another response while finishing hangs up before the goodbye began |
| `StaleAudio` | the caller speaks before the first delta was processed: nothing is suppressed, the response is played over the caller |
| `SummaryStuck` | a crash behind the claim leaves the report `generating` for ever |
| `Disorder` | a late callback replaces a terminal status |

Other behaviour the models show and a reader should know of, without a run of
its own:

* When an item starts while audio of an older one is still buffered,
  `_begin_response` (`playback.py:115`) drops the older item's marks. An
  interruption then truncates the new item only, although the clear drops audio
  of both.
* When the remote party hangs up, the `completed` callback can be handled before
  the bridge's last write: the report may miss the last transcript or tool
  outcome. `ReportComplete` is about calls the application ended. The same holds
  when the owner ends the call: `end_call` writes `completed` (`web.py:204`)
  while the conversation may still run, and from then on a retry is accepted.
* A report reads the facts behind the events (`post_call_summary.py:135-157`).
  While the conversation still runs, as above, it may have a fact whose outcome
  is not among its events; `CauseShown` claims this of a report's facts only
  when the application ended the stream and no owner the call.
* A tool call cut off between its writes leaves its outcome without its fact or
  status; the opposite, an effect in the database without its outcome, never
  happens (`Caused`, `EffectsDurable`).
* A process that dies between `record_event` and the end of `call_status`
  (`twilio.py:283`) has swallowed the transition: its redelivery is taken for a
  duplicate, the row keeps its status and no report is scheduled. A `completed`
  row, by an end request, still lets the owner retry. `CompletionReported`
  claims the report unless the process died.
* Any error event of the API ends the conversation (`realtime_bridge.py:149`),
  and a send that fails inside a task escapes `run()` as an exception group.
* Two end requests can both pass the check of `web.py:193` and both ask Twilio
  to hang up; an end request before the SID is stored (`web.py:196`) hangs up
  nothing and is answered `completed`. The row then says over while the call
  goes on, and a later end request does not reach Twilio either: this is the one
  exception `ShownOverIsOver` makes (`unasked`).
* An exception of Twilio's client other than the two caught (`calls.py:78`)
  leaves the row `created` until a media stream starts.
* A callback that arrives before the SID is stored finds no call and is lost.
* A late `in-progress`, of a callback or of `start()`'s own upsert
  (`repository.py:245`), replaces a recording's `completed`.
* `start()` and the `in-progress` callback can insert the same row; the
  exception leaves `start()` (`recording.py:166`) and ends the conversation.

## 4. Fairness

Only `Finish`, `Failures`, `Reports` and `LivePage` use it, each no more than it
needs.

* The event loop runs whatever can continue (`EventLoop`): weak fairness of
  `Run`, `O`, and T's continuations, and strong fairness of `TDisconnect`, which
  media messages before it do not starve, as T leaves its receive between two of
  them. `Failures` has this only: that everything ends when a side is lost asks
  nothing of Twilio or OpenAI.
* `Finish` also needs the two ends (`Fairness`). Twilio's messages arrive in
  order, so neither is a mark starved by media messages: strong fairness of
  `TMark`.
* Twilio plays what it was sent. OpenAI answers requests, ends responses and
  commits turns that began (`ServerProgress`).
* The endpoint, the O task between its awaits, a reader between its reads and
  a page's next look go on (`RecordFairSpec`), because the event loop resumes a
  coroutine whose await is over and every database write ends.
* A request for a report that is at work goes on, whatever becomes of the
  conversation (`ReportsFair`, all that `Reports` has); the OpenAI client's timeout
  ends a request that is not answered.
* Nobody is obliged to speak, to send media, to hang up, to stop, to fail or to
  ask, and Twilio is not obliged to deliver a callback.

## 5. Proofs

No proof assumes more than the named `ASSUME`s of the modules; the bounds are
arbitrary, so nothing depends on the sizes TLC uses.

**The audio** (`RealtimeBridgeProofs`). `TruncationHeard` is not inductive: an
acknowledgement proves that audio was heard only if the mark belongs to the item
the tracker follows, and no clear sent since has dropped it. `TrackingInv`
therefore says how the tracker's fields describe the chunks on their way: the
chunks of the tracked item are the run `run_base+1..mark_sequence`
(`TrackedChunks`), the pending marks are exactly those of it not acknowledged
(`PendingMarks`), no clear in flight reaches into it (`Clears`), what Twilio
played of it bounds what was acknowledged (`HeardTracked`), and when nothing is
tracked every chunk was acknowledged or cut off (`Settled`). Types are proved
operation by operation, `AudioInv` conjunct by conjunct for each action that
disturbs it, and the theorems `TrackingInvariant`, `TypeCorrect`,
`TruncationCorrect`, `SilenceCorrect` and `HangUpCorrect` follow. So does
`ClearFollows`, of the action property `InterruptionCleared`: whenever O is not
sending audio, all that the tracker registered was sent (`Counters`), so the
clear that O sends on its way out of a truncation reaches all that was cut off,
whether the truncation was sent, failed or was cancelled. It leaves without a
clear only when Twilio's side is lost or T ends while the clear is being sent.

**The transcripts** (`TranscriptProofs`). `_sequence_for` numbers an item when
an event first mentions it, and its text may come much later. That the numbers
follow the conversation is a fact about the socket: the server appends items to
the conversation and events to the socket, and whenever an event mentions an
item, every item before it is numbered already or mentioned further ahead in the
socket (`MentionedInOrder`). So the item at the head that is not numbered yet is
the next of the conversation, and the numbered items are always its first ones,
in its order (`NumberedInOrder`). Appending is proved once for all of the
server's steps (`EmitKeepsOrder`, `EntryKeepsOrder`, `MentionKeepsOrder`), taking
from the head once for all events (`TakeKeepsMentions`, `NumberStep`); no other
step touches the order (`BehindKeepsOrder`). `Invariant` is `IInv`, the
conjunction of `TrackingInv` and `OrderInv`; `TranscriptsInOrder` follows.

**The conversation** (`ConversationProofs`). `ConversationCorrect` is the
refinement of `Conversation` under `TrackingInv`: a delta that is not suppressed
is `Say`, an interruption or a cancelled response `Mute`, a played chunk `Hear`,
a truncation `Tell`, a mark or the end of an answer `Settle`, which may hang up;
all else stutters (`UnseenStep`).

**The record** (`CallRecordProofs`). `StreamInv` says what the O task is about
to store and that all the rest of the runtime is stored (`FactsStored`,
`StatusStored`, `EndStored`), from which `EffectsAlwaysDurable` follows.
`ReadersInv` is what makes torn reads harmless: the tables only grow in what a
reader compares, and both readers read the row before the events, and a page the
facts too, so the outcome that came before an effect is read behind it. A
report reads its facts behind the events: `CauseAlwaysShown` has them with their
outcomes only when nothing is written any more. `EndInv` carries `ReportAlwaysComplete`: no report is begun before the
call was ended (`NotEnded`), and once the application has closed the stream
nothing is written any more, so what was read stays up to date
(`NothingMissed`). `SummaryInRecord` shows that the composition implements
`PostCallSummary`, which carries `SummaryInv`, `OneGeneration` and
`ReportPromise` over (`PromiseKeptInRecord`).

**The summary** (`PostCallSummaryProofs`). `SummaryInv` is inductive;
`OneGenerationAlways` is a conjunct. `PromiseKept` is the refinement of
`DurableReport` with `writer` mapped to the request at work: claiming is
`Begin`, the report `Publish`, a failure, failed write or crash `GiveUp`, all
else stutters.

**The call** (`CallLifecycleProofs`). `SummaryUsed` shows that every step of the
application is a step of the summary service or leaves its columns alone, so its
theorems carry over (`OneGenerationInCall`). The other theorems follow from
`LifecycleInv`, which has one part for each of them:

* `ReportScheduledOnce` needs `Scheduling`: a delivery behind `record_event` is
  the only one and its key is taken, which a crash does not give back.
  `CompletionReported` (`CompletionIsReported`) is the other half: while the
  process lives, a key that is taken has its delivery at work or its report
  scheduled, whatever the owner has made of the row.
* `Converges` (`StatusConverges`) is about the last callback. A terminal status
  is the last that Twilio sends (`SentInOrder`); when it comes in turn, the
  creator, the media stream and all callbacks before it are done with the row,
  and what is delivered behind it repeats an event whose key is taken
  (`NothingFollows`). What is left to write the row are end requests, which
  write `completed`. The last callback reads the row and writes what differs:
  either nobody wrote in between, or an end request has (`LastCounts`). So the
  row tells the end (`TellsTheEnd`): it is the status Twilio ended the call
  with, or `completed` because an end request wrote it, which may hide that the
  call was `canceled` or not answered. Both hold only while nothing was overtaken and nothing
  crashed, so `FinalInTurn` says them under these conditions.
* `ShownOverIsOver` (`OverIsOver`) guards what `end_call` relies on: it asks
  Twilio for nothing when the row says over. It needs `Dialled`, that nobody has
  a SID before Twilio has a call and that an end request behind the hang-up
  finds a call that is over, and `SentInOrder` for the callbacks, which tell of
  a status that Twilio has sent. It holds in any order of callbacks, with
  duplicates and crashes; a stale callback may make the row *less* over than the
  call, never more.

The constants' assumption names the handlers: an owner's name is neither a
status nor `"creator"` or `"media"`.

**Recordings** (`RecordingProofs`). `RowsInv` ties each recording at Twilio
to its row, or to the `start()` about to write it, unless a timeout hid it
(`RowsFollow`); `OneRecording` and `DownloadedOnce` follow. `EndsRight` needs
more, for the recordings that were not `overtaken`: none of their callbacks has
come while `start()` was to write the row, no two are at work at once, no
download is before the first `completed`, and the row a final callback reads is
still there when it writes (`OneAfterTheOther`, `Concluded`). `RecordingInv` is
`RowsInv` with this.

Only model-checked: liveness (`FinishEnds`, `DisconnectEnds`,
`GenerationSettles`, `PageCatchesUp`, `StreamEnds`), which needs fairness and
ENABLED and is beyond the prover.

## 6. Not modelled

* Texts and shapes: instructions, schemas, the fields of messages and tool
  arguments (valid or not is modelled), event payloads, rendered pages. They are
  pure functions without state, which unit tests reach.
* Signature checks, settings and application start: decided before any state
  exists.
* The counters of `MediaStreamSession`, which only log lines read.
* A second media stream for the same call. The TwiML of `voice()` opens one
  stream and the call ends with it, so a second would need a second answer of
  Twilio's; its bridge would number transcripts from 1 again.
* Calls in parallel: they share nothing but the database.
* `persistence_enabled` being false and `history` being None: `create_call` sets
  the flag for every call that a stream can find.
* Queries of the dashboard, and the WAV served to the owner: a download is
  renamed into place, so a file that is there is complete.
* Twilio and OpenAI beyond what the code relies on; that the API sends one final
  text per item is assumed (`repository.py:116` would refuse a second).

## 7. Plan

Done, in this order: the tracker and its two ends, the bridge, its invariant and
proofs; the summary, its promise and refinement; the call's lifecycle;
recordings; the media stream, the tools and the record of a call with its
readers, and their proofs; the abstract conversation and its refinement. Then
the order of the transcripts, the end of a call's row and of a recording's row
in turn, and what a row that says over promises, each with its invariant and
proof.

Next:

1. An abstract specification of the O task's tool turn that both
   `RealtimeBridge` and `MediaStream` implement, so that the two views of the
   bridge are related by a proof and not by their order of awaits alone.
2. An abstract specification of a call as its owner sees it, implemented by
   `CallLifecycle`.
