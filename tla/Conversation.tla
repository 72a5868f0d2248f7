---------------------------- MODULE Conversation ----------------------------
(***************************************************************************)
(* What RealtimeAudioBridge promises to whoever listens: an answer that    *)
(* was ended is not taken up again, OpenAI is told of an item only what    *)
(* was heard of it, and the bridge hangs up only when all it said was      *)
(* heard or cut off.                                                       *)
(***************************************************************************)
EXTENDS Naturals

CONSTANTS
    Answers,    \* the responses
    Stretches,  \* the items of audio they consist of
    Unit        \* what was told is counted in Units of what was heard

VARIABLES
    said,       \* how many pieces of audio were handed over
    settled,    \* how many of them are known to be heard or cut off
    muted,      \* the answers that were ended before their time
    heard,      \* what was heard of each item
    told,       \* what OpenAI was told of the items that were cut off
    over        \* the bridge has hung up

conversationVars == <<said, settled, muted, heard, told, over>>

Init ==
    /\ said = 0 /\ settled = 0
    /\ muted = {}
    /\ heard = [i \in Stretches |-> 0]
    /\ told = {}
    /\ over = FALSE

Say(r) ==
    /\ r \notin muted
    /\ said' = said + 1
    /\ UNCHANGED <<settled, muted, heard, told, over>>

\* More of what was said is heard
Hear ==
    /\ heard' \in [Stretches -> Nat]
    /\ \A i \in Stretches : heard[i] <= heard'[i]
    /\ UNCHANGED <<said, settled, muted, told, over>>

\* Another piece is known to be heard, and with the last the bridge may hang up
Settle ==
    /\ settled' \in settled..(settled + 1)
    /\ settled' <= said
    /\ (over' = over) \/ (over' /\ settled' = said)
    /\ UNCHANGED <<said, muted, heard, told>>

\* An answer is ended, and all that was said may be cut off
Mute(r) ==
    /\ muted' = muted \cup {r}
    /\ settled' \in {settled, said}
    /\ UNCHANGED <<said, heard, told, over>>

Tell(t) ==
    /\ Unit * t.audio_end_ms <= heard[t.item]
    /\ told' = told \cup {t}
    /\ UNCHANGED <<said, settled, muted, heard, over>>

Next ==
    \/ \E r \in Answers : Say(r) \/ Mute(r)
    \/ Hear
    \/ Settle
    \/ \E t \in told' : Tell(t)

Spec == Init /\ [][Next]_conversationVars
=============================================================================
