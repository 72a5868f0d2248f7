------------------------------ MODULE AudioIds ------------------------------
(***************************************************************************)
(* The vocabulary of one bridged phone call: the identifiers OpenAI gives  *)
(* responses and conversation items, and the unit the tracker counts audio *)
(* in.  Responses are numbered in the order the server creates them.       *)
(***************************************************************************)
EXTENDS Integers, Sequences, FiniteSets

CONSTANTS
    MaxResponses,   \* bound: responses the server creates in one call
    MaxItems,       \* bound: audio items of one response
    MaxSpeech,      \* bound: turns the remote party takes
    DeltaBytes,     \* sizes a delta's decoded PCMU payload may have
    NoId            \* Python's None for a response or item identifier

ASSUME AudioIdsAssumption ==
    /\ MaxResponses \in Nat /\ MaxItems \in Nat /\ MaxSpeech \in Nat
    /\ DeltaBytes \subseteq Nat
    /\ NoId \notin Nat /\ NoId \notin Nat \X Nat

Responses == 1..MaxResponses

\* The item that carries the i-th stretch of audio of response r is <<r, i>>.
AgentItems == Responses \X (1..MaxItems)

\* What the remote party says in its n-th turn becomes the item <<0, n>>.
RemoteItems == {0} \X (1..MaxSpeech)

Items == AgentItems \cup RemoteItems

\* PCMU at 8 kHz: eight bytes a millisecond, and int() drops the fraction.
BytesPerMs == 8

Ms(bytes) == bytes \div BytesPerMs

Larger(m, n) == IF m >= n THEN m ELSE n
=============================================================================
