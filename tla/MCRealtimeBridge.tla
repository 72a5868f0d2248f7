-------------------------- MODULE MCRealtimeBridge --------------------------
(* Small instances of RealtimeBridge for TLC. *)
EXTENDS BridgeInvariant

NoTools == {}
FinishOnly == {<<"finish_call">>}
RecordTool == {<<"start_recording_after_consent">>}
FinishAndRecord == {<<"start_recording_after_consent", "finish_call">>}
=============================================================================
