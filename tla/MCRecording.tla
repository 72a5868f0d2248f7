---------------------------- MODULE MCRecording ----------------------------
(* Recording on recordings that are model values: none differs from another *)
EXTENDS Recording, TLC

Interchangeable == Permutations(Recordings)
=============================================================================
