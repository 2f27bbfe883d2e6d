----------------------------- MODULE MCWaveScan -----------------------------
(* Small instances of WaveScan: every choice among two producers.          *)
EXTENDS WaveScan

Stages == [Token -> SUBSET {0, 1}]
=============================================================================
