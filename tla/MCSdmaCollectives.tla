------------------------- MODULE MCSdmaCollectives -------------------------
(* Small instances of SdmaCollectives for TLC.                             *)
EXTENDS SdmaCollectives

Summing == {<<"allreduce">>}
=============================================================================
