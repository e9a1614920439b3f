---------------------------- MODULE MCSyncFlush ----------------------------
(* The instances of SyncFlush that TLC checks.                              *)
EXTENDS SyncFlush

CONSTANTS a, b  \* two animes

=============================================================================
