----------------------------- MODULE MCSyncPull -----------------------------
(* Instances of SyncPull: sections of different sizes, an empty one too.     *)
EXTENDS SyncPull

NoRows == {}
OneStore == {1}
TwoBalances == {2, 3}
=============================================================================
