---------------------------- MODULE MCSyncJournal ----------------------------
(* Instances of SyncJournal for TLC. *)
EXTENDS SyncJournal
=============================================================================
