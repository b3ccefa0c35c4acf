---------------------------- MODULE MCEntrySubmit ----------------------------
(* A small instance of EntrySubmit for TLC.                                 *)
EXTENDS EntrySubmit
=============================================================================
