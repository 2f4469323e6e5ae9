---------------------------- MODULE MCDataSync ----------------------------
(* Small instances of DataSync.                                            *)
EXTENDS DataSync
=============================================================================
