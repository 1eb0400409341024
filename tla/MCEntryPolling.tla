---------------------------- MODULE MCEntryPolling ----------------------------
(* One supplementary coordinator: usage and account limits treat the watch   *)
(* alike.                                                                    *)
EXTENDS EntryPolling
=============================================================================
