------------------------- MODULE MCGracefulShutdown -------------------------
(***************************************************************************)
(* GracefulShutdown for TLC, and what a comment of service/shutdown.go     *)
(* says that the code does not do.                                         *)
(***************************************************************************)
EXTENDS GracefulShutdown

\* Line 136: every callback has been executed when the next phase starts.
AllCallbacksRun ==
  pc \in {"close", "returned"} => \A j \in Callbacks : \E i \in Callbacks : ran[i] = j

=============================================================================
