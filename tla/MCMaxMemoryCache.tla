-------------------------- MODULE MCMaxMemoryCache --------------------------
(***************************************************************************)
(* Instances of MaxMemoryCache for TLC, and what comments of it say that   *)
(* the code does not do.                                                   *)
(***************************************************************************)
EXTENDS MaxMemoryCache, TLC

KeySymmetry == Permutations(Keys)

\* Line 51: m.lock is not kept until Set returns, so that the eviction callback
\* can get it.  So no goroutine waits in the callback for a lock that it holds
\* itself.
CallbackGetsLock == \A p \in Procs : At(p, "evict") => mLock # p

=============================================================================
