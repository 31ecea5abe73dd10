-------------------------- MODULE GracefulShutdown --------------------------
(***************************************************************************)
(* The graceful-shutdown sequence of homework_graceful_shutdown:           *)
(* App.StartAndServe and App.shutdown of service/shutdown.go, with the     *)
(* goroutines they start, the process's signal channel, the watchdog that  *)
(* forces an exit, and the HTTP servers that are being shut down.          *)
(*                                                                         *)
(* Time is counted in seconds from the moment the first signal is taken    *)
(* (nothing is timed before it).  Work that takes no time by design is     *)
(* Urgent: the clock may not advance while some of it is due.              *)
(***************************************************************************)
EXTENDS Integers, FiniteSets

CONSTANTS
  Servers,          \* app.servers
  NumCallbacks,     \* len(app.cbs)
  MaxActive,        \* bound: requests in flight on one server
  ShutdownTimeout,  \* app.shutdownTimeout
  CbTimeout,        \* app.cbTimeout
  StopSleep,        \* the sleep in Server.stop
  CloseSleep        \* the sleep in App.close

ASSUME ConstantsAssumption ==
  /\ IsFiniteSet(Servers)
  /\ NumCallbacks \in Nat
  /\ MaxActive \in Nat
  /\ ShutdownTimeout \in Nat
  /\ CbTimeout \in Nat
  /\ StopSleep \in Nat
  /\ CloseSleep \in Nat

Callbacks == 1..NumCallbacks

VARIABLES
  proc,     \* the process: running, or how it exited (os.Exit code, 0 when main returns)
  exitCh,   \* number of signals in the channel exit, whose capacity is one
  late,     \* history: a signal was sent after the first one had been taken
  pc,       \* the phase main is in
  now,      \* seconds since the first signal was taken
  since,    \* when the goroutines and contexts of the current phase started
  wg,       \* the counter of shutdown's WaitGroup, used for three phases in turn
  srv,      \* the listener of each http.Server
  reject,   \* serverMux.reject, as main has written it
  seen,     \* serverMux.reject, as the request goroutines read it
  active,   \* requests being handled, per server
  stopper,  \* the goroutine that stops each server
  cbVar,    \* the loop variable cbs, as an index of app.cbs
  cb,       \* the goroutine started by each round of the callback loop
  ran,      \* the callback that goroutine called (0: none yet)
  obedient  \* the callbacks that return when their context expires (fixed at the start)

sigVars  == <<exitCh, late>>
mainVars == <<pc, since, wg>>
srvVars  == <<srv, reject, seen, active, stopper>>
cbVars   == <<cbVar, cb, ran, obedient>>
vars     == <<proc, now, sigVars, mainVars, srvVars, cbVars>>

Running == proc = "running"
Stopping == pc # "await"     \* the first signal has been taken

Init ==
  /\ proc = "running"
  /\ exitCh = 0
  /\ late = FALSE
  /\ pc = "await"
  /\ now = 0
  /\ since = 0
  /\ wg = 0
  /\ srv = [s \in Servers |-> "starting"]
  /\ reject = [s \in Servers |-> FALSE]
  /\ seen = [s \in Servers |-> FALSE]
  /\ active = [s \in Servers |-> 0]
  /\ stopper = [s \in Servers |-> "none"]
  /\ cbVar = 0
  /\ cb = [i \in Callbacks |-> "unspawned"]
  /\ ran = [i \in Callbacks |-> 0]
  /\ obedient \in SUBSET Callbacks

-----------------------------------------------------------------------------
(* The servers and the requests they serve *)

\* ListenAndServe binds its port, or fails and only its own goroutine ends.
\* After Shutdown it returns ErrServerClosed at once.
StartServer(s) ==
  /\ Running
  /\ srv[s] = "starting"
  /\ \E result \in {"listening", "failed"} : srv' = [srv EXCEPT ![s] = result]
  /\ UNCHANGED <<proc, now, sigVars, mainVars, reject, seen, active, stopper, cbVars>>

\* Mutant of Arrive: ServeHTTP does not look at the flag.
ArriveUnchecked(s) ==
  /\ Running
  /\ srv[s] = "listening"
  /\ active[s] < MaxActive
  /\ active' = [active EXCEPT ![s] = @ + 1]
  /\ UNCHANGED <<proc, now, sigVars, mainVars, srv, reject, seen, stopper, cbVars>>

\* A request reaches the wrapped ServeMux.  Which value of the unsynchronised
\* flag the handler's goroutine reads is seen, not reject.
Arrive(s) ==
  /\ Running
  /\ srv[s] = "listening"
  /\ ~seen[s]
  /\ active[s] < MaxActive
  /\ active' = [active EXCEPT ![s] = @ + 1]
  /\ UNCHANGED <<proc, now, sigVars, mainVars, srv, reject, seen, stopper, cbVars>>

\* A request in flight is answered; a handler may take arbitrarily long.
Serve(s) ==
  /\ Running
  /\ active[s] > 0
  /\ active' = [active EXCEPT ![s] = @ - 1]
  /\ UNCHANGED <<proc, now, sigVars, mainVars, srv, reject, seen, stopper, cbVars>>

\* The write of reject reaches the other CPUs.
FlushReject(s) ==
  /\ Running
  /\ reject[s]
  /\ ~seen[s]
  /\ seen' = [seen EXCEPT ![s] = TRUE]
  /\ UNCHANGED <<proc, now, sigVars, mainVars, srv, reject, active, stopper, cbVars>>

-----------------------------------------------------------------------------
(* Signals and the watchdog *)

\* Mutant of Signal: the channel has no capacity limit.
SignalQueued ==
  /\ Running
  /\ exitCh' = exitCh + 1
  /\ late' = (late \/ Stopping)
  /\ UNCHANGED <<proc, now, mainVars, srvVars, cbVars>>

\* Mutant of Signal: an unbuffered channel, whose receiver may not be ready.
SignalUnbuffered ==
  /\ Running
  /\ exitCh' \in {exitCh, 1}
  /\ late' = (late \/ Stopping)
  /\ UNCHANGED <<proc, now, mainVars, srvVars, cbVars>>

\* signal.Notify never blocks: a signal that finds the channel full is dropped.
Signal ==
  /\ Running
  /\ exitCh' = 1
  /\ late' = (late \/ Stopping)
  /\ UNCHANGED <<proc, now, mainVars, srvVars, cbVars>>

\* Main receives the first signal, starts the watchdog and enters shutdown.
TakeSignal ==
  /\ Running
  /\ pc = "await"
  /\ exitCh = 1
  /\ exitCh' = 0
  /\ pc' = "reject"
  /\ wg' = Cardinality(Servers)
  /\ UNCHANGED <<proc, now, late, since, srvVars, cbVars>>

\* The watchdog's select: a second signal, or the timer of the whole shutdown.
WatchdogSignal ==
  /\ Running
  /\ Stopping
  /\ exitCh = 1
  /\ exitCh' = 0
  /\ proc' = "exit1"
  /\ UNCHANGED <<now, late, mainVars, srvVars, cbVars>>

\* Mutant of WatchdogTimeout: the timeout is looked at only after the callbacks.
TimeoutAfterCallbacks ==
  /\ Running
  /\ pc = "close"
  /\ now >= ShutdownTimeout
  /\ proc' = "exit2"
  /\ UNCHANGED <<now, sigVars, mainVars, srvVars, cbVars>>

WatchdogTimeout ==
  /\ Running
  /\ Stopping
  /\ now >= ShutdownTimeout
  /\ proc' = "exit2"
  /\ UNCHANGED <<now, sigVars, mainVars, srvVars, cbVars>>

-----------------------------------------------------------------------------
(* Phase 1: refuse new requests *)

RejectReq(s) ==
  /\ Running
  /\ pc = "reject"
  /\ ~reject[s]
  /\ reject' = [reject EXCEPT ![s] = TRUE]
  /\ wg' = wg - 1
  /\ UNCHANGED <<proc, now, sigVars, pc, since, srv, seen, active, stopper, cbVars>>

\* Mutant of WaitRejected: wg.Add counts one server too few.
WaitRejectedMiscount ==
  /\ Running
  /\ pc = "reject"
  /\ wg = 0
  /\ pc' = "stopWait"
  /\ wg' = wg + Cardinality(Servers) - 1
  /\ since' = now
  /\ stopper' = [s \in Servers |-> "sleep"]
  /\ UNCHANGED <<proc, now, sigVars, srv, reject, seen, active, cbVars>>

\* wg.Wait returns; main starts one stopping goroutine per server.  Each
\* creates its context before anything else, so the deadlines count from here.
WaitRejected ==
  /\ Running
  /\ pc = "reject"
  /\ wg = 0
  /\ pc' = "stopWait"
  /\ wg' = wg + Cardinality(Servers)
  /\ since' = now
  /\ stopper' = [s \in Servers |-> "sleep"]
  /\ UNCHANGED <<proc, now, sigVars, srv, reject, seen, active, cbVars>>

-----------------------------------------------------------------------------
(* Phase 2: stop the servers *)

SleepOver(s) == stopper[s] = "sleep" /\ now >= since + StopSleep

\* Shutdown first closes the listener: nothing is accepted from here on.
StopWake(s) ==
  /\ Running
  /\ SleepOver(s)
  /\ stopper' = [stopper EXCEPT ![s] = "shutdown"]
  /\ srv' = [srv EXCEPT ![s] = "closed"]
  /\ UNCHANGED <<proc, now, sigVars, mainVars, reject, seen, active, cbVars>>

\* Mutant of ShutdownOver: http.Server.Close instead of Shutdown.
CloseDoesNotWait(s) == stopper[s] = "shutdown"

\* Shutdown waits for the requests in flight, but no longer than its context.
ShutdownOver(s) ==
  /\ stopper[s] = "shutdown"
  /\ active[s] = 0 \/ now >= since + CbTimeout

StopReturn(s) ==
  /\ Running
  /\ ShutdownOver(s)
  /\ stopper' = [stopper EXCEPT ![s] = "done"]
  /\ wg' = wg - 1
  /\ UNCHANGED <<proc, now, sigVars, pc, since, srv, reject, seen, active, cbVars>>

WaitStopped ==
  /\ Running
  /\ pc = "stopWait"
  /\ wg = 0
  /\ pc' = "spawn"
  /\ wg' = wg + NumCallbacks
  /\ since' = now
  /\ UNCHANGED <<proc, now, sigVars, srvVars, cbVars>>

-----------------------------------------------------------------------------
(* Phase 3: the callbacks.  Every goroutine closes over the one loop        *)
(* variable cbs, and reads it when it runs, not when it is started.         *)

SpawnCallback ==
  /\ Running
  /\ pc = "spawn"
  /\ cbVar < NumCallbacks
  /\ cbVar' = cbVar + 1
  /\ cb' = [cb EXCEPT ![cbVar + 1] = "ready"]
  /\ UNCHANGED <<proc, now, sigVars, mainVars, srvVars, ran, obedient>>

EndSpawn ==
  /\ Running
  /\ pc = "spawn"
  /\ cbVar = NumCallbacks
  /\ pc' = "cbWait"
  /\ UNCHANGED <<proc, now, sigVars, since, wg, srvVars, cbVars>>

StartCallback(i) ==
  /\ Running
  /\ cb[i] = "ready"
  /\ cb' = [cb EXCEPT ![i] = "running"]
  /\ ran' = [ran EXCEPT ![i] = cbVar]
  /\ UNCHANGED <<proc, now, sigVars, mainVars, srvVars, cbVar, obedient>>

\* A callback returns whenever it likes.  The obedient ones return at the
\* latest when their context expires (see Urgent).
FinishCallback(i) ==
  /\ Running
  /\ cb[i] = "running"
  /\ cb' = [cb EXCEPT ![i] = "done"]
  /\ wg' = wg - 1
  /\ UNCHANGED <<proc, now, sigVars, pc, since, srvVars, cbVar, ran, obedient>>

WaitCallbacks ==
  /\ Running
  /\ pc = "cbWait"
  /\ wg = 0
  /\ pc' = "close"
  /\ since' = now
  /\ UNCHANGED <<proc, now, sigVars, wg, srvVars, cbVars>>

-----------------------------------------------------------------------------
(* Phase 4: App.close, after which main returns and the process exits *)

CloseOver == pc = "close" /\ now >= since + CloseSleep

Close ==
  /\ Running
  /\ CloseOver
  /\ pc' = "returned"
  /\ proc' = "exit0"
  /\ UNCHANGED <<now, sigVars, since, wg, srvVars, cbVars>>

-----------------------------------------------------------------------------
(* Time *)

\* Mutant of Expired: the callbacks get the timeout of the whole shutdown.
ExpiredWithShutdown(i) ==
  /\ cb[i] = "running"
  /\ ran[i] \in obedient
  /\ now >= since + ShutdownTimeout

Expired(i) ==
  /\ cb[i] = "running"
  /\ ran[i] \in obedient
  /\ now >= since + CbTimeout

\* Something that takes no time is due.
Urgent ==
  \/ exitCh = 1
  \/ now >= ShutdownTimeout
  \/ pc \in {"reject", "spawn"}
  \/ pc \in {"stopWait", "cbWait"} /\ wg = 0
  \/ CloseOver
  \/ \E s \in Servers : \/ reject[s] /\ ~seen[s]
                        \/ SleepOver(s)
                        \/ ShutdownOver(s)
  \/ \E i \in Callbacks : cb[i] = "ready" \/ Expired(i)

Tick ==
  /\ Running
  /\ Stopping
  /\ ~Urgent
  /\ now' = now + 1
  /\ UNCHANGED <<proc, sigVars, mainVars, srvVars, cbVars>>

Exited == ~Running /\ UNCHANGED vars

Main ==
  \/ TakeSignal \/ WaitRejected \/ WaitStopped
  \/ SpawnCallback \/ EndSpawn \/ WaitCallbacks \/ Close
  \/ \E s \in Servers : RejectReq(s)

Goroutines ==
  \/ WatchdogSignal \/ WatchdogTimeout
  \/ \E s \in Servers : StartServer(s) \/ FlushReject(s) \/ StopWake(s) \/ StopReturn(s)
  \/ \E i \in Callbacks : StartCallback(i)

Environment ==
  \/ Signal
  \/ \E s \in Servers : Arrive(s) \/ Serve(s)
  \/ \E i \in Callbacks : FinishCallback(i)

Next == Main \/ Goroutines \/ Tick \/ Environment \/ Exited

\* The Go scheduler and the clock never stop, and an obedient callback returns
\* when its context expires.  Clients, operators and the other callbacks need
\* never do anything.
Fairness ==
  WF_vars(Main \/ Goroutines \/ Tick \/ \E i \in Callbacks : Expired(i) /\ FinishCallback(i))

Spec == Init /\ [][Next]_vars /\ Fairness

-----------------------------------------------------------------------------
(* Properties *)

TypeOK ==
  /\ proc \in {"running", "exit0", "exit1", "exit2"}
  /\ exitCh \in 0..1
  /\ late \in BOOLEAN
  /\ pc \in {"await", "reject", "stopWait", "spawn", "cbWait", "close", "returned"}
  /\ now \in Nat
  /\ since \in Nat
  /\ wg \in Int
  /\ srv \in [Servers -> {"starting", "listening", "failed", "closed"}]
  /\ reject \in [Servers -> BOOLEAN]
  /\ seen \in [Servers -> BOOLEAN]
  /\ active \in [Servers -> 0..MaxActive]
  /\ stopper \in [Servers -> {"none", "sleep", "shutdown", "done"}]
  /\ cbVar \in 0..NumCallbacks
  /\ cb \in [Callbacks -> {"unspawned", "ready", "running", "done"}]
  /\ ran \in [Callbacks -> 0..NumCallbacks]
  /\ obedient \in SUBSET Callbacks

AllStopped == \A s \in Servers : stopper[s] = "done" /\ srv[s] = "closed"
AllReturned == \A i \in Callbacks : cb[i] = "done"

\* The three waits on one WaitGroup are barriers (lines 117, 133, 148): no
\* server is being stopped before every server refuses requests, no callback
\* goroutine exists before every server is stopped, and resources are released,
\* and the process exits normally, only after every callback has returned.
PhaseBarriers ==
  /\ (\E s \in Servers : stopper[s] # "none") => \A s \in Servers : reject[s]
  /\ (\E i \in Callbacks : cb[i] # "unspawned") => AllStopped
  /\ pc = "close" \/ proc = "exit0" => AllStopped /\ AllReturned

\* Server.stop gives up on requests in flight only when its context, created
\* before the one-second sleep, has expired (lines 127-129, 217-218).
CutOffOnlyAtDeadline ==
  \A s \in Servers : stopper[s] = "done" /\ active[s] > 0 => now >= CbTimeout

\* When every callback honours its context, the three timed phases fit in the
\* whole timeout and the watchdog never forces the exit (line 94), whatever the
\* requests in flight do.
GracefulInTime == obedient = Callbacks => proc # "exit2"

\* A signal sent after the first was taken is never lost, although it may come
\* before the watchdog's select runs (line 80's buffer), and nothing else makes
\* the process exit with code 1 (lines 91-92).
SecondSignalHeeded ==
  /\ late /\ Running => exitCh = 1
  /\ proc = "exit1" => late

\* Once a server has been told to refuse requests, it takes new ones at most in
\* the short time the comment of line 180 allows: never in a later second, and
\* never once its stopper has closed the listener.
AdmissionStops ==
  [][\A s \in Servers : active'[s] > active[s] =>
       /\ now = 0
       /\ stopper[s] \in {"none", "sleep"}]_vars

\* A process that has been sent a signal ends, even when callbacks ignore their
\* contexts and requests never finish.
Terminates == exitCh = 1 ~> ~Running

=============================================================================
