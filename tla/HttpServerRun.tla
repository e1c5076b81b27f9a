--------------------------- MODULE HttpServerRun ---------------------------
(***************************************************************************)
(* Opening, running and stopping an HTTP server.                           *)
(*                                                                         *)
(* http_server_t opens and closes the acceptor on a strand of an           *)
(* io_context; ioctx_on_thread_pool_t runs that io_context on a pool of    *)
(* threads that the main thread creates one by one; the run functions, the *)
(* class on_pool_runner_t and run_async put the two together.  The ways of *)
(* running a server:                                                       *)
(*   "this_thread"  run(on_this_thread()): main itself runs the io_context *)
(*   "pool"         run(on_thread_pool()), until SIGINT                    *)
(*   "existing"     run of an existing server without signal handling,     *)
(*                  until initiate_shutdown                                *)
(*   "async"        run_async: main gets a handle to stop, wait and drop   *)
(***************************************************************************)
EXTENDS Naturals, Sequences

CONSTANTS
    PoolSize,   \* threads of the pool
    Ways,       \* the ways of running the server
    Faults      \* what can fail: "open" the acceptor, "close" it, create a "thread"

ASSUME PoolAssumption ==
    /\ PoolSize \in Nat \ {0}
    /\ Ways \subseteq {"this_thread", "pool", "existing", "async"}
    /\ Faults \subseteq {"open", "close", "thread"}

VARIABLES
    way,
    main,       \* where the main thread is
    thread,     \* for every thread: "none", "idle" (in io_context::run), "ended", or
                \*   the handler it runs; thread 0 is main
    at,         \* for every thread: the step of its handler
    ready,      \* handlers waiting in the io_context, in order
    stopped,    \* io_context::stop was called
    started,    \* ioctx_on_thread_pool_t::m_status
    running,    \* m_running_state of the server
    listening,  \* the acceptor is open
    cleanup,    \* m_cleanup_functor is still there
    caught,     \* exception_caught
    promise,    \* of running_server_instance_t::start: "unset", "ok", "error"
    signal,     \* SIGINT: "off", "armed", "raised"
    asked,      \* history: the user asked for the end
    errors,     \* history: what has failed
    cleaned,    \* history: calls of the cleanup functor
    result      \* "none", "returned", "threw"

serverVars == <<running, listening, cleanup, cleaned>>
poolVars == <<thread, at, ready, stopped, started>>
runVars == <<way, caught, promise, signal, asked, errors, result>>
vars == <<main, serverVars, poolVars, runVars>>

Pool == 1 .. PoolSize
Threads == 0 .. PoolSize
OnPool == way # "this_thread"

OnStrand == {"open", "close"}
Executing(t) == thread[t] \notin {"none", "idle", "ended"}

Init ==
    /\ way \in Ways /\ main = "open_async"
    /\ thread = [t \in Threads |-> "none"] /\ at = [t \in Threads |-> "enter"] /\ ready = <<>>
    /\ stopped = FALSE /\ started = FALSE
    /\ running = FALSE /\ listening = FALSE /\ cleanup = TRUE /\ cleaned = 0
    /\ caught = FALSE /\ promise = "unset" /\ asked = FALSE /\ errors = {}
    /\ signal = IF way \in {"this_thread", "pool"} THEN "armed" ELSE "off"
    /\ result = "none"

-----------------------------------------------------------------------------
(* The main thread: create the pool, wait for it, report.                  *)

\* open_async posts open_sync with the callbacks to the strand.
OpenAsync ==
    /\ main = "open_async"
    /\ ready' = Append(ready, "open")
    /\ main' = IF OnPool THEN "start" ELSE "wait"
    /\ thread' = IF OnPool THEN thread ELSE [thread EXCEPT ![0] = "idle"]
    /\ UNCHANGED <<at, stopped, started, serverVars, runVars>>

Created == {t \in Pool : thread[t] # "none"}

\* start: one more thread, or the failure to create it, which stops the ones
\* that run already.
StartThread ==
    /\ main = "start" /\ Created # Pool
    /\ \/ /\ \E t \in Pool \ Created :
                /\ \A u \in Pool : u < t => u \in Created
                /\ thread' = [thread EXCEPT ![t] = "idle"]
          /\ UNCHANGED <<main, stopped, errors>>
       \/ /\ "thread" \in Faults
          /\ errors' = errors \cup {"thread"}
          /\ stopped' = TRUE /\ main' = "join"
          /\ UNCHANGED thread
    /\ UNCHANGED <<at, ready, started, serverVars, way, caught, promise, signal, asked, result>>

\* "When all thread started successfully status can be changed."
StartDone ==
    /\ main = "start" /\ Created = Pool
    /\ started' = TRUE
    /\ main' = IF way = "async" THEN "get" ELSE "wait"
    /\ UNCHANGED <<thread, at, ready, stopped, serverVars, runVars>>

\* Mutant: wait does not join the threads.
JoinedAtOnce == TRUE

Joined == \A t \in Threads : thread[t] \in {"none", "ended"}

\* The catch block of start, or the destructor of the pool: the threads are
\* joined, the exception goes on.
Join ==
    /\ main = "join" /\ Joined
    /\ started' = FALSE
    /\ main' = "rethrow"
    /\ UNCHANGED <<thread, at, ready, stopped, serverVars, runVars>>

\* wait: all threads are joined, then the status changes; on this thread, run
\* has returned.
Wait ==
    /\ main = "wait" /\ Joined
    /\ started' = FALSE
    /\ main' = IF way = "async" THEN "user" ELSE "rethrow"
    /\ UNCHANGED <<thread, at, ready, stopped, serverVars, runVars>>

\* The end of run: an error that was kept is thrown.
Rethrow ==
    /\ main = "rethrow"
    /\ result' = IF caught \/ "thread" \in errors \/ promise = "error"
                 THEN "threw" ELSE "returned"
    /\ main' = "destroy_server"
    /\ UNCHANGED <<poolVars, serverVars, way, caught, promise, signal, asked, errors>>

\* f.get() of running_server_instance_t::start.
GetResult ==
    /\ main = "get" /\ promise # "unset"
    /\ main' = IF promise = "ok" THEN "user" ELSE "destroy_pool"
    /\ UNCHANGED <<poolVars, serverVars, runVars>>

\* stop() of the handle; the documentation allows it once.
UserStops ==
    /\ main = "user" /\ ~asked
    /\ asked' = TRUE
    /\ ready' = Append(ready, "close")
    /\ UNCHANGED <<main, thread, at, stopped, started, serverVars, way, caught, promise,
                   signal, errors, result>>

UserWaits ==
    /\ main = "user" /\ asked /\ started
    /\ main' = "wait"
    /\ UNCHANGED <<poolVars, serverVars, runVars>>

UserDropsHandle ==
    /\ main = "user"
    /\ main' = "destroy_pool"
    /\ UNCHANGED <<poolVars, serverVars, runVars>>

\* The destructor of the pool: stop, then wait.
DestroyPool ==
    /\ main = "destroy_pool"
    /\ stopped' = (stopped \/ started)
    /\ main' = "join"
    /\ UNCHANGED <<thread, at, ready, started, serverVars, runVars>>

\* The destructor of the server closes it on the main thread.
DestroyServer ==
    /\ main = "destroy_server"
    /\ main' = "end"
    /\ cleaned' = IF running /\ cleanup THEN cleaned + 1 ELSE cleaned
    /\ cleanup' = (cleanup /\ ~running)
    /\ listening' = (listening /\ ~running)
    /\ running' = FALSE
    /\ UNCHANGED <<poolVars, runVars>>

-----------------------------------------------------------------------------
(* Requests to stop from outside.                                          *)

\* SIGINT: the signal handler is queued on the io_context.
BreakSignal ==
    /\ signal = "armed" /\ main \notin {"open_async", "rethrow", "destroy_server", "end"}
    /\ signal' = "raised"
    /\ asked' = TRUE
    /\ ready' = Append(ready, "signal")
    /\ UNCHANGED <<main, thread, at, stopped, started, serverVars, way, caught, promise,
                   errors, result>>

\* initiate_shutdown, from another thread.
InitiateShutdown ==
    /\ way = "existing" /\ ~asked /\ main \in {"start", "wait"}
    /\ asked' = TRUE
    /\ ready' = Append(ready, "shutdown")
    /\ UNCHANGED <<main, thread, at, stopped, started, serverVars, way, caught, promise,
                   signal, errors, result>>

-----------------------------------------------------------------------------
(* The threads that run the io_context.                                    *)

StrandFree == \A t \in Threads : thread[t] \notin OnStrand

Runnable == {i \in 1 .. Len(ready) : ready[i] \in OnStrand => StrandFree}

\* io_context::run takes the first handler that can run.
Take(t) ==
    /\ thread[t] = "idle" /\ ~stopped
    /\ \E i \in Runnable :
       /\ \A j \in Runnable : i <= j
       /\ thread' = [thread EXCEPT ![t] = ready[i]]
       /\ ready' = SubSeq(ready, 1, i - 1) \o SubSeq(ready, i + 1, Len(ready))
    /\ at' = [at EXCEPT ![t] = "enter"]
    /\ UNCHANGED <<main, stopped, started, serverVars, runVars>>

\* io_context::run returns: it was stopped or, without the pool's work guards,
\* it has nothing left to wait for.
RunReturns(t) ==
    /\ thread[t] = "idle"
    /\ stopped \/ (t = 0 /\ ready = <<>> /\ ~listening /\ signal # "armed")
    /\ thread' = [thread EXCEPT ![t] = "ended"]
    /\ UNCHANGED <<main, at, ready, stopped, started, serverVars, runVars>>

In(t, handler, step) == thread[t] = handler /\ at[t] = step
Goes(t, step) == at' = [at EXCEPT ![t] = step] /\ UNCHANGED thread
Returns(t) == thread' = [thread EXCEPT ![t] = "idle"] /\ UNCHANGED at

\* Mutant: stop leaves the io_context alone.
PoolStopNothing == stopped' = stopped

\* stop of the pool, which does nothing unless start has finished; on this
\* thread the io_context is stopped directly.
PoolStop == stopped' = (stopped \/ started \/ ~OnPool)

\* open_sync as far as the acceptor.
OpenAcceptor(t) ==
    /\ In(t, "open", "enter")
    /\ \/ /\ listening' = TRUE
          /\ Goes(t, "opened")
          /\ UNCHANGED errors
       \/ /\ "open" \in Faults
          /\ errors' = errors \cup {"open"}
          /\ Goes(t, "failed")
          /\ UNCHANGED listening
    /\ UNCHANGED <<main, running, cleanup, cleaned, ready, stopped, started, way, caught,
                   promise, signal, asked, result>>

\* The end of open_sync and the callback for success.
Opened(t) ==
    /\ In(t, "open", "opened")
    /\ running' = TRUE
    /\ promise' = IF way = "async" THEN "ok" ELSE promise
    /\ Returns(t)
    /\ UNCHANGED <<main, listening, cleanup, cleaned, ready, stopped, started, way,
                   caught, signal, asked, errors, result>>

\* The callback for a failure: stop, then keep the exception.
OpenFailed(t) ==
    /\ In(t, "open", "failed")
    /\ PoolStop
    /\ Goes(t, "keep")
    /\ UNCHANGED <<main, ready, started, serverVars, runVars>>

KeepOpenError(t) ==
    /\ In(t, "open", "keep")
    /\ IF way = "async" THEN promise' = "error" /\ UNCHANGED caught
                        ELSE caught' = TRUE /\ UNCHANGED promise
    /\ Returns(t)
    /\ UNCHANGED <<main, ready, stopped, started, serverVars, way, signal, asked, errors,
                   result>>

\* The handler of SIGINT: close_async.
OnSignal(t) ==
    /\ In(t, "signal", "enter")
    /\ ready' = Append(ready, "close")
    /\ Returns(t)
    /\ UNCHANGED <<main, stopped, started, serverVars, runVars>>

\* close_sync: an error leaves the rest undone, and comes from asking the acceptor for
\* its endpoint, before it is closed, or from closing it.  (An error in the handler of initiate_shutdown would leave
\* io_context::run and terminate the program.)
CloseSync(t) ==
    /\ thread[t] \in {"close", "shutdown"} /\ at[t] = "enter"
    /\ IF ~running
       THEN Goes(t, "closed") /\ UNCHANGED <<serverVars, errors>>
       ELSE \/ /\ cleaned' = IF cleanup THEN cleaned + 1 ELSE cleaned
               /\ listening' = FALSE /\ cleanup' = FALSE /\ running' = FALSE
               /\ Goes(t, "closed")
               /\ UNCHANGED errors
            \/ /\ "close" \in Faults /\ thread[t] = "close"
               /\ listening' \in {FALSE, listening}
               /\ errors' = errors \cup {"close"}
               /\ Goes(t, "failed")
               /\ UNCHANGED <<cleaned, cleanup, running>>
    /\ UNCHANGED <<main, ready, stopped, started, way, caught, promise, signal, asked,
                   result>>

Closed(t) ==
    /\ In(t, "close", "closed")
    /\ PoolStop
    /\ Returns(t)
    /\ UNCHANGED <<main, ready, started, serverVars, runVars>>

\* The callback of run keeps the exception, that of on_pool_runner_t drops it.
CloseFailed(t) ==
    /\ In(t, "close", "failed")
    /\ caught' = (caught \/ way # "async")
    /\ Returns(t)
    /\ UNCHANGED <<main, ready, stopped, started, serverVars, way, promise, signal, asked,
                   errors, result>>

\* The end of initiate_shutdown's handler: io_context::stop.
ShutDown(t) ==
    /\ In(t, "shutdown", "closed")
    /\ stopped' = TRUE
    /\ Returns(t)
    /\ UNCHANGED <<main, ready, started, serverVars, runVars>>

-----------------------------------------------------------------------------
Runner ==
    \/ OpenAsync \/ StartThread \/ StartDone \/ Join \/ Wait \/ Rethrow \/ GetResult
    \/ DestroyPool \/ DestroyServer

User == UserStops \/ UserWaits \/ UserDropsHandle \/ BreakSignal \/ InitiateShutdown

Handlers(t) ==
    \/ Take(t) \/ RunReturns(t)
    \/ OpenAcceptor(t) \/ Opened(t) \/ OpenFailed(t) \/ KeepOpenError(t)
    \/ OnSignal(t) \/ CloseSync(t) \/ Closed(t) \/ CloseFailed(t) \/ ShutDown(t)

Next == Runner \/ User \/ \E t \in Threads : Handlers(t)

Spec == Init /\ [][Next]_vars

\* The operating system schedules every thread.
FairSpec == Spec /\ WF_vars(Runner) /\ \A t \in Threads : WF_vars(Handlers(t))

-----------------------------------------------------------------------------
(* Properties.                                                             *)

Steps == {"enter", "opened", "failed", "keep", "closed"}
HandlerKinds == {"open", "close", "signal", "shutdown"}

\* Every thread is at a step of a handler of its io_context, and the rest of the
\* state is in its ranges.
TypeOK ==
    /\ way \in Ways
    /\ main \in {"open_async", "start", "get", "user", "wait", "destroy_pool", "join",
                 "rethrow", "destroy_server", "end"}
    /\ thread \in [Threads -> {"none", "idle", "ended"} \cup HandlerKinds]
    /\ at \in [Threads -> Steps]
    /\ ready \in Seq(HandlerKinds)
    /\ running \in BOOLEAN /\ listening \in BOOLEAN /\ cleanup \in BOOLEAN
    /\ caught \in BOOLEAN /\ asked \in BOOLEAN
    /\ cleaned \in Nat
    /\ errors \subseteq {"open", "close", "thread"}
    /\ promise \in {"unset", "ok", "error"}

\* A run that reports success has seen no error: the exception that a callback
\* keeps after it has stopped the pool is not overlooked, since the threads are
\* joined before it is read.  (on_pool_runner_t drops errors of closing.)  And the
\* handle that run_async returns is that of a working server, until it is asked to stop.
SuccessMeansNoError ==
    /\ result = "returned" => errors \subseteq (IF way = "async" THEN {"close"} ELSE {})
    /\ main = "user" /\ ~asked => running /\ listening

\* No handler runs once the objects it refers to (the exception pointer, the
\* signal set, the pool, the promise, the server) are being destroyed; and in the
\* end the acceptor is closed and the cleanup functor was called exactly if the
\* server was opened.
HandlersOutlived ==
    /\ main \in {"rethrow", "destroy_server", "end"}
           => \A t \in Threads : ~Executing(t)
    /\ \A t \in Threads :
          thread[t] = "open" /\ way = "async" => main \in {"start", "get", "join", "destroy_pool"}
    /\ cleaned <= 1
    /\ main = "end" => ~listening /\ (cleaned = 1 <=> ~cleanup)

\* Once the io_context is stopped, the handle is dropped, a server on this thread is
\* asked to end, or a request to end waits for a pool that has started, every thread ends
\* and main goes on.  (A request that the pool takes up before start has finished can
\* be lost, and a failure to close the acceptor keeps the pool running.)
EndsOnceStopped ==
    (\/ stopped \/ main = "destroy_pool" \/ (way = "this_thread" /\ asked)
     \/ started /\ \E i \in 1 .. Len(ready) : ready[i] \in {"signal", "close", "shutdown"})
        ~> (Joined /\ main \in {"user", "end"}) \/ "close" \in errors

\* run, in its own words: "If an error was detected it should be propagated."
ErrorsArePropagated == errors # {} ~> result = "threw"
=============================================================================
