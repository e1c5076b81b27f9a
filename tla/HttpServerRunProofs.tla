------------------------- MODULE HttpServerRunProofs -------------------------
(***************************************************************************)
(* Proofs about HttpServerRun.tla for pools of any size.                   *)
(***************************************************************************)
EXTENDS HttpServerRun, Integers, SequenceTheorems, TLAPS

\* Where the threads are joined already.
Over == {"rethrow", "destroy_server", "end"}

\* There is one handler that opens the server: it waits, or runs on one thread, and
\* nobody is told of its outcome before its end.
OneOpen ==
    /\ \A i, j \in 1 .. Len(ready) : ready[i] = "open" /\ ready[j] = "open" => i = j
    /\ \A i \in 1 .. Len(ready) : ready[i] = "open" =>
          /\ \A t \in Threads : thread[t] # "open"
          /\ promise = "unset"
    /\ \A t, u \in Threads : thread[t] = "open" /\ thread[u] = "open" => t = u
    /\ \A t \in Threads : thread[t] = "open" => promise = "unset"
    /\ main = "open_async" =>
          /\ ready = <<>> /\ errors = {} /\ promise = "unset"
          /\ \A t \in Threads : thread[t] = "none"

\* An error is about to be kept, or is kept.
ErrorsKept ==
    /\ "open" \in errors =>
          \/ \E t \in Threads : thread[t] = "open" /\ at[t] \in {"failed", "keep"}
          \/ caught
          \/ promise = "error"
    /\ "close" \in errors /\ way # "async" =>
          \/ \E t \in Threads : In(t, "close", "failed")
          \/ caught

\* Nothing runs after the threads are joined, and the result is what was kept then.
JoinedWhenOver ==
    /\ main \in Over => \A t \in Threads : thread[t] \in {"none", "ended"}
    /\ result # "none" => main \in {"destroy_server", "end"}
    /\ result = "returned" => ~caught /\ "thread" \notin errors /\ promise # "error"

\* What main knows of a server of run_async, and what nobody does to it unasked.
HandleKnown ==
    /\ way = "async" => signal = "off"
    /\ main \in {"get", "user", "destroy_pool"} => way = "async"
    /\ way = "async" /\ main \in {"user", "wait"} => promise = "ok"
    /\ way = "async" /\ main = "wait" => asked
    /\ way = "async" /\ ~asked =>
          /\ \A i \in 1 .. Len(ready) : ready[i] = "open"
          /\ \A t \in Threads : thread[t] \notin {"close", "signal", "shutdown"}
          /\ \A t \in Threads : In(t, "open", "opened") => listening
          /\ promise = "ok" /\ main \notin {"destroy_server", "end"} => running /\ listening

\* The server is open as far as it is running, or about to be; it is cleaned up once.
OpenedAndCleaned ==
    /\ listening /\ ~running => \E t \in Threads : In(t, "open", "opened")
    /\ main = "end" => ~listening
    /\ cleaned = IF cleanup THEN 0 ELSE 1

\* The inductive invariant.
IInv == TypeOK /\ OneOpen /\ ErrorsKept /\ JoinedWhenOver /\ HandleKnown /\ OpenedAndCleaned

-----------------------------------------------------------------------------
(* The queue of the io_context.                                            *)

\* What is in the queue when the part before and the part after place i are joined.
LEMMA Rejoined ==
  ASSUME NEW S, NEW s \in Seq(S), NEW i \in 1 .. Len(s), NEW front \in Seq(S), NEW back \in Seq(S),
         Len(front) = i - 1, \A k \in 1 .. i - 1 : front[k] = s[k],
         Len(back) = Len(s) - i, \A k \in 1 .. Len(s) - i : back[k] = s[i + k]
  PROVE  /\ front \o back \in Seq(S)
         /\ Len(front \o back) = Len(s) - 1
         /\ \A k \in 1 .. Len(s) - 1 : (front \o back)[k] = IF k < i THEN s[k] ELSE s[k + 1]
<1>1. Len(s) \in Nat /\ i \in Nat
  BY LenProperties
<1>2. /\ front \o back \in Seq(S)
      /\ Len(front \o back) = Len(front) + Len(back)
      /\ \A k \in 1 .. Len(front) + Len(back) :
            (front \o back)[k] = IF k <= Len(front) THEN front[k] ELSE back[k - Len(front)]
  BY ConcatProperties
<1>3. ASSUME NEW k \in 1 .. Len(s) - 1
      PROVE  (front \o back)[k] = IF k < i THEN s[k] ELSE s[k + 1]
  <2>1. (front \o back)[k] = IF k <= i - 1 THEN front[k] ELSE back[k - (i - 1)]
    BY <1>1, <1>2
  <2>2. CASE k < i
    BY <2>1, <2>2, <1>1
  <2>3. CASE ~(k < i)
    <3>1. k - (i - 1) \in 1 .. Len(s) - i /\ i + (k - (i - 1)) = k + 1
      BY <2>3, <1>1
    <3>2. back[k - (i - 1)] = s[k + 1]
      BY <3>1
    <3>3. QED
      BY <2>1, <2>3, <3>2, <1>1
  <2>4. QED
    BY <2>2, <2>3
<1>4. Len(front) + Len(back) = Len(s) - 1
  BY <1>1
<1>5. QED
  BY <1>2, <1>3, <1>4

\* What is in the queue after a handler was taken from place i.
LEMMA Removed ==
  ASSUME NEW S, NEW s \in Seq(S), NEW i \in 1 .. Len(s)
  PROVE  LET r == SubSeq(s, 1, i - 1) \o SubSeq(s, i + 1, Len(s))
         IN  /\ r \in Seq(S)
             /\ Len(r) = Len(s) - 1
             /\ \A k \in 1 .. Len(s) - 1 : r[k] = IF k < i THEN s[k] ELSE s[k + 1]
<1>1. Len(s) \in Nat /\ i \in Nat
  BY LenProperties
<1> DEFINE front == SubSeq(s, 1, i - 1)
          back == SubSeq(s, i + 1, Len(s))
<1>2. /\ front \in Seq(S) /\ Len(front) = i - 1
      /\ \A k \in 1 .. i - 1 : front[k] = s[k]
  BY <1>1
<1>3. /\ back \in Seq(S) /\ Len(back) = Len(s) - i
      /\ \A k \in 1 .. Len(s) - i : back[k] = s[i + k]
  BY <1>1
<1> HIDE DEF front, back
<1>4. /\ front \o back \in Seq(S)
      /\ Len(front \o back) = Len(s) - 1
      /\ \A k \in 1 .. Len(s) - 1 : (front \o back)[k] = IF k < i THEN s[k] ELSE s[k + 1]
  BY <1>2, <1>3, Rejoined
<1>5. QED
  BY <1>4, Zenon DEF front, back

\* What is in the queue after a handler was posted.
LEMMA Posted ==
  ASSUME NEW S, NEW s \in Seq(S), NEW h \in S
  PROVE  /\ Append(s, h) \in Seq(S)
         /\ Len(Append(s, h)) = Len(s) + 1
         /\ Len(s) \in Nat
         /\ \A k \in 1 .. Len(s) + 1 : Append(s, h)[k] = IF k = Len(s) + 1 THEN h ELSE s[k]
BY AppendProperties, LenProperties

-----------------------------------------------------------------------------
(* The invariant holds initially and is kept by every step.                *)

\* Nothing is posted, runs or has failed at the start.
LEMMA InitIInv == Init => IInv
<1> SUFFICES ASSUME Init PROVE IInv
  OBVIOUS
<1>1. TypeOK
  <2>1. thread \in [Threads -> {"none", "idle", "ended"} \cup HandlerKinds]
    BY DEF Init
  <2>2. at \in [Threads -> Steps]
    BY DEF Init, Steps
  <2>3. ready \in Seq(HandlerKinds)
    BY EmptySeq DEF Init
  <2>4. QED
    BY <2>1, <2>2, <2>3 DEF Init, TypeOK
<1>2. Len(ready) = 0
  BY DEF Init
<1>3. OneOpen
  BY <1>2 DEF Init, OneOpen
<1>4. ErrorsKept /\ JoinedWhenOver /\ OpenedAndCleaned
  BY DEF Init, ErrorsKept, JoinedWhenOver, OpenedAndCleaned, Over
<1>5. HandleKnown
  BY <1>2 DEF Init, HandleKnown, In
<1>6. QED
  BY <1>1, <1>3, <1>4, <1>5 DEF IInv

\* open_async posts the one handler that opens the server.
LEMMA OpenAsyncKeeps == ASSUME IInv, OpenAsync PROVE IInv'
<1> USE DEF IInv, OpenAsync, serverVars, poolVars, runVars, In
<1>0. /\ Len(ready') = 1 /\ ready' \in Seq(HandlerKinds)
      /\ \A k \in 1 .. Len(ready') : ready'[k] = "open"
      /\ \A t \in Threads : thread'[t] \in {"none", "idle"}
      /\ errors = {} /\ promise = "unset"
  BY DEF OneOpen, HandlerKinds, TypeOK
<1>1. TypeOK'
  BY <1>0 DEF TypeOK, Steps, HandlerKinds
<1>2. OneOpen'
  BY <1>0 DEF OneOpen, TypeOK
<1>3. ErrorsKept'
  BY <1>0 DEF ErrorsKept, TypeOK, OneOpen, JoinedWhenOver, Over
<1>4. JoinedWhenOver'
  BY <1>0 DEF JoinedWhenOver, TypeOK, Over, Joined, ErrorsKept
<1>5. HandleKnown'
  <2>1. way = "async" => OnPool
    BY DEF OnPool
  <2>2. QED
    BY <1>0, <2>1 DEF HandleKnown, TypeOK
<1>6. OpenedAndCleaned'
  BY <1>0 DEF OpenedAndCleaned, TypeOK, JoinedWhenOver, Over
<1>7. QED
  BY <1>1, <1>2, <1>3, <1>4, <1>5, <1>6

\* start creates a thread, which is idle, or fails: nothing that runs is disturbed.
LEMMA StartThreadKeeps == ASSUME IInv, StartThread PROVE IInv'
<1> USE DEF IInv, StartThread, serverVars, poolVars, runVars, In
<1>0. \A t \in Threads : thread'[t] = thread[t] \/ thread[t] = "none"
  BY DEF TypeOK, Created, Pool, Threads
<1>1. TypeOK'
  BY <1>0 DEF TypeOK, Steps, HandlerKinds
<1>2. OneOpen'
  BY <1>0 DEF OneOpen, TypeOK
<1>3. ErrorsKept'
  <2>1. ASSUME NEW t \in Threads, thread[t] # "none" PROVE thread'[t] = thread[t] /\ at'[t] = at[t]
    BY <1>0, <2>1
  <2>2. QED
    BY <2>1 DEF ErrorsKept, TypeOK
<1>4. JoinedWhenOver'
  BY <1>0 DEF JoinedWhenOver, TypeOK, Over, Joined, ErrorsKept
<1>5. HandleKnown'
  BY <1>0 DEF HandleKnown, TypeOK, OneOpen, JoinedWhenOver, Over
<1>6. OpenedAndCleaned'
  <2>1. ASSUME NEW t \in Threads, thread[t] # "none" PROVE thread'[t] = thread[t] /\ at'[t] = at[t]
    BY <1>0, <2>1
  <2>2. QED
    BY <2>1 DEF OpenedAndCleaned, TypeOK
<1>7. QED
  BY <1>1, <1>2, <1>3, <1>4, <1>5, <1>6

\* start sets m_status: the handlers do not notice.
LEMMA StartDoneKeeps == ASSUME IInv, StartDone PROVE IInv'
<1> USE DEF IInv, StartDone, serverVars, poolVars, runVars, In
<1>1. TypeOK'
  BY DEF TypeOK, Steps, HandlerKinds
<1>2. OneOpen'
  BY DEF OneOpen, TypeOK
<1>3. ErrorsKept'
  BY DEF ErrorsKept, TypeOK, OneOpen, JoinedWhenOver, Over
<1>4. JoinedWhenOver'
  BY DEF JoinedWhenOver, TypeOK, Over, Joined, ErrorsKept
<1>5. HandleKnown'
  BY DEF HandleKnown, TypeOK, OneOpen, JoinedWhenOver, Over
<1>6. OpenedAndCleaned'
  BY DEF OpenedAndCleaned, TypeOK, JoinedWhenOver, Over
<1>7. QED
  BY <1>1, <1>2, <1>3, <1>4, <1>5, <1>6

\* The catch block of start joins the threads before the exception goes on.
LEMMA JoinKeeps == ASSUME IInv, Join PROVE IInv'
<1> USE DEF IInv, Join, serverVars, poolVars, runVars, In
<1>1. TypeOK'
  BY DEF TypeOK, Steps, HandlerKinds
<1>2. OneOpen'
  BY DEF OneOpen, TypeOK
<1>3. ErrorsKept'
  BY DEF ErrorsKept, TypeOK, OneOpen, JoinedWhenOver, Over
<1>4. JoinedWhenOver'
  BY DEF JoinedWhenOver, TypeOK, Over, Joined, ErrorsKept
<1>5. HandleKnown'
  BY DEF HandleKnown, TypeOK, OneOpen, JoinedWhenOver, Over
<1>6. OpenedAndCleaned'
  BY DEF OpenedAndCleaned, TypeOK, JoinedWhenOver, Over
<1>7. QED
  BY <1>1, <1>2, <1>3, <1>4, <1>5, <1>6

\* wait joins the threads before main reads what they have kept.
LEMMA WaitKeeps == ASSUME IInv, Wait PROVE IInv'
<1> USE DEF IInv, Wait, serverVars, poolVars, runVars, In
<1>1. TypeOK'
  BY DEF TypeOK, Steps, HandlerKinds
<1>2. OneOpen'
  BY DEF OneOpen, TypeOK
<1>3. ErrorsKept'
  BY DEF ErrorsKept, TypeOK, OneOpen, JoinedWhenOver, Over
<1>4. JoinedWhenOver'
  BY DEF JoinedWhenOver, TypeOK, Over, Joined, ErrorsKept
<1>5. HandleKnown'
  BY DEF HandleKnown, TypeOK, OneOpen, JoinedWhenOver, Over
<1>6. OpenedAndCleaned'
  BY DEF OpenedAndCleaned, TypeOK, JoinedWhenOver, Over
<1>7. QED
  BY <1>1, <1>2, <1>3, <1>4, <1>5, <1>6

\* run throws what was kept; no thread can keep anything else any more.
LEMMA RethrowKeeps == ASSUME IInv, Rethrow PROVE IInv'
<1> USE DEF IInv, Rethrow, serverVars, poolVars, runVars, In
<1>1. TypeOK'
  BY DEF TypeOK, Steps, HandlerKinds
<1>2. OneOpen'
  BY DEF OneOpen, TypeOK
<1>3. ErrorsKept'
  BY DEF ErrorsKept, TypeOK, OneOpen, JoinedWhenOver, Over
<1>4. JoinedWhenOver'
  BY DEF JoinedWhenOver, TypeOK, Over, Joined, ErrorsKept
<1>5. HandleKnown'
  BY DEF HandleKnown, TypeOK, OneOpen, JoinedWhenOver, Over
<1>6. OpenedAndCleaned'
  BY DEF OpenedAndCleaned, TypeOK, JoinedWhenOver, Over
<1>7. QED
  BY <1>1, <1>2, <1>3, <1>4, <1>5, <1>6

\* The promise is "ok" only after the server was opened, so the handle is that
\* of a working server.
LEMMA GetResultKeeps == ASSUME IInv, GetResult PROVE IInv'
<1> USE DEF IInv, GetResult, serverVars, poolVars, runVars, In
<1>1. TypeOK'
  BY DEF TypeOK, Steps, HandlerKinds
<1>2. OneOpen'
  BY DEF OneOpen, TypeOK
<1>3. ErrorsKept'
  BY DEF ErrorsKept, TypeOK, OneOpen, JoinedWhenOver, Over
<1>4. JoinedWhenOver'
  BY DEF JoinedWhenOver, TypeOK, Over, Joined, ErrorsKept
<1>5. HandleKnown'
  BY DEF HandleKnown, TypeOK, OneOpen, JoinedWhenOver, Over
<1>6. OpenedAndCleaned'
  BY DEF OpenedAndCleaned, TypeOK, JoinedWhenOver, Over
<1>7. QED
  BY <1>1, <1>2, <1>3, <1>4, <1>5, <1>6

\* The destructor of the pool stops the io_context; it runs only under run_async.
LEMMA DestroyPoolKeeps == ASSUME IInv, DestroyPool PROVE IInv'
<1> USE DEF IInv, DestroyPool, serverVars, poolVars, runVars, In
<1>1. TypeOK'
  BY DEF TypeOK, Steps, HandlerKinds
<1>2. OneOpen'
  BY DEF OneOpen, TypeOK
<1>3. ErrorsKept'
  BY DEF ErrorsKept, TypeOK, OneOpen, JoinedWhenOver, Over
<1>4. JoinedWhenOver'
  BY DEF JoinedWhenOver, TypeOK, Over, Joined, ErrorsKept
<1>5. HandleKnown'
  BY DEF HandleKnown, TypeOK, OneOpen, JoinedWhenOver, Over
<1>6. OpenedAndCleaned'
  BY DEF OpenedAndCleaned, TypeOK, JoinedWhenOver, Over
<1>7. QED
  BY <1>1, <1>2, <1>3, <1>4, <1>5, <1>6

\* The destructor of the server closes what is still open, once.
LEMMA DestroyServerKeeps == ASSUME IInv, DestroyServer PROVE IInv'
<1> USE DEF IInv, DestroyServer, serverVars, poolVars, runVars, In
<1>1. TypeOK'
  <2>1. running' \in BOOLEAN /\ listening' \in BOOLEAN /\ cleanup' \in BOOLEAN
    BY DEF TypeOK
  <2>2. QED
    BY <2>1 DEF TypeOK, Steps, HandlerKinds
<1>2. OneOpen'
  BY DEF OneOpen, TypeOK
<1>3. ErrorsKept'
  BY DEF ErrorsKept, TypeOK, OneOpen, JoinedWhenOver, Over
<1>4. JoinedWhenOver'
  BY DEF JoinedWhenOver, TypeOK, Over, Joined, ErrorsKept
<1>5. HandleKnown'
  BY DEF HandleKnown, TypeOK, OneOpen, JoinedWhenOver, Over
<1>6. OpenedAndCleaned'
  <2>1. listening' => listening /\ ~running
    OBVIOUS
  <2>2. main' = "end" => ~listening'
    <3>1. ~listening \/ running
      BY DEF OpenedAndCleaned, JoinedWhenOver, Over
    <3>2. QED
      BY <2>1, <3>1
  <2>3. cleaned' = IF cleanup' THEN 0 ELSE 1
    <3>1. CASE running /\ cleanup
      <4>1. cleaned = 0 /\ cleaned' = cleaned + 1 /\ ~cleanup'
        BY <3>1 DEF OpenedAndCleaned
      <4>2. QED
        BY <4>1
    <3>2. CASE ~(running /\ cleanup)
      <4>1. cleanup' = cleanup
        BY <3>2 DEF TypeOK
      <4>2. QED
        BY <3>2, <4>1 DEF OpenedAndCleaned
    <3>3. QED
      BY <3>1, <3>2
  <2>4. QED
    BY <2>2, <2>3 DEF OpenedAndCleaned
<1>7. QED
  BY <1>1, <1>2, <1>3, <1>4, <1>5, <1>6

\* stop() posts a handler that closes; the handle then promises nothing any more.
LEMMA UserStopsKeeps == ASSUME IInv, UserStops PROVE IInv'
<1> USE DEF IInv, UserStops, serverVars, poolVars, runVars, In
<1>1. TypeOK'
  BY DEF TypeOK, Steps, HandlerKinds
<1>2. OneOpen'
  BY DEF OneOpen, TypeOK
<1>3. ErrorsKept'
  BY DEF ErrorsKept, TypeOK, OneOpen, JoinedWhenOver, Over
<1>4. JoinedWhenOver'
  BY DEF JoinedWhenOver, TypeOK, Over, Joined, ErrorsKept
<1>5. HandleKnown'
  BY DEF HandleKnown, TypeOK, OneOpen, JoinedWhenOver, Over
<1>6. OpenedAndCleaned'
  BY DEF OpenedAndCleaned, TypeOK, JoinedWhenOver, Over
<1>7. QED
  BY <1>1, <1>2, <1>3, <1>4, <1>5, <1>6

\* wait() of the handle comes after stop().
LEMMA UserWaitsKeeps == ASSUME IInv, UserWaits PROVE IInv'
<1> USE DEF IInv, UserWaits, serverVars, poolVars, runVars, In
<1>1. TypeOK'
  BY DEF TypeOK, Steps, HandlerKinds
<1>2. OneOpen'
  BY DEF OneOpen, TypeOK
<1>3. ErrorsKept'
  BY DEF ErrorsKept, TypeOK, OneOpen, JoinedWhenOver, Over
<1>4. JoinedWhenOver'
  BY DEF JoinedWhenOver, TypeOK, Over, Joined, ErrorsKept
<1>5. HandleKnown'
  BY DEF HandleKnown, TypeOK, OneOpen, JoinedWhenOver, Over
<1>6. OpenedAndCleaned'
  BY DEF OpenedAndCleaned, TypeOK, JoinedWhenOver, Over
<1>7. QED
  BY <1>1, <1>2, <1>3, <1>4, <1>5, <1>6

\* The destructor of the handle goes on to that of the pool.
LEMMA UserDropsHandleKeeps == ASSUME IInv, UserDropsHandle PROVE IInv'
<1> USE DEF IInv, UserDropsHandle, serverVars, poolVars, runVars, In
<1>1. TypeOK'
  BY DEF TypeOK, Steps, HandlerKinds
<1>2. OneOpen'
  BY DEF OneOpen, TypeOK
<1>3. ErrorsKept'
  BY DEF ErrorsKept, TypeOK, OneOpen, JoinedWhenOver, Over
<1>4. JoinedWhenOver'
  BY DEF JoinedWhenOver, TypeOK, Over, Joined, ErrorsKept
<1>5. HandleKnown'
  BY DEF HandleKnown, TypeOK, OneOpen, JoinedWhenOver, Over
<1>6. OpenedAndCleaned'
  BY DEF OpenedAndCleaned, TypeOK, JoinedWhenOver, Over
<1>7. QED
  BY <1>1, <1>2, <1>3, <1>4, <1>5, <1>6

\* The signal set posts its handler; run_async has none.
LEMMA BreakSignalKeeps == ASSUME IInv, BreakSignal PROVE IInv'
<1> USE DEF IInv, BreakSignal, serverVars, poolVars, runVars, In
<1>1. TypeOK'
  BY DEF TypeOK, Steps, HandlerKinds
<1>2. OneOpen'
  BY DEF OneOpen, TypeOK
<1>3. ErrorsKept'
  BY DEF ErrorsKept, TypeOK, OneOpen, JoinedWhenOver, Over
<1>4. JoinedWhenOver'
  BY DEF JoinedWhenOver, TypeOK, Over, Joined, ErrorsKept
<1>5. HandleKnown'
  BY DEF HandleKnown, TypeOK, OneOpen, JoinedWhenOver, Over
<1>6. OpenedAndCleaned'
  BY DEF OpenedAndCleaned, TypeOK, JoinedWhenOver, Over
<1>7. QED
  BY <1>1, <1>2, <1>3, <1>4, <1>5, <1>6

\* initiate_shutdown posts its handler; it is not for servers of run_async.
LEMMA InitiateShutdownKeeps == ASSUME IInv, InitiateShutdown PROVE IInv'
<1> USE DEF IInv, InitiateShutdown, serverVars, poolVars, runVars, In
<1>1. TypeOK'
  BY DEF TypeOK, Steps, HandlerKinds
<1>2. OneOpen'
  BY DEF OneOpen, TypeOK
<1>3. ErrorsKept'
  BY DEF ErrorsKept, TypeOK, OneOpen, JoinedWhenOver, Over
<1>4. JoinedWhenOver'
  BY DEF JoinedWhenOver, TypeOK, Over, Joined, ErrorsKept
<1>5. HandleKnown'
  BY DEF HandleKnown, TypeOK, OneOpen, JoinedWhenOver, Over
<1>6. OpenedAndCleaned'
  BY DEF OpenedAndCleaned, TypeOK, JoinedWhenOver, Over
<1>7. QED
  BY <1>1, <1>2, <1>3, <1>4, <1>5, <1>6

\* A thread takes a handler from the queue: the one that opens the server leaves it.
LEMMA TakeKeeps == ASSUME IInv, NEW t \in Threads, Take(t) PROVE IInv'
<1> USE DEF IInv, Take, serverVars, poolVars, runVars, In
<1>a. PICK i \in 1 .. Len(ready) :
         /\ thread' = [thread EXCEPT ![t] = ready[i]]
         /\ ready' = SubSeq(ready, 1, i - 1) \o SubSeq(ready, i + 1, Len(ready))
  BY DEF Runnable
<1>b. ready \in Seq(HandlerKinds) /\ Len(ready) \in Nat /\ i \in Nat /\ ready[i] \in HandlerKinds
  BY LenProperties DEF TypeOK
<1>0. /\ ready' \in Seq(HandlerKinds)
      /\ Len(ready') = Len(ready) - 1
      /\ \A k \in 1 .. Len(ready) - 1 : ready'[k] = IF k < i THEN ready[k] ELSE ready[k + 1]
  BY <1>a, <1>b, Removed
<1>c. \A k \in 1 .. Len(ready) - 1 :
         \E j \in 1 .. Len(ready) : j # i /\ ready'[k] = ready[j] /\ k = IF j < i THEN j ELSE j - 1
  <2> HIDE DEF Take, IInv
  <2> TAKE k \in 1 .. Len(ready) - 1
  <2>1. CASE k < i
    <3>1. k \in 1 .. Len(ready) /\ k # i /\ ready'[k] = ready[k]
      BY <2>1, <1>0, <1>b
    <3>2. QED
      BY <2>1, <3>1
  <2>2. CASE ~(k < i)
    <3>1. k + 1 \in 1 .. Len(ready) /\ k + 1 # i /\ ~(k + 1 < i) /\ k = (k + 1) - 1
      BY <2>2, <1>b
    <3>2. ready'[k] = ready[k + 1]
      BY <2>2, <1>0
    <3>3. QED
      BY <3>1, <3>2
  <2>3. QED
    BY <2>1, <2>2
<1>1. TypeOK'
  BY <1>0, <1>a, <1>b DEF TypeOK, Steps, HandlerKinds
<1>2. OneOpen'
  <2>1. ASSUME NEW k \in 1 .. Len(ready'), ready'[k] = "open"
        PROVE  \E j \in 1 .. Len(ready) : j # i /\ ready[j] = "open" /\ k = IF j < i THEN j ELSE j - 1
    BY <1>c, <2>1, <1>0
  <2>2. ASSUME NEW k \in 1 .. Len(ready'), ready'[k] = "open"
        PROVE  ready[i] # "open" /\ promise = "unset" /\ \A u \in Threads : thread[u] # "open"
    BY <2>1, <2>2, <1>b DEF OneOpen
  <2>3. \A k, l \in 1 .. Len(ready') : ready'[k] = "open" /\ ready'[l] = "open" => k = l
    BY <2>1, <1>b DEF OneOpen
  <2>4. \A u \in Threads : thread'[u] = IF u = t THEN ready[i] ELSE thread[u]
    BY <1>a DEF TypeOK
  <2>5. \A u, v \in Threads : thread'[u] = "open" /\ thread'[v] = "open" => u = v
    BY <2>4, <1>b DEF OneOpen
  <2>6. \A u \in Threads : thread'[u] = "open" => promise = "unset"
    BY <2>4, <1>b DEF OneOpen
  <2>7. main # "open_async"
    BY DEF OneOpen
  <2>8. QED
    BY <2>2, <2>3, <2>4, <2>5, <2>6, <2>7 DEF OneOpen
<1>3. ErrorsKept'
  BY <1>0, <1>a, <1>b DEF ErrorsKept, TypeOK, OneOpen, JoinedWhenOver, Over
<1>4. JoinedWhenOver'
  BY <1>0, <1>a, <1>b DEF JoinedWhenOver, TypeOK, Over, Joined, ErrorsKept
<1>5. HandleKnown'
  BY <1>0, <1>a, <1>b DEF HandleKnown, TypeOK, OneOpen, JoinedWhenOver, Over
<1>6. OpenedAndCleaned'
  BY <1>0, <1>a, <1>b DEF OpenedAndCleaned, TypeOK, JoinedWhenOver, Over
<1>7. QED
  BY <1>1, <1>2, <1>3, <1>4, <1>5, <1>6

\* A thread ends only when it runs no handler.
LEMMA RunReturnsKeeps == ASSUME IInv, NEW t \in Threads, RunReturns(t) PROVE IInv'
<1> USE DEF IInv, RunReturns, serverVars, poolVars, runVars, In
<1>1. TypeOK'
  BY DEF TypeOK, Steps, HandlerKinds
<1>2. OneOpen'
  BY DEF OneOpen, TypeOK
<1>3. ErrorsKept'
  BY DEF ErrorsKept, TypeOK, OneOpen, JoinedWhenOver, Over
<1>4. JoinedWhenOver'
  BY DEF JoinedWhenOver, TypeOK, Over, Joined, ErrorsKept
<1>5. HandleKnown'
  BY DEF HandleKnown, TypeOK, OneOpen, JoinedWhenOver, Over
<1>6. OpenedAndCleaned'
  BY DEF OpenedAndCleaned, TypeOK, JoinedWhenOver, Over
<1>7. QED
  BY <1>1, <1>2, <1>3, <1>4, <1>5, <1>6

\* open_sync opens the acceptor or is about to keep the error.
LEMMA OpenAcceptorKeeps == ASSUME IInv, NEW t \in Threads, OpenAcceptor(t) PROVE IInv'
<1> USE DEF IInv, OpenAcceptor, serverVars, poolVars, runVars, In, Goes
<1>1. TypeOK'
  BY DEF TypeOK, Steps, HandlerKinds
<1>2. OneOpen'
  BY DEF OneOpen, TypeOK
<1>3. ErrorsKept'
  BY DEF ErrorsKept, TypeOK, OneOpen, JoinedWhenOver, Over
<1>4. JoinedWhenOver'
  BY DEF JoinedWhenOver, TypeOK, Over, Joined, ErrorsKept
<1>5. HandleKnown'
  BY DEF HandleKnown, TypeOK, OneOpen, JoinedWhenOver, Over
<1>6. OpenedAndCleaned'
  BY DEF OpenedAndCleaned, TypeOK, JoinedWhenOver, Over
<1>7. QED
  BY <1>1, <1>2, <1>3, <1>4, <1>5, <1>6

\* open_sync sets the state to running, then the callback tells main.
LEMMA OpenedKeeps == ASSUME IInv, NEW t \in Threads, Opened(t) PROVE IInv'
<1> USE DEF IInv, Opened, serverVars, poolVars, runVars, In, Returns
<1>1. TypeOK'
  BY DEF TypeOK, Steps, HandlerKinds
<1>2. OneOpen'
  BY DEF OneOpen, TypeOK
<1>3. ErrorsKept'
  BY DEF ErrorsKept, TypeOK, OneOpen, JoinedWhenOver, Over
<1>4. JoinedWhenOver'
  BY DEF JoinedWhenOver, TypeOK, Over, Joined, ErrorsKept
<1>5. HandleKnown'
  BY DEF HandleKnown, TypeOK, OneOpen, JoinedWhenOver, Over
<1>6. OpenedAndCleaned'
  BY DEF OpenedAndCleaned, TypeOK, JoinedWhenOver, Over
<1>7. QED
  BY <1>1, <1>2, <1>3, <1>4, <1>5, <1>6

\* The callback of a failed opening stops the pool; the error is still to be kept.
LEMMA OpenFailedKeeps == ASSUME IInv, NEW t \in Threads, OpenFailed(t) PROVE IInv'
<1> USE DEF IInv, OpenFailed, serverVars, poolVars, runVars, In, Goes, PoolStop
<1>1. TypeOK'
  BY DEF TypeOK, Steps, HandlerKinds
<1>2. OneOpen'
  BY DEF OneOpen, TypeOK
<1>3. ErrorsKept'
  BY DEF ErrorsKept, TypeOK, OneOpen, JoinedWhenOver, Over
<1>4. JoinedWhenOver'
  BY DEF JoinedWhenOver, TypeOK, Over, Joined, ErrorsKept
<1>5. HandleKnown'
  BY DEF HandleKnown, TypeOK, OneOpen, JoinedWhenOver, Over
<1>6. OpenedAndCleaned'
  BY DEF OpenedAndCleaned, TypeOK, JoinedWhenOver, Over
<1>7. QED
  BY <1>1, <1>2, <1>3, <1>4, <1>5, <1>6

\* The callback of a failed opening keeps the error.
LEMMA KeepOpenErrorKeeps == ASSUME IInv, NEW t \in Threads, KeepOpenError(t) PROVE IInv'
<1> USE DEF IInv, KeepOpenError, serverVars, poolVars, runVars, In, Returns
<1>1. TypeOK'
  BY DEF TypeOK, Steps, HandlerKinds
<1>2. OneOpen'
  BY DEF OneOpen, TypeOK
<1>3. ErrorsKept'
  BY DEF ErrorsKept, TypeOK, OneOpen, JoinedWhenOver, Over
<1>4. JoinedWhenOver'
  BY DEF JoinedWhenOver, TypeOK, Over, Joined, ErrorsKept
<1>5. HandleKnown'
  BY DEF HandleKnown, TypeOK, OneOpen, JoinedWhenOver, Over
<1>6. OpenedAndCleaned'
  BY DEF OpenedAndCleaned, TypeOK, JoinedWhenOver, Over
<1>7. QED
  BY <1>1, <1>2, <1>3, <1>4, <1>5, <1>6

\* The handler of the signal posts the one that closes.
LEMMA OnSignalKeeps == ASSUME IInv, NEW t \in Threads, OnSignal(t) PROVE IInv'
<1> USE DEF IInv, OnSignal, serverVars, poolVars, runVars, In, Returns
<1>1. TypeOK'
  BY DEF TypeOK, Steps, HandlerKinds
<1>2. OneOpen'
  BY DEF OneOpen, TypeOK
<1>3. ErrorsKept'
  BY DEF ErrorsKept, TypeOK, OneOpen, JoinedWhenOver, Over
<1>4. JoinedWhenOver'
  BY DEF JoinedWhenOver, TypeOK, Over, Joined, ErrorsKept
<1>5. HandleKnown'
  BY DEF HandleKnown, TypeOK, OneOpen, JoinedWhenOver, Over
<1>6. OpenedAndCleaned'
  BY DEF OpenedAndCleaned, TypeOK, JoinedWhenOver, Over
<1>7. QED
  BY <1>1, <1>2, <1>3, <1>4, <1>5, <1>6

\* close_sync calls the cleanup functor at most once, or is about to keep the error.
LEMMA CloseSyncKeeps == ASSUME IInv, NEW t \in Threads, CloseSync(t) PROVE IInv'
<1> USE DEF IInv, CloseSync, serverVars, poolVars, runVars, In, Goes
<1>1. TypeOK'
  <2>1. running' \in BOOLEAN /\ listening' \in BOOLEAN /\ cleanup' \in BOOLEAN
    BY DEF TypeOK
  <2>2. at' \in [Threads -> Steps] /\ thread' = thread
    BY DEF TypeOK, Steps
  <2>3. cleaned' \in Nat
    <3>1. cleaned' = cleaned \/ cleaned' = cleaned + 1
      OBVIOUS
    <3>2. QED
      BY <3>1 DEF TypeOK
  <2>4. errors' \subseteq {"open", "close", "thread"}
    BY DEF TypeOK
  <2>5. QED
    BY <2>1, <2>2, <2>3, <2>4 DEF TypeOK
<1>2. OneOpen'
  BY DEF OneOpen, TypeOK
<1>3. ErrorsKept'
  BY DEF ErrorsKept, TypeOK, OneOpen, JoinedWhenOver, Over
<1>4. JoinedWhenOver'
  BY DEF JoinedWhenOver, TypeOK, Over, Joined, ErrorsKept
<1>5. HandleKnown'
  BY DEF HandleKnown, TypeOK, OneOpen, JoinedWhenOver, Over
<1>6. OpenedAndCleaned'
  <2>1. listening' /\ ~running' => listening /\ ~running
    OBVIOUS
  <2>2. ASSUME NEW u \in Threads, In(u, "open", "opened")
        PROVE  In(u, "open", "opened")'
    BY <2>2 DEF TypeOK
  <2>3. main' = "end" => ~listening'
    BY DEF OpenedAndCleaned
  <2>4. cleaned' = IF cleanup' THEN 0 ELSE 1
    <3>1. \/ cleaned' = cleaned /\ cleanup' = cleanup
          \/ cleaned' = (IF cleanup THEN cleaned + 1 ELSE cleaned) /\ cleanup' = FALSE
      OBVIOUS
    <3>2. cleaned = IF cleanup THEN 0 ELSE 1
      BY DEF OpenedAndCleaned
    <3>3. QED
      BY <3>1, <3>2
  <2>5. QED
    BY <2>1, <2>2, <2>3, <2>4 DEF OpenedAndCleaned
<1>7. QED
  BY <1>1, <1>2, <1>3, <1>4, <1>5, <1>6

\* The callback of a closed server stops the pool.
LEMMA ClosedKeeps == ASSUME IInv, NEW t \in Threads, Closed(t) PROVE IInv'
<1> USE DEF IInv, Closed, serverVars, poolVars, runVars, In, Returns, PoolStop
<1>1. TypeOK'
  BY DEF TypeOK, Steps, HandlerKinds
<1>2. OneOpen'
  BY DEF OneOpen, TypeOK
<1>3. ErrorsKept'
  BY DEF ErrorsKept, TypeOK, OneOpen, JoinedWhenOver, Over
<1>4. JoinedWhenOver'
  BY DEF JoinedWhenOver, TypeOK, Over, Joined, ErrorsKept
<1>5. HandleKnown'
  BY DEF HandleKnown, TypeOK, OneOpen, JoinedWhenOver, Over
<1>6. OpenedAndCleaned'
  BY DEF OpenedAndCleaned, TypeOK, JoinedWhenOver, Over
<1>7. QED
  BY <1>1, <1>2, <1>3, <1>4, <1>5, <1>6

\* The callback of a failed closing keeps the error, except under run_async.
LEMMA CloseFailedKeeps == ASSUME IInv, NEW t \in Threads, CloseFailed(t) PROVE IInv'
<1> USE DEF IInv, CloseFailed, serverVars, poolVars, runVars, In, Returns
<1>1. TypeOK'
  BY DEF TypeOK, Steps, HandlerKinds
<1>2. OneOpen'
  BY DEF OneOpen, TypeOK
<1>3. ErrorsKept'
  BY DEF ErrorsKept, TypeOK, OneOpen, JoinedWhenOver, Over
<1>4. JoinedWhenOver'
  BY DEF JoinedWhenOver, TypeOK, Over, Joined, ErrorsKept
<1>5. HandleKnown'
  BY DEF HandleKnown, TypeOK, OneOpen, JoinedWhenOver, Over
<1>6. OpenedAndCleaned'
  BY DEF OpenedAndCleaned, TypeOK, JoinedWhenOver, Over
<1>7. QED
  BY <1>1, <1>2, <1>3, <1>4, <1>5, <1>6

\* The handler of initiate_shutdown stops the io_context.
LEMMA ShutDownKeeps == ASSUME IInv, NEW t \in Threads, ShutDown(t) PROVE IInv'
<1> USE DEF IInv, ShutDown, serverVars, poolVars, runVars, In, Returns
<1>1. TypeOK'
  BY DEF TypeOK, Steps, HandlerKinds
<1>2. OneOpen'
  BY DEF OneOpen, TypeOK
<1>3. ErrorsKept'
  BY DEF ErrorsKept, TypeOK, OneOpen, JoinedWhenOver, Over
<1>4. JoinedWhenOver'
  BY DEF JoinedWhenOver, TypeOK, Over, Joined, ErrorsKept
<1>5. HandleKnown'
  BY DEF HandleKnown, TypeOK, OneOpen, JoinedWhenOver, Over
<1>6. OpenedAndCleaned'
  BY DEF OpenedAndCleaned, TypeOK, JoinedWhenOver, Over
<1>7. QED
  BY <1>1, <1>2, <1>3, <1>4, <1>5, <1>6

\* Every step keeps the invariant.
LEMMA StepKeepsIInv == IInv /\ [Next]_vars => IInv'
<1> SUFFICES ASSUME IInv, [Next]_vars PROVE IInv'
  OBVIOUS
<1>1. CASE Runner
  BY <1>1, OpenAsyncKeeps, StartThreadKeeps, StartDoneKeeps, JoinKeeps, WaitKeeps,
     RethrowKeeps, GetResultKeeps, DestroyPoolKeeps, DestroyServerKeeps
     DEF Runner
<1>2. CASE User
  BY <1>2, UserStopsKeeps, UserWaitsKeeps, UserDropsHandleKeeps, BreakSignalKeeps,
     InitiateShutdownKeeps
     DEF User
<1>3. ASSUME NEW t \in Threads, Handlers(t) PROVE IInv'
  BY <1>3, TakeKeeps, RunReturnsKeeps, OpenAcceptorKeeps, OpenedKeeps,
     OpenFailedKeeps, KeepOpenErrorKeeps, OnSignalKeeps, CloseSyncKeeps,
     ClosedKeeps, CloseFailedKeeps, ShutDownKeeps
     DEF Handlers
<1>4. CASE UNCHANGED vars
  BY <1>4 DEF vars, serverVars, poolVars, runVars, IInv, TypeOK, OneOpen, ErrorsKept,
     JoinedWhenOver, HandleKnown, OpenedAndCleaned, In, Over
<1>5. QED
  BY <1>1, <1>2, <1>3, <1>4 DEF Next

-----------------------------------------------------------------------------
(* The theorems.                                                           *)

\* However many threads the pool has, the invariant holds.
THEOREM Invariance == Spec => []IInv
BY InitIInv, StepKeepsIInv, PTL DEF Spec

\* However many threads the pool has and whichever way the server is run: a run that
\* reports success has seen no error, since the error callback, which keeps the exception
\* only after it has stopped the pool, has returned when wait has joined the threads; and
\* a handle that run_async returns is that of a working server.
THEOREM SuccessSafe == Spec => []SuccessMeansNoError
<1>1. IInv => SuccessMeansNoError
  <2> SUFFICES ASSUME IInv PROVE SuccessMeansNoError
    OBVIOUS
  <2>1. ASSUME result = "returned"
        PROVE  errors \subseteq (IF way = "async" THEN {"close"} ELSE {})
    BY <2>1 DEF IInv, TypeOK, ErrorsKept, JoinedWhenOver, Over, In
  <2>2. main = "user" /\ ~asked => running /\ listening
    BY DEF IInv, HandleKnown
  <2>3. QED
    BY <2>1, <2>2 DEF SuccessMeansNoError
<1>2. QED
  BY <1>1, Invariance, PTL

\* No handler outlives what it refers to, and the server is closed and cleaned up in the
\* end: pool, exception pointer, signal set and server are destroyed after the threads are
\* joined, and main has the promise as long as the handler that sets it may run.
THEOREM HandlersSafe == Spec => []HandlersOutlived
<1>1. IInv => HandlersOutlived
  <2> SUFFICES ASSUME IInv PROVE HandlersOutlived
    OBVIOUS
  <2>1. main \in Over => \A t \in Threads : ~Executing(t)
    BY DEF IInv, JoinedWhenOver, Executing
  <2>2. ASSUME NEW t \in Threads, thread[t] = "open", way = "async"
        PROVE  main \in {"start", "get", "join", "destroy_pool"}
    BY <2>2 DEF IInv, TypeOK, OneOpen, HandleKnown, JoinedWhenOver, Over
  <2>3. cleaned <= 1 /\ (main = "end" => ~listening /\ (cleaned = 1 <=> ~cleanup))
    BY DEF IInv, OpenedAndCleaned
  <2>4. QED
    BY <2>1, <2>2, <2>3 DEF HandlersOutlived, Over
<1>2. QED
  BY <1>1, Invariance, PTL
=============================================================================
