---------------------------- MODULE AcceptorProofs ----------------------------
(***************************************************************************)
(* Proofs about Acceptor.tla for any number of slots, any limit and any    *)
(* number of openings.                                                     *)
(***************************************************************************)
EXTENDS Acceptor, FiniteSetTheorems, SequenceTheorems, TLAPS

\* Slots of an opening that has not happened are not started.
FutureNotStarted == \A t \in Token : t[1] > opens => place[t] = "none"

\* The inductive invariant.
IInv ==
    /\ TypeOK
    /\ FutureNotStarted
    /\ PendingOnce
    /\ ActiveAcceptsAccounted
    /\ LimitRespected
    /\ NoLostWakeup

-----------------------------------------------------------------------------
(* Counting slots.                                                         *)

\* There are finitely many slots.
LEMMA TokenFinite == IsFiniteSet(Token)
<1>1. IsFiniteSet(1 .. MaxOpens)
  BY FS_Interval, AcceptorAssumption
<1>2. QED
  BY <1>1, FS_Product, AcceptorAssumption DEF Token

\* Sets of slots are finite and have a cardinality.
LEMMA AtFinite ==
  ASSUME NEW P
  PROVE  IsFiniteSet(At(P)) /\ Cardinality(At(P)) \in Nat
BY TokenFinite, FS_Subset, FS_CardinalityType DEF At

\* So they do after a step.
LEMMA AtFinitePrime ==
  ASSUME NEW P
  PROVE  IsFiniteSet(At(P)') /\ Cardinality(At(P)') \in Nat
<1>1. At(P)' \subseteq Token
  BY DEF At, Token
<1>2. QED
  BY <1>1, TokenFinite, FS_Subset, FS_CardinalityType

\* A slot that moves into a set of places is counted there once more.
LEMMA Enters ==
  ASSUME TypeOK, NEW P, NEW t \in Token, NEW p,
         place' = [place EXCEPT ![t] = p], place[t] \notin P, p \in P
  PROVE  Cardinality(At(P)') = Cardinality(At(P)) + 1
<1>1. At(P)' = At(P) \cup {t} /\ t \notin At(P)
  BY DEF At, TypeOK, Token
<1>2. QED
  BY <1>1, AtFinite, FS_AddElement

\* A slot that moves out of a set of places is counted there once less.
LEMMA Leaves ==
  ASSUME TypeOK, NEW P, NEW t \in Token, NEW p,
         place' = [place EXCEPT ![t] = p], place[t] \in P, p \notin P
  PROVE  Cardinality(At(P)') = Cardinality(At(P)) - 1 /\ Cardinality(At(P)) > 0
<1>1. At(P)' = At(P) \ {t} /\ t \in At(P)
  BY DEF At, TypeOK, Token
<1>2. Cardinality(At(P)') = Cardinality(At(P)) - 1
  BY <1>1, AtFinite, FS_RemoveElement
<1>3. QED
  BY <1>2, AtFinite, AtFinitePrime

\* A slot that moves within a set of places, or outside it, changes no count.
LEMMA Stays ==
  ASSUME TypeOK, NEW P, NEW t \in Token, NEW p,
         place' = [place EXCEPT ![t] = p], place[t] \in P <=> p \in P
  PROVE  At(P)' = At(P)
BY DEF At, TypeOK, Token

\* With no slot moved, no count changes.
LEMMA AllStay ==
  ASSUME NEW P, UNCHANGED place
  PROVE  At(P)' = At(P)
BY DEF At

-----------------------------------------------------------------------------
(* The invariant holds initially and is kept by every action.              *)

\* The limiter starts with nothing counted and nothing pending.
LEMMA InitIInv == Init => IInv
<1> SUFFICES ASSUME Init PROVE IInv
  OBVIOUS
<1> USE DEF Init
<1>1. TypeOK
  <2>1. opens \in 0 .. MaxOpens
    BY AcceptorAssumption
  <2>2. place \in [Token -> Places]
    BY DEF Places
  <2>3. pending \in Seq(Token)
    OBVIOUS
  <2>4. QED
    BY <2>1, <2>2, <2>3 DEF TypeOK
<1>2. FutureNotStarted
  BY DEF FutureNotStarted
<1>3. PendingOnce
  BY DEF PendingOnce, At
<1>4. ActiveAcceptsAccounted
  <2>1. At({"accepting", "accepted", "aborted"}) = {}
    BY DEF At
  <2>2. QED
    BY <2>1, FS_EmptySet DEF ActiveAcceptsAccounted
<1>5. LimitRespected
  BY AcceptorAssumption DEF LimitRespected
<1>6. NoLostWakeup
  BY DEF NoLostWakeup
<1>7. QED
  BY <1>1, <1>2, <1>3, <1>4, <1>5, <1>6 DEF IInv

\* open() starts slots that were not started; they are all about to be called.
LEMMA OpenKeeps == ASSUME IInv, Open PROVE IInv'
<1> USE DEF IInv
<1>1. TypeOK'
  BY AcceptorAssumption DEF Open, TypeOK, Places
<1>2. FutureNotStarted'
  BY DEF Open, TypeOK, FutureNotStarted, Token
<1>3. \A t \in Token : t[1] = opens + 1 => place[t] = "none"
  BY DEF FutureNotStarted, TypeOK, Token
<1>4. PendingOnce'
  <2>1. At({"pending"})' = At({"pending"})
    BY <1>3 DEF Open, At, TypeOK
  <2>2. \A k \in 1 .. Len(pending) : place'[pending[k]] = "pending"
    BY <1>3 DEF Open, PendingOnce, TypeOK
  <2>3. QED
    BY <2>1, <2>2 DEF Open, PendingOnce
<1>5. ActiveAcceptsAccounted'
  <2>1. At({"accepting", "accepted", "aborted"})' = At({"accepting", "accepted", "aborted"})
    BY <1>3 DEF Open, At, TypeOK
  <2>2. QED
    BY <2>1 DEF Open, ActiveAcceptsAccounted
<1>6. LimitRespected'
  BY DEF Open, LimitRespected
<1>7. NoLostWakeup'
  <2>1. At({"calling"}) \subseteq At({"calling"})'
    BY DEF Open, At, TypeOK
  <2>2. Cardinality(At({"calling"})) <= Cardinality(At({"calling"})')
    BY <2>1, AtFinitePrime, FS_Subset
  <2>3. QED
    BY <2>2, AtFinite, AtFinitePrime, AcceptorAssumption
    DEF Open, NoLostWakeup, TypeOK
<1>8. QED
  BY <1>1, <1>2, <1>4, <1>5, <1>6, <1>7

\* close() aborts accepts, which stay counted as accepts in progress.
LEMMA CloseKeeps == ASSUME IInv, Close PROVE IInv'
<1> USE DEF IInv
<1>1. TypeOK'
  BY DEF Close, TypeOK, Places
<1>2. FutureNotStarted'
  BY DEF Close, TypeOK, FutureNotStarted, Token
<1>3. At({"pending"})' = At({"pending"}) /\ At({"calling"})' = At({"calling"})
  BY DEF Close, At, TypeOK
<1>4. PendingOnce'
  BY <1>3 DEF Close, PendingOnce, TypeOK
<1>5. At({"accepting", "accepted", "aborted"})' = At({"accepting", "accepted", "aborted"})
  BY DEF Close, At, TypeOK
<1>6. QED
  BY <1>1, <1>2, <1>3, <1>4, <1>5
  DEF Close, ActiveAcceptsAccounted, LimitRespected, NoLostWakeup

\* accept_next claims a free slot of the limiter or puts the index on the stack.
LEMMA AcceptNextKeeps ==
  ASSUME IInv, NEW t \in Token, AcceptNext(t)
  PROVE  IInv'
<1> USE DEF IInv
<1>1. CASE HasFreeSlots
  <2> DEFINE p == IF open THEN "accepting" ELSE "aborted"
  <2>1. /\ place' = [place EXCEPT ![t] = p] /\ place[t] = "calling"
        /\ active' = active + 1 /\ UNCHANGED <<open, opens, connections, pending, leaked>>
        /\ p \in {"accepting", "aborted"}
    BY <1>1 DEF AcceptNext
  <2> HIDE DEF p
  <2>2. TypeOK'
    BY <2>1 DEF TypeOK, Places
  <2>3. FutureNotStarted'
    BY <2>1 DEF TypeOK, FutureNotStarted
  <2>4. At({"pending"})' = At({"pending"})
    BY <2>1, Stays
  <2>5. PendingOnce'
    BY <2>1, <2>4 DEF PendingOnce, TypeOK
  <2>6. Cardinality(At({"accepting", "accepted", "aborted"})')
          = Cardinality(At({"accepting", "accepted", "aborted"})) + 1
    BY <2>1, Enters
  <2>7. ActiveAcceptsAccounted'
    BY <2>1, <2>6, AtFinite DEF ActiveAcceptsAccounted, TypeOK
  <2>8. LimitRespected'
    BY <1>1, <2>1, AcceptorAssumption DEF HasFreeSlots, LimitRespected, TypeOK
  <2>9. Cardinality(At({"calling"})') = Cardinality(At({"calling"})) - 1
    BY <2>1, Leaves
  <2>10. NoLostWakeup'
    BY <2>1, <2>9, AtFinite, AcceptorAssumption DEF NoLostWakeup, TypeOK
  <2>11. QED
    BY <2>2, <2>3, <2>5, <2>7, <2>8, <2>10
<1>2. CASE ~HasFreeSlots
  <2>1. /\ place' = [place EXCEPT ![t] = "pending"] /\ place[t] = "calling"
        /\ pending' = Append(pending, t)
        /\ UNCHANGED <<open, opens, active, connections, leaked>>
    BY <1>2 DEF AcceptNext
  <2>2. TypeOK'
    BY <2>1 DEF TypeOK, Places
  <2>3. FutureNotStarted'
    BY <2>1 DEF TypeOK, FutureNotStarted
  <2>4. PendingOnce'
    <3>1. /\ Len(pending') = Len(pending) + 1 /\ Len(pending) \in Nat
          /\ pending'[Len(pending')] = t
          /\ \A k \in 1 .. Len(pending) : pending'[k] = pending[k]
      BY <2>1 DEF TypeOK
    <3>2. \A k \in 1 .. Len(pending) : pending[k] # t
      BY <2>1 DEF PendingOnce
    <3>3. \A k \in 1 .. Len(pending') : place'[pending'[k]] = "pending"
      BY <2>1, <3>1, <3>2 DEF PendingOnce, TypeOK
    <3>4. \A j, k \in 1 .. Len(pending') : pending'[j] = pending'[k] => j = k
      BY <3>1, <3>2 DEF PendingOnce
    <3>5. \A u \in At({"pending"})' : \E k \in 1 .. Len(pending') : pending'[k] = u
      <4> SUFFICES ASSUME NEW u \in At({"pending"})'
                   PROVE  \E k \in 1 .. Len(pending') : pending'[k] = u
        OBVIOUS
      <4>1. CASE u = t
        BY <3>1, <4>1
      <4>2. CASE u # t
        <5>1. u \in At({"pending"})
          BY <2>1, <4>2 DEF At, TypeOK
        <5>2. PICK k \in 1 .. Len(pending) : pending[k] = u
          BY <5>1 DEF PendingOnce
        <5>3. QED
          BY <5>2, <3>1
      <4>3. QED
        BY <4>1, <4>2
    <3>6. QED
      BY <3>3, <3>4, <3>5 DEF PendingOnce
  <2>5. At({"accepting", "accepted", "aborted"})' = At({"accepting", "accepted", "aborted"})
    BY <2>1, Stays
  <2>6. ActiveAcceptsAccounted' /\ LimitRespected'
    BY <2>1, <2>5 DEF ActiveAcceptsAccounted, LimitRespected
  <2>7. NoLostWakeup'
    BY <1>2, <2>1, AtFinitePrime, AcceptorAssumption DEF NoLostWakeup, HasFreeSlots, TypeOK
  <2>8. QED
    BY <2>2, <2>3, <2>4, <2>6, <2>7
<1>3. QED
  BY <1>1, <1>2

\* A client that connects moves a slot between two places of an accept in
\* progress.
LEMMA ClientConnectsKeeps ==
  ASSUME IInv, NEW t \in Token, ClientConnects(t)
  PROVE  IInv'
<1> USE DEF IInv
<1>1. /\ place' = [place EXCEPT ![t] = "accepted"] /\ place[t] = "accepting"
      /\ UNCHANGED <<open, opens, active, connections, pending, leaked>>
  BY DEF ClientConnects
<1>2. TypeOK' /\ FutureNotStarted'
  BY <1>1 DEF TypeOK, Places, FutureNotStarted
<1>3. /\ At({"pending"})' = At({"pending"})
      /\ At({"calling"})' = At({"calling"})
      /\ At({"accepting", "accepted", "aborted"})' = At({"accepting", "accepted", "aborted"})
  BY <1>1, Stays
<1>4. PendingOnce'
  BY <1>1, <1>3 DEF PendingOnce, TypeOK
<1>5. QED
  BY <1>1, <1>2, <1>3, <1>4 DEF ActiveAcceptsAccounted, LimitRespected, NoLostWakeup

\* Making the lifetime monitor turns an active accept into a connection; there
\* is an active accept to turn because this slot is counted.
LEMMA AcceptCurrentConnectionKeeps ==
  ASSUME IInv, NEW t \in Token, AcceptCurrentConnection(t)
  PROVE  IInv'
<1> USE DEF IInv
<1>1. /\ place' = [place EXCEPT ![t] = "calling"] /\ place[t] = "accepted"
      /\ active' = active - 1 /\ connections' = connections + 1
      /\ UNCHANGED <<open, opens, pending, leaked>>
  BY DEF AcceptCurrentConnection
<1>2. /\ Cardinality(At({"accepting", "accepted", "aborted"})')
           = Cardinality(At({"accepting", "accepted", "aborted"})) - 1
      /\ Cardinality(At({"accepting", "accepted", "aborted"})) > 0
  BY <1>1, Leaves
<1>3. active > 0
  BY <1>2, AtFinite DEF ActiveAcceptsAccounted, TypeOK
<1>4. TypeOK' /\ FutureNotStarted'
  BY <1>1, <1>3 DEF TypeOK, Places, FutureNotStarted
<1>5. At({"pending"})' = At({"pending"})
  BY <1>1, Stays
<1>6. PendingOnce'
  BY <1>1, <1>5 DEF PendingOnce, TypeOK
<1>7. ActiveAcceptsAccounted'
  BY <1>1, <1>2, AtFinite DEF ActiveAcceptsAccounted, TypeOK
<1>8. LimitRespected'
  BY <1>1, AcceptorAssumption DEF LimitRespected, TypeOK
<1>9. Cardinality(At({"calling"})') = Cardinality(At({"calling"})) + 1
  BY <1>1, Enters
<1>10. NoLostWakeup'
  BY <1>1, <1>9, AtFinite, AcceptorAssumption DEF NoLostWakeup, TypeOK
<1>11. QED
  BY <1>4, <1>6, <1>7, <1>8, <1>10

\* A denied connection leaves the active accept counted: it becomes a leak.
LEMMA DenyCurrentConnectionKeeps ==
  ASSUME IInv, NEW t \in Token, DenyCurrentConnection(t)
  PROVE  IInv'
<1> USE DEF IInv
<1>1. /\ place' = [place EXCEPT ![t] = "calling"] /\ place[t] = "accepted"
      /\ leaked' = leaked + 1
      /\ UNCHANGED <<open, opens, active, connections, pending>>
  BY DEF DenyCurrentConnection
<1>2. Cardinality(At({"accepting", "accepted", "aborted"})')
        = Cardinality(At({"accepting", "accepted", "aborted"})) - 1
  BY <1>1, Leaves
<1>3. TypeOK' /\ FutureNotStarted'
  BY <1>1 DEF TypeOK, Places, FutureNotStarted
<1>4. At({"pending"})' = At({"pending"})
  BY <1>1, Stays
<1>5. PendingOnce'
  BY <1>1, <1>4 DEF PendingOnce, TypeOK
<1>6. ActiveAcceptsAccounted' /\ LimitRespected'
  BY <1>1, <1>2, AtFinite DEF ActiveAcceptsAccounted, LimitRespected, TypeOK
<1>7. Cardinality(At({"calling"})') = Cardinality(At({"calling"})) + 1
  BY <1>1, Enters
<1>8. NoLostWakeup'
  BY <1>1, <1>7, AtFinite, AcceptorAssumption DEF NoLostWakeup, TypeOK
<1>9. QED
  BY <1>3, <1>5, <1>6, <1>8

\* So does an accept that fails.
LEMMA AcceptFailsKeeps ==
  ASSUME IInv, NEW t \in Token, AcceptFails(t)
  PROVE  IInv'
<1> USE DEF IInv
<1>1. /\ place' = [place EXCEPT ![t] = "lost"] /\ place[t] \in {"aborted", "accepting"}
      /\ leaked' = leaked + 1
      /\ UNCHANGED <<open, opens, active, connections, pending>>
  BY DEF AcceptFails
<1>2. Cardinality(At({"accepting", "accepted", "aborted"})')
        = Cardinality(At({"accepting", "accepted", "aborted"})) - 1
  BY <1>1, Leaves
<1>3. TypeOK' /\ FutureNotStarted'
  BY <1>1 DEF TypeOK, Places, FutureNotStarted
<1>4. At({"pending"})' = At({"pending"}) /\ At({"calling"})' = At({"calling"})
  BY <1>1, Stays
<1>5. PendingOnce'
  BY <1>1, <1>4 DEF PendingOnce, TypeOK
<1>6. ActiveAcceptsAccounted' /\ LimitRespected'
  BY <1>1, <1>2, AtFinite DEF ActiveAcceptsAccounted, LimitRespected, TypeOK
<1>7. NoLostWakeup'
  BY <1>1, <1>4 DEF NoLostWakeup
<1>8. QED
  BY <1>3, <1>5, <1>6, <1>7

\* The end of a connection frees a slot of the limiter; if an index is kept,
\* one is taken off the stack for it.
LEMMA DecrementKeeps ==
  ASSUME IInv, DecrementParallelConnections
  PROVE  IInv'
<1> USE DEF IInv
<1>1. /\ connections' = connections - 1 /\ connections > 0
      /\ UNCHANGED <<open, opens, active, leaked>>
  BY DEF DecrementParallelConnections
<1>2. CASE active + connections' < MaxParallel /\ pending # <<>>
  <2> DEFINE n == Len(pending)
             t == pending[n]
  <2>1. n \in Nat \ {0} /\ t \in Token /\ place[t] = "pending"
    BY <1>2 DEF TypeOK, PendingOnce
  <2>2. place' = [place EXCEPT ![t] = "calling"] /\ pending' = SubSeq(pending, 1, n - 1)
    BY <1>1, <1>2 DEF DecrementParallelConnections, TakesPending, Remaining
  <2>3. /\ pending' \in Seq(Token) /\ Len(pending') = n - 1
        /\ \A k \in 1 .. n - 1 : pending'[k] = pending[k]
    <3>1. 1 \in Int /\ n - 1 \in Int /\ \A k \in 1 .. n - 1 : pending[k] \in Token
      BY <2>1 DEF TypeOK
    <3> DEFINE rest == SubSeq(pending, 1, n - 1)
    <3>2. /\ rest \in Seq(Token)
          /\ Len(rest) = IF 1 <= n - 1 THEN (n - 1) - 1 + 1 ELSE 0
          /\ \A k \in 1 .. (n - 1) - 1 + 1 : rest[k] = pending[1 + k - 1]
      BY <3>1, SubSeqProperties
    <3> HIDE DEF rest, n
    <3>3. QED
      BY <2>1, <2>2, <3>2 DEF rest
  <2>4. \A k \in 1 .. n : pending[k] \in Token
    BY DEF TypeOK
  <2>5. \A k \in 1 .. n - 1 : pending[k] # t
    BY <2>1 DEF PendingOnce
  <2> HIDE DEF n, t
  <2>6. TypeOK' /\ FutureNotStarted'
    BY <1>1, <2>1, <2>2, <2>3 DEF TypeOK, Places, FutureNotStarted
  <2>7. PendingOnce'
    <3>1. \A k \in 1 .. Len(pending') : place'[pending'[k]] = "pending"
      BY <2>1, <2>2, <2>3, <2>4, <2>5 DEF PendingOnce, TypeOK, n
    <3>2. \A j, k \in 1 .. Len(pending') : pending'[j] = pending'[k] => j = k
      BY <2>1, <2>3 DEF PendingOnce, n
    <3>3. ASSUME NEW u \in At({"pending"})'
          PROVE  \E k \in 1 .. Len(pending') : pending'[k] = u
      <4>1. u \in At({"pending"}) /\ u # t
        BY <2>1, <2>2 DEF At, TypeOK
      <4>2. PICK k \in 1 .. n : pending[k] = u
        BY <4>1 DEF PendingOnce, n
      <4>3. k # n
        BY <4>1, <4>2 DEF t
      <4>4. QED
        BY <2>1, <2>3, <4>2, <4>3
    <3>4. QED
      BY <3>1, <3>2, <3>3 DEF PendingOnce
  <2>8. At({"accepting", "accepted", "aborted"})' = At({"accepting", "accepted", "aborted"})
    BY <2>1, <2>2, Stays
  <2>9. ActiveAcceptsAccounted' /\ LimitRespected'
    BY <1>1, <2>8, AcceptorAssumption DEF ActiveAcceptsAccounted, LimitRespected, TypeOK
  <2>10. Cardinality(At({"calling"})') = Cardinality(At({"calling"})) + 1
    BY <2>1, <2>2, Enters
  <2>11. NoLostWakeup'
    BY <1>1, <1>2, <2>10, AtFinite, AcceptorAssumption DEF NoLostWakeup, TypeOK
  <2>12. QED
    BY <2>6, <2>7, <2>9, <2>11
<1>3. CASE ~(active + connections' < MaxParallel /\ pending # <<>>)
  <2>1. UNCHANGED <<pending, place>>
    BY <1>1, <1>3 DEF DecrementParallelConnections, TakesPending
  <2>2. TypeOK' /\ FutureNotStarted'
    BY <1>1, <2>1 DEF TypeOK, FutureNotStarted
  <2>3. PendingOnce'
    BY <2>1 DEF PendingOnce, At
  <2>4. ActiveAcceptsAccounted' /\ LimitRespected'
    BY <1>1, <2>1, AllStay, AcceptorAssumption
    DEF ActiveAcceptsAccounted, LimitRespected, TypeOK
  <2>5. NoLostWakeup'
    BY <1>1, <1>3, <2>1, AtFinitePrime, AcceptorAssumption DEF NoLostWakeup, TypeOK
  <2>6. QED
    BY <2>2, <2>3, <2>4, <2>5
<1>4. QED
  BY <1>2, <1>3

\* Every step keeps the invariant.
LEMMA NextKeeps == IInv /\ [Next]_vars => IInv'
<1> SUFFICES ASSUME IInv, [Next]_vars PROVE IInv'
  OBVIOUS
<1>1. CASE Open
  BY <1>1, OpenKeeps
<1>2. CASE Close
  BY <1>2, CloseKeeps
<1>3. CASE DecrementParallelConnections
  BY <1>3, DecrementKeeps
<1>4. ASSUME NEW t \in Token, AcceptNext(t) PROVE IInv'
  BY <1>4, AcceptNextKeeps
<1>5. ASSUME NEW t \in Token, ClientConnects(t) PROVE IInv'
  BY <1>5, ClientConnectsKeeps
<1>6. ASSUME NEW t \in Token, AcceptCurrentConnection(t) PROVE IInv'
  BY <1>6, AcceptCurrentConnectionKeeps
<1>7. ASSUME NEW t \in Token, DenyCurrentConnection(t) PROVE IInv'
  BY <1>7, DenyCurrentConnectionKeeps
<1>8. ASSUME NEW t \in Token, AcceptFails(t) PROVE IInv'
  BY <1>8, AcceptFailsKeeps
<1>9. CASE UNCHANGED vars
  BY <1>9 DEF vars, IInv, TypeOK, FutureNotStarted, PendingOnce, ActiveAcceptsAccounted,
              LimitRespected, NoLostWakeup, At
<1>10. QED
  BY <1>1, <1>2, <1>3, <1>4, <1>5, <1>6, <1>7, <1>8, <1>9 DEF Next

-----------------------------------------------------------------------------
(* The theorems.                                                           *)

\* The invariant holds in every reachable state.
THEOREM Invariance == Spec => []IInv
BY InitIInv, NextKeeps, PTL DEF Spec

\* The counters of the limiter never wrap and its stack holds slots only.
THEOREM TypeCorrect == Spec => []TypeOK
<1>1. IInv => TypeOK
  BY DEF IInv
<1>2. QED
  BY <1>1, Invariance, PTL

\* actual_limiter_t never admits more accepts and connections than
\* max_parallel_connections, whatever the threads' interleaving, denied
\* connections, failed accepts, closings and reopenings.
THEOREM LimitSafe == Spec => []LimitRespected
<1>1. IInv => LimitRespected
  BY DEF IInv
<1>2. QED
  BY <1>1, Invariance, PTL

\* accept_next and decrement_parallel_connections never leave an index behind
\* while a slot of the limiter is free and nobody is about to claim it.
THEOREM NoWakeupLost == Spec => []NoLostWakeup
<1>1. IInv => NoLostWakeup
  BY DEF IInv
<1>2. QED
  BY <1>1, Invariance, PTL

\* The stack of pending indexes holds every waiting slot once.
THEOREM PendingExact == Spec => []PendingOnce
<1>1. IInv => PendingOnce
  BY DEF IInv
<1>2. QED
  BY <1>1, Invariance, PTL

\* m_active_accepts is the number of accepts in progress and of those that ended
\* without a connection.
THEOREM ActiveAlwaysAccounted == Spec => []ActiveAcceptsAccounted
<1>1. IInv => ActiveAcceptsAccounted
  BY DEF IInv
<1>2. QED
  BY <1>1, Invariance, PTL
=============================================================================
