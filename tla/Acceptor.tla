------------------------------- MODULE Acceptor -------------------------------
(***************************************************************************)
(* The acceptor (restinio/impl/acceptor.hpp) with the connection count     *)
(* limiter (restinio/connection_count_limiter.hpp, actual_limiter_t).      *)
(*                                                                         *)
(* The acceptor owns a fixed pool of socket slots.  Each slot goes round:  *)
(* accept_next asks the limiter; the limiter lets it accept now, or keeps  *)
(* its index until a connection ends.  The acceptor's handlers and the     *)
(* destructors of connections run on different threads; what the limiter   *)
(* does under its lock is one action here and everything between two       *)
(* critical sections interleaves.                                          *)
(*                                                                         *)
(* A server may be closed and opened again; the slots of every opening are *)
(* told apart here, <<k, i>> being slot i as the k-th open() started it.   *)
(***************************************************************************)
EXTENDS Integers, Sequences, FiniteSets

CONSTANTS
    Slots,        \* indexes of the socket slots (concurrent_accepts_count)
    MaxParallel,  \* m_max_parallel_connections
    MaxOpens,     \* bound: how often open() is called
    AcceptFaults  \* accepts that end without a connection: "deny" (IP-blocker
                  \* or remote_endpoint() throws), "error" (accept fails)

ASSUME AcceptorAssumption ==
    /\ IsFiniteSet(Slots)
    /\ MaxParallel \in Nat
    /\ MaxOpens \in Nat

Token == (1 .. MaxOpens) \X Slots

VARIABLES
    open,         \* m_acceptor is open
    opens,        \* calls of open() so far
    place,        \* where every slot is
    active,       \* m_active_accepts
    connections,  \* m_connections: lifetime monitors that exist
    pending,      \* m_pending_indexes, used as a stack
    leaked        \* history: active accepts that were never given back

vars == <<open, opens, place, active, connections, pending, leaked>>

\* "none": not started; "calling": accept_next is about to run for it;
\* "accepting": async_accept runs; "accepted" and "aborted": its handler is
\* posted; "pending": kept by the limiter; "lost": no handler will run for it.
Places == {"none", "calling", "accepting", "accepted", "aborted", "pending", "lost"}

At(p) == {t \in Token : place[t] \in p}

\* Mutant: accepts in progress are not counted.
HasFreeSlotsConnectionsOnly == connections < MaxParallel

HasFreeSlots == active + connections < MaxParallel

Init ==
    /\ open = FALSE
    /\ opens = 0
    /\ place = [t \in Token |-> "none"]
    /\ active = 0
    /\ connections = 0
    /\ pending = <<>>
    /\ leaked = 0

\* open: accept_next for every slot.
Open ==
    /\ ~open
    /\ opens < MaxOpens
    /\ open' = TRUE
    /\ opens' = opens + 1
    /\ place' = [t \in Token |-> IF t[1] = opens + 1 THEN "calling" ELSE place[t]]
    /\ UNCHANGED <<active, connections, pending, leaked>>

\* Mutant: the accept that starts is not counted.
AcceptNextUncounted(t) ==
    /\ place[t] = "calling"
    /\ IF HasFreeSlots
       THEN /\ place' = [place EXCEPT ![t] = IF open THEN "accepting" ELSE "aborted"]
            /\ UNCHANGED pending
       ELSE /\ pending' = Append(pending, t)
            /\ place' = [place EXCEPT ![t] = "pending"]
    /\ UNCHANGED <<open, opens, active, connections, leaked>>

\* accept_next and call_accept_now.  On a closed acceptor async_accept fails.
AcceptNext(t) ==
    /\ place[t] = "calling"
    /\ IF HasFreeSlots
       THEN /\ active' = active + 1
            /\ place' = [place EXCEPT ![t] = IF open THEN "accepting" ELSE "aborted"]
            /\ UNCHANGED pending
       ELSE /\ pending' = Append(pending, t)
            /\ place' = [place EXCEPT ![t] = "pending"]
            /\ UNCHANGED active
    /\ UNCHANGED <<open, opens, connections, leaked>>

\* A client connects: the handler of async_accept is posted.
ClientConnects(t) ==
    /\ open
    /\ place[t] = "accepting"
    /\ place' = [place EXCEPT ![t] = "accepted"]
    /\ UNCHANGED <<open, opens, active, connections, pending, leaked>>

\* accept_current_connection up to accept_next: do_accept_current_connection
\* makes the lifetime monitor (increment_parallel_connections).
AcceptCurrentConnection(t) ==
    /\ place[t] = "accepted"
    /\ active' = active - 1
    /\ connections' = connections + 1
    /\ place' = [place EXCEPT ![t] = "calling"]
    /\ UNCHANGED <<open, opens, pending, leaked>>

\* accept_connection_for_socket_with_index without a connection: the IP-blocker
\* denies it, or remote_endpoint() throws and the exception is suppressed.
DenyCurrentConnection(t) ==
    /\ "deny" \in AcceptFaults
    /\ place[t] = "accepted"
    /\ place' = [place EXCEPT ![t] = "calling"]
    /\ leaked' = leaked + 1
    /\ UNCHANGED <<open, opens, active, connections, pending>>

\* The handler of async_accept gets an error and does nothing.
AcceptFails(t) ==
    /\ \/ place[t] = "aborted"
       \/ place[t] = "accepting" /\ "error" \in AcceptFaults
    /\ place' = [place EXCEPT ![t] = "lost"]
    /\ leaked' = leaked + 1
    /\ UNCHANGED <<open, opens, active, connections, pending>>

\* Mutants: an index that waits is never taken; it is taken and not removed.
TakesPendingNever(conns) == FALSE
RemainingAll == pending

\* decrement_parallel_connections takes an index if there is a free slot now.
TakesPending(conns) == active + conns < MaxParallel /\ pending # <<>>

\* m_pending_indexes.pop_back()
Remaining == SubSeq(pending, 1, Len(pending) - 1)

\* The destructor of a lifetime monitor: decrement_parallel_connections, then
\* schedule_next_accept_attempt posts accept_next.
DecrementParallelConnections ==
    /\ connections > 0
    /\ connections' = connections - 1
    /\ IF TakesPending(connections - 1)
       THEN /\ pending' = Remaining
            /\ place' = [place EXCEPT ![pending[Len(pending)]] = "calling"]
       ELSE UNCHANGED <<pending, place>>
    /\ UNCHANGED <<open, opens, active, leaked>>

\* close: the accept operations are aborted.
Close ==
    /\ open
    /\ open' = FALSE
    /\ place' = [t \in Token |-> IF place[t] = "accepting" THEN "aborted" ELSE place[t]]
    /\ UNCHANGED <<opens, active, connections, pending, leaked>>

Next ==
    \/ Open
    \/ Close
    \/ DecrementParallelConnections
    \/ \E t \in Token :
          \/ AcceptNext(t)
          \/ ClientConnects(t)
          \/ AcceptCurrentConnection(t)
          \/ DenyCurrentConnection(t)
          \/ AcceptFails(t)

\* Posted handlers run; clients keep connecting; connections end.
Fairness ==
    /\ \A t \in Token :
          /\ WF_vars(AcceptNext(t))
          /\ WF_vars(ClientConnects(t))
          /\ WF_vars(AcceptCurrentConnection(t))
          /\ WF_vars(AcceptFails(t) /\ place[t] = "aborted")
    /\ WF_vars(DecrementParallelConnections)

Spec == Init /\ [][Next]_vars
FairSpec == Spec /\ Fairness

-----------------------------------------------------------------------------
(* Properties.                                                             *)

\* The counters and the stack of indexes stay in their ranges; the counters,
\* which are unsigned, never wrap below zero.
TypeOK ==
    /\ open \in BOOLEAN
    /\ opens \in 0 .. MaxOpens
    /\ place \in [Token -> Places]
    /\ active \in Nat
    /\ connections \in Nat
    /\ pending \in Seq(Token)
    /\ leaked \in Nat

\* The limit holds at every moment, also while connections are being accepted
\* and closed on several threads: accepts in progress are counted too.
LimitRespected == active + connections <= MaxParallel

\* m_active_accepts is the number of accepts that are in progress; nothing else
\* keeps a slot of the limiter occupied while the acceptor is open for the
\* first time (the comment at m_active_accepts allows a missing
\* increment_parallel_connections() on shutdown only).
ActiveAcceptsExact ==
    open /\ opens = 1 => active = Cardinality(At({"accepting", "accepted"}))

\* Whatever happens, m_active_accepts counts the accepts in progress and those
\* that ended without a connection, and nothing else.
ActiveAcceptsAccounted ==
    active = Cardinality(At({"accepting", "accepted", "aborted"})) + leaked

\* No wake-up is lost: while the limiter keeps an index, every free slot of the
\* limiter is about to be claimed by an accept_next that is called or posted.
\* The check and the push in accept_next, and the decrement and the pop in
\* decrement_parallel_connections, race with each other.
NoLostWakeup ==
    pending # <<>> => active + connections + Cardinality(At({"calling"})) >= MaxParallel

\* An index is kept by the limiter once: the stack holds exactly the slots that
\* are waiting, so an index that waits is given back exactly once.
PendingOnce ==
    /\ \A k \in 1 .. Len(pending) : place[pending[k]] = "pending"
    /\ \A j, k \in 1 .. Len(pending) : pending[j] = pending[k] => j = k
    /\ \A t \in At({"pending"}) : \E k \in 1 .. Len(pending) : pending[k] = t

\* The acceptor that stays open comes back to accepting as long as it can: as
\* long as the accepts that ended without a connection have not used up the
\* limit, and some slot of this opening did not end with an error.
KeepsAccepting ==
    open ~> \/ ~open
            \/ At({"accepting"}) # {}
            \/ leaked >= MaxParallel
            \/ \A s \in Slots : place[<<opens, s>>] = "lost"
=============================================================================
