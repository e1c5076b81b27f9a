---------------------------- MODULE ResponseTable ----------------------------
(***************************************************************************)
(* The operations of response_context_table_t and response_coordinator_t   *)
(* (restinio/impl/response_coordinator.hpp) on a table q seen as a         *)
(* sequence of contexts, one per request in process, oldest first.         *)
(***************************************************************************)
EXTENDS ResponseContext, FiniteSets, SequencesExt

CONSTANT MaxReqCount  \* max_req_count: the size of the context table

ASSUME ReqCountAssumption == MaxReqCount \in Nat \ {0}

IsFull(q) == Len(q) = MaxReqCount

\* Mutant: the size of the table is not looked at.
IsAbleWhileFull(q, isClosed) == ~isClosed

\* is_able_to_get_more_messages
IsAbleToGetMoreMessages(q, isClosed) == ~isClosed /\ ~IsFull(q)

\* push_response_context on a table that is not full.
Pushed(q, id) == Append(q, Reinit(FreshContext, id))

\* get_by_req_id: the position of the context of a request, 0 for nullptr.
Position(q, id) ==
    IF q = <<>> \/ id < q[1].id \/ id > q[Len(q)].id
    THEN 0
    ELSE id - q[1].id + 1

\* append_response does not throw.
Accepts(q, isClosed, id) ==
    /\ ~isClosed
    /\ Position(q, id) # 0
    /\ ~q[Position(q, id)].final

\* append_response
Appended(q, id, final, close, wg) ==
    [q EXCEPT ![Position(q, id)] = Supplied(@, final, close, wg)]

\* pop_ready_buffers finds a group; only the oldest request can be written.
HasReady(q) == q # <<>> /\ q[1].groups # <<>>

\* What pop_ready_buffers returns and what it leaves in the table.
ReadyGroup(q) == q[1].groups[1]

Popped(q) ==
    LET ctx == Dequeued(q[1]) IN
    IF IsComplete(ctx) THEN Tail(q) ELSE [q EXCEPT ![1] = ctx]

\* pop_ready_buffers has taken the last group of a response that asks for the
\* connection to be closed.
PopCloses(q) ==
    LET ctx == Dequeued(q[1]) IN IsComplete(ctx) /\ ctx.close

\* The items that wait in a context, in order.
Waiting(ctx) ==
    FlattenSeq([i \in 1 .. Len(ctx.groups) |-> ctx.groups[i].items])
=============================================================================
