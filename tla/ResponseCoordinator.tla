------------------------- MODULE ResponseCoordinator -------------------------
(***************************************************************************)
(* response_coordinator_t with response_context_table_t as the code stores *)
(* it: a vector of MaxReqCount contexts used as a ring                     *)
(* (restinio/impl/response_coordinator.hpp).  A cell is reused without     *)
(* being cleared and a context is found by arithmetic on request numbers,  *)
(* never by a search.                                                      *)
(***************************************************************************)
EXTENDS ResponseContext, FiniteSets

CONSTANTS MaxReqCount,  \* max_req_count
          MaxRequests,  \* bound: requests registered in a behaviour
          MaxParts      \* bound: parts supplied per response

ASSUME ReqCountAssumption == MaxReqCount \in Nat \ {0}
ASSUME BoundsAssumption == MaxRequests \in Nat /\ MaxParts \in Nat

VARIABLES contexts,  \* m_contexts
          first,     \* m_first_element_index
          exists,    \* m_elements_exists
          nextId,    \* m_request_id_counter
          closed,    \* m_connection_closed_response_occured
          have, ending, out, dropped  \* the histories of ResponseQueue

vars == <<contexts, first, exists, nextId, closed, have, ending, out, dropped>>

RequestId == 0 .. MaxRequests - 1
Part == RequestId \X (1 .. MaxParts)
Cell == 0 .. MaxReqCount - 1

-----------------------------------------------------------------------------
(* response_context_table_t                                                *)

IsFull == exists = MaxReqCount

FrontContext == contexts[first]

BackContext == contexts[(first + (exists - 1)) % MaxReqCount]

\* Mutant: the number of the first request is not subtracted.
RealIndexAbsolute(id) == (first + id) % MaxReqCount

\* get_real_index
RealIndex(id) == (first + (id - FrontContext.id)) % MaxReqCount

\* Mutant: requests older than the first one pass the check.
KnownUpperBoundOnly(id) == exists > 0 /\ id <= BackContext.id

\* get_by_req_id does not return nullptr.
Known(id) == exists > 0 /\ FrontContext.id <= id /\ id <= BackContext.id

\* push_response_context on a table that is not full.
PushContext(id) ==
    /\ contexts' = [contexts EXCEPT ![(first + exists) % MaxReqCount] = Reinit(@, id)]
    /\ exists' = exists + 1
    /\ UNCHANGED first

\* pop_response_context_nonchecked
PopContext ==
    /\ exists' = exists - 1
    /\ first' = IF first + 1 = MaxReqCount THEN 0 ELSE first + 1

-----------------------------------------------------------------------------
(* response_coordinator_t                                                  *)

Init ==
    /\ contexts = [c \in Cell |-> FreshContext]
    /\ first = 0
    /\ exists = 0
    /\ nextId = 0
    /\ closed = FALSE
    /\ have = [r \in RequestId |-> 0]
    /\ ending = [r \in RequestId |-> "open"]
    /\ out = <<>>
    /\ dropped = {}

RegisterNewRequest ==
    /\ nextId < MaxRequests
    /\ ~IsFull
    /\ PushContext(nextId)
    /\ nextId' = nextId + 1
    /\ UNCHANGED <<closed, have, ending, out, dropped>>

PartGroup(id, n, notify) ==
    [items  |-> << <<id, n>> >>,
     status |-> n = 1,
     cb     |-> IF notify THEN n ELSE NoNotificator]

AppendResponse(id, final, close, notify) ==
    /\ have[id] < MaxParts
    /\ ~closed
    /\ Known(id)
    /\ ~contexts[RealIndex(id)].final
    /\ contexts' = [contexts EXCEPT ![RealIndex(id)] =
                        Supplied(@, final, close, PartGroup(id, have[id] + 1, notify))]
    /\ have' = [have EXCEPT ![id] = @ + 1]
    /\ ending' = [ending EXCEPT ![id] = IF ~final THEN "open"
                                       ELSE IF close THEN "final_close"
                                       ELSE "final"]
    /\ UNCHANGED <<first, exists, nextId, closed, out, dropped>>

PopReadyBuffers ==
    /\ ~closed
    /\ exists > 0
    /\ FrontContext.groups # <<>>
    /\ out' = out \o FrontContext.groups[1].items
    /\ contexts' = [contexts EXCEPT ![first] = Dequeued(@)]
    /\ IF IsComplete(Dequeued(FrontContext))
       THEN closed' = FrontContext.close /\ PopContext
       ELSE UNCHANGED <<closed, first, exists>>
    /\ UNCHANGED <<nextId, have, ending, dropped>>

\* The cells of the contexts that exist.
Live == {(first + k) % MaxReqCount : k \in 0 .. exists - 1}

\* reset: each context that exists is emptied, then popped; first moves with
\* every pop.
Reset ==
    /\ exists > 0
    /\ contexts' = [c \in Cell |-> IF c \in Live
                                   THEN [contexts[c] EXCEPT !.groups = <<>>]
                                   ELSE contexts[c]]
    /\ first' = (first + exists) % MaxReqCount
    /\ exists' = 0
    /\ dropped' = dropped \cup UNION {ItemsOf(contexts[c]) : c \in Live}
    /\ UNCHANGED <<nextId, closed, have, ending, out>>

Next ==
    \/ RegisterNewRequest
    \/ \E id \in RequestId, final, close, notify \in BOOLEAN :
          AppendResponse(id, final, close, notify)
    \/ PopReadyBuffers
    \/ Reset

Spec == Init /\ [][Next]_vars

-----------------------------------------------------------------------------
(* Properties.                                                             *)

\* The members of the table and of the coordinator stay in their ranges.
TypeOK ==
    /\ contexts \in [Cell -> Context(Part)]
    /\ first \in Cell
    /\ exists \in 0 .. MaxReqCount
    /\ nextId \in 0 .. MaxRequests
    /\ closed \in BOOLEAN
    /\ have \in [RequestId -> 0 .. MaxParts]
    /\ ending \in [RequestId -> {"open", "final", "final_close"}]
    /\ out \in Seq(Part)
    /\ dropped \subseteq Part

\* The contexts that exist are those of the last requests, in order around the
\* ring, wherever the ring starts.
LiveIdsConsecutive ==
    \A k \in 0 .. exists - 1 :
        contexts[(first + k) % MaxReqCount].id = nextId - exists + k

\* get_by_req_id finds exactly the requests in process, and the context whose
\* index it computes is the one of the request that was asked for: a late or
\* repeated answer is never attached to another request.
LookupExact ==
    \A id \in RequestId :
        /\ Known(id) <=> id \in nextId - exists .. nextId - 1
        /\ Known(id) => contexts[RealIndex(id)].id = id

\* reinit does not clear the groups of the cell it reuses, and need not: a cell
\* that holds no context has no groups left, so no data of an old response can
\* leak into a new one.
FreeCellsEmpty ==
    \A c \in Cell \ Live : contexts[c].groups = <<>>

\* The ring implements the queue of contexts.
Ring == INSTANCE ResponseQueue WITH
    queue <- [k \in 1 .. exists |-> contexts[(first + k - 1) % MaxReqCount]]

ImplementsResponseQueue == Ring!Spec

\* The ring keeps the promise of PipelinePromise as well: head-of-line order, no part
\* skipped, nothing accepted or emitted after a closing response.
KeepsPipelinePromise == Ring!KeepsPipelinePromise

\* Every part that append_response accepted waits in the context of its own request,
\* or was handed out once in its place, or was discarded by reset; and a merge of
\* groups never ties a notificator to a part that is written after its own.
PartsAccounted ==
    /\ Ring!NoPartLostOrDuplicated
    /\ Ring!OutInRequestOrder
    /\ Ring!NotificatorOfLastItem
=============================================================================
