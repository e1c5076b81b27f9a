---------------------------- MODULE ResponseQueue ----------------------------
(***************************************************************************)
(* The response coordinator (restinio/impl/response_coordinator.hpp) with  *)
(* its table of contexts seen as a queue: one context per request in       *)
(* process, oldest first.  ResponseCoordinator.tla has the ring buffer that*)
(* the code really uses and is shown to implement this module; the         *)
(* connection is built on the same operators, those of ResponseTable.tla.   *)
(*                                                                         *)
(* A response is supplied in numbered parts.  Part n of the response to    *)
(* request r is the item <<r, n>>.                                         *)
(***************************************************************************)
EXTENDS ResponseTable

CONSTANTS MaxRequests,  \* bound: requests registered in a behaviour
          MaxParts      \* bound: parts supplied per response

RequestId == 0 .. MaxRequests - 1
Part == RequestId \X (1 .. MaxParts)

-----------------------------------------------------------------------------
VARIABLES queue,    \* m_context_table
          nextId,   \* m_request_id_counter
          closed,   \* m_connection_closed_response_occured
          have,     \* history: parts accepted for each request
          ending,   \* history: how each response ends, as far as it is known
          out,      \* history: items handed out by pop_ready_buffers
          dropped   \* history: items discarded by reset

vars == <<queue, nextId, closed, have, ending, out, dropped>>

Init ==
    /\ queue = <<>>
    /\ nextId = 0
    /\ closed = FALSE
    /\ have = [r \in RequestId |-> 0]
    /\ ending = [r \in RequestId |-> "open"]
    /\ out = <<>>
    /\ dropped = {}

\* register_new_request; a full table makes it throw and change nothing.
RegisterNewRequest ==
    /\ nextId < MaxRequests
    /\ ~IsFull(queue)
    /\ queue' = Pushed(queue, nextId)
    /\ nextId' = nextId + 1
    /\ UNCHANGED <<closed, have, ending, out, dropped>>

\* The group of the next part of a response as the response builders make it:
\* the first part carries the status line (message_builders.hpp).
PartGroup(id, n, notify) ==
    [items  |-> << <<id, n>> >>,
     status |-> n = 1,
     cb     |-> IF notify THEN n ELSE NoNotificator]

\* append_response; when it throws nothing changes here, the group is
\* destroyed and its destructor calls the notificator with an error.
AppendResponse(id, final, close, notify) ==
    /\ have[id] < MaxParts
    /\ Accepts(queue, closed, id)
    /\ queue' = Appended(queue, id, final, close,
                         PartGroup(id, have[id] + 1, notify))
    /\ have' = [have EXCEPT ![id] = @ + 1]
    /\ ending' = [ending EXCEPT ![id] = IF ~final THEN "open"
                                       ELSE IF close THEN "final_close"
                                       ELSE "final"]
    /\ UNCHANGED <<nextId, closed, out, dropped>>

\* pop_ready_buffers when it returns a group.
PopReadyBuffers ==
    /\ ~closed
    /\ HasReady(queue)
    /\ out' = out \o ReadyGroup(queue).items
    /\ closed' = PopCloses(queue)
    /\ queue' = Popped(queue)
    /\ UNCHANGED <<nextId, have, ending, dropped>>

\* reset: every context is emptied and removed.
Reset ==
    /\ queue # <<>>
    /\ dropped' = dropped \cup UNION {ItemsOf(queue[i]) : i \in 1 .. Len(queue)}
    /\ queue' = <<>>
    /\ UNCHANGED <<nextId, closed, have, ending, out>>

Next ==
    \/ RegisterNewRequest
    \/ \E id \in RequestId, final, close, notify \in BOOLEAN :
          AppendResponse(id, final, close, notify)
    \/ PopReadyBuffers
    \/ Reset

Spec == Init /\ [][Next]_vars

-----------------------------------------------------------------------------
(* Properties.                                                             *)

\* The variables hold what the members of response_coordinator_t can hold.
TypeOK ==
    /\ queue \in Seq(Context(Part))
    /\ Len(queue) <= MaxReqCount
    /\ nextId \in 0 .. MaxRequests
    /\ closed \in BOOLEAN
    /\ have \in [RequestId -> 0 .. MaxParts]
    /\ ending \in [RequestId -> {"open", "final", "final_close"}]
    /\ out \in Seq(Part)
    /\ dropped \subseteq Part

\* Whatever order the handlers answer in, the parts leave the coordinator in
\* the order of the requests, each response from its first part on without a
\* gap, and a response is not overtaken before its last part has left or the
\* rest of it was discarded (pop_ready_buffers serves front() only and removes
\* complete contexts only).
OutInRequestOrder ==
    \A i \in 1 .. Len(out) :
        LET id == out[i][1]  n == out[i][2] IN
        IF n > 1
        THEN i > 1 /\ out[i - 1] = <<id, n - 1>>
        ELSE i = 1 \/ LET last == out[i - 1] IN
                      /\ last[1] < id
                      /\ \A m \in last[2] + 1 .. have[last[1]] :
                            <<last[1], m>> \in dropped

\* A part that append_response accepted is in exactly one place: waiting in the
\* context of its own request, handed out once, or discarded by reset.
NoPartLostOrDuplicated ==
    \A r \in RequestId, n \in 1 .. MaxParts :
        LET inQueue == {p \in (1 .. Len(queue)) \X (1 .. MaxParts) :
                            /\ p[2] <= Len(Waiting(queue[p[1]]))
                            /\ Waiting(queue[p[1]])[p[2]] = <<r, n>>}
            inOut   == {i \in 1 .. Len(out) : out[i] = <<r, n>>}
            inDrop  == IF <<r, n>> \in dropped THEN 1 ELSE 0
        IN /\ Cardinality(inQueue) + Cardinality(inOut) + inDrop
                = (IF n <= have[r] THEN 1 ELSE 0)
           /\ \A p \in inQueue : queue[p[1]].id = r

\* The requests in process have consecutive numbers, the newest one being the
\* last that was given out: what get_by_req_id's arithmetic relies on.
IdsConsecutive ==
    \A i \in 1 .. Len(queue) : queue[i].id = nextId - Len(queue) + i - 1

\* A notificator is called after the write of its own part, never earlier: in
\* every waiting group only the last item may have brought a callback, so a
\* merge cannot tie a callback to data that is written after it.
NotificatorOfLastItem ==
    \A i \in 1 .. Len(queue) : \A g \in ToSet(queue[i].groups) :
        g.cb # NoNotificator =>
            /\ g.items # <<>>
            /\ Last(g.items) = <<queue[i].id, g.cb>>

\* The coordinator keeps the promise of PipelinePromise: head-of-line order, no
\* part skipped, nothing accepted or emitted after a closing response, at most
\* MaxReqCount requests in process.
Promise == INSTANCE PipelinePromise WITH
    head <- nextId - Len(queue),
    sent <- [r \in RequestId |-> Cardinality({i \in 1 .. Len(out) : out[i][1] = r})]

KeepsPipelinePromise == Promise!Spec
=============================================================================
