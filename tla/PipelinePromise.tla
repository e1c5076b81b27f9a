--------------------------- MODULE PipelinePromise ---------------------------
(***************************************************************************)
(* What the response coordinator promises, without tables, contexts or     *)
(* write groups: responses are numbered streams of parts and only the      *)
(* oldest unfinished one moves.                                            *)
(***************************************************************************)
EXTENDS Naturals

CONSTANTS MaxReqCount, MaxRequests, MaxParts

VARIABLES head,    \* the oldest request in process
          nextId,  \* the number of the next request
          closed,  \* a response with the close attribute has been emitted
          have,    \* have[r]: parts supplied for r
          sent,    \* sent[r]: parts of r that were emitted
          ending   \* ending[r]: "open", "final" or "final_close"

vars == <<head, nextId, closed, have, sent, ending>>

RequestId == 0 .. MaxRequests - 1

Init ==
    /\ head = 0
    /\ nextId = 0
    /\ closed = FALSE
    /\ have = [r \in RequestId |-> 0]
    /\ sent = [r \in RequestId |-> 0]
    /\ ending = [r \in RequestId |-> "open"]

\* At most MaxReqCount requests are in process.
Register ==
    /\ nextId < MaxRequests
    /\ nextId - head < MaxReqCount
    /\ nextId' = nextId + 1
    /\ UNCHANGED <<head, closed, have, sent, ending>>

\* One more part for a request in process whose response is not ended.
Supply(r, e) ==
    /\ ~closed
    /\ r \in head .. nextId - 1
    /\ ending[r] = "open"
    /\ have[r] < MaxParts
    /\ have' = [have EXCEPT ![r] = @ + 1]
    /\ ending' = [ending EXCEPT ![r] = e]
    /\ UNCHANGED <<head, nextId, closed, sent>>

\* Some of the parts of the oldest response leave; when an ended response has
\* left completely the next one may move, unless it asked to close.
Emit(k) ==
    /\ ~closed
    /\ head < nextId
    /\ sent[head] + k <= have[head]
    /\ sent' = [sent EXCEPT ![head] = @ + k]
    /\ LET finished == sent[head] + k = have[head] /\ ending[head] # "open" IN
       /\ head' = IF finished THEN head + 1 ELSE head
       /\ closed' = (finished /\ ending[head] = "final_close")
    /\ UNCHANGED <<nextId, have, ending>>

\* Everything that has not left is forgotten.
Discard ==
    /\ head' = nextId
    /\ UNCHANGED <<nextId, closed, have, sent, ending>>

Next ==
    \/ Register
    \/ \E r \in RequestId, e \in {"open", "final", "final_close"} : Supply(r, e)
    \/ \E k \in 1 .. MaxParts : Emit(k)
    \/ Discard

Spec == Init /\ [][Next]_vars
=============================================================================
