---------------------- MODULE ResponseCoordinatorProofs ----------------------
(***************************************************************************)
(* Proofs about ResponseCoordinator.tla for any size of the ring and any   *)
(* number of requests and parts.                                           *)
(***************************************************************************)
EXTENDS ResponseCoordinator, Integers, TLAPS

\* The inductive invariant: the ids around the ring are what makes the
\* arithmetic of get_by_req_id right.
IInv ==
    /\ TypeOK
    /\ exists <= nextId
    /\ LiveIdsConsecutive
    /\ FreeCellsEmpty

-----------------------------------------------------------------------------
(* Indexes around the ring.                                                *)

\* One subtraction replaces the remainder for the indexes that occur.
LEMMA ModOnce ==
  ASSUME NEW n \in Nat \ {0}, NEW k \in 0 .. 2 * n - 1
  PROVE  k % n = IF k < n THEN k ELSE k - n
OBVIOUS

\* The cell k places after the first one.
CellAt(k) == (first + k) % MaxReqCount

\* CellAt as a case distinction.
LEMMA CellAtValue ==
  ASSUME TypeOK, NEW k \in 0 .. MaxReqCount
  PROVE  /\ CellAt(k) = IF first + k < MaxReqCount THEN first + k ELSE first + k - MaxReqCount
         /\ CellAt(k) \in Cell
<1>1. /\ MaxReqCount \in Nat \ {0} /\ first \in 0 .. MaxReqCount - 1
      /\ first + k \in 0 .. 2 * MaxReqCount - 1
  BY ReqCountAssumption DEF TypeOK, Cell
<1>2. (first + k) % MaxReqCount
        = IF first + k < MaxReqCount THEN first + k ELSE first + k - MaxReqCount
  <2> DEFINE sum == first + k
  <2>1. sum \in 0 .. 2 * MaxReqCount - 1
    BY <1>1
  <2> HIDE DEF sum
  <2>2. sum % MaxReqCount = IF sum < MaxReqCount THEN sum ELSE sum - MaxReqCount
    BY <1>1, <2>1, ModOnce
  <2>3. QED
    BY <1>1, <2>2 DEF sum
<1>3. (IF first + k < MaxReqCount THEN first + k ELSE first + k - MaxReqCount)
        \in 0 .. MaxReqCount - 1
  BY <1>1
<1>4. QED
  BY <1>2, <1>3 DEF CellAt, Cell

\* Different offsets below the size of the ring are different cells.
LEMMA CellAtInjective ==
  ASSUME TypeOK, NEW j \in 0 .. MaxReqCount - 1, NEW k \in 0 .. MaxReqCount - 1,
         CellAt(j) = CellAt(k)
  PROVE  j = k
<1>1. /\ j \in 0 .. MaxReqCount /\ k \in 0 .. MaxReqCount /\ MaxReqCount \in Nat
      /\ first \in 0 .. MaxReqCount - 1
  BY ReqCountAssumption DEF TypeOK, Cell
<1>2. /\ CellAt(j) = IF first + j < MaxReqCount THEN first + j ELSE first + j - MaxReqCount
      /\ CellAt(k) = IF first + k < MaxReqCount THEN first + k ELSE first + k - MaxReqCount
  BY <1>1, CellAtValue
<1>3. (IF first + j < MaxReqCount THEN first + j ELSE first + j - MaxReqCount)
        = IF first + k < MaxReqCount THEN first + k ELSE first + k - MaxReqCount
  BY <1>2
<1>4. QED
  BY <1>1, <1>3

-----------------------------------------------------------------------------
(* Types of the operations on contexts.                                    *)

\* The group of a part is a write group.
LEMMA PartGroupType ==
  ASSUME TypeOK, NEW id \in RequestId, NEW notify \in BOOLEAN, have[id] < MaxParts
  PROVE  PartGroup(id, have[id] + 1, notify) \in Group(Part)
<1>1. have[id] + 1 \in 1 .. MaxParts
  BY BoundsAssumption DEF TypeOK
<1>2. <<id, have[id] + 1>> \in Part
  BY <1>1 DEF Part
<1>3. << <<id, have[id] + 1>> >> \in Seq(Part)
  BY <1>2
<1>4. QED
  BY <1>1, <1>3 DEF PartGroup, Group, NoNotificator

\* enqueue_group keeps a container of write groups.
LEMMA EnqueueGroupType ==
  ASSUME NEW S, NEW groups \in Seq(Group(S)), NEW wg \in Group(S)
  PROVE  EnqueueGroup(groups, wg) \in Seq(Group(S))
<1>1. CASE Len(groups) > 0 /\ groups[Len(groups)].cb = NoNotificator /\ ~wg.status
  <2>1. groups[Len(groups)] \in Group(S)
    BY <1>1
  <2>2. Merge(groups[Len(groups)], wg) \in Group(S)
    BY <2>1 DEF Merge, Group
  <2>3. [groups EXCEPT ![Len(groups)] = Merge(@, wg)] \in Seq(Group(S))
    BY <1>1, <2>2
  <2>4. QED
    BY <1>1, <2>3 DEF EnqueueGroup
<1>2. CASE ~(Len(groups) > 0 /\ groups[Len(groups)].cb = NoNotificator /\ ~wg.status)
  BY <1>2 DEF EnqueueGroup
<1>3. QED
  BY <1>1, <1>2

\* append_response keeps a context and its id.
LEMMA SuppliedType ==
  ASSUME NEW S, NEW ctx \in Context(S), NEW final \in BOOLEAN, NEW close \in BOOLEAN,
         NEW wg \in Group(S)
  PROVE  /\ Supplied(ctx, final, close, wg) \in Context(S)
         /\ Supplied(ctx, final, close, wg).id = ctx.id
<1>1. EnqueueGroup(ctx.groups, wg) \in Seq(Group(S))
  BY EnqueueGroupType DEF Context
<1>2. QED
  BY <1>1 DEF Supplied, Context

\* reinit keeps a context, gives it the new id and leaves its groups.
LEMMA ReinitType ==
  ASSUME NEW S, NEW ctx \in Context(S), NEW id \in Nat
  PROVE  /\ Reinit(ctx, id) \in Context(S)
         /\ Reinit(ctx, id).id = id
         /\ Reinit(ctx, id).groups = ctx.groups
BY DEF Reinit, Context

\* dequeue_group keeps a context and its id.
LEMMA DequeuedType ==
  ASSUME NEW S, NEW ctx \in Context(S), ctx.groups # <<>>
  PROVE  /\ Dequeued(ctx) \in Context(S)
         /\ Dequeued(ctx).id = ctx.id
<1>1. Tail(ctx.groups) \in Seq(Group(S))
  BY DEF Context
<1>2. QED
  BY <1>1 DEF Dequeued, Context

\* Emptying the container keeps a context.
LEMMA EmptiedType ==
  ASSUME NEW S, NEW ctx \in Context(S)
  PROVE  [ctx EXCEPT !.groups = <<>>] \in Context(S)
<1>1. <<>> \in Seq(Group(S))
  OBVIOUS
<1> DEFINE none == <<>>
<1>2. none \in Seq(Group(S))
  BY <1>1
<1> HIDE DEF none
<1>3. [ctx EXCEPT !.groups = none] \in Context(S)
  BY <1>2 DEF Context
<1>4. QED
  BY <1>3 DEF none

\* The items of a context of parts are parts.
LEMMA ItemsOfType ==
  ASSUME NEW S, NEW ctx \in Context(S)
  PROVE  ItemsOf(ctx) \subseteq S
<1> SUFFICES ASSUME NEW i \in 1 .. Len(ctx.groups),
                    NEW k \in 1 .. Len(ctx.groups[i].items)
             PROVE  ctx.groups[i].items[k] \in S
  BY DEF ItemsOf
<1>1. ctx.groups \in Seq(Group(S))
  BY DEF Context
<1>2. ctx.groups[i] \in Group(S)
  BY <1>1
<1>3. ctx.groups[i].items \in Seq(S)
  BY <1>2 DEF Group
<1>4. QED
  BY <1>3

-----------------------------------------------------------------------------
(* The invariant holds initially and is kept by every action.              *)

\* An empty ring satisfies it.
LEMMA InitIInv == Init => IInv
<1> SUFFICES ASSUME Init PROVE IInv
  OBVIOUS
<1> USE DEF Init
<1>1. FreshContext \in Context(Part)
  BY DEF FreshContext, Context
<1>2. first \in Cell /\ exists \in 0 .. MaxReqCount /\ nextId \in 0 .. MaxRequests
  BY ReqCountAssumption, BoundsAssumption DEF Cell
<1>3. have \in [RequestId -> 0 .. MaxParts]
  BY BoundsAssumption
<1>4. TypeOK
  BY <1>1, <1>2, <1>3 DEF TypeOK
<1>5. LiveIdsConsecutive /\ FreeCellsEmpty
  BY DEF LiveIdsConsecutive, FreeCellsEmpty, FreshContext
<1>6. QED
  BY <1>4, <1>5 DEF IInv

\* The facts about the ring that every action's proof starts from.
LEMMA RingFacts ==
  ASSUME IInv
  PROVE  /\ MaxReqCount \in Nat \ {0} /\ first \in 0 .. MaxReqCount - 1
         /\ exists \in 0 .. MaxReqCount /\ nextId \in Nat
         /\ Live = {CellAt(k) : k \in 0 .. exists - 1}
         /\ \A k \in 0 .. exists - 1 : contexts[CellAt(k)].id = nextId - exists + k
         /\ CellAt(0) = first
<1>1. /\ MaxReqCount \in Nat \ {0} /\ first \in 0 .. MaxReqCount - 1
      /\ exists \in 0 .. MaxReqCount /\ nextId \in Nat
  BY ReqCountAssumption DEF IInv, TypeOK, Cell
<1>2. CellAt(0) = first
  <2>1. 0 \in 0 .. MaxReqCount
    BY <1>1
  <2>2. CellAt(0) = IF first + 0 < MaxReqCount THEN first + 0 ELSE first + 0 - MaxReqCount
    BY <2>1, CellAtValue DEF IInv
  <2>3. QED
    BY <1>1, <2>2
<1>3. QED
  BY <1>1, <1>2 DEF IInv, Live, LiveIdsConsecutive, CellAt

\* register_new_request takes the free cell after the last one.
LEMMA RegisterKeeps == ASSUME IInv, RegisterNewRequest PROVE IInv'
<1> DEFINE c == CellAt(exists)
<1>1. /\ exists < MaxReqCount /\ exists \in 0 .. MaxReqCount - 1
      /\ nextId \in 0 .. MaxRequests - 1 /\ exists <= nextId
  BY RingFacts, BoundsAssumption DEF RegisterNewRequest, IsFull, IInv, TypeOK
<1>2. /\ contexts' = [contexts EXCEPT ![c] = Reinit(@, nextId)]
      /\ exists' = exists + 1 /\ nextId' = nextId + 1
      /\ UNCHANGED <<first, closed, have, ending, out, dropped>>
  BY DEF RegisterNewRequest, PushContext, CellAt
<1>3. c \in Cell
  BY <1>1, CellAtValue, RingFacts DEF IInv
<1> HIDE DEF c
<1>4. contexts[c] \in Context(Part)
  BY <1>3 DEF IInv, TypeOK
<1>5. Reinit(contexts[c], nextId) \in Context(Part) /\ Reinit(contexts[c], nextId).id = nextId
  BY <1>1, <1>4, ReinitType
<1>6. TypeOK'
  BY <1>1, <1>2, <1>3, <1>5, RingFacts, BoundsAssumption DEF IInv, TypeOK
<1>7. \A k \in 0 .. exists - 1 : CellAt(k) \in Cell /\ CellAt(k) # c
  <2> SUFFICES ASSUME NEW k \in 0 .. exists - 1
               PROVE  CellAt(k) \in Cell /\ CellAt(k) # c
    OBVIOUS
  <2>1. k \in 0 .. MaxReqCount /\ k \in 0 .. MaxReqCount - 1 /\ k # exists
    BY <1>1, RingFacts
  <2>2. CellAt(k) \in Cell
    BY <2>1, CellAtValue DEF IInv
  <2>3. CellAt(k) # CellAt(exists)
    BY <1>1, <2>1, CellAtInjective DEF IInv
  <2>4. QED
    BY <2>2, <2>3 DEF c
<1>8. LiveIdsConsecutive'
  <2> SUFFICES ASSUME NEW k \in 0 .. exists
               PROVE  contexts'[CellAt(k)].id = nextId - exists + k
    BY <1>1, <1>2, RingFacts DEF LiveIdsConsecutive, CellAt
  <2>1. CASE k = exists
    BY <1>2, <1>3, <1>5, <2>1, RingFacts DEF IInv, TypeOK, c
  <2>2. CASE k # exists
    <3>1. k \in 0 .. exists - 1
      BY <1>1, <2>2
    <3>2. contexts'[CellAt(k)] = contexts[CellAt(k)]
      BY <1>2, <1>7, <3>1 DEF IInv, TypeOK
    <3>3. QED
      BY <3>1, <3>2, RingFacts
  <2>3. QED
    BY <2>1, <2>2
<1>9. FreeCellsEmpty'
  <2>1. Live' = Live \cup {c}
    <3>1. Live' = {CellAt(k) : k \in 0 .. exists}
      BY <1>1, <1>2, RingFacts DEF Live, CellAt
    <3>2. 0 .. exists = (0 .. exists - 1) \cup {exists}
      BY <1>1
    <3>3. QED
      BY <3>1, <3>2, RingFacts DEF c
  <2>2. QED
    BY <1>2, <1>3, <2>1 DEF IInv, FreeCellsEmpty, TypeOK
<1>10. exists' <= nextId'
  BY <1>1, <1>2, RingFacts
<1>11. QED
  BY <1>6, <1>8, <1>9, <1>10 DEF IInv

\* What get_by_req_id computes: the request is known exactly if it is among the
\* last ones, and the index is that of its cell.
LEMMA Lookup ==
  ASSUME IInv, NEW id \in RequestId
  PROVE  /\ Known(id) <=> id \in nextId - exists .. nextId - 1
         /\ Known(id) => /\ id - (nextId - exists) \in 0 .. exists - 1
                         /\ RealIndex(id) = CellAt(id - (nextId - exists))
                         /\ contexts[RealIndex(id)].id = id
<1>1. id \in Nat
  BY BoundsAssumption DEF RequestId
<1>2. CASE exists = 0
  BY <1>1, <1>2, RingFacts DEF Known
<1>3. CASE exists # 0
  <2>1. exists > 0 /\ 0 \in 0 .. exists - 1 /\ exists - 1 \in 0 .. exists - 1
    BY <1>3, RingFacts
  <2>2. FrontContext.id = nextId - exists
    BY <2>1, RingFacts DEF FrontContext
  <2>3. BackContext.id = nextId - 1
    <3>1. BackContext.id = nextId - exists + (exists - 1)
      BY <2>1, RingFacts DEF BackContext, CellAt
    <3>2. QED
      BY <3>1, RingFacts
  <2>4. Known(id) <=> id \in nextId - exists .. nextId - 1
    BY <1>1, <2>1, <2>2, <2>3, RingFacts DEF Known
  <2>5. ASSUME Known(id)
        PROVE  /\ id - (nextId - exists) \in 0 .. exists - 1
               /\ RealIndex(id) = CellAt(id - (nextId - exists))
               /\ contexts[RealIndex(id)].id = id
    <3> DEFINE k == id - (nextId - exists)
    <3>1. k \in 0 .. exists - 1
      BY <1>1, <2>4, <2>5, RingFacts
    <3>2. RealIndex(id) = CellAt(k)
      BY <2>2 DEF RealIndex, CellAt
    <3>3. contexts[CellAt(k)].id = nextId - exists + k
      BY <3>1, RingFacts
    <3>4. nextId - exists + k = id
      BY <1>1, RingFacts
    <3>5. QED
      BY <3>1, <3>2, <3>3, <3>4
  <2>6. QED
    BY <2>4, <2>5
<1>4. QED
  BY <1>2, <1>3

\* append_response changes the context of a request in process, not its id.
LEMMA AppendKeeps ==
  ASSUME IInv, NEW id \in RequestId, NEW final \in BOOLEAN, NEW close \in BOOLEAN,
         NEW notify \in BOOLEAN, AppendResponse(id, final, close, notify)
  PROVE  IInv'
<1> DEFINE k == id - (nextId - exists)
           c == RealIndex(id)
           wg == PartGroup(id, have[id] + 1, notify)
           new == Supplied(contexts[c], final, close, wg)
<1>1. /\ contexts' = [contexts EXCEPT ![c] = new]
      /\ have' = [have EXCEPT ![id] = @ + 1] /\ have[id] < MaxParts
      /\ ending' = [ending EXCEPT ![id] = IF ~final THEN "open"
                                         ELSE IF close THEN "final_close"
                                         ELSE "final"]
      /\ UNCHANGED <<first, exists, nextId, closed, out, dropped>>
      /\ Known(id)
  BY DEF AppendResponse
<1>2. k \in 0 .. exists - 1 /\ c = CellAt(k)
  BY <1>1, Lookup
<1>3. c \in Cell
  <2>1. k \in 0 .. MaxReqCount
    BY <1>2, RingFacts
  <2>2. QED
    BY <1>2, <2>1, CellAtValue DEF IInv
<1>4. c \in Live
  BY <1>2, RingFacts
<1>5. contexts[c] \in Context(Part) /\ wg \in Group(Part)
  BY <1>1, <1>3, PartGroupType DEF IInv, TypeOK
<1> HIDE DEF k, c, wg
<1>6. new \in Context(Part) /\ new.id = contexts[c].id
  BY <1>5, SuppliedType
<1> HIDE DEF new
<1>7. have' \in [RequestId -> 0 .. MaxParts]
  BY <1>1, BoundsAssumption DEF IInv, TypeOK
<1>8. TypeOK'
  BY <1>1, <1>3, <1>6, <1>7 DEF IInv, TypeOK
<1>9. LiveIdsConsecutive'
  <2>1. \A d \in Cell : contexts'[d].id = contexts[d].id
    BY <1>1, <1>3, <1>6 DEF IInv, TypeOK
  <2>2. \A j \in 0 .. exists - 1 : CellAt(j) \in Cell
    <3> SUFFICES ASSUME NEW j \in 0 .. exists - 1 PROVE CellAt(j) \in Cell
      OBVIOUS
    <3>1. j \in 0 .. MaxReqCount
      BY RingFacts
    <3>2. QED
      BY <3>1, CellAtValue DEF IInv
  <2>3. QED
    BY <1>1, <2>1, <2>2, RingFacts DEF LiveIdsConsecutive, CellAt
<1>10. FreeCellsEmpty'
  <2>1. Live' = Live
    BY <1>1 DEF Live
  <2>2. QED
    BY <1>1, <1>4, <2>1 DEF IInv, FreeCellsEmpty, TypeOK
<1>11. QED
  BY <1>1, <1>8, <1>9, <1>10 DEF IInv

\* pop_ready_buffers frees the first cell only when it has no groups left.
LEMMA PopKeeps == ASSUME IInv, PopReadyBuffers PROVE IInv'
<1> DEFINE new == Dequeued(contexts[first])
<1>1. /\ exists > 0 /\ contexts[first].groups # <<>>
      /\ out' = out \o contexts[first].groups[1].items
      /\ contexts' = [contexts EXCEPT ![first] = new]
      /\ UNCHANGED <<nextId, have, ending, dropped>>
  BY DEF PopReadyBuffers, FrontContext
<1>2. first \in Cell /\ contexts[first] \in Context(Part)
  BY DEF IInv, TypeOK
<1>3. new \in Context(Part) /\ new.id = contexts[first].id
  BY <1>1, <1>2, DequeuedType
<1>4. contexts' \in [Cell -> Context(Part)]
  BY <1>1, <1>3 DEF IInv, TypeOK
<1>5. out' \in Seq(Part)
  <2>1. contexts[first].groups \in Seq(Group(Part))
    BY <1>2 DEF Context
  <2>2. contexts[first].groups[1] \in Group(Part)
    BY <1>1, <2>1
  <2>3. contexts[first].groups[1].items \in Seq(Part)
    BY <2>2 DEF Group
  <2>4. QED
    BY <1>1, <2>3 DEF IInv, TypeOK
<1>6. \A d \in Cell : contexts'[d].id = contexts[d].id
  BY <1>1, <1>2, <1>3 DEF IInv, TypeOK
<1>7. first \in Live
  <2>1. 0 \in 0 .. exists - 1
    BY <1>1, RingFacts
  <2>2. QED
    BY <2>1, RingFacts
<1>8. \A j \in 0 .. exists - 1 : CellAt(j) \in Cell
  <2> SUFFICES ASSUME NEW j \in 0 .. exists - 1 PROVE CellAt(j) \in Cell
    OBVIOUS
  <2>1. j \in 0 .. MaxReqCount
    BY RingFacts
  <2>2. QED
    BY <2>1, CellAtValue DEF IInv
<1>9. CASE ~IsComplete(new)
  <2>1. UNCHANGED <<closed, first, exists>>
    BY <1>9 DEF PopReadyBuffers, FrontContext
  <2>2. TypeOK'
    BY <1>1, <1>4, <1>5, <2>1 DEF IInv, TypeOK
  <2>3. LiveIdsConsecutive'
    <3> SUFFICES ASSUME NEW j \in 0 .. exists - 1
                 PROVE  contexts'[CellAt(j)].id = nextId - exists + j
      BY <1>1, <2>1 DEF LiveIdsConsecutive, CellAt
    <3>1. contexts'[CellAt(j)].id = contexts[CellAt(j)].id
      BY <1>6, <1>8
    <3>2. QED
      BY <3>1, RingFacts
  <2>4. Live' = Live
    BY <2>1 DEF Live
  <2>5. FreeCellsEmpty'
    BY <1>1, <1>7, <2>4 DEF IInv, FreeCellsEmpty, TypeOK
  <2>6. QED
    BY <1>1, <2>1, <2>2, <2>3, <2>5 DEF IInv
<1>10. CASE IsComplete(new)
  <2>1. /\ closed' = contexts[first].close
        /\ exists' = exists - 1
        /\ first' = IF first + 1 = MaxReqCount THEN 0 ELSE first + 1
    BY <1>10 DEF PopReadyBuffers, FrontContext, PopContext
  <2>2. closed' \in BOOLEAN
    BY <1>2, <2>1 DEF Context
  <2>3. first' \in Cell /\ exists' \in 0 .. MaxReqCount
    BY <1>1, <2>1, RingFacts DEF Cell
  <2>4. TypeOK'
    BY <1>1, <1>4, <1>5, <2>2, <2>3 DEF IInv, TypeOK
  <2>5. \A j \in 0 .. exists - 2 : (first' + j) % MaxReqCount = CellAt(j + 1)
    <3> SUFFICES ASSUME NEW j \in 0 .. exists - 2
                 PROVE  (first' + j) % MaxReqCount = CellAt(j + 1)
      OBVIOUS
    <3>1. j \in 0 .. MaxReqCount /\ j + 1 \in 0 .. MaxReqCount
      BY RingFacts
    <3>2. CellAt(j + 1) = IF first + (j + 1) < MaxReqCount
                          THEN first + (j + 1) ELSE first + (j + 1) - MaxReqCount
      BY <3>1, CellAtValue DEF IInv
    <3>3. first' + j \in 0 .. 2 * MaxReqCount - 1
      BY <2>1, <3>1, RingFacts
    <3> DEFINE sum == first' + j
    <3>4. sum \in 0 .. 2 * MaxReqCount - 1
      BY <3>3
    <3> HIDE DEF sum
    <3>5. sum % MaxReqCount = IF sum < MaxReqCount THEN sum ELSE sum - MaxReqCount
      BY <3>4, ModOnce, ReqCountAssumption
    <3>6. (IF sum < MaxReqCount THEN sum ELSE sum - MaxReqCount)
            = IF first + (j + 1) < MaxReqCount
              THEN first + (j + 1) ELSE first + (j + 1) - MaxReqCount
      BY <2>1, <3>1, RingFacts DEF sum
    <3>7. sum % MaxReqCount = CellAt(j + 1)
      BY <3>2, <3>5, <3>6
    <3>8. QED
      BY <3>7 DEF sum
  <2>6. LiveIdsConsecutive'
    <3> SUFFICES ASSUME NEW j \in 0 .. exists - 2
                 PROVE  contexts'[(first' + j) % MaxReqCount].id
                          = nextId' - exists' + j
      BY <2>1, RingFacts DEF LiveIdsConsecutive
    <3>1. j + 1 \in 0 .. exists - 1
      BY RingFacts
    <3>2. contexts'[CellAt(j + 1)].id = nextId - exists + (j + 1)
      BY <1>6, <1>8, <3>1, RingFacts
    <3>3. nextId' - exists' + j = nextId - exists + (j + 1)
      <4>1. nextId' = nextId /\ exists' = exists - 1
        BY <1>1, <2>1
      <4>2. nextId \in Int /\ exists \in Int /\ j \in Int
        BY RingFacts
      <4>3. nextId - (exists - 1) + j = nextId - exists + (j + 1)
        BY <4>2
      <4>4. QED
        BY <4>1, <4>3
    <3>4. QED
      BY <2>5, <3>2, <3>3
  <2>7. Live \subseteq Live' \cup {first}
    <3> SUFFICES ASSUME NEW k \in 0 .. exists - 1, CellAt(k) # first
                 PROVE  CellAt(k) \in Live'
      BY RingFacts
    <3>1. k # 0
      BY RingFacts
    <3>2. k - 1 \in 0 .. exists - 2 /\ (k - 1) + 1 = k /\ k - 1 \in 0 .. exists' - 1
      BY <2>1, <3>1, RingFacts
    <3>3. (first' + (k - 1)) % MaxReqCount = CellAt(k)
      BY <2>5, <3>2
    <3>4. QED
      BY <3>2, <3>3 DEF Live
  <2>8. FreeCellsEmpty'
    <3>1. new.groups = <<>>
      BY <1>10 DEF IsComplete
    <3>2. QED
      BY <1>1, <1>2, <2>7, <3>1 DEF IInv, FreeCellsEmpty, TypeOK
  <2>9. exists' <= nextId'
    BY <1>1, <2>1, RingFacts DEF IInv
  <2>10. QED
    BY <2>4, <2>6, <2>8, <2>9 DEF IInv
<1>11. QED
  BY <1>9, <1>10

\* reset empties every cell that holds a context.
LEMMA ResetKeeps == ASSUME IInv, Reset PROVE IInv'
<1>1. /\ exists' = 0 /\ first' = CellAt(exists)
      /\ contexts' = [c \in Cell |-> IF c \in Live
                                     THEN [contexts[c] EXCEPT !.groups = <<>>]
                                     ELSE contexts[c]]
      /\ dropped' = dropped \cup UNION {ItemsOf(contexts[c]) : c \in Live}
      /\ UNCHANGED <<nextId, closed, have, ending, out>>
  BY DEF Reset, CellAt
<1>2. Live \subseteq Cell
  <2> SUFFICES ASSUME NEW k \in 0 .. exists - 1 PROVE CellAt(k) \in Cell
    BY RingFacts
  <2>1. k \in 0 .. MaxReqCount
    BY RingFacts
  <2>2. QED
    BY <2>1, CellAtValue DEF IInv
<1>3. \A c \in Cell : [contexts[c] EXCEPT !.groups = <<>>] \in Context(Part)
  BY EmptiedType DEF IInv, TypeOK
<1>4. dropped' \subseteq Part
  <2>1. \A c \in Live : ItemsOf(contexts[c]) \subseteq Part
    BY <1>2, ItemsOfType DEF IInv, TypeOK
  <2>2. QED
    BY <1>1, <2>1 DEF IInv, TypeOK
<1>5. first' \in Cell /\ exists' \in 0 .. MaxReqCount
  BY <1>1, CellAtValue, RingFacts DEF IInv
<1>6. contexts' \in [Cell -> Context(Part)]
  BY <1>1, <1>3 DEF IInv, TypeOK
<1>7. TypeOK'
  BY <1>1, <1>4, <1>5, <1>6 DEF IInv, TypeOK
<1>8. LiveIdsConsecutive'
  BY <1>1 DEF LiveIdsConsecutive
<1>9. \A c \in Cell : contexts'[c].groups = <<>>
  <2> SUFFICES ASSUME NEW c \in Cell PROVE contexts'[c].groups = <<>>
    OBVIOUS
  <2>1. contexts[c] \in Context(Part)
    BY DEF IInv, TypeOK
  <2>2. CASE c \in Live
    BY <1>1, <2>1, <2>2 DEF Context
  <2>3. CASE c \notin Live
    BY <1>1, <2>3 DEF IInv, FreeCellsEmpty
  <2>4. QED
    BY <2>2, <2>3
<1>10. FreeCellsEmpty'
  BY <1>9 DEF FreeCellsEmpty
<1>11. exists' <= nextId'
  BY <1>1, RingFacts
<1>12. QED
  BY <1>7, <1>8, <1>10, <1>11 DEF IInv

-----------------------------------------------------------------------------
(* The theorems.                                                           *)

\* The inductive invariant holds in every state the coordinator reaches.
THEOREM Invariance == Spec => []IInv
<1>1. IInv /\ [Next]_vars => IInv'
  <2> SUFFICES ASSUME IInv, [Next]_vars PROVE IInv'
    OBVIOUS
  <2>1. CASE RegisterNewRequest
    BY <2>1, RegisterKeeps
  <2>2. ASSUME NEW id \in RequestId, NEW final \in BOOLEAN, NEW close \in BOOLEAN,
               NEW notify \in BOOLEAN, AppendResponse(id, final, close, notify)
        PROVE  IInv'
    BY <2>2, AppendKeeps
  <2>3. CASE PopReadyBuffers
    BY <2>3, PopKeeps
  <2>4. CASE Reset
    BY <2>4, ResetKeeps
  <2>5. CASE UNCHANGED vars
    BY <2>5 DEF vars, IInv, TypeOK, LiveIdsConsecutive, FreeCellsEmpty, Live
  <2>6. QED
    BY <2>1, <2>2, <2>3, <2>4, <2>5 DEF Next
<1>2. QED
  BY <1>1, InitIInv, PTL DEF Spec

\* The members of the table and of the coordinator stay in their ranges,
\* whatever the size of the ring.
THEOREM TypeCorrect == Spec => []TypeOK
BY Invariance, PTL DEF IInv

\* get_by_req_id finds the requests in process and no others, and the index it
\* computes is that of the request that was asked for.
THEOREM LookupAlwaysExact == Spec => []LookupExact
<1>1. IInv => LookupExact
  BY Lookup DEF LookupExact
<1>2. QED
  BY <1>1, Invariance, PTL

\* A cell that push_response_context takes has no groups of an old response.
THEOREM FreeCellsAlwaysEmpty == Spec => []FreeCellsEmpty
BY Invariance, PTL DEF IInv

=============================================================================
