--------------------------- MODULE ResponseContext ---------------------------
(***************************************************************************)
(* Write groups and response contexts: the values that the response        *)
(* coordinator stores (restinio/buffers.hpp, write_group_t, and            *)
(* restinio/impl/response_coordinator.hpp, response_context_t).            *)
(*                                                                         *)
(* The bytes of a response are abstracted to opaque items.  A group keeps  *)
(* the items in order, whether its first item starts with a status line,   *)
(* and its notificator: 0 when there is none, otherwise the number of the  *)
(* part of the response that brought the callback.                         *)
(***************************************************************************)
EXTENDS Naturals, Sequences

NoNotificator == 0

\* write_group_t
Group(Item) ==
    [items : Seq(Item), status : BOOLEAN, cb : Nat]

\* Mutant: the items of the second group are put before those of the first.
MergeSwapped(first, second) ==
    [items  |-> second.items \o first.items,
     status |-> first.status,
     cb     |-> second.cb]

\* write_group_t::merge: the items of the second group go after those of the
\* first, the status line of the first and the callback of the second stay.
Merge(first, second) ==
    [items  |-> first.items \o second.items,
     status |-> first.status,
     cb     |-> second.cb]

\* response_context_t
Context(Item) ==
    [id : Nat, groups : Seq(Group(Item)), final : BOOLEAN, close : BOOLEAN]

\* A context as std::vector::resize makes it.
FreshContext ==
    [id |-> 0, groups |-> <<>>, final |-> FALSE, close |-> FALSE]

\* response_context_t::reinit.  The container of write groups is left alone.
Reinit(ctx, id) ==
    [ctx EXCEPT !.id = id, !.final = FALSE, !.close = FALSE]

\* Mutant: a group joins the one before it although that has a notificator.
EnqueueGroupAnyNotificator(groups, wg) ==
    LET n == Len(groups) IN
    IF n > 0 /\ ~wg.status
    THEN [groups EXCEPT ![n].items = @ \o wg.items]
    ELSE Append(groups, wg)

\* response_context_t::enqueue_group
EnqueueGroup(groups, wg) ==
    LET n == Len(groups) IN
    IF n > 0 /\ groups[n].cb = NoNotificator /\ ~wg.status
    THEN [groups EXCEPT ![n] = Merge(@, wg)]
    ELSE Append(groups, wg)

\* The effect of an accepted append_response on its context: the flags are
\* replaced and the group is enqueued.
Supplied(ctx, final, close, wg) ==
    [ctx EXCEPT !.final = final, !.close = close,
                !.groups = EnqueueGroup(@, wg)]

\* response_context_t::dequeue_group, the context that is left.
Dequeued(ctx) ==
    [ctx EXCEPT !.groups = Tail(@)]

\* The items that wait in a context.
ItemsOf(ctx) ==
    UNION {{ctx.groups[i].items[k] : k \in 1 .. Len(ctx.groups[i].items)} :
              i \in 1 .. Len(ctx.groups)}

\* Mutant: groups that still wait are overlooked.
IsCompleteFinalOnly(ctx) == ctx.final

\* response_context_t::is_complete
IsComplete(ctx) ==
    ctx.groups = <<>> /\ ctx.final
=============================================================================
