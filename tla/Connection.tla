------------------------------ MODULE Connection ------------------------------
(***************************************************************************)
(* One HTTP connection: connection_t (restinio/impl/connection.hpp) with   *)
(* its input (parser and buffer), its response coordinator, its write      *)
(* context (restinio/impl/write_group_output_ctx.hpp) and its timer guard. *)
(*                                                                         *)
(* The functions of connection_t call each other, and user code, on the    *)
(* stack of one thread of the strand.  The variable stack holds the calls  *)
(* that have still to run, the next one first, so that every C++ function  *)
(* is one action; Catch marks a try block whose handler closes the         *)
(* connection.  Completions of socket operations, timer checks and writes  *)
(* posted by other threads start only when the strand is free              *)
(* (stack = <<>>).                                                         *)
(*                                                                         *)
(* The client sends requests 1 .. MaxMessages, each as two fragments: the  *)
(* fragments of request r are the numbers 2r-1 and 2r.  A parser that is   *)
(* reset between the two sees the second as the start of a message and     *)
(* reports an error.                                                       *)
(***************************************************************************)
EXTENDS ResponseTable

CONSTANTS
    MaxMessages,   \* requests the client sends on this connection
    Upgrades,      \* those of them that ask for an upgrade
    MaxParts,      \* bound: parts a handler supplies for one response
    MaxIov,        \* max_iov_len(): buffers in one trivial write operation
    FileParts,     \* part numbers written with sendfile
    EmptyParts,    \* part numbers without data (flush() or done() with none)
    NotifyParts,   \* part numbers with an after-write notificator
    AnswerPoints,  \* where user code answers: "handler", "notificator", "later"
    Results,       \* how user code returns: "accepted", "rejected", "throws"
    CloseAttrs,    \* connection-close attributes of responses, a set of BOOLEANs
    UpgradeCloseAttrs, \* those of the responses to upgrade requests
    UpgradesToWs,  \* BOOLEAN: handlers may turn the connection into a websocket
    Faults         \* "peer": the client may disconnect and break operations

ASSUME ConnectionAssumption ==
    /\ MaxMessages \in Nat /\ MaxParts \in Nat /\ MaxIov \in Nat \ {0}
    /\ Upgrades \subseteq 1 .. MaxMessages
    /\ FileParts \subseteq 2 .. MaxParts     \* the first part starts with the
    /\ EmptyParts \subseteq 2 .. MaxParts    \* header, a trivial buffer
    /\ NotifyParts \subseteq 1 .. MaxParts
    /\ CloseAttrs \subseteq BOOLEAN /\ UpgradeCloseAttrs \subseteq BOOLEAN

\* An upgrade request that is answered like an ordinary one can be handed to
\* the user once more; the request numbers are bounded one above the messages.
MaxIds == MaxMessages + 1
RequestId == 0 .. MaxIds - 1
LastFragment == 2 * MaxMessages

\* A notificator is named by the request and the part it belongs to.
NotificatorOf(id, n) == id * (MaxParts + 1) + n
Notificators == {NotificatorOf(id, n) : id \in RequestId, n \in NotifyParts}

VARIABLES
    stack,     \* the calls that have still to run on the strand
    sock,      \* m_socket: "open", "closed" or "moved" to a websocket
    pos,       \* fragments that the client's stream has delivered
    buf,       \* m_buf: fragments that are read and not consumed
    parsed,    \* fragments the parser has taken since it was reset
    header,    \* the message in m_header, 0 when it is empty or moved out
    stage,     \* m_connection_upgrade_stage
    reading,   \* the read operation
    table, nextId, closed,  \* m_response_coordinator
    current,   \* m_current_wg: <<>> or one write group
    index,     \* m_next_writable_item_index
    writing,   \* the write operation
    batch,     \* the items of the last write operation
    resume,    \* m_init_read_after_this_write
    timer,     \* the timer: "idle", "armed" or "queued" (its handler is posted)
    guarding,  \* m_current_timeout_cb: what is guarded
    overdue,   \* the clock is past m_current_timeout_after
    have, done, held,      \* user: parts made, final part made, requests held
    wire, handled, told,   \* history: items written, messages handed to the
                           \* handler, results each notificator was called with
    causes     \* history: why close() was called

inputVars   == <<buf, parsed, header, stage>>
coordVars   == <<table, nextId, closed>>
outputVars  == <<current, index, batch, resume>>
timerVars   == <<timer, guarding, overdue>>
guardVars   == <<guarding, overdue>>
userVars    == <<have, done, held>>
historyVars == <<wire, handled, told, causes>>
vars == <<stack, sock, pos, inputVars, reading, coordVars, outputVars, writing,
          timerVars, userVars, historyVars>>

-----------------------------------------------------------------------------
(* The control stack.                                                      *)

Call(fn) == [fn |-> fn]
Catch == Call("catch")
CloseCall(cause) == [fn |-> "close", cause |-> cause]
WriteCall(fn, id, final, close, wg) ==
    [fn |-> fn, id |-> id, final |-> final, close |-> close, wg |-> wg]
HandlerCall(id, upgrade) == [fn |-> "handler", id |-> id, upgrade |-> upgrade]

Top(fn) == stack # <<>> /\ stack[1].fn = fn

\* A try block that is reached again has ended without an exception.
Returned(s) ==
    LET i == SelectInSeq(s, LAMBDA f : f # Catch) IN
    IF i = 0 THEN <<>> ELSE SubSeq(s, i, Len(s))

\* The function on top runs the given calls and returns.
Then(calls) == stack' = Returned(calls \o Tail(stack))

\* The function on top throws: the nearest handler closes the connection.
Throw ==
    LET i == SelectInSeq(Tail(stack), LAMBDA f : f = Catch) IN
    stack' = <<CloseCall("exception")>> \o Returned(SubSeq(Tail(stack), i + 1, Len(stack) - 1))

-----------------------------------------------------------------------------
(* Operations on the parts of the connection.                              *)

Transmitting == current # <<>>

\* An operation that close() or cancel() meets has been completed before, its
\* handler being posted ("ready"; "failed" when the peer is gone), or not.
Cancelled(op, completed) ==
    IF op = "waiting" THEN {"aborted"} \cup completed ELSE {op}

Failures == IF "peer" \in Faults THEN {"failed"} ELSE {}

CancelRead ==
    reading' \in Cancelled(reading,
        Failures \cup (IF pos < LastFragment THEN {"ready"} ELSE {}))

\* An operation started on a socket that is not open completes with an error.
Started == IF sock = "open" THEN "waiting" ELSE "failed"

\* schedule_operation_timeout_callback
Guard(what) == guarding' = what /\ overdue' = FALSE

\* guard_read_operation
GuardRead == IF table = <<>> THEN Guard("read") ELSE UNCHANGED guardVars

\* guard_request_handling_operation
GuardHandling == IF ~Transmitting THEN Guard("handling") ELSE UNCHANGED guardVars

\* cancel_timeout_checking; a handler that is posted already will still run.
CancelTimeoutChecking ==
    /\ guarding' = "none"
    /\ timer' = IF timer = "armed" THEN "idle" ELSE timer
    /\ UNCHANGED overdue

\* invoke_after_write_notificator_if_exists and the destructor of a group that
\* still has its notificator: each of the given groups' notificators is called.
Notify(groups, result) ==
    told' = [c \in Notificators |->
                IF \E i \in 1 .. Len(groups) : groups[i].cb = c
                THEN Append(told[c], result)
                ELSE told[c]]

\* Mutants: the notificators are called and the contexts stay; the contexts go
\* and nobody is told.
ResetCoordinatorKeeps ==
    /\ UNCHANGED table
    /\ Notify(FlattenSeq([i \in 1 .. Len(table) |-> table[i].groups]), "error")

ResetCoordinatorSilently == table' = <<>> /\ UNCHANGED told

\* response_coordinator_t::reset: every waiting notificator is called.
ResetCoordinator ==
    /\ table' = <<>>
    /\ Notify(FlattenSeq([i \in 1 .. Len(table) |-> table[i].groups]), "error")

\* write_group_output_ctx_t::reset_write_group
ResetWriteGroup == current' = <<>> /\ index' = 0

\* Mutant: reading never goes on after a write.
NeverReadsAfterWrite(after) == FALSE

\* m_init_read_after_this_write, given the table that pop_ready_buffers leaves.
ReadsAfterWrite(after) == IsFull(table) /\ ~IsFull(after)

\* extract_next_write_operation: the index after the next operation, a run of
\* trivial buffers or one file.
NextIndex(items, i) ==
    LET isFile(k) == items[k][2] \in FileParts
        stops == {k \in i + 1 .. Len(items) : isFile(k)}
                 \cup {Len(items) + 1, i + MaxIov + 1}
    IN IF isFile(i + 1) THEN i + 1 ELSE Min(stops) - 1

\* The write group of part n, as the response builders make it.
PartGroup(id, n) ==
    [items  |-> IF n \in EmptyParts THEN <<>> ELSE << <<id, n>> >>,
     status |-> n = 1,
     cb     |-> IF n \in NotifyParts THEN NotificatorOf(id, n) ELSE NoNotificator]

-----------------------------------------------------------------------------
(* Reading.                                                                *)

\* connection_t's constructor and init(): the timer runs, reading starts.
Init ==
    /\ stack = <<Call("wait_for_http_message")>>
    /\ sock = "open"
    /\ pos = 0
    /\ buf = <<>> /\ parsed = <<>> /\ header = 0 /\ stage = "none"
    /\ reading = "idle"
    /\ table = <<>> /\ nextId = 0 /\ closed = FALSE
    /\ current = <<>> /\ index = 0 /\ batch = <<>> /\ writing = "idle" /\ resume = FALSE
    /\ timer = "armed" /\ guarding = "none" /\ overdue = TRUE
    /\ have = [id \in RequestId |-> 0] /\ done = {} /\ held = {}
    /\ wire = <<>> /\ handled = <<>> /\ causes = {}
    /\ told = [c \in Notificators |-> <<>>]

\* Mutant: only the context of the parser is reset.
ResetContextOnly == header' = 0 /\ UNCHANGED parsed

\* connection_input_t::reset_parser
ResetParser == parsed' = <<>> /\ header' = 0

\* Mutant: bytes that are in the buffer already are overlooked.
ReadAlways == Call("consume_message")

\* Bytes of a pipelined request are parsed before more are read.
ReadOrConsume == Call(IF buf # <<>> THEN "consume_data" ELSE "consume_message")

WaitForHttpMessage ==
    /\ Top("wait_for_http_message")
    /\ ResetParser
    /\ GuardRead
    /\ Then(<<ReadOrConsume>>)
    /\ UNCHANGED <<sock, pos, buf, stage, reading, coordVars, outputVars, writing,
                   timer, userVars, historyVars>>

ConsumeMessage ==
    /\ Top("consume_message")
    /\ reading' = IF reading = "idle" THEN Started ELSE reading
    /\ Then(<<>>)
    /\ UNCHANGED <<sock, pos, inputVars, coordVars, outputVars, writing, timerVars,
                   userVars, historyVars>>

\* after_read without an error: some fragments have arrived.
AfterRead ==
    /\ stack = <<>>
    /\ reading \in {"waiting", "ready"}
    /\ \E last \in pos + 1 .. LastFragment :
          /\ buf' = [k \in 1 .. last - pos |-> pos + k]
          /\ pos' = last
    /\ reading' = "idle"
    /\ stack' = <<Call("consume_data"), Catch>>
    /\ UNCHANGED <<sock, parsed, header, stage, coordVars, outputVars, writing,
                   timerVars, userVars, historyVars>>

\* after_read with an error: end of stream, reset by the peer, or the socket
\* was not open when the operation started.
AfterReadError ==
    /\ stack = <<>>
    /\ reading \in {"failed"} \cup (IF "peer" \in Faults THEN {"waiting"} ELSE {})
    /\ reading' = "idle"
    /\ stack' = <<CloseCall("io")>>
    /\ UNCHANGED <<sock, pos, inputVars, coordVars, outputVars, writing, timerVars,
                   userVars, historyVars>>

\* after_read of a cancelled operation.
AfterReadAborted ==
    /\ stack = <<>>
    /\ reading = "aborted"
    /\ reading' = "idle"
    /\ UNCHANGED <<stack, sock, pos, inputVars, coordVars, outputVars, writing,
                   timerVars, userVars, historyVars>>

\* http_parser_execute: the fragments it takes before it is out of input or
\* paused by the end of a message.
Taken(p, b) == SubSeq(b, 1, Min({2 - Len(p), Len(b)}))

\* What the parser has taken is the beginning of a message.
WellFormed(p) ==
    /\ Len(p) > 0 => p[1] % 2 = 1
    /\ Len(p) > 1 => p[2] = p[1] + 1

ConsumeData ==
    /\ Top("consume_data")
    /\ LET p == parsed \o Taken(parsed, buf) IN
       /\ parsed' = p
       /\ buf' = SubSeq(buf, Len(Taken(parsed, buf)) + 1, Len(buf))
       /\ header' = IF Len(p) = 2 /\ Len(parsed) < 2 THEN p[2] \div 2 ELSE header
       /\ IF ~WellFormed(p) THEN Then(<<CloseCall("parse_error")>>)
          ELSE IF Len(p) = 2 THEN Then(<<Call("on_request_message_complete")>>)
          ELSE Then(<<Call("consume_message")>>)
    /\ UNCHANGED <<sock, pos, stage, reading, coordVars, outputVars, writing,
                   timerVars, userVars, historyVars>>

-----------------------------------------------------------------------------
(* Handling of requests.                                                   *)

\* register_new_request and the call of the user's handler with the message,
\* which is moved out of the parser's context.
RegisterAndCallHandler(upgrade) ==
    /\ nextId < MaxIds
    /\ table' = Pushed(table, nextId)
    /\ nextId' = nextId + 1
    /\ handled' = Append(handled, header)
    /\ header' = 0
    /\ held' = held \cup {<<nextId, upgrade>>}

\* Mutant: an upgrade request does not wait for its turn.
UpgradeMayStartAtOnce == TRUE

\* m_response_coordinator.empty(): no request is in the coordinator, and the upgrade
\* request that is pending can be handled.
UpgradeMayStart == table = <<>>

OnRequestMessageComplete ==
    /\ Top("on_request_message_complete")
    /\ stage' = IF parsed[2] \div 2 \in Upgrades THEN "pending" ELSE stage
    /\ \/ /\ stage' = "none" /\ ~IsFull(table)
          /\ RegisterAndCallHandler(FALSE)
          /\ GuardHandling
          /\ Then(<<HandlerCall(nextId, FALSE), Catch>>)
       \/ /\ stage' = "none" /\ IsFull(table)
          /\ Then(<<CloseCall("exception")>>)
          /\ UNCHANGED <<header, table, nextId, handled, held, guardVars>>
       \/ /\ stage' # "none"
          /\ Then(IF UpgradeMayStart THEN <<Call("handle_upgrade_request"), Catch>> ELSE <<>>)
          /\ UNCHANGED <<header, table, nextId, handled, held, guardVars>>
    /\ UNCHANGED <<sock, pos, buf, parsed, reading, closed, outputVars, writing,
                   timer, have, done, wire, told, causes>>

HandleUpgradeRequest ==
    /\ Top("handle_upgrade_request")
    /\ RegisterAndCallHandler(TRUE)
    /\ CancelTimeoutChecking
    /\ stage' = "wait_result"
    /\ Then(<<HandlerCall(nextId, TRUE)>>)
    /\ UNCHANGED <<sock, pos, buf, parsed, reading, closed, outputVars, writing,
                   have, done, wire, told, causes>>

\* The user's handler returns accepted; for an ordinary request reading goes on
\* if the coordinator is able to get more messages.
HandlerAccepts ==
    /\ Top("handler") /\ "accepted" \in Results
    /\ Then(IF ~stack[1].upgrade /\ IsAbleToGetMoreMessages(table, closed)
            THEN <<Call("wait_for_http_message")>> ELSE <<>>)
    /\ UNCHANGED <<sock, pos, inputVars, reading, coordVars, outputVars, writing,
                   timerVars, userVars, historyVars>>

\* The user's handler returns rejected or not_handled before it has answered:
\* the connection answers 501 itself, with connection-close.
HandlerRejects ==
    /\ Top("handler") /\ "rejected" \in Results
    /\ LET id == stack[1].id IN
       /\ have[id] = 0
       /\ IF stack[1].upgrade /\ sock # "open"
          THEN Then(<<>>) /\ UNCHANGED <<have, done>>
          ELSE /\ Then(<<WriteCall("write", id, TRUE, TRUE,
                           [items |-> << <<id, 1>> >>, status |-> FALSE,
                            cb |-> NoNotificator])>>)
               /\ have' = [have EXCEPT ![id] = 1]
               /\ done' = done \cup {id}
       /\ held' = {h \in held : h[1] # id}
    /\ UNCHANGED <<sock, pos, inputVars, reading, coordVars, outputVars, writing,
                   timerVars, historyVars>>

HandlerThrows ==
    /\ Top("handler") /\ "throws" \in Results
    /\ Throw
    /\ UNCHANGED <<sock, pos, inputVars, reading, coordVars, outputVars, writing,
                   timerVars, userVars, historyVars>>

\* Where user code is running, or may be running on a thread of its own.
UserRuns ==
    \/ Top("handler") /\ "handler" \in AnswerPoints
    \/ Top("notificator") /\ "notificator" \in AnswerPoints
    \/ stack = <<>> /\ "later" \in AnswerPoints

\* A response builder sends the next part of a response: write_response_parts.
\* On the strand the write is dispatched, that is run, at once.
UserWrites ==
    /\ UserRuns
    /\ \E h \in held, final \in BOOLEAN :
          LET id == h[1]  n == have[id] + 1 IN
          /\ id \notin done /\ n <= MaxParts
          /\ \E close \in IF h[2] THEN UpgradeCloseAttrs ELSE CloseAttrs :
                stack' = <<WriteCall("write", id, final, close, PartGroup(id, n)),
                           Catch>> \o stack
          /\ have' = [have EXCEPT ![id] = n]
          /\ done' = IF final THEN done \cup {id} ELSE done
    /\ UNCHANGED <<sock, pos, inputVars, reading, coordVars, outputVars, writing,
                   timerVars, held, historyVars>>

\* websocket::basic::upgrade: the socket is moved out of the connection.
UserUpgrades ==
    /\ UserRuns /\ UpgradesToWs
    /\ \E h \in held :
          /\ h[2] /\ have[h[1]] = 0
          /\ held' = held \ {h}
    /\ sock = "open"
    /\ sock' = "moved"
    /\ UNCHANGED <<stack, pos, inputVars, reading, coordVars, outputVars, writing,
                   timerVars, have, done, historyVars>>

-----------------------------------------------------------------------------
(* Writing.                                                                *)

\* write_response_parts_impl up to the second check: on an open socket the
\* pipeline is resumed first if this answers an upgrade request.
WriteResponsePartsImpl ==
    /\ Top("write")
    /\ LET append == [stack[1] EXCEPT !.fn = "append"] IN
       IF sock # "open"
       THEN Then(<<>>) /\ Notify(<<stack[1].wg>>, "error")
       ELSE /\ Then(IF stage = "wait_result" /\ ~IsFull(table)
                    THEN <<Call("wait_for_http_message"), append>>
                    ELSE <<append>>)
            /\ UNCHANGED told
    /\ UNCHANGED <<sock, pos, inputVars, reading, coordVars, outputVars, writing,
                   timerVars, userVars, wire, handled, causes>>

\* The rest of write_response_parts_impl.  A group that append_response does
\* not accept is destroyed while the exception leaves it.
AppendResponse ==
    /\ Top("append")
    /\ LET w == stack[1] IN
       IF closed
       THEN Then(<<>>) /\ Notify(<<w.wg>>, "error") /\ UNCHANGED table
       ELSE IF ~Accepts(table, closed, w.id)
       THEN Throw /\ Notify(<<w.wg>>, "error") /\ UNCHANGED table
       ELSE /\ table' = Appended(table, w.id, w.final, w.close, w.wg)
            /\ Then(<<Call("init_write_if_necessary")>>)
            /\ UNCHANGED told
    /\ UNCHANGED <<sock, pos, inputVars, reading, nextId, closed, outputVars, writing,
                   timerVars, userVars, wire, handled, causes>>

\* init_write_if_necessary, init_write and handle_nothing_to_write.
\* pop_ready_buffers throws on a closed coordinator.
InitWriteIfNecessary ==
    /\ Top("init_write_if_necessary")
    /\ \/ /\ Transmitting
          /\ Then(<<>>)
          /\ UNCHANGED <<table, closed, outputVars, guardVars>>
       \/ /\ ~Transmitting /\ closed
          /\ Throw
          /\ UNCHANGED <<table, closed, outputVars, guardVars>>
       \/ /\ ~Transmitting /\ ~closed /\ HasReady(table)
          /\ table' = Popped(table)
          /\ closed' = PopCloses(table)
          /\ current' = <<ReadyGroup(table)>>
          /\ resume' = ReadsAfterWrite(table')
          /\ Then(<<Call("handle_current_write_ctx")>>)
          /\ UNCHANGED <<index, batch, guardVars>>
       \/ /\ ~Transmitting /\ ~closed /\ ~HasReady(table)
          /\ Then(<<>>)
          /\ IF table = <<>> THEN GuardRead ELSE GuardHandling
          /\ UNCHANGED <<table, closed, outputVars>>
    /\ UNCHANGED <<sock, pos, inputVars, reading, nextId, writing, timer, userVars,
                   historyVars>>

\* handle_current_write_ctx when there is an operation to run:
\* handle_trivial_write_operation or handle_file_write_operation.  With a
\* closing response reading is cancelled.
StartWriteOperation ==
    /\ Top("handle_current_write_ctx")
    /\ index < Len(current[1].items)
    /\ index' = NextIndex(current[1].items, index)
    /\ IF closed THEN CancelRead ELSE UNCHANGED reading
    /\ batch' = SubSeq(current[1].items, index + 1, index')
    /\ writing' = Started
    /\ Guard("writing")
    /\ Then(<<>>)
    /\ UNCHANGED <<sock, pos, inputVars, coordVars, current, resume, timer, userVars,
                   historyVars>>

\* handle_current_write_ctx at the end of the group: finish_write_group calls
\* the notificator.
FinishWriteGroup ==
    /\ Top("handle_current_write_ctx")
    /\ index >= Len(current[1].items)
    /\ Notify(current, "ok")
    /\ Then((IF current[1].cb = NoNotificator THEN <<>> ELSE <<Call("notificator")>>)
             \o <<Call("finish_handling_current_write_ctx"), Catch>>)
    /\ UNCHANGED <<sock, pos, inputVars, reading, coordVars, outputVars, writing,
                   timerVars, userVars, wire, handled, causes>>

NotificatorReturns ==
    /\ Top("notificator")
    /\ Then(<<>>)
    /\ UNCHANGED <<sock, pos, inputVars, reading, coordVars, outputVars, writing,
                   timerVars, userVars, historyVars>>

\* invoke_after_write_notificator_if_necessary resets the group and throws.
NotificatorThrows ==
    /\ Top("notificator") /\ "throws" \in Results
    /\ ResetWriteGroup
    /\ Throw
    /\ UNCHANGED <<sock, pos, inputVars, reading, coordVars, batch, resume, writing,
                   timerVars, userVars, historyVars>>

\* What an open connection does after a group: it reads on if that was put off,
\* handles an upgrade request whose turn has come, and writes what is ready.
GoOn ==
    IF stage = "none"
    THEN (IF resume THEN <<Call("wait_for_http_message")>> ELSE <<>>)
         \o <<Call("init_write_if_necessary")>>
    ELSE IF UpgradeMayStart THEN <<Call("handle_upgrade_request")>>
    ELSE <<Call("init_write_if_necessary")>>

AfterGroup == IF closed THEN <<CloseCall("response")>> ELSE GoOn

\* reset_write_group and the rest of finish_handling_current_write_ctx.
FinishHandlingCurrentWriteCtx ==
    /\ Top("finish_handling_current_write_ctx")
    /\ ResetWriteGroup
    /\ Then(AfterGroup)
    /\ UNCHANGED <<sock, pos, inputVars, reading, coordVars, batch, resume, writing,
                   timerVars, userVars, historyVars>>

\* after_write without an error.
AfterWrite ==
    /\ stack = <<>>
    /\ writing \in {"waiting", "ready"}
    /\ writing' = "idle"
    /\ wire' = wire \o batch
    /\ batch' = <<>>
    /\ stack' = <<Call("handle_current_write_ctx")>>
    /\ UNCHANGED <<sock, pos, inputVars, reading, coordVars, current, index, resume,
                   timerVars, userVars, handled, told, causes>>

\* after_write with an error other than operation_aborted, and with that one.
AfterWriteError ==
    /\ stack = <<>>
    /\ \/ /\ writing \in {"failed"} \cup (IF "peer" \in Faults THEN {"waiting"} ELSE {})
          /\ stack' = <<CloseCall("io"), Call("fail_write_group")>>
       \/ /\ writing = "aborted"
          /\ stack' = <<Call("fail_write_group")>>
    /\ writing' = "idle"
    /\ batch' = <<>>
    /\ UNCHANGED <<sock, pos, inputVars, reading, coordVars, current, index, resume,
                   timerVars, userVars, historyVars>>

\* fail_write_group.  The item index keeps its value, unless the notificator
\* throws: then the group is reset and after_write ignores the exception.
FailWriteGroup ==
    /\ Top("fail_write_group")
    /\ Notify(current, "error")
    /\ current' = <<>>
    /\ \/ UNCHANGED index
       \/ "throws" \in Results /\ current[1].cb # NoNotificator /\ index' = 0
    /\ Then(<<>>)
    /\ UNCHANGED <<sock, pos, inputVars, reading, coordVars, batch, resume, writing,
                   timerVars, userVars, wire, handled, causes>>

-----------------------------------------------------------------------------
(* Closing and timeouts.                                                   *)

\* close: the socket is closed and its operations are cancelled, the timer is
\* cancelled, the coordinator is reset and tells every waiting notificator.
Close ==
    /\ Top("close")
    /\ IF sock = "open"
       THEN /\ sock' = "closed"
            /\ CancelRead
            /\ writing' \in Cancelled(writing, Failures \cup {"ready"})
       ELSE UNCHANGED <<sock, reading, writing>>
    /\ CancelTimeoutChecking
    /\ ResetCoordinator
    /\ causes' = causes \cup {stack[1].cause}
    /\ Then(<<>>)
    /\ UNCHANGED <<pos, inputVars, nextId, closed, outputVars, userVars, wire, handled>>

\* The limit of the guarded operation passes.
TimePasses ==
    /\ ~overdue
    /\ overdue' = TRUE
    /\ UNCHANGED <<stack, sock, pos, inputVars, reading, coordVars, outputVars, writing,
                   timer, guarding, userVars, historyVars>>

\* The timer of asio_timer_manager_t expires; check_timeout is dispatched to
\* the strand.
TimerExpires ==
    /\ timer = "armed"
    /\ timer' = "queued"
    /\ UNCHANGED <<stack, sock, pos, inputVars, reading, coordVars, outputVars, writing,
                   guarding, overdue, userVars, historyVars>>

\* Mutant: the next check is not scheduled.
NoNextTimeoutChecking == "idle"

\* init_next_timeout_checking, unless the time limit has passed.
NextTimeoutChecking == IF overdue THEN "idle" ELSE "armed"

\* check_timeout_impl
CheckTimeout ==
    /\ stack = <<>>
    /\ timer = "queued"
    /\ timer' = NextTimeoutChecking
    /\ stack' = IF overdue /\ guarding # "none" THEN <<CloseCall("timeout")>> ELSE <<>>
    /\ UNCHANGED <<sock, pos, inputVars, reading, coordVars, outputVars, writing,
                   guarding, overdue, userVars, historyVars>>

-----------------------------------------------------------------------------
\* The functions that connection_t runs to completion on the strand.
Strand ==
    \/ WaitForHttpMessage \/ ConsumeMessage \/ ConsumeData
    \/ OnRequestMessageComplete \/ HandleUpgradeRequest
    \/ HandlerAccepts \/ HandlerRejects \/ HandlerThrows
    \/ WriteResponsePartsImpl \/ AppendResponse \/ InitWriteIfNecessary
    \/ StartWriteOperation \/ FinishWriteGroup
    \/ NotificatorReturns \/ NotificatorThrows
    \/ FinishHandlingCurrentWriteCtx \/ FailWriteGroup \/ Close

\* Completions that do not depend on the peer.
LocalCompletion ==
    \/ reading \in {"aborted", "failed"} /\ (AfterReadAborted \/ AfterReadError)
    \/ reading = "ready" /\ AfterRead
    \/ writing \in {"aborted", "failed"} /\ AfterWriteError
    \/ writing = "ready" /\ AfterWrite

Next ==
    \/ Strand
    \/ UserWrites \/ UserUpgrades
    \/ AfterRead \/ AfterReadError \/ AfterReadAborted
    \/ AfterWrite \/ AfterWriteError
    \/ TimePasses \/ TimerExpires \/ CheckTimeout

\* The executor runs what is posted, time passes and user code returns.  The
\* client may stay silent or stop reading, and handlers need not answer.
Fairness ==
    /\ WF_vars(Strand)
    /\ WF_vars(LocalCompletion)
    /\ WF_vars(TimePasses)
    /\ WF_vars(TimerExpires)
    /\ WF_vars(CheckTimeout)

Spec == Init /\ [][Next]_vars
FairSpec == Spec /\ Fairness
-----------------------------------------------------------------------------
(* Properties.                                                             *)

OnWire(id, n) == \E i \in 1 .. Len(wire) : wire[i] = <<id, n>>

\* Parts 1 .. n of a response are written, as far as they have data.
Written(id, n) == \A m \in (1 .. n) \ EmptyParts : OnWire(id, m)

\* However late and in whatever order handlers answer, and wherever reads and
\* timeouts fall, the client receives responses in the order of the requests,
\* each without gaps or repetitions, and a response starts only after the last
\* part of the one before it (init_write takes the groups of front() only).
WireInOrder ==
    \A i \in 1 .. Len(wire) :
        LET id == wire[i][1]  n == wire[i][2] IN
        /\ \A j \in 1 .. i - 1 :
              \/ wire[j][1] < id
              \/ wire[j][1] = id /\ wire[j][2] < n
        /\ Written(id, n)
        /\ \A earlier \in 0 .. id - 1 : earlier \in done /\ Written(earlier, have[earlier])

\* An after-write notificator is called at most once, and with success only if
\* its part and all before it were written (write_group_t's destructor,
\* finish_write_group, fail_write_group, response_coordinator_t::reset).
NotifiedOnceTruthfully ==
    \A id \in RequestId, n \in NotifyParts :
        LET results == told[NotificatorOf(id, n)] IN
        /\ Len(results) <= 1
        /\ results = <<"ok">> => Written(id, n)

\* Reading is not forgotten: whenever the strand is free, an open connection
\* that can take another request is reading, or will when the group that is
\* being written is finished (m_init_read_after_this_write), or has an answer
\* waiting that ends the connection.
ReadNotForgotten ==
    /\ stack = <<>> /\ sock = "open" /\ stage = "none"
    /\ IsAbleToGetMoreMessages(table, closed)
    /\ ~(Transmitting /\ resume)
    /\ \A i \in 1 .. Len(table) : ~(table[i].final /\ table[i].close)
    => reading # "idle"

\* The operations in flight fit the state of the connection:
\*   - a read into m_buf is running only when nothing in it waits for the parser: no
\*     read overwrites the rest of a pipelined request, although reads are started from
\*     handlers, write completions and answers to upgrade requests;
\*   - a write is aborted only when close was called (the comment in after_write),
\*     although a closing response cancels operations as well;
\*   - whenever the strand is free, every step of an open connection is controlled by
\*     the timer: it runs and a timeout callback is set.
OperationsSound ==
    /\ reading # "idle" => buf = <<>>
    /\ writing = "aborted" => sock # "open"
    /\ stack = <<>> /\ sock = "open" => timer # "idle" /\ guarding # "none"

\* The assertion of init_write_if_necessary: "assert( !m_response_coordinator.closed() )".
\* finish_handling_current_write_ctx reads on before it calls the function, and what is
\* read on can be a request that its handler answers at once and for the last time.
InitWriteOnlyIfNotClosed == Top("init_write_if_necessary") => ~closed

\* The handler sees every request of the client once, in order.
EachRequestHandledOnce ==
    \A i \in 1 .. Len(handled) : handled[i] = i

\* A client that sends well-formed requests and handlers that do not fail never
\* make the connection close itself because of an error.
NoSpuriousClose == causes \cap {"exception", "parse_error"} = {}

\* The handler of an upgrade request gets an open connection in its turn, wherever the
\* request is found: when it runs, every request before it is answered, and what of
\* the answers is not yet on the wire is in the group being written; and from
\* then on until the request is answered, and for good if the socket is moved to a
\* websocket, no read of the connection takes bytes meant for the websocket.
UpgradeInTurn ==
    /\ sock = "open" /\ Top("handler") /\ stack[1].upgrade /\ have[stack[1].id] = 0 =>
          \A id \in 0 .. stack[1].id - 1 :
             /\ id \in done
             /\ \A n \in 1 .. have[id] :
                   Written(id, n) \/ (Transmitting /\ <<id, n>> \in Range(current[1].items))
    /\ sock = "moved" \/ (sock = "open" /\ \E h \in held : h[2] /\ have[h[1]] = 0) =>
          reading \notin {"waiting", "ready"}

\* The comment of on_request_message_complete: an upgrade request that finds no request
\* in handling "is the only one and can be handled directly".  The last answer leaves
\* the coordinator when its write starts, and the handler can find it being written.
UpgradeHandledAlone ==
    Top("handler") /\ stack[1].upgrade /\ have[stack[1].id] = 0 => ~Transmitting

\* Every after-write notificator is called in the end, whatever becomes of the
\* connection.
EveryNotificatorCalled ==
    \A id \in RequestId, n \in NotifyParts :
        (\E h \in held : h[1] = id) /\ have[id] >= n
            ~> told[NotificatorOf(id, n)] # <<>>

\* A connection does not stay open for ever: when the client falls silent, or
\* stops reading, or a handler never answers, a timeout closes the socket.
EventuallyClosed == <>[](sock # "open")
=============================================================================
