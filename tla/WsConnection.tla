----------------------------- MODULE WsConnection -----------------------------
(***************************************************************************)
(* One websocket: ws_connection_t (restinio/websocket/impl/                *)
(* ws_connection.hpp) and the user's handle on it, ws_t                    *)
(* (restinio/websocket/websocket.hpp).                                     *)
(*                                                                         *)
(* The functions of ws_connection_t run on one strand; the variable stack  *)
(* holds the calls that have still to run, the next one first.  User code  *)
(* runs inside the message handler and the after-write notificators, where *)
(* what it calls runs at once, and on other threads, where what it calls   *)
(* is posted.  The connection lives as long as a handle, a posted call or  *)
(* an operation refers to it; its destructor closes the socket.            *)
(*                                                                         *)
(* A frame of the peer is a header and up to MaxLen pieces of payload.     *)
(* What the protocol validator says of it is decided when its header is    *)
(* parsed: "data" and "close" are valid frames, "header" is an invalid     *)
(* header, "utf8" a payload whose piece number `at` is not utf-8, "tail" a *)
(* text that ends within a character (found by finish_frame), "code" a     *)
(* close frame with an invalid code.                                       *)
(***************************************************************************)
EXTENDS Integers, Sequences, FiniteSets, SequencesExt

CONSTANTS
    MaxFrames,    \* bound: frames the peer sends
    MaxLen,       \* bound: pieces of payload in a frame
    BufPieces,    \* pieces that fit into m_input.m_buf
    MaxMessages,  \* bound: messages the user sends
    Kinds,        \* the kinds of frames the peer sends
    Activations,  \* subset of {"immediate", "delayed"}: activation_t
    UserCalls,    \* what the user does: "send", "close", "shutdown", "kill"
    CallPoints,   \* from where: "handler", "notificator", "thread"
    Throws,       \* BOOLEAN: notificators may throw
    PeerFaults    \* BOOLEAN: the peer may disconnect

ASSUME WsAssumption ==
    /\ {MaxFrames, MaxMessages, MaxLen} \subseteq Nat
    /\ BufPieces \in Nat \ {0}
    /\ Kinds \subseteq {"data", "close", "header", "utf8", "tail", "code"}
    /\ Activations \subseteq {"immediate", "delayed"}
    /\ {Throws, PeerFaults} \subseteq BOOLEAN

\* Write groups: the answer to the upgrade request has one buffer, a frame has
\* a buffer for its header and one for its payload.  Only messages of the user
\* have a notificator.
UpgradeResponse == [id |-> 0, items |-> 1, close |-> FALSE]
UserFrame(id, close) == [id |-> id, items |-> 2, close |-> close]
CloseFrame == [id |-> 0, items |-> 2, close |-> TRUE]
Ids == 1 .. MaxMessages

NoFrame == [kind |-> "data", len |-> 0, at |-> 0]

VARIABLES
    stack, posted,        \* calls on the strand, calls posted to it
    ws,                   \* ws_t: "open", "detached" from the connection, "released"
    active,               \* m_websocket_weak_handle is set
    sock,                 \* m_socket and m_close_impl: "open", "closed"; "destroyed"
    buf,                  \* pieces in m_input.m_buf
    frame, left, skip,    \* current frame, pieces of it not yet read, not validated
    frames,               \* number of frames begun
    reading, writing,     \* the operations on the socket
    readState,            \* m_read_state: "any", "only_close", "nothing"
    writable,             \* m_write_state = write_enabled
    toUser, toPeer,       \* m_close_frame_to_user, _to_peer: not executed yet
    queue,                \* m_outgoing_data
    current, index,       \* m_write_output_ctx: group and next item
    timer,                \* "idle", "armed", "queued"
    writeLate,            \* past m_write_operation_timeout_after
    closeWait,            \* m_close_frame_from_peer_timeout_after: "none",
                          \* "running" or "passed"
    sent,                 \* user messages made
    wire, told,           \* history: groups written, results of notificators
    seen                  \* history: what the message handler was called with, or
                          \* missed because the connection did not know it yet

inputVars  == <<buf, frame, left, skip, frames>>
outputVars == <<queue, current, index>>
flagVars   == <<readState, writable, toUser, toPeer>>
timerVars  == <<timer, writeLate, closeWait>>
userVars   == <<ws, active, sent>>
vars == <<stack, posted, sock, inputVars, reading, writing, flagVars, outputVars,
          timerVars, userVars, wire, told, seen>>

-----------------------------------------------------------------------------
Call(fn) == [fn |-> fn]
WriteData(wg) == [fn |-> "write_data", wg |-> wg]
CloseToPeer(waits) == [fn |-> "close_frame_to_peer", waits |-> waits]
Payload(n) == [fn |-> "payload_part", n |-> n]
Deliver(what) == [fn |-> "call_message_handler", what |-> what]

Top(fn) == stack # <<>> /\ stack[1].fn = fn
Then(calls) == stack' = calls \o Tail(stack)

\* Mutant: the user is not told.
TriggerErrorAndCloseSilently == <<Call("close_impl")>>

\* trigger_error_and_close
TriggerErrorAndClose == <<Call("call_close_handler"), Call("close_impl")>>

Transmitting == current # <<>>

\* A group with a notificator calls it; what the notificator does comes next.
Notify(wg, result) ==
    told' = IF wg.id \in Ids THEN [told EXCEPT ![wg.id] = Append(@, result)] ELSE told
Notified(wg) == IF wg.id \in Ids THEN <<Call("notificator")>> ELSE <<>>

\* An operation started on a closed socket fails.
Started(op) == [op |-> op, st |-> IF sock = "open" THEN "waiting" ELSE "failed"]
Idle == [op |-> "idle", st |-> "waiting"]

-----------------------------------------------------------------------------
\* upgrade(): the answer is written first; with immediate activation reading
\* starts as well.
Init ==
    /\ \E a \in Activations :
          stack = <<WriteData(UpgradeResponse)>>
                  \o (IF a = "immediate" THEN <<Call("init_read")>> ELSE <<>>)
    /\ posted = <<>>
    /\ ws = "open" /\ active = FALSE /\ sent = 0
    /\ sock = "open" /\ reading = Idle /\ writing = Idle
    /\ buf = 0 /\ frame = NoFrame /\ left = 0 /\ skip = FALSE /\ frames = 0
    /\ readState = "nothing" /\ writable = TRUE /\ toUser = TRUE /\ toPeer = TRUE
    /\ queue = <<>> /\ current = <<>> /\ index = 0
    /\ timer = "idle" /\ writeLate = FALSE /\ closeWait = "none"
    /\ wire = <<>> /\ told = [i \in Ids |-> <<>>] /\ seen = <<>>

-----------------------------------------------------------------------------
(* The user's side.                                                        *)

OnStrand ==
    \/ Top("message_handler") /\ "handler" \in CallPoints
    \/ Top("notificator") /\ "notificator" \in CallPoints

\* asio dispatch: at once on the strand, posted from another thread.
Dispatch(call) ==
    \/ OnStrand /\ stack' = <<call>> \o stack /\ UNCHANGED posted
    \/ "thread" \in CallPoints /\ posted' = Append(posted, call) /\ UNCHANGED stack

\* ws_t::send_message; a close frame takes the connection out of the handle.
SendMessage(close) ==
    /\ ws = "open" /\ sent < MaxMessages
    /\ sent' = sent + 1
    /\ Dispatch(WriteData(UserFrame(sent', close)))
    /\ ws' = IF close THEN "detached" ELSE ws
    /\ UNCHANGED <<active, sock, inputVars, reading, writing, flagVars, outputVars,
                   timerVars, wire, told, seen>>

\* ws_t::shutdown and ws_t::kill
Detach(how) ==
    /\ ws = "open"
    /\ ws' = "detached"
    /\ Dispatch(Call(how))
    /\ UNCHANGED <<active, sent, sock, inputVars, reading, writing, flagVars, outputVars,
                   timerVars, wire, told, seen>>

\* activate(), when it was delayed.
Activate ==
    /\ ws = "open" /\ ~active /\ Call("init_read") \notin Range(stack \o posted)
    /\ Dispatch(Call("init_read"))
    /\ UNCHANGED <<userVars, sock, inputVars, reading, writing, flagVars, outputVars,
                   timerVars, wire, told, seen>>

HandlerRuns(calls) == \E i \in 1 .. Len(calls) : calls[i].fn = "message_handler"

\* The last reference on the handle goes: ~ws_t calls shutdown().  The message
\* handler has a reference of its own while it runs.
Release ==
    /\ ws # "released" /\ ~HandlerRuns(stack)
    /\ ws' = "released"
    /\ posted' = IF ws = "open" THEN Append(posted, Call("shutdown")) ELSE posted
    /\ UNCHANGED <<stack, active, sent, sock, inputVars, reading, writing, flagVars,
                   outputVars, timerVars, wire, told, seen>>

\* The strand takes a posted call.
RunPosted ==
    /\ stack = <<>> /\ posted # <<>>
    /\ stack' = <<Head(posted)>>
    /\ posted' = Tail(posted)
    /\ UNCHANGED <<userVars, sock, inputVars, reading, writing, flagVars, outputVars,
                   timerVars, wire, told, seen>>

\* The message handler returns, or throws, which is logged.  With it the last
\* reference on the handle may go.
HandlerReturns ==
    /\ Top("message_handler")
    /\ \/ Then(<<>>) /\ UNCHANGED ws
       \/ /\ ws # "released" /\ ~HandlerRuns(Tail(stack))
          /\ ws' = "released"
          /\ Then(IF ws = "open" THEN <<Call("shutdown")>> ELSE <<>>)
    /\ UNCHANGED <<posted, active, sent, sock, inputVars, reading, writing, flagVars,
                   outputVars, timerVars, wire, told, seen>>

\* A notificator returns or throws.  finish_write_group and fail_write_group
\* reset the group then; the exception of the first one closes the connection.
NotificatorReturns ==
    /\ Top("notificator")
    /\ \/ Then(<<>>) /\ UNCHANGED <<current, index>>
       \/ /\ Throws /\ Len(stack) > 1 /\ stack[2].fn \in {"finish_group", "drop_group"}
          /\ stack' = (IF stack[2].fn = "finish_group" THEN TriggerErrorAndClose ELSE <<>>)
                      \o Tail(Tail(stack))
          /\ current' = <<>> /\ index' = 0
    /\ UNCHANGED <<posted, userVars, sock, inputVars, reading, writing, flagVars, queue,
                   timerVars, wire, told, seen>>

-----------------------------------------------------------------------------
(* Closing.                                                                *)

\* shutdown: the user is not told of the close any more; graceful_close.
Shutdown ==
    /\ Top("shutdown")
    /\ toUser' = FALSE
    /\ Then(<<CloseToPeer(TRUE)>>)
    /\ UNCHANGED <<posted, userVars, sock, inputVars, reading, writing, readState,
                   writable, toPeer, outputVars, timerVars, wire, told, seen>>

Kill ==
    /\ Top("kill")
    /\ toUser' = FALSE /\ toPeer' = FALSE
    /\ Then(<<Call("close_impl")>>)
    /\ UNCHANGED <<posted, userVars, sock, inputVars, reading, writing, readState,
                   writable, outputVars, timerVars, wire, told, seen>>

\* m_close_frame_to_peer.run_if_first( send_close_frame_to_peer ... ): the frame
\* joins the queue; what follows the write comes with disable_writes.
CloseFrameToPeer ==
    /\ Top("close_frame_to_peer")
    /\ toPeer' = FALSE
    /\ IF toPeer
       THEN /\ queue' = Append(queue, CloseFrame)
            /\ Then(<<Call("init_write"), [stack[1] EXCEPT !.fn = "disable_writes"]>>)
       ELSE Then(<<>>) /\ UNCHANGED queue
    /\ UNCHANGED <<posted, userVars, sock, inputVars, reading, writing, readState,
                   writable, toUser, current, index, timerVars, wire, told, seen>>

\* start_waiting_close_frame_only
StartWaitingCloseFrameOnly == readState' = "only_close" /\ closeWait' = "running"

\* The rest of send_close_frame_to_peer, and start_waiting_close_frame_only.
DisableWrites ==
    /\ Top("disable_writes")
    /\ writable' = FALSE
    /\ IF stack[1].waits THEN StartWaitingCloseFrameOnly
                         ELSE UNCHANGED <<readState, closeWait>>
    /\ Then(<<>>)
    /\ UNCHANGED <<posted, userVars, sock, inputVars, reading, writing, toUser, toPeer,
                   outputVars, timer, writeLate, wire, told, seen>>

\* call_close_handler_if_necessary
CallCloseHandler ==
    /\ Top("call_close_handler")
    /\ toUser' = FALSE
    /\ Then(IF toUser THEN <<Deliver(<<"lost", 0>>)>> ELSE <<>>)
    /\ UNCHANGED <<posted, userVars, sock, inputVars, reading, writing, readState,
                   writable, toPeer, outputVars, timerVars, wire, told, seen>>

\* call_message_handler: nobody is called when the handle is gone, or was never
\* given to the connection.
CallMessageHandler ==
    /\ Top("call_message_handler")
    /\ IF active /\ ws # "released"
       THEN /\ Then(<<Call("message_handler")>>)
            /\ seen' = Append(seen, stack[1].what)
       ELSE /\ Then(<<>>)
            /\ seen' = IF active THEN seen ELSE Append(seen, <<"missed", 0>>)
    /\ UNCHANGED <<posted, userVars, sock, inputVars, reading, writing, flagVars,
                   outputVars, timerVars, wire, told>>

\* What becomes of an operation when the socket is closed: it is cancelled, or
\* has been completed before.
Closed(op) ==
    IF op.op = "idle" \/ op.st # "waiting" THEN {op}
    ELSE {[op EXCEPT !.st = s] :
            s \in {"failed"} \cup (IF op.op = "header" /\ frames = MaxFrames
                                    THEN {} ELSE {"ready"})}

CloseImpl ==
    /\ Top("close_impl")
    /\ sock' = "closed"
    /\ reading' \in Closed(reading)
    /\ writing' \in Closed(writing)
    /\ Then(<<>>)
    /\ UNCHANGED <<posted, userVars, inputVars, flagVars, outputVars, timerVars, wire,
                   told, seen>>

-----------------------------------------------------------------------------
(* Reading.                                                                *)

InitRead ==
    /\ Top("init_read")
    /\ active' = TRUE
    /\ timer' = "armed"
    /\ readState' = "any"
    /\ Then(<<Call("start_read_header")>>)
    /\ UNCHANGED <<posted, ws, sent, sock, inputVars, reading, writing, writable, toUser,
                   toPeer, outputVars, writeLate, closeWait, wire, told, seen>>

\* start_read_header and consume_header_from_socket
StartReadHeader ==
    /\ Top("start_read_header")
    /\ frame' = NoFrame /\ left' = 0 /\ skip' = FALSE
    /\ IF buf = 0
       THEN Then(<<>>) /\ reading' = Started("header")
       ELSE Then(<<Call("consume_header")>>) /\ UNCHANGED reading
    /\ UNCHANGED <<posted, userVars, sock, buf, frames, writing, flagVars, outputVars,
                   timerVars, wire, told, seen>>

Fails(op) == op.st = "failed" \/ (PeerFaults /\ op.st = "waiting")
Succeeds(op) == op.st # "failed"

AfterReadHeader ==
    /\ stack = <<>> /\ reading.op = "header" /\ Succeeds(reading)
    /\ frames < MaxFrames
    /\ buf' \in 1 .. BufPieces
    /\ reading' = Idle
    /\ stack' = <<Call("consume_header")>>
    /\ UNCHANGED <<posted, userVars, sock, frame, left, skip, frames, writing, flagVars,
                   outputVars, timerVars, wire, told, seen>>

\* after_read_header and after_read_payload with an error, handle_read_error.
AfterReadError ==
    /\ stack = <<>> /\ reading.op # "idle" /\ Fails(reading)
    /\ reading' = Idle
    /\ stack' = TriggerErrorAndClose
    /\ UNCHANGED <<posted, userVars, sock, inputVars, writing, flagVars, outputVars,
                   timerVars, wire, told, seen>>

\* The frames that a header may announce.
Frames ==
    {f \in [kind : Kinds, len : 0 .. MaxLen, at : 0 .. MaxLen] :
        IF f.kind \in {"utf8", "code"} THEN f.at \in 1 .. f.len
        ELSE f.at = 0 /\ (f.kind = "tail" => f.len > 0) /\ (f.kind = "header" => f.len = 0)}

\* consume_header_from_buffer when the buffer ends within the header.
ConsumePartOfHeader ==
    /\ Top("consume_header")
    /\ buf' = 0
    /\ reading' = Started("header")
    /\ Then(<<>>)
    /\ UNCHANGED <<posted, userVars, sock, frame, left, skip, frames, writing, flagVars,
                   outputVars, timerVars, wire, told, seen>>

\* handle_parsed_header, invalid: a close frame for which no answer is awaited.
InvalidHeader ==
    CASE readState = "any" -> <<CloseToPeer(FALSE), Call("call_close_handler")>>
      [] readState = "only_close" -> <<Call("close_impl")>>
      [] OTHER -> <<>>

\* consume_header_from_buffer, handle_parsed_header and
\* handle_parsed_and_valid_header: what the buffer has of the payload is taken.
ConsumeHeader ==
    /\ Top("consume_header") /\ frames < MaxFrames
    /\ frames' = frames + 1
    /\ frame' \in Frames
    /\ LET part == IF buf - 1 < frame'.len THEN buf - 1 ELSE frame'.len IN
       /\ buf' = buf - 1 - part
       /\ left' = frame'.len - part
       /\ Then(IF frame'.kind = "header" THEN InvalidHeader
               ELSE IF frame'.len = 0 THEN <<Call("finish_frame")>>
               ELSE <<Payload(part)>>)
    /\ UNCHANGED <<posted, userVars, sock, skip, reading, writing, flagVars, outputVars,
                   timerVars, wire, told, seen>>

AfterReadPayload ==
    /\ stack = <<>> /\ reading.op = "payload" /\ Succeeds(reading)
    /\ \E n \in 1 .. left : left' = left - n /\ stack' = <<Payload(n)>>
    /\ reading' = Idle
    /\ UNCHANGED <<posted, userVars, sock, buf, frame, skip, frames, writing, flagVars,
                   outputVars, timerVars, wire, told, seen>>

\* handle_invalid_payload
InvalidPayload(flaw) ==
    IF flaw = "code"
    THEN CASE readState = "any" -> <<CloseToPeer(FALSE), Call("call_close_handler")>>
           [] readState = "only_close" -> <<Call("close_impl")>>
           [] OTHER -> <<>>
    ELSE IF readState = "any" THEN <<CloseToPeer(TRUE), Call("call_close_handler")>>
    ELSE <<>>

\* The last n pieces make the payload invalid.
FoundInvalid(n) == ~skip /\ frame.at \in frame.len - left - n + 1 .. frame.len - left

\* Reading goes on with the rest of the payload or with the next frame.
ReadOn ==
    <<Call(IF left = 0 THEN "start_read_header" ELSE "start_read_payload")>>

\* Mutant: a payload that is found wrong before its end is left where it is.
SkipPayloadEndOnly == IF left = 0 THEN <<Call("start_read_header")>> ELSE <<>>

\* A payload that is not utf-8 is read to its end without validation, in the hope of
\* a close frame behind it.
SkipPayload == ReadOn

\* after_read_payload and validate_payload_part.
PayloadPart ==
    /\ Top("payload_part")
    /\ IF FoundInvalid(stack[1].n)
       THEN /\ Then(InvalidPayload(frame.kind)
                    \o (IF frame.kind = "utf8" THEN SkipPayload ELSE <<>>))
            /\ skip' = (frame.kind = "utf8")
       ELSE /\ Then(IF left = 0 /\ ~skip THEN <<Call("finish_frame")>> ELSE ReadOn)
            /\ UNCHANGED skip
    /\ UNCHANGED <<posted, userVars, sock, buf, frame, left, frames, reading, writing,
                   flagVars, outputVars, timerVars, wire, told, seen>>

StartReadPayload ==
    /\ Top("start_read_payload")
    /\ reading' = Started("payload")
    /\ Then(<<>>)
    /\ UNCHANGED <<posted, userVars, sock, inputVars, writing, flagVars, outputVars,
                   timerVars, wire, told, seen>>

\* Mutant: reading goes on after the peer's close frame.
ReadNothingForgotten == UNCHANGED readState

\* The peer has closed: nothing more is read.
ReadNothing == readState' = "nothing"

\* call_handler_on_current_message
CallHandlerOnCurrentMessage ==
    /\ Top("finish_frame")
    /\ CASE frame.kind = "tail" ->
              Then(InvalidPayload("tail")) /\ UNCHANGED <<toUser, timer>>
         [] frame.kind = "data" /\ readState = "any" ->
              /\ Then(<<Deliver(<<"data", frames>>), Call("read_next")>>)
              /\ UNCHANGED <<toUser, timer>>
         [] frame.kind = "close" /\ readState = "any" ->
              /\ toUser' = FALSE
              /\ Then(<<CloseToPeer(FALSE), Call("read_nothing"),
                        Deliver(<<"close", frames>>), Call("read_next")>>)
              /\ UNCHANGED timer
         [] frame.kind = "data" /\ readState # "any" ->
              Then(<<Call("start_read_header")>>) /\ UNCHANGED <<toUser, timer>>
         [] frame.kind = "close" /\ readState # "any" ->
              /\ timer' = IF timer = "armed" THEN "idle" ELSE timer
              /\ Then(<<Call("close_impl")>>)
              /\ UNCHANGED toUser
    /\ UNCHANGED <<posted, userVars, sock, inputVars, reading, writing, readState,
                   writable, toPeer, outputVars, writeLate, closeWait, wire, told, seen>>

PeerClosed ==
    /\ Top("read_nothing")
    /\ ReadNothing
    /\ Then(<<>>)
    /\ UNCHANGED <<posted, userVars, sock, inputVars, reading, writing, writable, toUser,
                   toPeer, outputVars, timerVars, wire, told, seen>>

ReadNext ==
    /\ Top("read_next")
    /\ Then(IF readState # "nothing" THEN <<Call("start_read_header")>> ELSE <<>>)
    /\ UNCHANGED <<posted, userVars, sock, inputVars, reading, writing, flagVars,
                   outputVars, timerVars, wire, told, seen>>

-----------------------------------------------------------------------------
(* Writing.                                                                *)

\* write_data and write_data_impl.  A group that is not accepted is destroyed
\* or told that it was not written.  A close frame of the user ends writing.
WriteDataImpl ==
    /\ Top("write_data")
    /\ LET wg == stack[1].wg IN
       IF writable /\ sock = "open"
       THEN /\ queue' = Append(queue, wg)
            /\ Then(<<Call("init_write")>>)
            /\ IF wg.close
               THEN /\ toPeer' = FALSE /\ toUser' = FALSE /\ writable' = FALSE
                    /\ StartWaitingCloseFrameOnly
               ELSE UNCHANGED <<flagVars, closeWait>>
            /\ UNCHANGED told
       ELSE /\ Notify(wg, "error")
            /\ Then(Notified(wg))
            /\ UNCHANGED <<queue, flagVars, closeWait>>
    /\ UNCHANGED <<posted, userVars, sock, inputVars, reading, writing, current, index,
                   timer, writeLate, wire, seen>>

\* Mutant: the group in progress is not respected.
MayInitWriteAlways == queue # <<>>

MayInitWrite == ~Transmitting /\ queue # <<>>

\* init_write_if_necessary and init_write
InitWrite ==
    /\ Top("init_write")
    /\ IF MayInitWrite
       THEN /\ current' = <<Head(queue)>>
            /\ queue' = Tail(queue)
            /\ Then(<<Call("handle_current_write_ctx")>>)
       ELSE Then(<<>>) /\ UNCHANGED <<current, queue>>
    /\ UNCHANGED <<posted, userVars, sock, inputVars, reading, writing, flagVars, index,
                   timerVars, wire, told, seen>>

\* handle_current_write_ctx with something to write: all items that are left
\* fit into one operation.
StartWriteOperation ==
    /\ Top("handle_current_write_ctx")
    /\ index < current[1].items
    /\ index' = current[1].items
    /\ writing' = Started("write")
    /\ writeLate' = FALSE
    /\ Then(<<>>)
    /\ UNCHANGED <<posted, userVars, sock, inputVars, reading, flagVars, queue, current,
                   timer, closeWait, wire, told, seen>>

\* handle_current_write_ctx at the end of the group.
FinishWriteGroup ==
    /\ Top("handle_current_write_ctx")
    /\ index >= current[1].items
    /\ Notify(current[1], "ok")
    /\ Then(Notified(current[1]) \o <<Call("finish_group")>>)
    /\ UNCHANGED <<posted, userVars, sock, inputVars, reading, writing, flagVars,
                   outputVars, timerVars, wire, seen>>

\* The rest of finish_write_group and finish_handling_current_write_ctx.
FinishHandlingCurrentWriteCtx ==
    /\ Top("finish_group")
    /\ current' = <<>> /\ index' = 0
    /\ Then(<<Call("init_write")>>)
    /\ UNCHANGED <<posted, userVars, sock, inputVars, reading, writing, flagVars, queue,
                   timerVars, wire, told, seen>>

AfterWrite ==
    /\ stack = <<>> /\ writing.op # "idle" /\ Succeeds(writing)
    /\ writing' = Idle
    /\ wire' = Append(wire, current[1])
    /\ stack' = <<Call("handle_current_write_ctx")>>
    /\ UNCHANGED <<posted, userVars, sock, inputVars, reading, flagVars, outputVars,
                   timerVars, told, seen>>

AfterWriteError ==
    /\ stack = <<>> /\ writing.op # "idle" /\ Fails(writing)
    /\ writing' = Idle
    /\ stack' = TriggerErrorAndClose \o <<Call("fail_write_group")>>
    /\ UNCHANGED <<posted, userVars, sock, inputVars, reading, flagVars, outputVars,
                   timerVars, wire, told, seen>>

\* fail_write_group: the group goes, the item index stays.
FailWriteGroup ==
    /\ Top("fail_write_group")
    /\ Notify(current[1], "error")
    /\ Then(Notified(current[1]) \o <<Call("drop_group")>>)
    /\ UNCHANGED <<posted, userVars, sock, inputVars, reading, writing, flagVars,
                   outputVars, timerVars, wire, seen>>

DropGroup ==
    /\ Top("drop_group")
    /\ current' = <<>>
    /\ Then(<<>>)
    /\ UNCHANGED <<posted, userVars, sock, inputVars, reading, writing, flagVars, queue,
                   index, timerVars, wire, told, seen>>

-----------------------------------------------------------------------------
(* Timeouts and the end.                                                   *)

\* Nothing refers to the connection any more.
Unreferenced ==
    /\ stack = <<>> /\ posted = <<>>
    /\ reading.op = "idle" /\ writing.op = "idle"
    /\ ws # "open" /\ timer # "queued"

TimePasses ==
    /\ \/ Transmitting /\ ~writeLate /\ writeLate' = TRUE /\ UNCHANGED closeWait
       \/ closeWait = "running" /\ closeWait' = "passed" /\ UNCHANGED writeLate
    /\ UNCHANGED <<stack, posted, userVars, sock, inputVars, reading, writing, flagVars,
                   outputVars, timer, wire, told, seen>>

\* The timer has a weak reference; check_timeout is dispatched to the strand.
TimerExpires ==
    /\ timer = "armed" /\ ~Unreferenced
    /\ timer' = "queued"
    /\ UNCHANGED <<stack, posted, userVars, sock, inputVars, reading, writing, flagVars,
                   outputVars, writeLate, closeWait, wire, told, seen>>

\* Mutant: only writing is watched.
CloseFrameOverdueNever == FALSE

CloseFrameOverdue == closeWait = "passed"

\* check_timeout_impl
CheckTimeout ==
    /\ stack = <<>> /\ timer = "queued"
    /\ IF Transmitting /\ writeLate
       THEN toPeer' = FALSE /\ stack' = TriggerErrorAndClose /\ timer' = "idle"
       ELSE IF CloseFrameOverdue
       THEN stack' = <<Call("close_impl")>> /\ timer' = "idle" /\ UNCHANGED toPeer
       ELSE timer' = "armed" /\ UNCHANGED <<stack, toPeer>>
    /\ UNCHANGED <<posted, userVars, sock, inputVars, reading, writing, readState,
                   writable, toUser, outputVars, writeLate, closeWait, wire, told, seen>>

\* Mutant: groups that were not written are forgotten.
DestroyedSilently == UNCHANGED told

\* The destructors of the groups call the notificators that were not called.
Destroyed ==
    told' = [i \in Ids |-> IF \E k \in 1 .. Len(queue) : queue[k].id = i
                           THEN Append(told[i], "error") ELSE told[i]]

Destroy ==
    /\ Unreferenced /\ sock # "destroyed"
    /\ sock' = "destroyed"
    /\ Destroyed
    /\ queue' = <<>> /\ timer' = "idle"
    /\ UNCHANGED <<stack, posted, userVars, inputVars, reading, writing, flagVars,
                   current, index, writeLate, closeWait, wire, seen>>

-----------------------------------------------------------------------------
User ==
    \/ "send" \in UserCalls /\ SendMessage(FALSE)
    \/ "close" \in UserCalls /\ SendMessage(TRUE)
    \/ "shutdown" \in UserCalls /\ Detach("shutdown")
    \/ "kill" \in UserCalls /\ Detach("kill")
    \/ Activate
    \/ Release

\* What runs to completion on the strand.
Strand ==
    \/ HandlerReturns \/ NotificatorReturns
    \/ Shutdown \/ Kill \/ CloseFrameToPeer \/ DisableWrites
    \/ CallCloseHandler \/ CallMessageHandler \/ CloseImpl
    \/ InitRead \/ StartReadHeader \/ ConsumePartOfHeader \/ ConsumeHeader
    \/ PayloadPart \/ StartReadPayload
    \/ CallHandlerOnCurrentMessage \/ PeerClosed \/ ReadNext
    \/ WriteDataImpl \/ InitWrite \/ StartWriteOperation \/ FinishWriteGroup
    \/ FinishHandlingCurrentWriteCtx \/ FailWriteGroup \/ DropGroup
    \/ RunPosted \/ Destroy

Completion ==
    \/ AfterReadHeader \/ AfterReadPayload \/ AfterReadError
    \/ AfterWrite \/ AfterWriteError

\* Completions that do not depend on the peer.
LocalCompletion ==
    \/ reading.st # "waiting" /\ (AfterReadHeader \/ AfterReadPayload \/ AfterReadError)
    \/ writing.st # "waiting" /\ (AfterWrite \/ AfterWriteError)

Next == User \/ Strand \/ Completion \/ TimePasses \/ TimerExpires \/ CheckTimeout

Spec == Init /\ [][Next]_vars

\* The strand is first in, first out, so whatever is posted gets its turn between
\* completions that keep coming; user code returns and time passes; the peer may
\* stay silent and the user need not call anything.
FairSpec ==
    /\ Spec
    /\ WF_vars(Strand) /\ WF_vars(LocalCompletion)
    /\ SF_vars(RunPosted) /\ SF_vars(CheckTimeout)
    /\ WF_vars(TimePasses) /\ WF_vars(TimerExpires)

-----------------------------------------------------------------------------
(* Properties.                                                             *)

\* Until a close frame is sent, the handler gets the peer's messages in order and
\* without gaps, however frames fall into reads: what the buffer holds of later
\* frames is kept while a payload is read past it and while the handler runs, and no
\* read is started while another one fills the buffer.  Nothing is delivered after the
\* peer's close frame, neither a further frame nor the notice that the connection is
\* lost (m_read_state, m_close_frame_to_user).
MessagesInOrder ==
    /\ LET data == SelectSeq(seen, LAMBDA m : m[1] = "data")
       IN  toPeer => \A i \in 1 .. Len(data) : data[i][2] = i
    /\ \A i \in 1 .. Len(seen) - 1 : seen[i][1] # "close"
    /\ Top("start_read_header") \/ Top("start_read_payload") \/ Top("consume_header")
           => reading.op = "idle"

\* With a handle that is still in use, a connection that was closed underneath
\* has told the user, although the notice is given from many places and once.
\* The one exception is a connection lost before a delayed activate().
UserLearnsOfClose ==
    stack = <<>> /\ sock = "closed" /\ ws = "open"
        => \E i \in 1 .. Len(seen) : seen[i][1] \in {"lost", "close", "missed"}

\* On the wire the answer to the upgrade comes first, no message comes twice,
\* and a close frame, of the user or of the connection, is the last frame.  Each
\* notificator is called at most once, from whichever of the five places.
FramesWrittenOnce ==
    /\ \A i \in 1 .. Len(wire) :
          /\ (wire[i] = UpgradeResponse) <=> i = 1
          /\ wire[i].close => i = Len(wire)
          /\ \A j \in 1 .. i - 1 : wire[j].id # wire[i].id \/ wire[i].id = 0
    /\ \A i \in Ids : Len(told[i]) <= 1

\* While the peer's close frame is awaited it is also being read for, through data,
\* through payloads that turn out wrong in the middle and through whatever is left of
\* them; only a text that ends within a character ends reading as well
\* (call_handler_on_current_message), and leaves the rest to the timeout.
AwaitedCloseFrameIsRead ==
    stack = <<>> /\ sock = "open" /\ active /\ readState = "only_close"
        => reading.op # "idle" \/ (frame.kind = "tail" /\ left = 0)

\* The comment on read_only_close_frame: "Reads only close frame: skip all frames until
\* close-frame."  The frame that finish_frame finds wrong is not skipped.
AwaitedCloseFrameAlwaysRead ==
    stack = <<>> /\ sock = "open" /\ active /\ readState = "only_close"
        => reading.op # "idle"

\* A notificator is told of success only when its message was written.
NotifiedTruthfully ==
    \A i \in Ids : told[i] = <<"ok">> => \E k \in 1 .. Len(wire) : wire[k].id = i

\* Once the user has let go of an activated connection, by a close frame, shutdown,
\* kill or the end of the handle, the socket is closed in the end, whether the peer
\* answers or not.  (Before activate() no timer is set.)
ClosesInTheEnd == active /\ ws # "open" ~> sock # "open"

\* Once the handle is gone, every message has had its notificator called.
EveryNotificatorCalled ==
    \A i \in Ids : active /\ ws = "released" /\ sent >= i ~> told[i] # <<>>
=============================================================================
