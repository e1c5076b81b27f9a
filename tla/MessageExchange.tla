-------------------------- MODULE MessageExchange --------------------------
(***************************************************************************)
(* Requests and responses of one connection: messages are read one after   *)
(* the other (IncomingMessage); the handler answers a request through a    *)
(* response builder (OutgoingMessage), or lets another thread answer it    *)
(* and returns, and the next message is read.  The request of a websocket  *)
(* can be upgraded: frames are read from then on (WsFrames).               *)
(***************************************************************************)
EXTENDS IncomingMessage, OutgoingMessage, WsFrames

CONSTANT Answered   \* bound: the messages whose response is modelled

VARIABLE asked      \* history: was connection_keep_alive() the last call?

NoOutput ==
  /\ holder' = "none"
  /\ builder' = response_builder("restinio_controlled_output", FALSE)
  /\ written' = <<>>
  /\ flushed' = <<>>
  /\ pending' = <<>>

Init ==
  /\ InitInput
  /\ holder = "none"
  /\ builder = response_builder("restinio_controlled_output", FALSE)
  /\ written = <<>>
  /\ flushed = <<>>
  /\ pending = <<>>
  /\ asked = FALSE
  /\ NotReading

Parse == ParseStep /\ UNCHANGED <<output, asked, frame_vars>>

\* The request object holds the connection handle.
HandleRequest ==
  /\ TakeRequest
  /\ holder' = "request"
  /\ UNCHANGED <<builder, written, flushed, pending, asked, frame_vars>>

CreateResponse ==
  /\ state = "taken"
  /\ message \in Answered
  /\ Len(taken) = 1
  /\ \E kind \in Outputs :
       create_response(kind, Last(taken).m_header.m_connection = "keep_alive")
  /\ UNCHANGED <<input, asked, frame_vars>>

Answer ==
  /\ \/ HandlerStep /\ asked' = FALSE
     \/ connection_keep_alive /\ asked' = TRUE
  /\ UNCHANGED <<input, frame_vars>>

NextMessage ==
  /\ wait_for_http_message
  /\ holder = "request"
  /\ NoOutput
  /\ asked' = FALSE
  /\ UNCHANGED frame_vars

\* The connection handle is moved out of the request; its socket is the one of the
\* websocket now.
upgrade ==
  /\ state = "taken"
  /\ message.upgrade
  /\ Len(taken) = 1
  /\ holder = "request"
  /\ holder' = "none"
  /\ init_read
  /\ UNCHANGED <<input, builder, written, flushed, pending, asked>>

ReadFrames == ReadStep /\ UNCHANGED <<input, output, asked>>

Next ==
  \/ Parse \/ HandleRequest \/ CreateResponse \/ Answer \/ NextMessage
  \/ upgrade \/ ReadFrames

Spec == Init /\ [][Next]_<<input, output, asked, frame_vars>>

\* What the comment on connection_keep_alive() says: "Set connection keep-alive".
\* Right after the call the header asks for keep-alive.
KeepAliveSet == asked => should_keep_alive(builder.m_header)

=============================================================================
