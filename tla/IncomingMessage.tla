-------------------------- MODULE IncomingMessage --------------------------
(***************************************************************************)
(* How a connection turns the bytes of a client into requests: the         *)
(* callbacks the connection gives to http_parser (impl/                    *)
(* parser_callbacks.ipp), the context they fill (http_parser_ctx_t of      *)
(* impl/connection.hpp) and the request that is moved out of it when a     *)
(* message is complete.                                                    *)
(*                                                                         *)
(* http_parser itself is external.  It walks over the parts of a message   *)
(* in their order and hands each text (target, name, value, body) to the   *)
(* callbacks in as many pieces as the bytes arrive in: every piece length  *)
(* is possible at every step.                                              *)
(***************************************************************************)
EXTENDS HttpHeaders

CONSTANTS
  Messages,   \* the messages a client may send
  Limits,     \* incoming_http_msg_limits_t
  MaxMessages \* bound: messages read on one connection

VARIABLES
  message,    \* the message being parsed
  part,       \* which of its parts http_parser is at
  offset,     \* how much of that part was given to the callbacks
  ctx,        \* http_parser_ctx_t
  state,      \* "parsing", "complete" or "failed" (the connection is closed)
  taken       \* the requests handed over so far, each with its message

input == <<message, part, offset, ctx, state, taken>>

(***************************************************************************)
(* The parts of a message in the order http_parser meets them.  A callback *)
(* with data is given it in pieces; the others fire once, with the value   *)
(* of parser->content_length.  The value of the last trailing field may be *)
(* empty, and then no callback announces it.                               *)
(***************************************************************************)

Data(callback, text) == <<[callback |-> callback, text |-> text]>>

Mark(callback, content_length) ==
  <<[callback |-> callback, text |-> <<>>, content_length |-> content_length]>>

no_content_length == -1   \* ULLONG_MAX

FieldParts(fields) ==
  FlattenSeq([i \in DOMAIN fields |->
    Data("header_field", fields[i].name) \o Data("header_value", fields[i].value)])

TrailerParts(fields) ==
  LET parts == FieldParts(fields)
  IN  IF parts # <<>> /\ Last(parts).text = <<>> THEN Front(parts) ELSE parts

ChunkParts(chunk) ==
  Mark("chunk_header", Len(chunk)) \o Data("body", chunk)
    \o Mark("chunk_complete", 0)

http_parser_parts(m) ==
  LET length == IF m.chunked THEN no_content_length ELSE Len(FlattenSeq(m.chunks))
  IN  Data("url", m.target) \o FieldParts(m.fields)
        \o Mark("headers_complete", length)
        \o (IF m.chunked
              THEN FlattenSeq([i \in DOMAIN m.chunks |-> ChunkParts(m.chunks[i])])
                     \o Mark("chunk_header", 0) \o TrailerParts(m.trailing)
                     \o Mark("chunk_complete", 0)
              ELSE IF length = 0 THEN <<>> ELSE Data("body", FlattenSeq(m.chunks)))
        \o Mark("message_complete", 0)

Part == http_parser_parts(message)[part]

PieceLengths ==
  IF Part.text = <<>> THEN {0} ELSE 1..(Len(Part.text) - offset)

Piece(length) == SubSeq(Part.text, offset + 1, offset + length)

(***************************************************************************)
(* http_request_header_t: the request target is kept with the positions of *)
(* its separators, found piece by piece.                                   *)
(***************************************************************************)

memchr_helper(chr, text) ==
  LET found == SelectInSeq(text, LAMBDA c : c = chr)
  IN  IF found = 0 THEN Len(text) ELSE found - 1

request_header ==
  [m_method |-> "GET", m_request_target |-> <<>>, m_query_separator_pos |-> 0,
   m_fragment_separator_pos |-> 0, m_connection |-> "close", m_fields |-> <<>>]

\* Mutant: the query separator is searched in the whole new piece.
append_request_target_past_fragment(h, text) ==
  LET inc == memchr_helper("#", text)
      size == Len(h.m_request_target)
      new == [h EXCEPT !.m_request_target = @ \o text]
  IN  CASE size # h.m_fragment_separator_pos -> new
        [] size = h.m_fragment_separator_pos /\ size # h.m_query_separator_pos ->
             [new EXCEPT !.m_fragment_separator_pos = @ + inc]
        [] OTHER ->
             [new EXCEPT !.m_fragment_separator_pos = @ + inc,
                         !.m_query_separator_pos = @ + memchr_helper("?", text)]

\* The separators are searched only while the target has shown none.
append_request_target(h, text) ==
  LET inc == memchr_helper("#", text)
      size == Len(h.m_request_target)
      new == [h EXCEPT !.m_request_target = @ \o text]
  IN  CASE size # h.m_fragment_separator_pos -> new
        [] size = h.m_fragment_separator_pos /\ size # h.m_query_separator_pos ->
             [new EXCEPT !.m_fragment_separator_pos = @ + inc]
        [] OTHER ->
             [new EXCEPT !.m_fragment_separator_pos = @ + inc,
                         !.m_query_separator_pos =
                            @ + memchr_helper("?", SubSeq(text, 1, inc))]

\* The setter searches the whole target at once.
request_target(h, text) ==
  LET fragment_pos == memchr_helper("#", text)
  IN  [h EXCEPT !.m_request_target = text,
                !.m_fragment_separator_pos = fragment_pos,
                !.m_query_separator_pos =
                   memchr_helper("?", SubSeq(text, 1, fragment_pos))]

path(h) == SubSeq(h.m_request_target, 1, h.m_query_separator_pos)

query(h) ==
  IF h.m_fragment_separator_pos = h.m_query_separator_pos THEN <<>>
  ELSE SubSeq(h.m_request_target, h.m_query_separator_pos + 2,
              h.m_fragment_separator_pos)

fragment(h) ==
  SubSeq(h.m_request_target, h.m_fragment_separator_pos + 2,
         Len(h.m_request_target))

(***************************************************************************)
(* http_parser_ctx_t                                                       *)
(***************************************************************************)

chunked_input_info_block == [m_chunks |-> <<>>, m_trailing_fields |-> <<>>]

http_parser_ctx ==
  [m_header |-> request_header, m_body |-> <<>>, m_current_field_name |-> <<>>,
   m_last_value_total_size |-> 0, m_last_was_value |-> TRUE,
   m_leading_headers_completed |-> FALSE,
   m_chunked_info_block |-> chunked_input_info_block,
   m_message_complete |-> FALSE, m_total_field_count |-> 0]

\* The block about chunks is not reset: it is empty after it was moved out.
reset(c) ==
  [http_parser_ctx EXCEPT !.m_chunked_info_block = c.m_chunked_info_block]

\* Is there an info about chunks or trailing fields to give to the request?
HasChunkedInfo(c) ==
  \/ c.m_chunked_info_block.m_chunks # <<>>
  \/ c.m_chunked_info_block.m_trailing_fields # <<>>

\* The information for the request, and the context it was moved out of.
make_chunked_input_info_if_necessary(c) ==
  IF HasChunkedInfo(c)
    THEN <<<<c.m_chunked_info_block>>,
           [c EXCEPT !.m_chunked_info_block = chunked_input_info_block]>>
    ELSE <<<<>>, c>>

(***************************************************************************)
(* The callbacks.  Each gives the context it leaves and whether it returns *)
(* 0; -1 makes http_parser stop with an error.                             *)
(***************************************************************************)

Returns(c, ok) == [ctx |-> c, ok |-> ok]

restinio_url_cb(c, text) ==
  LET new == [c EXCEPT !.m_header = append_request_target(@, text)]
  IN  Returns(new, Len(new.m_header.m_request_target) <= Limits.max_url_size)

restinio_header_field_cb(c, text) ==
  LET new == IF c.m_last_was_value
               THEN [c EXCEPT !.m_current_field_name = text,
                              !.m_last_was_value = FALSE]
               ELSE [c EXCEPT !.m_current_field_name = @ \o text]
  IN  IF c.m_last_was_value /\ c.m_total_field_count = Limits.max_field_count
        THEN Returns(c, FALSE)
        ELSE Returns(new, Len(new.m_current_field_name)
                            <= Limits.max_field_name_size)

\* The fields go to the header, or to the trailing fields once it is complete.
CurrentFields(c) ==
  IF c.m_leading_headers_completed THEN c.m_chunked_info_block.m_trailing_fields
                                   ELSE c.m_header.m_fields

WithFields(c, fields) ==
  IF c.m_leading_headers_completed
    THEN [c EXCEPT !.m_chunked_info_block.m_trailing_fields = fields]
    ELSE [c EXCEPT !.m_header.m_fields = fields]

FirstPieceOfValue(c, text) ==
  [WithFields(c, add_field_name(CurrentFields(c), c.m_current_field_name, text))
   EXCEPT !.m_current_field_name = <<>>, !.m_last_value_total_size = Len(text),
          !.m_last_was_value = TRUE, !.m_total_field_count = @ + 1]

NextPieceOfValue(c, text) ==
  [WithFields(c, append_last_field(CurrentFields(c), text))
   EXCEPT !.m_last_value_total_size = @ + Len(text)]

\* Mutant: the size of the last piece is checked, not of the whole value.
restinio_header_value_by_piece_cb(c, text) ==
  LET new == IF c.m_last_was_value THEN NextPieceOfValue(c, text)
             ELSE FirstPieceOfValue(c, text)
  IN  Returns(new, Len(text) < Limits.max_field_value_size)

restinio_header_value_cb(c, text) ==
  LET new == IF c.m_last_was_value THEN NextPieceOfValue(c, text)
             ELSE FirstPieceOfValue(c, text)
  IN  Returns(new, new.m_last_value_total_size < Limits.max_field_value_size)

restinio_headers_complete_cb(c, content_length) ==
  Returns([c EXCEPT !.m_leading_headers_completed = TRUE],
          content_length = no_content_length
            \/ content_length <= Limits.max_body_size)

restinio_body_cb(c, text) ==
  IF Len(c.m_body) + Len(text) > Limits.max_body_size
    THEN Returns(c, FALSE)
    ELSE Returns([c EXCEPT !.m_body = @ \o text], TRUE)

\* The last, empty chunk is not recorded.
restinio_chunk_header_cb(c, content_length) ==
  Returns(IF content_length = 0 THEN c
          ELSE [c EXCEPT !.m_chunked_info_block.m_chunks =
                  Append(@, [m_started_at |-> Len(c.m_body),
                             m_size |-> content_length])],
          TRUE)

\* A trailing field whose value never came is completed with an empty one.
WithLastTrailer(c) ==
  IF ~ c.m_last_was_value /\ c.m_current_field_name # <<>>
    THEN [c EXCEPT !.m_chunked_info_block.m_trailing_fields =
                     add_field_name(@, c.m_current_field_name, <<>>),
                   !.m_current_field_name = <<>>]
    ELSE c

restinio_message_complete_cb(c) ==
  Returns([WithLastTrailer(c) EXCEPT
             !.m_message_complete = TRUE,
             !.m_header.m_method = message.method,
             !.m_header.m_connection =
                IF message.upgrade THEN "upgrade"
                ELSE IF message.keep_alive THEN "keep_alive" ELSE "close"],
          TRUE)

(***************************************************************************)
(* chunk_info_t::make_string_view: <<>> for the exception.                 *)
(***************************************************************************)

make_string_view(chunk, body) ==
  IF \/ chunk.m_started_at >= Len(body)
     \/ chunk.m_started_at + chunk.m_size > Len(body)
    THEN <<>>
    ELSE <<SubSeq(body, chunk.m_started_at + 1, chunk.m_started_at + chunk.m_size)>>

(***************************************************************************)
(* Steps                                                                   *)
(***************************************************************************)

InitInput ==
  /\ message \in Messages
  /\ part = 1
  /\ offset = 0
  /\ ctx = http_parser_ctx
  /\ state = "parsing"
  /\ taken = <<>>

\* After a callback http_parser goes on with the next piece or the next part,
\* pauses at the end of the message, or reports the error of the callback.
Resume(result, length) ==
  /\ ctx' = result.ctx
  /\ state' = IF ~ result.ok THEN "failed"
              ELSE IF result.ctx.m_message_complete THEN "complete" ELSE "parsing"
  /\ IF offset + length = Len(Part.text)
       THEN part' = part + 1 /\ offset' = 0
       ELSE part' = part /\ offset' = offset + length
  /\ UNCHANGED <<message, taken>>

At(callback) == state = "parsing" /\ Part.callback = callback

OnUrl ==
  /\ At("url")
  /\ \E n \in PieceLengths : Resume(restinio_url_cb(ctx, Piece(n)), n)

OnHeaderField ==
  /\ At("header_field")
  /\ \E n \in PieceLengths : Resume(restinio_header_field_cb(ctx, Piece(n)), n)

OnHeaderValue ==
  /\ At("header_value")
  /\ \E n \in PieceLengths : Resume(restinio_header_value_cb(ctx, Piece(n)), n)

OnHeadersComplete ==
  /\ At("headers_complete")
  /\ Resume(restinio_headers_complete_cb(ctx, Part.content_length), 0)

OnBody ==
  /\ At("body")
  /\ \E n \in PieceLengths : Resume(restinio_body_cb(ctx, Piece(n)), n)

OnChunkHeader ==
  /\ At("chunk_header")
  /\ Resume(restinio_chunk_header_cb(ctx, Part.content_length), 0)

OnChunkComplete ==
  /\ At("chunk_complete")
  /\ Resume(Returns(ctx, TRUE), 0)

OnMessageComplete ==
  /\ At("message_complete")
  /\ Resume(restinio_message_complete_cb(ctx), 0)

\* The request is made of what is moved out of the context, and the handler is
\* called with it.  A moved-from string or container is empty.
TakeRequest ==
  /\ state = "complete"
  /\ LET moved == make_chunked_input_info_if_necessary(ctx)
     IN  /\ taken' = Append(taken, [m_header |-> ctx.m_header, m_body |-> ctx.m_body,
                                    m_chunked_input_info |-> moved[1],
                                    of |-> message])
         /\ ctx' = [moved[2] EXCEPT !.m_header.m_request_target = <<>>,
                                    !.m_header.m_fields = <<>>, !.m_body = <<>>]
  /\ state' = "taken"
  /\ UNCHANGED <<message, part, offset>>

\* The connection waits for the next message of the client.
wait_for_http_message ==
  /\ state = "taken"
  /\ Len(taken) < MaxMessages
  /\ ~ message.upgrade
  /\ message' \in Messages
  /\ part' = 1
  /\ offset' = 0
  /\ ctx' = reset(ctx)
  /\ state' = "parsing"
  /\ UNCHANGED taken

ParseStep ==
  \/ OnUrl \/ OnHeaderField \/ OnHeaderValue \/ OnHeadersComplete
  \/ OnBody \/ OnChunkHeader \/ OnChunkComplete \/ OnMessageComplete

(***************************************************************************)
(* Properties                                                              *)
(***************************************************************************)

Pairs(fields) ==
  [i \in DOMAIN fields |-> [name |-> fields[i].m_name, value |-> fields[i].m_value]]

\* The request a handler gets is the message the client sent, in whatever pieces
\* it arrived and whatever was read before it on the connection: the target is
\* split at the same separators as when it is set at once, the fields are in
\* their order and under their identifiers, every chunk can be cut out of the
\* body, and an information about chunks is there when the message has chunks
\* or trailing fields.
RequestIsTheMessage ==
  \A i \in DOMAIN taken :
    LET r == taken[i]
        m == r.of
        h == request_target(request_header, m.target)
    IN  /\ <<path(r.m_header), query(r.m_header), fragment(r.m_header)>>
             = <<path(h), query(h), fragment(h)>>
        /\ Pairs(r.m_header.m_fields) = m.fields
        /\ IdsAndNamesAgree(r.m_header.m_fields)
        /\ r.m_body = FlattenSeq(m.chunks)
        /\ (r.m_chunked_input_info = <<>>)
             <=> ~ (m.chunked /\ (m.chunks # <<>> \/ m.trailing # <<>>))
        /\ r.m_chunked_input_info # <<>> =>
             LET info == r.m_chunked_input_info[1]
             IN  /\ Pairs(info.m_trailing_fields) = m.trailing
                 /\ [c \in DOMAIN info.m_chunks |->
                       make_string_view(info.m_chunks[c], r.m_body)]
                      = [c \in DOMAIN m.chunks |-> <<m.chunks[c]>>]

FieldsOf(m) == m.fields \o m.trailing

\* Does the message have a part over a limit?  ValueOver says which values are.
OverLimits(m, ValueOver(_)) ==
  \/ Len(m.target) > Limits.max_url_size
  \/ Len(FieldsOf(m)) > Limits.max_field_count
  \/ Len(FlattenSeq(m.chunks)) > Limits.max_body_size
  \/ \E i \in DOMAIN FieldsOf(m) :
        \/ Len(FieldsOf(m)[i].name) > Limits.max_field_name_size
        \/ ValueOver(FieldsOf(m)[i].value)

\* The limits do not depend on how a message is cut into pieces: a message over
\* one of them is never handed to the handler, and only such a message is
\* refused.  A value is over its limit as soon as it reaches it.
LimitsIndependentOfPieces ==
  LET TooLong(value) == Len(value) >= Limits.max_field_value_size
  IN  /\ state = "failed" => OverLimits(message, TooLong)
      /\ \A i \in DOMAIN taken : ~ OverLimits(taken[i].of, TooLong)

\* What incoming_http_msg_limits.hpp says of the limits: a message is ignored
\* if a part of it exceeds the specified limit.  A value of exactly the maximum
\* size does not exceed it, and restinio_header_value_cb refuses it.
RefusedOnlyIfLimitExceeded ==
  LET TooLong(value) == Len(value) > Limits.max_field_value_size
  IN  state = "failed" => OverLimits(message, TooLong)

=============================================================================
