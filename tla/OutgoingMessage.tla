-------------------------- MODULE OutgoingMessage --------------------------
(***************************************************************************)
(* The response builders (message_builders.hpp) that a handler gets from   *)
(* create_response(): the one whose Content-Length RESTinio calculates,    *)
(* the user controlled one and the chunked one.  What reaches the          *)
(* connection is a sequence of write groups, each a sequence of items; an  *)
(* item is a sequence of symbols: a byte of the body, a header, the line   *)
(* with the size of a chunk, a line end, the last chunk.                   *)
(*                                                                         *)
(* done() and create_response() throw when the connection handle was moved *)
(* out before, and flush() then does nothing: such a call changes nothing. *)
(***************************************************************************)
EXTENDS HttpHeaders

CONSTANTS
  Bodies,        \* the pieces of a body a handler may give to a builder
  EditedNames,   \* the names a handler may use for header fields
  EditedValues,  \* and the values
  MaxFields,     \* bound: fields in a response header, and size of their values
  MaxBodySize    \* bound: symbols of a body

VARIABLES
  holder,    \* who holds the connection handle: "request", "builder", "none"
  builder,   \* the response builder
  written,   \* the groups given to write_response_parts()
  flushed,   \* history: the bytes of the body that were to be sent so far
  pending    \* history: the bytes of the body collected since then

output == <<holder, builder, written, flushed, pending>>

Outputs == {"restinio_controlled_output", "user_controlled_output", "chunked_output"}

(***************************************************************************)
(* Symbols                                                                 *)
(***************************************************************************)

Symbol(kind, value) == [is |-> kind, v |-> value]

crlf == Symbol("crlf", 0)
last_chunk == Symbol("last_chunk", 0)
writable_item(body) == [i \in DOMAIN body |-> Symbol("byte", body[i])]
empty_item == <<>>

\* The header text: its Content-Length is <<>> when the field is skipped.
create_header_string(h, add_content_length) ==
  <<Symbol("header",
      [connection |-> h.m_connection,
       content_length |-> IF add_content_length THEN <<h.m_content_length>> ELSE <<>>,
       fields |-> [i \in DOMAIN h.m_fields |->
                     <<h.m_fields[i].m_name, h.m_fields[i].m_value>>]])>>

(***************************************************************************)
(* The state of a builder, and the connection it writes to                 *)
(***************************************************************************)

should_keep_alive(h) == h.m_connection = "keep_alive"

response_connection_attr(keep_alive) ==
  IF keep_alive THEN "connection_keepalive" ELSE "connection_close"

response_builder(kind, keep_alive) ==
  [kind |-> kind,
   m_header |-> [m_connection |-> IF keep_alive THEN "keep_alive" ELSE "close",
                 m_content_length |-> 0, m_fields |-> <<>>],
   m_body_size |-> 0, m_response_parts |-> <<>>, m_chunks |-> <<>>,
   m_header_was_sent |-> FALSE,
   m_should_keep_alive_when_header_was_sent |-> TRUE]

\* conn->write_response_parts(): the group the connection gets.  What becomes of
\* its after-write notificator is the business of the connection.
WriteGroup(items, status_line, final, attr) ==
  written' = Append(written, [items |-> items, status_line |-> status_line,
                              final |-> final, attr |-> attr])

BodySent == flushed' = flushed \o pending /\ pending' = <<>>

(***************************************************************************)
(* base_response_builder_t                                                 *)
(***************************************************************************)

\* generic_request_t::create_response(): the handle moves to the builder.
create_response(kind, keep_alive) ==
  /\ holder = "request"
  /\ holder' = "builder"
  /\ builder' = response_builder(kind, keep_alive)
  /\ UNCHANGED <<written, flushed, pending>>

HeaderTo(fields) ==
  /\ holder = "builder"
  /\ Len(fields) <= MaxFields
  /\ \A i \in DOMAIN fields : Len(fields[i].m_value) <= MaxFields
  /\ builder' = [builder EXCEPT !.m_header.m_fields = fields]
  /\ UNCHANGED <<holder, written, flushed, pending>>

\* append_header() adds a field by name, by identifier or as an object.
append_header ==
  LET fields == builder.m_header.m_fields
  IN  \E value \in EditedValues :
        \/ \E name \in EditedNames :
              \/ HeaderTo(add_field_name(fields, name, value))
              \/ HeaderTo(add_field(fields, named_field(name, value)))
        \/ \E id \in FieldIds \cup {field_unspecified} :
              HeaderTo(add_field_id(fields, id, value))

append_header_date_field ==
  HeaderTo(set_field_id(builder.m_header.m_fields, "date", <<"now">>))

\* header() gives the handler the container itself.
EditHeader ==
  LET fields == builder.m_header.m_fields
  IN  \/ \E name \in EditedNames, value \in EditedValues :
            \/ HeaderTo(set_field(fields, named_field(name, value)))
            \/ HeaderTo(set_field_name(fields, name, value))
            \/ HeaderTo(append_field_name(fields, name, value))
            \/ HeaderTo(remove_field_name(fields, name))
            \/ HeaderTo(remove_all_of_name(fields, name))
      \/ \E id \in FieldIds \cup {field_unspecified}, value \in EditedValues :
            \/ HeaderTo(set_field_id(fields, id, value))
            \/ HeaderTo(append_field_id(fields, id, value))
            \/ HeaderTo(remove_field_id(fields, id))
            \/ HeaderTo(remove_all_of_id(fields, id))

connection_close ==
  /\ holder = "builder"
  /\ builder' = [builder EXCEPT !.m_header.m_connection = "close"]
  /\ UNCHANGED <<holder, written, flushed, pending>>

\* The overload of should_keep_alive() that is called only reads the flag.
connection_keep_alive ==
  /\ holder = "builder"
  /\ builder' = builder
  /\ UNCHANGED <<holder, written, flushed, pending>>

(***************************************************************************)
(* response_builder_t< restinio_controlled_output_t >                      *)
(***************************************************************************)

\* The first item is reserved for the header as long as it was not sent.
if_neccessary_reserve_first_element_for_header(b) ==
  IF ~ b.m_header_was_sent /\ b.m_response_parts = <<>>
    THEN <<empty_item>> ELSE b.m_response_parts

IfNotEmpty(body) == IF body = <<>> THEN <<>> ELSE <<writable_item(body)>>

set_body_controlled(body) ==
  /\ builder' = [builder EXCEPT
       !.m_response_parts =
          SubSeq(if_neccessary_reserve_first_element_for_header(builder), 1, 1)
            \o IfNotEmpty(body),
       !.m_body_size = Len(body)]
  /\ pending' = body

append_body_controlled(body) ==
  /\ builder' = [builder EXCEPT
       !.m_response_parts =
          if_neccessary_reserve_first_element_for_header(builder) \o IfNotEmpty(body),
       !.m_body_size = @ + Len(body)]
  /\ pending' = pending \o body

done_controlled ==
  LET header == [builder.m_header EXCEPT !.m_content_length = builder.m_body_size]
      parts == if_neccessary_reserve_first_element_for_header(builder)
  IN  /\ holder' = "none"
      /\ builder' = [builder EXCEPT !.m_header = header, !.m_response_parts = <<>>]
      /\ WriteGroup([parts EXCEPT ![1] = create_header_string(header, TRUE)], TRUE,
                    TRUE, response_connection_attr(should_keep_alive(header)))
      /\ BodySent

(***************************************************************************)
(* response_builder_t< user_controlled_output_t >                          *)
(***************************************************************************)

set_content_length(length) ==
  /\ holder = "builder"
  /\ builder.kind = "user_controlled_output"
  /\ builder' = [builder EXCEPT !.m_header.m_content_length = length]
  /\ UNCHANGED <<holder, written, flushed, pending>>

\* Only what was not flushed yet is replaced.
set_body_user(body) ==
  /\ builder' = [builder EXCEPT
       !.m_response_parts =
          (IF builder.m_header_was_sent THEN <<>>
           ELSE SubSeq(if_neccessary_reserve_first_element_for_header(builder), 1, 1))
            \o IfNotEmpty(body)]
  /\ pending' = body

append_body_user(body) ==
  /\ builder' = IF body = <<>> THEN builder
                ELSE [builder EXCEPT
                        !.m_response_parts =
                           Append(if_neccessary_reserve_first_element_for_header(builder),
                                  writable_item(body))]
  /\ pending' = pending \o body

\* Mutant: the attribute of each group is the one of the header as it is now.
send_ready_data_user_now(final, wscb) ==
  LET first == ~ builder.m_header_was_sent
      reserved == if_neccessary_reserve_first_element_for_header(builder)
      parts == IF first
                 THEN [reserved EXCEPT ![1] =
                         create_header_string(builder.m_header, TRUE)]
                 ELSE builder.m_response_parts
  IN  /\ builder' = [builder EXCEPT !.m_header_was_sent = TRUE,
                                    !.m_response_parts = <<>>]
      /\ IF parts # <<>> \/ wscb \/ final
           THEN WriteGroup(parts, first, final,
                  response_connection_attr(should_keep_alive(builder.m_header)))
           ELSE UNCHANGED written
      /\ BodySent

send_ready_data_user(final, wscb) ==
  LET first == ~ builder.m_header_was_sent
      keep_alive == IF first THEN should_keep_alive(builder.m_header)
                    ELSE builder.m_should_keep_alive_when_header_was_sent
      reserved == if_neccessary_reserve_first_element_for_header(builder)
      parts == IF first
                 THEN [reserved EXCEPT ![1] =
                         create_header_string(builder.m_header, TRUE)]
                 ELSE builder.m_response_parts
  IN  /\ builder' = [builder EXCEPT
                       !.m_header_was_sent = TRUE,
                       !.m_should_keep_alive_when_header_was_sent = keep_alive,
                       !.m_response_parts = <<>>]
      /\ IF parts # <<>> \/ wscb \/ final
           THEN WriteGroup(parts, first, final,
                           response_connection_attr(keep_alive))
           ELSE UNCHANGED written
      /\ BodySent

(***************************************************************************)
(* response_builder_t< chunked_output_t >                                  *)
(***************************************************************************)

append_chunk(body) ==
  /\ holder = "builder"
  /\ builder.kind = "chunked_output"
  /\ Len(flushed \o pending \o body) <= MaxBodySize
  /\ builder' = IF body = <<>> THEN builder
                ELSE [builder EXCEPT !.m_chunks = Append(@, writable_item(body))]
  /\ pending' = pending \o body
  /\ UNCHANGED <<holder, written, flushed>>

\* Transfer-Encoding says chunked, also when the handler gave another value.
prepare_header_for_sending(h) ==
  LET current == try_get_field_id(h.m_fields, "transfer_encoding")
  IN  CASE current = <<>> ->
             [h EXCEPT !.m_fields =
                add_field_id(@, "transfer_encoding", <<"chunked">>)]
        [] current # <<>> /\ ~ Contains(current[1], "chunked") ->
             [h EXCEPT !.m_fields =
                append_field_id(@, "transfer_encoding", <<",", "chunked">>)]
        [] OTHER -> h

\* Mutant: the line end after the last chunk is added only with the last chunk.
create_bufs_unended(header, chunks, add_zero_chunk) ==
  LET size_line(i) ==
        (IF i = 1 THEN <<>> ELSE <<crlf>>) \o <<Symbol("size", Len(chunks[i]))>>
      appendix == (IF chunks # <<>> /\ add_zero_chunk THEN <<crlf>> ELSE <<>>)
                    \o (IF add_zero_chunk THEN <<last_chunk>> ELSE <<>>)
  IN  header \o FlattenSeq([i \in DOMAIN chunks |-> <<size_line(i), chunks[i]>>])
        \o (IF appendix = <<>> THEN <<>> ELSE <<appendix>>)

\* Between two chunks the line end of the first goes with the size of the next.
create_bufs(header, chunks, add_zero_chunk) ==
  LET size_line(i) ==
        (IF i = 1 THEN <<>> ELSE <<crlf>>) \o <<Symbol("size", Len(chunks[i]))>>
      appendix == (IF chunks # <<>> THEN <<crlf>> ELSE <<>>)
                    \o (IF add_zero_chunk THEN <<last_chunk>> ELSE <<>>)
  IN  header \o FlattenSeq([i \in DOMAIN chunks |-> <<size_line(i), chunks[i]>>])
        \o (IF appendix = <<>> THEN <<>> ELSE <<appendix>>)

send_ready_data_chunked(final, wscb) ==
  LET first == ~ builder.m_header_was_sent
      header == IF first THEN prepare_header_for_sending(builder.m_header)
                ELSE builder.m_header
      keep_alive == IF first THEN should_keep_alive(header)
                    ELSE builder.m_should_keep_alive_when_header_was_sent
      bufs == create_bufs(IF first THEN <<create_header_string(header, FALSE)>>
                          ELSE <<>>, builder.m_chunks, final)
  IN  /\ builder' = [builder EXCEPT
                       !.m_header = header, !.m_header_was_sent = TRUE,
                       !.m_should_keep_alive_when_header_was_sent = keep_alive,
                       !.m_chunks = <<>>]
      /\ IF bufs # <<>> \/ wscb
           THEN WriteGroup(bufs, first, final,
                           response_connection_attr(keep_alive))
           ELSE UNCHANGED written
      /\ BodySent

(***************************************************************************)
(* What a handler may call                                                 *)
(***************************************************************************)

set_body ==
  /\ holder = "builder"
  /\ \E body \in Bodies :
       /\ Len(flushed \o body) <= MaxBodySize
       /\ \/ builder.kind = "restinio_controlled_output" /\ set_body_controlled(body)
          \/ builder.kind = "user_controlled_output" /\ set_body_user(body)
  /\ UNCHANGED <<holder, written, flushed>>

append_body ==
  /\ holder = "builder"
  /\ \E body \in Bodies :
       /\ Len(flushed \o pending \o body) <= MaxBodySize
       /\ \/ builder.kind = "restinio_controlled_output" /\ append_body_controlled(body)
          \/ builder.kind = "user_controlled_output" /\ append_body_user(body)
  /\ UNCHANGED <<holder, written, flushed>>

flush(wscb) ==
  /\ holder = "builder"
  /\ Len(written) < MaxBodySize
  /\ \/ builder.kind = "user_controlled_output" /\ send_ready_data_user(FALSE, wscb)
     \/ builder.kind = "chunked_output" /\ send_ready_data_chunked(FALSE, wscb)
  /\ UNCHANGED holder

done(wscb) ==
  /\ holder = "builder"
  /\ \/ builder.kind = "restinio_controlled_output" /\ done_controlled
     \/ /\ builder.kind = "user_controlled_output"
        /\ send_ready_data_user(TRUE, wscb)
        /\ holder' = "none"
     \/ /\ builder.kind = "chunked_output"
        /\ send_ready_data_chunked(TRUE, wscb)
        /\ holder' = "none"

HandlerStep ==
  \/ append_header \/ append_header_date_field \/ EditHeader
  \/ connection_close
  \/ set_body \/ append_body
  \/ set_content_length(MaxBodySize)
  \/ \E body \in Bodies : append_chunk(body)
  \/ \E wscb \in BOOLEAN : flush(wscb) \/ done(wscb)

(***************************************************************************)
(* Properties                                                              *)
(***************************************************************************)

Wire == FlattenSeq(FlattenSeq([g \in DOMAIN written |-> written[g].items]))

Completed == written # <<>> /\ Last(written).final

\* A client that reads a chunked body, symbol by symbol.
ReadChunked(reader, symbol) ==
  LET next == [reader EXCEPT !.left = reader.left - 1,
                             !.body = Append(@, symbol.v),
                             !.expects = IF reader.left = 1 THEN "crlf" ELSE "byte"]
  IN  CASE reader.expects = "size" /\ symbol.is = "size" /\ symbol.v > 0 ->
             [reader EXCEPT !.expects = "byte", !.left = symbol.v]
        [] reader.expects = "byte" /\ symbol.is = "byte" -> next
        [] reader.expects = "crlf" /\ symbol.is = "crlf" ->
             [reader EXCEPT !.expects = "size"]
        [] reader.expects = "size" /\ symbol.is = "last_chunk" ->
             [reader EXCEPT !.expects = "nothing"]
        [] OTHER -> [reader EXCEPT !.expects = "error"]

ReadToTheEnd(symbols) ==
  FoldLeft(ReadChunked, [expects |-> "size", left |-> 0, body |-> <<>>], symbols)

Bytes(symbols) == [i \in DOMAIN symbols |-> symbols[i].v]

\* A client can read the response as it comes: it starts with the one header,
\* and what follows is the body the handler collected up to the last flush() or
\* done(), in whatever order it called the builder.  RESTinio's own
\* Content-Length is the size of that body; a chunked response is well-formed
\* after every flush, ends with the last chunk, says so in Transfer-Encoding and
\* has no Content-Length.  Through any sequence of edits the fields are found by
\* identifier as by name.
ResponseCarriesBody ==
  /\ holder = "builder" => IdsAndNamesAgree(builder.m_header.m_fields)
  /\ written # <<>> =>
       LET header == Wire[1].v
           rest == Tail(Wire)
           client == ReadToTheEnd(rest)
       IN  /\ Wire[1].is = "header"
           /\ builder.kind = "chunked_output" =>
                /\ client.body = flushed
                /\ client.expects = IF Completed THEN "nothing" ELSE "size"
                /\ header.content_length = <<>>
                /\ \E i \in DOMAIN header.fields :
                      /\ is_equal_caseless(header.fields[i][1],
                                           FieldNames["transfer_encoding"])
                      /\ Contains(header.fields[i][2], "chunked")
           /\ builder.kind # "chunked_output" =>
                /\ \A i \in DOMAIN rest : rest[i].is = "byte"
                /\ Bytes(rest) = flushed
           /\ builder.kind = "restinio_controlled_output" =>
                header.content_length = <<Len(flushed)>>

\* Every group of a response carries the attribute the client was told in the
\* header (keep-alive or close), also when the handler changes its mind after a
\* flush: the connection is closed after the response exactly if it was announced.
PartsKeepTheAnnouncedAttr ==
  \A g \in DOMAIN written :
    written[g].attr = response_connection_attr(Wire[1].v.connection = "keep_alive")

=============================================================================
