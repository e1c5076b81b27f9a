----------------------------- MODULE MCMessages -----------------------------
(***************************************************************************)
(* Messages of a few characters, small limits.                             *)
(***************************************************************************)
EXTENDS MessageExchange

MCLowerCase ==
  [c \in {"T", "t", "E", "e", "D", "d", "X", "x"} |->
     CASE c = "T" -> "t" [] c = "E" -> "e" [] c = "D" -> "d" [] c = "X" -> "x"
       [] OTHER -> c]

MCFieldNames == [transfer_encoding |-> <<"T", "E">>, date |-> <<"D">>]

MCLimits ==
  [max_url_size |-> 6, max_field_name_size |-> 2, max_field_value_size |-> 3,
   max_field_count |-> 2, max_body_size |-> 3]

Field(name, value) == [name |-> name, value |-> value]

Plain ==
  [method |-> "POST", target |-> <<"/">>, fields |-> <<>>, chunked |-> FALSE,
   chunks |-> <<>>, trailing |-> <<>>, keep_alive |-> TRUE, upgrade |-> FALSE]

Targets ==
  {<<"/", "a", "?", "b", "#", "?">>, <<"/", "#", "?", "#">>, <<"/", "?", "?", "a">>,
   <<"?", "#">>, <<"/", "a">>, <<"/", "a", "?", "b", "#", "?", "c">>}

FieldLists ==
  {<<Field(<<"t", "E">>, <<"a", "b">>), Field(<<"x">>, <<>>)>>,
   <<Field(<<"D">>, <<"a">>), Field(<<"d">>, <<"b">>), Field(<<"x">>, <<"c">>)>>,
   <<Field(<<"x", "x", "x">>, <<"a">>)>>,
   <<Field(<<"x">>, <<"a", "b", "c">>)>>,
   <<Field(<<"x">>, <<"a", "b", "c", "d">>)>>}

ChunkLists ==
  {<<<<"p">>, <<"q", "r">>>>, <<<<"p", "q">>, <<"r", "s">>>>, <<<<"p", "q", "r">>>>, <<>>}

TrailingLists ==
  {<<>>, <<Field(<<"x">>, <<"a">>), Field(<<"D">>, <<>>)>>, <<Field(<<"D">>, <<"a", "b">>)>>,
   <<Field(<<"x">>, <<"a">>), Field(<<"x">>, <<"a">>), Field(<<"x">>, <<"a">>)>>}

MCMessageSet ==
  {[Plain EXCEPT !.target = target] : target \in Targets}
    \cup {[Plain EXCEPT !.fields = fields] : fields \in FieldLists}
    \cup {[Plain EXCEPT !.chunked = TRUE, !.chunks = chunks, !.trailing = trailing] :
            chunks \in ChunkLists, trailing \in TrailingLists}
    \cup {[Plain EXCEPT !.chunks = <<chunk>>] :
            chunk \in {<<"p", "q", "r">>, <<"p", "q", "r", "s">>}}
    \cup {[Plain EXCEPT !.upgrade = TRUE], [Plain EXCEPT !.keep_alive = FALSE], Plain}

MCAnswered == {Plain}

MCBodies == {<<>>, <<"p">>, <<"q", "r">>}

MCNames == {<<"t", "e">>, <<"X">>}

MCValues == {<<"v">>, <<"chunked">>}

\* Headers of several fields or with appended values are explored for one kind of
\* builder, and up to the first byte of the response.
ResponseBound ==
  LET fields == builder.m_header.m_fields
  IN  (Len(fields) > 1 \/ \E i \in DOMAIN fields : Len(fields[i].m_value) > 1)
        => /\ builder.kind = "restinio_controlled_output"
           /\ pending = <<>>
           /\ written = <<>>

Frame(final, opcode, bytes) ==
  [final |-> final, opcode |-> opcode, rsv |-> <<FALSE, FALSE, FALSE>>, mask |-> TRUE,
   key |-> <<55, 250, 33, 0>>, length |-> Len(bytes), payload |-> bytes]

FirstByteOf(length, opcode) == [Frame(TRUE, opcode, <<7>>) EXCEPT !.length = length]

Close(code, reason) ==
  Frame(TRUE, connection_close_frame, status_code_to_bin(code) \o reason)

Ping == Frame(TRUE, ping_frame, <<255>>)

Cont(final, bytes) == Frame(final, continuation_frame, bytes)

\* Texts in one frame and in several, with control frames between them.
TextStreams ==
  {<<Frame(FALSE, text_frame, <<226>>), Cont(FALSE, <<130>>), Cont(TRUE, <<172, 97>>),
     Frame(TRUE, text_frame, <<98>>)>>,
   <<Frame(FALSE, text_frame, <<97>>), Ping, Cont(TRUE, <<195, 169>>), Close(1000, <<>>)>>,
   <<Frame(FALSE, text_frame, <<195>>), Ping, Cont(TRUE, <<169>>)>>,
   <<Frame(FALSE, text_frame, <<97>>), Cont(TRUE, <<255>>), Close(1000, <<114>>)>>,
   <<Frame(TRUE, text_frame, <<255, 98, 99>>), Ping, Close(1000, <<>>)>>,
   <<Frame(TRUE, text_frame, <<255, 98, 99>>), Close(1000, <<114>>)>>,
   <<Frame(TRUE, text_frame, <<195>>)>>,
   <<Frame(FALSE, binary_frame, <<255>>), Cont(TRUE, <<255>>), Frame(TRUE, text_frame, <<>>),
     Frame(TRUE, binary_frame, <<195>>), Ping>>}

CloseStreams ==
  {<<Close(code, <<>>)>> : code \in {999, 1000, 1003, 1004, 1006, 1007, 1011, 1012, 2999,
                                    3000, 4999, 5000}}
    \cup {<<Close(1000, <<195, 169>>)>>, <<Close(1000, <<195>>)>>,
          <<Frame(TRUE, connection_close_frame, <<>>)>>}

\* Headers at the lengths where their form changes, and headers that are wrong.
HeaderStreams ==
  {<<FirstByteOf(length, opcode)>> : length \in {125, 126, 65535, 65536},
                                     opcode \in {binary_frame, pong_frame}}
    \cup {<<Frame(TRUE, 3, <<>>)>>, <<Frame(FALSE, ping_frame, <<>>)>>, <<Cont(TRUE, <<>>)>>,
          <<[Frame(TRUE, text_frame, <<97>>) EXCEPT !.mask = FALSE]>>,
          <<[Frame(TRUE, text_frame, <<>>) EXCEPT !.rsv = <<FALSE, TRUE, FALSE>>]>>,
          <<Frame(FALSE, text_frame, <<>>), Ping, Frame(TRUE, text_frame, <<>>)>>}

MCFrameStreams == TextStreams \cup CloseStreams \cup HeaderStreams

=============================================================================
