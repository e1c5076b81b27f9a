--------------------------- MODULE MultipartBody ---------------------------
(***************************************************************************)
(* helpers/multipart_body.hpp and helpers/file_upload.hpp: the parts of a  *)
(* multipart body and the uploaded files among them.  Positions are        *)
(* numbers of characters before a place, as everywhere.  A request has the *)
(* optional value of its Content-Type field and a body.  The handler of    *)
(* the user is what it answers to its first, second, ... call.             *)
(***************************************************************************)
EXTENDS FieldParsers

Result(val) == [ok |-> TRUE, val |-> val]
Error(error) == [ok |-> FALSE, error |-> error]

eol == <<CR, LF>>
hyphens == Text("--")
last_separator == hyphens \o eol
npos == -1

StartsWith(text, prefix) == Len(prefix) <= Len(text) /\ SubSeq(text, 1, Len(prefix)) = prefix
From(text, pos) == SubSeq(text, pos + 1, Len(text))

Find(text, what) ==
    LET found == {p \in 0..(Len(text) - Len(what)) : StartsWith(From(text, p), what)}
    IN  IF found = {} THEN npos ELSE CHOOSE p \in found : \A q \in found : p <= q

EndsWithEol(text, pos) == pos >= Len(eol) /\ SubSeq(text, pos - 1, pos) = eol

(***************************************************************************)
(* split_multipart_body                                                    *)
(***************************************************************************)
\* The loop over the parts; the remaining body is behind a boundary.
RECURSIVE SplitRest(_, _, _)
SplitRest(remaining_body, boundary, tmp_result) ==
    IF ~StartsWith(remaining_body, eol) THEN <<>>
    ELSE LET rest == From(remaining_body, Len(eol))
             boundary_pos == Find(rest, boundary)
             parts == Append(tmp_result, SubSeq(rest, 1, boundary_pos - Len(eol)))
             behind == From(rest, boundary_pos + Len(boundary))
         IN  IF boundary_pos = npos \/ ~EndsWithEol(rest, boundary_pos) THEN <<>>
             ELSE IF StartsWith(behind, last_separator) THEN parts
             ELSE SplitRest(behind, boundary, parts)

split_multipart_body(body, boundary) ==
    LET boundary_pos == Find(body, boundary)
        remaining_body == From(body, boundary_pos + Len(boundary))
    IN  IF \/ boundary_pos = npos
           \/ boundary_pos # 0 /\ ~EndsWithEol(body, boundary_pos)
           \/ StartsWith(remaining_body, last_separator)
          THEN <<>>
          ELSE SplitRest(remaining_body, boundary, <<>>)

(***************************************************************************)
(* try_parse_part: part := *( token ':' OWS field-value CR LF ) CR LF body *)
(***************************************************************************)
parsed_part == [fields |-> <<>>, body |-> <<>>]

make_part_parser ==
    produce(parsed_part, <<
        produce(<<>>, <<repeat(0, N, <<
            produce([name |-> <<>>, value |-> <<>>], <<
                token_p ## to_lower ## member("name"), symbol(":"), ows,
                field_value_p ## member("value"), symbol(CR), symbol(LF)>>) ## to_container>>)>>)
          ## member("fields"),
        symbol(CR), symbol(LF),
        body_p ## member("body")>>)

\* The source need not be consumed and its spaces stay.
try_parse_part(part) == TryParse(make_part_parser, part, 0)

\* http_header_fields_t::opt_value_of: the first field of that name.
opt_value_of(fields, name) ==
    LET found == {i \in DOMAIN fields : Lower(fields[i].name) = name}
    IN  IF found = {} THEN nullopt
        ELSE <<fields[CHOOSE i \in found : \A j \in found : i <= j].value>>

(***************************************************************************)
(* The boundary.                                                           *)
(***************************************************************************)
is_bcharnospace == is_alphanum \cup Range(Text("'()+_,-./:=?"))
is_bchar == is_bcharnospace \cup {SP}

\* Is the value of the parameter a legal boundary?
check_boundary_value(value) ==
    /\ Len(value) >= 1 /\ Len(value) <= 70
    /\ \A i \in 1..(Len(value) - 1) : value[i] \in is_bchar
    /\ Last(value) \in is_bcharnospace

\* expected_media_subtype is optional.
BoundaryOf(parse_result, expected_media_type, expected_media_subtype) ==
    LET media_type == parse_result.val.media_type
        boundary == find_first(media_type.parameters, Text("boundary"))
    IN  IF ~parse_result.ok THEN Error("content_type_field_parse_error")
        ELSE IF \/ Lower(media_type.type) # Lower(expected_media_type)
                \/ /\ expected_media_subtype # nullopt
                   /\ Lower(media_type.subtype) # Lower(expected_media_subtype[1])
                \/ ~boundary.found
          THEN Error("content_type_field_inappropriate_value")
        ELSE IF ~check_boundary_value(boundary.value) THEN Error("illegal_boundary_value")
        ELSE Result(hyphens \o boundary.value)
detect_boundary_for_multipart_body(req, expected_media_type, expected_media_subtype) ==
    IF req.content_type = nullopt THEN Error("content_type_field_not_found")
    ELSE BoundaryOf(try_parse(req.content_type[1], content_type_value_t),
                    expected_media_type, expected_media_subtype)

(***************************************************************************)
(* file_upload.hpp                                                         *)
(***************************************************************************)
FileDescription(part, parsed_disposition) ==
    LET Parameter(name) == find_first(parsed_disposition.val.parameters, Text(name))
        Optional(expected) == IF expected.found THEN <<expected.value>> ELSE nullopt
    IN  IF ~parsed_disposition.ok THEN Error("content_disposition_field_parse_error")
        ELSE IF parsed_disposition.val.value # Text("form-data") THEN Error("no_files_found")
        ELSE IF ~Parameter("name").found
          THEN Error("content_disposition_field_inappropriate_value")
        ELSE IF ~Parameter("filename*").found /\ ~Parameter("filename").found
          THEN Error("no_files_found")
        ELSE Result([body |-> part.body, name |-> Parameter("name").value,
                     filename_star |-> Optional(Parameter("filename*")),
                     filename |-> Optional(Parameter("filename"))])
analyze_part(part) ==
    LET disposition_field == opt_value_of(part.fields, Text("content-disposition"))
    IN  IF disposition_field = nullopt THEN Error("no_files_found")
        ELSE FileDescription(part, try_parse(disposition_field[1], content_disposition_value_t))

translate_enumeration_error(original) ==
    IF original \in {"content_type_field_not_found", "content_type_field_parse_error",
                     "content_type_field_inappropriate_value", "illegal_boundary_value",
                     "no_parts_found", "terminated_by_handler"}
      THEN original ELSE "unexpected_error"

\* Mutant: the first part without a file ends the enumeration.
AnswerToNoFile_stop == "stop_enumeration"

AnswerToNoFile == "continue_enumeration"

AnswerToFile(description, decision) ==
    IF description.ok THEN decision
    ELSE IF description.error = "no_files_found" THEN AnswerToNoFile
    ELSE "terminate_enumeration"

\* What a handler answers in its n-th call: decisions[n], but the one that
\* enumerate_parts_with_files makes of the user's handler passes on only files.
Answer(handler, n, part) ==
    IF handler.only_files THEN AnswerToFile(analyze_part(part), handler.decisions[n])
                          ELSE handler.decisions[n]

(***************************************************************************)
(* enumerate_parts of multipart_body.hpp.  The result also says which      *)
(* parts the handler was called with.                                      *)
(***************************************************************************)
Enumerated(result, seen) == [result |-> result, seen |-> seen]

RECURSIVE EnumerateFrom(_, _, _, _)
EnumerateFrom(parts, handler, parts_processed, seen) ==
    LET After(part_parse_result) ==
            LET now_seen == Append(seen, part_parse_result.val)
                handler_ret_code == Answer(handler, Len(now_seen), part_parse_result.val)
            IN  IF ~part_parse_result.ok THEN Enumerated(Error("unexpected_error"), seen)
                ELSE CASE handler_ret_code = "terminate_enumeration" ->
                            Enumerated(Error("terminated_by_handler"), now_seen)
                       [] handler_ret_code = "stop_enumeration" ->
                            Enumerated(Result(parts_processed + 1), now_seen)
                       [] handler_ret_code = "continue_enumeration" ->
                            EnumerateFrom(Tail(parts), handler, parts_processed + 1, now_seen)
    IN  IF parts = <<>> THEN Enumerated(Result(parts_processed), seen)
        ELSE After(try_parse_part(Head(parts)))

enumerate_parts_of_request_body(parts, handler) == EnumerateFrom(parts, handler, 0, <<>>)

EnumerateBetween(boundary, body, handler) ==
    LET parts == split_multipart_body(body, boundary.val)
    IN  IF ~boundary.ok THEN Enumerated(boundary, <<>>)
        ELSE IF parts = <<>> THEN Enumerated(Error("no_parts_found"), <<>>)
        ELSE enumerate_parts_of_request_body(parts, handler)
enumerate_parts(req, handler, expected_media_type, expected_media_subtype) ==
    EnumerateBetween(
        detect_boundary_for_multipart_body(req, expected_media_type, expected_media_subtype),
        req.body, handler)

(***************************************************************************)
(* enumerate_parts_with_files                                              *)
(***************************************************************************)
\* What became of the enumeration, from the descriptions of the parts that were seen.
FilesEnumerated(result, descriptions) ==
    LET files == SelectSeq(descriptions, LAMBDA d : d.ok)
        errors == SelectSeq(descriptions, LAMBDA d : ~d.ok /\ d.error # "no_files_found")
    IN  Enumerated(IF errors # <<>> THEN errors[1]
                   ELSE IF ~result.ok THEN Error(translate_enumeration_error(result.error))
                   ELSE Result(Len(files)),
                   [i \in DOMAIN files |-> files[i].val])
FilesAmong(enumerated) ==
    FilesEnumerated(enumerated.result,
                    [i \in DOMAIN enumerated.seen |-> analyze_part(enumerated.seen[i])])

\* The parts without files are skipped; decisions[n] is what the handler answers
\* if the n-th part is a file.
enumerate_parts_with_files(req, decisions, expected_media_type, expected_media_subtype) ==
    FilesAmong(enumerate_parts(req, [only_files |-> TRUE, decisions |-> decisions],
                               expected_media_type, <<expected_media_subtype>>))

=============================================================================
