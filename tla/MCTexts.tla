------------------------------ MODULE MCTexts ------------------------------
(***************************************************************************)
(* The parsers and conversions of texts on every input made of at most     *)
(* MaxPieces pieces of a small alphabet of the subject.  The input grows   *)
(* piece by piece, so every prefix is checked as well.                     *)
(***************************************************************************)
EXTENDS TextPromises

CONSTANTS Subjects, MaxPieces

VARIABLES subject, pieces

vars == <<subject, pieces>>

(***************************************************************************)
(* Subjects.                                                               *)
(***************************************************************************)
ParserOf(name) ==
    CASE name = "connection" -> connection_value_t
      [] name = "content_encoding" -> content_encoding_value_t
      [] name = "accept_charset" -> accept_charset_value_t
      [] name = "accept_encoding" -> accept_encoding_value_t
      [] name = "accept_language" -> accept_language_value_t
      [] name = "cache_control" -> cache_control_value_t
      [] name = "content_type" -> content_type_value_t
      [] name = "accept" -> accept_value_t
      [] name = "transfer_encoding" -> transfer_encoding_value_t
      [] name = "user_agent" -> user_agent_value_t
      [] name = "authorization" -> authorization_value_t
      [] name = "content_disposition" -> content_disposition_value_t
      [] name \in {"host", "ipv6"} -> raw_host_value_t
      [] name = "range" -> range_value_t(uint8)

PiecesOfField(name) ==
    CASE name \in {"connection", "content_encoding"} -> {"A", ",", " ", "="}
      [] name \in {"accept_charset", "accept_encoding"} -> {"A", ",", " ", ";q=", "0", ".", "1"}
      [] name = "accept_language" -> {"*", "enenen", "e", "-", ",", ";Q=0.5"}
      [] name = "cache_control" -> {"A", "=", "\"", "\\", ",", " "}
      [] name = "content_type" -> {"A", "/", ";", "=", "\"", " "}
      [] name = "accept" -> {"a/b", ";", "q=0", "=", "c", ",", ".5"}
      [] name = "transfer_encoding" -> {"chunked", "x", ";", "=", ",", " "}
      [] name = "user_agent" -> {"a", "/", " ", "(", ")", "\\"}
      [] name = "authorization" -> {"A", "=", " ", ",", "\"", "/"}
      [] name = "content_disposition" -> {"A", ";", "*", "=", "'", "%4A", " "}
      [] name = "host" -> {"a", "%4A", "!", ":", "1", "."}
      [] name = "ipv6" -> {"[", "1:", "::", "abcd", "1.1.1.1", "]", ":1"}
      [] name = "range" -> {"bytes=", "1", "-", ",", "x=", " "}

Services == {"utf8", "base64", "credentials", "integer", "query", "path", "upload",
             "arguments", "routing"}

\* Bytes at the limits of the forms of UTF-8.
Bytes == {65, 128, 143, 144, 159, 160, 191, 193, 194, 224, 237, 239, 240, 244, 248}

\* Values with characters that have a meaning in the text around them.
KeysAndValues == {Codes(Text(t)) : t \in {"", "a", "&=", "+ ", "%2", ";~"}}

File(name, body) ==
    [fields |-> <<[name |-> Text("Content-Disposition"),
                   value |-> Text("form-data; name=\"n\"; filename=\"" ) \o name \o Text("\"")]>>,
     body |-> body]
UploadedParts == {File(Text("f"), Text("x")),
          File(Text("g"), eol \o hyphens \o eol),
          [fields |-> <<>>, body |-> <<>>],
          [fields |-> <<[name |-> Text("X"), value |-> Text("1")],
                        [name |-> Text("content-disposition"),
                         value |-> Text("form-data; name=n")]>>, body |-> Text("y")]}

PiecesOf(name) ==
    CASE name \notin Services -> PiecesOfField(name)
      [] name = "utf8" -> Bytes
      [] name = "base64" -> {0, 77, 251, 255}
      [] name = "credentials" -> {"a", ":", " ", "="}
      [] name = "integer" -> Range(Codes(Text("12850-+/@"))) \cup {200}
      [] name = "query" -> [key : KeysAndValues, value : KeysAndValues]
      [] name = "path" -> {"a", "%61", "%2B", "%C3", "%A9", "%25", "/", "+", "%"}
      [] name = "upload" -> UploadedParts \X {"continue_enumeration", "stop_enumeration",
                                      "terminate_enumeration"}
      [] name = "arguments" -> {"a", "/", "%", "+", " ", "-", "~"}
      [] name = "routing" -> {"/film/", "/", "a", "1", "-", "%2F", "%31"}

\* How many pieces make the interesting cases of a subject.
PiecesAllowed(name) ==
    CASE name \in {"query", "upload"} -> 2
      [] name \in {"utf8", "arguments", "integer"} -> 4
      [] OTHER -> MaxPieces

Init == subject \in Subjects /\ pieces = <<>>

Next == /\ Len(pieces) < PiecesAllowed(subject)
        /\ \E p1 \in PiecesOf(subject) : pieces' = Append(pieces, p1)
        /\ UNCHANGED subject

Spec == Init /\ [][Next]_vars

Text0 == FoldLeft(LAMBDA text, piece : text \o Text(piece), <<>>, pieces)

\* The two texts on both sides of the middle.
Half1 == SubSeq(Text0, 1, Len(Text0) \div 2)
Half2 == SubSeq(Text0, Len(Text0) \div 2 + 1, Len(Text0))

(***************************************************************************)
(* Properties.                                                             *)
(***************************************************************************)
\* The combinators read a field value as its parser declares it: a text is
\* accepted just when it is one of the texts the clauses describe, an alternative
\* counting where no earlier one does, and the value is the one they describe.
\* No clause leaves the source or the target in a state that changes what the
\* next one sees (the backto calls and copies of easy_parser.hpp).
ParsedAsDeclared ==
    subject \notin Services => ParsesTo(TRUE, Text0, ParserOf(subject))

\* The same with alternatives as in the rules of the comments: the text is
\* accepted when any alternative describes it.
ParsedByDocumentedRule ==
    subject \notin Services => ParsesTo(FALSE, Text0, ParserOf(subject))

Utf8Exact == subject = "utf8" => (CheckedUtf8(pieces) <=> WellFormedUtf8(pieces))

IntegersMeant ==
    \A traits \in {int8_parse_traits_t, uint8_parse_traits_t} :
      parse_integer(traits, pieces) = IntegerMeant(traits, pieces)

\* Characters that digits_mapping has no right answer for: the commercial at, whose
\* entry does not say that it is no digit, and those that are outside of the table.
Unmapped == {64} \cup 128..255

IntegersExact ==
    subject = "integer" /\ Range(pieces) \cap Unmapped = {} => IntegersMeant

\* utf8_checker_t accepts the bytes of a text one by one, and is finalized after
\* the last one, just when the text is well-formed UTF-8: no overlong form, no
\* surrogate, nothing above 10FFFF, no symbol cut short.  Of the texts without a character
\* that its table does not map right, from_string accepts just the numbers its
\* type can hold, at both ends of the range.
CheckersExact == Utf8Exact /\ IntegersExact

\* What the message "invalid digit" of parse_integer stands for: no text with another
\* character than digits behind its sign is a number.
DigitsOnly == subject = "integer" => IntegersMeant

Base64RoundTrip ==
    subject = "base64" /\ pieces # <<>> => try_decode(encode(pieces)) = Success(pieces)

CredentialsExtracted ==
    subject = "credentials" =>
      LET username == SelectSeq(Half1, LAMBDA c : c # ":")
          password == Half2
      IN  perform_extraction_attempt(<<BasicCredentials(username, password)>>, "basic")
            = IF username = <<>> THEN ExtractionError("empty_username")
              ELSE Extracted([username |-> username, password |-> password])

QueryRoundTrip ==
    subject = "query" =>
      \A mode \in {restinio_defaults, javascript_compatible, x_www_form_urlencoded} :
        \A separator \in mode.separators :
          try_parse_query(mode, QueryText(mode.traits, separator, pieces))
            = Success([parameters |-> pieces, tag |-> <<>>])

\* Normalization of a path neither changes what the path means when it is
\* unescaped nor leaves anything to normalize.
NormalizationKeepsMeaning ==
    subject = "path" =>
      LET path == Codes(Text0)
          normalized == normalize_to(path)
          Meant(p1) == try_unescape_percent_encoding(relaxed_unescape_traits, p1)
      IN  normalized.ok =>
            /\ Meant(normalized.val) = Meant(path)
            /\ normalize_to(normalized.val) = normalized

\* The handler of uploads gets exactly the files of a multipart body, in their
\* order and unchanged, up to the first one it answers with something else than
\* continue_enumeration; and the result is their number unless it terminates.  Of a
\* body that is cut short anywhere it gets none.
FilesDelivered ==
    subject = "upload" /\ pieces # <<>> =>
      LET boundary == Text("b1")
          req == [content_type |-> <<Text("multipart/Form-Data; boundary=\"b1\"")>>,
                  body |-> BodyText(boundary, [i \in DOMAIN pieces |-> pieces[i][1]])]
          IsFile(i) == Len(pieces[i][1].fields) = 1
          Reached0 == {i \in DOMAIN pieces :
                         \A j \in 1..(i - 1) : IsFile(j) => pieces[j][2] = "continue_enumeration"}
          files == SetToSortSeq({i \in Reached0 : IsFile(i)}, <)
          terminated == \E i \in Reached0 : IsFile(i) /\ pieces[i][2] = "terminate_enumeration"
          whole == Len(req.body)
          Expected(found) ==
            /\ [i \in DOMAIN found.seen |-> found.seen[i].body]
                 = [i \in DOMAIN files |-> pieces[files[i]][1].body]
            /\ found.result = IF terminated THEN Error("terminated_by_handler")
                              ELSE Result(Len(files))
          Judged(n, found) ==
            IF n = whole THEN Expected(found)
                         ELSE found = Enumerated(Error("no_parts_found"), <<>>)
      IN  \A n \in 0..whole :
            Judged(n, enumerate_parts_with_files([req EXCEPT !.body = SubSeq(@, 1, n)],
                        [i \in DOMAIN pieces |-> pieces[i][2]], Text("multipart"), Text("form-data")))

FilmRoute == path_to_params(<<Fragment("/film/"),
                              Producer(path_fragment_p("/") ## unescape(restinio_default_unescape_traits)),
                              Fragment("/"),
                              Producer(path_fragment_p("/") ## unescape(restinio_default_unescape_traits))>>)
NumberRoute == path_to_tuple(<<Fragment("/film/"), Producer(non_negative_decimal_number_p(uint8)),
                               Clause(maybe(<<symbol("-")>>))>>)
AnyRoute == path_to_params(<<Fragment("/"), Producer(path_fragment_p("-")), Fragment("-"),
                             Producer(path_fragment_p("/"))>>)

Router ==
    non_matched_request_handler(
      add_handler(
        add_handler(http_get(easy_parser_router, FilmRoute, "film"),
                    add_method(any_of_methods({"GET"}), "HEAD"), NumberRoute, "number"),
        add_method(dynamic_none_of_methods, "GET"), AnyRoute, "any"), "not_found")

ArgumentsRoundTrip ==
    subject = "arguments" /\ Half1 # <<>> /\ Half2 # <<>> =>
      LET Escaped(traits, text) == Characters(escape_percent_encoding(traits, Codes(text)))
      IN  \A traits \in {{}, restinio_default_unescape_traits} : \A end \in {<<>>, <<"/">>} :
            Route(Router, "GET", Text("/film/") \o Escaped(traits, Half1) \o <<"/">>
                                   \o Escaped(traits, Half2) \o end)
              = handled_by("film", <<Half1, Half2>>)

\* What a client has encoded comes out as it was:
\*   - try_decode gives back what was encoded in base64, for every length modulo three;
\*   - the user name and the password of basic authentication, through the token68
\*     alternative of the parser, the decoder and the search for the first colon; a
\*     password may have colons and be empty;
\*   - the pairs of a query, in their order and whatever characters they have, although
\*     every pair is unescaped in the buffer that still has to be searched for the next;
\*   - the arguments of a route, whose slashes and percents are not taken for those of
\*     the route: the normalization of the path does not unescape them too early, and a
\*     slash at the end of the path is ignored.
RoundTrips ==
    Base64RoundTrip /\ CredentialsExtracted /\ QueryRoundTrip /\ ArgumentsRoundTrip

\* The first entry in the order of add_handler whose method and whole route match
\* the path gets the request, and the handler for non-matched requests gets it
\* just when there is none.
FirstMatchingRoute ==
    subject = "routing" =>
      LET path == path_to_inspect(Text0)
          Matches(method, i) ==
            /\ method \in <<{"GET"}, {"GET", "HEAD"}, {"HEAD", "POST"}>>[i]
            /\ ValuesOf(TRUE, Characters(normalize_to(Codes(path)).val),
                        Router.entries[i].route.producer) # {}
      IN  \A method \in {"GET", "HEAD", "POST"} :
            LET matching == {i \in DOMAIN Router.entries : Matches(method, i)}
            IN  Route(Router, method, Text0).handler
                  = IF matching = {} THEN "not_found"
                    ELSE Router.entries[CHOOSE i \in matching : \A j \in matching : i <= j].handler

=============================================================================
