---------------------------- MODULE FieldParsers ----------------------------
(***************************************************************************)
(* The grammars of restinio/helpers/http_field_parsers: each make_parser() *)
(* is the term of EasyParser it builds.  A structure is a record, the      *)
(* alternatives of a variant are records that differ in their fields, and  *)
(* a qvalue is the number of thousandths (m_value of qvalue_t).            *)
(***************************************************************************)
EXTENDS EasyParser

(***************************************************************************)
(* basics.hpp                                                              *)
(***************************************************************************)
alpha_symbol_p == symbol_of(is_alpha)
alphanum_symbol_p == symbol_of(is_alphanum)
vchar_symbol_p == symbol_of(is_vchar)
token_symbol_p == symbol_of(is_token_char)

expected_token_p(token) ==
    produce(FALSE, <<exact_p(token) ## as_result, not_clause(<<token_symbol_p ## skip>>)>>)

expected_caseless_token_p(token) ==
    produce(FALSE, <<caseless_exact_p(token) ## as_result, not_clause(<<token_symbol_p ## skip>>)>>)

qvalue_maximum == 1000

qvalue_p ==
    produce(0, <<alternatives(<<
        sequence(<<symbol("0"),
                   maybe(<<symbol("."),
                           maybe(<<digit_p ## digit_consumer_t(100),
                                   maybe(<<digit_p ## digit_consumer_t(10),
                                           maybe(<<digit_p ## digit_consumer_t(1)>>)>>)>>)>>)>>),
        sequence(<<symbol_p("1") ## digit_consumer_t(1000),
                   maybe(<<symbol("."),
                           maybe(<<symbol("0"),
                                   maybe(<<symbol("0"), maybe(<<symbol("0")>>)>>)>>)>>)>>)>>)>>)

\* qvalue_t::make_char_array: always one digit, a point and three digits.
qvalue_as_string(value) ==
    LET Digit(n) == Text("0123456789")[n + 1]
    IN  IF value = qvalue_maximum THEN Text("1.000")
        ELSE <<"0", ".", Digit(value \div 100), Digit((value % 100) \div 10), Digit(value % 10)>>

weight_p ==
    produce(0, <<ows, symbol(";"), ows, caseless_symbol("q"), symbol("="), qvalue_p ## as_result>>)

\* OWS "," [ OWS element ], any number of times.
MoreElements(element) ==
    repeat(0, N, <<ows, symbol(","), maybe(<<ows, element ## to_container>>)>>)

non_empty_comma_separated_list_p(element) ==
    produce(<<>>, <<sequence(<<
        repeat(0, N, <<symbol(","), ows>>), element ## to_container, MoreElements(element)>>)>>)

maybe_empty_comma_separated_list_p(element) ==
    produce(<<>>, <<maybe(<<
        alternatives(<<symbol(","), element ## to_container>>), MoreElements(element)>>)>>)

\* A token or a quoted string, stored in a member.
TokenOrQuotedString(name) ==
    alternatives(<<token_p ## member(name), quoted_string_p ## member(name)>>)

\* The same for an optional member.
MaybeTokenOrQuotedString(name) ==
    alternatives(<<token_p ## optional_member(name), quoted_string_p ## optional_member(name)>>)

parameter_with_mandatory_value == [first |-> <<>>, second |-> <<>>]
parameter_with_optional_value == [first |-> <<>>, second |-> nullopt]

params_with_value_p ==
    produce(<<>>, <<repeat(0, N, <<
        produce(parameter_with_mandatory_value, <<
            ows, symbol(";"), ows, token_p ## to_lower ## member("first"),
            symbol("="), TokenOrQuotedString("second")>>) ## to_container>>)>>)

params_with_opt_value_p ==
    produce(<<>>, <<repeat(0, N, <<
        produce(parameter_with_optional_value, <<
            ows, symbol(";"), ows, token_p ## to_lower ## member("first"),
            maybe(<<symbol("="), MaybeTokenOrQuotedString("second")>>)>>) ## to_container>>)>>)

\* The value of the first parameter of that name, letter case ignored.
find_first(where, what) ==
    LET found == {i \in DOMAIN where : Lower(where[i].first) = Lower(what)}
    IN  IF found = {} THEN [found |-> FALSE]
        ELSE [found |-> TRUE,
              value |-> where[CHOOSE i \in found : \A j \in found : i <= j].second]

(***************************************************************************)
(* Lists of tokens and of weighted items.                                  *)
(***************************************************************************)
connection_value_t ==
    produce([values |-> <<>>],
            <<non_empty_comma_separated_list_p(token_p ## to_lower) ## member("values")>>)

content_encoding_value_t ==
    produce([values |-> <<>>],
            <<non_empty_comma_separated_list_p(token_p ## to_lower) ## member("values")>>)

accept_charset_value_t ==
    produce([charsets |-> <<>>], <<non_empty_comma_separated_list_p(
        produce([charset |-> <<>>, weight |-> qvalue_maximum], <<
            token_p ## to_lower ## member("charset"),
            maybe(<<weight_p ## member("weight")>>)>>)) ## member("charsets")>>)

accept_encoding_value_t ==
    produce([codings |-> <<>>], <<maybe_empty_comma_separated_list_p(
        produce([content_coding |-> <<>>, weight |-> qvalue_maximum], <<
            token_p ## to_lower ## member("content_coding"),
            maybe(<<weight_p ## member("weight")>>)>>)) ## member("codings")>>)

make_language_tag_p ==
    produce(<<>>, <<
        repeat(1, 8, <<alpha_symbol_p ## to_container>>),
        repeat(0, N, <<symbol_p("-") ## to_container,
                       repeat(1, 8, <<alphanum_symbol_p ## to_container>>)>>)>>)

make_language_range_p ==
    produce(<<>>, <<alternatives(<<symbol_p("*") ## to_container,
                                   make_language_tag_p ## as_result>>)>>)

accept_language_value_t ==
    produce([languages |-> <<>>], <<non_empty_comma_separated_list_p(
        produce([language_range |-> <<>>, weight |-> qvalue_maximum], <<
            make_language_range_p ## member("language_range"),
            maybe(<<weight_p ## member("weight")>>)>>)) ## member("languages")>>)

cache_control_value_t ==
    produce([directives |-> <<>>], <<non_empty_comma_separated_list_p(
        produce(parameter_with_optional_value, <<
            token_p ## to_lower ## member("first"),
            maybe(<<symbol("="), MaybeTokenOrQuotedString("second")>>)>>)) ## member("directives")>>)

(***************************************************************************)
(* Media types.                                                            *)
(***************************************************************************)
media_type_value == [type |-> <<>>, subtype |-> <<>>, parameters |-> <<>>]

make_default_parser ==
    produce(media_type_value, <<
        token_p ## to_lower ## member("type"), symbol("/"),
        token_p ## to_lower ## member("subtype"),
        params_with_value_p ## member("parameters")>>)

\* A parameter is not a weight: the weight ends the parameters.
make_weight_aware_parser ==
    produce(media_type_value, <<
        token_p ## to_lower ## member("type"), symbol("/"),
        token_p ## to_lower ## member("subtype"),
        produce(<<>>, <<repeat(0, N, <<
            produce(parameter_with_mandatory_value, <<
                not_clause(<<weight_p ## skip>>),
                ows, symbol(";"), ows, token_p ## to_lower ## member("first"),
                symbol("="), TokenOrQuotedString("second")>>) ## to_container>>)>>)
          ## member("parameters")>>)

accept_value_t ==
    produce([items |-> <<>>], <<maybe_empty_comma_separated_list_p(
        produce([media_type |-> media_type_value, weight |-> nullopt, accept_params |-> <<>>], <<
            make_weight_aware_parser ## member("media_type"),
            maybe(<<weight_p ## optional_member("weight"),
                    params_with_opt_value_p ## member("accept_params")>>)>>)) ## member("items")>>)

content_type_value_t ==
    produce([media_type |-> media_type_value], <<make_default_parser ## member("media_type")>>)

known(coding) == [known_transfer_coding |-> coding]

transfer_encoding_value_t ==
    produce([values |-> <<>>], <<non_empty_comma_separated_list_p(
        produce(known("chunked"), <<alternatives(<<
            expected_caseless_token_p("chunked") ## just_result(known("chunked")),
            expected_caseless_token_p("compress") ## just_result(known("compress")),
            expected_caseless_token_p("deflate") ## just_result(known("deflate")),
            expected_caseless_token_p("gzip") ## just_result(known("gzip")),
            expected_caseless_token_p("x-gzip") ## just_result(known("gzip")),
            produce([token |-> <<>>, transfer_parameters |-> <<>>], <<
                token_p ## to_lower ## member("token"),
                params_with_value_p ## member("transfer_parameters")>>) ## as_result>>)>>))
      ## member("values")>>)

user_agent_value_t ==
    LET product == produce([product |-> <<>>, product_version |-> nullopt], <<
                       token_p ## member("product"),
                       maybe(<<symbol("/"), token_p ## optional_member("product_version")>>)>>)
    IN  produce([product |-> [product |-> <<>>, product_version |-> nullopt], tail |-> <<>>], <<
            product ## member("product"),
            produce(<<>>, <<repeat(0, N, <<
                space, ows,
                alternatives(<<product ## as_alternative("product") ## to_container,
                               comment_p ## as_alternative("comment") ## to_container>>)>>)>>)
              ## member("tail")>>)

(***************************************************************************)
(* authorization.hpp, basic_auth.hpp, bearer_auth.hpp                      *)
(***************************************************************************)
is_token68_char == is_alphanum \cup Range(Text("-._~+/"))
token68_symbol_p == symbol_of(is_token68_char)

token68_p ==
    produce([token68 |-> <<>>], <<
        produce(<<>>, <<repeat(1, N, <<token68_symbol_p ## to_container>>),
                        repeat(0, N, <<symbol_p("=") ## to_container>>)>>) ## member("token68")>>)

\* token68 takes the whole input.
token68_seq == sequence(<<token68_p ## as_result, not_clause(<<any_symbol_p ## skip>>)>>)

authorization_params_seq ==
    maybe_empty_comma_separated_list_p(
        produce([name |-> <<>>, value |-> nullopt], <<
            token_p ## to_lower ## member("name"), ows, symbol("="), ows,
            produce([token |-> <<>>], <<alternatives(<<
                token_p ## convert("token", {}) ## as_result,
                quoted_string_p ## convert("quoted_string", {}) ## as_result>>)>>)
              ## member("value")>>)) ## as_alternative("params") ## as_result

authorization_value_t ==
    produce([auth_scheme |-> <<>>, auth_param |-> [token68 |-> <<>>]], <<
        token_p ## to_lower ## member("auth_scheme"),
        maybe(<<repeat(1, N, <<space>>),
                produce([token68 |-> <<>>],
                        <<alternatives(<<token68_seq, authorization_params_seq>>)>>)
                  ## member("auth_param")>>)>>)

HoldsToken68(auth_param) == "token68" \in DOMAIN auth_param

Extracted(params) == [ok |-> TRUE, params |-> params]
ExtractionError(error) == [ok |-> FALSE, error |-> error]

\* bearer_auth.hpp
bearer_try_extract_params(http_field) ==
    IF HoldsToken68(http_field.auth_param)
      THEN Extracted([token |-> http_field.auth_param.token68])
      ELSE ExtractionError("invalid_bearer_auth_param")

\* basic_auth.hpp: what base64::try_decode makes of the token, as a text.
DecodedToken(token) ==
    LET r == try_decode(Codes(token)) IN IF r.ok THEN [r EXCEPT !.val = Characters(@)] ELSE r

UsernameAndPassword(pair) ==
    LET first_colon == SelectInSeq(pair, LAMBDA c : c = ":")
    IN  CASE first_colon = 0 -> ExtractionError("invalid_username_password_pair")
          [] first_colon = 1 -> ExtractionError("empty_username")
          [] OTHER -> Extracted([username |-> SubSeq(pair, 1, first_colon - 1),
                                 password |-> SubSeq(pair, first_colon + 1, Len(pair))])

basic_try_extract_params(http_field) ==
    IF ~HoldsToken68(http_field.auth_param) THEN ExtractionError("invalid_basic_auth_param")
    ELSE LET unbase64_result == DecodedToken(http_field.auth_param.token68)
         IN  IF unbase64_result.ok THEN UsernameAndPassword(unbase64_result.val)
                                   ELSE ExtractionError("token68_decode_error")

\* perform_extraction_attempt of the two headers: the field must be there, be
\* parsed and have the scheme of the header.
ExtractFrom(parsed, scheme) ==
    IF ~parsed.ok THEN ExtractionError("illegal_http_field_value")
    ELSE IF parsed.val.auth_scheme # Text(scheme) THEN ExtractionError("not_that_auth_scheme")
    ELSE IF scheme = "basic" THEN basic_try_extract_params(parsed.val)
    ELSE bearer_try_extract_params(parsed.val)
perform_extraction_attempt(opt_field_value, scheme) ==
    IF opt_field_value = nullopt THEN ExtractionError("no_auth_http_field")
    ELSE ExtractFrom(try_parse(opt_field_value[1], authorization_value_t), scheme)

(***************************************************************************)
(* content-disposition.hpp                                                 *)
(***************************************************************************)
mime_charsetc_predicate_t == is_alphanum \cup Range(Text("!#$%&+-^_{}~")) \cup {"<bq>"}
language_predicate_t == is_alphanum \cup {"-"}
attr_char_predicate_t == is_alphanum \cup Range(Text("!#$&+-.^_|~")) \cup {"<bq>"}

mime_charsetc_symbol_p == symbol_of(mime_charsetc_predicate_t)
language_symbol_p == symbol_of(language_predicate_t)
attr_char_symbol_p == symbol_of(attr_char_predicate_t)

pct_encoded_symbols_p ==
    produce(<<>>, <<symbol_p("%") ## to_container,
                    hexdigit_p ## to_container, hexdigit_p ## to_container>>)
pct_encoded_symbols_consumer_t == append_to_container

ext_parameter_value_p ==
    produce(<<>>, <<
        repeat(1, N, <<mime_charsetc_symbol_p ## to_container>>),
        symbol_p("'") ## to_container,
        repeat(0, N, <<language_symbol_p ## to_container>>),
        symbol_p("'") ## to_container,
        repeat(0, N, <<alternatives(<<
            attr_char_symbol_p ## to_container,
            pct_encoded_symbols_p ## pct_encoded_symbols_consumer_t>>)>>)>>)

content_disposition_value_t ==
    produce([value |-> <<>>, parameters |-> <<>>], <<
        token_p ## to_lower ## member("value"),
        produce(<<>>, <<repeat(0, N, <<
            produce(parameter_with_mandatory_value, <<
                ows, symbol(";"), ows,
                alternatives(<<
                    sequence(<<regular_token_p ## to_lower ## member("first"), symbol("="),
                               TokenOrQuotedString("second")>>),
                    sequence(<<ext_token_p ## to_lower ## member("first"), symbol("="),
                               ext_parameter_value_p ## member("second")>>)>>)>>)
              ## to_container>>)>>) ## member("parameters")>>)

(***************************************************************************)
(* host.hpp                                                                *)
(***************************************************************************)
unreserved_predicate_t == is_alphanum \cup Range(Text("-._~"))
sub_delims_predicate_t == Range(Text("!$&'()*+,;="))
unreserved_symbol_p == symbol_of(unreserved_predicate_t)
sub_delims_symbol_p == symbol_of(sub_delims_predicate_t)

ipv4_address_p ==
    LET dec_octet == produce(<<>>, <<alternatives(<<
            sequence(<<symbol_p("2") ## to_container, symbol_p("5") ## to_container,
                       symbol_from_range_p("0", "5") ## to_container>>),
            sequence(<<symbol_p("2") ## to_container, symbol_from_range_p("0", "4") ## to_container,
                       digit_p ## to_container>>),
            sequence(<<symbol_p("1") ## to_container, digit_p ## to_container,
                       digit_p ## to_container>>),
            sequence(<<symbol_from_range_p("1", "9") ## to_container, digit_p ## to_container>>),
            digit_p ## to_container>>)>>)
        octet == dec_octet ## append_to_container
        dot == symbol_p(".") ## to_container
    IN  produce(<<>>, <<octet, dot, octet, dot, octet, dot, octet>>)

h16 == produce(<<>>, <<repeat(1, 4, <<hexdigit_p ## to_container>>)>>) ## append_to_container

h16_with_colon ==
    sequence(<<h16, symbol_p(":") ## to_container, not_clause(<<symbol(":")>>)>>)

ls32 ==
    produce(<<>>, <<alternatives(<<
        sequence(<<h16, symbol_p(":") ## to_container, h16>>),
        ipv4_address_p ## as_result>>)>>) ## append_to_container

ipv6_address_p ==
    LET double_colon == exact_p("::") ## just(Text("::")) ## append_to_container
        Before(n) == maybe(<<repeat(0, n, <<h16_with_colon>>), h16>>)
        After(n) == repeat(n, n, <<h16_with_colon>>)
    IN  produce(<<>>, <<alternatives(<<
            sequence(<<After(6), ls32>>),
            sequence(<<double_colon, After(5), ls32>>),
            sequence(<<maybe(<<h16>>), double_colon, After(4), ls32>>),
            sequence(<<Before(1), double_colon, After(3), ls32>>),
            sequence(<<Before(2), double_colon, After(2), ls32>>),
            sequence(<<Before(3), double_colon, h16_with_colon, ls32>>),
            sequence(<<Before(4), double_colon, ls32>>),
            sequence(<<Before(5), double_colon, h16>>),
            sequence(<<Before(6), double_colon>>)>>)>>)

reg_name_p ==
    produce(<<>>, <<repeat(1, N, <<alternatives(<<
        unreserved_symbol_p ## to_container,
        pct_encoded_symbols_p ## pct_encoded_symbols_consumer_t,
        sub_delims_symbol_p ## to_container>>)>>)>>)

ipv6_address_t == "ipv6_address_t"
ipv4_address_t == "ipv4_address_t"
reg_name_t == "reg_name_t"

\* A default-constructed alternative.
host_value(form) == [f \in {form} |-> <<>>]

raw_host_value_t ==
    produce([host |-> host_value(reg_name_t), port |-> nullopt], <<
        produce(host_value(reg_name_t), <<alternatives(<<
            produce(host_value(ipv6_address_t), <<
                symbol("["),
                ipv6_address_p ## to_lower ## convert(ipv6_address_t, {}) ## as_result,
                symbol("]")>>) ## as_result,
            produce(host_value(ipv4_address_t), <<
                ipv4_address_p ## convert(ipv4_address_t, {}) ## as_result>>) ## as_result,
            produce(host_value(reg_name_t), <<
                reg_name_p ## to_lower ## convert(reg_name_t, {}) ## as_result>>) ## as_result>>)>>)
          ## member("host"),
        maybe(<<symbol(":"), non_negative_decimal_number_p(uint16) ## optional_member("port")>>)>>)

(***************************************************************************)
(* range.hpp.  T is the integer type of the positions.                     *)
(***************************************************************************)
make_byte_range_spec_parser(T) ==
    produce([first |-> 0, last |-> 0], <<alternatives(<<
        produce([first |-> 0, last |-> 0], <<
            non_negative_decimal_number_p(T) ## member("first"), symbol("-"),
            non_negative_decimal_number_p(T) ## member("last")>>) ## as_result,
        produce([first |-> 0], <<
            non_negative_decimal_number_p(T) ## member("first"), symbol("-")>>) ## as_result,
        produce([length |-> 0], <<
            symbol("-"), non_negative_decimal_number_p(T) ## member("length")>>) ## as_result>>)>>)

make_bytes_prefix_parser == sequence(<<exact("bytes"), symbol("=")>>)

make_byte_ranges_specifier_parser(T) ==
    produce([ranges |-> <<>>], <<
        make_bytes_prefix_parser,
        force_only_this_alternative(<<
            non_empty_comma_separated_list_p(make_byte_range_spec_parser(T))
              ## member("ranges")>>)>>)

make_other_ranges_specifier_parser ==
    produce([range_unit |-> <<>>, range_set |-> <<>>], <<
        token_p ## member("range_unit"), symbol("="),
        force_only_this_alternative(<<
            produce(<<>>, <<repeat(1, N, <<vchar_symbol_p ## to_container>>)>>)
              ## member("range_set")>>)>>)

range_value_t(T) ==
    produce([value |-> [ranges |-> <<>>]], <<alternatives(<<
        make_byte_ranges_specifier_parser(T) ## member("value"),
        make_other_ranges_specifier_parser ## member("value")>>)>>)

(***************************************************************************)
(* try_parse_field.hpp: the field of a request or, if the request has no   *)
(* such field, the default value.                                          *)
(***************************************************************************)
ExtractedField(parse_result) ==
    IF parse_result.ok THEN [alternative |-> "value", value |-> parse_result.val]
    ELSE [alternative |-> "parse_error_t",
          at |-> parse_result.at, reason |-> parse_result.reason]
try_extract_field_value_from(opt_value, default_value, field) ==
    IF opt_value = nullopt /\ default_value = <<>> THEN [alternative |-> "field_not_found_t"]
    ELSE ExtractedField(try_parse(IF opt_value = nullopt THEN default_value ELSE opt_value[1],
                                  field))

=============================================================================
