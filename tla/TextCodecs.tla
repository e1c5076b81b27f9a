----------------------------- MODULE TextCodecs -----------------------------
(***************************************************************************)
(* The conversions of texts in restinio/utils (utf8_checker.hpp,           *)
(* base64.hpp, percent_encoding.hpp) and restinio/uri_helpers.hpp.  A text *)
(* is a sequence of character codes from 0 to 255.  A conversion that can  *)
(* fail returns a record with ok and the value.                            *)
(***************************************************************************)
EXTENDS Integers, Sequences, SequencesExt, FiniteSets

Success(val) == [ok |-> TRUE, val |-> val]
Failure == [ok |-> FALSE, val |-> <<>>]

CodesBetween(left, right) == {c \in 0..255 : left <= c /\ c <= right}
Digits == CodesBetween(48, 57)
UpperCase == CodesBetween(65, 90)
LowerCase == CodesBetween(97, 122)
Alphanumeric == Digits \cup UpperCase \cup LowerCase

\* Characters with a role of their own.
Space == 32
Percent == 37
Ampersand == 38
Apostrophe == 39
Plus == 43
Slash == 47
Semicolon == 59
Equals == 61

(***************************************************************************)
(* utf8_checker_t                                                          *)
(***************************************************************************)
utf8_checker == [symbol |-> 0, rest_bytes |-> 0, state |-> "valid"]

\* The number of bytes after a first byte, and the bits of it that belong to the
\* symbol; -1 if no symbol begins with the byte.
RestBytes(byte) ==
    CASE byte < 128 -> 0
      [] byte \div 32 = 6 -> 1
      [] byte \div 16 = 14 -> 2
      [] byte \div 8 = 30 -> 3
      [] byte \div 4 = 62 -> 4
      [] byte \div 2 = 126 -> 5
      [] OTHER -> -1
FirstBits(byte) ==
    LET n == RestBytes(byte) IN IF n \in 1..5 THEN byte % 2 ^ (6 - n) ELSE byte

\* Mutant: only the first byte is looked at.
check_overlong_first_byte(u, byte) ==
    IF u.rest_bytes = 0 /\ byte \in {192, 193} THEN "overlong"
    ELSE IF u.state = "may_be_overlong" THEN "valid" ELSE u.state

check_overlong(u, byte) ==
    IF u.rest_bytes > 0 /\ u.state = "may_be_overlong"
      THEN IF \/ u.rest_bytes = 2 /\ byte \div 32 = 4
              \/ u.rest_bytes = 3 /\ byte \div 16 = 8
              \/ u.rest_bytes = 4 /\ byte \div 8 = 16
              \/ u.rest_bytes = 5 /\ byte \div 4 = 32
             THEN "overlong" ELSE "valid"
      ELSE CASE byte \in {192, 193} -> "overlong"
             [] byte \in {224, 240, 248, 252} -> "may_be_overlong"
             [] OTHER -> u.state

validate_current_symbol(symbol, state) ==
    IF (55296 <= symbol /\ symbol <= 57343) \/ symbol >= 1114112 THEN "invalid" ELSE state

process_byte(u, byte) ==
    LET state == check_overlong(u, byte)
    IN  IF u.rest_bytes > 0
          THEN IF byte \div 64 = 2
                 THEN LET symbol == u.symbol * 64 + (byte % 64)
                      IN  [symbol |-> symbol, rest_bytes |-> u.rest_bytes - 1,
                           state |-> IF u.rest_bytes = 1
                                       THEN validate_current_symbol(symbol, state) ELSE state]
                 ELSE [u EXCEPT !.state = "invalid"]
          ELSE IF RestBytes(byte) = -1
            THEN [u EXCEPT !.symbol = byte, !.state = "invalid"]
            ELSE [symbol |-> FirstBits(byte), rest_bytes |-> RestBytes(byte), state |-> state]

\* What process_byte returns for that state of the checker.
accepts(u) == u.state \in {"valid", "may_be_overlong"}
finalized(u) == u.rest_bytes = 0
\* The state is not reset.
reset(u) == [u EXCEPT !.symbol = 0, !.rest_bytes = 0]

(***************************************************************************)
(* base64.hpp                                                              *)
(***************************************************************************)
base64_alphabet ==
    [n \in 0..63 |-> CASE n < 26 -> 65 + n
                       [] n \in 26..51 -> 97 + n - 26
                       [] n \in 52..61 -> 48 + n - 52
                       [] n = 62 -> Plus
                       [] n = 63 -> Slash]
base64_decode_lut ==
    [c \in 0..255 |-> IF \E n \in 0..63 : base64_alphabet[n] = c
                        THEN CHOOSE n \in 0..63 : base64_alphabet[n] = c ELSE 0]
is_base64_char == Alphanumeric \cup {Plus, Slash, Equals}

MayBePadded(paddings_found) == paddings_found <= 2

\* Two characters at least, then characters, then at most two paddings.
is_valid_base64_string(str) ==
    LET Step(st, ch) ==
            CASE st.expects = "b64ch" ->
                   IF ch = Equals \/ ch \notin is_base64_char THEN [st EXCEPT !.expects = "failed"]
                   ELSE IF st.chars + 1 >= 2
                     THEN [st EXCEPT !.expects = "b64ch_or_padding", !.chars = @ + 1]
                     ELSE [st EXCEPT !.chars = @ + 1]
              [] st.expects = "b64ch_or_padding" ->
                   IF ch = Equals THEN [st EXCEPT !.expects = "padding", !.paddings = @ + 1]
                   ELSE IF ch \in is_base64_char THEN st ELSE [st EXCEPT !.expects = "failed"]
              [] st.expects = "padding" ->
                   IF ch = Equals /\ MayBePadded(st.paddings + 1) THEN [st EXCEPT !.paddings = @ + 1]
                   ELSE [st EXCEPT !.expects = "failed"]
              [] st.expects = "failed" -> st
    IN  /\ Len(str) >= 4
        /\ FoldLeft(Step, [expects |-> "b64ch", chars |-> 0, paddings |-> 0], str).expects # "failed"

n_bits_from(bs, shift, n) == (bs \div 2 ^ shift) % 2 ^ n

\* Groups of three bytes, and a last one of one or two bytes with paddings.
encode(str) ==
    LET groups == Len(str) \div 3
        remaining == Len(str) % 3
        At(i) == IF i <= Len(str) THEN str[i] ELSE 0
        Bits(g) == At(3 * g + 1) * 65536 + At(3 * g + 2) * 256 + At(3 * g + 3)
        Char(g, k) == base64_alphabet[n_bits_from(Bits(g), 18 - 6 * k, 6)]
        Whole == [i \in 1..(4 * groups) |-> Char((i - 1) \div 4, (i - 1) % 4)]
    IN  CASE remaining = 0 -> Whole
          [] remaining = 1 -> Whole \o <<Char(groups, 0), Char(groups, 1), Equals, Equals>>
          [] remaining = 2 ->
               Whole \o <<Char(groups, 0), Char(groups, 1), Char(groups, 2), Equals>>

\* A text that is not a number of whole groups of four passes the validation,
\* and the last group is then read behind its end: the value is unspecified.
try_decode(str) ==
    LET Bits(i) == FoldLeft(LAMBDA bs, k : bs * 64 + base64_decode_lut[str[i + k]],
                            0, <<0, 1, 2, 3>>)
        Paddings(i) == Cardinality({k \in {2, 3} : str[i + k] = Equals})
        Group(i) == LET bytes == <<n_bits_from(Bits(i), 16, 8), n_bits_from(Bits(i), 8, 8),
                                   n_bits_from(Bits(i), 0, 8)>>
                    IN  SubSeq(bytes, 1, 3 - Paddings(i))
    IN  IF ~is_valid_base64_string(str) THEN Failure
        ELSE IF Len(str) % 4 # 0 THEN [ok |-> TRUE, unspecified |-> TRUE]
        ELSE Success(FlattenSeq([g \in 1..(Len(str) \div 4) |-> Group(4 * g - 3)]))

(***************************************************************************)
(* percent_encoding.hpp.  Traits are the set of characters that need not   *)
(* be escaped (ordinary_char).                                             *)
(***************************************************************************)
restinio_default_unescape_traits == Alphanumeric \cup {45, 46, 126, 95}
x_www_form_urlencoded_unescape_traits == Alphanumeric \cup {42, 45, 46, 95}
\* gen-delims: / ? # [ ] @  sub-delims: ! $ & ' ( ) * + , ; =, and the character 0, since
\* strchr finds the end of its string.
relaxed_unescape_traits ==
    Alphanumeric \cup {0, Space, 45, 46, 95, 126}
      \cup {58, 47, 63, 35, 91, 93, 64} \cup {33, 36, 38, 39, 40, 41, 42, 43, 44, 59, 61}
javascript_compatible_unescape_traits == Alphanumeric \cup {45, 46, 126, 95, 42, 33, 39, 40, 41}

HexDigits == Digits \cup CodesBetween(97, 102) \cup CodesBetween(65, 70)
HexValue(c) == IF c \in Digits THEN c - 48 ELSE 10 + (c % 32) - 1
HexDigit(n) == IF n < 10 THEN 48 + n ELSE 65 + n - 10

extract_escaped_char(c1, c2) == 16 * HexValue(c1) + HexValue(c2)

\* Is there a whole escape sequence at position d (from 0) of the buffer?
IsEscape(buf, d, left) == left >= 3 /\ buf[d + 2] \in HexDigits /\ buf[d + 3] \in HexDigits

\* The characters from d on, left of them, go unescaped to the position dest of
\* the same buffer: the in-place versions have dest = d at the beginning.
\* Returns the buffer and how many characters were collected.
RECURSIVE Unescaped(_, _, _, _, _, _, _)
Unescaped(traits, buf, d, left, dest, count, checker) ==
    LET c == buf[d + 1]
        Collect(ch, size, u) ==
            Unescaped(traits, [buf EXCEPT ![dest + 1] = ch], d + size, left - size,
                      dest + 1, count + 1, u)
    IN  IF left = 0
          THEN [ok |-> finalized(checker), buf |-> buf, count |-> count]
        ELSE IF c = Percent
          THEN IF ~IsEscape(buf, d, left) THEN [ok |-> FALSE, buf |-> buf, count |-> count]
               ELSE LET ch == extract_escaped_char(buf[d + 2], buf[d + 3])
                        u == process_byte(checker, ch)
                    IN  IF ~accepts(u) THEN [ok |-> FALSE, buf |-> buf, count |-> count]
                        ELSE Collect(ch, 3, IF finalized(u) THEN reset(u) ELSE u)
        ELSE IF ~finalized(checker) THEN [ok |-> FALSE, buf |-> buf, count |-> count]
        ELSE IF c = Plus THEN Collect(Space, 1, checker)
        ELSE IF c \in traits THEN Collect(c, 1, checker)
        ELSE [ok |-> FALSE, buf |-> buf, count |-> count]

do_unescape_percent_encoding(traits, buf, d, size, dest) ==
    Unescaped(traits, buf, d, size, dest, 0, utf8_checker)

\* The result is collected in a string of its own: behind the data.
try_unescape_percent_encoding(traits, data) ==
    LET r == do_unescape_percent_encoding(traits, data \o data, 0, Len(data), Len(data))
    IN  IF r.ok THEN Success(SubSeq(r.buf, Len(data) + 1, Len(data) + r.count)) ELSE Failure

try_inplace_unescape_percent_encoding(traits, buf, from, size) ==
    do_unescape_percent_encoding(traits, buf, from, size, from)

\* Modelled for the codes below 128: how the format converts a negative char is
\* not.
escape_percent_encoding(traits, data) ==
    LET Step(result, c) ==
            IF c \in traits THEN Append(result, c)
            ELSE result \o <<Percent, HexDigit(c \div 16), HexDigit(c % 16)>>
    IN  FoldLeft(Step, <<>>, data)

is_unreserved_char == restinio_default_unescape_traits

\* Mutant: every character below 128 is unescaped.
ReplacedByOneChar_any(u) == finalized(u) /\ u.symbol < 128

\* An escaped character that is output as one character.
ReplacedByOneChar(u) == finalized(u) /\ u.symbol < 128 /\ u.symbol \in is_unreserved_char

RECURSIVE run_normalization_algo(_, _, _, _)
run_normalization_algo(what, d, checker, out) ==
    LET left == Len(what) - d
    IN  IF left = 0 THEN (IF finalized(checker) THEN Success(out) ELSE Failure)
        ELSE IF what[d + 1] # Percent
          THEN IF finalized(checker)
                 THEN run_normalization_algo(what, d + 1, checker, Append(out, what[d + 1]))
                 ELSE Failure
        ELSE IF ~IsEscape(what, d, left) THEN Failure
        ELSE LET u == process_byte(checker, extract_escaped_char(what[d + 2], what[d + 3]))
             IN  IF ~accepts(u) THEN Failure
                 ELSE run_normalization_algo(
                        what, d + 3, IF finalized(u) THEN reset(u) ELSE u,
                        out \o (IF ReplacedByOneChar(u) THEN <<u.symbol>>
                                ELSE SubSeq(what, d + 1, d + 3)))

normalize_to(what) == run_normalization_algo(what, 0, utf8_checker, <<>>)

estimate_required_capacity(what) == Len(normalize_to(what).val)

(***************************************************************************)
(* uri_helpers.hpp                                                         *)
(***************************************************************************)
restinio_defaults ==
    [traits |-> restinio_default_unescape_traits, separators |-> {Ampersand, Semicolon}]
javascript_compatible ==
    [traits |-> javascript_compatible_unescape_traits, separators |-> {Ampersand, Semicolon}]
x_www_form_urlencoded ==
    [traits |-> x_www_form_urlencoded_unescape_traits, separators |-> {Ampersand}]
relaxed == [traits |-> relaxed_unescape_traits, separators |-> {Ampersand}]

\* find_first_of: the position (from 0) of the first such character from a
\* position on, or the size of the text.
FindFirst(text, set, from) ==
    CHOOSE j \in from..Len(text) : /\ j < Len(text) => text[j + 1] \in set
                                   /\ \A k \in (from + 1)..j : text[k] \notin set

find_next_separator(mode, where, start_from) == FindFirst(where, mode.separators, start_from)

\* Mutant: the rest of the query is looked for right behind the unescaped value.
NextPairAt_unescaped(eq_pos, separator_pos, value_size) == eq_pos + 1 + value_size + 1

NextPairAt(eq_pos, separator_pos, value_size) == separator_pos + 1

\* What a string_view of the buffer shows.
View(buf, view) == SubSeq(buf, view.from + 1, view.from + view.size)

\* The loop of try_parse_query from pos on; keys and values are unescaped in the
\* buffer that is searched for the next pair, and are views of that buffer.
RECURSIVE QueryFrom(_, _, _, _)
QueryFrom(mode, buf, pos, parameters) ==
    LET eq_pos == FindFirst(buf, {Equals}, pos)
        separator_pos == find_next_separator(mode, buf, eq_pos + 1)
        key == try_inplace_unescape_percent_encoding(mode.traits, buf, pos, eq_pos - pos)
        value == try_inplace_unescape_percent_encoding(mode.traits, key.buf, eq_pos + 1,
                                                       separator_pos - eq_pos - 1)
        tag == try_inplace_unescape_percent_encoding(mode.traits, buf, 0, Len(buf))
    IN  CASE pos >= Len(buf) ->
               Success([parameters |-> [n \in DOMAIN parameters |->
                                          [key |-> View(buf, parameters[n].key),
                                           value |-> View(buf, parameters[n].value)]],
                        tag |-> <<>>])
          [] pos < Len(buf) /\ eq_pos = Len(buf) ->
               IF pos = 0 /\ tag.ok
                 THEN Success([parameters |-> <<>>, tag |-> <<SubSeq(tag.buf, 1, tag.count)>>])
                 ELSE Failure
          [] OTHER ->
               IF ~key.ok THEN Failure
               ELSE IF ~value.ok THEN Failure
               ELSE QueryFrom(mode, value.buf, NextPairAt(eq_pos, separator_pos, value.count),
                      Append(parameters,
                             [key |-> [from |-> pos, size |-> key.count],
                              value |-> [from |-> eq_pos + 1, size |-> value.count]]))

try_parse_query(mode, original_query_string) == QueryFrom(mode, original_query_string, 0, <<>>)

\* query_string_params_t::get_param: the first parameter with that key.
get_param(parameters, key) ==
    LET found == {i \in DOMAIN parameters : parameters[i].key = key}
    IN  IF found = {} THEN <<>>
        ELSE <<parameters[CHOOSE i \in found : \A j \in found : i <= j].value>>

(***************************************************************************)
(* from_string.hpp: integers.  A type is its width in bits and signedness; *)
(* traits hold the digits of the largest and of the smallest value.        *)
(***************************************************************************)
RECURSIVE DigitsOf(_)
DigitsOf(n) == IF n < 10 THEN <<48 + n>> ELSE Append(DigitsOf(n \div 10), 48 + (n % 10))

parse_traits(bits, signed) ==
    LET top == IF signed THEN 2 ^ (bits - 1) ELSE 2 ^ bits
    IN  [bits |-> bits, signed |-> signed, max_representation |-> DigitsOf(top - 1),
         min_representation |-> IF signed THEN DigitsOf(top) ELSE DigitsOf(0),
         digits_representation_max_size |-> Len(DigitsOf(top - 1))]

int8_parse_traits_t == parse_traits(8, TRUE)
uint8_parse_traits_t == parse_traits(8, FALSE)
int16_parse_traits_t == parse_traits(16, TRUE)
uint16_parse_traits_t == parse_traits(16, FALSE)

\* The entry of the commercial at, 64, is 0xF0; the others that are no digits are 0xFF.
digits_mapping == [c \in 0..255 |-> CASE c \in Digits -> c - 48 [] c = 64 -> 240 [] OTHER -> 255]

\* memcmp of two texts of the same size.
Greater(a, b) == \E i \in DOMAIN a : a[i] > b[i] /\ \A j \in 1..(i - 1) : a[j] = b[j]

\* The conversion to the result type in every step.
parse_integer_no_checks(traits, digits, apply_minus_sign) ==
    LET Wrapped(n) == LET w == n % 2 ^ traits.bits
                      IN  IF traits.signed /\ w >= 2 ^ (traits.bits - 1) THEN w - 2 ^ traits.bits ELSE w
        Step(result, c) == Wrapped(result * 10 + (IF apply_minus_sign THEN -1 ELSE 1) * digits_mapping[c])
    IN  FoldLeft(Step, 0, digits)

possible_max(traits, apply_minus_sign) ==
    IF apply_minus_sign THEN traits.min_representation ELSE traits.max_representation

\* A value that the program takes from outside its objects.
Unspecified == [unspecified |-> TRUE]

\* The exceptions are failures.  Of an empty text the byte behind it is looked at; if
\* that is a sign, the size wraps around and is too large.  A char is signed, and one from
\* 128 on is an index outside of the table: what is found there may be taken for a digit.
parse_integer(traits, data) ==
    LET apply_minus_sign == Len(data) > 0 /\ data[1] = 45
        digits == IF Len(data) > 0 /\ data[1] \in {45, Plus} THEN Tail(data) ELSE data
        Inside(i) == digits[i] < 128
        Invalid(i) == Inside(i) /\ digits_mapping[digits[i]] = 255
    IN  IF \/ apply_minus_sign /\ ~traits.signed
           \/ Len(digits) = 0
           \/ Len(digits) > traits.digits_representation_max_size
           \/ \E i \in DOMAIN digits : Invalid(i) /\ \A j \in 1..(i - 1) : Inside(j)
          THEN Failure
        ELSE IF \E i \in DOMAIN digits : ~Inside(i) THEN Unspecified
        ELSE IF /\ Len(digits) = traits.digits_representation_max_size
                /\ Greater(digits, possible_max(traits, apply_minus_sign))
          THEN Failure
          ELSE Success(parse_integer_no_checks(traits, digits, apply_minus_sign))

=============================================================================
