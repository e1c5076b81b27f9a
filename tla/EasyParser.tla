----------------------------- MODULE EasyParser -----------------------------
(***************************************************************************)
(* The parser combinators of restinio/helpers/easy_parser.hpp.             *)
(*                                                                         *)
(* A parser is a value: the factories (symbol_p, produce, repeat, ...)     *)
(* build records with a field "op", and TryParse and TryProcess interpret  *)
(* them on a text from a position, one operator per class of the header.   *)
(* A text is a sequence of one-character strings and a position is the     *)
(* number of characters consumed (m_index of source_t).                    *)
(*                                                                         *)
(* The result of try_parse is a record with ok, the position where the     *)
(* source is left, and the value or the error (its position and reason).   *)
(* The result of try_process has the target instead of the value, and has  *)
(* it for an error as well: a clause works on its caller's object, so an   *)
(* error does not undo what was stored before it.  A transformer that      *)
(* throws is an error with the reason "exception"; the parsers here have   *)
(* such a transformer only where every clause around it passes errors on.  *)
(***************************************************************************)
EXTENDS TextCodecs

(***************************************************************************)
(* Characters.  "<obs>" stands for the codes from 128 on and "<ctl>" for   *)
(* the control characters other than HTAB, CR and LF; "<bq>" is the        *)
(* backquote.                                                              *)
(***************************************************************************)
Text(word) == [i \in 1..Len(word) |-> SubSeq(word, i, i)]

Printable ==
    Text(" !\"#$%&'()*+,-./0123456789:;<=>?@ABCDEFGHIJKLMNOPQRSTUVWXYZ[\\]^_")
      \o <<"<bq>">> \o Text("abcdefghijklmnopqrstuvwxyz{|}~")

SP == " "
HTAB == "\t"
CR == "\r"
LF == "\n"

Chars == Range(Printable) \cup {HTAB, CR, LF, "<obs>", "<ctl>"}

PositionOf(c) == CHOOSE i \in DOMAIN Printable : Printable[i] = c

Code == [c \in Chars |->
           IF c \in Range(Printable)
             THEN 31 + PositionOf(c)
             ELSE CASE c = HTAB -> 9 [] c = LF -> 10 [] c = CR -> 13
                    [] c = "<obs>" -> 128 [] c = "<ctl>" -> 1]

\* A text as the sequence of codes the conversions of TextCodecs work on.
Codes(text) == [i \in DOMAIN text |-> Code[text[i]]]
CharOf == [n \in 0..255 |->
             IF \E c \in Chars : Code[c] = n THEN CHOOSE c \in Chars : Code[c] = n
             ELSE IF n > 128 THEN "<obs>" ELSE "<ctl>"]
Characters(codes) == [i \in DOMAIN codes |-> CharOf[codes[i]]]

\* The characters between two printable characters, as the comparisons of chars see
\* them.
Between(left, right) == {Printable[i] : i \in PositionOf(left)..PositionOf(right)}

is_space == {SP, HTAB}
is_digit == Between("0", "9")
is_hexdigit == Between("0", "9") \cup Between("A", "F") \cup Between("a", "f")

\* restinio::impl::to_lower_case on a character.
LowerOf == [c \in Chars |->
              IF c \in Between("A", "Z") THEN Printable[PositionOf(c) + 32] ELSE c]
Lower(text) == [i \in DOMAIN text |-> LowerOf[text[i]]]

DigitValue == [c \in is_hexdigit |->
                 CASE c \in is_digit -> PositionOf(c) - PositionOf("0")
                   [] c \in Between("A", "F") -> 10 + PositionOf(c) - PositionOf("A")
                   [] c \in Between("a", "f") -> 10 + PositionOf(c) - PositionOf("a")]

\* An optional value is a sequence of at most one value.
nullopt == <<>>

(***************************************************************************)
(* Results.                                                                *)
(***************************************************************************)
Parsed(pos, val) == [ok |-> TRUE, pos |-> pos, val |-> val, at |-> pos, reason |-> "none"]
NotParsed(pos, at, reason) == [ok |-> FALSE, pos |-> pos, val |-> "none", at |-> at, reason |-> reason]
Processed(pos, target) == [ok |-> TRUE, pos |-> pos, target |-> target, at |-> pos, reason |-> "none"]
NotProcessed(pos, target, at, reason) ==
    [ok |-> FALSE, pos |-> pos, target |-> target, at |-> at, reason |-> reason]

\* Where a loop stops that takes characters of a set and puts the first other
\* one back.
EndOfRun(s, i, set) ==
    CHOOSE j \in i..Len(s) : /\ \A k \in (i + 1)..j : s[k] \in set
                             /\ j < Len(s) => s[j + 1] \notin set

(***************************************************************************)
(* overflow_controlled_integer_accumulator_t.  A type is its width in bits *)
(* and its signedness; the storage type is the unsigned type of the same   *)
(* width.                                                                  *)
(***************************************************************************)
uint8 == [bits |-> 8, signed |-> FALSE]
int8 == [bits |-> 8, signed |-> TRUE]
uint16 == [bits |-> 16, signed |-> FALSE]

extremum_value(T, negative) ==
    IF ~T.signed THEN 2 ^ T.bits - 1
                 ELSE 2 ^ (T.bits - 1) - (IF negative THEN 0 ELSE 1)

is_greater_than_maximum(T, v, maximum) == T.signed /\ v > maximum

EmptyAccumulator == [current |-> 0, overflow |-> FALSE]

next_digit(T, multiplier, negative, acc, digit) ==
    LET updated == (acc.current * multiplier + digit) % 2 ^ T.bits
    IN  IF \/ updated < acc.current
           \/ is_greater_than_maximum(T, updated, extremum_value(T, negative))
          THEN [acc EXCEPT !.overflow = TRUE]
          ELSE [acc EXCEPT !.current = updated]

\* static_cast<T> of a value of the storage type.
AsType(T, v) == LET w == v % 2 ^ T.bits
                IN  IF T.signed /\ w >= 2 ^ (T.bits - 1) THEN w - 2 ^ T.bits ELSE w

(***************************************************************************)
(* Producers that read the source themselves.                              *)
(***************************************************************************)
symbol_producer_template_t(set, s, i) ==
    IF i = Len(s) THEN NotParsed(i, i, "unexpected_eof")
    ELSE IF s[i + 1] \in set THEN Parsed(i + 1, s[i + 1])
    ELSE NotParsed(i, i, "unexpected_character")

unlimited_max == 127
from_one_to_max == [min |-> 1, max |-> unlimited_max]

Accumulated(T, base, negative, digits) ==
    FoldLeft(LAMBDA acc, c : IF acc.overflow THEN acc
                             ELSE next_digit(T, base, negative, acc, DigitValue[c]),
             EmptyAccumulator, digits)

NumberParsed(T, digits_limit, i, end, acc) ==
    IF acc.overflow THEN NotParsed(i, i, "illegal_value_found")
    ELSE IF end - i < digits_limit.min THEN NotParsed(i, end, "pattern_not_found")
    ELSE Parsed(end, AsType(T, acc.current))

\* The digits of a number of some base, at most digits_limit.max of them.
TryParseNumber(T, digits, base, negative, digits_limit, s, i) ==
    LET end == Min({EndOfRun(s, i, digits), i + digits_limit.max})
    IN  NumberParsed(T, digits_limit, i, end,
                     Accumulated(T, base, negative, SubSeq(s, i + 1, end)))

try_parse_digits_with_digits_limit(T, negative, digits_limit, s, i) ==
    TryParseNumber(T, is_digit, 10, negative, digits_limit, s, i)

try_parse_hexdigits_with_digits_limit(T, digits_limit, s, i) ==
    TryParseNumber(T, is_hexdigit, 16, FALSE, digits_limit, s, i)

Negated(T, r) == IF r.ok THEN [r EXCEPT !.val = AsType(T, -r.val)] ELSE r
Rewound(r, i) == IF r.ok THEN r ELSE [r EXCEPT !.pos = i]

\* A sign or a digit first; whatever fails gives the sign back.
decimal_number_producer_t(T, digits_limit, s, i) ==
    LET Number(negative, from) ==
            try_parse_digits_with_digits_limit(T, negative, digits_limit, s, from)
    IN  IF i = Len(s) THEN NotParsed(i, i, "pattern_not_found")
        ELSE CASE s[i + 1] = "-" -> Rewound(Negated(T, Number(TRUE, i + 1)), i)
               [] s[i + 1] = "+" -> Rewound(Number(FALSE, i + 1), i)
               [] s[i + 1] \in is_digit -> Number(FALSE, i)
               [] OTHER -> NotParsed(i, i + 1, "pattern_not_found")

TryParseFragment(fragment, s, i) ==
    IF \E k \in 1..Len(fragment) : i + k <= Len(s) /\ s[i + k] # fragment[k]
      THEN NotParsed(i, i, "pattern_not_found")
    ELSE IF i + Len(fragment) > Len(s) THEN NotParsed(i, i, "unexpected_eof")
    ELSE Parsed(i + Len(fragment), TRUE)

try_parse_exact_fragment(fragment, s, i) == TryParseFragment(fragment, s, i)

\* The fragment is in lower case already.
try_parse_caseless_exact_fragment(fragment, s, i) == TryParseFragment(fragment, Lower(s), i)

(***************************************************************************)
(* The hand-written producers of http_field_parsers/basics.hpp and         *)
(* content-disposition.hpp.                                                *)
(***************************************************************************)
is_alpha == Between("A", "Z") \cup Between("a", "z")
is_alphanum == is_alpha \cup is_digit
is_vchar == Between("!", "~")
is_obs_text == {"<obs>"}
is_qdtext == {SP, HTAB, "!"} \cup Between("#", "[") \cup Between("]", "~") \cup is_obs_text
is_ctext == {SP, HTAB} \cup Between("!", "'") \cup Between("*", "[") \cup Between("]", "~")
              \cup is_obs_text
is_token_char == is_alphanum \cup Range(Text("!#$%&'*+-.^_|~")) \cup {"<bq>"}

\* What may follow a backslash.
Quotable == {SP, HTAB} \cup is_vchar \cup is_obs_text

ows_producer_t(s, i) ==
    LET end == EndOfRun(s, i, is_space) IN Parsed(end, IF end > i THEN <<SP>> ELSE nullopt)

token_producer_t(s, i) ==
    LET end == EndOfRun(s, i, is_token_char)
    IN  IF end > i THEN Parsed(end, SubSeq(s, i + 1, end))
        ELSE NotParsed(i, i, IF i = Len(s) THEN "unexpected_eof" ELSE "unexpected_character")

\* The rest of a quoted string, after its first quote.
RECURSIVE QuotedText(_, _, _)
QuotedText(s, i, accumulator) ==
    IF i = Len(s) THEN NotParsed(i, i, "unexpected_eof")
    ELSE CASE s[i + 1] = "\"" -> Parsed(i + 1, accumulator)
           [] s[i + 1] = "\\" ->
                IF i + 1 = Len(s) THEN NotParsed(i + 1, i + 1, "unexpected_eof")
                ELSE IF s[i + 2] \in Quotable
                  THEN QuotedText(s, i + 2, Append(accumulator, s[i + 2]))
                  ELSE NotParsed(i + 1, i + 1, "unexpected_character")
           [] s[i + 1] \in is_qdtext -> QuotedText(s, i + 1, Append(accumulator, s[i + 1]))
           [] OTHER -> NotParsed(i, i, "unexpected_character")

quoted_string_producer_t(s, i) ==
    IF i = Len(s) THEN NotParsed(i, i, "unexpected_eof")
    ELSE IF s[i + 1] # "\"" THEN NotParsed(i, i, "unexpected_character")
    ELSE Rewound(QuotedText(s, i + 1, <<>>), i)

quoted_pair_producer_t(s, i) ==
    IF i = Len(s) THEN NotParsed(i, i, "unexpected_eof")
    ELSE IF s[i + 1] # "\\" THEN NotParsed(i, i + 1, "unexpected_character")
    ELSE IF i + 1 = Len(s) THEN NotParsed(i, i + 1, "unexpected_eof")
    ELSE IF s[i + 2] \in Quotable THEN Parsed(i + 2, s[i + 2])
    ELSE NotParsed(i, i + 2, "unexpected_character")

\* A token that does not end with a star.
regular_token_producer_t(s, i) ==
    LET r == token_producer_t(s, i)
    IN  IF r.ok /\ Last(r.val) = "*"
          THEN NotParsed(i, r.pos - 1, "unexpected_character") ELSE r

\* A token that ends with a star.
ext_token_producer_t(s, i) ==
    LET r == token_producer_t(s, i)
    IN  IF r.ok /\ Last(r.val) # "*" THEN NotParsed(i, i, "pattern_not_found") ELSE r

\* multipart_body.hpp: the rest of a line, which has to end with CR or LF, and the
\* rest of the source, which is not consumed.
field_value_producer_t(s, i) ==
    LET end == EndOfRun(s, i, Chars \ {CR, LF})
    IN  IF end = Len(s) THEN NotParsed(end, end, "unexpected_eof")
                        ELSE Parsed(end, SubSeq(s, i + 1, end))
body_producer_t(s, i) == Parsed(i, SubSeq(s, i + 1, Len(s)))

(***************************************************************************)
(* Transformers and consumers.                                             *)
(***************************************************************************)
to_lower == [entity |-> "transformer", how |-> "to_lower"]
just(value) == [entity |-> "transformer", how |-> "just", value |-> value]

\* The converters in use put a value into one alternative of a variant or into
\* a structure with a mark; a converter that checks its argument returns
\* illegal_value_found for some values.
convert(form, illegal) ==
    [entity |-> "transformer", how |-> "convert", form |-> form, illegal |-> illegal]
\* The implicit conversion of a value to a variant.
as_alternative(form) == convert(form, {})
\* unescape_transformer_t of easy_parser_router.hpp; it throws if the text cannot
\* be unescaped.
unescape(traits) == [entity |-> "transformer", how |-> "unescape", traits |-> traits]

Transformed(t, v) ==
    CASE t.how = "to_lower" -> Lower(v)
      [] t.how = "just" -> t.value
      [] t.how = "convert" -> [form \in {t.form} |-> v]
      [] t.how = "unescape" -> Characters(try_unescape_percent_encoding(t.traits, Codes(v)).val)

Refused(t, v) == t.how = "convert" /\ v \in t.illegal
Throws(t, v) == t.how = "unescape" /\ ~try_unescape_percent_encoding(t.traits, Codes(v)).ok

skip == [entity |-> "consumer", how |-> "skip"]
as_result == [entity |-> "consumer", how |-> "as_result"]
just_result(value) == [entity |-> "consumer", how |-> "just_result", value |-> value]
to_container == [entity |-> "consumer", how |-> "push_back"]
\* to_container for a string that is added to a string, and the custom
\* consumers that append.
append_to_container == [entity |-> "consumer", how |-> "append"]
\* A pointer to a member, or an index of a tuple.
member(name) == [entity |-> "consumer", how |-> "member", name |-> name]
\* A pointer to an optional member.
optional_member(name) == [entity |-> "consumer", how |-> "optional_member", name |-> name]
\* digit_consumer_t of the qvalue producer.
digit_consumer_t(multiplier) ==
    [entity |-> "consumer", how |-> "digit", multiplier |-> multiplier]

consume(c, target, v) ==
    CASE c.how = "skip" -> target
      [] c.how = "as_result" -> v
      [] c.how = "just_result" -> c.value
      [] c.how = "push_back" -> Append(target, v)
      [] c.how = "append" -> target \o v
      [] c.how = "member" -> [target EXCEPT ![c.name] = v]
      [] c.how = "optional_member" -> [target EXCEPT ![c.name] = <<v>>]
      [] c.how = "digit" -> target + c.multiplier * DigitValue[v]

(***************************************************************************)
(* Factories of producers.                                                 *)
(***************************************************************************)
any_symbol_predicate_t == Chars
particular_symbol_predicate_t(expected) == {expected}
not_particular_symbol_predicate_t(sentinel) == Chars \ {sentinel}
caseless_particular_symbol_predicate_t(expected) ==
    {c \in Chars : LowerOf[c] = LowerOf[expected]}
symbol_from_range_predicate_t(left, right) == Between(left, right)

symbol_of(predicate) == [op |-> "symbol", set |-> predicate]

any_symbol_p == symbol_of(any_symbol_predicate_t)
symbol_p(expected) == symbol_of(particular_symbol_predicate_t(expected))
any_symbol_if_not_p(sentinel) == symbol_of(not_particular_symbol_predicate_t(sentinel))
caseless_symbol_p(expected) == symbol_of(caseless_particular_symbol_predicate_t(expected))
symbol_from_range_p(left, right) == symbol_of(symbol_from_range_predicate_t(left, right))
space_p == symbol_of(is_space)
digit_p == symbol_of(is_digit)
hexdigit_p == symbol_of(is_hexdigit)

expected_digits(min, max) == [min |-> min, max |-> max]

non_negative_decimal_number_limited_p(T, digits_limit) ==
    [op |-> "decimal", type |-> T, limit |-> digits_limit]
non_negative_decimal_number_p(T) == non_negative_decimal_number_limited_p(T, from_one_to_max)
hexadecimal_number_limited_p(T, digits_limit) ==
    [op |-> "hexadecimal", type |-> T, limit |-> digits_limit]
hexadecimal_number_p(T) == hexadecimal_number_limited_p(T, from_one_to_max)
decimal_number_limited_p(T, digits_limit) ==
    [op |-> "signed_decimal", type |-> T, limit |-> digits_limit]
decimal_number_p(T) == decimal_number_limited_p(T, from_one_to_max)

exact_p(fragment) == [op |-> "exact", fragment |-> Text(fragment)]
caseless_exact_p(fragment) == [op |-> "caseless_exact", fragment |-> Lower(Text(fragment))]

ows_p == [op |-> "ows"]
token_p == [op |-> "token"]
quoted_string_p == [op |-> "quoted_string"]
quoted_pair_p == [op |-> "quoted_pair"]
comment_p == [op |-> "comment"]
regular_token_p == [op |-> "regular_token"]
ext_token_p == [op |-> "ext_token"]
field_value_p == [op |-> "field_value"]
body_p == [op |-> "body"]

(***************************************************************************)
(* Factories of clauses.  The operator ## is >> of the source: a producer  *)
(* and a transformer make a producer, a producer and a consumer a clause.  *)
(***************************************************************************)
p ## x ==
    IF x.entity = "transformer" THEN [op |-> "transformed", producer |-> p, transformer |-> x]
                                ELSE [op |-> "consume_value", producer |-> p, consumer |-> x]

symbol(expected) == symbol_p(expected) ## skip
caseless_symbol(expected) == caseless_symbol_p(expected) ## skip
symbol_from_range(left, right) == symbol_from_range_p(left, right) ## skip
space == space_p ## skip
digit == digit_p ## skip
hexdigit == hexdigit_p ## skip
exact(fragment) == exact_p(fragment) ## skip
caseless_exact(fragment) == caseless_exact_p(fragment) ## skip
ows == ows_p ## skip

\* init is the value of a default-constructed Target_Type.
produce(init, clauses) == [op |-> "produce", init |-> init, clauses |-> clauses]
alternatives(clauses) == [op |-> "alternatives", clauses |-> clauses]
maybe(clauses) == [op |-> "maybe", clauses |-> clauses]
not_clause(clauses) == [op |-> "not", clauses |-> clauses]
and_clause(clauses) == [op |-> "and", clauses |-> clauses]
sequence(clauses) == [op |-> "sequence", clauses |-> clauses]
force_only_this_alternative(clauses) == [op |-> "force", clauses |-> clauses]
repeat(min, max, clauses) == [op |-> "repeat", min |-> min, max |-> max, clauses |-> clauses]

\* The largest number of occurrences; no text is as long.
N == 1000

comment_body ==
    produce(<<>>, <<sequence(<<
        symbol("("),
        repeat(0, N, <<alternatives(<<
            symbol_of(is_ctext) ## to_container,
            quoted_pair_p ## to_container,
            comment_p ## append_to_container>>)>>),
        symbol(")")>>)>>)

(***************************************************************************)
(* The interpreter.                                                        *)
(***************************************************************************)
RECURSIVE TryParse(_, _, _)
RECURSIVE TryProcess(_, _, _, _)

\* tuple_algorithms::all_of over clauses: in order, up to the first error.
RECURSIVE all_of(_, _, _, _)
AllOfRest(r, rest, s) == IF r.ok THEN all_of(rest, s, r.pos, r.target) ELSE r
all_of(clauses, s, i, target) ==
    IF clauses = <<>> THEN Processed(i, target)
    ELSE AllOfRest(TryProcess(Head(clauses), s, i, target), Tail(clauses), s)

ValueProduced(r) == IF r.ok THEN Parsed(r.pos, r.target) ELSE NotParsed(r.pos, r.at, r.reason)
produce_t(init, clauses, s, i) == ValueProduced(all_of(clauses, s, i, init))

ValueTransformed(t, r) ==
    IF ~r.ok THEN r
    ELSE IF Refused(t, r.val) THEN NotParsed(r.pos, r.pos, "illegal_value_found")
    ELSE IF Throws(t, r.val) THEN NotParsed(r.pos, r.pos, "exception")
    ELSE Parsed(r.pos, Transformed(t, r.val))
transformed_value_producer_t(producer, t, s, i) == ValueTransformed(t, TryParse(producer, s, i))

ValueConsumed(c, target, r) ==
    IF r.ok THEN Processed(r.pos, consume(c, target, r.val))
            ELSE NotProcessed(r.pos, target, r.at, r.reason)
consume_value_clause_t(producer, c, s, i, target) ==
    ValueConsumed(c, target, TryParse(producer, s, i))

\* tuple_algorithms::any_of over the alternatives: each starts from the same
\* position with a copy of the target; an alternative that is forced ends the
\* search.
RECURSIVE any_of(_, _, _, _)
AnyOfRest(r, rest, s, i, target) ==
    IF r.ok THEN r
    ELSE IF r.reason = "force_only_this_alternative_failed"
      THEN NotProcessed(i, target, i, "no_appropriate_alternative")
    ELSE any_of(rest, s, i, target)
any_of(clauses, s, i, target) ==
    IF clauses = <<>> THEN NotProcessed(i, target, i, "no_appropriate_alternative")
    ELSE AnyOfRest(TryProcess(Head(clauses), s, i, target), Tail(clauses), s, i, target)

alternatives_clause_t(clauses, s, i, target) == any_of(clauses, s, i, target)

OrElse(r, other) == IF r.ok THEN r ELSE other

maybe_clause_t(clauses, s, i, target) == OrElse(all_of(clauses, s, i, target), Processed(i, target))

not_clause_t(clauses, s, i, target) ==
    IF all_of(clauses, s, i, target).ok
      THEN NotProcessed(i, target, i, "pattern_not_found") ELSE Processed(i, target)

and_clause_t(clauses, s, i, target) ==
    IF all_of(clauses, s, i, target).ok
      THEN Processed(i, target) ELSE NotProcessed(i, target, i, "pattern_not_found")

SetBack(r, i, target) == OrElse(r, NotProcessed(i, target, r.at, r.reason))

sequence_clause_t(clauses, s, i, target) == SetBack(all_of(clauses, s, i, target), i, target)

forced_alternative_clause_t(clauses, s, i, target) ==
    OrElse(sequence_clause_t(clauses, s, i, target),
           NotProcessed(i, target, i, "force_only_this_alternative_failed"))

\* The loop of repeat: how often it succeeded, and where it left the source and
\* the target.  The source is set back when an iteration fails, the target is
\* not: it holds what the failed iteration had stored.
RECURSIVE Repeated(_, _, _, _, _)
RepeatedAfter(r, c, count, s, i) ==
    IF r.ok THEN Repeated(c, count + 1, s, r.pos, r.target)
            ELSE [count |-> count, pos |-> i, dest |-> r.target]
Repeated(c, count, s, i, dest) ==
    IF count = c.max THEN [count |-> count, pos |-> i, dest |-> dest]
    ELSE RepeatedAfter(all_of(c.clauses, s, i, dest), c, count, s, i)

EnoughRepeated(min, i, r) ==
    IF r.count >= min THEN Processed(r.pos, r.dest)
                      ELSE NotProcessed(i, r.dest, r.pos, "pattern_not_found")

\* Mutant: one occurrence too few is enough.
repeat_clause_off_by_one(c, s, i, dest) == EnoughRepeated(c.min - 1, i, Repeated(c, 0, s, i, dest))

repeat_clause_t(c, s, i, dest) == EnoughRepeated(c.min, i, Repeated(c, 0, s, i, dest))

TryParse(p, s, i) ==
    CASE p.op = "symbol" -> symbol_producer_template_t(p.set, s, i)
      [] p.op = "produce" -> produce_t(p.init, p.clauses, s, i)
      [] p.op = "transformed" -> transformed_value_producer_t(p.producer, p.transformer, s, i)
      [] p.op = "decimal" -> try_parse_digits_with_digits_limit(p.type, FALSE, p.limit, s, i)
      [] p.op = "hexadecimal" -> try_parse_hexdigits_with_digits_limit(p.type, p.limit, s, i)
      [] p.op = "signed_decimal" -> decimal_number_producer_t(p.type, p.limit, s, i)
      [] p.op = "exact" -> try_parse_exact_fragment(p.fragment, s, i)
      [] p.op = "caseless_exact" -> try_parse_caseless_exact_fragment(p.fragment, s, i)
      [] p.op = "ows" -> ows_producer_t(s, i)
      [] p.op = "token" -> token_producer_t(s, i)
      [] p.op = "quoted_string" -> quoted_string_producer_t(s, i)
      [] p.op = "quoted_pair" -> quoted_pair_producer_t(s, i)
      [] p.op = "comment" -> TryParse(comment_body, s, i)
      [] p.op = "regular_token" -> regular_token_producer_t(s, i)
      [] p.op = "ext_token" -> ext_token_producer_t(s, i)
      [] p.op = "field_value" -> field_value_producer_t(s, i)
      [] p.op = "body" -> body_producer_t(s, i)

TryProcess(c, s, i, target) ==
    CASE c.op = "consume_value" -> consume_value_clause_t(c.producer, c.consumer, s, i, target)
      [] c.op = "alternatives" -> alternatives_clause_t(c.clauses, s, i, target)
      [] c.op = "maybe" -> maybe_clause_t(c.clauses, s, i, target)
      [] c.op = "not" -> not_clause_t(c.clauses, s, i, target)
      [] c.op = "and" -> and_clause_t(c.clauses, s, i, target)
      [] c.op = "sequence" -> sequence_clause_t(c.clauses, s, i, target)
      [] c.op = "force" -> forced_alternative_clause_t(c.clauses, s, i, target)
      [] c.op = "repeat" -> repeat_clause_t(c, s, i, target)

remove_trailing_spaces(from) ==
    SubSeq(from, 1, CHOOSE n \in 0..Len(from) :
                      /\ \A k \in (n + 1)..Len(from) : from[k] \in is_space
                      /\ n > 0 => from[n] \notin is_space)

\* Only spaces may remain after the value.
ensure_no_remaining_content(s, r) ==
    LET end == EndOfRun(s, r.pos, is_space)
    IN  IF end < Len(s) THEN NotParsed(end, end, "unconsumed_input") ELSE r

WholeParsed(s, r) == IF r.ok THEN ensure_no_remaining_content(s, r) ELSE r
ParseWhole(s, producer) == WholeParsed(s, TryParse(producer, s, 0))

try_parse(from, producer) == ParseWhole(remove_trailing_spaces(from), producer)

=============================================================================
