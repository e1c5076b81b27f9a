---------------------------- MODULE TextPromises ----------------------------
(***************************************************************************)
(* What the conversions and the services built on them promise, defined    *)
(* without their loops.                                                    *)
(***************************************************************************)
EXTENDS GrammarMeaning, MultipartBody, EasyParserRouter

(***************************************************************************)
(* UTF-8: the shortest encoding of a number, and the numbers that are      *)
(* characters.                                                             *)
(***************************************************************************)
Continuation(n, k) == 128 + ((n \div 64 ^ k) % 64)
Utf8Of(n) ==
    CASE n < 128 -> <<n>>
      [] n \in 128..2047 -> <<192 + (n \div 64), Continuation(n, 0)>>
      [] n \in 2048..65535 -> <<224 + (n \div 4096), Continuation(n, 1), Continuation(n, 0)>>
      [] OTHER -> <<240 + (n \div 262144), Continuation(n, 2), Continuation(n, 1), Continuation(n, 0)>>

\* The number in the bits of a group of bytes, whatever their first bits are.
NumberIn(bytes) ==
    LET rest == FoldLeft(LAMBDA n, b : n * 64 + (b % 64), 0, Tail(bytes))
    IN  CASE Len(bytes) = 1 -> bytes[1]
          [] Len(bytes) = 2 -> (bytes[1] % 32) * 64 + rest
          [] Len(bytes) = 3 -> (bytes[1] % 16) * 4096 + rest
          [] Len(bytes) = 4 -> (bytes[1] % 8) * 262144 + rest

IsCharacter(bytes) ==
    LET n == NumberIn(bytes) IN n < 1114112 /\ n \notin 55296..57343 /\ Utf8Of(n) = bytes

RECURSIVE WellFormedUtf8(_)
WellFormedUtf8(bytes) ==
    \/ bytes = <<>>
    \/ \E n \in 1..4 : /\ n <= Len(bytes)
                       /\ IsCharacter(SubSeq(bytes, 1, n))
                       /\ WellFormedUtf8(SubSeq(bytes, n + 1, Len(bytes)))

\* The checker on a whole text.
CheckedUtf8(bytes) ==
    LET Step(st, b) == LET u == process_byte(st.u, b) IN [u |-> u, ok |-> st.ok /\ accepts(u)]
        last == FoldLeft(Step, [u |-> utf8_checker, ok |-> TRUE], bytes)
    IN  last.ok /\ finalized(last.u)

(***************************************************************************)
(* Numbers: an optional sign and digits whose value the type can hold, in  *)
(* no more digits than the largest value has.                              *)
(***************************************************************************)
IntegerMeant(traits, text) ==
    LET signed == Len(text) > 0 /\ text[1] \in {43, 45}
        digits == IF signed THEN Tail(text) ELSE text
        n == (IF signed /\ text[1] = 45 THEN -1 ELSE 1)
               * FoldLeft(LAMBDA v, c : v * 10 + c - 48, 0, digits)
        low == IF traits.signed THEN -(2 ^ (traits.bits - 1)) ELSE 0
        high == IF traits.signed THEN 2 ^ (traits.bits - 1) - 1 ELSE 2 ^ traits.bits - 1
    IN  IF /\ Len(digits) \in 1..Len(DigitsOf(high)) /\ \A i \in DOMAIN digits : digits[i] \in Digits
           /\ low <= n /\ n <= high
           /\ signed /\ text[1] = 45 => traits.signed
          THEN Success(n) ELSE Failure

(***************************************************************************)
(* What clients send.                                                      *)
(***************************************************************************)
JoinedBy(texts, separator) ==
    FoldLeft(LAMBDA all, t : IF all = <<>> THEN t ELSE all \o separator \o t, <<>>, texts)

\* A query of key-value pairs; every character may be escaped.
QueryText(traits, separator, pairs) ==
    LET Pair(p1) == escape_percent_encoding(traits, p1.key) \o <<Equals>>
                      \o escape_percent_encoding(traits, p1.value)
    IN  JoinedBy([i \in DOMAIN pairs |-> Pair(pairs[i])], <<separator>>)

\* A multipart body of whole parts, each with its fields.
PartText(part) ==
    FoldLeft(LAMBDA t, f : t \o f.name \o Text(": ") \o f.value \o eol, <<>>, part.fields)
      \o eol \o part.body
BodyText(boundary, parts) ==
    FoldLeft(LAMBDA t, part : t \o hyphens \o boundary \o eol \o PartText(part) \o eol, <<>>, parts)
      \o hyphens \o boundary \o last_separator

\* The header value of basic authentication.
BasicCredentials(username, password) ==
    Text("Basic ") \o Characters(encode(Codes(username \o <<":">> \o password)))

=============================================================================
