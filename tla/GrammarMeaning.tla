--------------------------- MODULE GrammarMeaning ---------------------------
(***************************************************************************)
(* What a parser of EasyParser declares, without the loops that read the   *)
(* source.  Meanings(p, s, i) is the set of all [pos, val] such that the   *)
(* text s from i to pos is one of the texts that p describes and val is    *)
(* the value it has: a token is any number of token characters, a repeat   *)
(* any number of occurrences between its bounds, a number any number of    *)
(* digits whose value the type can represent.  Nothing is tried in an      *)
(* order and nothing has to be taken back, so this says what the parser    *)
(* should find, and not how.                                               *)
(*                                                                         *)
(* With "ordered" an alternative counts only where no earlier one does,    *)
(* which is what the comment of alternatives_clause_t promises; without it *)
(* the alternatives are those of a context-free rule, which is what the    *)
(* @verbatim rules of the fields say.                                      *)
(***************************************************************************)
EXTENDS FieldParsers

Meaning(pos, val) == [pos |-> pos, val |-> val]
Reached(pos, target) == [pos |-> pos, target |-> target]

\* The ends of the runs of characters of a set that begin after i.
Runs(s, i, set) == {j \in i..Len(s) : \A k \in (i + 1)..j : s[k] \in set}

(***************************************************************************)
(* Leaves.                                                                 *)
(***************************************************************************)
ValueOfDigits(digits, base) ==
    LET Step(n, c) == n * base + DigitValue[c] IN FoldLeft(Step, 0, digits)

Representable(T, n) ==
    IF T.signed THEN -(2 ^ (T.bits - 1)) <= n /\ n < 2 ^ (T.bits - 1) ELSE 0 <= n /\ n < 2 ^ T.bits

Numbers(T, digits, base, sign, limit, s, i) ==
    {Meaning(j, sign * ValueOfDigits(SubSeq(s, i + 1, j), base)) :
       j \in {j \in Runs(s, i, digits) :
                /\ limit.min <= j - i /\ j - i <= limit.max
                /\ Representable(T, sign * ValueOfDigits(SubSeq(s, i + 1, j), base))}}

SignedNumbers(T, limit, s, i) ==
    Numbers(T, is_digit, 10, 1, limit, s, i)
      \cup (IF i < Len(s) /\ s[i + 1] = "+"
              THEN Numbers(T, is_digit, 10, 1, limit, s, i + 1) ELSE {})
      \cup (IF i < Len(s) /\ s[i + 1] = "-"
              THEN Numbers(T, is_digit, 10, -1, limit, s, i + 1) ELSE {})

Fragments(fragment, s, i) ==
    IF i + Len(fragment) <= Len(s) /\ SubSeq(s, i + 1, i + Len(fragment)) = fragment
      THEN {Meaning(i + Len(fragment), TRUE)} ELSE {}

Tokens(s, i) == {Meaning(j, SubSeq(s, i + 1, j)) : j \in Runs(s, i, is_token_char) \ {i}}

\* The first position of the run of backslashes that ends at k.
Backslashes(s, from, k) ==
    CHOOSE b \in from..k : /\ \A x \in b..k : s[x] = "\\"
                           /\ b > from => s[b - 1] # "\\"

\* The backslashes of s[from..to] that quote the next character.
Quoting(s, from, to) ==
    {k \in from..to : s[k] = "\\" /\ (k - Backslashes(s, from, k)) % 2 = 0}

QuotedStrings(s, i) ==
    LET Inside(j) == (i + 2)..(j - 1)
        Pairs(j) == Quoting(s, i + 2, j - 1)
        IsQuoted(j) ==
            /\ s[i + 1] = "\"" /\ s[j] = "\""
            /\ \A k \in Inside(j) :
                 IF k \in Pairs(j) THEN k + 1 < j
                 ELSE IF k - 1 \in Pairs(j) THEN s[k] \in Quotable
                 ELSE s[k] \in is_qdtext
        ValueOf(j) == LET kept == SetToSortSeq(Inside(j) \ Pairs(j), <)
                      IN  [n \in DOMAIN kept |-> s[kept[n]]]
    IN  {Meaning(j, ValueOf(j)) : j \in {j \in (i + 2)..Len(s) : IsQuoted(j)}}

QuotedPairs(s, i) ==
    IF i + 2 <= Len(s) /\ s[i + 1] = "\\" /\ s[i + 2] \in Quotable
      THEN {Meaning(i + 2, s[i + 2])} ELSE {}

(***************************************************************************)
(* Producers and clauses.                                                  *)
(***************************************************************************)
RECURSIVE Meanings(_, _, _, _)
RECURSIVE Outcomes(_, _, _, _, _)

RECURSIVE InSequence(_, _, _, _, _)
InSequence(ordered, clauses, s, i, target) ==
    IF clauses = <<>> THEN {Reached(i, target)}
    ELSE UNION {InSequence(ordered, Tail(clauses), s, r.pos, r.target) :
                  r \in Outcomes(ordered, Head(clauses), s, i, target)}

RECURSIVE Occurrences(_, _, _, _, _, _)
Occurrences(ordered, c, count, s, i, target) ==
    (IF count >= c.min THEN {Reached(i, target)} ELSE {})
      \cup (IF count = c.max THEN {}
            ELSE UNION {Occurrences(ordered, c, count + 1, s, r.pos, r.target) :
                          r \in {r \in InSequence(ordered, c.clauses, s, i, target) : r.pos > i}})

\* The clauses that have to be processed for a clause, if it is a group.
Parts(c) ==
    CASE c.op = "consume_value" /\ c.producer.op = "produce" -> c.producer.clauses
      [] c.op = "sequence" -> c.clauses
      [] OTHER -> <<>>

\* force_only_this_alternative: the text has what comes before the forced part.
Forces(ordered, c, s, i, target) ==
    \E n \in DOMAIN Parts(c) :
      /\ Parts(c)[n].op = "force"
      /\ InSequence(ordered, SubSeq(Parts(c), 1, n - 1), s, i,
                    IF c.op = "sequence" THEN target ELSE c.producer.init) # {}

Alternatives(ordered, clauses, s, i, target) ==
    UNION {Outcomes(ordered, clauses[n], s, i, target) :
             n \in {n \in DOMAIN clauses :
                      \A m \in 1..(n - 1) :
                        /\ ~Forces(ordered, clauses[m], s, i, target)
                        /\ ordered => Outcomes(ordered, clauses[m], s, i, target) = {}}}

Meanings(ordered, p, s, i) ==
    CASE p.op = "symbol" ->
           IF i < Len(s) /\ s[i + 1] \in p.set THEN {Meaning(i + 1, s[i + 1])} ELSE {}
      [] p.op = "produce" ->
           {Meaning(r.pos, r.target) : r \in InSequence(ordered, p.clauses, s, i, p.init)}
      [] p.op = "transformed" ->
           {Meaning(r.pos, Transformed(p.transformer, r.val)) :
              r \in {r \in Meanings(ordered, p.producer, s, i) : ~Refused(p.transformer, r.val)}}
      [] p.op = "decimal" -> Numbers(p.type, is_digit, 10, 1, p.limit, s, i)
      [] p.op = "hexadecimal" -> Numbers(p.type, is_hexdigit, 16, 1, p.limit, s, i)
      [] p.op = "signed_decimal" -> SignedNumbers(p.type, p.limit, s, i)
      [] p.op = "exact" -> Fragments(p.fragment, s, i)
      [] p.op = "caseless_exact" -> Fragments(p.fragment, Lower(s), i)
      [] p.op = "ows" ->
           {Meaning(j, IF j > i THEN <<SP>> ELSE nullopt) : j \in Runs(s, i, is_space)}
      [] p.op = "token" -> Tokens(s, i)
      [] p.op = "quoted_string" -> QuotedStrings(s, i)
      [] p.op = "quoted_pair" -> QuotedPairs(s, i)
      [] p.op = "comment" -> Meanings(ordered, comment_body, s, i)
      [] p.op = "regular_token" -> {r \in Tokens(s, i) : Last(r.val) # "*"}
      [] p.op = "ext_token" -> {r \in Tokens(s, i) : Last(r.val) = "*"}

Outcomes(ordered, c, s, i, target) ==
    CASE c.op = "consume_value" ->
           {Reached(r.pos, consume(c.consumer, target, r.val)) :
              r \in Meanings(ordered, c.producer, s, i)}
      [] c.op = "alternatives" -> Alternatives(ordered, c.clauses, s, i, target)
      [] c.op = "maybe" -> {Reached(i, target)} \cup InSequence(ordered, c.clauses, s, i, target)
      [] c.op = "not" ->
           IF InSequence(ordered, c.clauses, s, i, target) = {} THEN {Reached(i, target)} ELSE {}
      [] c.op = "and" ->
           IF InSequence(ordered, c.clauses, s, i, target) = {} THEN {} ELSE {Reached(i, target)}
      [] c.op \in {"sequence", "force"} -> InSequence(ordered, c.clauses, s, i, target)
      [] c.op = "repeat" -> Occurrences(ordered, c, 0, s, i, target)

\* The values of a whole text, spaces after it apart.
ValuesOf(ordered, text, p) ==
    LET s == remove_trailing_spaces(text)
    IN  {r.val : r \in {r \in Meanings(ordered, p, s, 0) :
                          \A k \in (r.pos + 1)..Len(s) : s[k] \in is_space}}

\* The parser accepts a text just when the text has a value, and then gives one
\* of its values.
Agrees(r, values) == IF r.ok THEN r.val \in values ELSE values = {}
ParsesTo(ordered, text, p) == Agrees(try_parse(text, p), ValuesOf(ordered, text, p))

=============================================================================
