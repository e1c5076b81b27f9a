---------------------------- MODULE HttpHeaders ----------------------------
(***************************************************************************)
(* The containers of header fields (http_headers.hpp): a field knows its   *)
(* name, its value and the identifier derived from its name; a container   *)
(* holds fields in the order they were added and finds them by identifier  *)
(* or by name, without regard to case.  Names and values are sequences of  *)
(* characters.                                                             *)
(***************************************************************************)
EXTENDS Integers, Sequences, SequencesExt, FiniteSets

CONSTANTS
  to_lower_lut,  \* a function from characters to characters
  FieldNames     \* RESTINIO_HTTP_FIELDS_MAP: identifiers to canonical names

field_unspecified == "field_unspecified"

FieldIds == DOMAIN FieldNames

(***************************************************************************)
(* Names                                                                   *)
(***************************************************************************)

is_equal_caseless(a, b) ==
  /\ Len(a) = Len(b)
  /\ \A i \in DOMAIN a : to_lower_lut[a[i]] = to_lower_lut[b[i]]

string_to_field(name) ==
  IF \E id \in FieldIds : is_equal_caseless(name, FieldNames[id])
    THEN CHOOSE id \in FieldIds : is_equal_caseless(name, FieldNames[id])
    ELSE field_unspecified

field_to_string(id) == IF id = field_unspecified THEN <<>> ELSE FieldNames[id]

(***************************************************************************)
(* One field.  The two families of constructors, and the mutator of the    *)
(* name, which derives the identifier again.                               *)
(***************************************************************************)

named_field(name, value) ==
  [m_name |-> name, m_value |-> value, m_field_id |-> string_to_field(name)]

identified_field(id, value) ==
  [m_name |-> field_to_string(id), m_value |-> value, m_field_id |-> id]

renamed(field, name) ==
  [field EXCEPT !.m_name = name, !.m_field_id = string_to_field(name)]

append_value(field, value) == [field EXCEPT !.m_value = @ \o value]

(***************************************************************************)
(* Search.  The position of the first match, 0 for end().                  *)
(***************************************************************************)

find_name(fields, name) ==
  LET Matches(f) == is_equal_caseless(f.m_name, name)
  IN  SelectInSeq(fields, Matches)

find_id(fields, id) ==
  LET Matches(f) == f.m_field_id = id
  IN  SelectInSeq(fields, Matches)

has_field_name(fields, name) == find_name(fields, name) # 0
has_field_id(fields, id) == find_id(fields, id) # 0

(***************************************************************************)
(* Changes                                                                 *)
(***************************************************************************)

\* By object: a field of a standard name is searched by its identifier.
set_field(fields, field) ==
  LET it == IF field.m_field_id # field_unspecified
              THEN find_id(fields, field.m_field_id)
              ELSE find_name(fields, field.m_name)
  IN  IF it # 0 THEN [fields EXCEPT ![it] = field] ELSE Append(fields, field)

set_field_name(fields, name, value) ==
  LET it == find_name(fields, name)
  IN  IF it # 0
        THEN [fields EXCEPT ![it] = [renamed(@, name) EXCEPT !.m_value = value]]
        ELSE Append(fields, named_field(name, value))

set_field_id(fields, id, value) ==
  LET it == find_id(fields, id)
  IN  CASE id = field_unspecified -> fields
        [] id # field_unspecified /\ it # 0 ->
             [fields EXCEPT ![it].m_value = value]
        [] OTHER -> Append(fields, identified_field(id, value))

add_field(fields, field) == Append(fields, field)

add_field_name(fields, name, value) == Append(fields, named_field(name, value))

add_field_id(fields, id, value) ==
  IF id = field_unspecified THEN fields
  ELSE Append(fields, identified_field(id, value))

append_field_name(fields, name, value) ==
  LET it == find_name(fields, name)
  IN  IF it # 0 THEN [fields EXCEPT ![it] = append_value(@, value)]
      ELSE Append(fields, named_field(name, value))

append_field_id(fields, id, value) ==
  LET it == find_id(fields, id)
  IN  CASE id = field_unspecified -> fields
        [] id # field_unspecified /\ it # 0 ->
             [fields EXCEPT ![it] = append_value(@, value)]
        [] OTHER -> Append(fields, identified_field(id, value))

remove_field_name(fields, name) ==
  LET it == find_name(fields, name)
  IN  IF it # 0 THEN RemoveAt(fields, it) ELSE fields

remove_field_id(fields, id) ==
  LET it == find_id(fields, id)
  IN  IF id # field_unspecified /\ it # 0 THEN RemoveAt(fields, it) ELSE fields

remove_all_of_name(fields, name) ==
  LET Kept(f) == ~ is_equal_caseless(f.m_name, name)
  IN  SelectSeq(fields, Kept)

remove_all_of_id(fields, id) ==
  LET Kept(f) == id = field_unspecified \/ f.m_field_id # id
  IN  SelectSeq(fields, Kept)

\* A value that arrives in several pieces is completed piece by piece.
append_last_field(fields, value) ==
  [fields EXCEPT ![Len(fields)] = append_value(@, value)]

(***************************************************************************)
(* Getters.  <<>> stands for nullptr, an empty optional or the exception;  *)
(* every getter looks for the first field that matches.                    *)
(***************************************************************************)

try_get_field_name(fields, name) ==
  LET it == find_name(fields, name)
  IN  IF it = 0 THEN <<>> ELSE <<fields[it].m_value>>

try_get_field_id(fields, id) ==
  LET it == find_id(fields, id)
  IN  IF id = field_unspecified \/ it = 0 THEN <<>> ELSE <<fields[it].m_value>>

get_field_or_name(fields, name, default_value) ==
  LET found == try_get_field_name(fields, name)
  IN  IF found = <<>> THEN default_value ELSE found[1]

get_field_or_id(fields, id, default_value) ==
  LET found == try_get_field_id(fields, id)
  IN  IF found = <<>> THEN default_value ELSE found[1]

\* What a lambda that never stops the enumeration sees.
for_each_value_of_id(fields, id) ==
  LET Seen(f) == f.m_field_id = id
  IN  [i \in DOMAIN SelectSeq(fields, Seen) |-> SelectSeq(fields, Seen)[i].m_value]

for_each_value_of_name(fields, name) ==
  LET Seen(f) == is_equal_caseless(f.m_name, name)
  IN  [i \in DOMAIN SelectSeq(fields, Seen) |-> SelectSeq(fields, Seen)[i].m_value]

\* Lookup, removal and enumeration by identifier and by any spelling of the
\* canonical name are the same: the identifier kept beside the name never goes
\* out of step with it, whatever sequence of changes the container has seen.
IdsAndNamesAgree(fields) ==
  \A id \in FieldIds, upper \in BOOLEAN :
    LET name == IF upper THEN FieldNames[id]
                ELSE [i \in DOMAIN FieldNames[id] |-> to_lower_lut[FieldNames[id][i]]]
    IN  /\ try_get_field_id(fields, id) = try_get_field_name(fields, name)
        /\ get_field_or_id(fields, id, <<>>) = get_field_or_name(fields, name, <<>>)
        /\ for_each_value_of_id(fields, id) = for_each_value_of_name(fields, name)
        /\ remove_field_id(fields, id) = remove_field_name(fields, name)
        /\ remove_all_of_id(fields, id) = remove_all_of_name(fields, name)

=============================================================================
