-------------------------- MODULE EasyParserRouter --------------------------
(***************************************************************************)
(* router/easy_parser_router.hpp with router/method_matcher.hpp and        *)
(* router/impl/target_path_holder.hpp.  A route is a producer made from    *)
(* fragments and producers; the values of the producers, in their order,   *)
(* are the arguments of the handler.                                       *)
(***************************************************************************)
EXTENDS FieldParsers

(***************************************************************************)
(* Method matchers.                                                        *)
(***************************************************************************)
simple_matcher(method) == [kind |-> "any_of", methods |-> {method}]
any_of_methods(methods) == [kind |-> "any_of", methods |-> methods]
none_of_methods(methods) == [kind |-> "none_of", methods |-> methods]

\* dynamic_any_of_methods_matcher_t and dynamic_none_of_methods_matcher_t begin
\* empty and grow.
dynamic_any_of_methods == any_of_methods({})
dynamic_none_of_methods == none_of_methods({})
add_method(matcher, method) == [matcher EXCEPT !.methods = @ \cup {method}]

\* Mutant: the list of disabled methods is taken for the allowed ones.
match_any_of(matcher, method) == method \in matcher.methods

match(matcher, method) ==
    IF matcher.kind = "any_of" THEN method \in matcher.methods ELSE method \notin matcher.methods

(***************************************************************************)
(* Routes.  An argument of path_to_params is a fragment (a string literal, *)
(* a string or a string_view), a producer, or a clause that is taken as it *)
(* is.                                                                     *)
(***************************************************************************)
Fragment(text) == [argument |-> "fragment", text |-> text]
Producer(p1) == [argument |-> "producer", producer |-> p1]
Clause(c) == [argument |-> "clause", clause |-> c]

special_exact_fragment_clause_t(text) == exact_p(text) ## skip
special_produce_tuple_item_clause_t(p1, index) == p1 ## member(index)

\* Every producer gets the index of the next item of the result tuple.
one_clause_type_processor(arg, index) ==
    CASE arg.argument = "fragment" -> special_exact_fragment_clause_t(arg.text)
      [] arg.argument = "producer" -> special_produce_tuple_item_clause_t(arg.producer, index)
      [] arg.argument = "clause" -> arg.clause

ProducersIn(args, n) == Cardinality({i \in 1..n : args[i].argument = "producer"})

\* result_tuple: one value for each producer; clauses_tuple: one clause for each
\* argument.
result_tuple(args) == [i \in 1..ProducersIn(args, Len(args)) |-> <<>>]
clauses_tuple(args) ==
    [i \in DOMAIN args |-> one_clause_type_processor(args[i], ProducersIn(args, i))]

\* The handler takes the tuple or its items.
path_to_params(args) ==
    [producer |-> produce(result_tuple(args), clauses_tuple(args)), handler_takes |-> "params"]
path_to_tuple(args) ==
    [producer |-> produce(result_tuple(args), clauses_tuple(args)), handler_takes |-> "tuple"]

path_fragment_p(separator) ==
    produce(<<>>, <<repeat(1, N, <<any_symbol_if_not_p(separator) ## to_container>>)>>)

(***************************************************************************)
(* The router.  An entry has the matcher, the route and the name of the    *)
(* handler; the answer says which handler was called with which arguments. *)
(***************************************************************************)
target_path_holder_t(original_path) == normalize_to(Codes(original_path))

handled_by(handler, args) == [status |-> "handled", handler |-> handler, args |-> args]
no_match == [status |-> "no_match", handler |-> "none", args |-> <<>>]
request_not_handled == [status |-> "not_handled", handler |-> "none", args |-> <<>>]
exception == [status |-> "exception", handler |-> "none", args |-> <<>>]

invoke_handler(route, handler, params) ==
    handled_by(handler, IF route.handler_takes = "tuple" THEN <<params>> ELSE params)

HandleParsed(entry, parse_result) ==
    IF parse_result.ok THEN invoke_handler(entry.route, entry.handler, parse_result.val)
    ELSE IF parse_result.reason = "exception" THEN exception ELSE no_match
try_handle(entry, method, target_path) ==
    IF ~match(entry.matcher, method) THEN no_match
    ELSE HandleParsed(entry, try_parse(target_path, entry.route.producer))

UnlessNoMatch(r, other) == IF r.status = "no_match" THEN other ELSE r

RECURSIVE TryEntries(_, _, _)
TryEntries(entries, method, target_path) ==
    IF entries = <<>> THEN no_match
    ELSE UnlessNoMatch(try_handle(Head(entries), method, target_path),
                       TryEntries(Tail(entries), method, target_path))

path_to_inspect(path) == IF Len(path) > 1 /\ Last(path) = "/" THEN Front(path) ELSE path

\* operator(): the answer to a request.
NonMatched(router) ==
    IF router.non_matched # nullopt THEN handled_by(router.non_matched[1], <<>>)
                                    ELSE request_not_handled
RouteTarget(router, method, target_path) ==
    IF ~target_path.ok THEN exception
    ELSE UnlessNoMatch(TryEntries(router.entries, method, Characters(target_path.val)),
                       NonMatched(router))
Route(router, method, path) ==
    RouteTarget(router, method, target_path_holder_t(path_to_inspect(path)))

easy_parser_router == [entries |-> <<>>, non_matched |-> nullopt]

add_handler(router, matcher, route, handler) ==
    [router EXCEPT !.entries = Append(@, [matcher |-> matcher, route |-> route, handler |-> handler])]
http_get(router, route, handler) == add_handler(router, simple_matcher("GET"), route, handler)
http_delete(router, route, handler) == add_handler(router, simple_matcher("DELETE"), route, handler)
http_head(router, route, handler) == add_handler(router, simple_matcher("HEAD"), route, handler)
http_post(router, route, handler) == add_handler(router, simple_matcher("POST"), route, handler)
http_put(router, route, handler) == add_handler(router, simple_matcher("PUT"), route, handler)
non_matched_request_handler(router, handler) == [router EXCEPT !.non_matched = <<handler>>]

=============================================================================
