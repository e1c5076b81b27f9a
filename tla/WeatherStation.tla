--------------------------- MODULE WeatherStation ---------------------------
(***************************************************************************)
(* The weather station of sample/express_router: a collection of           *)
(* measurements that requests list, extend, change and shorten, behind an  *)
(* express router, and the registry of the websockets of "/chat".          *)
(*                                                                         *)
(* A measurement is its ID, its date and a stamp that stands for the other *)
(* six fields.  An ID is a string; NoNumber is one that cast_to<uint32_t>  *)
(* does not accept.                                                        *)
(***************************************************************************)
EXTENDS Naturals, Sequences, FiniteSets, SequencesExt

CONSTANTS
    Ids,         \* numbers that requests use as IDs
    NoNumber,    \* an ID that is not a 32-bit number
    Dates,       \* dates that clients send
    Sockets,     \* websockets
    MaxStamp     \* bound: measurements sent by clients

VARIABLES
    weather,     \* m_weather
    registry,    \* m_registry
    socket,      \* for every websocket: "none", "open", "over"
    answer,      \* the answer to the latest request
    stamps       \* measurements sent so far

vars == <<weather, registry, socket, answer, stamps>>

\* The measurements main starts with.
weather_collection ==
    [i \in 1 .. 5 |-> [id |-> i, date |-> "20211105", stamp |-> 0]]

Init ==
    /\ weather = weather_collection
    /\ registry = {} /\ socket = [s \in Sockets |-> "none"]
    /\ answer = [handler |-> <<"none">>, status |-> 0, entries |-> <<>>] /\ stamps = 0

-----------------------------------------------------------------------------
(* The router: the first route that matches decides.                       *)

Methods == {"GET", "POST", "PUT", "DELETE", "OPTIONS", "HEAD"}
Paths == {"/", "/three", "/chat", "/Date/:Date", "/:ID", "elsewhere"}

Route(methods, path, handler) == [methods |-> methods, path |-> path, handler |-> handler]

server_handler == <<
    Route({"GET"}, "/", "on_weather_list"),
    Route({"POST"}, "/", "on_post_data"),
    Route({"OPTIONS"}, "/", "options"),
    Route({"GET"}, "/three", "on_weather_latest"),
    Route({"OPTIONS"}, "/three", "options"),
    Route({"GET"}, "/chat", "on_live_update"),
    Route(Methods \ {"GET", "POST", "OPTIONS"}, "/", "method_not_allowed"),
    Route({"GET"}, "/Date/:Date", "on_date_get"),
    Route({"OPTIONS"}, "/Date/:Date", "options"),
    Route({"PUT"}, "/:ID", "on_weather_update"),
    Route({"OPTIONS"}, "/:ID", "options"),
    Route({"DELETE"}, "/:ID", "on_weather_delete") >>

\* The router's call operator.
HandlerOf ==
    [m \in Methods, p \in Paths |->
        LET matching == SelectSeq(server_handler, LAMBDA r : m \in r.methods /\ p = r.path)
        IN  IF matching = <<>> THEN "request_not_handled" ELSE Head(matching).handler]

Answer(handler, status, entries) ==
    answer' = [handler |-> handler, status |-> status, entries |-> entries]

-----------------------------------------------------------------------------
(* Requests that read.                                                     *)

on_weather_list ==
    /\ HandlerOf["GET", "/"] = "on_weather_list"
    /\ Answer(<<"on_weather_list">>, 200, weather)
    /\ UNCHANGED <<weather, registry, socket, stamps>>

\* (With nothing found the body is a text.)
on_date_get(date) ==
    /\ HandlerOf["GET", "/Date/:Date"] = "on_date_get"
    /\ Answer(<<"on_date_get">>, 200, SelectSeq(weather, LAMBDA b : b.date = date))
    /\ UNCHANGED <<weather, registry, socket, stamps>>

\* The bound size() - 3 is unsigned: below three measurements none is above it.
on_weather_latest ==
    /\ HandlerOf["GET", "/three"] = "on_weather_latest"
    /\ Answer(<<"on_weather_latest">>, 200,
              IF Len(weather) < 3 THEN <<>>
              ELSE SubSeq(weather, Len(weather) - 2, Len(weather)))
    /\ UNCHANGED <<weather, registry, socket, stamps>>

\* The answers that are the same whatever the collection holds: options, the refusal,
\* and 501 where no route matches or "/chat" is asked without "Connection: upgrade".
fixed_status ==
    [options |-> 200, method_not_allowed |-> 405, request_not_handled |-> 501,
     on_live_update |-> 501]

other_request ==
    /\ \E m \in Methods, p \in Paths :
          /\ HandlerOf[m, p] \in DOMAIN fixed_status
          /\ Answer(<<HandlerOf[m, p]>>, fixed_status[HandlerOf[m, p]], <<>>)
    /\ UNCHANGED <<weather, registry, socket, stamps>>

-----------------------------------------------------------------------------
(* Requests that change the collection.                                    *)

\* What from_json makes of a body: a measurement with any ID and date, or nothing
\* when the body is not one.
Bodies ==
    [id : Ids \cup {NoNumber}, date : Dates, stamp : {stamps + 1}]

Read(b) == stamps < MaxStamp /\ stamps' = b.stamp

on_post_data ==
    /\ HandlerOf["POST", "/"] = "on_post_data"
    /\ \/ \E b \in Bodies :
            /\ Read(b)
            /\ weather' = Append(weather, b)
            /\ Answer(<<"on_post_data">>, 200, <<>>)
       \/ /\ Answer(<<"on_post_data">>, 400, <<>>)
          /\ UNCHANGED <<weather, stamps>>
    /\ UNCHANGED <<registry, socket>>

\* The measurements that a loop over the IDs reaches: cast_to throws at the first ID
\* that is not a number.
Reached == {i \in 1 .. Len(weather) : \A j \in 1 .. i : weather[j].id # NoNumber}

Matching(ID) == {i \in Reached : weather[i].id = ID}

\* The loop of on_weather_update.
Updated(ID, b) ==
    [i \in 1 .. Len(weather) |-> IF i \in Matching(ID) THEN b ELSE weather[i]]

\* An ID in the path that does not fit 32 bits makes cast_to throw out of the handler,
\* as it does in on_weather_delete: no answer.
on_weather_update(ID) ==
    /\ HandlerOf["PUT", "/:ID"] = "on_weather_update"
    /\ IF ID = NoNumber THEN Answer(<<"on_weather_update", ID>>, 0, <<>>) /\ UNCHANGED <<weather, stamps>>
       ELSE \/ \E b \in Bodies :
                 /\ Read(b)
                 /\ weather' = Updated(ID, b)
                 /\ Answer(<<"on_weather_update", ID>>, IF Matching(ID) = {} \/ Reached # 1 .. Len(weather)
                           THEN 400 ELSE 200, <<>>)
            \/ /\ Answer(<<"on_weather_update", ID>>, 400, <<>>)
               /\ UNCHANGED <<weather, stamps>>
    /\ UNCHANGED <<registry, socket>>

\* Mutant: erase is given the index of the next measurement.
VisitErasesNext(ID, loop, c) ==
    IF loop.thrown \/ (c.id = NoNumber /\ ~loop.skip)
    THEN [loop EXCEPT !.thrown = TRUE, !.kept = Append(@, c)]
    ELSE IF loop.skip THEN [loop EXCEPT !.skip = FALSE]
    ELSE [loop EXCEPT !.skip = (c.id = ID), !.kept = Append(@, c)]

\* One turn of the loop of on_weather_delete: after an erasure the index goes on past
\* the measurement that has moved to it.
Visit(ID, loop, c) ==
    IF loop.skip THEN [loop EXCEPT !.skip = FALSE, !.kept = Append(@, c)]
    ELSE IF loop.thrown \/ c.id = NoNumber
    THEN [loop EXCEPT !.thrown = TRUE, !.kept = Append(@, c)]
    ELSE IF c.id = ID THEN [loop EXCEPT !.skip = TRUE]
    ELSE [loop EXCEPT !.kept = Append(@, c)]

on_weather_delete(ID) ==
    /\ HandlerOf["DELETE", "/:ID"] = "on_weather_delete"
    /\ IF ID = NoNumber THEN Answer(<<"on_weather_delete", ID>>, 0, <<>>) /\ UNCHANGED weather
       ELSE LET loop == FoldLeft(LAMBDA l, c : Visit(ID, l, c),
                                 [kept |-> <<>>, skip |-> FALSE, thrown |-> FALSE], weather)
            IN  /\ weather' = loop.kept
                /\ Answer(<<"on_weather_delete", ID>>, IF loop.thrown THEN 400 ELSE 200, <<>>)
    /\ UNCHANGED <<registry, socket, stamps>>

-----------------------------------------------------------------------------
(* Websockets.                                                             *)

\* The upgrade, the entry in the registry, and then a response on the request whose
\* connection has moved: create_response throws, no further answer.
on_live_update(s) ==
    /\ HandlerOf["GET", "/chat"] = "on_live_update" /\ socket[s] = "none"
    /\ socket' = [socket EXCEPT ![s] = "open"]
    /\ registry' = registry \cup {s}
    /\ Answer(<<"on_live_update">>, 101, <<>>)
    /\ UNCHANGED <<weather, stamps>>

\* The message handler on a close frame, which the websocket also reports when the
\* connection is lost.  (Data and pings are sent back and change nothing here.)
SocketCloses(s) ==
    /\ socket[s] = "open"
    /\ socket' = [socket EXCEPT ![s] = "over"]
    /\ registry' = registry \ {s}
    /\ UNCHANGED <<weather, answer, stamps>>

-----------------------------------------------------------------------------
Next ==
    \/ on_weather_list \/ on_weather_latest \/ on_post_data \/ other_request
    \/ \E date \in Dates \cup {"20211105"} : on_date_get(date)
    \/ \E ID \in Ids \cup {NoNumber} : on_weather_update(ID) \/ on_weather_delete(ID)
    \/ \E s \in Sockets : on_live_update(s) \/ SocketCloses(s)

Spec == Init /\ [][Next]_vars

-----------------------------------------------------------------------------
\* What an update or a deletion of an ID does, whatever IDs clients have stored: the
\* other measurements stay as they are, in their order; an update that is answered 200
\* has replaced every measurement with the ID; a deletion that is answered 200 has
\* removed one if there was one, and all if no two of them were neighbours.
ChangedAsAsked ==
    [][\A ID \in Ids :
         LET Done(handler) == /\ answer'.handler = <<handler, ID>>
                              /\ <<weather, answer>>' # <<weather, answer>>
             Others(s) == SelectSeq(s, LAMBDA b : b.id # ID /\ b.stamp <= stamps)
             Places(s) == {i \in 1 .. Len(s) : s[i].id = ID}
         IN  /\ Done("on_weather_update") \/ Done("on_weather_delete")
                   => Others(weather') = Others(weather)
             /\ Done("on_weather_update") /\ answer'.status = 200
                   => \A i \in Places(weather') : weather'[i].stamp = stamps'
             /\ Done("on_weather_delete") /\ answer'.status = 200
                   => \/ Places(weather') = {}
                      \/ /\ Cardinality(Places(weather')) < Cardinality(Places(weather))
                         /\ \E i \in Places(weather) : i + 1 \in Places(weather)
       ]_vars
=============================================================================
