--------------------------- MODULE WeatherService ---------------------------
(***************************************************************************)
(* The program of sample/express_router: the weather station behind a      *)
(* server that runs on the main thread.  A request is handled by thread 0  *)
(* between two other handlers of the io_context; nothing else touches the  *)
(* collection, which has no lock.  The other ways of running a server are  *)
(* there without a station.                                                *)
(***************************************************************************)
EXTENDS HttpServerRun

CONSTANTS Ids, NoNumber, Dates, Sockets, MaxStamp

VARIABLES weather, registry, socket, answer, stamps

Station == INSTANCE WeatherStation

stationVars == <<weather, registry, socket, answer, stamps>>

ServiceInit == Init /\ Station!Init

\* A request, or the end of a websocket, reaches the station.
Request ==
    /\ way = "this_thread" /\ thread[0] = "idle" /\ ~stopped /\ running
    /\ Station!Next
    /\ UNCHANGED vars

ServerStep == Next /\ UNCHANGED stationVars

ServiceNext == ServerStep \/ Request

Service ==
    /\ ServiceInit /\ [][ServiceNext]_<<vars, stationVars>>
    /\ WF_vars(Runner) /\ \A t \in Threads : WF_vars(Handlers(t))

\* ChangedAsAsked of WeatherStation, in the running program.
StationChangedAsAsked == Station!ChangedAsAsked
=============================================================================
