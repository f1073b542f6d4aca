------------------------------- MODULE Routing -------------------------------
(***************************************************************************)
(* The routes of an App: App::route, Route::on and RouteMethods::use       *)
(* (App.cpp, Route.cpp) while the program sets them up, and the choice of  *)
(* one for a request in Context::process_request_data and                  *)
(* init_handler_data (Context.cpp).                                        *)
(*                                                                         *)
(* std::regex gives for a target that a pattern matches the captures of    *)
(* Captures, and for any other none.                                       *)
(***************************************************************************)
EXTENDS Naturals, Sequences, FiniteSets

CONSTANTS
    Patterns,   \* of the routes, but for "*"
    Urls,       \* targets of the requests
    Captures,   \* of a pattern in a target, <<>> if it does not match
    Methods,    \* that HTTP::Method knows; "ALL" stands for any
    MaxRoutes,  \* bound: calls of route
    MaxUses     \* bound: calls of use

VARIABLES
    route_mapping, \* pattern, number of the call of route, and middlewares by method
    route_global,  \* the same of the last route("*"), or nothing
    log,           \* ghost: the calls of the program, in order
    stage,         \* "setup", then "search" for a request, then "answered"
    search,        \* the request, and the locals of the loop over route_mapping
    answer         \* what the request was served with

vars == <<route_mapping, route_global, log, stage, search, answer>>
setup == <<route_mapping, route_global, log>>

NoMethods == [m \in {} |-> <<>>]
Calls(call) == Cardinality({c \in DOMAIN log : log[c].call = call})

Init ==
    /\ route_mapping = <<>> /\ route_global = <<>> /\ log = <<>>
    /\ stage = "setup" /\ search = <<>> /\ answer = <<>>

(* App::route makes a new Route whether the path has one or not. *)
AddRoute ==
    /\ stage = "setup" /\ Calls("route") < MaxRoutes
    /\ \E p \in Patterns \cup {"*"} :
          LET r == [pattern |-> p, route |-> Len(log) + 1, methods |-> NoMethods]
          IN /\ IF p = "*" THEN route_global' = <<r>> /\ UNCHANGED route_mapping
                ELSE route_mapping' = Append(route_mapping, r) /\ UNCHANGED route_global
             /\ log' = Append(log, [call |-> "route", route |-> r.route, of |-> p])
    /\ UNCHANGED <<stage, search, answer>>

\* Mutant: on() begins a new list for a method that has one.
WithMiddlewareOnly(r, m, id) ==
    [pattern |-> r.pattern, route |-> r.route,
     methods |-> [n \in DOMAIN r.methods \cup {m} |-> IF n = m THEN <<id>> ELSE r.methods[n]]]

WithMiddleware(r, m, id) ==
    [pattern |-> r.pattern, route |-> r.route,
     methods |-> [n \in DOMAIN r.methods \cup {m} |->
                     IF n # m THEN r.methods[n]
                     ELSE Append(IF m \in DOMAIN r.methods THEN r.methods[m] ELSE <<>>, id)]]

(* on(method).use(middleware), on a Route the program has kept. *)
OnUse ==
    /\ stage = "setup" /\ Calls("use") < MaxUses
    /\ \E m \in Methods \cup {"ALL"} :
          LET id == Len(log) + 1
              Used(r) == log' = Append(log, [call |-> "use", route |-> r.route, of |-> m])
          IN \/ \E i \in DOMAIN route_mapping :
                   /\ route_mapping' =
                        [route_mapping EXCEPT ![i] = WithMiddleware(route_mapping[i], m, id)]
                   /\ Used(route_mapping[i])
                   /\ UNCHANGED route_global
             \/ /\ route_global # <<>>
                /\ route_global' = <<WithMiddleware(route_global[1], m, id)>>
                /\ Used(route_global[1])
                /\ UNCHANGED route_mapping
    /\ UNCHANGED <<stage, search, answer>>

Request ==
    /\ stage = "setup" /\ stage' = "search"
    /\ \E url \in Urls, m \in Methods :
          search' = [url |-> url, method |-> m, seen |-> 0, route |-> 0, smbuf |-> <<>>]
    /\ UNCHANGED <<setup, answer>>

(* The loop goes on behind a route that matches: the last one is taken, and
   the captures of all of them are kept. *)
Match ==
    /\ stage = "search" /\ search.seen < Len(route_mapping)
    /\ LET i == search.seen + 1
           found == Captures[route_mapping[i].pattern][search.url]
       IN search' = [url |-> search.url, method |-> search.method, seen |-> i,
                     route |-> IF found = <<>> THEN search.route ELSE i,
                     smbuf |-> search.smbuf \o found]
    /\ UNCHANGED <<setup, stage, answer>>

Chosen == IF search.route = 0 THEN route_global ELSE <<route_mapping[search.route]>>

(* init_handler_data *)
Handlers(r, m) ==
    IF m \in DOMAIN r.methods THEN r.methods[m]
    ELSE IF "ALL" \in DOMAIN r.methods THEN r.methods["ALL"] ELSE <<>>

Answer ==
    /\ stage = "search" /\ search.seen = Len(route_mapping)
    /\ stage' = "answered"
    /\ LET list == IF Chosen = <<>> THEN <<>> ELSE Handlers(Chosen[1], search.method)
       IN answer' = [status |-> IF list = <<>> THEN 404 ELSE 200, middlewares |-> list,
                     url_smatch |-> search.smbuf]
    /\ UNCHANGED <<setup, search>>

(* Set up first, then served. *)
Next == AddRoute \/ OnUse \/ Request \/ Match \/ Answer

Spec == Init /\ [][Next]_vars
-----------------------------------------------------------------------------
(* What the program asked for, read from the order of its calls alone: a call
   is its place in log, which is also the name of the route it makes or of the
   middleware it gives. *)
RouteCalls(url) ==
    {c \in DOMAIN log : /\ log[c].call = "route" /\ log[c].of # "*"
                        /\ Captures[log[c].of][url] # <<>>}
GlobalCalls == {c \in DOMAIN log : log[c].call = "route" /\ log[c].of = "*"}
Latest(calls) == CHOOSE c \in calls : \A d \in calls : d <= c
Uses(r, m) == {c \in DOMAIN log : log[c].call = "use" /\ log[c].route = r /\ log[c].of = m}

Asked(url, m) ==
    LET routes == IF RouteCalls(url) # {} THEN RouteCalls(url) ELSE GlobalCalls
        r == Latest(routes)
    IN IF routes = {} THEN {} ELSE IF Uses(r, m) # {} THEN Uses(r, m) ELSE Uses(r, "ALL")

(* The elements of a set of numbers, from the least to the greatest. *)
Enumerates(list, numbers) ==
    /\ {list[i] : i \in DOMAIN list} = numbers
    /\ \A i, j \in DOMAIN list : i < j => list[i] < list[j]

(* A request runs the middlewares that were asked for, in that order, for its
   method, or else for any, on the route added last of those that match its
   target, or else on the global one.  Their url_smatch ends with the captures
   of that route, and is nothing but them if no other route matches. *)
RequestIsServedByItsRoute ==
    stage = "answered" =>
        LET asked == Asked(search.url, search.method)
            calls == RouteCalls(search.url)
            captures == Captures[log[Latest(calls)].of][search.url]
        IN /\ Enumerates(answer.middlewares, asked)
           /\ (answer.status = 404) = (asked = {})
           /\ calls # {} =>
                 /\ \E n \in 1..(Len(answer.url_smatch) + 1) :
                       SubSeq(answer.url_smatch, n, Len(answer.url_smatch)) = captures
                 /\ Cardinality(calls) = 1 => answer.url_smatch = captures
=============================================================================
