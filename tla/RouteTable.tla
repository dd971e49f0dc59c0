------------------------------- MODULE RouteTable -------------------------------
(***************************************************************************)
(* What the route table of pkg/router serves: NewSimpleRouteMatcher turns  *)
(* the wildcards of a host or path into a regular expression, Match tries  *)
(* a request against one route and FindRoute takes the first that fits.    *)
(* The table is replaced as a whole under r.mu, and FindRoute reads it     *)
(* under r.mu.  Who replaces it when, and what a pattern that does not     *)
(* compile does, is in ConfigReload; what is done with the route that was  *)
(* found is in Gateway.                                                    *)
(*                                                                         *)
(* Hosts and paths are sequences of characters.  Of the characters that    *)
(* mean something in a regular expression the dot is the one hosts and     *)
(* paths have; the others are not modelled.  A path may hold a line break, *)
(* written %0A in the request, and a dot of the expressions that are       *)
(* compiled here, without the flag s, stands for every character but that. *)
(***************************************************************************)
EXTENDS Integers, Sequences
LOCAL Lists == INSTANCE SequencesExt

CONSTANTS
  RouteConfigs,    \* the configurations: sequences of routes
                   \* [name, host, path, prefix, methods, headers], <<>> if not set
  Requests,        \* the requests: [host, path, method, headers]
  MaxMiddleware    \* bound on the middleware of a route

AnyRun == "any run"   \* .*
AnyOne == "any one"   \* .
Newline == "\n"       \* what neither of them takes

\* What is matched is made of characters.
Text == Seq(STRING \ {AnyRun, AnyOne})

ASSUME RouteTableAssumption ==
  /\ \A cfg \in RouteConfigs :
       /\ DOMAIN cfg = 1 .. Len(cfg)
       /\ \A i \in DOMAIN cfg : cfg[i].host \in Text /\ cfg[i].path \in Text
  /\ \A req \in Requests : req.host \in Text /\ req.path \in Text

VARIABLES
  inForce,   \* the configuration last given to UpdateRoutes or LoadFromConfig
  routes     \* r.routes: each route's configuration, compiled, and its middleware

routeVars == <<inForce, routes>>

--------------------------------------------------------------------------------
(* NewSimpleRouteMatcher and Match *)

HasWildcard(pattern) == \E i \in DOMAIN pattern : pattern[i] = "*"

HostRegex(host) ==
  [i \in DOMAIN host |-> IF host[i] = "*" THEN AnyRun ELSE host[i]]

\* The dot of a path is not escaped as that of a host is.
PathRegex(path) ==
  [i \in DOMAIN path |->
     CASE path[i] = "*" -> AnyRun [] path[i] = "." -> AnyOne [] OTHER -> path[i]]

\* The places in a regular expression, as the number of elements before them,
\* that are reached from some of the given ones without reading anything.
SkipRuns(regex, places) ==
  {j \in 0 .. Len(regex) :
     \E i \in places : i <= j /\ \A k \in i + 1 .. j : regex[k] = AnyRun}

\* The characters an element of a regular expression takes.
Takes(element, c) == element = c \/ (element \in {AnyOne, AnyRun} /\ c # Newline)

\* The places that are reached by reading one character more.
ReadOne(regex, places, c) ==
  LET next == {i \in places : i < Len(regex) /\ Takes(regex[i + 1], c)}
      within == {i \in next : regex[i + 1] = AnyRun}
      beyond == next \ within
  IN  SkipRuns(regex, within \cup {i + 1 : i \in beyond})

\* The places that are reached by reading the first k characters of the text.
Reached(regex, text) ==
  LET at[k \in 0 .. Len(text)] ==
        IF k = 0 THEN SkipRuns(regex, {0}) ELSE ReadOne(regex, at[k - 1], text[k])
  IN  at

\* MatchString of ^regex$: the whole text leads to the end.
Accepts(regex, text) == Len(regex) \in Reached(regex, text)[Len(text)]

HasPrefix(text, prefix) == Lists!IsPrefix(prefix, text)

\* A request's header that is absent has no value, <<>>.
Match(m, req) ==
  /\ m.host # <<>> => IF HasWildcard(m.host) THEN Accepts(m.hostRegex, req.host)
                      ELSE req.host = m.host
  /\ m.path # <<>> => IF HasWildcard(m.path) THEN Accepts(m.pathRegex, req.path)
                      ELSE req.path = m.path
  /\ HasPrefix(req.path, m.prefix)
  /\ m.methods # {} => req.method \in m.methods
  /\ \A h \in DOMAIN m.headers : req.headers[h] = m.headers[h]

NewSimpleRouteMatcher(r) ==
  [name |-> r.name, host |-> r.host, path |-> r.path, prefix |-> r.prefix,
   methods |-> r.methods, headers |-> r.headers,
   hostRegex |-> HostRegex(r.host), pathRegex |-> PathRegex(r.path), middleware |-> 0]

\* Mutant: the last route that fits.
FindRouteLast(req) ==
  LET fits == {i \in DOMAIN routes : Match(routes[i], req)} IN
  IF fits = {} THEN 0 ELSE CHOOSE i \in fits : \A j \in fits : i >= j

\* The place of the first route that fits, 0 for none.
FindRoute(req) ==
  LET fits == {i \in DOMAIN routes : Match(routes[i], req)} IN
  IF fits = {} THEN 0 ELSE CHOOSE i \in fits : \A j \in fits : i <= j

\* The places of the routes called so, of which the first is meant.
GetRouteByName(name) ==
  {i \in DOMAIN routes : routes[i].name = name /\ \A j \in 1 .. i - 1 : routes[j].name # name}

--------------------------------------------------------------------------------
(* The operations *)

NewRouteTable == inForce = <<>> /\ routes = <<>>

\* UpdateRoutes, for the watcher, and LoadFromConfig, for main, build the same
\* table; middleware that was added to the old one goes with it.
UpdateRoutes ==
  \E cfg \in RouteConfigs :
    /\ inForce' = cfg
    /\ routes' = [i \in DOMAIN cfg |-> NewSimpleRouteMatcher(cfg[i])]

\* Nothing happens, and no error is returned, for a name no route has.
AddMiddleware ==
  \E i \in DOMAIN routes :
    /\ i \in GetRouteByName(routes[i].name)
    /\ routes[i].middleware < MaxMiddleware
    /\ routes' = [routes EXCEPT ![i].middleware = @ + 1]
    /\ UNCHANGED inForce

RouteStep == UpdateRoutes \/ AddMiddleware

RouteSpec == NewRouteTable /\ [][RouteStep]_routeVars

--------------------------------------------------------------------------------
(* What an operator reads in the configuration: a wildcard stands for any  *)
(* run of characters of one line, everything else for itself.  at[i] is    *)
(* where in the text the pattern from its i-th character on begins.        *)

OneLine(text, a, b) == \A l \in a .. b - 1 : text[l] # Newline

Reads(pattern, text) ==
  \E at \in [1 .. Len(pattern) + 1 -> 1 .. Len(text) + 1] :
    /\ at[1] = 1 /\ at[Len(pattern) + 1] = Len(text) + 1
    /\ \A i \in DOMAIN pattern :
         \/ pattern[i] = "*" /\ at[i + 1] >= at[i] /\ OneLine(text, at[i], at[i + 1])
         \/ at[i + 1] = at[i] + 1 /\ text[at[i]] = pattern[i]

Wanted(r, req) ==
  /\ r.host = <<>> \/ Reads(r.host, req.host)
  /\ r.path = <<>> \/ Reads(r.path, req.path)
  /\ HasPrefix(req.path, r.prefix)
  /\ r.methods = {} \/ req.method \in r.methods
  /\ \A h \in DOMAIN r.headers : req.headers[h] = r.headers[h]

\* A path with a wildcard and a dot, which other characters pass for.
Loose(r) == HasWildcard(r.path) /\ \E i \in DOMAIN r.path : r.path[i] = "."

\* A request is served by the first route of the configuration in force that is
\* meant for it, whatever patterns overlap, and by none if there is none: not by
\* a wildcard that would have to stand for a line break, as /* for /a%0Ab.  A
\* path with a wildcard and a dot may take requests that are not meant for it,
\* and no other route may.
ServesAsWritten ==
  \A req \in Requests :
    LET wanted == {i \in DOMAIN inForce : Wanted(inForce[i], req)}
        found == FindRoute(req)
    IN  /\ wanted # {} => found # 0 /\ \A i \in wanted : found <= i
        /\ found # 0 => found \in wanted \/ Loose(inForce[found])
================================================================================
