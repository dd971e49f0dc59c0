---------------------------- MODULE GatewayServerMC -----------------------------
(* Instances of the parts for TLC. *)
EXTENDS GatewayServer

FollowedAlone ==
  {{"limit"}, {"replay"}, {"auth", "audit"}, {"acl"}, {"agent"}, {"evolution"},
   {"routes", "metrics"}}

\* Closed to all, open to all with rules that do not compile, and switched off.
ThreeACLs ==
  {[enabled |-> TRUE, white |-> <<Everyone>>, black |-> <<>>, allow |-> FALSE],
   [enabled |-> TRUE, white |-> <<"10.0.0.0/8">>, black |-> <<>>, allow |-> TRUE],
   [enabled |-> FALSE, white |-> <<>>, black |-> <<Everyone>>, allow |-> TRUE]}

\* A limit that shrinks, and a coordinator that does not track.
ThreeAgentConfigs ==
  {[name |-> 1, tracked |-> TRUE, limit |-> 2],
   [name |-> 2, tracked |-> TRUE, limit |-> 1],
   [name |-> 3, tracked |-> FALSE, limit |-> 0]}

Evolves(enabled, atMost, skillsAtMost) ==
  [memory |-> [enabled |-> enabled, limit |-> atMost],
   skill |-> [enabled |-> TRUE, limit |-> skillsAtMost],
   strategy |-> [enabled |-> enabled]]

ThreeEvolutionConfigs == {Evolves(TRUE, 2, 1), Evolves(TRUE, 1, 0), Evolves(FALSE, 2, 1)}

--------------------------------------------------------------------------------
(* Routes: one host and one path pattern of every shape, alone or before a *)
(* route that most requests fit.                                           *)

NoHeaders == [h \in {} |-> <<>>]
Traced(value) == [h \in {"X-Trace"} |-> value]

Route(name, host, path) ==
  [name |-> name, host |-> host, path |-> path, prefix |-> <<>>, methods |-> {},
   headers |-> NoHeaders]

HostPatterns == {<<>>, <<"a">>, <<"*">>, <<"*", ".", "a">>, <<"a", "*">>}
PathPatterns == {<<>>, <<"/", "a">>, <<"/", "*">>, <<"/", ".", "*">>, <<"*", "a">>,
                 <<"/", "*", "a", "*">>}

FirstRoutes == {Route("first", host, path) : host \in HostPatterns, path \in PathPatterns}

Otherwise ==
  [Route("second", <<"*">>, <<"/", "*">>) EXCEPT
     !.prefix = <<"/", "a">>, !.methods = {"GET"}, !.headers = Traced(<<>>)]

OneOrTwoRoutes == {<<r>> : r \in FirstRoutes} \cup {<<r, Otherwise>> : r \in FirstRoutes}

SomeRequests ==
  [host : {<<"a">>, <<"b", ".", "a">>, <<"b", "a">>, <<"a", "b">>},
   path : {<<"/">>, <<"/", "a">>, <<"/", ".">>, <<"/", "b", "a">>, <<"/", ".", "a">>,
           <<"/", "a", "b">>, <<"/", Newline, "a">>},
   method : {"GET", "PUT"},
   headers : {Traced(<<>>), Traced(<<"1">>)}]
================================================================================
