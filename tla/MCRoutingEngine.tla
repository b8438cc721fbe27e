-------------------------- MODULE MCRoutingEngine --------------------------
(* RoutingEngine for TLC: two backends; the primary router and the first     *)
(* candidate share one, so that a request can meet its own failures again.   *)
EXTENDS RoutingEngine, TLC

CONSTANTS b1, b2, p1, p2, p3

MCBackends == {b1, b2}
MCProviders == {p1, p2, p3}
MCBackendOf == p1 :> b1 @@ p2 :> b2 @@ p3 :> b1
MCRouterBackend == "primary_router" :> b1 @@ "fallback_router" :> b2
MCCandidateLists == {<<p1, p2, p3>>}
MCShortList == {<<p1, p2>>}

Symmetry == Permutations(Requests)

=============================================================================
