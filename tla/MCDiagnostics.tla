--------------------------- MODULE MCDiagnostics ---------------------------
(* Diagnostics of three candidates, of which the first and the last share  *)
(* a backend with each other and with the fallback router.                 *)
EXTENDS Diagnostics, TLC

CONSTANTS p1, p2, p3

MCBackendOf == (p1 :> "groq") @@ (p2 :> "google") @@ (p3 :> "groq")

MCRouterBackend ==
    [t \in Tiers |-> IF t = "primary_router" THEN "google" ELSE "groq"]

MCHttpFailureReason == [status \in Statuses |-> "HTTP_" \o ToString(status)]

MCCandidateLists == {<<p2>>, <<p1, p2, p3>>}

=============================================================================
