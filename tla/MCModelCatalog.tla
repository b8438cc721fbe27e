-------------------------- MODULE MCModelCatalog --------------------------
(* ModelCatalog for TLC: two backends shared by the routers and three        *)
(* providers, one of them disabled, and a configuration whose endpoint for   *)
(* google lacks the suffix.                                                  *)
EXTENDS ModelCatalog

MCBackends == {"google", "groq"}
MCGoogle == "google"
MCTexts == {"x", "y"}

Id(text, prefixed) == [text |-> text, prefixed |-> prefixed]

Target(name, backend, endpoint, model, r, enabled) ==
    [name |-> name, backend |-> backend, endpoint |-> endpoint,
     model |-> model, role |-> r, enabled |-> enabled]

Configured(google) ==
    <<Target("primary_router", "google", google, Id("x", FALSE), "router", TRUE),
      Target("fallback_router", "groq", TRUE, Id("x", FALSE), "router", TRUE),
      Target("p1", "groq", TRUE, Id("y", FALSE), "provider", TRUE),
      Target("p2", "google", google, Id("y", TRUE), "provider", TRUE),
      Target("p3", "groq", TRUE, Id("x", FALSE), "provider", FALSE)>>

MCConfigurations == {Configured(TRUE), Configured(FALSE)}

\* Complete, with the prefix and without, and with a model withdrawn.
MCCatalogChoices ==
    {{Id("x", TRUE), Id("y", TRUE)}, {Id("x", FALSE), Id("y", FALSE)},
     {Id("x", FALSE), Id("x", TRUE)}}

=============================================================================
