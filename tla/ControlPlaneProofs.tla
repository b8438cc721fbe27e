------------------------- MODULE ControlPlaneProofs -------------------------
(***************************************************************************)
(* Proofs about ControlPlane, for any tenants, policies, governance rules, *)
(* requests and registry: its types, that every request is audited once,   *)
(* that its audit reference stays reproducible for good, and that what it  *)
(* may call is what one governance version in force lets through.          *)
(*                                                                         *)
(* What the registry and the evaluators return plays no part in the first  *)
(* two, so CandidateProviders is left unexpanded there: the same version   *)
(* of a policy and of a governance policy give the same candidates.  What  *)
(* it returns is what the last rests on; the lemmas are those of           *)
(* ModelRegistryProofs, instantiated with the registry at start-up.        *)
(***************************************************************************)
EXTENDS ControlPlane, FiniteSetTheorems, SequenceTheorems, TLAPS

\* What the administration keeps: a policy that is pointed to has a version.
AdminTyped ==
    /\ policies \in [Tenants -> [PolicyIds ->
                        Seq([kind : PolicyKinds, active : BOOLEAN])]]
    /\ active \in [Tenants -> PolicyIds \cup {NoPolicy}]
    /\ \A t \in Tenants : active[t] # NoPolicy => policies[t][active[t]] # << >>
    /\ governance \in [Tenants -> Seq([rule : GovernanceRules,
                                       asked : BOOLEAN])]

\* The log of references, and each request's part of the state.
Kept ==
    /\ \E S : audit \in Seq(S)
    /\ DOMAIN stage = Requests /\ DOMAIN request = Requests
    /\ DOMAIN recorded = Requests /\ DOMAIN result = Requests
    /\ recorded \in [Requests -> BOOLEAN]
    /\ \A r \in Requests : stage[r] = "router" => request[r] \in Asked

\* A request is recorded when it has a reference, and never has two.
Listed ==
    /\ \A i \in 1..Len(audit) : /\ audit[i].request \in Requests
                                /\ recorded[audit[i].request]
    /\ \A r \in Requests : recorded[r] =>
          \E i \in 1..Len(audit) : audit[i].request = r
    /\ \A i, j \in 1..Len(audit) : audit[i].request = audit[j].request => i = j

\* Who has to be recorded, and who must not be.
Due ==
    \A r \in Requests :
        /\ stage[r] = "new" => ~recorded[r]
        /\ request[r].tenant # NoTenant => recorded[r]
        /\ result[r] = "GOVERNANCE_POLICY_DENIED" => recorded[r]
        /\ stage[r] \in {"router", "provider"} /\ request[r].tenant = NoTenant
           => ~recorded[r]

OnceInv == Kept /\ Listed /\ Due

\* The stored versions that a reference names exist.
Named(a) ==
    /\ a.tenant \in Tenants
    /\ a.resolved.policy_id \in PolicyIds
    /\ a.policy_stored =>
          a.resolved.policy_version
             \in 1..Len(policies[a.tenant][a.resolved.policy_id])
    /\ a.governance_stored => /\ governance[a.tenant] # << >>
                              /\ a.resolved.governance_version
                                    \in 1..Len(governance[a.tenant])

AllNamed == \A i \in 1..Len(audit) : Named(audit[i])

AuditInv == OnceInv /\ AdminTyped /\ AllNamed /\ AuditReproducible

-----------------------------------------------------------------------------
(* What the registry and the evaluators return.  The lemmas about the      *)
(* registry are those of ModelRegistryProofs, for its state at start-up.   *)

Facts == INSTANCE ModelRegistryProofs WITH
    providers <- Configs, order <- RegistryOrder

\* The list operators mean the same here, in Registry and in Facts.
LEMMA SameLists ==
    /\ \A S : Facts!ToSet(S) = ToSet(S) /\ Registry!ToSet(S) = ToSet(S)
    /\ \A f : /\ Facts!IsInjective(f) = IsInjective(f)
              /\ Registry!IsInjective(f) = IsInjective(f)
    /\ \A S, before : /\ Facts!Sorted(S, before) = Sorted(S, before)
                      /\ Registry!Sorted(S, before) = Sorted(S, before)
    /\ \A list, kept : /\ Facts!Filtered(list, kept) = Filtered(list, kept)
                       /\ Registry!Filtered(list, kept) = Filtered(list, kept)
    /\ \A list : Facts!Order(list) = Registry!Order(list)
<1>1. \A S : Facts!ToSet(S) = ToSet(S) /\ Registry!ToSet(S) = ToSet(S)
  BY Zenon DEF ToSet, Facts!ToSet, Registry!ToSet
<1>2. \A f : /\ Facts!IsInjective(f) = IsInjective(f)
             /\ Registry!IsInjective(f) = IsInjective(f)
  BY Zenon DEF IsInjective, Facts!IsInjective, Registry!IsInjective
<1>3. \A S, before : /\ Facts!Sorted(S, before) = Sorted(S, before)
                     /\ Registry!Sorted(S, before) = Sorted(S, before)
  BY Zenon DEF Sorted, Facts!Sorted, Registry!Sorted,
               Cardinality, Facts!Cardinality, Registry!Cardinality
<1>4. \A list, kept : /\ Facts!Filtered(list, kept) = Filtered(list, kept)
                      /\ Registry!Filtered(list, kept) = Filtered(list, kept)
  <2>1. \A S : /\ Facts!Cardinality(S) = Cardinality(S)
               /\ Registry!Cardinality(S) = Cardinality(S)
    BY Zenon DEF Cardinality, Facts!Cardinality, Registry!Cardinality
  <2>2. QED  BY <1>3, <2>1, Zenon DEF Filtered, Facts!Filtered, Registry!Filtered
<1>5. \A list : Facts!Order(list) = Registry!Order(list)
  BY <1>1, Zenon DEF Facts!Order, Registry!Order
<1>6. QED  BY <1>1, <1>2, <1>3, <1>4, <1>5

LEMMA RegistryStarts ==
    /\ Facts!TypeOK /\ Facts!RegistryAssumption
    /\ Facts!Registered = Providers
<1>1. Facts!Registered = Providers
  BY DEF Facts!Registered, Providers
<1>2. Facts!ProviderConfig = Registry!ProviderConfig
  BY DEF Registry!ProviderConfig, Facts!ProviderConfig
<1>3. Facts!TypeOK
  BY <1>1, <1>2, SameLists, ControlPlaneAssumption DEF Facts!TypeOK
<1>4. Facts!RegistryAssumption
  BY ControlPlaneAssumption DEF Facts!RegistryAssumption
<1>5. QED  BY <1>1, <1>3, <1>4

LEMMA AvailableIs ==
    ASSUME NEW excluded, NEW s, s = Registry!AvailableForRouter(excluded)
    PROVE  /\ s \in Seq(Providers) /\ IsInjective(s)
           /\ ToSet(s) \subseteq Providers \ excluded
<1>1. s = Facts!AvailableForRouter(excluded)
  BY SameLists DEF Registry!AvailableForRouter, Facts!AvailableForRouter
<1>2. /\ s \in Seq(Facts!Registered) /\ Facts!IsInjective(s)
      /\ Facts!ToSet(s) \subseteq Facts!Registered \ excluded
  BY <1>1, RegistryStarts, Facts!AvailableIs
<1>3. QED  BY <1>2, RegistryStarts, SameLists

\* A list of candidates of a request: providers that it does not exclude,
\* each once.
Allowed(list, excluded) ==
    /\ list \in Seq(Providers)
    /\ IsInjective(list)
    /\ ToSet(list) \subseteq Providers \ excluded

LEMMA AllowedIs ==
    ASSUME NEW list, NEW excluded
    PROVE  Allowed(list, excluded) <=> Facts!Ranking(list, excluded)
  BY RegistryStarts, SameLists DEF Allowed, Facts!Ranking

\* Sorting providers by their score loses none and repeats none.
LEMMA ScoredIs ==
    ASSUME NEW S, S \subseteq Providers, IsFiniteSet(S),
           NEW kind \in DOMAIN SortKey, NEW s, s = Sorted(S, ByScore(kind))
    PROVE  s \in Seq(S) /\ IsInjective(s) /\ ToSet(s) = S
<1>1. PICK before, key : before = ByScore(kind) /\ key = SortKey[kind]
  OBVIOUS
<1>2. \A x \in S : x \in Int /\ key[x] \in Int
  BY <1>1, ControlPlaneAssumption
<1>3. \A x, y \in S : <<x, y>> \in before <=>
         key[x] < key[y] \/ (key[x] = key[y] /\ x < y)
  BY <1>1 DEF ByScore
<1>4. Facts!StrictOrder(before, S)
  <2>1. \A x \in S : <<x, x>> \notin before
    BY <1>2, <1>3
  <2>2. ASSUME NEW x \in S, NEW y \in S, NEW z \in S,
               <<x, y>> \in before, <<y, z>> \in before
        PROVE  <<x, z>> \in before
    BY <1>2, <1>3, <2>2
  <2>3. ASSUME NEW x \in S, NEW y \in S
        PROVE  x = y \/ <<x, y>> \in before \/ <<y, x>> \in before
    BY <1>2, <1>3
  <2>4. QED  BY <2>1, <2>2, <2>3 DEF Facts!StrictOrder
<1>5. Facts!IsFiniteSet(S)
  BY DEF IsFiniteSet, Facts!IsFiniteSet
<1>6. s = Facts!Sorted(S, before)
  BY <1>1, SameLists
<1>7. Facts!Lists(s, S, before)
  BY <1>4, <1>5, <1>6, Facts!SortedIs, RegistryStarts
<1>8. /\ s \in Seq(S) /\ DOMAIN s = 1..Len(s) /\ Len(s) \in Nat
      /\ \A x \in S : \E k \in 1..Len(s) : s[k] = x
      /\ \A i, j \in 1..Len(s) : i < j => <<s[i], s[j]>> \in before
  BY <1>7 DEF Facts!Lists
<1>9. ASSUME NEW i \in 1..Len(s), NEW j \in 1..Len(s), s[i] = s[j]
      PROVE  i = j
  <2>1. s[i] \in S /\ <<s[i], s[i]>> \notin before
    BY <1>4, <1>8 DEF Facts!StrictOrder
  <2>2. ~(i < j) /\ ~(j < i)
    BY <1>8, <1>9, <2>1
  <2>3. QED  BY <1>8, <2>2
<1>10. IsInjective(s)
  BY <1>8, <1>9 DEF IsInjective
<1>11. ToSet(s) = S
  BY <1>8 DEF ToSet
<1>12. QED  BY <1>8, <1>10, <1>11

\* What governance and policy make of what is available: every provider that
\* the rule lets through and no other.
LEMMA CandidatesKept ==
    ASSUME NEW rule, NEW kind, NEW context, NEW excluded,
           NEW s, s = CandidateProviders(rule, kind, context, excluded)
    PROVE  /\ Allowed(s, excluded)
           /\ ToSet(s) = {id \in ToSet(Registry!AvailableForRouter(excluded)) :
                            Eligible(rule, context, id)}
<1>1. PICK available : available = Registry!AvailableForRouter(excluded)
  OBVIOUS
<1>2. PICK kept : kept = {id \in Providers : Eligible(rule, context, id)}
  OBVIOUS
<1>3. /\ available \in Seq(Providers) /\ IsInjective(available)
      /\ ToSet(available) \subseteq Providers \ excluded
  BY <1>1, AvailableIs
<1>4. PICK list : list = Filtered(available, kept)
  OBVIOUS
<1>5. s = Ranked(kind, list)
  BY <1>1, <1>2, <1>4 DEF CandidateProviders
<1>6. /\ list \in Seq(Providers) /\ IsInjective(list)
      /\ ToSet(list) = ToSet(available) \cap kept
  <2>1. list = Facts!Filtered(available, kept) /\ Facts!IsInjective(available)
    BY <1>3, <1>4, SameLists
  <2>2. /\ list \in Seq(Providers) /\ Facts!IsInjective(list)
        /\ Facts!ToSet(list) = Facts!ToSet(available) \cap kept
    BY <1>3, <2>1, Facts!FilteredKeeps, RegistryStarts
  <2>3. QED  BY <2>2, SameLists
<1>7. s \in Seq(Providers) /\ IsInjective(s) /\ ToSet(s) = ToSet(list)
  <2>1. CASE kind \in DOMAIN SortKey
    <3>1. PICK S : S = ToSet(list)
      OBVIOUS
    <3>2. S \subseteq Providers /\ IsFiniteSet(S)
      <4>1. list \in Surjection(1..Len(list), S) /\ Len(list) \in Nat
        BY <1>6, <3>1 DEF ToSet, Surjection
      <4>2. IsFiniteSet(1..Len(list))
        BY <4>1, FS_Interval
      <4>3. QED  BY <1>3, <1>6, <3>1, <4>1, <4>2, FS_Surjection
    <3>3. s = Sorted(S, ByScore(kind))
      BY <1>5, <2>1, <3>1 DEF Ranked
    <3>4. s \in Seq(S) /\ IsInjective(s) /\ ToSet(s) = S
      BY <2>1, <3>2, <3>3, ScoredIs
    <3>5. QED  BY <3>1, <3>2, <3>4, SeqMonotonic
  <2>2. CASE kind \notin DOMAIN SortKey
    BY <1>5, <1>6, <2>2 DEF Ranked
  <2>3. QED  BY <2>1, <2>2
<1>8. ToSet(s) = {id \in ToSet(available) : Eligible(rule, context, id)}
  <2>1. \A id \in ToSet(available) :
           id \in Providers /\ (id \in kept <=> Eligible(rule, context, id))
    BY <1>2, <1>3
  <2>2. QED  BY <1>6, <1>7, <2>1
<1>9. QED  BY <1>1, <1>3, <1>6, <1>7, <1>8 DEF Allowed

\* The candidates of a group on offer: some of the allowed.
LEMMA CandidatesServe ==
    ASSUME NEW excluded, NEW allowed, Allowed(allowed, excluded),
           NEW image, NEW preserve \in BOOLEAN, NEW group,
           group \in Registry!AvailableTaskGroups(allowed, image),
           NEW s, s = Registry!CandidatesFor(group, image, excluded, allowed,
                                             preserve)
    PROVE  s \in Seq(ToSet(allowed)) /\ s # << >>
<1>1. s = Facts!CandidatesFor(group, image, excluded, allowed, preserve)
  <2>1. Facts!Candidates(group, image, excluded, allowed)
           = Registry!Candidates(group, image, excluded, allowed)
    BY SameLists, Zenon
       DEF Facts!Candidates, Registry!Candidates, Facts!Usable, Registry!Usable
  <2>2. Facts!ByPriority = Registry!ByPriority
    BY DEF Facts!ByPriority, Registry!ByPriority, Facts!Registered,
           Registry!Registered
  <2>3. QED
    BY <2>1, <2>2, SameLists, Zenon
       DEF Facts!CandidatesFor, Registry!CandidatesFor
<1>2. group \in Facts!AvailableTaskGroups(allowed, image)
  BY SameLists, Zenon
     DEF Facts!AvailableTaskGroups, Registry!AvailableTaskGroups,
         Facts!Usable, Registry!Usable
<1>3. Facts!Ranking(allowed, excluded)
  BY AllowedIs
<1>4. s \in Seq(Facts!ToSet(allowed)) /\ s # << >>
  BY <1>1, <1>2, <1>3, RegistryStarts, Facts!CandidatesServe
<1>5. QED  BY <1>4, SameLists

-----------------------------------------------------------------------------
(* The steps, as far as the audit is concerned.                            *)

\* An element added to a sequence disturbs no other.
LEMMA Appended ==
    ASSUME NEW S, NEW s \in Seq(S), NEW e
    PROVE  /\ Append(s, e) \in Seq(S \cup {e})
           /\ Len(s) \in Nat /\ Len(Append(s, e)) = Len(s) + 1
           /\ \A i \in 1..Len(s) : Append(s, e)[i] = s[i]
           /\ Append(s, e)[Len(s) + 1] = e
<1>1. s \in Seq(S \cup {e})
  BY SeqMonotonic
<1>2. QED  BY <1>1, AppendProperties

auditVars == <<audit, recorded>>

\* The request ends, without the denial of governance.
Ends(r) ==
    \E how \in Results \ {"GOVERNANCE_POLICY_DENIED"} :
        \E id : End(r, how, id) /\ UNCHANGED auditVars

\* It goes on with the candidates it has.
Continues(r) ==
    /\ stage[r] \in {"router", "provider"}
    /\ UNCHANGED stage \/ stage' = [stage EXCEPT ![r] = "provider"]
    /\ UNCHANGED <<request, result, auditVars>>

\* It has resolved its candidates, and is denied or asks a router.
Resolves(r, asked) ==
    /\ asked \in Asked
    /\ stage[r] = "new" \/ (stage[r] = "router" /\ request[r] = asked)
    /\ \/ /\ asked.tenant = NoTenant \/ recorded[r]
          /\ UNCHANGED auditVars
       \/ /\ asked.tenant # NoTenant /\ ~recorded[r]
          /\ ~PolicyMissing(asked.tenant, asked.context)
          /\ audit' = Append(audit, Reference(r, asked,
                        Resolve(asked.tenant, asked.context, asked.excluded)))
          /\ recorded' = [recorded EXCEPT ![r] = TRUE]
    /\ \/ End(r, "GOVERNANCE_POLICY_DENIED", NoProvider)
          /\ asked.tenant # NoTenant
       \/ /\ stage' = [stage EXCEPT ![r] = "router"]
          /\ request' = [request EXCEPT ![r] = asked]
          /\ UNCHANGED result

LEMMA RoundResolves ==
    ASSUME NEW r \in Requests, NEW asked \in Asked, NEW round,
           stage[r] = "new" \/ (stage[r] = "router" /\ request[r] = asked),
           Round(r, asked, round)
    PROVE  Ends(r) \/ Resolves(r, asked)
<1>1. CASE Registry!AvailableForRouter(asked.excluded) = << >>
  BY <1>1 DEF Round, Ends, auditVars, Results
<1>2. CASE asked.tenant # NoTenant /\ PolicyMissing(asked.tenant, asked.context)
  BY <1>2 DEF Round, Ends, auditVars, Results
<1>3. CASE /\ Registry!AvailableForRouter(asked.excluded) # << >>
           /\ asked.tenant = NoTenant
  <2>1. LegacyCandidates(asked.excluded).providers # << >>
    BY <1>3 DEF LegacyCandidates, NoCandidates
  <2>2. QED  BY <1>3, <2>1 DEF Round, Resolves, RecordPolicyAudit, auditVars
<1>4. CASE /\ Registry!AvailableForRouter(asked.excluded) # << >>
           /\ asked.tenant # NoTenant
           /\ ~PolicyMissing(asked.tenant, asked.context)
  BY <1>4 DEF Round, Resolves, RecordPolicyAudit, auditVars
<1>5. QED  BY <1>1, <1>2, <1>3, <1>4

LEMMA Served ==
    ASSUME Kept, NEW r \in Requests, Serve(r)
    PROVE  /\ Ends(r) \/ Continues(r) \/ \E asked \in Asked : Resolves(r, asked)
           /\ UNCHANGED adminVars
<1> USE DEF auditVars
<1>1. CASE \E asked \in Asked : Arrive(r, asked)
  BY <1>1, RoundResolves DEF Arrive
<1>2. CASE RouterAnswers(r)
  BY <1>2 DEF RouterAnswers, Continues, adminVars
<1>3. CASE RouterRetries(r)
  <2>1. request[r] \in Asked
    BY <1>3 DEF RouterRetries, Kept
  <2>2. QED  BY <1>3, <2>1, RoundResolves DEF RouterRetries
<1>4. CASE RouterConcludes(r)
  BY <1>4 DEF RouterConcludes, Ends, Results, adminVars
<1>5. CASE ProviderFails(r)
  <2>1. CASE Len(queue[r]) > 1
    BY <1>5, <2>1 DEF ProviderFails, Continues, adminVars
  <2>2. CASE ~(Len(queue[r]) > 1)
    BY <1>5, <2>2 DEF ProviderFails, Ends, Results, adminVars
  <2>3. QED  BY <2>1, <2>2
<1>6. CASE ProviderAnswers(r)
  BY <1>6 DEF ProviderAnswers, Ends, Results, adminVars
<1>7. QED  BY <1>1, <1>2, <1>3, <1>4, <1>5, <1>6 DEF Serve

-----------------------------------------------------------------------------
(* Every request is audited once.                                          *)

LEMMA LogUntouched ==
    ASSUME OnceInv, UNCHANGED auditVars
    PROVE  Listed'
  BY DEF OnceInv, Listed, auditVars

\* A reference of a request that had none.
LEMMA LogGrows ==
    ASSUME OnceInv, NEW r \in Requests, NEW e, e.request = r, ~recorded[r],
           audit' = Append(audit, e), recorded' = [recorded EXCEPT ![r] = TRUE]
    PROVE  Listed' /\ (\E S : audit' \in Seq(S))
<1>1. PICK S : audit \in Seq(S)
  BY DEF OnceInv, Kept
<1>2. /\ audit' \in Seq(S \cup {e})
      /\ Len(audit) \in Nat /\ Len(audit') = Len(audit) + 1
      /\ \A i \in 1..Len(audit) : audit'[i] = audit[i]
      /\ audit'[Len(audit) + 1] = e
  BY <1>1, Appended
<1>3. /\ recorded'[r]
      /\ \A q \in Requests \ {r} : recorded'[q] = recorded[q]
  BY DEF OnceInv, Kept
<1>4. /\ \A i \in 1..Len(audit) :
            /\ audit'[i].request = audit[i].request
            /\ audit[i].request \in Requests \ {r}
      /\ audit'[Len(audit) + 1].request = r
  BY <1>2 DEF OnceInv, Listed
<1>5. \A i \in 1..Len(audit') : i \in 1..Len(audit) \/ i = Len(audit) + 1
  BY <1>2
<1>6. \A i \in 1..Len(audit') : /\ audit'[i].request \in Requests
                                /\ recorded'[audit'[i].request]
  BY <1>3, <1>4, <1>5 DEF OnceInv, Listed
<1>7. ASSUME NEW q \in Requests, recorded'[q]
      PROVE  \E i \in 1..Len(audit') : audit'[i].request = q
  <2>1. CASE q = r
    BY <1>2, <1>4, <2>1
  <2>2. CASE q # r
    <3>1. PICK i \in 1..Len(audit) : audit[i].request = q
      BY <1>3, <1>7, <2>2 DEF OnceInv, Listed
    <3>2. QED  BY <1>2, <1>4, <3>1
  <2>3. QED  BY <2>1, <2>2
<1>8. \A i, j \in 1..Len(audit') :
         audit'[i].request = audit'[j].request => i = j
  BY <1>4, <1>5 DEF OnceInv, Listed
<1>9. QED  BY <1>2, <1>6, <1>7, <1>8 DEF Listed

LEMMA OnceServed ==
    ASSUME OnceInv, NEW r \in Requests,
           \/ Ends(r) \/ Continues(r)
           \/ \E asked \in Asked : Resolves(r, asked)
    PROVE  OnceInv'
<1> USE DEF auditVars
<1>1. CASE Ends(r)
  <2>1. PICK how \in Results \ {"GOVERNANCE_POLICY_DENIED"} :
           \E id : End(r, how, id) /\ UNCHANGED auditVars
    BY <1>1 DEF Ends
  <2>2. Kept'
    BY <2>1 DEF End, OnceInv, Kept
  <2>3. Due'
    BY <2>1 DEF End, OnceInv, Kept, Due, NoRequest
  <2>4. QED  BY <2>1, <2>2, <2>3, LogUntouched DEF OnceInv
<1>2. CASE Continues(r)
  <2>1. Kept'
    BY <1>2 DEF Continues, OnceInv, Kept
  <2>2. Due'
    BY <1>2 DEF Continues, OnceInv, Kept, Due
  <2>3. QED  BY <1>2, <2>1, <2>2, LogUntouched DEF Continues, OnceInv
<1>3. CASE \E asked \in Asked : Resolves(r, asked)
  <2>1. PICK asked \in Asked : Resolves(r, asked)
    BY <1>3
  <2>2. /\ Listed' /\ (\E S : audit' \in Seq(S))
        /\ recorded' \in [Requests -> BOOLEAN]
        /\ recorded'[r] = (asked.tenant # NoTenant)
        /\ \A q \in Requests \ {r} : recorded'[q] = recorded[q]
    <3>1. CASE /\ asked.tenant = NoTenant \/ recorded[r]
               /\ UNCHANGED auditVars
      <4>1. recorded[r] = (asked.tenant # NoTenant)
        BY <2>1, <3>1 DEF Resolves, OnceInv, Kept, Due
      <4>2. QED  BY <3>1, <4>1, LogUntouched DEF OnceInv, Kept
    <3>2. CASE /\ asked.tenant # NoTenant /\ ~recorded[r]
               /\ audit' = Append(audit, Reference(r, asked,
                     Resolve(asked.tenant, asked.context, asked.excluded)))
               /\ recorded' = [recorded EXCEPT ![r] = TRUE]
      <4>1. PICK e : e = Reference(r, asked,
                     Resolve(asked.tenant, asked.context, asked.excluded))
        OBVIOUS
      <4>2. e.request = r
        BY <4>1 DEF Reference
      <4>3. Listed' /\ (\E S : audit' \in Seq(S))
        BY <3>2, <4>1, <4>2, LogGrows
      <4>4. QED  BY <3>2, <4>3 DEF OnceInv, Kept
    <3>3. QED  BY <2>1, <3>1, <3>2 DEF Resolves
  <2>3. CASE End(r, "GOVERNANCE_POLICY_DENIED", NoProvider)
             /\ asked.tenant # NoTenant
    <3>1. Kept'
      BY <2>2, <2>3 DEF End, OnceInv, Kept
    <3>2. Due'
      BY <2>2, <2>3 DEF End, OnceInv, Kept, Due, NoRequest
    <3>3. QED  BY <2>2, <3>1, <3>2 DEF OnceInv
  <2>4. CASE /\ stage' = [stage EXCEPT ![r] = "router"]
             /\ request' = [request EXCEPT ![r] = asked]
             /\ UNCHANGED result
    <3>1. Kept'
      BY <2>2, <2>4 DEF OnceInv, Kept
    <3>2. result[r] = "GOVERNANCE_POLICY_DENIED" => asked.tenant # NoTenant
      BY <2>1 DEF Resolves, OnceInv, Due
    <3>3. Due'
      BY <2>2, <2>4, <3>2 DEF OnceInv, Kept, Due
    <3>4. QED  BY <2>2, <3>1, <3>3 DEF OnceInv
  <2>5. QED  BY <2>1, <2>3, <2>4 DEF Resolves
<1>4. QED  BY <1>1, <1>2, <1>3

LEMMA OnceStep ==
    ASSUME OnceInv, [Next]_vars
    PROVE  OnceInv'
<1>1. CASE UNCHANGED vars
  BY <1>1 DEF vars, OnceInv, Kept, Listed, Due
<1>2. CASE \E t \in Tenants : Administer(t)
  <2>1. UNCHANGED <<audit, stage, request, recorded, result>>
    BY <1>2 DEF Administer, CreatePolicy, ActivatePolicy, UpdateGovernance
  <2>2. QED  BY <2>1 DEF OnceInv, Kept, Listed, Due
<1>3. CASE \E r \in Requests : Serve(r)
  BY <1>3, Served, OnceServed DEF OnceInv
<1>4. QED  BY <1>1, <1>2, <1>3 DEF Next

LEMMA OnceInit == Init => OnceInv
<1> SUFFICES ASSUME Init PROVE OnceInv
  OBVIOUS
<1>1. Kept
  BY DEF Init, Kept
<1>2. Listed
  BY DEF Init, Listed
<1>3. Due
  BY DEF Init, Due, NoRequest
<1>4. QED  BY <1>1, <1>2, <1>3 DEF OnceInv

\* Every V2 request that was given candidates, or denied for having none, has
\* exactly one audit reference however many rounds it took; a V1 request has
\* none.
THEOREM RequestsAuditedOnce == Spec => []AuditedOnce
<1>1. OnceInv /\ [Next]_vars => OnceInv'
  BY OnceStep
<1>2. OnceInv => AuditedOnce
  <2> SUFFICES ASSUME OnceInv, NEW r \in Requests
               PROVE
                 LET references == {i \in 1..Len(audit) : audit[i].request = r}
                 IN  /\ Cardinality(references) <= 1
                     /\ \/ request[r].tenant # NoTenant
                        \/ result[r] = "GOVERNANCE_POLICY_DENIED"
                        => references # {}
                     /\ /\ stage[r] \in {"router", "provider"}
                        /\ request[r].tenant = NoTenant
                        => references = {}
    BY DEF AuditedOnce
  <2> DEFINE references == {i \in 1..Len(audit) : audit[i].request = r}
  <2>1. recorded[r] <=> references # {}
    BY DEF OnceInv, Listed
  <2>2. \A i \in references : references = {i}
    BY DEF OnceInv, Listed
  <2> HIDE DEF references
  <2>3. Cardinality(references) <= 1
    <3>1. CASE references = {}
      BY <3>1, FS_EmptySet, 0 <= 1, Zenon
    <3>2. CASE references # {}
      <4>1. PICK i : references = {i}
        BY <2>2, <3>2
      <4>2. Cardinality(references) = 1
        BY <4>1, FS_Singleton, Zenon
      <4>3. QED  BY <4>2
    <3>3. QED  BY <3>1, <3>2
  <2>4. /\ \/ request[r].tenant # NoTenant
           \/ result[r] = "GOVERNANCE_POLICY_DENIED"
           => references # {}
        /\ /\ stage[r] \in {"router", "provider"}
           /\ request[r].tenant = NoTenant
           => references = {}
    BY <2>1 DEF OnceInv, Due
  <2>5. QED  BY <2>3, <2>4 DEF references
<1>3. QED  BY <1>1, <1>2, OnceInit, PTL DEF Spec

-----------------------------------------------------------------------------
(* References stay reproducible.                                           *)

\* A version that is stored keeps its place and its content.
VersionsStay ==
    /\ \A t \in Tenants, id \in PolicyIds :
          /\ Len(policies'[t][id]) >= Len(policies[t][id])
          /\ \A v \in 1..Len(policies[t][id]) :
                policies'[t][id][v] = policies[t][id][v]
    /\ \A t \in Tenants :
          /\ Len(governance'[t]) >= Len(governance[t])
          /\ governance[t] # << >> => governance'[t] # << >>
          /\ \A v \in 1..Len(governance[t]) : governance'[t][v] = governance[t][v]

LEMMA LenOfVersions ==
    ASSUME AdminTyped
    PROVE  /\ \A t \in Tenants : Len(governance[t]) \in Nat
           /\ \A t \in Tenants, id \in PolicyIds : Len(policies[t][id]) \in Nat
  BY DEF AdminTyped

\* Administration appends versions, and points to policies that have one.
LEMMA AdminSteps ==
    ASSUME AdminTyped, NEW t \in Tenants, Administer(t)
    PROVE  AdminTyped' /\ VersionsStay /\ UNCHANGED audit
<1>1. CASE \E id \in PolicyIds, kind \in PolicyKinds, activate \in BOOLEAN :
              CreatePolicy(t, id, kind, activate)
  <2>1. PICK id \in PolicyIds, kind \in PolicyKinds, activate \in BOOLEAN :
           CreatePolicy(t, id, kind, activate)
    BY <1>1
  <2>2. PICK e \in [kind : PolicyKinds, active : BOOLEAN] :
           e = [kind |-> kind, active |-> activate]
    OBVIOUS
  <2>3. policies' = [policies EXCEPT ![t][id] = Append(@, e)]
    BY <2>1, <2>2 DEF CreatePolicy
  <2>4. PICK old \in Seq([kind : PolicyKinds, active : BOOLEAN]) :
           old = policies[t][id]
    BY DEF AdminTyped
  <2>5. PICK new \in Seq([kind : PolicyKinds, active : BOOLEAN]) :
           new = Append(old, e)
    BY AppendProperties
  <2>6. /\ Len(new) = Len(old) + 1 /\ Len(old) \in Nat /\ new # << >>
        /\ \A v \in 1..Len(old) : new[v] = old[v]
    BY <2>5, AppendProperties
  <2>7. policies' = [policies EXCEPT ![t][id] = new]
    BY <2>3, <2>4, <2>5, Zenon DEF AdminTyped
  <2>8. /\ policies'[t][id] = new
        /\ \A t2 \in Tenants, id2 \in PolicyIds :
              t2 # t \/ id2 # id => policies'[t2][id2] = policies[t2][id2]
        /\ policies' \in [Tenants -> [PolicyIds ->
                             Seq([kind : PolicyKinds, active : BOOLEAN])]]
    BY <2>7 DEF AdminTyped
  <2>9. governance' = governance /\ audit' = audit
        /\ active' = IF activate THEN [active EXCEPT ![t] = id] ELSE active
    BY <2>1 DEF CreatePolicy
  <2>10. active' \in [Tenants -> PolicyIds \cup {NoPolicy}]
    BY <2>9 DEF AdminTyped
  <2>11. ASSUME NEW t2 \in Tenants, active'[t2] # NoPolicy
         PROVE  policies'[t2][active'[t2]] # << >>
    <3>1. active'[t2] \in PolicyIds
      BY <2>10, <2>11
    <3>2. CASE t2 = t /\ active'[t2] = id
      BY <2>6, <2>8, <3>2
    <3>3. CASE ~(t2 = t /\ active'[t2] = id)
      <4>1. active'[t2] = active[t2]
        BY <2>9, <3>3 DEF AdminTyped
      <4>2. QED  BY <2>8, <2>11, <3>1, <3>3, <4>1 DEF AdminTyped
    <3>4. QED  BY <3>2, <3>3
  <2>12. AdminTyped'
    BY <2>8, <2>9, <2>10, <2>11 DEF AdminTyped
  <2>13. ASSUME NEW t2 \in Tenants, NEW id2 \in PolicyIds
         PROVE  /\ Len(policies'[t2][id2]) >= Len(policies[t2][id2])
                /\ \A v \in 1..Len(policies[t2][id2]) :
                      policies'[t2][id2][v] = policies[t2][id2][v]
    <3>1. CASE t2 = t /\ id2 = id
      BY <2>4, <2>6, <2>8, <3>1
    <3>2. CASE t2 # t \/ id2 # id
      BY <2>8, <3>2, LenOfVersions
    <3>3. QED  BY <3>1, <3>2
  <2>14. QED  BY <2>9, <2>12, <2>13, LenOfVersions DEF VersionsStay
<1>2. CASE \E id \in PolicyIds : ActivatePolicy(t, id)
  <2>1. PICK id \in PolicyIds : ActivatePolicy(t, id)
    BY <1>2
  <2>2. AdminTyped'
    BY <2>1 DEF ActivatePolicy, AdminTyped
  <2>3. QED  BY <2>1, <2>2, LenOfVersions DEF ActivatePolicy, VersionsStay
<1>3. CASE \E rule \in GovernanceRules, activate \in BOOLEAN :
              UpdateGovernance(t, rule, activate)
  <2>1. PICK rule \in GovernanceRules, activate \in BOOLEAN :
           UpdateGovernance(t, rule, activate)
    BY <1>3
  <2>2. PICK e \in [rule : GovernanceRules, asked : BOOLEAN] :
           e = [rule |-> rule, asked |-> activate]
    OBVIOUS
  <2>3. governance' = [governance EXCEPT ![t] = Append(@, e)]
    BY <2>1, <2>2 DEF UpdateGovernance
  <2>4. PICK old \in Seq([rule : GovernanceRules, asked : BOOLEAN]) :
           old = governance[t]
    BY DEF AdminTyped
  <2>5. PICK new \in Seq([rule : GovernanceRules, asked : BOOLEAN]) :
           new = Append(old, e)
    BY AppendProperties
  <2>6. /\ Len(new) = Len(old) + 1 /\ Len(old) \in Nat /\ new # << >>
        /\ \A v \in 1..Len(old) : new[v] = old[v]
    BY <2>5, AppendProperties
  <2>7. governance' = [governance EXCEPT ![t] = new]
    BY <2>3, <2>4, <2>5, Zenon DEF AdminTyped
  <2>8. /\ governance'[t] = new
        /\ \A t2 \in Tenants \ {t} : governance'[t2] = governance[t2]
        /\ governance' \in [Tenants -> Seq([rule : GovernanceRules,
                                            asked : BOOLEAN])]
    BY <2>7 DEF AdminTyped
  <2>9. policies' = policies /\ active' = active /\ audit' = audit
    BY <2>1 DEF UpdateGovernance
  <2>10. AdminTyped'
    BY <2>8, <2>9 DEF AdminTyped
  <2>11. ASSUME NEW t2 \in Tenants
         PROVE  /\ Len(governance'[t2]) >= Len(governance[t2])
                /\ governance[t2] # << >> => governance'[t2] # << >>
                /\ \A v \in 1..Len(governance[t2]) :
                      governance'[t2][v] = governance[t2][v]
    <3>1. CASE t2 = t
      BY <2>4, <2>6, <2>8, <3>1
    <3>2. CASE t2 # t
      BY <2>8, <3>2, LenOfVersions
    <3>3. QED  BY <3>1, <3>2
  <2>12. QED  BY <2>9, <2>10, <2>11, LenOfVersions DEF VersionsStay
<1>4. QED  BY <1>1, <1>2, <1>3 DEF Administer

\* The same for the list of one policy or of governance: an empty list was
\* empty before.
LEMMA ListsGrow ==
    ASSUME AdminTyped, VersionsStay, NEW t \in Tenants
    PROVE  /\ governance'[t] = << >> => governance[t] = << >>
           /\ \A id \in PolicyIds : policies'[t][id] = << >> => policies[t][id] = << >>
<1>1. ASSUME NEW id \in PolicyIds, policies'[t][id] = << >>
      PROVE  policies[t][id] = << >>
  <2>1. PICK list \in Seq([kind : PolicyKinds, active : BOOLEAN]) :
           list = policies[t][id]
    BY DEF AdminTyped
  <2>2. Len(policies'[t][id]) = 0
    BY <1>1, EmptySeq
  <2>3. Len(list) \in Nat /\ 0 >= Len(list)
    BY <2>1, <2>2, LenProperties DEF VersionsStay
  <2>4. QED  BY <2>1, <2>3, EmptySeq
<1>2. QED  BY <1>1 DEF VersionsStay

\* A reference that can be read back, as long as its numbers are its own.
Readable(a) == NumberTaken(a) \/ Reproduces(a)

\* So a reference whose versions exist evaluates as it did.
LEMMA ReferenceStays ==
    ASSUME AdminTyped, VersionsStay, NEW a, Named(a), Readable(a)
    PROVE  Named(a)' /\ Readable(a)'
<1>1. PICK t, id, pv, gv : /\ t = a.tenant /\ id = a.resolved.policy_id
                           /\ pv = a.resolved.policy_version
                           /\ gv = a.resolved.governance_version
  OBVIOUS
<1>2. t \in Tenants /\ id \in PolicyIds
  BY <1>1 DEF Named
<1>3. a.policy_stored => /\ pv \in 1..Len(policies[t][id])
                         /\ pv \in 1..Len(policies'[t][id])
                         /\ policies'[t][id][pv] = policies[t][id][pv]
  <2>1. a.policy_stored => /\ Len(policies'[t][id]) >= Len(policies[t][id])
                           /\ pv \in 1..Len(policies[t][id])
                           /\ Len(policies[t][id]) \in Nat
    BY <1>1, <1>2, LenOfVersions DEF Named, VersionsStay
  <2>2. QED  BY <1>2, <2>1 DEF VersionsStay
<1>4. a.governance_stored =>
         /\ governance[t] # << >> /\ governance'[t] # << >>
         /\ gv \in 1..Len(governance'[t])
         /\ governance'[t][gv] = governance[t][gv]
  <2>1. a.governance_stored =>
           /\ gv \in 1..Len(governance[t]) /\ governance[t] # << >>
           /\ Len(governance[t]) \in Nat
           /\ Len(governance'[t]) >= Len(governance[t])
    BY <1>1, <1>2, LenOfVersions DEF Named, VersionsStay
  <2>2. QED  BY <1>2, <2>1 DEF VersionsStay
<1>5. Named(a)'
  BY <1>1, <1>2, <1>3, <1>4 DEF Named
<1>6. CASE NumberTaken(a)'
  BY <1>5, <1>6 DEF Readable
<1>7. CASE ~NumberTaken(a)'
  <2>1. /\ ~a.policy_stored => policies[t][id] = << >> /\ policies'[t][id] = << >>
        /\ ~a.governance_stored => governance[t] = << >> /\ governance'[t] = << >>
    BY <1>1, <1>2, <1>7, ListsGrow DEF NumberTaken
  <2>2. Reproduces(a)
    BY <1>1, <2>1 DEF Readable, NumberTaken
  <2>3. PICK rule, kind : rule = Rule(governance[t], gv) /\ kind = KindOf(t, id, pv)
    OBVIOUS
  <2>4. Rule(governance[t], gv)' = rule
    BY <1>4, <2>1, <2>3 DEF Rule
  <2>5. KindOf(t, id, pv)' = kind
    <3>1. CASE a.policy_stored
      BY <1>3, <2>3, <3>1 DEF KindOf
    <3>2. CASE ~a.policy_stored
      <4>1. 1..Len(policies[t][id]) = {} /\ 1..Len(policies'[t][id]) = {}
        BY <2>1, <3>2, EmptySeq
      <4>2. QED  BY <2>3, <4>1 DEF KindOf
    <3>3. QED  BY <3>1, <3>2
  <2>6. /\ a.resolved.providers
              = CandidateProviders(rule, kind, a.context, a.excluded)
        /\ a.resolved.exclusions =
              ToSet(Registry!AvailableForRouter(a.excluded))
                 \ ToSet(CandidateProviders(rule, kind, a.context, a.excluded))
    BY <1>1, <2>2, <2>3, Zenon DEF Reproduces
  <2>7. Reproduces(a)'
    BY <1>1, <2>4, <2>5, <2>6, Zenon DEF Reproduces
  <2>8. QED  BY <1>5, <2>7 DEF Readable
<1>8. QED  BY <1>5, <1>6, <1>7

\* A new reference records what was just evaluated, from the versions in
\* force.
LEMMA ReferenceMade ==
    ASSUME AdminTyped, NEW r \in Requests, NEW asked \in Asked,
           asked.tenant # NoTenant, ~PolicyMissing(asked.tenant, asked.context),
           NEW e, e = Reference(r, asked,
                        Resolve(asked.tenant, asked.context, asked.excluded))
    PROVE  Named(e) /\ Readable(e)
<1>1. PICK t, context, excluded, named, policy :
         /\ t = asked.tenant /\ context = asked.context
         /\ excluded = asked.excluded /\ named = PolicyFor(t, context)
         /\ policy = PolicyInForce(t, context)
  OBVIOUS
<1>2. t \in Tenants /\ context.policy_id \in PolicyIds \cup {NoPolicy}
  BY <1>1, ControlPlaneAssumption DEF Asked
<1>3. /\ named \in PolicyIds \cup {NoPolicy}
      /\ named # NoPolicy => policies[t][named] # << >>
  BY <1>1, <1>2 DEF PolicyFor, PolicyMissing, AdminTyped
<1>4. PICK id, pv, gv : /\ id = policy.policy_id /\ pv = policy.version
                        /\ gv = GovernanceVersion(governance[t])
  OBVIOUS
\* The built-in is read back as long as nothing is stored under its id.
<1>5. /\ id \in PolicyIds
      /\ named # NoPolicy => pv \in 1..Len(policies[t][id])
      /\ named # NoPolicy \/ policies[t][id] = << >> =>
            policy.kind = KindOf(t, id, pv)
  <2>1. CASE named # NoPolicy
    <3>1. /\ id = named /\ pv = Len(policies[t][id])
          /\ policy.kind = policies[t][id][pv].kind
      BY <1>1, <1>4, <2>1 DEF PolicyInForce, Latest
    <3>2. pv \in 1..Len(policies[t][id])
      BY <1>2, <1>3, <2>1, <3>1 DEF AdminTyped
    <3>3. QED  BY <3>1, <3>2, <1>3, <2>1 DEF KindOf
  <2>2. CASE named = NoPolicy
    <3>1. id = LegacyBalanced /\ policy.kind = "legacy-balanced"
      BY <1>1, <1>4, <2>2 DEF PolicyInForce, BuiltIn
    <3>2. policies[t][id] = << >> => KindOf(t, id, pv) = "legacy-balanced"
      <4>1. policies[t][id] = << >> => 1..Len(policies[t][id]) = {}
        BY EmptySeq
      <4>2. QED  BY <4>1 DEF KindOf
    <3>3. QED  BY <3>1, <3>2, <2>2, ControlPlaneAssumption
  <2>3. QED  BY <1>3, <2>1, <2>2
<1>6. governance[t] # << >> => gv \in 1..Len(governance[t])
  BY <1>2, <1>4 DEF GovernanceVersion, AdminTyped
<1>7. PICK kept : kept = CandidateProviders(Rule(governance[t], gv),
                            policy.kind, context, excluded)
  OBVIOUS
<1>8. PICK resolved : resolved = Resolve(t, context, excluded)
  OBVIOUS
<1>9. /\ resolved.policy_id = id /\ resolved.policy_version = pv
      /\ resolved.governance_version = gv /\ resolved.providers = kept
      /\ resolved.exclusions = ToSet(Registry!AvailableForRouter(excluded))
                                  \ ToSet(kept)
  BY <1>1, <1>4, <1>7, <1>8 DEF Resolve
<1>10. e = [request |-> r, tenant |-> t, resolved |-> resolved,
            context |-> context, excluded |-> excluded,
            policy_stored |-> named # NoPolicy,
            governance_stored |-> governance[t] # << >>]
  BY <1>1, <1>8, Zenon DEF Reference
<1>11. /\ e.tenant = t /\ e.resolved = resolved /\ e.context = context
       /\ e.excluded = excluded
       /\ e.policy_stored = (named # NoPolicy)
       /\ e.governance_stored = (governance[t] # << >>)
  BY <1>10
<1>12. Named(e)
  BY <1>2, <1>5, <1>6, <1>9, <1>11 DEF Named
<1>13. CASE NumberTaken(e)
  BY <1>12, <1>13 DEF Readable
<1>14. CASE ~NumberTaken(e)
  <2>1. policy.kind = KindOf(t, id, pv)
    BY <1>5, <1>9, <1>11, <1>14 DEF NumberTaken
  <2>2. Reproduces(e)
    BY <1>7, <1>9, <1>11, <2>1, Zenon DEF Reproduces
  <2>3. QED  BY <1>12, <2>2 DEF Readable
<1>15. QED  BY <1>13, <1>14

AllReadable == \A i \in 1..Len(audit) : Readable(audit[i])

LEMMA AllReadableMeans == AuditReproducible <=> AllReadable
  BY DEF AuditReproducible, AllReadable, Readable

\* What a reference names and evaluates to depends on the repositories only.
LEMMA ReferenceUntouched ==
    ASSUME UNCHANGED adminVars, NEW a, Named(a), Readable(a)
    PROVE  Named(a)' /\ Readable(a)'
  BY DEF Named, Readable, NumberTaken, Reproduces, adminVars, KindOf

LEMMA ReferencesStep ==
    ASSUME OnceInv, AdminTyped, AllNamed, AllReadable, [Next]_vars
    PROVE  AdminTyped' /\ AllNamed' /\ AllReadable'
<1> SUFFICES AdminTyped' /\ \A i \in 1..Len(audit') : /\ Named(audit[i])'
                                                      /\ Readable(audit[i])'
  BY DEF AllNamed, AllReadable
<1>1. \A i \in 1..Len(audit) : Named(audit[i]) /\ Readable(audit[i])
  BY DEF AllNamed, AllReadable
<1>2. CASE UNCHANGED vars
  <2>1. AdminTyped' /\ UNCHANGED adminVars /\ audit' = audit
    BY <1>2 DEF vars, adminVars, AdminTyped
  <2>2. ASSUME NEW i \in 1..Len(audit)
        PROVE  Named(audit[i])' /\ Readable(audit[i])'
    <3>1. PICK a : a = audit[i] /\ a = audit'[i]
      BY <2>1
    <3>2. Named(a) /\ Readable(a)
      BY <1>1, <3>1
    <3>3. Named(a)' /\ Readable(a)'
      BY <2>1, <3>2, ReferenceUntouched
    <3>4. QED  BY <3>1, <3>3 DEF Named, Readable, NumberTaken, Reproduces
  <2>3. QED  BY <2>1, <2>2
<1>3. CASE \E t \in Tenants : Administer(t)
  <2>1. AdminTyped' /\ VersionsStay /\ audit' = audit
    BY <1>3, AdminSteps
  <2>2. ASSUME NEW i \in 1..Len(audit)
        PROVE  Named(audit[i])' /\ Readable(audit[i])'
    <3>1. PICK a : a = audit[i] /\ a = audit'[i]
      BY <2>1
    <3>2. Named(a) /\ Readable(a)
      BY <1>1, <3>1
    <3>3. Named(a)' /\ Readable(a)'
      BY <2>1, <3>2, ReferenceStays
    <3>4. QED  BY <3>1, <3>3 DEF Named, Readable, NumberTaken, Reproduces
  <2>3. QED  BY <2>1, <2>2
<1>4. CASE \E r \in Requests : Serve(r)
  <2>1. PICK r \in Requests : Serve(r)
    BY <1>4
  <2>2. /\ Ends(r) \/ Continues(r) \/ \E asked \in Asked : Resolves(r, asked)
        /\ UNCHANGED adminVars
    BY <2>1, Served DEF OnceInv
  <2>3. AdminTyped'
    BY <2>2 DEF AdminTyped, adminVars
  <2>4. CASE audit' = audit
    <3>1. ASSUME NEW i \in 1..Len(audit)
          PROVE  Named(audit[i])' /\ Readable(audit[i])'
      <4>1. PICK a : a = audit[i] /\ a = audit'[i]
        BY <2>4
      <4>2. Named(a) /\ Readable(a)
        BY <1>1, <4>1
      <4>3. Named(a)' /\ Readable(a)'
        BY <2>2, <4>2, ReferenceUntouched
      <4>4. QED  BY <4>1, <4>3 DEF Named, Readable, NumberTaken, Reproduces
    <3>2. QED  BY <2>3, <2>4, <3>1
  <2>5. CASE audit' # audit
    <3>1. PICK asked \in Asked : Resolves(r, asked)
      BY <2>2, <2>5 DEF Ends, Continues, auditVars
    <3>2. PICK e : e = Reference(r, asked,
                         Resolve(asked.tenant, asked.context, asked.excluded))
      OBVIOUS
    <3>3. audit' = Append(audit, e) /\ Named(e) /\ Readable(e)
      BY <2>5, <3>1, <3>2, ReferenceMade DEF Resolves, auditVars
    <3>4. PICK S : audit \in Seq(S)
      BY DEF OnceInv, Kept
    <3>5. /\ Len(audit) \in Nat /\ Len(audit') = Len(audit) + 1
          /\ \A i \in 1..Len(audit) : audit'[i] = audit[i]
          /\ audit'[Len(audit) + 1] = e
      BY <3>3, <3>4, Appended
    <3>6. ASSUME NEW i \in 1..Len(audit')
          PROVE  Named(audit[i])' /\ Readable(audit[i])'
      <4>1. PICK a : a = audit'[i]
        OBVIOUS
      <4>2. i \in 1..Len(audit) \/ i = Len(audit) + 1
        BY <3>5
      <4>3. Named(a) /\ Readable(a)
        BY <1>1, <3>3, <3>5, <4>1, <4>2, Zenon
      <4>4. Named(a)' /\ Readable(a)'
        BY <2>2, <4>3, ReferenceUntouched
      <4>5. QED  BY <4>1, <4>4 DEF Named, Readable, NumberTaken, Reproduces
    <3>7. QED  BY <2>3, <3>6
  <2>6. QED  BY <2>4, <2>5
<1>5. QED  BY <1>2, <1>3, <1>4 DEF Next

\* An audit reference can be checked for good: evaluated again at any later
\* time, the versions that it names give the candidates and the exclusions
\* that it records, unless it names an implicit version 1 whose number a
\* stored version has taken.
THEOREM ReferencesReproduce == Spec => []AuditReproducible
<1>1. Init => AuditInv
  <2> SUFFICES ASSUME Init PROVE AuditInv
    OBVIOUS
  <2>1. AdminTyped
    BY DEF Init, AdminTyped
  <2>2. AllNamed /\ AllReadable
    BY DEF Init, AllNamed, AllReadable
  <2>3. QED  BY <2>1, <2>2, OnceInit, AllReadableMeans DEF AuditInv
<1>2. AuditInv /\ [Next]_vars => AuditInv'
  <2>1. AuditReproducible' <=> AllReadable'
    BY AllReadableMeans, PTL
  <2>2. QED
    BY <2>1, OnceStep, ReferencesStep, AllReadableMeans DEF AuditInv
<1>3. AuditInv => AuditReproducible
  BY DEF AuditInv
<1>4. QED  BY <1>1, <1>2, <1>3, PTL DEF Spec

-----------------------------------------------------------------------------
(* What a request resolved is governed by a version that was in force.     *)

\* The rule that a history of governance starts with at version v.
InForce(t, v) == IF v = 0 THEN NoRule ELSE governance[t][v].rule

\* The types of what a request holds.
RequestTyped ==
    /\ stage \in [Requests -> {"new", "router", "provider", "done"}]
    /\ request \in [Requests -> Asked]
    /\ DOMAIN candidate_set = Requests
    /\ rounds \in [Requests -> 0..MaxRounds]
    /\ queue \in [Requests -> Seq(Providers)]
    /\ \A r \in Requests : stage[r] = "provider" => queue[r] # << >>
    /\ result \in [Requests -> Results]
    /\ answered \in [Requests -> Providers \cup {NoProvider}]
    /\ \A r \in Requests : result[r] = "ANSWER" <=> answered[r] # NoProvider
    /\ since \in [Requests -> 0..MaxVersions]

\* The candidates of a V2 request are what the governance in force when its
\* round began lets through, and what is left to try is of them.
LetThrough(rule, context, excluded) ==
    {id \in ToSet(Registry!AvailableForRouter(excluded)) :
        Eligible(rule, context, id)}

Governed ==
    \A r \in Requests :
        stage[r] \in {"router", "provider"} =>
            /\ Allowed(candidate_set[r].providers, request[r].excluded)
            /\ stage[r] = "provider" =>
                  queue[r] \in Seq(ToSet(candidate_set[r].providers))
            /\ request[r].tenant # NoTenant =>
                  /\ since[r] \in 0..Len(governance[request[r].tenant])
                  /\ ToSet(candidate_set[r].providers)
                        = LetThrough(InForce(request[r].tenant, since[r]),
                                     request[r].context, request[r].excluded)

VersionsBounded == \A t \in Tenants : Len(governance[t]) <= MaxVersions

ControlInv == OnceInv /\ AdminTyped /\ VersionsBounded /\ RequestTyped /\ Governed

\* The three things that a step of a request does: it ends, a round begins,
\* or it has providers to try.
EndsTyped(r) ==
    \E how \in Results, id \in Providers \cup {NoProvider} :
        (how = "ANSWER" <=> id # NoProvider) /\ End(r, how, id)

BeginsWith(r, asked, resolved, round, v) ==
    /\ stage' = [stage EXCEPT ![r] = "router"]
    /\ request' = [request EXCEPT ![r] = asked]
    /\ candidate_set' = [candidate_set EXCEPT ![r] = resolved]
    /\ rounds' = [rounds EXCEPT ![r] = round]
    /\ since' = [since EXCEPT ![r] = v]
    /\ UNCHANGED <<queue, result, answered>>
    /\ Allowed(resolved.providers, asked.excluded)
    /\ asked.tenant # NoTenant =>
          /\ v \in 0..Len(governance[asked.tenant])
          /\ ToSet(resolved.providers)
                = LetThrough(InForce(asked.tenant, v), asked.context,
                             asked.excluded)

Begins(r) ==
    \E asked \in Asked, round \in 0..MaxRounds, v \in 0..MaxVersions :
        \E resolved : BeginsWith(r, asked, resolved, round, v)

Tries(r) ==
    \E q \in Seq(ToSet(candidate_set[r].providers)) :
        /\ stage[r] \in {"router", "provider"} /\ q # << >>
        /\ \/ stage' = [stage EXCEPT ![r] = "provider"]
           \/ stage[r] = "provider" /\ UNCHANGED stage
        /\ queue' = [queue EXCEPT ![r] = q]
        /\ UNCHANGED <<request, candidate_set, rounds, result, answered, since>>

\* What resolve returns, by the governance version in force now.
LEMMA ResolvedNow ==
    ASSUME AdminTyped, VersionsBounded, NEW asked \in Asked,
           asked.tenant # NoTenant,
           NEW resolved,
           resolved = Resolve(asked.tenant, asked.context, asked.excluded)
    PROVE  LET v == Len(governance[asked.tenant])
           IN  /\ v \in 0..MaxVersions
               /\ Allowed(resolved.providers, asked.excluded)
               /\ ToSet(resolved.providers)
                     = LetThrough(InForce(asked.tenant, v), asked.context,
                                  asked.excluded)
<1>1. PICK t, context, excluded, versions :
         /\ t = asked.tenant /\ context = asked.context
         /\ excluded = asked.excluded /\ versions = governance[t]
  OBVIOUS
<1>2. /\ t \in Tenants
      /\ versions \in Seq([rule : GovernanceRules, asked : BOOLEAN])
      /\ Len(versions) \in 0..MaxVersions
  <2>1. t \in Tenants
    BY <1>1 DEF Asked
  <2>2. versions \in Seq([rule : GovernanceRules, asked : BOOLEAN])
    BY <1>1, <2>1 DEF AdminTyped
  <2>3. Len(versions) \in Nat /\ Len(versions) <= MaxVersions
    BY <1>1, <2>1, <2>2 DEF VersionsBounded
  <2>4. QED  BY <2>1, <2>2, <2>3, ControlPlaneAssumption
<1>3. PICK rule, kind : /\ rule = Rule(versions, GovernanceVersion(versions))
                        /\ kind = PolicyInForce(t, context).kind
  OBVIOUS
<1>4. PICK kept : kept = CandidateProviders(rule, kind, context, excluded)
  OBVIOUS
<1>5. resolved.providers = kept
  BY <1>1, <1>3, <1>4 DEF Resolve
<1>6. rule = InForce(t, Len(versions))
  <2>1. versions = << >> <=> Len(versions) = 0
    BY <1>2, EmptySeq
  <2>2. QED  BY <1>1, <1>3, <2>1 DEF Rule, GovernanceVersion, InForce
<1>7. /\ Allowed(kept, excluded)
      /\ ToSet(kept) = LetThrough(rule, context, excluded)
  BY <1>4, CandidatesKept DEF LetThrough
<1>8. QED  BY <1>1, <1>2, <1>5, <1>6, <1>7

LEMMA RoundBegins ==
    ASSUME AdminTyped, VersionsBounded, NEW r \in Requests,
           NEW asked \in Asked, NEW round \in 0..MaxRounds,
           Round(r, asked, round)
    PROVE  EndsTyped(r) \/ Begins(r)
<1>1. ASSUME NEW how \in Results \ {"ANSWER"}, End(r, how, NoProvider)
      PROVE  EndsTyped(r)
  BY <1>1 DEF EndsTyped
<1>2. CASE \/ Registry!AvailableForRouter(asked.excluded) = << >>
           \/ asked.tenant # NoTenant
              /\ PolicyMissing(asked.tenant, asked.context)
  <2>1. \E how \in {"STOP", "POLICY_NOT_FOUND"} : End(r, how, NoProvider)
    BY <1>2 DEF Round
  <2>2. QED  BY <1>1, <2>1 DEF Results
<1>3. CASE ~ \/ Registry!AvailableForRouter(asked.excluded) = << >>
             \/ asked.tenant # NoTenant
                /\ PolicyMissing(asked.tenant, asked.context)
  <2>1. PICK resolved :
           resolved = IF asked.tenant = NoTenant
                      THEN LegacyCandidates(asked.excluded)
                      ELSE Resolve(asked.tenant, asked.context, asked.excluded)
    OBVIOUS
  <2>2. PICK v : v = IF asked.tenant = NoTenant THEN 0
                     ELSE Len(governance[asked.tenant])
    OBVIOUS
  <2>3. /\ v \in 0..MaxVersions
        /\ Allowed(resolved.providers, asked.excluded)
        /\ asked.tenant # NoTenant =>
              /\ v \in 0..Len(governance[asked.tenant])
              /\ ToSet(resolved.providers)
                    = LetThrough(InForce(asked.tenant, v), asked.context,
                                 asked.excluded)
    <3>1. CASE asked.tenant = NoTenant
      <4>1. resolved.providers = Registry!AvailableForRouter(asked.excluded)
        BY <2>1, <3>1 DEF LegacyCandidates, NoCandidates
      <4>2. Allowed(resolved.providers, asked.excluded)
        BY <4>1, AvailableIs DEF Allowed
      <4>3. QED  BY <2>2, <3>1, <4>2, ControlPlaneAssumption
    <3>2. CASE asked.tenant # NoTenant
      <4>1. /\ resolved = Resolve(asked.tenant, asked.context, asked.excluded)
            /\ v = Len(governance[asked.tenant])
        BY <2>1, <2>2, <3>2
      <4>2. QED  BY <3>2, <4>1, ResolvedNow
    <3>3. QED  BY <3>1, <3>2
  <2>4. CASE resolved.providers = << >>
    <3>1. End(r, "GOVERNANCE_POLICY_DENIED", NoProvider)
      BY <1>3, <2>1, <2>4 DEF Round
    <3>2. QED  BY <1>1, <3>1 DEF Results
  <2>5. CASE resolved.providers # << >>
    <3>1. /\ stage' = [stage EXCEPT ![r] = "router"]
          /\ request' = [request EXCEPT ![r] = asked]
          /\ candidate_set' = [candidate_set EXCEPT ![r] = resolved]
          /\ rounds' = [rounds EXCEPT ![r] = round]
          /\ since' = [since EXCEPT ![r] = v]
          /\ UNCHANGED <<queue, result, answered>>
      <4>1. CASE asked.tenant = NoTenant
        <5>1. resolved = LegacyCandidates(asked.excluded) /\ v = 0
          BY <2>1, <2>2, <4>1
        <5>2. QED  BY <1>3, <2>5, <4>1, <5>1 DEF Round
      <4>2. CASE asked.tenant # NoTenant
        <5>1. /\ resolved = Resolve(asked.tenant, asked.context, asked.excluded)
              /\ v = Len(governance[asked.tenant])
          BY <2>1, <2>2, <4>2
        <5>2. QED  BY <1>3, <2>5, <4>2, <5>1 DEF Round
      <4>3. QED  BY <4>1, <4>2
    <3>2. BeginsWith(r, asked, resolved, round, v)
      BY <2>3, <3>1 DEF BeginsWith
    <3>3. v \in 0..MaxVersions
      BY <2>3
    <3>4. Begins(r)
      BY <3>2, <3>3 DEF Begins
    <3>5. QED  BY <3>4
  <2>6. QED  BY <2>4, <2>5
<1>4. QED  BY <1>2, <1>3

LEMMA ServedTyped ==
    ASSUME ControlInv, NEW r \in Requests, Serve(r)
    PROVE  (EndsTyped(r) \/ Begins(r) \/ Tries(r)) /\ UNCHANGED adminVars
<1> USE DEF ControlInv
<1>1. CASE \E asked \in Asked : Arrive(r, asked)
  <2>1. 0 \in 0..MaxRounds
    BY ControlPlaneAssumption
  <2>2. QED  BY <1>1, <2>1, RoundBegins DEF Arrive
<1>2. CASE RouterAnswers(r)
  <2>d. PICK decision \in Registry!Decisions :
           /\ decision.action = "ANSWER"
           /\ Registry!Valid(decision, Offered(r), request[r].image,
                             request[r].retry)
           /\ queue' = [queue EXCEPT ![r] =
                           Registry!CandidatesFor(
                               decision.task_group, request[r].image,
                               request[r].excluded,
                               candidate_set[r].providers,
                               request[r].tenant # NoTenant)]
    BY <1>2 DEF RouterAnswers
  <2>1. PICK q :
           /\ q = Registry!CandidatesFor(
                     decision.task_group, request[r].image,
                     request[r].excluded, candidate_set[r].providers,
                     request[r].tenant # NoTenant)
           /\ queue' = [queue EXCEPT ![r] = q]
    BY <2>d
  <2>2. /\ stage[r] = "router" /\ stage' = [stage EXCEPT ![r] = "provider"]
        /\ UNCHANGED <<adminVars, request, candidate_set, rounds, result,
                       answered, since>>
    BY <1>2 DEF RouterAnswers
  <2>3. Allowed(candidate_set[r].providers, request[r].excluded)
    BY <2>2 DEF Governed
  <2>4. decision.task_group \in
           Registry!AvailableTaskGroups(candidate_set[r].providers,
                                        request[r].image)
    BY <2>d DEF Registry!Valid, Offered
  <2>5. PICK preserve \in BOOLEAN : preserve = (request[r].tenant # NoTenant)
    OBVIOUS
  <2>6. q \in Seq(ToSet(candidate_set[r].providers)) /\ q # << >>
    BY <2>1, <2>3, <2>4, <2>5, CandidatesServe
  <2>7. Tries(r)
    BY <2>1, <2>2, <2>6 DEF Tries
  <2>8. QED  BY <2>2, <2>7
<1>3. CASE RouterRetries(r)
  <2>1. request[r] \in Asked /\ rounds[r] + 1 \in 0..MaxRounds
    BY <1>3, ControlPlaneAssumption DEF RouterRetries, RequestTyped
  <2>2. QED  BY <1>3, <2>1, RoundBegins DEF RouterRetries
<1>4. CASE RouterConcludes(r)
  BY <1>4 DEF RouterConcludes, EndsTyped, Results
<1>5. CASE ProviderFails(r)
  <2>1. UNCHANGED adminVars
    BY <1>5 DEF ProviderFails
  <2>2. CASE Len(queue[r]) > 1
    <3>1. /\ stage[r] = "provider" /\ UNCHANGED stage
          /\ queue' = [queue EXCEPT ![r] = Tail(queue[r])]
          /\ UNCHANGED <<request, candidate_set, rounds, result, answered, since>>
      BY <1>5, <2>2 DEF ProviderFails, RequestTyped
    <3>2. queue[r] \in Seq(ToSet(candidate_set[r].providers))
      BY <3>1 DEF Governed
    <3>3. PICK S, old, q :
             /\ S = ToSet(candidate_set[r].providers)
             /\ old = queue[r] /\ q = Tail(old) /\ old \in Seq(S)
      BY <3>2
    <3>4. q \in Seq(ToSet(candidate_set[r].providers)) /\ q # << >>
      <4>1. old # << >> /\ Len(old) - 1 # 0 /\ Len(old) \in Nat
        BY <2>2, <3>3, EmptySeq
      <4>2. q \in Seq(S) /\ Len(q) = Len(old) - 1
        BY <3>3, <4>1, HeadTailProperties
      <4>3. QED  BY <3>3, <4>1, <4>2
    <3>5. Tries(r)
      BY <3>1, <3>3, <3>4 DEF Tries
    <3>6. QED  BY <2>1, <3>5
  <2>3. CASE ~(Len(queue[r]) > 1)
    BY <1>5, <2>1, <2>3 DEF ProviderFails, EndsTyped, Results
  <2>4. QED  BY <2>2, <2>3
<1>6. CASE ProviderAnswers(r)
  <2>1. stage[r] = "provider" /\ End(r, "ANSWER", Head(queue[r]))
        /\ UNCHANGED adminVars
    BY <1>6 DEF ProviderAnswers
  <2>2. Head(queue[r]) \in Providers
    BY <2>1 DEF RequestTyped
  <2>3. Head(queue[r]) # NoProvider
    BY <2>2, ControlPlaneAssumption DEF NoProvider
  <2>4. QED  BY <2>1, <2>2, <2>3 DEF EndsTyped, Results
<1>7. QED  BY <1>1, <1>2, <1>3, <1>4, <1>5, <1>6 DEF Serve

\* What a request holds keeps its types.
LEMMA TypedStep ==
    ASSUME ControlInv, NEW r \in Requests,
           EndsTyped(r) \/ Begins(r) \/ Tries(r)
    PROVE  RequestTyped'
<1> USE DEF ControlInv
<1>1. CASE EndsTyped(r)
  <2>1. PICK how \in Results, id \in Providers \cup {NoProvider} :
           (how = "ANSWER" <=> id # NoProvider) /\ End(r, how, id)
    BY <1>1 DEF EndsTyped
  <2>2. /\ NoRequest \in Asked /\ 0 \in 0..MaxRounds /\ 0 \in 0..MaxVersions
        /\ << >> \in Seq(Providers)
    BY ControlPlaneAssumption DEF NoRequest, Asked
  <2>3. /\ stage' \in [Requests -> {"new", "router", "provider", "done"}]
        /\ request' \in [Requests -> Asked]
        /\ DOMAIN candidate_set' = Requests
        /\ rounds' \in [Requests -> 0..MaxRounds]
        /\ queue' \in [Requests -> Seq(Providers)]
        /\ result' \in [Requests -> Results]
        /\ answered' \in [Requests -> Providers \cup {NoProvider}]
        /\ since' \in [Requests -> 0..MaxVersions]
    BY <2>1, <2>2 DEF End, RequestTyped
  <2>4. \A q \in Requests : stage'[q] = "provider" => queue'[q] # << >>
    BY <2>1 DEF End, RequestTyped
  <2>5. \A q \in Requests : result'[q] = "ANSWER" <=> answered'[q] # NoProvider
    BY <2>1 DEF End, RequestTyped
  <2>6. QED  BY <2>3, <2>4, <2>5 DEF RequestTyped
<1>2. CASE Begins(r)
  BY <1>2 DEF Begins, BeginsWith, RequestTyped
<1>3. CASE Tries(r)
  <2>1. PICK q \in Seq(ToSet(candidate_set[r].providers)) :
           /\ stage[r] \in {"router", "provider"} /\ q # << >>
           /\ \/ stage' = [stage EXCEPT ![r] = "provider"]
              \/ stage[r] = "provider" /\ UNCHANGED stage
           /\ queue' = [queue EXCEPT ![r] = q]
           /\ UNCHANGED <<request, candidate_set, rounds, result, answered, since>>
    BY <1>3 DEF Tries
  <2>2. q \in Seq(Providers)
    <3>1. ToSet(candidate_set[r].providers) \subseteq Providers
      BY <2>1 DEF Governed, Allowed
    <3>2. QED  BY <3>1, SeqMonotonic
  <2>3. QED  BY <2>1, <2>2 DEF RequestTyped
<1>4. QED  BY <1>1, <1>2, <1>3

LEMMA GovernedStep ==
    ASSUME ControlInv, NEW r \in Requests, UNCHANGED adminVars,
           EndsTyped(r) \/ Begins(r) \/ Tries(r)
    PROVE  Governed'
<1> USE DEF ControlInv
<1>1. governance' = governance
      /\ \A t, v : InForce(t, v)' = InForce(t, v)
  BY DEF adminVars, InForce
<1>2. CASE EndsTyped(r)
  <2>1. PICK how, id : End(r, how, id)
    BY <1>2 DEF EndsTyped
  <2>2. /\ stage'[r] = "done"
        /\ \A q \in Requests \ {r} :
              /\ stage'[q] = stage[q] /\ request'[q] = request[q]
              /\ candidate_set'[q] = candidate_set[q]
              /\ queue'[q] = queue[q] /\ since'[q] = since[q]
    BY <2>1 DEF End, RequestTyped
  <2>3. QED  BY <1>1, <2>2 DEF Governed, InForce
<1>3. CASE Begins(r)
  <2>b. PICK asked \in Asked, round \in 0..MaxRounds, v \in 0..MaxVersions :
           \E resolved : BeginsWith(r, asked, resolved, round, v)
    BY <1>3 DEF Begins
  <2>1. PICK resolved : BeginsWith(r, asked, resolved, round, v)
    BY <2>b
  <2>2. /\ stage'[r] = "router" /\ request'[r] = asked
        /\ candidate_set'[r] = resolved /\ since'[r] = v
        /\ \A q \in Requests \ {r} :
              /\ stage'[q] = stage[q] /\ request'[q] = request[q]
              /\ candidate_set'[q] = candidate_set[q]
              /\ queue'[q] = queue[q] /\ since'[q] = since[q]
    BY <2>1 DEF BeginsWith, RequestTyped
  <2>3. QED  BY <1>1, <2>1, <2>2 DEF BeginsWith, Governed, InForce
<1>4. CASE Tries(r)
  <2>1. PICK q \in Seq(ToSet(candidate_set[r].providers)) :
           /\ stage[r] \in {"router", "provider"}
           /\ \/ stage' = [stage EXCEPT ![r] = "provider"]
              \/ stage[r] = "provider" /\ UNCHANGED stage
           /\ queue' = [queue EXCEPT ![r] = q]
           /\ UNCHANGED <<request, candidate_set, since>>
    BY <1>4 DEF Tries
  <2>2. /\ queue'[r] = q
        /\ \A p \in Requests \ {r} :
              stage'[p] = stage[p] /\ queue'[p] = queue[p]
    BY <2>1 DEF RequestTyped
  <2>3. QED  BY <1>1, <2>1, <2>2 DEF Governed, InForce
<1>5. QED  BY <1>2, <1>3, <1>4

\* New versions leave what was in force in its place.
LEMMA GovernedStays ==
    ASSUME ControlInv, VersionsStay,
           UNCHANGED <<stage, request, candidate_set, queue, since>>
    PROVE  Governed'
<1> USE DEF ControlInv
<1>1. ASSUME NEW r \in Requests, stage[r] \in {"router", "provider"},
             request[r].tenant # NoTenant
      PROVE  /\ since[r] \in 0..Len(governance'[request[r].tenant])
             /\ InForce(request[r].tenant, since[r])'
                   = InForce(request[r].tenant, since[r])
  <2>1. PICK t, v : t = request[r].tenant /\ v = since[r]
    OBVIOUS
  <2>2. t \in Tenants
    BY <1>1, <2>1 DEF RequestTyped, Asked
  <2>3. /\ v \in 0..Len(governance[t]) /\ Len(governance[t]) \in Nat
        /\ Len(governance'[t]) \in Nat
        /\ Len(governance'[t]) >= Len(governance[t])
    <3>1. v \in 0..Len(governance[t])
      BY <1>1, <2>1 DEF Governed
    <3>2. Len(governance[t]) \in Nat /\ Len(governance'[t]) >= Len(governance[t])
      BY <2>2, LenOfVersions DEF VersionsStay
    <3>3. QED  BY <3>1, <3>2
  <2>4. v = 0 \/ governance'[t][v] = governance[t][v]
    BY <2>2, <2>3 DEF VersionsStay
  <2>5. v \in 0..Len(governance'[t])
    BY <2>3
  <2>6. InForce(t, v)' = InForce(t, v)
    BY <2>4 DEF InForce
  <2>7. QED  BY <1>1, <2>1, <2>5, <2>6 DEF InForce
<1>2. QED  BY <1>1 DEF Governed

LEMMA ControlStep ==
    ASSUME ControlInv, [Next]_vars
    PROVE  ControlInv'
<1>1. OnceInv'
  BY OnceStep DEF ControlInv
<1>2. CASE UNCHANGED vars
  <2>1. AdminTyped' /\ VersionsBounded'
    BY <1>2 DEF vars, adminVars, ControlInv, AdminTyped, VersionsBounded
  <2>2. RequestTyped'
    BY <1>2 DEF vars, ControlInv, RequestTyped
  <2>3. Governed'
    BY <1>2 DEF vars, adminVars, ControlInv, Governed, InForce
  <2>4. QED  BY <1>1, <2>1, <2>2, <2>3 DEF ControlInv
<1>3. ASSUME NEW t \in Tenants, Administer(t)
      PROVE  ControlInv'
  <2>1. AdminTyped' /\ VersionsStay
    BY <1>3, AdminSteps DEF ControlInv
  <2>2. UNCHANGED <<stage, request, candidate_set, rounds, queue, result,
                    answered, since>>
    BY <1>3 DEF Administer, CreatePolicy, ActivatePolicy, UpdateGovernance
  <2>3. VersionsBounded'
    <3>1. CASE governance' = governance
      BY <3>1 DEF ControlInv, VersionsBounded
    <3>2. CASE governance' # governance
      <4>1. PICK rule \in GovernanceRules, activate \in BOOLEAN :
               UpdateGovernance(t, rule, activate)
        BY <1>3, <3>2 DEF Administer, CreatePolicy, ActivatePolicy
      <4>2. PICK e \in [rule : GovernanceRules, asked : BOOLEAN] :
               e = [rule |-> rule, asked |-> activate]
        OBVIOUS
      <4>3. /\ governance' = [governance EXCEPT ![t] = Append(@, e)]
            /\ Len(governance[t]) < MaxVersions
        BY <4>1, <4>2 DEF UpdateGovernance
      <4>4. governance[t] \in Seq([rule : GovernanceRules, asked : BOOLEAN])
        BY DEF ControlInv, AdminTyped
      <4>5. /\ Len(Append(governance[t], e)) = Len(governance[t]) + 1
            /\ Len(governance[t]) \in Nat
        BY <4>4, AppendProperties
      <4>6. /\ governance'[t] = Append(governance[t], e)
            /\ \A t2 \in Tenants \ {t} : governance'[t2] = governance[t2]
        BY <4>3 DEF ControlInv, AdminTyped
      <4>7. Len(governance'[t]) <= MaxVersions
        BY <4>3, <4>5, <4>6, ControlPlaneAssumption
      <4>8. QED  BY <4>6, <4>7 DEF ControlInv, VersionsBounded
    <3>3. QED  BY <3>1, <3>2
  <2>4. RequestTyped'
    BY <2>2 DEF ControlInv, RequestTyped
  <2>5. Governed'
    BY <2>1, <2>2, GovernedStays
  <2>6. QED  BY <1>1, <2>1, <2>3, <2>4, <2>5 DEF ControlInv
<1>4. ASSUME NEW r \in Requests, Serve(r)
      PROVE  ControlInv'
  <2>1. (EndsTyped(r) \/ Begins(r) \/ Tries(r)) /\ UNCHANGED adminVars
    BY <1>4, ServedTyped
  <2>2. AdminTyped' /\ VersionsBounded'
    BY <2>1 DEF adminVars, ControlInv, AdminTyped, VersionsBounded
  <2>3. RequestTyped' /\ Governed'
    BY <2>1, TypedStep, GovernedStep
  <2>4. QED  BY <1>1, <2>2, <2>3 DEF ControlInv
<1>5. QED  BY <1>2, <1>3, <1>4 DEF Next

LEMMA ControlInit == Init => ControlInv
<1> SUFFICES ASSUME Init PROVE ControlInv
  OBVIOUS
<1>1. AdminTyped /\ VersionsBounded
  BY ControlPlaneAssumption DEF Init, AdminTyped, VersionsBounded
<1>2. RequestTyped
  <2>1. /\ NoRequest \in Asked /\ 0 \in 0..MaxRounds /\ 0 \in 0..MaxVersions
    BY ControlPlaneAssumption DEF NoRequest, Asked
  <2>2. QED  BY <2>1 DEF Init, RequestTyped, Results
<1>3. Governed
  BY DEF Init, Governed
<1>4. QED  BY <1>1, <1>2, <1>3, OnceInit DEF ControlInv

LEMMA ControlStands == Spec => []ControlInv
<1>1. QED  BY ControlInit, ControlStep, PTL DEF Spec

\* The active pointer names a policy with a version, what a request tries
\* next is a list of configured providers that is not empty while it tries,
\* and it has the provider of its answer when it got one.
THEOREM TypeCorrect == Spec => []TypeOK
<1>1. ControlInv => TypeOK
  BY DEF ControlInv, AdminTyped, RequestTyped, OnceInv, Kept, TypeOK
<1>2. QED  BY <1>1, ControlStands, PTL

\* The candidates of a V2 request are all that one governance version lets
\* through, which was in force since its round began, and nothing else is
\* tried, however often governance and policies change meanwhile, for any
\* rules and any registry (CandidateSetResolver.resolve, candidates_for of
\* ModelRegistry, and _route, which keeps the result across its awaits).
THEOREM AlwaysGoverned == Spec => []GovernedSinceRound
<1>1. ControlInv => GovernedSinceRound
  <2>1. SUFFICES ASSUME ControlInv, NEW r \in Requests,
                        request[r].tenant # NoTenant,
                        stage[r] \in {"router", "provider"},
                        NEW inForce,
                        inForce = {governance[request[r].tenant][v].rule :
                              v \in (since[r]..Len(governance[request[r].tenant]))
                                       \ {0}}
                           \cup (IF since[r] = 0 THEN {NoRule} ELSE {})
                 PROVE  /\ \E rule \in inForce :
                              ToSet(candidate_set[r].providers)
                                 = LetThrough(rule, request[r].context,
                                              request[r].excluded)
                        /\ stage[r] = "provider" =>
                              ToSet(queue[r]) \subseteq
                                 ToSet(candidate_set[r].providers)
    BY Zenon DEF GovernedSinceRound, LetThrough
  <2>2. PICK t, v, q, S : /\ t = request[r].tenant /\ v = since[r]
                          /\ q = queue[r]
                          /\ S = ToSet(candidate_set[r].providers)
    OBVIOUS
  <2>3. /\ stage[r] = "provider" => q \in Seq(S)
        /\ v \in 0..Len(governance[t])
        /\ S = LetThrough(InForce(t, v), request[r].context,
                          request[r].excluded)
    BY <2>1, <2>2 DEF ControlInv, Governed
  <2>4. Len(governance[t]) \in Nat
    BY <2>1, <2>2, LenOfVersions DEF ControlInv, RequestTyped, Asked
  <2>5. InForce(t, v) \in inForce
    <3>1. CASE v = 0
      BY <2>1, <2>2, <3>1 DEF InForce
    <3>2. CASE v # 0
      <4>1. v \in (v..Len(governance[t])) \ {0}
        BY <2>3, <2>4, <3>2
      <4>2. QED  BY <2>1, <2>2, <3>2, <4>1 DEF InForce
    <3>3. QED  BY <3>1, <3>2
  <2>6. stage[r] = "provider" => ToSet(q) \subseteq S
    BY <2>3 DEF ToSet
  <2>7. QED  BY <2>2, <2>3, <2>5, <2>6
<1>2. QED  BY <1>1, ControlStands, PTL

=============================================================================
