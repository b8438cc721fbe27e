------------------------- MODULE ModelCatalogProofs -------------------------
(***************************************************************************)
(* Proofs about ModelCatalog, for any backends, configurations, catalogs   *)
(* and health reads: its types, that the server serves verified models     *)
(* only, and that a health read is honest.  The invariant behind both says *)
(* that every target is either reported, by what its backend listed, or    *)
(* its backend is pending.                                                 *)
(***************************************************************************)
EXTENDS ModelCatalog, FiniteSetTheorems, SequenceTheorems,
        WellFoundedInduction, TLAPS

-----------------------------------------------------------------------------
(* The lists of Listing.  The lemmas are those of ModelRegistryProofs,     *)
(* which say nothing of its registry: an empty one does for them.          *)

Facts == INSTANCE ModelRegistryProofs WITH
    Ids <- {}, TaskGroups <- {Google}, Multimodal <- Google, Priorities <- {},
    providers <- << >>, order <- << >>

\* The list operators mean the same there and here.
LEMMA SameLists ==
    /\ Facts!RegistryAssumption
    /\ \A s : Facts!ToSet(s) = ToSet(s)
    /\ \A f : Facts!IsInjective(f) = IsInjective(f)
    /\ \A S : Facts!Cardinality(S) = Cardinality(S)
    /\ \A S : Facts!IsFiniteSet(S) = IsFiniteSet(S)
    /\ \A S, before : Facts!Sorted(S, before) = Sorted(S, before)
    /\ \A list, kept : Facts!Filtered(list, kept) = Filtered(list, kept)
<1>1. Facts!RegistryAssumption
  BY DEF Facts!RegistryAssumption
<1>2. /\ \A s : Facts!ToSet(s) = ToSet(s)
      /\ \A f : Facts!IsInjective(f) = IsInjective(f)
  BY Zenon DEF ToSet, IsInjective, Facts!ToSet, Facts!IsInjective
<1>3. /\ \A S : Facts!Cardinality(S) = Cardinality(S)
      /\ \A S : Facts!IsFiniteSet(S) = IsFiniteSet(S)
  BY Zenon DEF Cardinality, IsFiniteSet, Facts!Cardinality, Facts!IsFiniteSet
<1>4. \A S, before : Facts!Sorted(S, before) = Sorted(S, before)
  BY Zenon DEF Sorted, Facts!Sorted, Cardinality, Facts!Cardinality
<1>5. \A list, kept : Facts!Filtered(list, kept) = Filtered(list, kept)
  BY <1>3, <1>4, Zenon DEF Filtered, Facts!Filtered
<1>6. QED  BY <1>1, <1>2, <1>3, <1>4, <1>5

\* The elements of a list are what stands at its places.
LEMMA ElementsOf ==
    ASSUME NEW X, NEW list \in Seq(X)
    PROVE  /\ Len(list) \in Nat /\ DOMAIN list = 1..Len(list)
           /\ ToSet(list) \subseteq X
           /\ \A x : x \in ToSet(list) <=> \E i \in 1..Len(list) : list[i] = x
           /\ IsFiniteSet(ToSet(list))
<1>1. /\ Len(list) \in Nat /\ DOMAIN list = 1..Len(list)
      /\ Facts!ToSet(list) \subseteq X
      /\ \A x : x \in Facts!ToSet(list) <=> \E i \in 1..Len(list) : list[i] = x
      /\ Facts!IsFiniteSet(Facts!ToSet(list))
  BY SameLists, Facts!ElementsOf, Zenon
<1>2. QED  BY <1>1, SameLists, Zenon

\* A filter keeps what it is to keep, and repeats nothing.
LEMMA FilteredKeeps ==
    ASSUME NEW X, NEW list \in Seq(X), NEW kept
    PROVE  /\ Filtered(list, kept) \in Seq(X)
           /\ ToSet(Filtered(list, kept)) = ToSet(list) \cap kept
           /\ IsInjective(list) => IsInjective(Filtered(list, kept))
<1>1. Facts!RegistryAssumption
  BY SameLists
<1>2. /\ Facts!Filtered(list, kept) \in Seq(X)
      /\ Facts!ToSet(Facts!Filtered(list, kept)) = Facts!ToSet(list) \cap kept
      /\ Facts!IsInjective(list)
         => Facts!IsInjective(Facts!Filtered(list, kept))
  BY <1>1, Facts!FilteredKeeps
<1>3. QED  BY <1>2, SameLists, Zenon

\* A sorted list has the elements of the set, each once.
LEMMA SortedLists ==
    ASSUME NEW S, IsFiniteSet(S), NEW before,
           \A x \in S : <<x, x>> \notin before,
           \A x, y, z \in S :
              <<x, y>> \in before /\ <<y, z>> \in before => <<x, z>> \in before,
           \A x, y \in S : x = y \/ <<x, y>> \in before \/ <<y, x>> \in before
    PROVE  /\ Sorted(S, before) \in Seq(S)
           /\ ToSet(Sorted(S, before)) = S
           /\ \A i, j \in 1..Len(Sorted(S, before)) :
                 Sorted(S, before)[i] = Sorted(S, before)[j] => i = j
<1>1. PICK s : s = Sorted(S, before)
  OBVIOUS
<1>2. Facts!StrictOrder(before, S) /\ Facts!IsFiniteSet(S)
  BY SameLists, Zenon DEF Facts!StrictOrder
<1>3. Facts!Lists(s, S, before)
  BY <1>1, <1>2, SameLists, Facts!SortedIs, Zenon
<1>4. /\ s \in Seq(S)
      /\ \A x \in S : \E k \in 1..Len(s) : s[k] = x
      /\ \A i, j \in 1..Len(s) : i < j => <<s[i], s[j]>> \in before
  BY <1>3 DEF Facts!Lists
<1>5. ToSet(s) = S
  <2>1. /\ ToSet(s) \subseteq S
        /\ \A x : x \in ToSet(s) <=> \E i \in 1..Len(s) : s[i] = x
    BY <1>4, ElementsOf
  <2>2. QED  BY <1>4, <2>1
<1>6. ASSUME NEW i \in 1..Len(s), NEW j \in 1..Len(s), s[i] = s[j]
      PROVE  i = j
  <2>1. s[i] \in S /\ Len(s) \in Nat
    BY <1>4
  <2>2. ~(i < j) /\ ~(j < i)
    BY <1>4, <1>6, <2>1
  <2>3. QED  BY <2>1, <2>2
<1>7. QED  BY <1>1, <1>4, <1>5, <1>6

-----------------------------------------------------------------------------
(* The targets and their backends.                                         *)

\* A name is one target's.
LEMMA TargetsNamed ==
    ASSUME targets \in Configurations
    PROVE  /\ targets \in Seq(ModelVerificationTarget)
           /\ IsInjective(targets)
           /\ \A t, u \in ToSet(targets) : t.name = u.name => t = u
<1>1. /\ targets \in Seq(ModelVerificationTarget)
      /\ \A i, j \in DOMAIN targets : targets[i].name = targets[j].name => i = j
  BY CatalogAssumption
<1>2. IsInjective(targets)
  BY <1>1 DEF IsInjective
<1>3. \A t \in ToSet(targets) : \E i \in DOMAIN targets : targets[i] = t
  BY <1>1, ElementsOf
<1>4. QED  BY <1>1, <1>2, <1>3

LEMMA RelevantIs ==
    ASSUME targets \in Configurations, NEW r
    PROVE  /\ Relevant(r) \in Seq(ModelVerificationTarget)
           /\ ToSet(Relevant(r)) =
                 {t \in ToSet(targets) : r \in {"all", t.role}}
           /\ IsInjective(Relevant(r))
<1>1. PICK kept : kept = {t \in ToSet(targets) : r \in {"all", t.role}}
  OBVIOUS
<1>2. Relevant(r) = Filtered(targets, kept)
  BY <1>1 DEF Relevant
<1>3. QED  BY <1>1, <1>2, TargetsNamed, FilteredKeeps

LEMMA TargetsOfIs ==
    ASSUME targets \in Configurations, NEW op, NEW backend
    PROVE  /\ TargetsOf(op, backend) \in Seq(ModelVerificationTarget)
           /\ ToSet(TargetsOf(op, backend)) =
                 {t \in ToSet(Relevant(role[op])) : t.backend = backend}
           /\ IsInjective(TargetsOf(op, backend))
<1>1. PICK kept : kept = {t \in ToSet(targets) : t.backend = backend}
  OBVIOUS
<1>2. TargetsOf(op, backend) = Filtered(Relevant(role[op]), kept)
  BY <1>1 DEF TargetsOf
<1>3. /\ Relevant(role[op]) \in Seq(ModelVerificationTarget)
      /\ ToSet(Relevant(role[op])) \subseteq ToSet(targets)
      /\ IsInjective(Relevant(role[op]))
  BY RelevantIs
<1>4. QED  BY <1>1, <1>2, <1>3, FilteredKeeps

\* Some places of a list have a first one.
LEMMA FirstPlace ==
    ASSUME NEW places \in SUBSET Nat, places # {}
    PROVE  \E first \in places : \A i \in places : first <= i
<1>1. PICK least \in places :
         \A other \in places : ~(<<other, least>> \in OpToRel(<, Nat))
  BY WFMin, NatLessThanWellFounded
<1>2. \A other \in places : ~(other < least)
  BY <1>1 DEF OpToRel
<1>3. QED  BY <1>2

\* The backends are those of the relevant targets, each once.
LEMMA BackendsOfIs ==
    ASSUME targets \in Configurations, NEW r
    PROVE  /\ BackendsOf(r) \in Seq(Backends)
           /\ ToSet(BackendsOf(r)) = {t.backend : t \in ToSet(Relevant(r))}
           /\ \A i, j \in 1..Len(BackendsOf(r)) :
                 BackendsOf(r)[i] = BackendsOf(r)[j] => i = j
<1>1. PICK group \in Seq(ModelVerificationTarget) : group = Relevant(r)
  BY RelevantIs
<1>2. PICK backends : backends = {group[i].backend : i \in 1..Len(group)}
  OBVIOUS
<1>3. PICK before : before =
         {pair \in backends \X backends : \E i \in 1..Len(group) :
             /\ group[i].backend = pair[1]
             /\ \A j \in 1..i : group[j].backend # pair[2]}
  OBVIOUS
<1>4. BackendsOf(r) = Sorted(backends, before)
  BY <1>1, <1>2, <1>3 DEF BackendsOf
<1>5. /\ Len(group) \in Nat
      /\ \A i \in 1..Len(group) : group[i] \in ModelVerificationTarget
  BY <1>1
<1>6. /\ backends = {t.backend : t \in ToSet(group)}
      /\ backends \subseteq Backends /\ IsFiniteSet(backends)
  <2>1. /\ \A x : x \in ToSet(group) <=> \E i \in 1..Len(group) : group[i] = x
        /\ IsFiniteSet(ToSet(group))
    BY <1>1, ElementsOf
  <2>2. backends = {t.backend : t \in ToSet(group)}
    BY <1>2, <2>1
  <2>3. backends \subseteq Backends
    BY <1>2, <1>5 DEF ModelVerificationTarget
  <2>4. PICK f : f = [t \in ToSet(group) |-> t.backend]
    OBVIOUS
  <2>5. f \in Surjection(ToSet(group), backends)
    BY <2>2, <2>4 DEF Surjection
  <2>6. QED  BY <2>1, <2>2, <2>3, <2>5, FS_Surjection
<1>7. \A b, c \in backends : <<b, c>> \in before <=>
         \E i \in 1..Len(group) : /\ group[i].backend = b
                                  /\ \A j \in 1..i : group[j].backend # c
  BY <1>3
<1>8. \A b \in backends : <<b, b>> \notin before
  <2>1. \A i \in 1..Len(group) : i \in 1..i
    BY <1>5
  <2>2. QED  BY <1>7, <2>1
<1>9. ASSUME NEW b \in backends, NEW c \in backends, NEW d \in backends,
             <<b, c>> \in before, <<c, d>> \in before
      PROVE  <<b, d>> \in before
  <2>1. PICK i \in 1..Len(group) : /\ group[i].backend = b
                                   /\ \A j \in 1..i : group[j].backend # c
    BY <1>7, <1>9
  <2>2. PICK k \in 1..Len(group) : /\ group[k].backend = c
                                   /\ \A j \in 1..k : group[j].backend # d
    BY <1>7, <1>9
  <2>3. i < k
    BY <1>5, <2>1, <2>2
  <2>4. \A j \in 1..i : j \in 1..k
    BY <1>5, <2>3
  <2>5. QED  BY <1>7, <2>1, <2>2, <2>4
<1>10. ASSUME NEW b \in backends, NEW c \in backends, b # c
       PROVE  <<b, c>> \in before \/ <<c, b>> \in before
  <2>1. PICK places : places = {i \in 1..Len(group) : group[i].backend \in {b, c}}
    OBVIOUS
  <2>2. places # {} /\ places \in SUBSET Nat
    BY <1>2, <1>5, <2>1
  <2>3. PICK first \in places : \A i \in places : first <= i
    BY <2>2, FirstPlace
  <2>4. first \in 1..Len(group) /\ group[first].backend \in {b, c}
    BY <2>1
  <2>5. ASSUME NEW j \in 1..first, j # first
        PROVE  group[j].backend \notin {b, c}
    <3>1. j \in 1..Len(group) /\ ~(first <= j)
      BY <1>5, <2>4, <2>5
    <3>2. QED  BY <2>1, <2>3, <3>1
  <2>6. CASE group[first].backend = b
    <3>1. \A j \in 1..first : group[j].backend # c
      BY <1>10, <2>5, <2>6
    <3>2. QED  BY <1>7, <2>4, <2>6, <3>1
  <2>7. CASE group[first].backend = c
    <3>1. \A j \in 1..first : group[j].backend # b
      BY <1>10, <2>5, <2>7
    <3>2. QED  BY <1>7, <2>4, <2>7, <3>1
  <2>8. QED  BY <2>4, <2>6, <2>7
<1>11. PICK s : s = Sorted(backends, before)
  OBVIOUS
<1>12. /\ s \in Seq(backends) /\ ToSet(s) = backends
       /\ \A i, j \in 1..Len(s) : s[i] = s[j] => i = j
  BY <1>6, <1>8, <1>9, <1>10, <1>11, SortedLists
<1>13. s \in Seq(Backends)
  BY <1>6, <1>12, SeqMonotonic
<1>14. QED  BY <1>1, <1>4, <1>6, <1>11, <1>12, <1>13, Zenon

-----------------------------------------------------------------------------
(* Types.                                                                  *)

\* The lists of results that a verification may have.
Results == Seq([name : STRING, reason : Reasons])

\* A judged group: a result for each of its targets, in their order.
LEMMA GroupJudged ==
    ASSUME NEW group \in Seq(ModelVerificationTarget)
    PROVE  /\ \A reason \in LoadErrors \cup {"invalid_models_endpoint"} :
                 /\ Failed(group, reason) \in Results
                 /\ Len(Failed(group, reason)) = Len(group)
                 /\ \A i \in 1..Len(group) :
                       /\ Failed(group, reason)[i].name = group[i].name
                       /\ Failed(group, reason)[i].reason = reason
           /\ \A catalog :
                 /\ Matched(group, catalog) \in Results
                 /\ Len(Matched(group, catalog)) = Len(group)
                 /\ \A i \in 1..Len(group) :
                       /\ Matched(group, catalog)[i].name = group[i].name
                       /\ Matched(group, catalog)[i].reason = "available" =>
                             ResolveCatalogModelId(group[i].backend,
                                                   group[i].model, catalog)
<1>1. /\ Len(group) \in Nat /\ DOMAIN group = 1..Len(group)
      /\ \A i \in 1..Len(group) : group[i].name \in STRING
  <2>1. \A i \in 1..Len(group) : group[i] \in ModelVerificationTarget
    OBVIOUS
  <2>2. QED  BY <2>1 DEF ModelVerificationTarget
<1>2. ASSUME NEW reason \in LoadErrors \cup {"invalid_models_endpoint"}
      PROVE  /\ Failed(group, reason) \in Results
             /\ Len(Failed(group, reason)) = Len(group)
             /\ \A i \in 1..Len(group) :
                   /\ Failed(group, reason)[i].name = group[i].name
                   /\ Failed(group, reason)[i].reason = reason
  <2>1. Failed(group, reason) =
           [i \in 1..Len(group) |-> [name |-> group[i].name, reason |-> reason]]
    BY <1>1 DEF Failed
  <2>2. reason \in Reasons
    BY DEF Reasons
  <2>3. QED  BY <1>1, <2>1, <2>2 DEF Results
<1>3. ASSUME NEW catalog
      PROVE  /\ Matched(group, catalog) \in Results
             /\ Len(Matched(group, catalog)) = Len(group)
             /\ \A i \in 1..Len(group) :
                   /\ Matched(group, catalog)[i].name = group[i].name
                   /\ Matched(group, catalog)[i].reason = "available" =>
                         ResolveCatalogModelId(group[i].backend,
                                               group[i].model, catalog)
  <2>1. Matched(group, catalog) =
           [i \in 1..Len(group) |->
              [name |-> group[i].name,
               reason |-> IF ResolveCatalogModelId(group[i].backend,
                                                   group[i].model, catalog)
                          THEN "available" ELSE "model_not_found"]]
    BY <1>1 DEF Matched
  <2>2. "available" \in Reasons /\ "model_not_found" \in Reasons
    BY DEF Reasons
  <2>3. QED  BY <1>1, <2>1, <2>2 DEF Results
<1>4. QED  BY <1>2, <1>3

\* What the step of a verification does with the group of a backend.
Judges(op, group) ==
    /\ Advance(op, group)
    /\ group \in Results
    /\ fetched' \in [Operations -> Seq(Backends)]

\* What the group's results say of its targets, by the catalogs at hand.
Faithful(op, group) ==
    LET of == TargetsOf(op, Head(pending[op])) IN
    /\ Len(group) = Len(of)
    /\ \A i \in 1..Len(of) :
          /\ group[i].name = of[i].name
          /\ group[i].reason = "available" =>
                ResolveCatalogModelId(of[i].backend, of[i].model,
                                      catalogs[Head(pending[op])])

\* The steps of a verification, less their guards on endpoints.
LEMMA VerifySteps ==
    ASSUME TypeOK, NEW op \in Operations, Verify(op)
    PROVE  /\ Working(op)
           /\ \/ \E group : Judges(op, group) /\ Faithful(op, group)
              \/ CatalogBreaks(op)
<1>1. /\ targets \in Configurations
      /\ pending[op] \in Seq(Backends) /\ fetched \in [Operations -> Seq(Backends)]
  BY DEF TypeOK
<1>2. Working(op)
  BY DEF Verify, RejectEndpoint, CatalogLoads, CatalogFails, CatalogBreaks
<1>3. Head(pending[op]) \in Backends
  BY <1>1, <1>2 DEF Working
<1>4. Ask(op) => fetched' \in [Operations -> Seq(Backends)]
  BY <1>1, <1>3 DEF Ask
<1>5. PICK of \in Seq(ModelVerificationTarget) :
         of = TargetsOf(op, Head(pending[op]))
  BY <1>1, TargetsOfIs
<1>6. ASSUME NEW reason \in LoadErrors \cup {"invalid_models_endpoint"},
             Advance(op, Failed(of, reason)),
             fetched' \in [Operations -> Seq(Backends)]
      PROVE  \E group : Judges(op, group) /\ Faithful(op, group)
  <2>1. PICK group : group = Failed(of, reason)
    OBVIOUS
  <2>2. /\ group \in Results /\ Len(group) = Len(of)
        /\ \A i \in 1..Len(of) : /\ group[i].name = of[i].name
                                 /\ group[i].reason = reason
    BY <2>1, GroupJudged
  <2>3. reason # "available"
    BY DEF LoadErrors
  <2>4. Judges(op, group)
    BY <1>6, <2>1, <2>2 DEF Judges
  <2>5. Faithful(op, group)
    BY <1>5, <2>2, <2>3 DEF Faithful
  <2>6. QED  BY <2>4, <2>5
<1>7. ASSUME RejectEndpoint(op)
      PROVE  \E group : Judges(op, group) /\ Faithful(op, group)
  <2>1. /\ Advance(op, Failed(of, "invalid_models_endpoint"))
        /\ fetched' = fetched
    BY <1>5, <1>7, Zenon DEF RejectEndpoint
  <2>2. QED  BY <1>1, <1>6, <2>1
<1>8. ASSUME NEW reason \in LoadErrors, CatalogFails(op, reason)
      PROVE  \E group : Judges(op, group) /\ Faithful(op, group)
  <2>1. Advance(op, Failed(of, reason)) /\ Ask(op)
    BY <1>5, <1>8, Zenon DEF CatalogFails
  <2>2. QED  BY <1>4, <1>6, <2>1
<1>9. ASSUME CatalogLoads(op)
      PROVE  \E group : Judges(op, group) /\ Faithful(op, group)
  <2>1. PICK group : group = Matched(of, catalogs[Head(pending[op])])
    OBVIOUS
  <2>2. Advance(op, group) /\ Ask(op)
    BY <1>5, <1>9, <2>1, Zenon DEF CatalogLoads
  <2>3. /\ group \in Results /\ Len(group) = Len(of)
        /\ \A i \in 1..Len(of) :
              /\ group[i].name = of[i].name
              /\ group[i].reason = "available" =>
                    ResolveCatalogModelId(of[i].backend, of[i].model,
                                          catalogs[Head(pending[op])])
    BY <2>1, GroupJudged
  <2>4. Judges(op, group)
    BY <1>4, <2>2, <2>3 DEF Judges
  <2>5. Faithful(op, group)
    BY <1>5, <2>3 DEF Faithful
  <2>6. QED  BY <2>4, <2>5
<1>10. QED  BY <1>2, <1>7, <1>8, <1>9 DEF Verify

LEMMA StepTypes ==
    ASSUME TypeOK, [Next]_vars
    PROVE  TypeOK'
<1> USE CatalogAssumption DEF TypeOK
<1>1. Startup \in Operations /\ Reads \subseteq Operations
  BY DEF Operations
<1>2. ASSUME NEW op \in Operations, NEW r \in {"all", "router", "provider"},
             Begin(op, r), server' \in {"down", "starting", "serving", "failed"}
      PROVE  TypeOK'
  <2>1. BackendsOf(r) \in Seq(Backends)
    BY BackendsOfIs
  <2>2. catalogs \in [Backends -> SUBSET ModelIds]
    OBVIOUS
  <2>3. QED  BY <1>2, <2>1, <2>2 DEF Begin
<1>3. ASSUME StartUp
      PROVE  TypeOK'
  BY <1>1, <1>2, <1>3 DEF StartUp
<1>4. ASSUME NEW op \in Reads, NEW r \in {"router", "provider"},
             ReadHealth(op, r)
      PROVE  TypeOK'
  BY <1>1, <1>2, <1>4 DEF ReadHealth
<1>5. ASSUME NEW op \in Operations, NEW group, Judges(op, group), Working(op)
      PROVE  TypeOK'
  <2>1. /\ results[op] \o group \in Results
        /\ Tail(pending[op]) \in Seq(Backends)
    <3>1. results[op] \in Results /\ pending[op] \in Seq(Backends)
      BY DEF Results
    <3>2. results[op] \o group \in Results
      BY <1>5, <3>1, ConcatProperties DEF Judges, Results
    <3>3. QED  BY <1>5, <3>1, <3>2 DEF Working
  <2>2. QED  BY <1>5, <2>1 DEF Judges, Advance, Results
<1>6. ASSUME NEW op \in Operations, CatalogBreaks(op)
      PROVE  TypeOK'
  <2>1. Head(pending[op]) \in Backends
    BY <1>6 DEF CatalogBreaks, Working
  <2>2. fetched' \in [Operations -> Seq(Backends)]
    BY <1>6, <2>1 DEF CatalogBreaks, Ask
  <2>3. /\ reading' \in [Operations -> {"idle", "running", "done", "broken"}]
        /\ server' \in {"down", "starting", "serving", "failed"}
    BY <1>6 DEF CatalogBreaks
  <2>4. QED  BY <1>6, <2>2, <2>3 DEF CatalogBreaks
<1>7. ASSUME NEW op \in Operations, Verify(op)
      PROVE  TypeOK'
  BY <1>5, <1>6, <1>7, VerifySteps
<1>8. ASSUME FinishStartup
      PROVE  TypeOK'
  BY <1>1, <1>8 DEF FinishStartup
<1>9. ASSUME NEW op \in Reads, FinishRead(op)
      PROVE  TypeOK'
  BY <1>1, <1>9 DEF FinishRead
<1>10. ASSUME NEW backend \in Backends, NEW catalog \in CatalogChoices,
              ChangeCatalog(backend, catalog)
       PROVE  TypeOK'
  <2>1. \A op \in Operations :
           [listed[op] EXCEPT ![backend] = @ \cup catalog]
              \in [Backends -> SUBSET ModelIds]
    OBVIOUS
  <2>2. QED  BY <1>10, <2>1 DEF ChangeCatalog
<1>11. CASE UNCHANGED vars
  BY <1>11 DEF vars
<1>12. QED
  BY <1>3, <1>4, <1>7, <1>8, <1>9, <1>10, <1>11 DEF Next

\* Every variable keeps its type; in particular the results are of the
\* reasons that the verifier has, and only backends are asked for catalogs
\* (providers/model_catalog.py).
THEOREM TypeCorrect == Spec => []TypeOK
<1>1. Init => TypeOK
  BY CatalogAssumption DEF Init, TypeOK
<1>2. QED  BY <1>1, StepTypes, PTL DEF Spec

-----------------------------------------------------------------------------
(* What a verification has made of its targets so far.                     *)

\* Each result is a relevant target's whose backend is done with, and no
\* target has two.  A target without one has its backend pending.  Who is
\* found available has been listed.
Accounted(op) ==
    /\ reading[op] = "idle" => results[op] = << >>
    /\ reading[op] \in {"idle", "done"} => pending[op] = << >>
    /\ \A i, j \in 1..Len(pending[op]) :
          pending[op][i] = pending[op][j] => i = j
    /\ \A i, j \in 1..Len(results[op]) :
          results[op][i].name = results[op][j].name => i = j
    /\ \A i \in 1..Len(results[op]) : \E t \in ToSet(Relevant(role[op])) :
          /\ t.name = results[op][i].name
          /\ t.backend \notin ToSet(pending[op])
          /\ results[op][i].reason = "available" => WasListed(op, t)
    /\ reading[op] # "idle" => \A t \in ToSet(Relevant(role[op])) :
          \/ t.backend \in ToSet(pending[op])
          \/ \E i \in 1..Len(results[op]) : results[op][i].name = t.name

\* A verification that runs knows what the backends list now.
Witnessed(op) ==
    reading[op] = "running" =>
        \A backend \in Backends : catalogs[backend] \subseteq listed[op][backend]

\* Requests are served after a startup that found every model.
Served ==
    /\ role[Startup] = "all"
    /\ server = "serving" => reading[Startup] = "done" /\ Available(Startup)

CatalogInv ==
    /\ \A op \in Operations : Accounted(op) /\ Witnessed(op)
    /\ Served

-----------------------------------------------------------------------------
(* What the steps do to it.                                                *)

\* While the targets stay, so does what is relevant.
LEMMA RelevantStays ==
    ASSUME targets' = targets, NEW op, role'[op] = role[op]
    PROVE  Relevant(role[op])' = Relevant(role[op])
BY DEF Relevant

\* What has been listed stays so.
LEMMA ListedStays ==
    ASSUME NEW op, NEW t, listed[op][t.backend] \subseteq listed'[op][t.backend],
           WasListed(op, t)
    PROVE  WasListed(op, t)'
BY DEF WasListed

\* The relevant targets: who they are.
LEMMA RelevantTyped ==
    ASSUME TypeOK, NEW op \in Operations
    PROVE  /\ \A t \in ToSet(Relevant(role[op])) :
                 /\ t \in ModelVerificationTarget
                 /\ t.backend \in Backends
           /\ \A t, u \in ToSet(Relevant(role[op])) : t.name = u.name => t = u
<1>1. targets \in Configurations
  BY DEF TypeOK
<1>2. ToSet(Relevant(role[op])) \subseteq ToSet(targets)
  BY <1>1, RelevantIs
<1>3. ToSet(targets) \subseteq ModelVerificationTarget
  BY <1>1, TargetsNamed, ElementsOf
<1>4. QED  BY <1>1, <1>2, <1>3, TargetsNamed DEF ModelVerificationTarget

\* A step that leaves a verification's work alone.
LEMMA AccountsStay ==
    ASSUME TypeOK, NEW op \in Operations, Accounted(op),
           targets' = targets, role'[op] = role[op],
           pending'[op] = pending[op], results'[op] = results[op],
           \A b \in Backends : listed[op][b] \subseteq listed'[op][b],
           reading'[op] = "idle" <=> reading[op] = "idle",
           reading'[op] = "done" => pending[op] = << >>
    PROVE  Accounted(op)'
<1>1. PICK relevant : relevant = ToSet(Relevant(role[op]))
  OBVIOUS
<1>2. relevant = ToSet(Relevant(role[op]))'
  BY <1>1, RelevantStays
<1>3. \A t \in relevant : WasListed(op, t) => WasListed(op, t)'
  <2>1. SUFFICES ASSUME NEW t \in relevant, WasListed(op, t)
                 PROVE  WasListed(op, t)'
    OBVIOUS
  <2>2. t.backend \in Backends
    BY <1>1, RelevantTyped
  <2>3. listed[op][t.backend] \subseteq listed'[op][t.backend]
    BY <2>2
  <2>4. QED  BY <2>1, <2>3, ListedStays
<1>4. \A i \in 1..Len(results'[op]) : \E t \in relevant :
         /\ t.name = results'[op][i].name
         /\ t.backend \notin ToSet(pending'[op])
         /\ results'[op][i].reason = "available" => WasListed(op, t)'
  BY <1>1, <1>3 DEF Accounted
<1>5. reading'[op] # "idle" => \A t \in relevant :
         \/ t.backend \in ToSet(pending'[op])
         \/ \E i \in 1..Len(results'[op]) : results'[op][i].name = t.name
  BY <1>1 DEF Accounted
<1>6. /\ reading'[op] = "idle" => results'[op] = << >>
      /\ reading'[op] \in {"idle", "done"} => pending'[op] = << >>
      /\ \A i, j \in 1..Len(pending'[op]) :
            pending'[op][i] = pending'[op][j] => i = j
      /\ \A i, j \in 1..Len(results'[op]) :
            results'[op][i].name = results'[op][j].name => i = j
  BY DEF Accounted
<1>7. QED  BY <1>2, <1>4, <1>5, <1>6 DEF Accounted

\* A verification begins with no result, and every backend pending.
LEMMA Begins ==
    ASSUME TypeOK, NEW op \in Operations, Accounted(op),
           NEW r \in {"all", "router", "provider"}, Begin(op, r)
    PROVE  Accounted(op)' /\ Witnessed(op)'
<1>1. /\ targets \in Configurations /\ targets' = targets
      /\ role'[op] = r /\ reading'[op] = "running"
      /\ pending'[op] = BackendsOf(r) /\ results'[op] = << >>
      /\ listed'[op] = catalogs /\ catalogs' = catalogs
  BY DEF Begin, TypeOK, Accounted
<1>2. PICK relevant : relevant = ToSet(Relevant(r))
  OBVIOUS
<1>3. ToSet(Relevant(role[op]))' = relevant
  BY <1>1, <1>2 DEF Relevant
<1>4. /\ ToSet(pending'[op]) = {t.backend : t \in relevant}
      /\ \A i, j \in 1..Len(pending'[op]) :
            pending'[op][i] = pending'[op][j] => i = j
  BY <1>1, <1>2, BackendsOfIs
<1>5. 1..Len(results'[op]) = {}
  BY <1>1
<1>6. Accounted(op)'
  BY <1>1, <1>3, <1>4, <1>5 DEF Accounted
<1>7. QED  BY <1>1, <1>6 DEF Witnessed

\* A verification judges the targets of a backend, which then is done with.
LEMMA Judged ==
    ASSUME TypeOK, NEW op \in Operations, Accounted(op), Witnessed(op),
           Working(op), NEW group, Judges(op, group), Faithful(op, group)
    PROVE  Accounted(op)'
<1>1. PICK backend : backend = Head(pending[op])
  OBVIOUS
<1>2. PICK of : of = TargetsOf(op, backend)
  OBVIOUS
<1>3. PICK relevant : relevant = ToSet(Relevant(role[op]))
  OBVIOUS
<1>4. PICK old : old = results[op]
  OBVIOUS
<1>5. PICK waiting : waiting = pending[op]
  OBVIOUS
<1>6. /\ targets \in Configurations /\ targets' = targets
      /\ role' = role /\ reading' = reading /\ listed' = listed
      /\ reading[op] = "running"
      /\ old \in Results /\ group \in Results
      /\ waiting \in Seq(Backends) /\ waiting # << >>
      /\ results'[op] = old \o group /\ pending'[op] = Tail(waiting)
  BY <1>4, <1>5 DEF TypeOK, Working, Judges, Advance, Results
<1>7. PICK new : new = old \o group
  OBVIOUS
<1>8. /\ Len(old) \in Nat /\ Len(group) \in Nat
      /\ Len(new) = Len(old) + Len(group)
      /\ \A i \in 1..Len(old) : new[i] = old[i]
      /\ \A i \in 1..Len(group) : new[Len(old) + i] = group[i]
  BY <1>6, <1>7 DEF Results
<1>9. \A k \in 1..Len(new) :
         \/ k \in 1..Len(old)
         \/ k - Len(old) \in 1..Len(group) /\ k = Len(old) + (k - Len(old))
  BY <1>8
<1>10. PICK rest : rest = Tail(waiting)
  OBVIOUS
<1>11. /\ backend \in Backends /\ backend \in ToSet(waiting)
       /\ backend \notin ToSet(rest)
       /\ ToSet(waiting) = {backend} \cup ToSet(rest)
       /\ \A i, j \in 1..Len(rest) : rest[i] = rest[j] => i = j
  <2>1. /\ Len(waiting) \in Nat \ {0} /\ backend = waiting[1]
        /\ \A i, j \in 1..Len(waiting) : waiting[i] = waiting[j] => i = j
    BY <1>1, <1>5, <1>6 DEF Accounted
  <2>2. /\ rest \in Seq(Backends) /\ Len(rest) = Len(waiting) - 1
        /\ \A i \in 1..Len(rest) : rest[i] = waiting[i + 1]
    BY <1>6, <1>10
  <2>3. \A i \in 1..Len(rest) : i + 1 \in 1..Len(waiting) /\ i + 1 # 1
    BY <2>1, <2>2
  <2>4. /\ \A x : x \in ToSet(waiting) <=> \E i \in 1..Len(waiting) : waiting[i] = x
        /\ \A x : x \in ToSet(rest) <=> \E i \in 1..Len(rest) : rest[i] = x
    BY <1>6, <2>2, ElementsOf
  <2>5. 1 \in 1..Len(waiting)
    BY <2>1
  <2>6. ASSUME NEW i \in 1..Len(waiting), i # 1
        PROVE  i - 1 \in 1..Len(rest) /\ rest[i - 1] = waiting[i]
    <3>1. i - 1 \in 1..Len(rest) /\ (i - 1) + 1 = i
      BY <2>1, <2>2, <2>6
    <3>2. QED  BY <2>2, <3>1
  <2>7. backend \in Backends /\ backend \in ToSet(waiting)
    BY <1>6, <2>1, <2>4, <2>5
  <2>8. backend \notin ToSet(rest)
    BY <2>1, <2>2, <2>3, <2>4, <2>5
  <2>9. ASSUME NEW x \in ToSet(rest)
        PROVE  x \in ToSet(waiting)
    BY <2>2, <2>3, <2>4
  <2>10. ASSUME NEW x \in ToSet(waiting), x # backend
         PROVE  x \in ToSet(rest)
    BY <2>1, <2>4, <2>6, <2>10
  <2>11. ASSUME NEW i \in 1..Len(rest), NEW j \in 1..Len(rest), rest[i] = rest[j]
         PROVE  i = j
    <3>1. i + 1 = j + 1
      BY <2>1, <2>2, <2>3, <2>11
    <3>2. QED  BY <2>1, <2>2, <3>1
  <2>12. QED  BY <2>7, <2>8, <2>9, <2>10, <2>11
<1>12. /\ of \in Seq(ModelVerificationTarget) /\ IsInjective(of)
       /\ ToSet(of) = {t \in relevant : t.backend = backend}
  BY <1>2, <1>3, <1>6, TargetsOfIs
<1>13. /\ Len(of) = Len(group)
       /\ \A i \in 1..Len(group) :
             /\ of[i] \in relevant /\ of[i].backend = backend
             /\ group[i].name = of[i].name
             /\ group[i].reason = "available" =>
                   ResolveCatalogModelId(backend, of[i].model, catalogs[backend])
       /\ \A t \in relevant : t.backend = backend =>
             \E i \in 1..Len(group) : group[i].name = t.name
       /\ \A i, j \in 1..Len(group) : of[i] = of[j] => i = j
  <2>1. /\ Len(of) = Len(group)
        /\ \A i \in 1..Len(of) :
              /\ group[i].name = of[i].name
              /\ group[i].reason = "available" =>
                    ResolveCatalogModelId(of[i].backend, of[i].model,
                                          catalogs[backend])
    BY <1>1, <1>2 DEF Faithful
  <2>2. /\ DOMAIN of = 1..Len(of)
        /\ \A x : x \in ToSet(of) <=> \E i \in 1..Len(of) : of[i] = x
    BY <1>12, ElementsOf
  <2>3. \A i \in 1..Len(group) : of[i] \in relevant /\ of[i].backend = backend
    BY <1>12, <2>1, <2>2
  <2>4. \A t \in relevant : t.backend = backend =>
             \E i \in 1..Len(group) : group[i].name = t.name
    BY <1>12, <2>1, <2>2
  <2>5. \A i, j \in 1..Len(group) : of[i] = of[j] => i = j
    BY <1>12, <2>1, <2>2 DEF IsInjective
  <2>6. QED  BY <2>1, <2>3, <2>4, <2>5
<1>14. /\ \A t \in relevant : t \in ModelVerificationTarget
       /\ \A t, u \in relevant : t.name = u.name => t = u
  BY <1>3, RelevantTyped
<1>15. ASSUME NEW i \in 1..Len(group), group[i].reason = "available"
       PROVE  WasListed(op, of[i])
  <2>1. PICK t : t = of[i]
    OBVIOUS
  <2>2. /\ t \in ModelVerificationTarget /\ t.backend = backend
        /\ ResolveCatalogModelId(backend, t.model, catalogs[backend])
    BY <1>13, <1>14, <1>15, <2>1
  <2>3. catalogs[backend] \subseteq listed[op][backend]
    BY <1>6, <1>11 DEF Witnessed
  <2>4. t.model \in ModelIds
    BY <2>2 DEF ModelVerificationTarget
  <2>5. CASE t.model \in catalogs[backend]
    BY <2>1, <2>2, <2>3, <2>5 DEF WasListed
  <2>6. CASE /\ backend = Google
             /\ [t.model EXCEPT !.prefixed = TRUE] \in catalogs[backend]
    <3>1. PICK id : id = [t.model EXCEPT !.prefixed = TRUE]
      OBVIOUS
    <3>2. /\ id \in listed[op][backend] /\ id.prefixed
          /\ id.text = [t.model EXCEPT !.prefixed = FALSE].text
      BY <2>3, <2>4, <2>6, <3>1 DEF ModelIds
    <3>3. QED  BY <2>1, <2>2, <2>6, <3>2 DEF WasListed
  <2>7. QED  BY <2>2, <2>5, <2>6 DEF ResolveCatalogModelId
<1>16. /\ \A i, j \in 1..Len(old) : old[i].name = old[j].name => i = j
       /\ \A i \in 1..Len(old) : \E t \in relevant :
             /\ t.name = old[i].name
             /\ t.backend \notin ToSet(waiting)
             /\ old[i].reason = "available" => WasListed(op, t)
       /\ \A t \in relevant :
             \/ t.backend \in ToSet(waiting)
             \/ \E i \in 1..Len(old) : old[i].name = t.name
  BY <1>3, <1>4, <1>5, <1>6 DEF Accounted
<1>17. ASSUME NEW k \in 1..Len(new)
       PROVE  \E t \in relevant :
                 /\ t.name = new[k].name
                 /\ t.backend \notin ToSet(rest)
                 /\ new[k].reason = "available" => WasListed(op, t)
  <2>1. CASE k \in 1..Len(old)
    BY <1>8, <1>11, <1>16, <2>1
  <2>2. CASE k - Len(old) \in 1..Len(group) /\ k = Len(old) + (k - Len(old))
    <3>1. PICK i \in 1..Len(group) : k = Len(old) + i
      BY <2>2
    <3>2. new[k] = group[i]
      BY <1>8, <3>1
    <3>3. QED  BY <1>11, <1>13, <1>15, <3>2
  <2>3. QED  BY <1>9, <2>1, <2>2
<1>18. ASSUME NEW t \in relevant, t.backend \notin ToSet(rest)
       PROVE  \E k \in 1..Len(new) : new[k].name = t.name
  <2>1. CASE t.backend = backend
    <3>1. PICK i \in 1..Len(group) : group[i].name = t.name
      BY <1>13, <2>1
    <3>2. Len(old) + i \in 1..Len(new)
      BY <1>8
    <3>3. QED  BY <1>8, <3>1, <3>2
  <2>2. CASE t.backend # backend
    <3>1. PICK i \in 1..Len(old) : old[i].name = t.name
      BY <1>11, <1>16, <1>18, <2>2
    <3>2. i \in 1..Len(new)
      BY <1>8
    <3>3. QED  BY <1>8, <3>1, <3>2
  <2>3. QED  BY <2>1, <2>2
<1>19. ASSUME NEW i \in 1..Len(old), NEW j \in 1..Len(group)
       PROVE  old[i].name # group[j].name
  <2>1. PICK t \in relevant : /\ t.name = old[i].name
                              /\ t.backend \notin ToSet(waiting)
    BY <1>16
  <2>2. of[j] \in relevant /\ of[j].backend = backend /\ group[j].name = of[j].name
    BY <1>13
  <2>3. t # of[j]
    BY <1>11, <2>1, <2>2
  <2>4. QED  BY <1>14, <2>1, <2>2, <2>3
<1>20. \A i, j \in 1..Len(group) : group[i].name = group[j].name => i = j
  BY <1>13, <1>14
<1>21. ASSUME NEW k \in 1..Len(new), NEW l \in 1..Len(new),
              new[k].name = new[l].name
       PROVE  k = l
  <2>1. CASE k \in 1..Len(old) /\ l \in 1..Len(old)
    BY <1>8, <1>16, <1>21, <2>1
  <2>2. ASSUME k \notin 1..Len(old)
        PROVE  \E i \in 1..Len(group) : k = Len(old) + i /\ new[k] = group[i]
    BY <1>8, <1>9, <2>2
  <2>3. ASSUME l \notin 1..Len(old)
        PROVE  \E i \in 1..Len(group) : l = Len(old) + i /\ new[l] = group[i]
    BY <1>8, <1>9, <2>3
  <2>4. CASE k \notin 1..Len(old) /\ l \notin 1..Len(old)
    BY <1>20, <1>21, <2>2, <2>3, <2>4
  <2>5. CASE k \in 1..Len(old) /\ l \notin 1..Len(old)
    BY <1>8, <1>19, <1>21, <2>3, <2>5
  <2>6. CASE k \notin 1..Len(old) /\ l \in 1..Len(old)
    BY <1>8, <1>19, <1>21, <2>2, <2>6
  <2>7. QED  BY <2>1, <2>4, <2>5, <2>6
<1>22. /\ ToSet(Relevant(role[op]))' = relevant
       /\ \A t : WasListed(op, t)' <=> WasListed(op, t)
  <2>1. ToSet(Relevant(role[op]))' = relevant
    BY <1>3, <1>6, RelevantStays
  <2>2. \A t : WasListed(op, t)' <=> WasListed(op, t)
    BY <1>6 DEF WasListed
  <2>3. QED  BY <2>1, <2>2
<1>23. results'[op] = new /\ pending'[op] = rest /\ reading'[op] = "running"
  BY <1>6, <1>7, <1>10
<1>24. QED
  BY <1>11, <1>17, <1>18, <1>21, <1>22, <1>23 DEF Accounted

\* The other verifications are left alone.
Undisturbed(op) ==
    /\ role'[op] = role[op] /\ pending'[op] = pending[op]
    /\ results'[op] = results[op] /\ listed'[op] = listed[op]
    /\ reading'[op] = reading[op]

LEMMA OthersStay ==
    ASSUME TypeOK, NEW op \in Operations, Accounted(op), Witnessed(op),
           targets' = targets, catalogs' = catalogs, Undisturbed(op)
    PROVE  Accounted(op)' /\ Witnessed(op)'
<1>1. reading[op] = "done" => pending[op] = << >>
  BY DEF Accounted
<1>2. Accounted(op)'
  BY <1>1, AccountsStay DEF Undisturbed
<1>3. Witnessed(op)'
  BY DEF Witnessed, Undisturbed
<1>4. QED  BY <1>2, <1>3

\* A verification that ends, by an error or with no backend pending.
LEMMA Ends ==
    ASSUME TypeOK, NEW op \in Operations, Accounted(op),
           reading[op] = "running", targets' = targets,
           role' = role, pending' = pending, results' = results,
           listed' = listed,
           \/ reading'[op] = "broken"
           \/ reading'[op] = "done" /\ pending[op] = << >>
    PROVE  Accounted(op)' /\ Witnessed(op)'
<1>1. Accounted(op)'
  BY AccountsStay
<1>2. QED  BY <1>1 DEF Witnessed

LEMMA StepAccounts ==
    ASSUME TypeOK, CatalogInv, [Next]_vars, NEW op \in Operations
    PROVE  Accounted(op)' /\ Witnessed(op)'
<1> USE DEF CatalogInv
<1>1. Startup \in Operations /\ Reads \subseteq Operations
  BY DEF Operations
<1>2. ASSUME NEW other \in Operations, NEW r \in {"all", "router", "provider"},
             Begin(other, r)
      PROVE  Accounted(op)' /\ Witnessed(op)'
  <2>1. CASE op = other
    BY <1>2, <2>1, Begins
  <2>2. CASE op # other
    <3>1. Undisturbed(op) /\ targets' = targets /\ catalogs' = catalogs
      BY <1>2, <2>2 DEF Begin, Undisturbed, TypeOK
    <3>2. QED  BY <3>1, OthersStay
  <2>3. QED  BY <2>1, <2>2
<1>3. ASSUME StartUp
      PROVE  Accounted(op)' /\ Witnessed(op)'
  BY <1>1, <1>2, <1>3 DEF StartUp
<1>4. ASSUME NEW other \in Reads, NEW r \in {"router", "provider"},
             ReadHealth(other, r)
      PROVE  Accounted(op)' /\ Witnessed(op)'
  BY <1>1, <1>2, <1>4 DEF ReadHealth
<1>5. ASSUME NEW other \in Operations, Verify(other)
      PROVE  Accounted(op)' /\ Witnessed(op)'
  <2>1. Working(other)
    BY <1>5, VerifySteps
  <2>2. ASSUME NEW group, Judges(other, group), Faithful(other, group)
        PROVE  Accounted(op)' /\ Witnessed(op)'
    <3>1. CASE op = other
      <4>1. Accounted(op)'
        BY <2>1, <2>2, <3>1, Judged
      <4>2. reading' = reading /\ listed' = listed /\ catalogs' = catalogs
        BY <2>2 DEF Judges, Advance
      <4>3. QED  BY <4>1, <4>2 DEF Witnessed
    <3>2. CASE op # other
      <4>1. Undisturbed(op) /\ targets' = targets /\ catalogs' = catalogs
        BY <2>2, <3>2 DEF Judges, Advance, Undisturbed, TypeOK
      <4>2. QED  BY <4>1, OthersStay
    <3>3. QED  BY <3>1, <3>2
  <2>3. ASSUME CatalogBreaks(other)
        PROVE  Accounted(op)' /\ Witnessed(op)'
    <3>1. CASE op = other
      <4>1. /\ reading[op] = "running" /\ reading'[op] = "broken"
            /\ targets' = targets /\ role' = role /\ pending' = pending
            /\ results' = results /\ listed' = listed
        BY <2>1, <2>3, <3>1 DEF CatalogBreaks, Working, TypeOK
      <4>2. QED  BY <4>1, Ends
    <3>2. CASE op # other
      <4>1. Undisturbed(op) /\ targets' = targets /\ catalogs' = catalogs
        BY <2>3, <3>2 DEF CatalogBreaks, Undisturbed, TypeOK
      <4>2. QED  BY <4>1, OthersStay
    <3>3. QED  BY <3>1, <3>2
  <2>4. QED  BY <1>5, <2>2, <2>3, VerifySteps
<1>6. ASSUME NEW other \in Operations,
             reading[other] = "running", pending[other] = << >>,
             reading' = [reading EXCEPT ![other] = "done"],
             UNCHANGED <<targets, catalogs, role, pending, results, listed>>
      PROVE  Accounted(op)' /\ Witnessed(op)'
  <2>1. CASE op = other
    <3>1. reading'[op] = "done"
      BY <1>6, <2>1 DEF TypeOK
    <3>2. QED  BY <1>6, <2>1, <3>1, Ends
  <2>2. CASE op # other
    <3>1. Undisturbed(op)
      BY <1>6, <2>2 DEF Undisturbed, TypeOK
    <3>2. QED  BY <1>6, <3>1, OthersStay
  <2>3. QED  BY <2>1, <2>2
<1>7. ASSUME FinishStartup
      PROVE  Accounted(op)' /\ Witnessed(op)'
  <2>1. /\ reading[Startup] = "running" /\ pending[Startup] = << >>
        /\ reading' = [reading EXCEPT ![Startup] = "done"]
        /\ UNCHANGED <<targets, catalogs, role, pending, results, listed>>
    BY <1>7 DEF FinishStartup
  <2>2. QED  BY <1>1, <1>6, <2>1
<1>8. ASSUME NEW other \in Reads, FinishRead(other)
      PROVE  Accounted(op)' /\ Witnessed(op)'
  <2>1. /\ reading[other] = "running" /\ pending[other] = << >>
        /\ reading' = [reading EXCEPT ![other] = "done"]
        /\ UNCHANGED <<targets, catalogs, role, pending, results, listed>>
    BY <1>8 DEF FinishRead
  <2>2. QED  BY <1>1, <1>6, <2>1
<1>9. ASSUME NEW backend \in Backends, NEW catalog \in CatalogChoices,
             ChangeCatalog(backend, catalog)
      PROVE  Accounted(op)' /\ Witnessed(op)'
  <2>1. /\ targets' = targets /\ role' = role /\ pending' = pending
        /\ results' = results /\ reading' = reading
        /\ catalogs' = [catalogs EXCEPT ![backend] = catalog]
        /\ listed'[op] = IF reading[op] = "running"
                         THEN [listed[op] EXCEPT ![backend] = @ \cup catalog]
                         ELSE listed[op]
    BY <1>9 DEF ChangeCatalog
  <2>2. listed[op] \in [Backends -> SUBSET ModelIds]
    BY DEF TypeOK
  <2>3. \A b \in Backends : listed[op][b] \subseteq listed'[op][b]
    BY <2>1, <2>2
  <2>4. Accounted(op)'
    <3>1. reading[op] = "done" => pending[op] = << >>
      BY DEF Accounted
    <3>2. QED  BY <2>1, <2>3, <3>1, AccountsStay
  <2>5. ASSUME reading'[op] = "running", NEW b \in Backends
        PROVE  catalogs'[b] \subseteq listed'[op][b]
    <3>1. /\ catalogs[b] \subseteq listed[op][b]
          /\ listed'[op] = [listed[op] EXCEPT ![backend] = @ \cup catalog]
      BY <2>1, <2>5 DEF Witnessed
    <3>2. CASE b = backend
      <4>1. catalogs'[b] = catalog
        BY <2>1, <3>2 DEF TypeOK
      <4>2. listed'[op][b] = listed[op][b] \cup catalog
        BY <2>2, <3>1, <3>2
      <4>3. QED  BY <4>1, <4>2
    <3>3. CASE b # backend
      <4>1. catalogs'[b] = catalogs[b]
        BY <2>1, <3>3 DEF TypeOK
      <4>2. QED  BY <2>3, <3>1, <4>1
    <3>4. QED  BY <3>2, <3>3
  <2>6. QED  BY <2>4, <2>5 DEF Witnessed
<1>10. CASE UNCHANGED vars
  <2>1. Undisturbed(op) /\ targets' = targets /\ catalogs' = catalogs
    BY <1>10 DEF vars, Undisturbed
  <2>2. QED  BY <2>1, OthersStay
<1>11. QED
  BY <1>3, <1>4, <1>5, <1>7, <1>8, <1>9, <1>10 DEF Next

LEMMA StepServed ==
    ASSUME TypeOK, CatalogInv, [Next]_vars
    PROVE  Served'
<1> USE DEF Served
<1>1. /\ Startup \in Operations /\ Reads \subseteq Operations
      /\ \A op \in Reads : op # Startup
  BY CatalogAssumption DEF Operations
<1>2. Served
  BY DEF CatalogInv
<1>3. ASSUME role'[Startup] = role[Startup], results'[Startup] = results[Startup],
             server' = "serving" =>
                server = "serving" /\ reading'[Startup] = reading[Startup]
      PROVE  Served'
  BY <1>2, <1>3 DEF Available
<1>4. ASSUME StartUp
      PROVE  Served'
  BY <1>1, <1>4 DEF StartUp, Begin, TypeOK
<1>5. ASSUME NEW op \in Reads, NEW r \in {"router", "provider"}, ReadHealth(op, r)
      PROVE  Served'
  <2>1. /\ role'[Startup] = role[Startup] /\ results' = results
        /\ server' = server /\ reading'[Startup] = reading[Startup]
    BY <1>1, <1>5 DEF ReadHealth, Begin, TypeOK
  <2>2. QED  BY <1>3, <2>1
<1>6. ASSUME NEW op \in Operations, Verify(op)
      PROVE  Served'
  <2>1. Working(op)
    BY <1>6, VerifySteps
  <2>2. server = "serving" => op # Startup
    BY <1>2, <2>1 DEF Working
  <2>3. ASSUME NEW group, Judges(op, group)
        PROVE  Served'
    <3>1. /\ role' = role /\ server' = server /\ reading' = reading
          /\ results' = [results EXCEPT ![op] = @ \o group]
      BY <2>3 DEF Judges, Advance
    <3>2. server = "serving" => results'[Startup] = results[Startup]
      BY <1>1, <2>2, <3>1 DEF TypeOK
    <3>3. CASE server = "serving"
      BY <1>3, <3>1, <3>2, <3>3
    <3>4. CASE server # "serving"
      BY <1>2, <3>1, <3>4
    <3>5. QED  BY <3>3, <3>4
  <2>4. ASSUME CatalogBreaks(op)
        PROVE  Served'
    <3>1. /\ role' = role /\ results' = results
          /\ server' = IF op = Startup THEN "failed" ELSE server
          /\ reading' = [reading EXCEPT ![op] = "broken"]
      BY <2>4 DEF CatalogBreaks
    <3>2. server' = "serving" =>
             server = "serving" /\ reading'[Startup] = reading[Startup]
      BY <1>1, <3>1 DEF TypeOK
    <3>3. QED  BY <1>3, <3>1, <3>2
  <2>5. QED  BY <1>6, <2>3, <2>4, VerifySteps
<1>7. ASSUME FinishStartup
      PROVE  Served'
  <2>1. /\ role' = role /\ results' = results
        /\ reading' = [reading EXCEPT ![Startup] = "done"]
        /\ server' = "serving" => Available(Startup)
    BY <1>7 DEF FinishStartup
  <2>2. Available(Startup)' = Available(Startup) /\ reading'[Startup] = "done"
    BY <1>1, <2>1 DEF Available, TypeOK
  <2>3. QED  BY <1>2, <2>1, <2>2
<1>8. ASSUME NEW op \in Reads, FinishRead(op)
      PROVE  Served'
  <2>1. /\ role' = role /\ results' = results
        /\ server' = server /\ reading'[Startup] = reading[Startup]
    BY <1>1, <1>8 DEF FinishRead, TypeOK
  <2>2. QED  BY <1>3, <2>1
<1>9. ASSUME NEW backend \in Backends, NEW catalog \in CatalogChoices,
             ChangeCatalog(backend, catalog)
      PROVE  Served'
  BY <1>3, <1>9 DEF ChangeCatalog
<1>10. CASE UNCHANGED vars
  BY <1>3, <1>10 DEF vars
<1>11. QED
  BY <1>4, <1>5, <1>6, <1>7, <1>8, <1>9, <1>10 DEF Next

LEMMA InitAccounts == Init => CatalogInv
<1> SUFFICES ASSUME Init
             PROVE  CatalogInv
  OBVIOUS
<1>1. ASSUME NEW op \in Operations
      PROVE  Accounted(op) /\ Witnessed(op)
  <2>1. /\ reading[op] = "idle" /\ results[op] = << >> /\ pending[op] = << >>
        /\ 1..Len(results[op]) = {} /\ 1..Len(pending[op]) = {}
    BY DEF Init
  <2>2. QED  BY <2>1 DEF Accounted, Witnessed
<1>2. Served
  BY DEF Init, Served, Operations
<1>3. QED  BY <1>1, <1>2 DEF CatalogInv

LEMMA AlwaysAccounted == Spec => [](TypeOK /\ CatalogInv)
<1>1. TypeOK /\ CatalogInv /\ [Next]_vars => CatalogInv'
  <2>1. ASSUME TypeOK, CatalogInv, [Next]_vars
        PROVE  CatalogInv'
    <3>1. \A op \in Operations : Accounted(op)' /\ Witnessed(op)'
      BY <2>1, StepAccounts
    <3>2. Served'
      BY <2>1, StepServed
    <3>3. QED  BY <3>1, <3>2 DEF CatalogInv
  <2>2. QED  BY <2>1
<1>2. QED  BY <1>1, InitAccounts, TypeCorrect, PTL DEF Spec

-----------------------------------------------------------------------------
(* The theorems.                                                           *)

\* The server answers requests only if each configured model, a disabled
\* provider's too, was in its backend's catalog at some moment of startup
\* (verify_startup of routing/engine.py, verify of model_catalog.py).
THEOREM ServesVerified == Spec => []ServesVerifiedModels
<1>1. ASSUME TypeOK, CatalogInv
      PROVE  ServesVerifiedModels
  <2>1. SUFFICES ASSUME server = "serving", NEW i \in DOMAIN targets
                 PROVE  WasListed(Startup, targets[i])
    BY DEF ServesVerifiedModels
  <2>2. Startup \in Operations /\ targets \in Configurations
    BY <1>1 DEF Operations, TypeOK
  <2>3. /\ reading[Startup] = "done" /\ role[Startup] = "all"
        /\ Available(Startup) /\ Accounted(Startup)
    BY <1>1, <2>1, <2>2 DEF CatalogInv, Served
  <2>4. PICK target : target = targets[i]
    OBVIOUS
  <2>5. target \in ToSet(Relevant(role[Startup]))
    <3>1. target \in ToSet(targets)
      BY <2>1, <2>4 DEF ToSet
    <3>2. QED  BY <2>2, <2>3, <3>1, RelevantIs
  <2>6. ToSet(pending[Startup]) = {}
    BY <2>3 DEF Accounted, ToSet
  <2>7. PICK k \in 1..Len(results[Startup]) :
           results[Startup][k].name = target.name
    BY <2>3, <2>5, <2>6 DEF Accounted
  <2>8. results[Startup][k].reason = "available"
    <3>1. results[Startup] \in Results
      BY <1>1, <2>2 DEF TypeOK, Results
    <3>2. DOMAIN results[Startup] = 1..Len(results[Startup])
      BY <3>1 DEF Results
    <3>3. QED  BY <2>3, <2>7, <3>2 DEF Available
  <2>9. PICK t \in ToSet(Relevant(role[Startup])) :
           t.name = results[Startup][k].name /\ WasListed(Startup, t)
    BY <2>3, <2>7, <2>8 DEF Accounted
  <2>10. t = target
    BY <1>1, <2>2, <2>5, <2>7, <2>9, RelevantTyped
  <2>11. QED  BY <2>4, <2>9, <2>10
<1>2. QED  BY <1>1, AlwaysAccounted, PTL

\* A list without a repeated name has as many names as places.
LEMMA NamesCounted ==
    ASSUME NEW X, NEW list \in Seq(X),
           \A i, j \in 1..Len(list) : list[i].name = list[j].name => i = j
    PROVE  Cardinality(NamesIn(list)) = Len(list)
<1>1. Len(list) \in Nat /\ NamesIn(list) = {list[i].name : i \in 1..Len(list)}
  BY DEF NamesIn
<1>2. PICK f : f = [i \in 1..Len(list) |-> list[i].name]
  OBVIOUS
<1>3. f \in Bijection(1..Len(list), NamesIn(list))
  <2>1. f \in [1..Len(list) -> NamesIn(list)]
    BY <1>1, <1>2
  <2>2. f \in Injection(1..Len(list), NamesIn(list))
    BY <1>2, <2>1 DEF Injection, IsInjective
  <2>3. f \in Surjection(1..Len(list), NamesIn(list))
    BY <1>1, <1>2, <2>1 DEF Surjection
  <2>4. QED  BY <2>2, <2>3 DEF Bijection
<1>4. /\ IsFiniteSet(1..Len(list))
      /\ Cardinality(1..Len(list)) = IF 1 > Len(list) THEN 0 ELSE Len(list) - 1 + 1
  BY <1>1, FS_Interval
<1>5. Cardinality(1..Len(list)) = Len(list)
  BY <1>1, <1>4
<1>6. QED  BY <1>3, <1>4, <1>5, FS_Bijection DEF ExistsBijection

\* A health read calls a model healthy only if its backend listed it while
\* the read ran and the provider is enabled, and reports each router or
\* provider that was asked for once (router_health, provider_health).
THEOREM HealthIsHonest == Spec => []HealthHonest
<1>1. ASSUME TypeOK, CatalogInv
      PROVE  HealthHonest
  <2>1. SUFFICES ASSUME NEW op \in Reads, reading[op] = "done"
                 PROVE  /\ \A answer \in Health(op) : answer.status = "healthy" =>
                              \E i \in DOMAIN targets :
                                 /\ targets[i].name = answer.name
                                 /\ targets[i].enabled
                                 /\ WasListed(op, targets[i])
                        /\ NamesIn(results[op]) = NamesIn(Relevant(role[op]))
                        /\ Len(results[op]) = Len(Relevant(role[op]))
    BY DEF HealthHonest
  <2>2. op \in Operations /\ targets \in Configurations
    BY <1>1 DEF Operations, TypeOK
  <2>3. PICK found : found = results[op]
    OBVIOUS
  <2>4. /\ found \in Results /\ DOMAIN found = 1..Len(found)
    <3>1. found \in Results
      BY <1>1, <2>2, <2>3 DEF TypeOK, Results
    <3>2. DOMAIN found = 1..Len(found)
      BY <3>1 DEF Results
    <3>3. QED  BY <3>1, <3>2
  <2>5. PICK list : list = Relevant(role[op])
    OBVIOUS
  <2>6. /\ list \in Seq(ModelVerificationTarget) /\ DOMAIN list = 1..Len(list)
        /\ \A x : x \in ToSet(list) <=> \E i \in 1..Len(list) : list[i] = x
        /\ ToSet(list) \subseteq ToSet(targets)
        /\ IsInjective(list)
    BY <2>2, <2>5, RelevantIs, ElementsOf
  <2>7. ToSet(pending[op]) = {}
    BY <1>1, <2>1, <2>2 DEF CatalogInv, Accounted, ToSet
  <2>8. /\ \A i, j \in 1..Len(found) : found[i].name = found[j].name => i = j
        /\ \A i \in 1..Len(found) : \E t \in ToSet(list) :
              /\ t.name = found[i].name
              /\ found[i].reason = "available" => WasListed(op, t)
        /\ \A t \in ToSet(list) :
              \E i \in 1..Len(found) : found[i].name = t.name
    BY <1>1, <2>1, <2>2, <2>3, <2>5, <2>7 DEF CatalogInv, Accounted
  <2>9. \A t \in ToSet(list) : \E i \in DOMAIN targets : targets[i] = t
    BY <2>2, <2>6, TargetsNamed, ElementsOf
  <2>10. ASSUME NEW answer \in Health(op), answer.status = "healthy"
         PROVE  \E i \in DOMAIN targets : /\ targets[i].name = answer.name
                                          /\ targets[i].enabled
                                          /\ WasListed(op, targets[i])
    <3>1. PICK k \in 1..Len(found) :
             answer = [name |-> found[k].name,
                       status |->
                         IF \E j \in DOMAIN targets :
                               /\ targets[j].name = found[k].name
                               /\ ~targets[j].enabled
                         THEN "offline"
                         ELSE IF found[k].reason = "available" THEN "healthy"
                         ELSE "unhealthy"]
      BY <2>3, <2>4, <2>10, Zenon DEF Health
    <3>2. /\ answer.name = found[k].name
          /\ found[k].reason = "available"
          /\ \A j \in DOMAIN targets :
                targets[j].name = found[k].name => targets[j].enabled
      BY <2>10, <3>1
    <3>3. PICK t \in ToSet(list) : t.name = found[k].name /\ WasListed(op, t)
      BY <2>8, <3>2
    <3>4. PICK i \in DOMAIN targets : targets[i] = t
      BY <2>9
    <3>5. QED  BY <3>2, <3>3, <3>4
  <2>11. NamesIn(found) = NamesIn(list)
    <3>1. \A name : name \in NamesIn(list) <=>
             \E t \in ToSet(list) : t.name = name
      BY <2>6 DEF NamesIn
    <3>2. \A name : name \in NamesIn(found) <=>
             \E i \in 1..Len(found) : found[i].name = name
      BY <2>4 DEF NamesIn
    <3>3. ASSUME NEW name \in NamesIn(found)
          PROVE  name \in NamesIn(list)
      BY <2>8, <3>1, <3>2
    <3>4. ASSUME NEW name \in NamesIn(list)
          PROVE  name \in NamesIn(found)
      <4>1. PICK t \in ToSet(list) : t.name = name
        BY <3>1
      <4>2. PICK i \in 1..Len(found) : found[i].name = t.name
        BY <2>8
      <4>3. QED  BY <3>2, <4>1, <4>2
    <3>5. QED  BY <3>3, <3>4
  <2>12. Len(found) = Len(list)
    <3>1. \A i, j \in 1..Len(list) : list[i].name = list[j].name => i = j
      <4>1. \A i \in 1..Len(list) : list[i] \in ToSet(list)
        BY <2>6
      <4>2. \A t, u \in ToSet(list) : t.name = u.name => t = u
        BY <1>1, <2>2, <2>5, RelevantTyped
      <4>3. QED  BY <2>6, <4>1, <4>2 DEF IsInjective
    <3>2. Cardinality(NamesIn(list)) = Len(list)
      BY <2>6, <3>1, NamesCounted
    <3>3. Cardinality(NamesIn(found)) = Len(found)
      BY <2>4, <2>8, NamesCounted DEF Results
    <3>4. QED  BY <2>11, <3>2, <3>3
  <2>13. QED  BY <2>3, <2>5, <2>10, <2>11, <2>12
<1>2. QED  BY <1>1, AlwaysAccounted, PTL

=============================================================================
