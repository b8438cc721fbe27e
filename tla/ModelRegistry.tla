--------------------------- MODULE ModelRegistry ---------------------------
(***************************************************************************)
(* The registry of task providers (registry/model_registry.py), and the    *)
(* validator that holds a router's decision against what the registry      *)
(* offers (validation/decision_validator.py).  Nothing here awaits: a call *)
(* is one step, a query is an operator.                                    *)
(*                                                                         *)
(* Provider ids are numbers, ordered as the code orders the strings.  Of a *)
(* ProviderConfig only the fields that the queries read are kept.          *)
(***************************************************************************)
EXTENDS Integers, FiniteSets, SequencesExt, Listing

CONSTANTS
    Ids,            \* provider ids
    TaskGroups,
    Multimodal,     \* TaskGroup.MULTIMODAL
    Priorities

ASSUME RegistryAssumption ==
    /\ Ids \subseteq Nat
    /\ Multimodal \in TaskGroups
    /\ Priorities \subseteq Nat

VARIABLES
    providers,      \* _providers: a function on the registered ids
    order           \* _order

vars == <<providers, order>>

\* A ProviderConfig that Settings accepts: the multimodal ones take images.
ProviderConfig ==
    {config \in [enabled : BOOLEAN, task_group : TaskGroups,
                 image : BOOLEAN, priority : Priorities] :
        config.task_group = Multimodal => config.image}

Registered == DOMAIN providers

\* Types, and that the two structures never part: _order lists each
\* registered id once, so list_providers neither raises nor repeats.
TypeOK ==
    /\ Registered \subseteq Ids
    /\ providers \in [Registered -> ProviderConfig]
    /\ order \in Seq(Registered)
    /\ ToSet(order) = Registered
    /\ IsInjective(order)

Init ==
    /\ providers = [id \in {} |-> id]
    /\ order = << >>

-----------------------------------------------------------------------------
(* The operations                                                          *)

\* Mutant of Register: a known id is listed again.
RegisterAgain(id, config) ==
    /\ \A other \in Registered \ {id} :
          providers[other].task_group = config.task_group
          => providers[other].priority # config.priority
    /\ order' = Append(order, id)
    /\ providers' = [known \in Registered \cup {id} |->
                        IF known = id THEN config ELSE providers[known]]

\* register: a known id keeps its place and gets a new configuration.  The
\* configured priorities are unique within a group.
Register(id, config) ==
    /\ \A other \in Registered \ {id} :
          providers[other].task_group = config.task_group
          => providers[other].priority # config.priority
    /\ order' = IF id \in Registered THEN order ELSE Append(order, id)
    /\ providers' = [known \in Registered \cup {id} |->
                        IF known = id THEN config ELSE providers[known]]

\* list.remove takes out the first occurrence.
RemoveProvider(id) ==
    /\ id \in Registered
    /\ providers' = [known \in Registered \ {id} |-> providers[known]]
    /\ order' = RemoveFirst(order, id)

\* enable and disable.
SetEnabled(id, enabled) ==
    /\ id \in Registered
    /\ providers' = [providers EXCEPT ![id].enabled = enabled]
    /\ UNCHANGED order

Next ==
    \E id \in Ids :
        \/ \E config \in ProviderConfig : Register(id, config)
        \/ RemoveProvider(id)
        \/ \E enabled \in BOOLEAN : SetEnabled(id, enabled)

Spec == Init /\ [][Next]_vars

-----------------------------------------------------------------------------
(* The queries                                                             *)

\* available_for_router: the ids of the AvailableProviders.
AvailableForRouter(excluded) ==
    Filtered(order, {id \in ToSet(order) : providers[id].enabled} \ excluded)

\* What both queries below ask of a provider.  `allowed` is the list of ids
\* that governance left and policy ranked; the engine always passes one.
Usable(id, image, allowed) ==
    /\ providers[id].enabled
    /\ id \in ToSet(allowed)
    /\ image => providers[id].image

\* Mutant of AvailableTaskGroups: requires_image is ignored.
AvailableTaskGroupsTextOnly(allowed, image) ==
    {providers[id].task_group :
        id \in {known \in ToSet(order) : Usable(known, FALSE, allowed)}}

\* available_task_groups.
AvailableTaskGroups(allowed, image) ==
    {providers[id].task_group :
        id \in {known \in ToSet(order) : Usable(known, image, allowed)}}

\* The pairs of ids of which the first sorts before the second by the key
\* (priority, id).
ByPriority ==
    {pair \in Registered \X Registered :
        LET first == providers[pair[1]].priority
            second == providers[pair[2]].priority
        IN  first < second \/ (first = second /\ pair[1] < pair[2])}

\* The candidates, before they are sorted.
Candidates(group, image, excluded, allowed) ==
    {id \in ToSet(order) \ excluded :
        providers[id].task_group = group /\ Usable(id, image, allowed)}

\* Mutant of CandidatesFor: the policy's order is lost.
CandidatesForByPriority(group, image, excluded, allowed, preserve) ==
    Sorted(Candidates(group, image, excluded, allowed), ByPriority)

\* candidates_for.  Every candidate is in `allowed`, so its place there
\* decides alone when the order of `allowed` is to be preserved.
CandidatesFor(group, image, excluded, allowed, preserve) ==
    Sorted(Candidates(group, image, excluded, allowed),
           IF preserve THEN Order(allowed) ELSE ByPriority)

-----------------------------------------------------------------------------
(* The validator                                                           *)

NoGroup == "none"

\* A RouterDecision that passed its schema: ANSWER comes with a task group,
\* and nothing else does.
Decisions ==
    {[action |-> "ANSWER", task_group |-> group] : group \in TaskGroups}
    \cup {[action |-> action, task_group |-> NoGroup] :
             action \in {"CLARIFY", "STOP", "RETRY"}}

\* DecisionValidator.validate returns; otherwise it raises.
Valid(decision, groups, image, retry) ==
    /\ decision.action = "RETRY" => retry
    /\ decision.action = "ANSWER" =>
          /\ decision.task_group \in groups
          /\ image => decision.task_group = Multimodal

-----------------------------------------------------------------------------
(* Properties                                                              *)

\* The lists of allowed ids that governance and policy can make of what is
\* available: some of it, in some order.
Rankings(excluded) == SetToAllKPermutations(ToSet(AvailableForRouter(excluded)))

\* The validator and the two queries agree, though each filters on its own:
\* a group is offered to the routers exactly when it has a candidate, so an
\* ANSWER that the validator accepts always has somewhere to go, and an image
\* only goes to providers that take it.
AcceptedAnswerServable ==
    \A excluded \in SUBSET Ids, image, preserve \in BOOLEAN :
    \A allowed \in Rankings(excluded) :
        LET groups == AvailableTaskGroups(allowed, image)
            candidates(group) ==
                CandidatesFor(group, image, excluded, allowed, preserve)
        IN  /\ groups = {group \in TaskGroups : candidates(group) # << >>}
            /\ \A decision \in Decisions :
                  /\ Valid(decision, groups, image, FALSE)
                  /\ decision.action = "ANSWER"
                  => /\ candidates(decision.task_group) # << >>
                     /\ image => \A i \in 1..Len(candidates(decision.task_group)) :
                                    providers[candidates(decision.task_group)[i]].image

\* Governance excludes and policy only reorders: the candidates of a group
\* are the same providers in the policy's order and in the registry's, never
\* one that was not allowed; they stand as `allowed` has them, or by strictly
\* increasing priority.
PolicyOnlyReorders ==
    \A excluded \in SUBSET Ids, image \in BOOLEAN, group \in TaskGroups :
    \A allowed \in Rankings(excluded) :
        LET ranked == CandidatesFor(group, image, excluded, allowed, TRUE)
            listed == CandidatesFor(group, image, excluded, allowed, FALSE)
        IN  /\ ranked = Filtered(allowed, ToSet(listed))
            /\ Len(ranked) = Len(listed)
            /\ \A i \in 1..(Len(listed) - 1) :
                  providers[listed[i]].priority < providers[listed[i + 1]].priority

=============================================================================
