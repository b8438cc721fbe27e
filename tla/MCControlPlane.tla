-------------------------- MODULE MCControlPlane --------------------------
(* ControlPlane for TLC: two providers of one group, configured against      *)
(* their priorities, and an image provider that keeps to the EU.             *)
EXTENDS ControlPlane

CONSTANT t1

MCIds == 1..3
MCTaskGroups == {"general", "multimodal"}
MCMultimodal == "multimodal"
MCPriorities == 1..2

Config(group, image, priority) ==
    [enabled |-> TRUE, task_group |-> group, image |-> image,
     priority |-> priority]

MCConfigs == <<Config("general", FALSE, 2), Config("general", TRUE, 1),
               Config("multimodal", TRUE, 1)>>
MCRegistryOrder == <<1, 2, 3>>
MCRegions == <<{}, {}, {"eu"}>>
MCClassifications == <<{"INTERNAL"}, {"INTERNAL", "RESTRICTED"}, {"INTERNAL"}>>
MCSortKey == [kind \in {"cheapest"} |-> <<1, 0, 1>>]
MCPolicyKinds == {"legacy-balanced", "cheapest"}

MCContext(class, region, id) ==
    [data_classification |-> class, region |-> region, policy_id |-> id]
MCContexts == {MCContext("INTERNAL", NoRegion, NoPolicy)}
MCTwoContexts == MCContexts \cup
    {MCContext("RESTRICTED", "us", id) : id \in PolicyIds}

MCExclusions == {{}, {2}, {1, 2, 3}}

MCRule(allowed, denied, regions) ==
    [allowed_provider_ids |-> allowed, denied_provider_ids |-> denied,
     allowed_regions |-> regions]
MCGovernanceRules == {MCRule({1, 2}, {1}, {}), MCRule({}, {}, {"us"})}

\* The operators of Listing are the library's, on the lists of this run.
ASSUME ListingAsLibrary ==
    /\ \A list \in UNION {[1..n -> MCIds] : n \in 0..3}, kept \in SUBSET MCIds :
          Filtered(list, kept) = SelectSeq(list, LAMBDA id : id \in kept)
    /\ \A S \in SUBSET MCIds :
          Sorted(S, {pair \in S \X S : pair[1] < pair[2]})
             = SetToSortSeq(S, LAMBDA first, second : first < second)
    /\ \A list \in SetToAllKPermutations(MCIds) :
          Sorted(ToSet(list), Order(list)) = list

=============================================================================
