CONSTANTS
    Tenants = {t1}
    t1 = t1
    NoTenant = NoTenant
    PolicyIds = {LegacyBalanced, a}
    LegacyBalanced = LegacyBalanced
    NoPolicy = NoPolicy
    NoRegion = NoRegion
    Requests = {q1}
    Exclusions <- MCExclusions
    Ids <- MCIds
    TaskGroups <- MCTaskGroups
    Multimodal <- MCMultimodal
    Priorities <- MCPriorities
    Configs <- MCConfigs
    RegistryOrder <- MCRegistryOrder
    Regions <- MCRegions
    Classifications <- MCClassifications
    SortKey <- MCSortKey
    PolicyKinds <- MCPolicyKinds
    GovernanceRules <- MCGovernanceRules
    Contexts <- MCTwoContexts
    MaxVersions = 2
    MaxRounds = 1
SPECIFICATION Spec
CHECK_DEADLOCK FALSE
INVARIANTS
    TypeOK
    GovernedSinceRound
    AuditReproducible
    AuditedOnce
