CONSTANTS
    Backends <- MCBackends
    Google <- MCGoogle
    Texts <- MCTexts
    Configurations <- MCConfigurations
    CatalogChoices <- MCCatalogChoices
    Startup = startup
    Reads = {r1}
SPECIFICATION Spec
INVARIANTS
    TypeOK
    ServesVerifiedModels
    HealthHonest
