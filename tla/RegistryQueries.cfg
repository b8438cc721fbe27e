CONSTANTS
    Ids = {1, 2, 3}
    TaskGroups = {"general", "multimodal"}
    Multimodal = "multimodal"
    Priorities = {1, 2, 3}
SPECIFICATION Spec
INVARIANTS
    TypeOK
    AcceptedAnswerServable
    PolicyOnlyReorders
