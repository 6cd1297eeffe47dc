\* Up to three related pairs of four parameters, and four settings.
SPECIFICATION Spec
CONSTANTS
    Parameters = {1, 2, 3, 4}
    Alpha = 1
    Beta = 1
    Gamma = 1
    Graphs <- MCGraphs
    SettingsChoices <- MCSettingsChoices
    MaxPairs = 3
INVARIANTS
    TypeOK
    LinksClimb
    BuildersAgree
    EvidenceFormsModules
    DefaultsCollapse
PROPERTY
    ImplementsPartition
CHECK_DEADLOCK FALSE
