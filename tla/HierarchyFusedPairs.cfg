\* One related pair, selected by the backbone against the order of its names.
SPECIFICATION Spec
CONSTANTS
    Parameters = {1, 2, 3, 4}
    Alpha = 1
    Beta = 1
    Gamma = 1
    Graphs <- MCGraphs
    SettingsChoices <- MCSettingsChoices
    MaxPairs = 1
INVARIANT
    FusionCombinesComponents
CHECK_DEADLOCK FALSE
