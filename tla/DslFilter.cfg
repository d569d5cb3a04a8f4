SPECIFICATION Spec
CONSTANTS
    Values = {1, 2}
    Fields <- MCFields
    Rows <- MCRows
    Conditions <- MCConditions
    Text <- MCText
    Lower <- MCLower
    MaxOpen = 3
INVARIANTS SqlSelectsNoMore SameWithoutNulls EveryCallSound
