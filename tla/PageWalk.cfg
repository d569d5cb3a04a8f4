SPECIFICATION Spec
CONSTANTS
    Ids = {1, 2, 3, 4}
    Keys = {1, 2}
    Sizes = {1, 2}
    MaxWrites = 2
    MaxResorts = 2
INVARIANTS CursorMissesNothing CursorRepeatsOnlyMoved OffsetIsExactForAppends RefusedForAReason
