\* The order of the end blockers of the democracy application; a validator is
\* jailed in the block of the changeover.
SPECIFICATION Spec
CONSTANTS
    Keys = {k1, k2}
    Powers = {0, 1}
    Orders = {TRUE}
    EntryChoices = {1}
    MaxHeight = 4
INVARIANTS OldValidatorsRemoved
CHECK_DEADLOCK FALSE
