\* Three keys that are standalone validators, provider validators, both or none;
\* the upgrade at any height, with both orders of the end blockers; the staking
\* set changes up to the block of the changeover.  The chain may halt, see
\* HaltsOnlyWithCause.
SPECIFICATION Spec
CONSTANTS
    Keys = {k1, k2, k3}
    Powers = {0, 1}
    Orders = {TRUE, FALSE}
    EntryChoices = {1, 3}
    MaxHeight = 5
SYMMETRY KeySymmetry
INVARIANTS FirstHeightExact HandedOver HaltsOnlyWithCause
PROPERTIES HistoricalRange
CHECK_DEADLOCK FALSE
