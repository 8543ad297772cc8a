CONSTANTS
    NumNodes <- MCNumNodes
    Tests <- MCTests
SPECIFICATION Spec
INVARIANT PlacementSound
INVARIANT AutoPlacementSorted
INVARIANT FailuresExact
