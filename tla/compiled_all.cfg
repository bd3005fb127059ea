SPECIFICATION Spec
CONSTANTS
    Programs <- All
    CallKinds <- TwoKinds
INVARIANTS
    StartStatesAreStable
    AnalysisIsSound
    SpecializedUnboxes
    EdgesMatchOperands
    TidyCodeIsSafe
PROPERTY
    AnalysisEnds
