CONSTANTS
  Programs <- Maybes
  CallKinds <- TwoKinds
SPECIFICATION Spec
INVARIANT LocalsAreChecked

