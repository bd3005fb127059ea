CONSTANTS
  Programs <- Ternaries
  CallKinds <- TwoKinds
SPECIFICATION Spec
INVARIANT RepresentationMatches

