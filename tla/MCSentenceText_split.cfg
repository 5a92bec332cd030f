CONSTANTS
  Bare = Bare
  Rejected = Rejected
  Tokens = {a, b}
  MaxWords = 2
  MaxTerm = 2
  BareTerms = {}
  NewTokens = {x}
  NewTerms = {0}
  MaxNew = 1
SPECIFICATION Spec
INVARIANT SoloEditLandsAsSpecified
