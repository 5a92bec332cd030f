CONSTANTS
  Bare = Bare
  Rejected = Rejected
  Tokens = {a, b}
  MaxWords = 2
  MaxTerm = 1
  BareTerms = {}
  NewTokens = {x}
  NewTerms = {0, 1}
  MaxNew = 2
SPECIFICATION Spec
INVARIANT SoloEditLandsAsSpecified
