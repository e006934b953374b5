SPECIFICATION Spec
CONSTANTS
  Commands = {c1, c2}
  MaxTokens = 3
INVARIANTS
  StoredUnspent
  AskedOnce
PROPERTIES
  NeverForgotten
