SPECIFICATION Spec
CONSTANTS
  Workers = {w1}
  Versions = {1, 2, 3}
  Items <- ThreeItems
  Keys = {"a", "b", "c"}
  Values = {"x", "y"}
  Ids = {1, 2, 3, 4, 5}
  NoRow = NoRow
  MaxCopies = 6
INVARIANTS OneRowPerKey
PROPERTIES SavedExactly RowsReused
