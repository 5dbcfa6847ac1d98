SPECIFICATION Spec
CONSTANTS
  MIN_COL_WIDTH = 3
  Documents <- MCDocuments
  Values = {"a", "aa"}
  PrefixOf <- MCPrefixOf
  Secure = TRUE
  MaxSettings = 1
INVARIANTS TypeOK NumbersName ColourRight TextOnce FormsRight TablesGood
