SPECIFICATION Spec
CONSTANTS
  Params <- MCParams
  CodeParam = "code"
  FactParam = "fcode"
  ReadOnly = {"shown"}
  InMemory = {"locked"}
  PaswwPrt <- MCPaswwPrt
  ListOf <- MCListOf
  Klin = TRUE
INVARIANT EditAuthorised
PROPERTY ModesSpec
