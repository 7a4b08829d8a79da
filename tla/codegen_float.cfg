\* An integer literal against an expression that may be a float literal.
CONSTANTS
  MaxC = 7
  MaxB = 1
  MaxBx = 1
  Width = 6
  Params <- MCParams
  Upvalues <- MCUpvalues
  MaxToStore = 2
  NRegs = 14
  Varargs <- MCVarargs
  Programs <- FloatPrograms
  Compiled <- CompileFunction
  Meaning <- RunBody
  Accepted <- Legal
SPECIFICATION Spec
INVARIANT OperandsAgree
