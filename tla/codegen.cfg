\* Functions over three parameters and two upvalues, compiled and run.  Operands
\* of 3 bits, K indices of 1 bit, integers of 6 bits.
CONSTANTS
  MaxC = 7
  MaxB = 1
  MaxBx = 1
  Width = 6
  Params <- MCParams
  Upvalues <- MCUpvalues
  MaxToStore = 2
  NRegs = 14
  Varargs <- MCVarargs
  Programs <- MCPrograms
  Compiled <- CompileFunction
  Meaning <- RunBody
  Accepted <- Legal
SPECIFICATION Spec
INVARIANTS ResultAgrees RefusesExactly AssertsHold CodeWellFormed
