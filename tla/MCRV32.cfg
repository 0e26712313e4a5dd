SPECIFICATION Spec
CONSTANTS
  W = 8
  ExpBits = 3
  Programs <- LawPrograms
  Operands <- MCOperands
  Frms = {0, 5}
CHECK_DEADLOCK FALSE
INVARIANT ArithmeticLaws BitLaws CallLaw FloatLaw
PROPERTY ProgramsEnd
