CONSTANT
  Operands <- MCOperands
SPECIFICATION AluSpec
INVARIANTS
  CarriesAreExact
  DecimalArithmetic
