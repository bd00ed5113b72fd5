SPECIFICATION Spec
CHECK_DEADLOCK FALSE
INVARIANTS
  PaillierArithmetic OnlyGoodModuli KeyProofs CommitmentsOpen
  RangeProofsVerify MtaSharesAddUp VerifiersAgree
  AlgebraIsTheGroup SignaturesVerify LogarithmProofs
  SharesReconstruct KeysDeriveTogether StreamsAgree
