CONSTANTS
  T1 = T1
  T2 = T2
  Template = {T1, T2}
  NoTemplate = NoTemplate
  Sources <- MCSources
SPECIFICATION Spec
INVARIANTS
  OutputIsLegal
  TextMeansSource
  MistakesAreFatal
  UnusedAreUnattached
CHECK_DEADLOCK FALSE
