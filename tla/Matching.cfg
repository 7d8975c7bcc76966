SPECIFICATION Spec
CONSTANTS
  p1 = p1
  mc = mc
  mac = mac
  amp = amp
  word = word
  Product = {p1, p2}
  Store = {s1}
  Name = {amp, word}
  Key = {mc, mac}
  Code = {c1}
  Rule = {r1}
  Batch = {b1}
  Global = Global
  None = None
  Plain <- MCPlain
  Stored <- MCStored
  Title <- MCTitle
  Score <- MCScore
  Condition <- MCCondition
  Priority = {0}
  ForeignKeys = {TRUE, FALSE}
INVARIANTS MatchSound SessionAgrees
PROPERTIES  StoresApart MergeRemembers
CHECK_DEADLOCK FALSE
