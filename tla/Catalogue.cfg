SPECIFICATION Spec
CONSTANTS
  Product = {p1, p2}
  Line = {l1, l2}
  Receipt = {r1}
  Gtin = {g1, g2}
  Client = {c1}
  None = None
  l1 = l1
  l2 = l2
  r1 = r1
  g1 = g1
  ReceiptOf <- MCReceiptOf
  Printed <- MCPrinted
  ForeignKeys = {TRUE, FALSE}
SYMMETRY Symmetry
INVARIANTS CatalogueSound UpcIsOwned
PROPERTIES GtinNotStolen
CHECK_DEADLOCK FALSE
