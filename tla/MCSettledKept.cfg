SPECIFICATION Spec
CONSTANTS
  alice = alice  bob = bob  goblin = goblin  troll = troll
  w1 = w1  w2 = w2  w3 = w3  i1 = i1  i2 = i2
  None = None
  PayMode = "name"
  Names = {goblin}
  Pubkeys = {alice}
  Workers = {w1, w2}
  Invoices = {i1, i2}
  DbFaults = FALSE
SYMMETRY PaidSymmetry
PROPERTY SettledInvoiceKept
