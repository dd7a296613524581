SPECIFICATION Spec
CONSTANTS
  alice = alice  bob = bob  carol = carol
  goblin = goblin  troll = troll
  w1 = w1  w2 = w2
  addrA = addrA  addrB = addrB  k1 = k1  k2 = k2
  None = None
  Names = {goblin, troll}
  Pubkeys = {alice, bob}
  Workers = {w1, w2}
  PayMode = "off"
  DbFaults = TRUE
  Offers <- TwiceBob
  Proofs <- GoodProof
  Excesses = {k1}
  Addresses = {addrA, addrB}
  MaxI64 = 1
  MaxOfferTtl = 2
  Grace = 1
  MinConf = 1
  MaxTime = 0
  MaxHeight = 2
SYMMETRY WorkerSymmetry
INVARIANTS OneNamePerKey SoldOnce
PROPERTIES OnlySalesMoveNames ImplementsBook
