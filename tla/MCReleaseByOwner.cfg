SPECIFICATION Spec
CONSTANTS
  alice = alice  bob = bob  carol = carol
  goblin = goblin  troll = troll
  w1 = w1  w2 = w2
  addrA = addrA  addrB = addrB  k1 = k1  k2 = k2
  None = None
  Names = {goblin}
  Pubkeys = {alice, bob}
  Workers = {w1, w2}
  PayMode = "off"
  DbFaults = FALSE
  Offers <- NoOffers
  Proofs <- NoProofs
  Excesses = {}
  Addresses = {}
  MaxI64 = 1
  MaxOfferTtl = 2
  Grace = 1
  MinConf = 1
  MaxTime = 0
  MaxHeight = 1
PROPERTY ReleaseByOwner
