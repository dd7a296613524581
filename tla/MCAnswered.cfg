SPECIFICATION FairSpec
CONSTANTS
  alice = alice  bob = bob  carol = carol
  goblin = goblin  troll = troll
  w1 = w1  w2 = w2
  addrA = addrA  addrB = addrB  k1 = k1  k2 = k2
  None = None
  Names = {goblin}
  Pubkeys = {alice, bob}
  Workers = {w1}
  PayMode = "off"
  DbFaults = TRUE
  Offers <- PriceOffers
  Proofs <- PriceProofs
  Excesses = {k1}
  Addresses = {addrA, addrB}
  MaxI64 = 1
  MaxOfferTtl = 2
  Grace = 1
  MinConf = 2
  MaxTime = 2
  MaxHeight = 3
INVARIANT RecordedPriceExact
PROPERTY RequestsAnswered
