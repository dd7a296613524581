SPECIFICATION Spec
CONSTANTS
  e1 = e1  e2 = e2
  w1 = w1  w2 = w2
  alice = alice  ip = ip
  None = None
  Events = {e1, e2}
  Created <- MCCreated
  Signed <- MCSigned
  Workers = {w1, w2}
  Ips = {ip}
  Pubkeys = {alice}
  MaxAge = 1
  Skew = 1
  MaxTime = 3
  RateWindow <- MCWindow
  Max <- MCMax
  CleanupAt = 1
  Letters <- MCLetters
  NameMin = 2
  NameMax = 4
  Domain <- MCDomain
  BuiltIn = {}
  Listed = {}
  Spellings <- MCSpellings
INVARIANT CooldownExact
