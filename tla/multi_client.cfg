SPECIFICATION MSpec
CONSTANTS
  forth = forth
  back = back
  alone = alone
  s1 = s1
  s2 = s2
  Objects = {o1}
  Nothing = Nothing
  Callers <- MCCallers
  Servers <- MCServers
INVARIANTS
  SentEverywhere
