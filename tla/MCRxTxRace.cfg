CONSTANTS
  BufNum = 3
  Tasks = {app, rx}
  Rx = rx
  h1 = h1
  h2 = h2
  a1 = a1
  a2 = a2
  Hosts = {h1, h2}
  Addrs = {a1, a2}
  Owns <- MCOwns
  TableSize = 1
  Attempts = 2
  EemCap = 1
  Exclusive = FALSE
  None = None
  Bcast = Bcast
SPECIFICATION Spec
INVARIANT OneOwner
