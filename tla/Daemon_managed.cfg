\* Two managed clients and their servers on one socket path, with crashes, upgrades
\* and probes that time out.
SPECIFICATION FairSpec
CONSTANTS
  Servers = {p1, p2}
  Clients = {c1, c2}
  Callers = {k1, k2}
  None = None
  Stale = Stale
  Ops = {"ensure", "call", "close"}
  MaxCalls = 2
  Events = {"crash", "retire", "slow"}
PROPERTIES StartedIsOwnedOrDead ExitLeavesNoSocket CallsReturn
CHECK_DEADLOCK FALSE
