\* Fragments: broken uploads, crashes and failed opens, two faults in all.
SPECIFICATION Spec
CONSTANTS
  main = main
  peer = peer
  fa = fa
  fb = fb
  ra = ra
  xm = xm
  xp = xp
  NoOwner = NoOwner
  Main = main
  Remotes = {peer}
  Sessions <- MCSessions
  HostOf <- MCHostOf
  HomeOf <- MCHomeOf
  Files = {fa, fb}
  SessionOf <- MCSessionOf
  Records = {ra}
  Origin <- MCOrigin
  MaxOut = 2
  SizeLimit = 1
  Runs = {xm, xp}
  RunHost <- MCRunHost
  MaxFaults = 2
INVARIANTS
  RemoteDoubleNeedsPrune
PROPERTIES
  EventuallyPublished
