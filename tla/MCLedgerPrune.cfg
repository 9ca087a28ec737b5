\* No fault: a transcript is deleted while a run is collecting.
SPECIFICATION Spec
CONSTANTS
  main = main
  fa = fa
  fb = fb
  fc = fc
  ra = ra
  rb = rb
  xm = xm
  NoOwner = NoOwner
  Main = main
  Remotes = {}
  Sessions <- MCSessions
  HostOf <- MCHostOf
  HomeOf <- MCHomeOf
  Files = {fa, fb, fc}
  SessionOf <- MCSessionOf
  Records = {ra, rb}
  Origin <- MCOrigin
  MaxOut = 1
  SizeLimit = 2
  Runs = {xm}
  RunHost <- MCRunHost
  MaxFaults = 0
PROPERTY
  PruningNeverLoses
