\* The safety and liveness of the local ledger, one fault allowed.
SPECIFICATION Spec
CONSTANTS
  main = main
  fa = fa
  fb = fb
  fc = fc
  ra = ra
  rb = rb
  xm = xm
  NoOwner = NoOwner
  Main = main
  Remotes = {}
  Sessions <- MCSessions
  HostOf <- MCHostOf
  HomeOf <- MCHomeOf
  Files = {fa, fb, fc}
  SessionOf <- MCSessionOf
  Records = {ra, rb}
  Origin <- MCOrigin
  MaxOut = 1
  SizeLimit = 1
  Runs = {xm}
  RunHost <- MCRunHost
  MaxFaults = 1
INVARIANTS
  TypeOK
  CountedOnce
  NothingInvented
PROPERTIES
  BankSpec
  LossNeedsUnreadFile
  EventuallyPublished
