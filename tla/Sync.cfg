CHECK_DEADLOCK FALSE
SPECIFICATION Spec
CONSTANTS
  a = a
  b = b
  r1 = r1
  r2 = r2
  r3 = r3
  t = t
  Server = Server
  Nil = Nil
  Machines = {a, b}
  Trees = {t}
  Owner <- MCOwner
  Flush = 2
  Scripts = {r1, r2, r3}
  ScriptOn <- MCScriptOn
  Rounds = 2
  MaxFaults = 1
INVARIANTS
  OneScript
  PeersAgree
PROPERTY
  Delivers
