SPECIFICATION Spec
CONSTANTS
  Admins = {anna}
  Passwords = {old, new}
  Logins = {l1, l2}
  Commands = {c1, c2}
  Actions = {"create", "reset-password", "disable", "enable", "cleanup-sessions", "bootstrap"}
  Calls = {g1, g2}
  Slots = 1
  Faults = {"raise"}
  anna = anna  old = old  new = new
  l1 = l1  l2 = l2  c1 = c1  c2 = c2  g1 = g1  g2 = g2
SYMMETRY Alike
INVARIANTS
  TypeOK
  LiveSessionsAreCurrent
  NoLostNote
  NobodyStuck
PROPERTIES
  OnlyResetChangesPassword
  SessionsEndForAReason
