CONSTANTS
  c1 = c1  c2 = c2  w1 = w1  w2 = w2
  anna = anna  ben = ben  mail = mail  web = web  overlong = overlong  p = p  q = q
  Clients = {c1, c2}
  Workers = {w1, w2}
  Names = {anna, ben}
  Resources = {mail, web, overlong}
  Passwords = {p, q}
  Credentials <- Entered
  NewPasswords = {q}
  NoHash = NoHash
  Long = {overlong}
  Known <- OneUser
  MaxRequests = 3
  MaxFaults = 1
SPECIFICATION Spec
INVARIANTS AddedIsStored
SYMMETRY Symmetric
CHECK_DEADLOCK FALSE
