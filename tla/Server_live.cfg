CONSTANTS
  c1 = c1  c2 = c2  w1 = w1  w2 = w2  a1 = a1
  NoConn = NoConn
  Conns = {c1, c2}
  Workers = {w1}
  Fds = {4, 5}
  ServerFd = 3
  MaxClients = 2
  ClientTries = 1
  Offered = {}
  AddrOf <- OneAddr
  AccountOf <- Accounts
SPECIFICATION SteadySpec
PROPERTIES Served Reaped
CHECK_DEADLOCK FALSE
