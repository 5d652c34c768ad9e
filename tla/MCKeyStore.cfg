SPECIFICATION Spec
CONSTANTS
  t1 = t1
  t2 = t2
  t3 = t3
  server = server
  cli = cli
  p1 = p1
  p2 = p2
  v1 = v1
  v2 = v2
  a = a
  NoThread = NoThread
  NoKey = NoKey
  NoCipher = NoCipher
  NoCred = NoCred
  Threads <- AllThreads
  Procs = {server, cli}
  ProcOf <- TwoProcesses
  Creds = {a}
  Passwords = {p1, p2}
  Values = {v1, v2}
  MaxSalt = 2
  MaxLogs = 1
SYMMETRY Symmetry
INVARIANTS
  TypeOK
  OthersReadable
  HistoryReadable
  RuntimeHoldsStoredKey
PROPERTIES
  KeepsCredentials
