SPECIFICATION Spec
CONSTANTS
  t1 = t1
  t2 = t2
  t3 = t3
  server = server
  cli = cli
  p1 = p1
  p2 = p2
  v1 = v1
  v2 = v2
  a = a
  NoThread = NoThread
  NoKey = NoKey
  NoCipher = NoCipher
  NoCred = NoCred
  Threads = {t1, t3}
  Procs = {server, cli}
  ProcOf <- OneEach
  Creds = {a}
  Passwords = {p1, p2}
  Values = {v1}
  MaxSalt = 3
  MaxLogs = 1
INVARIANTS
  TypeOK
  OthersReadable
  HistoryReadable
  RuntimeHoldsStoredKey
PROPERTIES
  KeepsCredentials
