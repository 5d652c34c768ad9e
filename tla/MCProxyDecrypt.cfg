SPECIFICATION Spec
CONSTANTS
  chat = chat
  stream = stream
  embed = embed
  kOld = kOld
  kNew = kNew
  kOdd = kOdd
  p = p
  q = q
  odd = odd
  Requests = {chat, stream, embed}
  Streaming = {stream}
  Embedding = {embed}
  Keys = {kOld, kNew, kOdd}
  Providers = {p, q, odd}
  ProviderOf <- MCProviderOf
  Known = {p, q}
  Legacy = {kOld}
  MaxPermits = 1
  MaxTries = 3
  Fallback = TRUE
  None = None
PROPERTIES
  DecryptsOwnKeys
