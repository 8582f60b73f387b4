SPECIFICATION Spec
CONSTANTS
  w1 = w1  w2 = w2  w3 = w3  t1 = t1  v1 = v1  v2 = v2  q1 = q1  q2 = q2
  r1 = r1  r2 = r2  s1 = s1  a1 = a1  a2 = a2  h1 = h1  h2 = h2
  Null = Null
  Workers = {w1, w2}
  Transfers = {t1}
  Records = {v1}
  Requests = {q1}
  Refs = {r1}
  Signers = {s1}
  Signatures = {a1}
  Heights = {}
  Hashes = {}
PROPERTIES ApprovalsOnlyWhileOpen
CHECK_DEADLOCK FALSE
