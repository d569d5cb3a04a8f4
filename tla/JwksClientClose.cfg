SPECIFICATION FairSpec
CONSTANTS
  Tasks = {t1}
  k1 = k1
  k2 = k2
  rs256 = rs256
  rs384 = rs384
  Kids = {k1, k2}
  Algs = {rs256, rs384}
  Documents <- MCDocuments
  MaxKeys = 3
  CacheTtl = 3
  Cooldown = 2
  MaxTime = 2
  MaxCloses = 1
PROPERTIES CloseWaitsForRequests
