SPECIFICATION Spec
CONSTANTS
  k1 = k1
  k2 = k2
  Procs = {w}
  Writers = {w}
  KeyOrder <- Keys2
  Name <- MCName
  Vals = {x}
  Addrs = {a1, a2}
  MaxVer = 2
  LogCap = 2
  NoAddr = NoAddr
  NoKey = NoKey
  Junk = Junk
  NotFound = NotFound
INVARIANTS
  TypeOK
  MapsAgree
  AckedPutReadable
PROPERTY VersionsImmutable
SYMMETRY AddrSymmetry
