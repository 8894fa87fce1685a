SPECIFICATION CryptoSpec
CONSTANTS
  x80 = x80
  x00 = x00
  Others = {x41}
  BlkLen = 3
  MaxLen = 7
INVARIANT ReverseTheProcess
