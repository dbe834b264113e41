\* Nothing lost, one connection, one snapshot: only the prefix is unusual.
SPECIFICATION PreseekSpec
CONSTANTS
  Prices = {1, 2, 3}
  Sizes = {1}
  MAX_PENDING_DELTAS = 4
  MAX_APPLIED_TAIL = 2
  MaxEpochs = 1
  MaxSeq = 3
  MaxResnapshots = 0
  MaxLost = 0
  FirstBooks <- OneBook
INVARIANT PrefixIsHarmless
CHECK_DEADLOCK FALSE
