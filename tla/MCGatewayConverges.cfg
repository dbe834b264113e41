\* No losses, everything buffered: convergence for every cross-topic order.
SPECIFICATION Spec
CONSTANTS
  Prices = {1, 2, 3}
  Sizes = {1}
  MAX_PENDING_DELTAS = 4
  MAX_APPLIED_TAIL = 2
  MaxEpochs = 2
  MaxSeq = 2
  MaxResnapshots = 2
  MaxLost = 0
  FirstBooks <- WideBook
INVARIANTS TypeOK   BboIsTop
 
CHECK_DEADLOCK FALSE
