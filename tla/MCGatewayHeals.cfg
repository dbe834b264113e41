\* Deltas lost to a failed produce: crossed books and the heal that ends them.
SPECIFICATION Spec
CONSTANTS
  Prices = {1, 2, 3}
  Sizes = {1}
  MAX_PENDING_DELTAS = 4
  MAX_APPLIED_TAIL = 2
  MaxEpochs = 1
  MaxSeq = 4
  MaxResnapshots = 2
  MaxLost = 1
  FirstBooks <- NarrowBook
PROPERTIES HealRestoresTheBook HealKeepsProgress
CHECK_DEADLOCK FALSE
