CONSTANTS
  k1 = k1
  k2 = k2
  k3 = k3
  v1 = v1
  Keys <- MCKeys
  Vals = {v1}
  Hash <- MCHash
  DICT_HT_INITIAL_SIZE = 1
  dict_force_resize_ratio = 1
  Sizes = {1, 4}
  Steps = {1, 9}
  WordBits = 4
SPECIFICATION Spec
INVARIANT ScanComplete
\* the dictionary may stop with a dangling iterator
CHECK_DEADLOCK FALSE
