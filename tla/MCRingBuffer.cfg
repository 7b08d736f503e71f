CONSTANTS
  Capacity = 3
  Bytes = {b0, b1}
  Zero = b0
  MaxBytes = 8
  b0 = b0
  b1 = b1
SPECIFICATION Spec
INVARIANTS TypeOK Conserved WrapMeansStraddling ViewIntact
PROPERTIES ImplementsFifo
\* ce_rb_free ends the life of the ring
CHECK_DEADLOCK FALSE
