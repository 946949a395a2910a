\* A ring of 4 slots and a stream of 9 bytes: the ring wraps twice, slides,
\* and the offsets a record can name go beyond the stream to the largest u64.
CONSTANTS
    Capacity = 4
    MaxStream = 9
    MaxOffset = 12
SPECIFICATION Spec
INVARIANTS RingHoldsStream
PROPERTIES NeverReissued ImplementsStream
