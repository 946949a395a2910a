------------------------------ MODULE KeyProofs ------------------------------
(***************************************************************************)
(* Proofs about how key is used: the lanes of the kernel (KeyLane), for    *)
(* every capacity, stream and offset bound, and the pool and the circuits  *)
(* of user land (Onion), for every number of users, pipelines, hops and    *)
(* circuits.                                                               *)
(***************************************************************************)
EXTENDS KeyLane, Onion, SequenceTheorems, TLAPS

(***************************************************************************)
(* KeyLane.                                                                *)
(***************************************************************************)
-----------------------------------------------------------------------------
(* Slots of the ring.                                                      *)

LEMMA Wrap ==
    ASSUME NEW x \in Nat, x < 2 * Capacity
    PROVE  x % Capacity = IF x < Capacity THEN x ELSE x - Capacity
BY CapacityAssumption

LEMMA AheadType ==
    ASSUME NEW r \in Slots, NEW s \in Slots
    PROVE  Ahead(r, s) \in Slots
BY CapacityAssumption DEF Ahead, Slots

(* How far a slot is from a read position that moved by n.                 *)
LEMMA AheadAfter ==
    ASSUME NEW r \in Slots, NEW s \in Slots, NEW n \in 0 .. Capacity
    PROVE  /\ (r + n) % Capacity \in Slots
           /\ Ahead((r + n) % Capacity, s) = IF n <= Ahead(r, s) THEN Ahead(r, s) - n
                                             ELSE Ahead(r, s) - n + Capacity
<1>1. (r + n) % Capacity = IF r + n < Capacity THEN r + n ELSE r + n - Capacity
  BY Wrap, CapacityAssumption DEF Slots
<1>2. (r + n) % Capacity \in Slots BY <1>1, CapacityAssumption DEF Slots
<1> QED BY <1>1, <1>2, CapacityAssumption DEF Ahead, Slots

(* The slot i steps on from r is i ahead of it.                            *)
LEMMA AheadOfSlot ==
    ASSUME NEW r \in Slots, NEW i \in Slots
    PROVE  (r + i) % Capacity \in Slots /\ Ahead(r, (r + i) % Capacity) = i
<1>1. (r + i) % Capacity = IF r + i < Capacity THEN r + i ELSE r + i - Capacity
  BY Wrap, CapacityAssumption DEF Slots
<1> QED BY <1>1, CapacityAssumption DEF Ahead, Slots

-----------------------------------------------------------------------------
(* The helpers of the code.                                                *)

(* The ring of l holds the last l.count bytes of the stream, and no other. *)
Holds(l) == \A s \in Slots : l.buf[s] = IF Ahead(l.read, s) < l.count
                                        THEN l.base + Ahead(l.read, s) ELSE Erased

Abs(l) == [base |-> l.base, count |-> l.count]

LEMMA DiscardRing ==
    ASSUME NEW l \in LaneType, Holds(l), NEW n \in 0 .. l.count
    PROVE  /\ DiscardBytes(l, n) \in LaneType /\ Holds(DiscardBytes(l, n))
           /\ Abs(DiscardBytes(l, n)) = Discard(Abs(l), n)
           /\ Leaving(l, n) \subseteq l.base .. l.base + n - 1
<1> DEFINE d == DiscardBytes(l, n)
<1>1. l.read \in Slots /\ l.base \in Nat /\ l.count \in 0 .. Capacity /\ n \in 0 .. Capacity
  BY CapacityAssumption DEF LaneType
<1>2. /\ d.base = l.base + n /\ d.count = l.count - n /\ d.read = (l.read + n) % Capacity
      /\ d.buf = [s \in Slots |-> IF Ahead(l.read, s) < n THEN Erased ELSE l.buf[s]]
  BY DEF DiscardBytes
<1>3. d \in LaneType
  <2>1. d.buf \in [Slots -> Bytes] BY <1>2 DEF LaneType, Bytes
  <2>2. d.read \in Slots BY <1>1, <1>2, AheadAfter
  <2>3. d.count \in 0 .. Capacity /\ d.base \in Nat BY <1>1, <1>2, CapacityAssumption
  <2> QED BY <2>1, <2>2, <2>3 DEF LaneType, DiscardBytes
<1>4. ASSUME NEW s \in Slots
      PROVE  d.buf[s] = IF Ahead(d.read, s) < d.count THEN d.base + Ahead(d.read, s) ELSE Erased
  <2>1. Ahead(l.read, s) \in Slots BY <1>1, AheadType
  <2>2. Ahead(d.read, s) = IF n <= Ahead(l.read, s) THEN Ahead(l.read, s) - n
                           ELSE Ahead(l.read, s) - n + Capacity
    BY <1>1, <1>2, AheadAfter
  <2>3. l.buf[s] = IF Ahead(l.read, s) < l.count THEN l.base + Ahead(l.read, s) ELSE Erased
    BY DEF Holds
  <2>4. d.buf[s] = IF Ahead(l.read, s) < n THEN Erased ELSE l.buf[s] BY <1>2
  <2> HIDE DEF d
  <2> QED BY <1>1, <1>2, <2>1, <2>2, <2>3, <2>4, CapacityAssumption DEF Slots
<1>5. Leaving(l, n) \subseteq l.base .. l.base + n - 1
  <2>1. ASSUME NEW s \in Slots, Ahead(l.read, s) < n
        PROVE  l.buf[s] \in l.base .. l.base + n - 1
    <3>1. Ahead(l.read, s) \in Slots BY <1>1, AheadType
    <3>2. l.buf[s] = l.base + Ahead(l.read, s) BY <1>1, <2>1, <3>1 DEF Holds, Slots
    <3> QED BY <1>1, <2>1, <3>1, <3>2, CapacityAssumption DEF Slots
  <2> QED BY <2>1 DEF Leaving
<1> QED BY <1>2, <1>3, <1>4, <1>5 DEF Holds, Abs, Discard

LEMMA WriteRing ==
    ASSUME NEW l \in LaneType, Holds(l), NEW n \in 1 .. Capacity, l.count + n <= Capacity
    PROVE  LET w == WriteBytes(l, l.base + l.count, n)
           IN  /\ w \in LaneType /\ Holds(w)
               /\ w.base = l.base /\ w.count = l.count + n
<1> DEFINE first == l.base + l.count
           p == (l.read + l.count) % Capacity
           w == WriteBytes(l, first, n)
<1>1. l.read \in Slots /\ l.base \in Nat /\ l.count \in 0 .. Capacity /\ first \in Nat
  BY CapacityAssumption DEF LaneType
<1>2. /\ w.base = l.base /\ w.count = l.count + n /\ w.read = l.read
      /\ w.buf = [s \in Slots |-> IF Ahead(p, s) < n THEN first + Ahead(p, s) ELSE l.buf[s]]
  BY DEF WriteBytes, LaneType
<1>3. p \in Slots BY <1>1, AheadAfter
<1>4. w \in LaneType
  <2>1. ASSUME NEW s \in Slots
        PROVE  (IF Ahead(p, s) < n THEN first + Ahead(p, s) ELSE l.buf[s]) \in Bytes
    <3>1. Ahead(p, s) \in Nat
      <4>1. Ahead(p, s) \in Slots BY <1>3, AheadType
      <4> QED BY <4>1, CapacityAssumption DEF Slots
    <3>2. l.buf[s] \in Bytes BY DEF LaneType
    <3> HIDE DEF p
    <3> QED BY <1>1, <3>1, <3>2 DEF Bytes
  <2>2. w.buf \in [Slots -> Bytes] BY <1>2, <2>1
  <2>3. w.count \in 0 .. Capacity BY <1>1, <1>2, CapacityAssumption
  <2> QED BY <1>1, <1>2, <2>2, <2>3 DEF LaneType, WriteBytes
<1>5. ASSUME NEW s \in Slots
      PROVE  w.buf[s] = IF Ahead(w.read, s) < w.count THEN w.base + Ahead(w.read, s) ELSE Erased
  <2>1. Ahead(l.read, s) \in Slots BY <1>1, AheadType
  <2>2. Ahead(p, s) = IF l.count <= Ahead(l.read, s) THEN Ahead(l.read, s) - l.count
                      ELSE Ahead(l.read, s) - l.count + Capacity
    BY <1>1, AheadAfter
  <2>3. l.buf[s] = IF Ahead(l.read, s) < l.count THEN l.base + Ahead(l.read, s) ELSE Erased
    BY DEF Holds
  <2>4. w.buf[s] = IF Ahead(p, s) < n THEN first + Ahead(p, s) ELSE l.buf[s] BY <1>2
  <2> HIDE DEF w, p
  <2> QED BY <1>1, <1>2, <2>1, <2>2, <2>3, <2>4, CapacityAssumption DEF Slots
<1> QED BY <1>2, <1>4, <1>5 DEF Holds

LEMMA CopyOutReads ==
    ASSUME NEW l \in LaneType, Holds(l), NEW skip \in Nat, NEW n \in Nat, skip + n <= l.count
    PROVE  CopyOut(l, skip, n) = [i \in 0 .. n - 1 |-> l.base + skip + i]
<1>1. ASSUME NEW i \in 0 .. n - 1
      PROVE  l.buf[(l.read + skip + i) % Capacity] = l.base + skip + i
  <2>1. /\ l.read \in Slots /\ l.base \in Nat /\ l.count \in 0 .. Capacity
        /\ skip + i \in Slots /\ skip + i < l.count
    BY CapacityAssumption DEF LaneType, Slots
  <2>2. l.read + skip + i = l.read + (skip + i) BY <2>1 DEF Slots
  <2>3. /\ (l.read + (skip + i)) % Capacity \in Slots
        /\ Ahead(l.read, (l.read + (skip + i)) % Capacity) = skip + i
    BY <2>1, AheadOfSlot
  <2>4. l.buf[(l.read + (skip + i)) % Capacity] = l.base + (skip + i)
    BY <2>1, <2>3 DEF Holds
  <2> QED BY <2>1, <2>2, <2>4
<1> QED BY <1>1 DEF CopyOut

-----------------------------------------------------------------------------
(* The inductive invariant: the ring holds the end of the stream, and what *)
(* left the lane lies before it.                                           *)
Inv ==
    /\ TypeOK
    /\ RingHoldsStream
    /\ OffsetsCountTheStream
    /\ \A b \in spent : b \in Nat /\ b < lane.base

LEMMA LaneFacts ==
    ASSUME Inv
    PROVE  /\ lane \in LaneType /\ Holds(lane)
           /\ lane.base \in Nat /\ lane.count \in 0 .. Capacity /\ lane.count \in Nat
           /\ deposited = lane.base + lane.count /\ deposited \in Nat
BY CapacityAssumption
DEF Inv, TypeOK, RingHoldsStream, OffsetsCountTheStream, Holds, LaneType

(* Discarding n bytes, which become spent, keeps Inv.                      *)
LEMMA DiscardInv ==
    ASSUME Inv, NEW n \in 0 .. lane.count,
           lane' = DiscardBytes(lane, n), spent' = spent \cup Leaving(lane, n),
           deposited' = deposited
    PROVE  Inv' /\ Abs(lane') = Discard(Abs(lane), n)
<1>1. /\ lane' \in LaneType /\ Holds(lane')
      /\ Abs(lane') = Discard(Abs(lane), n)
      /\ Leaving(lane, n) \subseteq lane.base .. lane.base + n - 1
  BY LaneFacts, DiscardRing
<1>2. lane'.base = lane.base + n /\ lane'.count = lane.count - n BY DEF DiscardBytes
<1>3. \A b \in spent' : b \in Nat /\ b < lane'.base BY <1>1, <1>2, LaneFacts DEF Inv
<1>4. TypeOK' BY <1>1, <1>3, LaneFacts DEF TypeOK, Bytes
<1>5. OffsetsCountTheStream' BY <1>2, LaneFacts DEF OffsetsCountTheStream
<1>6. RingHoldsStream' BY <1>1 DEF RingHoldsStream, Holds
<1> QED BY <1>1, <1>3, <1>4, <1>5, <1>6 DEF Inv

LEMMA RefuseInv ==
    ASSUME Inv, UNCHANGED <<lane, deposited, spent>>
    PROVE  Inv'
BY DEF Inv, TypeOK, RingHoldsStream, OffsetsCountTheStream

LEMMA DepositInv ==
    ASSUME Inv, NEW n \in 1 .. Capacity,
           lane' = WriteBytes(DiscardBytes(lane, Overflow(lane, n)), deposited, n),
           spent' = spent \cup Leaving(lane, Overflow(lane, n)),
           deposited' = deposited + n
    PROVE  Inv' /\ Abs(lane') = Deposit(Abs(lane), n)
<1> DEFINE over == Overflow(lane, n)
           kept == DiscardBytes(lane, over)
<1>1. over \in 0 .. lane.count /\ lane.count - over + n <= Capacity
      /\ over = Excess(Abs(lane), n)
  BY LaneFacts, CapacityAssumption DEF Overflow, Excess, Abs
<1>2. /\ kept \in LaneType /\ Holds(kept)
      /\ Abs(kept) = Discard(Abs(lane), over)
      /\ Leaving(lane, over) \subseteq lane.base .. lane.base + over - 1
  BY <1>1, LaneFacts, DiscardRing
<1>3. kept.base = lane.base + over /\ kept.count = lane.count - over BY DEF DiscardBytes
<1>4. deposited = kept.base + kept.count BY <1>1, <1>3, LaneFacts
<1>5. /\ lane' \in LaneType /\ Holds(lane')
      /\ lane'.base = kept.base /\ lane'.count = kept.count + n
  BY <1>1, <1>2, <1>3, <1>4, WriteRing
<1>6. \A b \in spent' : b \in Nat /\ b < lane'.base
  BY <1>1, <1>2, <1>3, <1>5, LaneFacts DEF Inv
<1>7. TypeOK' BY <1>5, <1>6, LaneFacts, CapacityAssumption DEF TypeOK, Bytes
<1>8. OffsetsCountTheStream' BY <1>1, <1>3, <1>5, LaneFacts DEF OffsetsCountTheStream
<1>9. RingHoldsStream' BY <1>5 DEF RingHoldsStream, Holds
<1>10. Abs(lane') = Deposit(Abs(lane), n)
  BY <1>1, <1>3, <1>5, LaneFacts DEF Abs, Deposit, Discard
<1> QED BY <1>6, <1>7, <1>8, <1>9, <1>10 DEF Inv

(* wipe is a discard of everything that also rewinds the ring.             *)
LEMMA WipeInv ==
    ASSUME Inv, WipeAll
    PROVE  Inv' /\ Abs(lane') = Wipe(Abs(lane))
<1>1. /\ lane' = [NewLane EXCEPT !.base = lane.base + lane.count]
      /\ spent' = spent \cup Leaving(lane, lane.count) /\ deposited' = deposited
  BY DEF WipeAll
<1>2. /\ lane'.base = lane.base + lane.count /\ lane'.count = 0 /\ lane'.read = 0
      /\ lane'.buf = [s \in Slots |-> Erased]
  BY <1>1 DEF NewLane
<1>3. lane' \in LaneType
  BY <1>1, LaneFacts, CapacityAssumption DEF NewLane, LaneType, Slots, Bytes
<1>4. Leaving(lane, lane.count) \subseteq lane.base .. lane.base + lane.count - 1
  BY LaneFacts, DiscardRing
<1>5. \A b \in spent' : b \in Nat /\ b < lane'.base BY <1>1, <1>2, <1>4, LaneFacts DEF Inv
<1>6. TypeOK' BY <1>1, <1>3, <1>5, LaneFacts DEF TypeOK, Bytes
<1>7. OffsetsCountTheStream' BY <1>1, <1>2, LaneFacts DEF OffsetsCountTheStream
<1>8. RingHoldsStream'
  BY <1>2, AheadType, CapacityAssumption DEF RingHoldsStream, Slots
<1>9. Abs(lane') = Wipe(Abs(lane)) BY <1>2, LaneFacts DEF Abs, Wipe, Discard
<1> QED BY <1>5, <1>6, <1>7, <1>8, <1>9 DEF Inv

-----------------------------------------------------------------------------
(* Each operation keeps Inv, does what KeyStream does and returns no byte  *)
(* that was spent.                                                         *)

FreshReply == \A i \in DOMAIN reply'.out : reply'.out[i] \notin spent \cup {Erased}

LEMMA Replies ==
    ASSUME NEW e, NEW off
    PROVE  /\ Error(e) = Stream!Error(e) /\ Done(off) = Stream!Done(off)
           /\ DOMAIN Error(e).out = {} /\ DOMAIN Done(off).out = {}
BY DEF Error, Done, Got, Stream!Error, Stream!Done, Stream!Got

LEMMA WithinIsInWindow ==
    ASSUME Inv, NEW off \in Nat, NEW n \in Nat
    PROVE  /\ off < lane.base <=> Stream!Consumed(Abs(lane), off)
           /\ off >= lane.base => (WithinLane(lane, off, n) <=> Stream!InWindow(Abs(lane), off, n))
BY LaneFacts, BoundsAssumption, CapacityAssumption
DEF WithinLane, CheckedAdd, NoSum, Abs, Stream!Consumed, Stream!InWindow, Stream!End

LEMMA RefuseStep ==
    ASSUME Inv, NEW e, Refuse(e)
    PROVE  Inv' /\ Stream!Refuse(e) /\ FreshReply
<1>1. Inv' BY RefuseInv DEF Refuse
<1>2. reply' = Error(e) /\ lane' = lane BY DEF Refuse
<1>3. Stream!Refuse(e) BY <1>2, Replies DEF Stream!Refuse
<1>4. FreshReply BY <1>2, Replies DEF FreshReply
<1> QED BY <1>1, <1>3, <1>4

(* Handing out the n bytes at off, all within the lane.                    *)
LEMMA GotStep ==
    ASSUME Inv, NEW n \in Nat, NEW off \in Nat, off >= lane.base, off - lane.base + n <= lane.count,
           reply' = Got(off, CopyOut(lane, off - lane.base, n))
    PROVE  reply' = Stream!Got(off, Stream!BytesFrom(off, n)) /\ FreshReply
<1>1. off - lane.base \in Nat BY LaneFacts
<1>2. CopyOut(lane, off - lane.base, n) = [i \in 0 .. n - 1 |-> lane.base + (off - lane.base) + i]
  BY <1>1, LaneFacts, CopyOutReads
<1>3. CopyOut(lane, off - lane.base, n) = [i \in 0 .. n - 1 |-> off + i]
  BY <1>2, LaneFacts
<1>4. reply'.out = [i \in 0 .. n - 1 |-> off + i] BY <1>3 DEF Got
<1>5. FreshReply
  <2>1. ASSUME NEW i \in 0 .. n - 1 PROVE off + i \notin spent \cup {Erased}
    BY LaneFacts DEF Inv, Erased
  <2> QED BY <1>4, <2>1 DEF FreshReply
<1> QED BY <1>3, <1>5 DEF Got, Stream!Got, Stream!BytesFrom

LEMMA DepositStep ==
    ASSUME Inv, NEW n \in 0 .. Capacity + 1, DepositBlock(n)
    PROVE  Inv' /\ Stream!DepositBlock(n) /\ FreshReply
<1>1. CASE n = 0 /\ Refuse("EmptyInput") BY <1>1, RefuseStep DEF Stream!DepositBlock
<1>2. CASE n > Capacity /\ Refuse("BlockTooLarge") BY <1>2, RefuseStep DEF Stream!DepositBlock
<1>3. CASE /\ Depositable(n) /\ deposited + n <= MaxStream
           /\ lane' = WriteBytes(DiscardBytes(lane, Overflow(lane, n)), deposited, n)
           /\ spent' = spent \cup Leaving(lane, Overflow(lane, n))
           /\ deposited' = deposited + n /\ reply' = Done(0)
  <2>1. n \in 1 .. Capacity BY <1>3 DEF Depositable
  <2>2. Inv' /\ Abs(lane') = Deposit(Abs(lane), n) BY <1>3, <2>1, DepositInv
  <2>3. Abs(lane') = Stream!Deposit(Abs(lane), n)
    BY <2>2 DEF Deposit, Discard, Excess, Stream!Deposit, Stream!Discard, Stream!Excess
  <2>4. Stream!Depositable(n) /\ Stream!End(Abs(lane)) + n <= MaxStream
    BY <1>3, <2>1, LaneFacts DEF Stream!Depositable, Stream!End, Abs
  <2>5. Stream!DepositBlock(n)
    BY <1>3, <2>3, <2>4, Replies DEF Stream!DepositBlock, Abs
  <2>6. FreshReply BY <1>3, Replies DEF FreshReply
  <2> QED BY <2>2, <2>5, <2>6
<1> QED BY <1>1, <1>2, <1>3 DEF DepositBlock

LEMMA TakeStep ==
    ASSUME Inv, NEW n \in 0 .. Capacity + 1, TakeKey(n)
    PROVE  Inv' /\ Stream!TakeKey(n) /\ FreshReply
<1>1. CASE n = 0 /\ Refuse("EmptyInput") BY <1>1, RefuseStep DEF Stream!TakeKey
<1>2. CASE n > lane.count /\ Refuse("InsufficientKey") BY <1>2, RefuseStep DEF Stream!TakeKey
<1>3. CASE /\ n > 0 /\ n <= lane.count
           /\ lane' = DiscardBytes(lane, n) /\ spent' = spent \cup Leaving(lane, n)
           /\ reply' = Got(lane.base, CopyOut(lane, 0, n)) /\ deposited' = deposited
  <2>1. n \in 0 .. lane.count /\ n \in Nat BY <1>3, LaneFacts
  <2>2. Inv' /\ Abs(lane') = Discard(Abs(lane), n) BY <1>3, <2>1, DiscardInv
  <2>3. Abs(lane') = Stream!Take(Abs(lane), n)
    BY <2>2 DEF Discard, Stream!Take, Stream!Discard
  <2>4. lane.base - lane.base = 0 BY LaneFacts
  <2>5. reply' = Stream!Got(lane.base, Stream!BytesFrom(lane.base, n)) /\ FreshReply
    BY <1>3, <2>1, <2>4, LaneFacts, GotStep
  <2>6. Stream!TakeKey(n)
    BY <1>3, <2>3, <2>5 DEF Stream!TakeKey, Stream!CanTake, Abs
  <2> QED BY <2>2, <2>5, <2>6
<1> QED BY <1>1, <1>2, <1>3 DEF TakeKey

LEMMA PeekStep ==
    ASSUME Inv, NEW n \in 0 .. Capacity + 1, NEW off \in 0 .. MaxOffset, PeekAt(off, n)
    PROVE  Inv' /\ Stream!PeekAt(off, n) /\ FreshReply
<1>1. /\ off \in Nat /\ n \in Nat
      /\ off < lane.base <=> Stream!Consumed(Abs(lane), off)
      /\ off >= lane.base => (WithinLane(lane, off, n) <=> Stream!InWindow(Abs(lane), off, n))
      /\ off >= lane.base <=> ~(off < lane.base)
  BY WithinIsInWindow, CapacityAssumption, BoundsAssumption, LaneFacts
<1>2. CASE n = 0 /\ Refuse("EmptyInput") BY <1>2, RefuseStep DEF Stream!PeekAt
<1>3. CASE n > 0 /\ off < lane.base /\ Refuse("AlreadyConsumed")
  BY <1>1, <1>3, RefuseStep DEF Stream!PeekAt, Abs
<1>4. CASE n > 0 /\ off >= lane.base /\ ~WithinLane(lane, off, n) /\ Refuse("InsufficientKey")
  BY <1>1, <1>4, RefuseStep DEF Stream!PeekAt, Abs
<1>5. CASE /\ n > 0 /\ off >= lane.base /\ WithinLane(lane, off, n)
           /\ reply' = Got(off, CopyOut(lane, off - lane.base, n))
           /\ UNCHANGED <<lane, deposited, spent>>
  <2>1. off - lane.base + n <= lane.count
    BY <1>1, <1>5, LaneFacts DEF Stream!InWindow, Stream!End, Abs
  <2>2. reply' = Stream!Got(off, Stream!BytesFrom(off, n)) /\ FreshReply
    BY <1>1, <1>5, <2>1, GotStep
  <2>3. Stream!PeekAt(off, n) BY <1>1, <1>5, <2>2 DEF Stream!PeekAt, Abs
  <2>4. Inv' BY <1>5, RefuseInv
  <2> QED BY <2>2, <2>3, <2>4
<1> QED BY <1>2, <1>3, <1>4, <1>5 DEF PeekAt

LEMMA ConsumeStep ==
    ASSUME Inv, NEW n \in 0 .. Capacity + 1, NEW off \in 0 .. MaxOffset, ConsumeThrough(off, n)
    PROVE  Inv' /\ Stream!ConsumeThrough(off, n) /\ FreshReply
<1>1. /\ off \in Nat /\ n \in Nat
      /\ off < lane.base <=> Stream!Consumed(Abs(lane), off)
      /\ off >= lane.base => (WithinLane(lane, off, n) <=> Stream!InWindow(Abs(lane), off, n))
      /\ off >= lane.base <=> ~(off < lane.base)
  BY WithinIsInWindow, CapacityAssumption, BoundsAssumption, LaneFacts
<1>2. CASE off < lane.base /\ Refuse("AlreadyConsumed")
  BY <1>1, <1>2, RefuseStep DEF Stream!ConsumeThrough, Abs
<1>3. CASE off >= lane.base /\ ~WithinLane(lane, off, n) /\ Refuse("InsufficientKey")
  BY <1>1, <1>3, RefuseStep DEF Stream!ConsumeThrough, Abs
<1>4. CASE /\ off >= lane.base /\ WithinLane(lane, off, n)
           /\ lane' = DiscardBytes(lane, off - lane.base + n)
           /\ spent' = spent \cup Leaving(lane, off - lane.base + n)
           /\ reply' = Done(off) /\ deposited' = deposited
  <2>1. off - lane.base + n \in 0 .. lane.count
    BY <1>1, <1>4, LaneFacts DEF Stream!InWindow, Stream!End, Abs
  <2>2. Inv' /\ Abs(lane') = Discard(Abs(lane), off - lane.base + n)
    BY <1>4, <2>1, DiscardInv
  <2>3. Abs(lane') = Stream!ConsumeTo(Abs(lane), off, n)
    BY <2>2 DEF Discard, Stream!ConsumeTo, Stream!Discard, Abs
  <2>4. Stream!ConsumeThrough(off, n)
    BY <1>1, <1>4, <2>3, Replies DEF Stream!ConsumeThrough, Abs
  <2>5. FreshReply BY <1>4, Replies DEF FreshReply
  <2> QED BY <2>2, <2>4, <2>5
<1> QED BY <1>2, <1>3, <1>4 DEF ConsumeThrough

LEMMA WipeStep ==
    ASSUME Inv, WipeAll
    PROVE  Inv' /\ Stream!WipeAll /\ FreshReply
<1>1. Inv' /\ Abs(lane') = Wipe(Abs(lane)) BY WipeInv
<1>2. Abs(lane') = Stream!Wipe(Abs(lane))
  BY <1>1 DEF Wipe, Discard, Stream!Wipe, Stream!Discard
<1>3. Stream!WipeAll BY <1>2, Replies DEF WipeAll, Stream!WipeAll, Abs
<1>4. FreshReply BY Replies DEF WipeAll, FreshReply
<1> QED BY <1>1, <1>3, <1>4

LEMMA NextStep ==
    ASSUME Inv, Next
    PROVE  Inv' /\ Stream!Next /\ FreshReply
<1>1. ASSUME NEW n \in 0 .. Capacity + 1, DepositBlock(n) PROVE Inv' /\ Stream!Next /\ FreshReply
  BY <1>1, DepositStep DEF Stream!Next
<1>2. ASSUME NEW n \in 0 .. Capacity + 1, TakeKey(n) PROVE Inv' /\ Stream!Next /\ FreshReply
  BY <1>2, TakeStep DEF Stream!Next
<1>3. ASSUME NEW n \in 0 .. Capacity + 1, NEW off \in 0 .. MaxOffset, PeekAt(off, n)
      PROVE  Inv' /\ Stream!Next /\ FreshReply
  BY <1>3, PeekStep DEF Stream!Next
<1>4. ASSUME NEW n \in 0 .. Capacity + 1, NEW off \in 0 .. MaxOffset, ConsumeThrough(off, n)
      PROVE  Inv' /\ Stream!Next /\ FreshReply
  BY <1>4, ConsumeStep DEF Stream!Next
<1>5. CASE WipeAll BY <1>5, WipeStep DEF Stream!Next
<1> QED BY <1>1, <1>2, <1>3, <1>4, <1>5 DEF Next

LEMMA InitStep == Init => Inv /\ Stream!Init
<1> SUFFICES ASSUME Init PROVE Inv /\ Stream!Init OBVIOUS
<1>1. lane = NewLane /\ deposited = 0 /\ spent = {} BY DEF Init
<1>2. NewLane \in LaneType BY CapacityAssumption DEF NewLane, LaneType, Slots, Bytes
<1>3. RingHoldsStream
  BY <1>1, AheadType, CapacityAssumption DEF RingHoldsStream, NewLane, Slots
<1>4. Inv BY <1>1, <1>2, <1>3 DEF Inv, TypeOK, OffsetsCountTheStream, NewLane
<1>5. Stream!Init
  BY <1>1, Replies DEF Init, Stream!Init, NewLane, Stream!EmptyWindow
<1> QED BY <1>4, <1>5

THEOREM Invariance == Spec => []Inv
<1>1. Init => Inv BY InitStep
<1>2. Inv /\ [Next]_vars => Inv'
  <2>1. Inv /\ UNCHANGED vars => Inv' BY RefuseInv DEF vars
  <2> QED BY <2>1, NextStep
<1> QED BY <1>1, <1>2, PTL DEF Spec

-----------------------------------------------------------------------------
(* The theorems.                                                           *)

(* KeyLane's fields keep their types; count never leaves 0 .. Capacity.    *)
THEOREM TypeCorrect == Spec => []TypeOK
<1>1. Inv => TypeOK BY DEF Inv
<1> QED BY <1>1, Invariance, PTL

(* The ring holds the end of the stream and zeroes everywhere else.        *)
THEOREM RingCorrect == Spec => []RingHoldsStream
<1>1. Inv => RingHoldsStream BY DEF Inv
<1> QED BY <1>1, Invariance, PTL

(* next_offset() + available() counts the bytes deposited.                 *)
THEOREM OffsetsCorrect == Spec => []OffsetsCountTheStream
<1>1. Inv => OffsetsCountTheStream BY DEF Inv
<1> QED BY <1>1, Invariance, PTL

(* No operation returns a byte that already left the lane.                 *)
THEOREM SingleUse == Spec => NeverReissued
<1>1. Inv /\ [Next]_vars => [FreshReply]_vars BY NextStep
<1> QED BY <1>1, Invariance, PTL DEF Spec, NeverReissued, FreshReply

(* The ring buffer implements the window over the stream.                  *)
THEOREM LaneImplementsStream == Spec => ImplementsStream
<1>1. Init => Stream!Init BY InitStep
<1>2. ASSUME Inv, [Next]_vars
      PROVE  [Stream!Next]_(Stream!vars)
  <2>1. CASE UNCHANGED vars BY <2>1 DEF vars, Stream!vars
  <2>2. CASE Next BY <2>2, <1>2, NextStep
  <2> QED BY <1>2, <2>1, <2>2
<1> QED BY <1>1, <1>2, Invariance, PTL DEF Spec, ImplementsStream, Stream!Spec

(***************************************************************************)
(* Onion.                                                                  *)
(***************************************************************************)
(***************************************************************************)
(* Lengths and word counts.                                                *)
(***************************************************************************)

LEMMA LayerType ==
    ASSUME NEW i \in Hop, NEW len \in Nat
    PROVE  LayerLen(i, len) \in Nat /\ LayerLen(i, len) >= len
<1>1. Hops - i \in Nat /\ Header \in Nat BY HopAssumption, LengthAssumption DEF Hop
<1>2. (Hops - i) * Header \in Nat BY <1>1
<1> QED BY <1>2 DEF LayerLen

(* Every message takes a word at least.                                    *)
LEMMA WordsType ==
    ASSUME NEW len \in Nat
    PROVE  Words(len) \in Nat /\ (len > 0 => Words(len) > 0)
<1> DEFINE a == len + WordBytes - 1
           q == a \div WordBytes
<1>1. WordBytes \in Nat /\ WordBytes > 0 /\ a \in Nat BY LengthAssumption
<1>2. q \in Nat /\ a % WordBytes \in 0 .. WordBytes - 1 /\ a = WordBytes * q + (a % WordBytes)
  BY <1>1
<1>3. q = 0 => WordBytes * q = 0 BY <1>1
<1>4. Words(len) = q BY DEF Words
<1> HIDE DEF q
<1> QED BY <1>1, <1>2, <1>3, <1>4

LEMMA LastLayer == ASSUME NEW len \in Nat PROVE LayerLen(Hops, len) = len
<1>1. Hops - Hops = 0 /\ Header \in Nat BY HopAssumption, LengthAssumption
<1>2. 0 * Header = 0 BY <1>1
<1> QED BY <1>1, <1>2 DEF LayerLen

(***************************************************************************)
(* Types.                                                                  *)
(***************************************************************************)
BlockType == [id : KeyId, len : Nat, state : {"Available", "InUse"}]
Record == [keys : [Hop -> KeyId], words : [Hop -> Nat], len : Nat \ {0}, msg : Nat]
Use == [key : KeyId, hop : 0 .. Hops, words : Int, msg : Nat]

PoolOK ==
    /\ nextId \in 0 .. MaxBlocks
    /\ \A b \in blocks : b \in BlockType /\ b.id < nextId
    /\ \A b, c \in blocks : b.id = c.id => b = c
    /\ pad \in [Users -> KeyId \cup {NoKey}]

PipesOK ==
    /\ auth \in [Pipelines -> BOOLEAN]
    /\ DOMAIN building = Pipelines /\ DOMAIN circuits = Pipelines
    /\ \A p \in Pipelines :
          /\ building[p].keys \in Seq(KeyId) /\ Len(building[p].keys) <= Hops
          /\ building[p].keys # <<>> => building[p].id \in CircuitIds
          /\ DOMAIN circuits[p] \subseteq CircuitIds
          /\ \A id \in DOMAIN circuits[p] : circuits[p][id] \in Circuit

HistoryOK ==
    /\ peeled \in [KeyId -> 0 .. MaxWords]
    /\ DOMAIN link = Hop /\ \A i \in Hop : \A r \in link[i] : r \in Record
    /\ \A u \in used : u \in Use
    /\ msgs \in Nat /\ \A u \in used : u.msg < msgs
    /\ sent \in [KeyId -> Seq(Nat)] /\ delivered \in [KeyId -> Seq(Nat)]

Types == PoolOK /\ PipesOK /\ HistoryOK

LEMMA InitTypes == OnionInit => Types
<1> SUFFICES ASSUME OnionInit PROVE Types OBVIOUS
<1>1. PoolOK BY LengthAssumption DEF OnionInit, PoolOK
<1>2. PipesOK
  <2>1. ASSUME NEW p \in Pipelines
        PROVE  /\ building[p].keys = <<>> /\ DOMAIN circuits[p] = {}
    BY DEF OnionInit, NotBuilding
  <2>2. <<>> \in Seq(KeyId) /\ Len(<<>>) <= Hops BY EmptySeq, HopAssumption
  <2>3. /\ DOMAIN building = Pipelines /\ DOMAIN circuits = Pipelines
        /\ auth \in [Pipelines -> BOOLEAN]
    BY DEF OnionInit
  <2> QED BY <2>1, <2>2, <2>3 DEF PipesOK
<1>3. HistoryOK BY LengthAssumption DEF OnionInit, HistoryOK
<1> QED BY <1>1, <1>2, <1>3 DEF Types

LEMMA TypesImply == Types => OnionTypeOK
<1> SUFFICES ASSUME Types PROVE OnionTypeOK OBVIOUS
<1>1. ASSUME NEW b \in blocks
      PROVE  b \in [id : 0 .. nextId - 1, len : Nat, state : {"Available", "InUse"}]
  BY DEF Types, PoolOK, BlockType, KeyId
<1>2. ASSUME NEW p \in Pipelines PROVE building[p].keys \in BoundedSeq(KeyId, Hops)
  <2>1. building[p].keys \in [1 .. Len(building[p].keys) -> KeyId]
    BY LenProperties DEF Types, PipesOK
  <2>2. Len(building[p].keys) \in 0 .. Hops BY HopAssumption DEF Types, PipesOK
  <2> QED BY <2>1, <2>2 DEF BoundedSeq, SeqOf
<1> QED BY <1>1, <1>2 DEF OnionTypeOK, Types, PoolOK, PipesOK, HistoryOK

(* What the acquisition of block b does to the pool.                       *)
LEMMA TakenOK ==
    ASSUME PoolOK, NEW needed, NEW b \in blocks, Acquirable(b, needed), blocks' = Taken(b, needed)
    PROVE  /\ b.id \in KeyId /\ b.id < nextId /\ b.state = "Available"
           /\ \A c \in blocks' : c \in BlockType /\ c.id < nextId
           /\ \A c, d \in blocks' : c.id = d.id => c = d
           /\ \A c \in blocks' : c.id = b.id => c.state = "InUse"
           /\ \A c \in blocks' : c.id # b.id => c \in blocks
<1>1. b \in BlockType /\ b.id < nextId BY DEF PoolOK
<1>2. b.state = "Available" BY DEF Acquirable, Fitting, Available
<1> DEFINE n == [id |-> b.id, len |-> 0, state |-> "InUse"]
<1>3. n \in BlockType /\ n.id = b.id /\ n.state = "InUse" BY <1>1 DEF BlockType
<1>4. blocks' = (blocks \ {b}) \cup {n} BY DEF Taken
<1> HIDE DEF n
<1>5. \A c \in blocks \ {b} : c.id # b.id BY DEF PoolOK
<1> QED BY <1>1, <1>2, <1>3, <1>4, <1>5 DEF PoolOK, BlockType

LEMMA NextTypes == Types /\ [OnionNext]_onionVars => Types'
<1> SUFFICES ASSUME Types, [OnionNext]_onionVars PROVE Types' OBVIOUS
<1> USE HopAssumption, LengthAssumption
<1>0. PoolOK /\ PipesOK /\ HistoryOK BY DEF Types
<1>1. CASE UNCHANGED onionVars
  BY <1>0, <1>1 DEF Types, PoolOK, PipesOK, HistoryOK, onionVars, poolVars, pipeVars, relayVars, historyVars
<1>2. ASSUME NEW len \in BlockSizes, AddKey(len) PROVE Types'
  <2> DEFINE n == [id |-> nextId, len |-> len, state |-> "Available"]
  <2>1. n \in BlockType /\ n.id = nextId BY <1>0, <1>2, PoolAssumption DEF PoolOK, BlockType, KeyId, AddKey
  <2>2. blocks' = blocks \cup {n} /\ nextId' = nextId + 1 /\ nextId < MaxBlocks BY <1>2 DEF AddKey
  <2> HIDE DEF n
  <2>3. PoolOK' BY <1>0, <1>2, <2>1, <2>2 DEF PoolOK, AddKey, BlockType, KeyId
  <2>4. PipesOK' /\ HistoryOK'
    BY <1>0, <1>2 DEF AddKey, PipesOK, HistoryOK, pipeVars, relayVars, historyVars
  <2> QED BY <2>3, <2>4 DEF Types
<1>3. ASSUME NEW u \in Users, NEW len \in PadSizes, Encrypt(u, len) PROVE Types'
  <2>1. PICK b \in blocks : /\ Acquirable(b, len) /\ blocks' = Taken(b, len)
                            /\ pad' = [pad EXCEPT ![u] = b.id]
                            /\ used' = used \cup {[key |-> b.id, hop |-> 0, words |-> Pad, msg |-> msgs]}
    BY <1>3 DEF Encrypt
  <2>2. PoolOK'
    <3>1. nextId' = nextId BY <1>3 DEF Encrypt
    <3>2. len \in Nat BY LengthAssumption
    <3>3. b.id \in KeyId /\ pad \in [Users -> KeyId \cup {NoKey}]
      BY <1>0, <2>1, TakenOK DEF PoolOK
    <3>4. pad' \in [Users -> KeyId \cup {NoKey}] BY <2>1, <3>3
    <3> QED BY <1>0, <2>1, <3>1, <3>4, TakenOK DEF PoolOK
  <2>3. PipesOK'
    <3>1. auth' = auth /\ building' = building /\ circuits' = circuits BY <1>3 DEF Encrypt, pipeVars
    <3> QED BY <1>0, <3>1 DEF PipesOK
  <2>4. [key |-> b.id, hop |-> 0, words |-> Pad, msg |-> msgs] \in Use
    BY <1>0, <2>1, TakenOK DEF Use, Pad, HistoryOK
  <2>5. HistoryOK'
    <3>1. /\ peeled' = peeled /\ link' = link /\ sent' = sent /\ delivered' = delivered
          /\ msgs' = msgs + 1
      BY <1>3 DEF Encrypt, relayVars
    <3>2. \A u1 \in used' : u1 \in Use /\ u1.msg < msgs'
      BY <1>0, <2>1, <2>4, <3>1 DEF HistoryOK, Use
    <3> QED BY <1>0, <3>1, <3>2 DEF HistoryOK
  <2> QED BY <2>2, <2>3, <2>5 DEF Types
<1>4. ASSUME NEW u \in Users, Consume(u) PROVE Types'
  BY <1>0, <1>4 DEF Consume, Types, PoolOK, PipesOK, HistoryOK, pipeVars, relayVars, historyVars
<1>5. ASSUME NEW p \in Pipelines, CompleteAuth(p) \/ BuildFails(p) PROVE Types'
  <2>1. PoolOK' /\ HistoryOK' /\ circuits' = circuits /\ auth' \in [Pipelines -> BOOLEAN]
    BY <1>0, <1>5
       DEF CompleteAuth, BuildFails, PoolOK, PipesOK, HistoryOK, poolVars, relayVars, historyVars
  <2>2. building' = building \/ building' = [building EXCEPT ![p] = NotBuilding]
    BY <1>5 DEF CompleteAuth, BuildFails
  <2>3. /\ NotBuilding.keys = <<>> /\ NotBuilding.keys \in Seq(KeyId)
        /\ Len(NotBuilding.keys) <= Hops
    <3>1. <<>> \in Seq(KeyId) /\ Len(<<>>) = 0 BY EmptySeq
    <3>2. NotBuilding.keys = <<>> BY DEF NotBuilding
    <3> QED BY <3>1, <3>2
  <2>4. PipesOK'
    <3>1. ASSUME NEW q \in Pipelines PROVE building'[q] \in {building[q], NotBuilding}
      BY <1>0, <2>2 DEF PipesOK
    <3>2. ASSUME NEW q \in Pipelines
          PROVE  /\ building'[q].keys \in Seq(KeyId) /\ Len(building'[q].keys) <= Hops
                 /\ building'[q].keys # <<>> => building'[q].id \in CircuitIds
      <4>1. CASE building'[q] = building[q] BY <1>0, <4>1 DEF PipesOK
      <4>2. CASE building'[q] = NotBuilding BY <2>3, <4>2
      <4> QED BY <3>1, <4>1, <4>2
    <3>3. DOMAIN building' = Pipelines BY <1>0, <2>2 DEF PipesOK
    <3> QED BY <1>0, <2>1, <3>2, <3>3 DEF PipesOK
  <2> QED BY <2>1, <2>4 DEF Types
<1>6. ASSUME NEW p \in Pipelines, NEW id \in CircuitIds, TakeHopKey(p, id) PROVE Types'
  <2>1. PICK b \in blocks :
           /\ Acquirable(b, HopKey) /\ blocks' = Taken(b, HopKey)
           /\ building' = [building EXCEPT ![p] = [id |-> id, keys |-> Append(building[p].keys, b.id)]]
    BY <1>0, <1>6 DEF TakeHopKey, PipesOK
  <2>2. PoolOK' BY <1>0, <1>6, <2>1, TakenOK DEF PoolOK, TakeHopKey
  <2>3. b.id \in KeyId BY <1>0, <2>1, TakenOK
  <2>4. building[p].keys \in Seq(KeyId) /\ Len(building[p].keys) < Hops
    BY <1>0, <1>6 DEF PipesOK, TakeHopKey, NotBuilding
  <2>5. /\ Append(building[p].keys, b.id) \in Seq(KeyId)
        /\ Len(Append(building[p].keys, b.id)) <= Hops
    BY <2>3, <2>4, AppendProperties
  <2>6. PipesOK'
    <3>1. ASSUME NEW q \in Pipelines
          PROVE  /\ building'[q].keys \in Seq(KeyId) /\ Len(building'[q].keys) <= Hops
                 /\ building'[q].keys # <<>> => building'[q].id \in CircuitIds
      <4>1. q # p => building'[q] = building[q] BY <1>0, <2>1 DEF PipesOK
      <4>2. q = p => building'[q].keys = Append(building[p].keys, b.id) /\ building'[q].id = id
        BY <1>0, <2>1 DEF PipesOK
      <4> QED BY <1>0, <2>5, <4>1, <4>2 DEF PipesOK
    <3>2. auth' = auth /\ circuits' = circuits /\ DOMAIN building' = Pipelines
      BY <1>0, <1>6, <2>1 DEF TakeHopKey, PipesOK
    <3> QED BY <1>0, <3>1, <3>2 DEF PipesOK
  <2>7. HistoryOK' BY <1>0, <1>6 DEF HistoryOK, TakeHopKey, relayVars, historyVars
  <2> QED BY <2>2, <2>6, <2>7 DEF Types
<1>7. ASSUME NEW p \in Pipelines, Register(p) PROVE Types'
  <2> DEFINE c == [keys |-> building[p].keys, words |-> [i \in Hop |-> 0]]
  <2>1. c \in Circuit /\ building[p].id \in CircuitIds
    BY <1>0, <1>7, LenProperties, EmptySeq DEF Register, PipesOK, Circuit, Hop
  <2>2. PipesOK'
    <3>1. DOMAIN building' = Pipelines /\ DOMAIN circuits' = Pipelines /\ auth' = auth
      BY <1>0, <1>7 DEF Register, PipesOK
    <3>2. ASSUME NEW q \in Pipelines
          PROVE  /\ building'[q].keys \in Seq(KeyId) /\ Len(building'[q].keys) <= Hops
                 /\ building'[q].keys # <<>> => building'[q].id \in CircuitIds
      BY <1>0, <1>7, EmptySeq DEF Register, PipesOK, NotBuilding
    <3>3. ASSUME NEW q \in Pipelines
          PROVE  /\ DOMAIN circuits'[q] \subseteq CircuitIds
                 /\ \A id \in DOMAIN circuits'[q] : circuits'[q][id] \in Circuit
      <4>1. CASE q # p \/ circuits' = circuits BY <1>0, <1>7, <4>1 DEF Register, PipesOK
      <4>2. CASE q = p /\ circuits' # circuits
        <5> DEFINE new == [id \in DOMAIN circuits[p] \cup {building[p].id} |->
                              IF id = building[p].id THEN c ELSE circuits[p][id]]
        <5>1. circuits' = [circuits EXCEPT ![p] = new] BY <1>7, <4>2 DEF Register
        <5>2. circuits'[q] = new BY <1>0, <4>2, <5>1 DEF PipesOK
        <5>3. \A id \in DOMAIN new : new[id] \in Circuit BY <1>0, <2>1 DEF PipesOK
        <5>4. DOMAIN new \subseteq CircuitIds BY <1>0, <2>1 DEF PipesOK
        <5> QED BY <5>2, <5>3, <5>4
      <4> QED BY <4>1, <4>2
    <3> QED BY <1>0, <3>1, <3>2, <3>3 DEF PipesOK
  <2>3. PoolOK' /\ HistoryOK'
    BY <1>0, <1>7 DEF Register, PoolOK, HistoryOK, poolVars, relayVars, historyVars
  <2> QED BY <2>2, <2>3 DEF Types
<1>8. ASSUME NEW p \in Pipelines, NEW id \in CircuitIds, Close(p, id) PROVE Types'
  <2>1. PipesOK' BY <1>0, <1>8 DEF Close, PipesOK
  <2>2. PoolOK' /\ HistoryOK'
    BY <1>0, <1>8 DEF Close, PoolOK, HistoryOK, poolVars, relayVars, historyVars
  <2> QED BY <2>1, <2>2 DEF Types
<1>9. ASSUME NEW p \in Pipelines, NEW id \in CircuitIds, NEW len \in Sizes, Send(p, id, len)
      PROVE  Types'
  <2> DEFINE c == circuits[p][id]
             ok == Sealing(c, len)
             after == [i \in Hop |-> IF i \in ok THEN c.words[i] + Words(LayerLen(i, len)) ELSE c.words[i]]
             r == [keys |-> c.keys, words |-> c.words, len |-> len, msg |-> msgs]
             news == {[key |-> c.keys[i], hop |-> i, words |-> c.words[i], msg |-> msgs] : i \in Hop}
  <2>1. c \in Circuit /\ id \in DOMAIN circuits[p] BY <1>0, <1>9 DEF Send, PipesOK
  <2>2. len \in Nat BY <1>9
  <2>3. ok # {} /\ circuits' = [circuits EXCEPT ![p][id].words = after]
    BY <1>0, <1>9, <2>1 DEF Send, PipesOK, Circuit
  <2>4. after \in [Hop -> 0 .. MaxWords]
    <3>1. ASSUME NEW i \in Hop PROVE after[i] \in 0 .. MaxWords
      <4>1. Words(LayerLen(i, len)) \in Nat BY <2>2, LayerType, WordsType
      <4>2. c.words[i] \in 0 .. MaxWords BY <2>1 DEF Circuit
      <4>3. i \in ok => c.words[i] + Words(LayerLen(i, len)) <= MaxWords
        BY HopAssumption DEF Sealing, Countable, Hop
      <4> QED BY <4>1, <4>2, <4>3
    <3> QED BY <3>1
  <2>5. Hops \in Hop BY DEF Hop
  <2>6. len > 0
    <3>1. PICK i \in Hop : \A j \in i .. Hops : Countable(c.words[j], LayerLen(j, len))
      BY <2>3 DEF Sealing
    <3>2. LayerLen(Hops, len) > 0 BY <3>1 DEF Countable, Hop
    <3> QED BY <2>2, <3>2, LastLayer
  <2>7. r \in Record BY <1>0, <2>1, <2>2, <2>6 DEF Record, Circuit, HistoryOK
  <2>8. \A u \in news : u \in Use /\ u.msg = msgs
    <3> SUFFICES ASSUME NEW i \in Hop
                 PROVE  [key |-> c.keys[i], hop |-> i, words |-> c.words[i], msg |-> msgs] \in Use
      OBVIOUS
    <3>1. c.keys[i] \in KeyId /\ c.words[i] \in Int BY <2>1 DEF Circuit
    <3>2. i \in 0 .. Hops /\ msgs \in Nat BY <1>0 DEF HistoryOK, Hop
    <3> QED BY <3>1, <3>2 DEF Use
  <2>9. /\ msgs' = msgs + 1 /\ peeled' = peeled /\ delivered' = delivered
        /\ \/ /\ link' = [link EXCEPT ![1] = @ \cup {r}] /\ used' = used \cup news
              /\ sent' = [sent EXCEPT ![c.keys[Hops]] = Append(@, msgs)]
           \/ link' = link /\ used' = used /\ sent' = sent
    BY <1>9 DEF Send
  <2>10. [c EXCEPT !.words = after] \in Circuit BY <2>1, <2>4 DEF Circuit
  <2>11. circuits' = [circuits EXCEPT ![p] = [circuits[p] EXCEPT ![id] = [c EXCEPT !.words = after]]]
    BY <1>0, <2>1, <2>3 DEF PipesOK, Circuit
  <2> HIDE DEF c, ok, after, r, news
  <2>12. PipesOK' BY <1>0, <1>9, <2>1, <2>10, <2>11 DEF PipesOK, Send
  <2>13. HistoryOK'
    <3>1. 1 \in Hop BY DEF Hop
    <3>2. \A u \in used' : u \in Use /\ u.msg < msgs' BY <1>0, <2>8, <2>9 DEF HistoryOK, Use
    <3>3. DOMAIN link' = Hop /\ \A i \in Hop : \A x \in link'[i] : x \in Record
      BY <1>0, <2>7, <2>9, <3>1 DEF HistoryOK
    <3>4. sent' \in [KeyId -> Seq(Nat)]
      <4> DEFINE k == c.keys[Hops]
      <4>1. k \in KeyId BY <2>1, <2>5 DEF Circuit
      <4>2. sent[k] \in Seq(Nat) /\ msgs \in Nat BY <1>0, <4>1 DEF HistoryOK
      <4>3. Append(sent[k], msgs) \in Seq(Nat) BY <4>2, AppendProperties
      <4> HIDE DEF k
      <4>4. sent' = sent \/ sent' = [sent EXCEPT ![k] = Append(sent[k], msgs)]
        BY <2>9 DEF k
      <4> QED BY <1>0, <4>1, <4>3, <4>4 DEF HistoryOK
    <3> QED BY <1>0, <2>9, <3>2, <3>3, <3>4 DEF HistoryOK
  <2>14. PoolOK' BY <1>0, <1>9 DEF PoolOK, Send, poolVars
  <2> QED BY <2>12, <2>13, <2>14 DEF Types
<1>10. ASSUME NEW i \in Hop, NEW r \in link[i], Peel(i, r) PROVE Types'
  <2> DEFINE k == r.keys[i]
             more == Words(LayerLen(i, r.len))
  <2>1. r \in Record BY <1>0 DEF HistoryOK
  <2>2. k \in KeyId /\ r.len \in Nat /\ r.msg \in Nat BY <2>1 DEF Record
  <2>3. more \in Nat BY <2>2, LayerType, WordsType
  <2>4. peeled' = [peeled EXCEPT ![k] = @ + more] /\ peeled[k] + more <= MaxWords
    BY <1>10 DEF Peel, Countable
  <2>5. \/ i < Hops /\ link' = [link EXCEPT ![i + 1] = @ \cup {r}] /\ delivered' = delivered
        \/ delivered' = [delivered EXCEPT ![k] = Append(@, r.msg)] /\ link' = link
    BY <1>10 DEF Peel
  <2> HIDE DEF more, k
  <2>6. peeled' \in [KeyId -> 0 .. MaxWords] BY <1>0, <2>2, <2>3, <2>4 DEF HistoryOK
  <2>7. DOMAIN link' = Hop /\ \A j \in Hop : \A x \in link'[j] : x \in Record
    <3>1. DOMAIN link = Hop /\ \A j \in Hop : \A x \in link[j] : x \in Record
      BY <1>0 DEF HistoryOK
    <3>2. CASE link' = link BY <3>1, <3>2
    <3>3. CASE link' = [link EXCEPT ![i + 1] = @ \cup {r}] BY <2>1, <3>1, <3>3
    <3> QED BY <2>5, <3>2, <3>3
  <2>8. delivered' \in [KeyId -> Seq(Nat)]
    <3>1. delivered[k] \in Seq(Nat) BY <1>0, <2>2 DEF HistoryOK
    <3>2. Append(delivered[k], r.msg) \in Seq(Nat) BY <2>2, <3>1, AppendProperties
    <3> QED BY <1>0, <2>2, <2>5, <3>2 DEF HistoryOK
  <2>9. HistoryOK' BY <1>0, <1>10, <2>6, <2>7, <2>8 DEF HistoryOK, Peel, historyVars
  <2>10. PoolOK' /\ PipesOK' BY <1>0, <1>10 DEF Peel, PoolOK, PipesOK, poolVars, pipeVars
  <2> QED BY <2>9, <2>10 DEF Types
<1> QED
  BY <1>1, <1>2, <1>3, <1>4, <1>5, <1>6, <1>7, <1>8, <1>9, <1>10 DEF OnionNext

(* The pool, the circuits and the relays are well typed: add_key_material  *)
(* gives unique ids, no circuit has more keys than hops, no word count of  *)
(* seal or open passes u64::MAX.                                           *)
THEOREM OnionTypeCorrect == OnionSpec => []OnionTypeOK
<1>1. OnionInit => Types BY InitTypes
<1>2. Types /\ [OnionNext]_onionVars => Types' BY NextTypes
<1> QED BY <1>1, <1>2, TypesImply, PTL DEF OnionSpec

(***************************************************************************)
(* Keys.  A key that was acquired never becomes available again, and one   *)
(* hop of one circuit has it.                                              *)
(***************************************************************************)
Gone(k) == k \in 0 .. nextId - 1 /\ \A b \in blocks : b.id = k => b.state = "InUse"

AllGone ==
    /\ \A u \in used : Gone(u.key)
    /\ \A p \in Pipelines : \A i \in DOMAIN building[p].keys : Gone(building[p].keys[i])
    /\ \A p \in Pipelines : \A id \in DOMAIN circuits[p] : \A i \in Hop :
          Gone(circuits[p][id].keys[i])

OneHolder ==
    /\ \A p, q \in Pipelines :
       \A i \in DOMAIN building[p].keys, j \in DOMAIN building[q].keys :
          building[p].keys[i] = building[q].keys[j] => p = q /\ i = j
    /\ \A p, q \in Pipelines : \A i \in DOMAIN building[p].keys, j \in Hop :
       \A id \in DOMAIN circuits[q] : building[p].keys[i] # circuits[q][id].keys[j]
    /\ \A p, q \in Pipelines : \A i, j \in Hop :
       \A id \in DOMAIN circuits[p], jd \in DOMAIN circuits[q] :
          circuits[p][id].keys[i] = circuits[q][jd].keys[j] => p = q /\ id = jd /\ i = j

(* A key of a circuit that is being built was not used, and one of a       *)
(* circuit at its hop and at lower word counts only.                       *)
Counted ==
    /\ \A p \in Pipelines : \A i \in DOMAIN building[p].keys : \A u \in used :
          u.key # building[p].keys[i]
    /\ \A p \in Pipelines : \A id \in DOMAIN circuits[p] : \A i \in Hop : \A u \in used :
          u.key = circuits[p][id].keys[i] =>
             u.hop = i /\ u.words \in Nat /\ u.words < circuits[p][id].words[i]

KeysInv == AllGone /\ OneHolder /\ Counted /\ OneTimeKeys

LEMMA GoneStays ==
    ASSUME Types, [OnionNext]_onionVars, NEW k, Gone(k)
    PROVE  Gone(k)'
<1> USE DEF Gone
<1>0. PoolOK BY DEF Types
<1>1. CASE poolVars' = poolVars BY <1>1 DEF poolVars
<1>2. ASSUME NEW len \in BlockSizes, AddKey(len) PROVE Gone(k)'
  BY <1>0, <1>2 DEF AddKey, PoolOK, BlockType, KeyId
<1>3. ASSUME NEW b \in blocks, NEW needed, Acquirable(b, needed), blocks' = Taken(b, needed),
             nextId' = nextId
      PROVE  Gone(k)'
  BY <1>0, <1>3, TakenOK DEF PoolOK
<1>4. ASSUME NEW u \in Users, NEW len \in PadSizes, Encrypt(u, len) PROVE Gone(k)'
  BY <1>3, <1>4 DEF Encrypt
<1>5. ASSUME NEW u \in Users, Consume(u) PROVE Gone(k)' BY <1>5 DEF Consume
<1>6. ASSUME NEW p \in Pipelines, NEW id \in CircuitIds, TakeHopKey(p, id) PROVE Gone(k)'
  BY <1>3, <1>6 DEF TakeHopKey
<1>7. ASSUME NEW p \in Pipelines, CompleteAuth(p) \/ BuildFails(p) \/ Register(p)
      PROVE  poolVars' = poolVars
  BY <1>7 DEF CompleteAuth, BuildFails, Register, poolVars
<1>8. ASSUME NEW p \in Pipelines, NEW id \in CircuitIds,
             Close(p, id) \/ \E len \in Sizes : Send(p, id, len)
      PROVE  poolVars' = poolVars
  BY <1>8 DEF Close, Send, poolVars
<1>9. ASSUME NEW i \in Hop, NEW r \in link[i], Peel(i, r) PROVE poolVars' = poolVars
  BY <1>9 DEF Peel, poolVars
<1> QED BY <1>1, <1>2, <1>4, <1>5, <1>6, <1>7, <1>8, <1>9 DEF OnionNext, onionVars, poolVars

(* An available block was not acquired.                                    *)
LEMMA NotGone ==
    ASSUME NEW b \in blocks, NEW needed, Acquirable(b, needed)
    PROVE  ~Gone(b.id)
BY DEF Acquirable, Fitting, Available, Gone

(* A step that uses no key, gives none to a circuit and turns no counter   *)
(* back.                                                                   *)
LEMMA FewerHolders ==
    ASSUME Types, Types', KeysInv, \A k : Gone(k) => Gone(k)',
           \A p \in Pipelines : \A i \in DOMAIN building'[p].keys :
              i \in DOMAIN building[p].keys /\ building'[p].keys[i] = building[p].keys[i],
           \A p \in Pipelines : \A id \in DOMAIN circuits'[p] :
              /\ id \in DOMAIN circuits[p] /\ circuits'[p][id].keys = circuits[p][id].keys
              /\ \A i \in Hop : circuits'[p][id].words[i] >= circuits[p][id].words[i],
           used' = used
    PROVE  KeysInv'
<1>1. AllGone' BY DEF KeysInv, AllGone
<1>2. OneHolder' BY DEF KeysInv, OneHolder
<1>3. Counted'
  <2>1. ASSUME NEW p \in Pipelines, NEW id \in DOMAIN circuits'[p], NEW i \in Hop, NEW u \in used,
               u.key = circuits'[p][id].keys[i]
        PROVE  u.hop = i /\ u.words \in Nat /\ u.words < circuits'[p][id].words[i]
    <3>1. u.hop = i /\ u.words \in Nat /\ u.words < circuits[p][id].words[i]
      BY <2>1 DEF KeysInv, Counted
    <3>2. circuits[p][id].words[i] \in Nat /\ circuits'[p][id].words[i] \in Nat
      BY <2>1 DEF Types, PipesOK, Circuit
    <3> QED BY <2>1, <3>1, <3>2
  <2> QED BY <2>1 DEF KeysInv, Counted
<1>4. OneTimeKeys' BY DEF KeysInv, OneTimeKeys
<1> QED BY <1>1, <1>2, <1>3, <1>4 DEF KeysInv

LEMMA EncryptKeys ==
    ASSUME Types, KeysInv, \A k : Gone(k) => Gone(k)',
           NEW u \in Users, NEW len \in PadSizes, Encrypt(u, len)
    PROVE  KeysInv'
<1>1. PICK b \in blocks : Acquirable(b, len) /\ blocks' = Taken(b, len) /\
           used' = used \cup {[key |-> b.id, hop |-> 0, words |-> Pad, msg |-> msgs]}
  BY DEF Encrypt
<1>2. building' = building /\ circuits' = circuits /\ nextId' = nextId BY DEF Encrypt, pipeVars
<1>3. Gone(b.id)' BY <1>1, <1>2, TakenOK DEF Gone, Types, PoolOK, KeyId
<1>4. ~Gone(b.id) BY <1>1, NotGone
<1>5. AllGone' BY <1>1, <1>2, <1>3 DEF KeysInv, AllGone
<1>6. OneHolder' BY <1>2 DEF KeysInv, OneHolder
<1>7. Counted' BY <1>1, <1>2, <1>4 DEF KeysInv, Counted, AllGone
<1>8. OneTimeKeys' BY <1>1, <1>4 DEF KeysInv, OneTimeKeys, AllGone
<1> QED BY <1>5, <1>6, <1>7, <1>8 DEF KeysInv

LEMMA TakeHopKeys ==
    ASSUME Types, KeysInv, \A k : Gone(k) => Gone(k)',
           NEW p \in Pipelines, NEW id \in CircuitIds, TakeHopKey(p, id)
    PROVE  KeysInv'
<1>1. PICK b \in blocks :
         /\ Acquirable(b, HopKey) /\ blocks' = Taken(b, HopKey)
         /\ building' = [building EXCEPT ![p] = [id |-> id, keys |-> Append(building[p].keys, b.id)]]
  BY DEF TakeHopKey, Types, PipesOK
<1>2. used' = used /\ circuits' = circuits /\ nextId' = nextId
  BY DEF TakeHopKey, relayVars, historyVars
<1>3. Gone(b.id)' BY <1>1, <1>2, TakenOK DEF Gone, Types, PoolOK, KeyId
<1>4. ~Gone(b.id) BY <1>1, NotGone
<1> DEFINE n == Len(building[p].keys)
           new == Append(building[p].keys, b.id)
<1>5. b.id \in KeyId BY DEF Types, PoolOK, BlockType
<1>6. building[p].keys \in Seq(KeyId) /\ n \in Nat /\ DOMAIN building[p].keys = 1 .. n
  BY LenProperties DEF Types, PipesOK
<1>7. /\ DOMAIN new = 1 .. n + 1 /\ new[n + 1] = b.id
      /\ \A i \in 1 .. n : new[i] = building[p].keys[i]
  BY <1>5, <1>6, AppendProperties, LenProperties
<1>8. building'[p].keys = new /\ \A q \in Pipelines : q # p => building'[q] = building[q]
  BY <1>1 DEF Types, PipesOK
<1> HIDE DEF new, n
(* The keys that building has, old and new.                                *)
<1>9. ASSUME NEW q \in Pipelines, NEW i \in DOMAIN building'[q].keys
      PROVE  \/ i \in DOMAIN building[q].keys /\ building'[q].keys[i] = building[q].keys[i]
             \/ q = p /\ i = n + 1 /\ building'[q].keys[i] = b.id
  BY <1>6, <1>7, <1>8
<1>10. AllGone' BY <1>2, <1>3, <1>9 DEF KeysInv, AllGone
<1>11. OneHolder'
  <2>1. ASSUME NEW q \in Pipelines, NEW s \in Pipelines,
               NEW i \in DOMAIN building'[q].keys, NEW j \in DOMAIN building'[s].keys,
               building'[q].keys[i] = building'[s].keys[j]
        PROVE  q = s /\ i = j
    BY <1>4, <1>9, <2>1 DEF KeysInv, OneHolder, AllGone
  <2>2. ASSUME NEW q \in Pipelines, NEW s \in Pipelines, NEW i \in DOMAIN building'[q].keys,
               NEW j \in Hop, NEW jd \in DOMAIN circuits[s]
        PROVE  building'[q].keys[i] # circuits[s][jd].keys[j]
    BY <1>4, <1>9 DEF KeysInv, OneHolder, AllGone
  <2> QED BY <1>2, <2>1, <2>2 DEF KeysInv, OneHolder
<1>12. Counted' BY <1>2, <1>4, <1>9 DEF KeysInv, Counted, AllGone
<1>13. OneTimeKeys' BY <1>2 DEF KeysInv, OneTimeKeys
<1> QED BY <1>10, <1>11, <1>12, <1>13 DEF KeysInv

(* register_circuit, when there is room.                                   *)
LEMMA Registered ==
    ASSUME Types, NEW p \in Pipelines, Register(p), circuits' # circuits
    PROVE  /\ building[p].id \in DOMAIN circuits'[p]
           /\ circuits'[p][building[p].id] = [keys |-> building[p].keys, words |-> [i \in Hop |-> 0]]
           /\ DOMAIN building[p].keys = Hop /\ building'[p].keys = <<>>
           /\ \A id \in DOMAIN circuits'[p] : id # building[p].id =>
                 id \in DOMAIN circuits[p] /\ circuits'[p][id] = circuits[p][id]
           /\ \A q \in Pipelines : q # p => circuits'[q] = circuits[q] /\ building'[q] = building[q]
<1> DEFINE c == [keys |-> building[p].keys, words |-> [i \in Hop |-> 0]]
           new == [id \in DOMAIN circuits[p] \cup {building[p].id} |->
                      IF id = building[p].id THEN c ELSE circuits[p][id]]
<1>1. circuits' = [circuits EXCEPT ![p] = new] /\ building' = [building EXCEPT ![p] = NotBuilding]
  BY DEF Register
<1>2. circuits'[p] = new /\ building'[p].keys = <<>> BY <1>1 DEF Types, PipesOK, NotBuilding
<1>3. \A q \in Pipelines : q # p => circuits'[q] = circuits[q] /\ building'[q] = building[q]
  BY <1>1 DEF Types, PipesOK
<1>4. DOMAIN building[p].keys = Hop BY LenProperties DEF Register, Types, PipesOK, Hop
<1> QED BY <1>2, <1>3, <1>4

LEMMA RegisterKeys ==
    ASSUME Types, Types', KeysInv, \A k : Gone(k) => Gone(k)', NEW p \in Pipelines, Register(p)
    PROVE  KeysInv'
<1>1. used' = used BY DEF Register, historyVars
<1>2. CASE circuits' = circuits
  <2>1. building' = [building EXCEPT ![p] = NotBuilding] BY DEF Register
  <2>2. ASSUME NEW q \in Pipelines, NEW i \in DOMAIN building'[q].keys
        PROVE  building'[q] = building[q]
    BY <2>1 DEF Types, PipesOK, NotBuilding
  <2>3. \A q \in Pipelines : \A id \in DOMAIN circuits[q] : \A i \in Hop :
           circuits[q][id].words[i] \in Nat
    BY DEF Types, PipesOK, Circuit
  <2> QED BY <1>1, <1>2, <2>2, <2>3, FewerHolders
<1>3. CASE circuits' # circuits
  <2> DEFINE id0 == building[p].id
  <2>1. /\ id0 \in DOMAIN circuits'[p]
        /\ circuits'[p][id0] = [keys |-> building[p].keys, words |-> [i \in Hop |-> 0]]
        /\ DOMAIN building[p].keys = Hop /\ building'[p].keys = <<>>
        /\ \A id \in DOMAIN circuits'[p] : id # id0 =>
              id \in DOMAIN circuits[p] /\ circuits'[p][id] = circuits[p][id]
        /\ \A q \in Pipelines : q # p => circuits'[q] = circuits[q] /\ building'[q] = building[q]
    BY <1>3, Registered
  <2> HIDE DEF id0
  <2>2. ASSUME NEW q \in Pipelines, NEW i \in DOMAIN building'[q].keys
        PROVE  q # p /\ building'[q] = building[q]
    BY <2>1
  <2>3. ASSUME NEW q \in Pipelines, NEW id \in DOMAIN circuits'[q]
        PROVE  \/ /\ id \in DOMAIN circuits[q] /\ circuits'[q][id] = circuits[q][id]
                  /\ ~(q = p /\ id = id0)
               \/ /\ q = p /\ id = id0 /\ circuits'[q][id].keys = building[p].keys
                  /\ \A i \in Hop : circuits'[q][id].words[i] = 0
    BY <2>1
  <2>4. AllGone' BY <1>1, <2>1, <2>2, <2>3 DEF KeysInv, AllGone
  <2>5. OneHolder'
    <3>1. ASSUME NEW q \in Pipelines, NEW s \in Pipelines,
                 NEW i \in DOMAIN building'[q].keys, NEW j \in DOMAIN building'[s].keys,
                 building'[q].keys[i] = building'[s].keys[j]
          PROVE  q = s /\ i = j
      BY <2>2, <3>1 DEF KeysInv, OneHolder
    <3>2. ASSUME NEW q \in Pipelines, NEW s \in Pipelines, NEW i \in DOMAIN building'[q].keys,
                 NEW j \in Hop, NEW jd \in DOMAIN circuits'[s]
          PROVE  building'[q].keys[i] # circuits'[s][jd].keys[j]
      BY <2>1, <2>2, <2>3 DEF KeysInv, OneHolder
    <3>3. ASSUME NEW q \in Pipelines, NEW s \in Pipelines, NEW i \in Hop, NEW j \in Hop,
                 NEW id \in DOMAIN circuits'[q], NEW jd \in DOMAIN circuits'[s],
                 circuits'[q][id].keys[i] = circuits'[s][jd].keys[j]
          PROVE  q = s /\ id = jd /\ i = j
      BY <2>1, <2>3, <3>3 DEF KeysInv, OneHolder
    <3> QED BY <3>1, <3>2, <3>3 DEF OneHolder
  <2>6. Counted'
    <3>1. ASSUME NEW q \in Pipelines, NEW id \in DOMAIN circuits'[q], NEW i \in Hop, NEW u \in used,
                 u.key = circuits'[q][id].keys[i]
          PROVE  u.hop = i /\ u.words \in Nat /\ u.words < circuits'[q][id].words[i]
      BY <2>1, <2>3, <3>1 DEF KeysInv, Counted
    <3>2. ASSUME NEW q \in Pipelines, NEW i \in DOMAIN building'[q].keys, NEW u \in used
          PROVE  u.key # building'[q].keys[i]
      BY <2>2 DEF KeysInv, Counted
    <3> QED BY <1>1, <3>1, <3>2 DEF Counted
  <2>7. OneTimeKeys' BY <1>1 DEF KeysInv, OneTimeKeys
  <2> QED BY <2>4, <2>5, <2>6, <2>7 DEF KeysInv
<1> QED BY <1>2, <1>3

(* onion_encrypt: what it seals, and what it does to the word counts.      *)
Uses(c) == {[key |-> c.keys[i], hop |-> i, words |-> c.words[i], msg |-> msgs] : i \in Hop}

LEMMA Sent ==
    ASSUME Types, NEW p \in Pipelines, NEW id \in CircuitIds, NEW len \in Sizes, Send(p, id, len)
    PROVE  /\ id \in DOMAIN circuits[p] /\ circuits[p][id] \in Circuit /\ len \in Nat
           /\ \A q \in Pipelines : DOMAIN circuits'[q] = DOMAIN circuits[q]
           /\ \A q \in Pipelines : \A jd \in DOMAIN circuits[q] :
                 /\ circuits'[q][jd].keys = circuits[q][jd].keys
                 /\ ~(q = p /\ jd = id) => circuits'[q][jd] = circuits[q][jd]
           /\ \A i \in Hop :
                 circuits'[p][id].words[i] =
                    IF i \in Sealing(circuits[p][id], len)
                    THEN circuits[p][id].words[i] + Words(LayerLen(i, len))
                    ELSE circuits[p][id].words[i]
           /\ \A i \in Hop : Words(LayerLen(i, len)) \in Nat /\ (len > 0 => Words(LayerLen(i, len)) > 0)
           /\ len > 0 /\ Sealing(circuits[p][id], len) # {}
<1> DEFINE c == circuits[p][id]
           ok == Sealing(c, len)
           after == [i \in Hop |-> IF i \in ok THEN c.words[i] + Words(LayerLen(i, len)) ELSE c.words[i]]
<1>1. c \in Circuit /\ id \in DOMAIN circuits[p] BY DEF Send, Types, PipesOK
<1>2. len \in Nat BY LengthAssumption
<1>3. circuits' = [circuits EXCEPT ![p] = [circuits[p] EXCEPT ![id] = [c EXCEPT !.words = after]]] /\ ok # {}
  BY <1>1 DEF Send, Types, PipesOK, Circuit
<1>4. [c EXCEPT !.words = after].keys = c.keys /\ [c EXCEPT !.words = after].words = after
  BY <1>1 DEF Circuit
<1>5. ASSUME NEW i \in Hop
      PROVE  Words(LayerLen(i, len)) \in Nat /\ (len > 0 => Words(LayerLen(i, len)) > 0)
  <2>1. LayerLen(i, len) \in Nat /\ LayerLen(i, len) >= len BY <1>2, LayerType
  <2> QED BY <1>2, <2>1, WordsType
<1>6. len > 0
  <2>1. PICK i \in Hop : \A j \in i .. Hops : Countable(c.words[j], LayerLen(j, len))
    BY <1>3 DEF Sealing
  <2>2. LayerLen(Hops, len) > 0 BY <2>1, HopAssumption DEF Countable, Hop
  <2> QED BY <1>2, <2>2, LastLayer
<1> DEFINE n == [c EXCEPT !.words = after]
<1>7. circuits'[p][id] = n BY <1>1, <1>3 DEF Types, PipesOK
<1>8. \A q \in Pipelines : DOMAIN circuits'[q] = DOMAIN circuits[q]
  BY <1>1, <1>3 DEF Types, PipesOK
<1>9. \A q \in Pipelines : \A jd \in DOMAIN circuits[q] :
         ~(q = p /\ jd = id) => circuits'[q][jd] = circuits[q][jd]
  BY <1>1, <1>3 DEF Types, PipesOK
<1> HIDE DEF n
<1>10. \A i \in Hop : circuits'[p][id].words[i] =
          IF i \in ok THEN c.words[i] + Words(LayerLen(i, len)) ELSE c.words[i]
  BY <1>4, <1>7 DEF n
<1>11. circuits'[p][id].keys = c.keys BY <1>4, <1>7 DEF n
<1> QED BY <1>1, <1>2, <1>3, <1>5, <1>6, <1>8, <1>9, <1>10, <1>11

LEMMA SendKeys ==
    ASSUME Types, Types', KeysInv, \A k : Gone(k) => Gone(k)',
           NEW p \in Pipelines, NEW id \in CircuitIds, NEW len \in Sizes, Send(p, id, len)
    PROVE  KeysInv'
<1> DEFINE c == circuits[p][id]
           more(i) == Words(LayerLen(i, len))
<1>0. /\ id \in DOMAIN circuits[p] /\ c \in Circuit
      /\ \A q \in Pipelines : DOMAIN circuits'[q] = DOMAIN circuits[q]
      /\ \A q \in Pipelines : \A jd \in DOMAIN circuits[q] :
            /\ circuits'[q][jd].keys = circuits[q][jd].keys
            /\ ~(q = p /\ jd = id) => circuits'[q][jd] = circuits[q][jd]
      /\ \A i \in Hop : circuits'[p][id].words[i] =
            IF i \in Sealing(c, len) THEN c.words[i] + more(i) ELSE c.words[i]
      /\ \A i \in Hop : more(i) \in Nat /\ more(i) > 0
  BY Sent
<1> HIDE DEF more
<1>1. building' = building BY DEF Send
<1>2. \A q \in Pipelines : \A jd \in DOMAIN circuits[q] : \A i \in Hop :
         /\ circuits[q][jd].words[i] \in Nat
         /\ circuits'[q][jd].words[i] >= circuits[q][jd].words[i]
  <2>1. \A q \in Pipelines : \A jd \in DOMAIN circuits[q] : \A i \in Hop :
           circuits[q][jd].words[i] \in Nat
    BY DEF Types, PipesOK, Circuit
  <2> QED BY <1>0, <2>1
<1>3. CASE used' = used BY <1>0, <1>1, <1>2, <1>3, FewerHolders
<1>4. CASE used' # used
  <2>1. Sealing(c, len) = Hop /\ used' = used \cup Uses(c)
    BY <1>4 DEF Send, Uses
  <2>2. \A u \in Uses(c) : /\ u.hop \in Hop /\ u.key = c.keys[u.hop] /\ u.words = c.words[u.hop]
                           /\ u.words \in Nat /\ u.words < circuits'[p][id].words[u.hop]
                           /\ u = [key |-> c.keys[u.hop], hop |-> u.hop, words |-> c.words[u.hop], msg |-> msgs]
    BY <1>0, <1>2, <2>1 DEF Uses
  <2>3. AllGone' BY <1>0, <1>1, <2>1, <2>2 DEF KeysInv, AllGone
  <2>4. OneHolder' BY <1>0, <1>1 DEF KeysInv, OneHolder
  <2>5. Counted'
    <3>1. ASSUME NEW q \in Pipelines, NEW jd \in DOMAIN circuits'[q], NEW i \in Hop, NEW u \in used',
                 u.key = circuits'[q][jd].keys[i]
          PROVE  u.hop = i /\ u.words \in Nat /\ u.words < circuits'[q][jd].words[i]
      <4>0. jd \in DOMAIN circuits[q] /\ u.key = circuits[q][jd].keys[i] BY <1>0, <3>1
      <4>1. CASE u \in used
        <5>1. u.hop = i /\ u.words \in Nat /\ u.words < circuits[q][jd].words[i]
          BY <4>0, <4>1 DEF KeysInv, Counted
        <5>2. circuits[q][jd].words[i] \in Nat /\ circuits'[q][jd].words[i] \in Nat
          BY <3>1, <4>0, <1>2 DEF Types, PipesOK, Circuit
        <5> QED BY <1>2, <4>0, <5>1, <5>2
      <4>2. CASE u \in Uses(c)
        <5>1. q = p /\ jd = id /\ i = u.hop
          BY <1>0, <2>2, <4>0, <4>2 DEF KeysInv, OneHolder
        <5> QED BY <2>2, <4>2, <5>1
      <4> QED BY <2>1, <4>1, <4>2
    <3>2. ASSUME NEW q \in Pipelines, NEW i \in DOMAIN building[q].keys, NEW u \in used'
          PROVE  u.key # building[q].keys[i]
      BY <1>0, <2>1, <2>2 DEF KeysInv, Counted, OneHolder
    <3> QED BY <1>1, <3>1, <3>2 DEF Counted
  <2>6. OneTimeKeys'
    <3> SUFFICES ASSUME NEW a \in used', NEW b \in used', a.key = b.key,
                        a.words = b.words \/ a.words = Pad
                 PROVE  a = b
      BY DEF OneTimeKeys
    <3>1. CASE a \in used /\ b \in used BY <3>1 DEF KeysInv, OneTimeKeys
    <3>2. ASSUME NEW u \in used, NEW v \in Uses(c), u.key = v.key
          PROVE  u.words \in Nat /\ u.words < v.words
      BY <1>0, <2>2, <3>2 DEF KeysInv, Counted
    <3>3. CASE a \in Uses(c) /\ b \in Uses(c)
      <4>1. a.hop = b.hop BY <1>0, <2>2, <3>3 DEF KeysInv, OneHolder
      <4> QED BY <2>2, <3>3, <4>1
    <3>4. ~(a \in used /\ b \in Uses(c)) BY <2>2, <3>2 DEF Pad
    <3>5. ~(b \in used /\ a \in Uses(c)) BY <2>2, <3>2 DEF Pad
    <3> QED BY <2>1, <3>1, <3>3, <3>4, <3>5
  <2> QED BY <2>3, <2>4, <2>5, <2>6 DEF KeysInv
<1> QED BY <1>3, <1>4

LEMMA NextKeys == Types /\ KeysInv /\ [OnionNext]_onionVars => KeysInv'
<1> SUFFICES ASSUME Types, KeysInv, [OnionNext]_onionVars PROVE KeysInv' OBVIOUS
<1>0. Types' /\ \A k : Gone(k) => Gone(k)' BY NextTypes, GoneStays
<1>1. \A p \in Pipelines : \A id \in DOMAIN circuits[p] : \A i \in Hop :
         circuits[p][id].words[i] \in Nat
  BY DEF Types, PipesOK, Circuit
<1>2. ASSUME building' = building, circuits' = circuits, used' = used PROVE KeysInv'
  BY <1>0, <1>1, <1>2, FewerHolders
<1>3. ASSUME NEW p \in Pipelines, BuildFails(p) PROVE KeysInv'
  <2>1. building' = [building EXCEPT ![p] = NotBuilding] /\ circuits' = circuits /\ used' = used
    BY <1>3 DEF BuildFails, historyVars
  <2>2. ASSUME NEW q \in Pipelines, NEW i \in DOMAIN building'[q].keys
        PROVE  building'[q] = building[q]
    BY <2>1 DEF Types, PipesOK, NotBuilding
  <2> QED BY <1>0, <1>1, <2>1, <2>2, FewerHolders
<1>4. ASSUME NEW p \in Pipelines, NEW id \in CircuitIds, Close(p, id) PROVE KeysInv'
  <2>1. /\ circuits' = [circuits EXCEPT ![p] = [i \in DOMAIN circuits[p] \ {id} |-> circuits[p][i]]]
        /\ building' = building /\ used' = used
    BY <1>4 DEF Close, historyVars, Types, PipesOK
  <2>2. ASSUME NEW q \in Pipelines, NEW jd \in DOMAIN circuits'[q]
        PROVE  jd \in DOMAIN circuits[q] /\ circuits'[q][jd] = circuits[q][jd]
    BY <2>1 DEF Types, PipesOK
  <2> QED BY <1>0, <1>1, <2>1, <2>2, FewerHolders
<1>5. ASSUME NEW len \in BlockSizes, AddKey(len) PROVE KeysInv'
  BY <1>2, <1>5 DEF AddKey, pipeVars, historyVars
<1>6. ASSUME NEW u \in Users, Consume(u) PROVE KeysInv'
  BY <1>2, <1>6 DEF Consume, pipeVars, historyVars
<1>7. ASSUME NEW p \in Pipelines, CompleteAuth(p) PROVE KeysInv'
  BY <1>2, <1>7 DEF CompleteAuth, historyVars
<1>8. ASSUME NEW i \in Hop, NEW r \in link[i], Peel(i, r) PROVE KeysInv'
  BY <1>2, <1>8 DEF Peel, pipeVars, historyVars
<1>9. CASE UNCHANGED onionVars BY <1>2, <1>9 DEF onionVars, pipeVars, historyVars
<1> QED
  BY <1>0, <1>3, <1>4, <1>5, <1>6, <1>7, <1>8, <1>9, EncryptKeys, TakeHopKeys, RegisterKeys, SendKeys
     DEF OnionNext

LEMMA InitKeys == OnionInit => KeysInv
BY DEF OnionInit, KeysInv, AllGone, OneHolder, Counted, OneTimeKeys, NotBuilding

(* A pad encrypts one message, a session key authenticates one per word    *)
(* count (acquire, build_circuit, onion_encrypt).                          *)
THEOREM KeysUsedOnce == OnionSpec => []OneTimeKeys
<1>1. OnionInit => Types /\ KeysInv BY InitTypes, InitKeys
<1>2. Types /\ KeysInv /\ [OnionNext]_onionVars => (Types /\ KeysInv)' BY NextTypes, NextKeys
<1>3. KeysInv => OneTimeKeys BY DEF KeysInv
<1> QED BY <1>1, <1>2, <1>3, PTL DEF OnionSpec

(***************************************************************************)
(* Order.  The uses of a last hop's key tell which message has which word  *)
(* count.                                                                  *)
(***************************************************************************)
LastUse(u, k) == u.key = k /\ u.hop = Hops

(* A key is used at one hop; a record on a link was sealed at every hop.   *)
Sealed ==
    /\ \A u, v \in used : u.key = v.key => u.hop = v.hop
    /\ \A i \in Hop : \A r \in link[i] : \A j \in Hop : \E u \in used :
          u.key = r.keys[j] /\ u.hop = j /\ u.words = r.words[j] /\ u.msg = r.msg
    /\ \A k \in KeyId : (\A u \in used : u.key # k) =>
          peeled[k] = 0 /\ sent[k] = <<>> /\ delivered[k] = <<>>

SentInOrder ==
    \A k \in KeyId :
        /\ \A i, j \in DOMAIN sent[k] : i < j => sent[k][i] < sent[k][j]
        /\ \A j \in DOMAIN sent[k] : \E u \in used : LastUse(u, k) /\ u.msg = sent[k][j]
        /\ \A u, v \in used : LastUse(u, k) /\ LastUse(v, k) /\ u.msg < v.msg => u.words < v.words
        /\ \A u, v \in used : LastUse(u, k) /\ LastUse(v, k) /\ u.msg = v.msg => u.words = v.words

(* The relay has passed the word counts of the messages that came out, and *)
(* of no other.                                                            *)
Comes ==
    \A k \in KeyId :
        /\ Len(delivered[k]) <= Len(sent[k])
        /\ \A i \in 1 .. Len(delivered[k]) : delivered[k][i] = sent[k][i]
        /\ \A u \in used : LastUse(u, k) => \E j \in DOMAIN sent[k] :
              sent[k][j] = u.msg /\ (j <= Len(delivered[k]) <=> u.words < peeled[k])

After(r) == r.words[Hops] + Words(LayerLen(Hops, r.len))

(* What is sealed after a record has a word count behind all of its words. *)
NextFree ==
    /\ \A i \in Hop : \A r \in link[i] : \A v \in used :
          LastUse(v, r.keys[Hops]) /\ v.msg > r.msg => v.words >= After(r)
    /\ \A i \in Hop : \A r \in link[i] : \A p \in Pipelines : \A id \in DOMAIN circuits[p] :
          circuits[p][id].keys[Hops] = r.keys[Hops] => circuits[p][id].words[Hops] >= After(r)
    /\ \A p \in Pipelines : \A id \in DOMAIN circuits[p] :
          circuits[p][id].words[Hops] >= peeled[circuits[p][id].keys[Hops]]

OrderInv == Sealed /\ SentInOrder /\ Comes /\ NextFree

LEMMA LastHop == Hops \in Hop /\ 1 \in Hop
BY HopAssumption DEF Hop

LEMMA AfterType ==
    ASSUME NEW r \in Record
    PROVE  r.words[Hops] \in Nat /\ After(r) \in Nat /\ After(r) > r.words[Hops]
<1>1. r.words[Hops] \in Nat /\ r.len \in Nat /\ r.len > 0 BY LastHop DEF Record
<1>2. LayerLen(Hops, r.len) \in Nat /\ LayerLen(Hops, r.len) > 0 BY <1>1, LastHop, LayerType
<1> QED BY <1>1, <1>2, WordsType DEF After

LEMMA CircuitWords ==
    ASSUME Types, NEW p \in Pipelines, NEW id \in DOMAIN circuits[p]
    PROVE  circuits[p][id].words[Hops] \in Nat /\ circuits[p][id].keys[Hops] \in KeyId
BY LastHop DEF Types, PipesOK, Circuit

(* A step that seals nothing and brings nothing out.                       *)
LEMMA QuietOrder ==
    ASSUME Types, Types', OrderInv,
           relayVars' = relayVars, used' = used, sent' = sent,
           \A p \in Pipelines : \A id \in DOMAIN circuits'[p] :
              /\ id \in DOMAIN circuits[p] /\ circuits'[p][id].keys = circuits[p][id].keys
              /\ circuits'[p][id].words[Hops] >= circuits[p][id].words[Hops]
    PROVE  OrderInv'
<1>1. peeled' = peeled /\ link' = link /\ delivered' = delivered BY DEF relayVars
<1>2. Sealed' BY <1>1 DEF OrderInv, Sealed
<1>3. SentInOrder' BY <1>1 DEF OrderInv, SentInOrder, LastUse
<1>4. Comes' BY <1>1 DEF OrderInv, Comes, LastUse
<1>5. NextFree'
  <2>1. \A p \in Pipelines : \A id \in DOMAIN circuits'[p] :
           /\ circuits'[p][id].words[Hops] \in Nat /\ circuits[p][id].words[Hops] \in Nat
           /\ circuits[p][id].keys[Hops] \in KeyId
    BY CircuitWords, LastHop DEF Types, PipesOK, Circuit
  <2>2. \A i \in Hop : \A r \in link[i] : After(r) \in Nat BY AfterType DEF Types, HistoryOK
  <2>3. \A k \in KeyId : peeled[k] \in Nat BY LengthAssumption DEF Types, HistoryOK
  <2>4. ASSUME NEW i \in Hop, NEW r \in link[i], NEW p \in Pipelines, NEW id \in DOMAIN circuits'[p],
               circuits'[p][id].keys[Hops] = r.keys[Hops]
        PROVE  circuits'[p][id].words[Hops] >= After(r)
    <3>1. circuits[p][id].words[Hops] >= After(r) BY <2>4 DEF OrderInv, NextFree
    <3> QED BY <2>1, <2>2, <3>1
  <2>5. ASSUME NEW p \in Pipelines, NEW id \in DOMAIN circuits'[p]
        PROVE  circuits'[p][id].words[Hops] >= peeled[circuits'[p][id].keys[Hops]]
    <3>1. circuits[p][id].words[Hops] >= peeled[circuits[p][id].keys[Hops]]
      BY DEF OrderInv, NextFree
    <3> QED BY <2>1, <2>3, <3>1
  <2> QED BY <1>1, <2>4, <2>5 DEF OrderInv, NextFree, LastUse, After
<1> QED BY <1>2, <1>3, <1>4, <1>5 DEF OrderInv

LEMMA EncryptOrder ==
    ASSUME Types, KeysInv, OrderInv, NEW u \in Users, NEW len \in PadSizes, Encrypt(u, len)
    PROVE  OrderInv'
<1>1. PICK b \in blocks : Acquirable(b, len) /\
           used' = used \cup {[key |-> b.id, hop |-> 0, words |-> Pad, msg |-> msgs]}
  BY DEF Encrypt
<1>2. /\ circuits' = circuits /\ peeled' = peeled /\ link' = link /\ delivered' = delivered
      /\ sent' = sent
  BY DEF Encrypt, pipeVars, relayVars
<1>3. ~Gone(b.id) BY <1>1, NotGone
<1>4. \A v \in used : v.key # b.id BY <1>3 DEF KeysInv, AllGone
<1>5. \A v \in used' : v.hop = Hops => v \in used BY <1>1, HopAssumption
<1>6. Sealed' BY <1>1, <1>2, <1>4 DEF OrderInv, Sealed
<1>7. SentInOrder' BY <1>1, <1>2, <1>5 DEF OrderInv, SentInOrder, LastUse
<1>8. Comes' BY <1>2, <1>5 DEF OrderInv, Comes, LastUse
<1>9. NextFree' BY <1>2, <1>5 DEF OrderInv, NextFree, LastUse, After
<1> QED BY <1>6, <1>7, <1>8, <1>9 DEF OrderInv

LEMMA RegisterOrder ==
    ASSUME Types, Types', KeysInv, OrderInv, NEW p \in Pipelines, Register(p)
    PROVE  OrderInv'
<1>1. relayVars' = relayVars /\ used' = used /\ sent' = sent BY DEF Register, historyVars
<1>2. CASE circuits' = circuits
  <2>1. \A q \in Pipelines : \A id \in DOMAIN circuits[q] : circuits[q][id].words[Hops] \in Nat
    BY CircuitWords
  <2> QED BY <1>1, <1>2, <2>1, QuietOrder
<1>3. CASE circuits' # circuits
  <2> DEFINE k == building[p].keys[Hops]
  <2>1. /\ peeled' = peeled /\ link' = link /\ delivered' = delivered /\ used' = used /\ sent' = sent
    BY <1>1 DEF relayVars
  <2>2. ASSUME NEW q \in Pipelines, NEW id \in DOMAIN circuits'[q]
        PROVE  \/ id \in DOMAIN circuits[q] /\ circuits'[q][id] = circuits[q][id]
               \/ circuits'[q][id].keys[Hops] = k /\ circuits'[q][id].words[Hops] = 0
    <3>1. CASE q = p /\ id = building[p].id
      <4> DEFINE new == [keys |-> building[p].keys, words |-> [i \in Hop |-> 0]]
      <4>0. circuits'[p][building[p].id] = new BY <1>3, Registered
      <4>1. new.keys = building[p].keys /\ \A i \in Hop : new.words[i] = 0 OBVIOUS
      <4> HIDE DEF new
      <4> QED BY <3>1, <4>0, <4>1, LastHop
    <3>2. CASE q = p /\ id # building[p].id BY <1>3, <3>2, Registered
    <3>3. CASE q # p
      <4>1. circuits'[q] = circuits[q] BY <1>3, <3>3, Registered
      <4> QED BY <4>1
    <3> QED BY <3>1, <3>2, <3>3
  <2>3. k \in KeyId /\ \A u \in used : u.key # k
    <3>1. DOMAIN building[p].keys = Hop BY <1>3, Registered
    <3>2. k \in KeyId BY <3>1, LastHop, ElementOfSeq, LenProperties DEF Types, PipesOK
    <3> QED BY <3>1, <3>2, LastHop DEF KeysInv, Counted
  <2>4. peeled[k] = 0 BY <2>3 DEF OrderInv, Sealed
  <2>5. \A i \in Hop : \A r \in link[i] : r.keys[Hops] # k
    BY <2>3, LastHop DEF OrderInv, Sealed
  <2> HIDE DEF k
  <2>6. Sealed' BY <2>1 DEF OrderInv, Sealed
  <2>7. SentInOrder' BY <2>1 DEF OrderInv, SentInOrder, LastUse
  <2>8. Comes' BY <2>1 DEF OrderInv, Comes, LastUse
  <2>9. NextFree'
    <3>1. ASSUME NEW i \in Hop, NEW r \in link[i], NEW q \in Pipelines, NEW id \in DOMAIN circuits'[q],
                 circuits'[q][id].keys[Hops] = r.keys[Hops]
          PROVE  circuits'[q][id].words[Hops] >= After(r)
      BY <2>2, <2>5, <3>1 DEF OrderInv, NextFree
    <3>2. ASSUME NEW q \in Pipelines, NEW id \in DOMAIN circuits'[q]
          PROVE  circuits'[q][id].words[Hops] >= peeled[circuits'[q][id].keys[Hops]]
      BY <2>2, <2>4 DEF OrderInv, NextFree
    <3> QED BY <2>1, <3>1, <3>2 DEF OrderInv, NextFree, LastUse, After
  <2> QED BY <2>6, <2>7, <2>8, <2>9 DEF OrderInv
<1> QED BY <1>2, <1>3

LEMMA SendOrder ==
    ASSUME Types, Types', KeysInv, OrderInv,
           NEW p \in Pipelines, NEW id \in CircuitIds, NEW len \in Sizes, Send(p, id, len)
    PROVE  OrderInv'
<1> DEFINE c == circuits[p][id]
           k == c.keys[Hops]
           more(i) == Words(LayerLen(i, len))
           r == [keys |-> c.keys, words |-> c.words, len |-> len, msg |-> msgs]
<1>0. /\ id \in DOMAIN circuits[p] /\ c \in Circuit /\ len \in Nat
      /\ \A q \in Pipelines : DOMAIN circuits'[q] = DOMAIN circuits[q]
      /\ \A q \in Pipelines : \A jd \in DOMAIN circuits[q] :
            /\ circuits'[q][jd].keys = circuits[q][jd].keys
            /\ ~(q = p /\ jd = id) => circuits'[q][jd] = circuits[q][jd]
      /\ \A i \in Hop : circuits'[p][id].words[i] =
            IF i \in Sealing(c, len) THEN c.words[i] + more(i) ELSE c.words[i]
      /\ \A i \in Hop : more(i) \in Nat /\ more(i) > 0
  BY Sent
<1> HIDE DEF more
<1>1. \A q \in Pipelines : \A jd \in DOMAIN circuits[q] :
         /\ circuits[q][jd].words[Hops] \in Nat /\ circuits[q][jd].keys[Hops] \in KeyId
         /\ circuits'[q][jd].words[Hops] \in Nat
         /\ circuits'[q][jd].words[Hops] >= circuits[q][jd].words[Hops]
  <2>1. \A q \in Pipelines : \A jd \in DOMAIN circuits[q] :
           circuits[q][jd].words[Hops] \in Nat /\ circuits[q][jd].keys[Hops] \in KeyId
    BY CircuitWords
  <2>2. circuits'[p][id].words[Hops] \in {c.words[Hops], c.words[Hops] + more(Hops)}
    BY <1>0, LastHop
  <2>3. more(Hops) \in Nat BY <1>0, LastHop
  <2>4. ASSUME NEW q \in Pipelines, NEW jd \in DOMAIN circuits[q]
        PROVE  /\ circuits'[q][jd].words[Hops] \in Nat
               /\ circuits'[q][jd].words[Hops] >= circuits[q][jd].words[Hops]
    BY <1>0, <2>1, <2>2, <2>3
  <2> QED BY <2>1, <2>4
<1>2. CASE used' = used /\ sent' = sent /\ link' = link
  <2>1. relayVars' = relayVars BY <1>2 DEF Send, relayVars
  <2> QED BY <1>0, <1>1, <1>2, <2>1, QuietOrder
<1>3. CASE ~(used' = used /\ sent' = sent /\ link' = link)
  <2>1. /\ Sealing(c, len) = Hop /\ used' = used \cup Uses(c)
        /\ link' = [link EXCEPT ![1] = @ \cup {r}]
        /\ sent' = [sent EXCEPT ![k] = Append(@, msgs)]
        /\ peeled' = peeled /\ delivered' = delivered
    BY <1>3 DEF Send, Uses
  <2>2. /\ r.keys = c.keys /\ r.words = c.words /\ r.msg = msgs /\ r.len = len
        /\ After(r) = c.words[Hops] + more(Hops)
    BY DEF After, more
  <2>3. \A i \in Hop : \A x \in link'[i] : x \in link[i] \/ x = r
    BY <2>1, LastHop DEF Types, HistoryOK
  <2>4. k \in KeyId /\ msgs \in Nat /\ c.words[Hops] \in Nat /\ more(Hops) \in Nat
    BY <1>0, <1>1, LastHop DEF Types, HistoryOK
  <2> HIDE DEF r, k
  <2>5. \A u \in Uses(c) : /\ u.hop \in Hop /\ u.key = c.keys[u.hop] /\ u.words = c.words[u.hop]
                           /\ u.msg = msgs
    BY DEF Uses
  <2>6. ASSUME NEW i \in Hop
        PROVE  \E u \in Uses(c) : u.hop = i /\ u.key = c.keys[i] /\ u.words = c.words[i] /\ u.msg = msgs
    <3> DEFINE u == [key |-> c.keys[i], hop |-> i, words |-> c.words[i], msg |-> msgs]
    <3>1. u \in Uses(c) BY DEF Uses
    <3> QED BY <3>1
(* Who uses the key of the last hop.                                       *)
  <2>7. ASSUME NEW u \in Uses(c), NEW m \in KeyId, LastUse(u, m)
        PROVE  m = k /\ u.words = c.words[Hops] /\ u.msg = msgs
    BY <2>5, <2>7 DEF LastUse, k
  <2>8. ASSUME NEW u \in used, LastUse(u, k)
        PROVE  u.words \in Nat /\ u.words < c.words[Hops] /\ u.msg \in Nat /\ u.msg < msgs
    BY <1>0, <2>8, LastHop DEF LastUse, k, KeysInv, Counted, Types, HistoryOK, Use
  <2>9. Sealed'
    <3>1. ASSUME NEW u \in used', NEW v \in used', u.key = v.key PROVE u.hop = v.hop
      <4>1. ASSUME NEW a \in used, NEW b \in Uses(c), a.key = b.key PROVE a.hop = b.hop
        BY <1>0, <2>5, <4>1 DEF KeysInv, Counted
      <4>2. ASSUME NEW a \in Uses(c), NEW b \in Uses(c), a.key = b.key PROVE a.hop = b.hop
        BY <1>0, <2>5, <4>2 DEF KeysInv, OneHolder
      <4> QED BY <2>1, <3>1, <4>1, <4>2 DEF OrderInv, Sealed
    <3>2. ASSUME NEW i \in Hop, NEW x \in link'[i], NEW j \in Hop
          PROVE  \E u \in used' : u.key = x.keys[j] /\ u.hop = j /\ u.words = x.words[j] /\ u.msg = x.msg
      <4>1. CASE x \in link[i] BY <2>1, <4>1 DEF OrderInv, Sealed
      <4>2. CASE x = r BY <2>1, <2>2, <2>6, <4>2
      <4> QED BY <2>3, <4>1, <4>2
    <3>3. ASSUME NEW m \in KeyId, \A u \in used' : u.key # m
          PROVE  peeled'[m] = 0 /\ sent'[m] = <<>> /\ delivered'[m] = <<>>
      <4>1. m # k BY <2>1, <2>6, <3>3, LastHop DEF k
      <4>2. \A u \in used : u.key # m BY <2>1, <3>3
      <4> QED BY <2>1, <4>1, <4>2 DEF OrderInv, Sealed, Types, HistoryOK
    <3> QED BY <3>1, <3>2, <3>3 DEF Sealed
(* The sequence that grows.                                                *)
  <2> DEFINE n == Len(sent[k])
  <2>10. /\ sent[k] \in Seq(Nat) /\ n \in Nat /\ DOMAIN sent[k] = 1 .. n
         /\ DOMAIN sent'[k] = 1 .. n + 1 /\ sent'[k][n + 1] = msgs /\ Len(sent'[k]) = n + 1
         /\ \A i \in 1 .. n : sent'[k][i] = sent[k][i]
         /\ \A m \in KeyId : m # k => sent'[m] = sent[m]
    <3>1. sent[k] \in Seq(Nat) BY <2>4 DEF Types, HistoryOK
    <3>2. sent'[k] = Append(sent[k], msgs) /\ \A m \in KeyId : m # k => sent'[m] = sent[m]
      BY <2>1, <2>4 DEF Types, HistoryOK
    <3> QED BY <2>4, <3>1, <3>2, AppendProperties, LenProperties
  <2>11. \A j \in 1 .. n : sent[k][j] \in Nat /\ sent[k][j] < msgs
    BY <2>4, <2>8, <2>10 DEF OrderInv, SentInOrder
  <2> HIDE DEF n
  <2>12. SentInOrder'
    <3> SUFFICES ASSUME NEW m \in KeyId
                 PROVE  /\ \A i, j \in DOMAIN sent'[m] : i < j => sent'[m][i] < sent'[m][j]
                        /\ \A j \in DOMAIN sent'[m] : \E u \in used' : LastUse(u, m) /\ u.msg = sent'[m][j]
                        /\ \A u, v \in used' : LastUse(u, m) /\ LastUse(v, m) =>
                              /\ u.msg < v.msg => u.words < v.words
                              /\ u.msg = v.msg => u.words = v.words
      BY DEF SentInOrder, LastUse
    <3>1. ASSUME NEW u \in used', NEW v \in used', LastUse(u, m), LastUse(v, m)
          PROVE  (u.msg < v.msg => u.words < v.words) /\ (u.msg = v.msg => u.words = v.words)
      <4>1. CASE u \in used /\ v \in used BY <3>1, <4>1 DEF OrderInv, SentInOrder
      <4>2. CASE u \in used /\ v \in Uses(c) BY <2>7, <2>8, <3>1, <4>2
      <4>3. CASE u \in Uses(c) /\ v \in used BY <2>4, <2>7, <2>8, <3>1, <4>3
      <4>4. CASE u \in Uses(c) /\ v \in Uses(c) BY <2>4, <2>7, <3>1, <4>4
      <4> QED BY <2>1, <4>1, <4>2, <4>3, <4>4
    <3>2. CASE m # k BY <2>1, <2>10, <3>1, <3>2 DEF OrderInv, SentInOrder
    <3>3. CASE m = k
      <4>1. ASSUME NEW i \in 1 .. n + 1, NEW j \in 1 .. n + 1, i < j PROVE sent'[k][i] < sent'[k][j]
        <5>1. i \in 1 .. n BY <2>10, <4>1
        <5>2. CASE j \in 1 .. n
          <6>1. sent[k][i] < sent[k][j]
            BY <2>4, <2>10, <4>1, <5>1, <5>2 DEF OrderInv, SentInOrder
          <6> QED BY <2>10, <5>1, <5>2, <6>1
        <5>3. CASE j = n + 1 BY <2>10, <2>11, <5>1, <5>3
        <5> QED BY <2>10, <5>2, <5>3
      <4>2. ASSUME NEW j \in 1 .. n + 1 PROVE \E u \in used' : LastUse(u, k) /\ u.msg = sent'[k][j]
        <5>1. CASE j \in 1 .. n
          <6>1. \E u \in used : LastUse(u, k) /\ u.msg = sent[k][j]
            BY <2>4, <2>10, <5>1 DEF OrderInv, SentInOrder
          <6> QED BY <2>1, <2>10, <5>1, <6>1
        <5>2. CASE j = n + 1
          <6>1. \E u \in Uses(c) : LastUse(u, k) /\ u.msg = msgs BY <2>6, LastHop DEF LastUse, k
          <6> QED BY <2>1, <2>10, <5>2, <6>1
        <5> QED BY <2>10, <5>1, <5>2
      <4> QED BY <2>10, <3>1, <3>3, <4>1, <4>2
    <3> QED BY <3>2, <3>3
  <2>13. Comes'
    <3> SUFFICES ASSUME NEW m \in KeyId
                 PROVE  /\ Len(delivered[m]) <= Len(sent'[m])
                        /\ \A i \in 1 .. Len(delivered[m]) : delivered[m][i] = sent'[m][i]
                        /\ \A u \in used' : LastUse(u, m) => \E j \in DOMAIN sent'[m] :
                              sent'[m][j] = u.msg /\ (j <= Len(delivered[m]) <=> u.words < peeled[m])
      BY <2>1 DEF Comes, LastUse
    <3>1. CASE m # k
      <4>1. \A u \in used' : LastUse(u, m) => u \in used BY <2>1, <2>7, <3>1
      <4> QED BY <2>10, <3>1, <4>1 DEF OrderInv, Comes
    <3>2. CASE m = k
      <4>1. /\ Len(delivered[k]) \in Nat /\ Len(delivered[k]) <= n
            /\ \A i \in 1 .. Len(delivered[k]) : delivered[k][i] = sent[k][i]
        BY <2>4, LenProperties DEF OrderInv, Comes, n, Types, HistoryOK
      <4>2. ASSUME NEW u \in used', LastUse(u, k)
            PROVE  \E j \in 1 .. n + 1 :
                      sent'[k][j] = u.msg /\ (j <= Len(delivered[k]) <=> u.words < peeled[k])
        <5>1. CASE u \in used
          <6>1. PICK j \in 1 .. n : sent[k][j] = u.msg /\ (j <= Len(delivered[k]) <=> u.words < peeled[k])
            BY <2>4, <2>10, <4>2, <5>1 DEF OrderInv, Comes
          <6>2. j \in 1 .. n + 1 BY <2>10
          <6> QED BY <2>10, <6>1, <6>2
        <5>2. CASE u \in Uses(c)
          <6>1. u.words = c.words[Hops] /\ u.msg = msgs BY <2>4, <2>7, <4>2, <5>2
          <6>2. c.words[Hops] >= peeled[k] BY <1>0 DEF OrderInv, NextFree, k
          <6>3. peeled[k] \in Nat BY <2>4, LengthAssumption DEF Types, HistoryOK
          <6>4. ~(u.words < peeled[k]) BY <2>4, <6>1, <6>2, <6>3
          <6>5. n + 1 \in 1 .. n + 1 /\ ~(n + 1 <= Len(delivered[k])) BY <2>10, <4>1
          <6> QED BY <2>10, <6>1, <6>4, <6>5
        <5> QED BY <2>1, <5>1, <5>2
      <4>3. \A i \in 1 .. Len(delivered[k]) : delivered[k][i] = sent'[k][i] BY <2>10, <4>1
      <4>4. Len(delivered[k]) <= n + 1 BY <2>10, <4>1
      <4> QED BY <2>10, <3>2, <4>2, <4>3, <4>4
    <3> QED BY <3>1, <3>2
  <2>14. NextFree'
    <3>0. \A i \in Hop : \A x \in link[i] : x \in Record /\ After(x) \in Nat /\ x.msg \in Nat
      BY AfterType DEF Types, HistoryOK, Record
    <3>1. ASSUME NEW i \in Hop, NEW x \in link'[i], NEW v \in used', LastUse(v, x.keys[Hops]), v.msg > x.msg
          PROVE  v.words >= After(x)
      <4>1. CASE x = r
        <5>1. x.keys[Hops] = k /\ x.msg = msgs BY <2>2, <4>1 DEF k
        <5> QED BY <2>1, <2>4, <2>7, <2>8, <3>1, <5>1
      <4>2. CASE x \in link[i] /\ v \in used BY <3>1, <4>2 DEF OrderInv, NextFree
      <4>3. CASE x \in link[i] /\ v \in Uses(c)
        <5>1. x.keys[Hops] \in KeyId BY <3>0, <4>3, LastHop DEF Record
        <5>2. x.keys[Hops] = k /\ v.words = c.words[Hops] BY <2>7, <3>1, <4>3, <5>1
        <5> QED BY <1>0, <4>3, <5>2 DEF OrderInv, NextFree, k
      <4> QED BY <2>1, <2>3, <4>1, <4>2, <4>3
    <3>2. ASSUME NEW i \in Hop, NEW x \in link'[i], NEW q \in Pipelines, NEW jd \in DOMAIN circuits'[q],
                 circuits'[q][jd].keys[Hops] = x.keys[Hops]
          PROVE  circuits'[q][jd].words[Hops] >= After(x)
      <4>1. jd \in DOMAIN circuits[q] /\ circuits[q][jd].keys[Hops] = x.keys[Hops] BY <1>0, <3>2
      <4>2. CASE x = r
        <5>1. circuits[q][jd].keys[Hops] = circuits[p][id].keys[Hops] BY <2>2, <4>1, <4>2
        <5>2. q = p /\ jd = id BY <1>0, <4>1, <5>1, LastHop DEF KeysInv, OneHolder
        <5>3. circuits'[p][id].words[Hops] = c.words[Hops] + more(Hops) BY <1>0, <2>1, LastHop
        <5> QED BY <2>2, <2>4, <4>2, <5>2, <5>3
      <4>3. CASE x \in link[i]
        <5>1. circuits[q][jd].words[Hops] >= After(x) BY <4>1, <4>3 DEF OrderInv, NextFree
        <5> QED BY <1>1, <3>0, <4>1, <4>3, <5>1
      <4> QED BY <2>3, <4>2, <4>3
    <3>3. ASSUME NEW q \in Pipelines, NEW jd \in DOMAIN circuits'[q]
          PROVE  circuits'[q][jd].words[Hops] >= peeled[circuits'[q][jd].keys[Hops]]
      <4>1. jd \in DOMAIN circuits[q] /\ circuits'[q][jd].keys = circuits[q][jd].keys BY <1>0
      <4>2. circuits[q][jd].words[Hops] >= peeled[circuits[q][jd].keys[Hops]]
        BY <4>1 DEF OrderInv, NextFree
      <4>3. peeled[circuits[q][jd].keys[Hops]] \in Nat
        BY <1>1, <4>1, LengthAssumption DEF Types, HistoryOK
      <4> QED BY <1>1, <4>1, <4>2, <4>3
    <3> QED BY <2>1, <3>1, <3>2, <3>3 DEF NextFree, LastUse, After
  <2> QED BY <2>9, <2>12, <2>13, <2>14 DEF OrderInv
<1> QED BY <1>2, <1>3

(* onion_peel: the relay of the last hop brings out the message that is    *)
(* next in the order in which they were sent.                              *)
LEMMA PeelOrder ==
    ASSUME Types, Types', KeysInv, OrderInv, NEW i \in Hop, NEW r \in link[i], Peel(i, r)
    PROVE  OrderInv'
<1> DEFINE k == r.keys[i]
           more == Words(LayerLen(i, r.len))
<1>0. /\ used' = used /\ sent' = sent /\ circuits' = circuits
      /\ k \in KeyId /\ r \in Record /\ r.words[i] = peeled[k]
      /\ \A m \in KeyId : peeled'[m] = IF m = k THEN peeled[k] + more ELSE peeled[m]
  BY DEF Peel, ComesNext, pipeVars, historyVars, Types, HistoryOK, Record
<1>1. PICK u0 \in used : u0.key = k /\ u0.hop = i /\ u0.words = r.words[i] /\ u0.msg = r.msg
  BY DEF OrderInv, Sealed
<1>2. ASSUME NEW j \in Hop, NEW x \in link'[j] PROVE \E l \in Hop : x \in link[l]
  <2>1. link' = link \/ link' = [link EXCEPT ![i + 1] = @ \cup {r}] BY DEF Peel
  <2>2. x \in link[j] \/ x = r BY <2>1 DEF Types, HistoryOK
  <2> QED BY <2>2
<1>3. \A m \in KeyId : peeled[m] \in Nat BY LengthAssumption DEF Types, HistoryOK
<1>4. /\ i # Hops => delivered' = delivered
      /\ i = Hops => delivered' = [delivered EXCEPT ![k] = Append(delivered[k], r.msg)]
  BY HopAssumption DEF Peel, Hop
<1>9. DOMAIN delivered = KeyId /\ \A m \in KeyId : m # k => delivered'[m] = delivered[m]
  <2> DEFINE a == Append(delivered[k], r.msg)
  <2>1. i = Hops => delivered' = [delivered EXCEPT ![k] = a] BY <1>4
  <2>2. DOMAIN delivered = KeyId BY DEF Types, HistoryOK
  <2> HIDE DEF a
  <2> QED BY <1>4, <2>1, <2>2
<1> HIDE DEF more, k
<1>5. Sealed'
  <2>1. ASSUME NEW m \in KeyId, \A u \in used : u.key # m
        PROVE  peeled'[m] = 0 /\ sent'[m] = <<>> /\ delivered'[m] = <<>>
    BY <1>0, <1>1, <1>9, <2>1 DEF OrderInv, Sealed
  <2>2. ASSUME NEW j \in Hop, NEW x \in link'[j], NEW l \in Hop
        PROVE  \E u \in used : u.key = x.keys[l] /\ u.hop = l /\ u.words = x.words[l] /\ u.msg = x.msg
    BY <1>2 DEF OrderInv, Sealed
  <2> QED BY <1>0, <2>1, <2>2 DEF OrderInv, Sealed
<1>6. SentInOrder' BY <1>0 DEF OrderInv, SentInOrder, LastUse
<1>7. CASE i # Hops
  <2>1. delivered' = delivered BY <1>4, <1>7
  <2>2. \A u \in used : ~LastUse(u, k) BY <1>1, <1>7 DEF LastUse, OrderInv, Sealed
  <2>3. Comes' BY <1>0, <2>1, <2>2 DEF OrderInv, Comes, LastUse
  <2>4. \A p \in Pipelines : \A id \in DOMAIN circuits[p] : circuits[p][id].keys[Hops] # k
    BY <1>1, <1>7, LastHop DEF KeysInv, Counted
  <2>5. \A p \in Pipelines : \A id \in DOMAIN circuits[p] : circuits[p][id].keys[Hops] \in KeyId
    BY CircuitWords
  <2>6. NextFree'
    <3>1. \A p \in Pipelines : \A id \in DOMAIN circuits[p] :
             circuits[p][id].words[Hops] >= peeled'[circuits[p][id].keys[Hops]]
      BY <1>0, <2>4, <2>5 DEF OrderInv, NextFree
    <3> QED BY <1>0, <1>2, <3>1 DEF OrderInv, NextFree, LastUse, After
  <2> QED BY <1>5, <1>6, <2>3, <2>6 DEF OrderInv
<1>8. CASE i = Hops
  <2> DEFINE d == Len(delivered[k])
  <2>1. /\ After(r) = peeled[k] + more /\ After(r) \in Nat /\ peeled'[k] = After(r)
        /\ r.msg \in Nat /\ After(r) > peeled[k]
    BY <1>0, <1>8, AfterType DEF After, more, Record
  <2>2. /\ delivered[k] \in Seq(Nat) /\ d \in Nat
        /\ Len(delivered'[k]) = d + 1 /\ delivered'[k][d + 1] = r.msg
        /\ \A j \in 1 .. d : delivered'[k][j] = delivered[k][j]
    <3>1. delivered[k] \in Seq(Nat) BY <1>0 DEF Types, HistoryOK
    <3>2. delivered'[k] = Append(delivered[k], r.msg)
      BY <1>0, <1>4, <1>8, <1>9
    <3> QED BY <2>1, <3>1, <3>2, AppendProperties, LenProperties
  <2>3. /\ sent[k] \in Seq(Nat) /\ Len(sent[k]) \in Nat /\ DOMAIN sent[k] = 1 .. Len(sent[k])
        /\ \A j \in DOMAIN sent[k] : sent[k][j] \in Nat
    BY <1>0, LenProperties, ElementOfSeq DEF Types, HistoryOK
  <2> HIDE DEF d
  <2>4. \A u \in used : u.words \in Int /\ u.msg \in Nat BY DEF Types, HistoryOK, Use
  <2>5. \A j \in 1 .. d : delivered[k][j] = sent[k][j] BY <1>0 DEF OrderInv, Comes, d
  <2>6. ASSUME NEW u \in used, LastUse(u, k)
        PROVE  \E j \in DOMAIN sent[k] : sent[k][j] = u.msg /\ (j <= d <=> u.words < peeled[k])
    BY <1>0, <2>6 DEF OrderInv, Comes, d
  <2>7. \A a, b \in DOMAIN sent[k] : a < b => sent[k][a] < sent[k][b]
    BY <1>0 DEF OrderInv, SentInOrder
  <2>8. LastUse(u0, k) BY <1>1, <1>8 DEF LastUse
  <2>9. d + 1 \in DOMAIN sent[k] /\ sent[k][d + 1] = r.msg
    <3>1. PICK j \in DOMAIN sent[k] : sent[k][j] = r.msg /\ (j <= d <=> u0.words < peeled[k])
      BY <1>1, <2>6, <2>8
    <3>2. j > d BY <1>0, <1>1, <1>3, <2>2, <2>3, <3>1
    <3>3. d + 1 \in DOMAIN sent[k] BY <2>2, <2>3, <3>2
    <3>4. ASSUME j > d + 1 PROVE FALSE
      <4>1. sent[k][d + 1] < r.msg BY <2>7, <3>1, <3>3, <3>4
      <4>2. PICK v \in used : LastUse(v, k) /\ v.msg = sent[k][d + 1]
        BY <1>0, <3>3 DEF OrderInv, SentInOrder
      <4>3. v.words < u0.words BY <1>0, <1>1, <2>8, <4>1, <4>2 DEF OrderInv, SentInOrder
      <4>4. PICK l \in DOMAIN sent[k] : sent[k][l] = v.msg /\ (l <= d <=> v.words < peeled[k])
        BY <2>6, <4>2
      <4>5. l <= d BY <1>0, <1>1, <4>3, <4>4
      <4>6. l \in Nat /\ l < d + 1 BY <2>2, <2>3, <4>5
      <4>7. sent[k][l] < sent[k][d + 1] BY <2>7, <3>3, <4>6
      <4> QED BY <2>3, <3>3, <4>2, <4>4, <4>7
    <3> QED BY <2>2, <2>3, <3>1, <3>2, <3>3, <3>4
  <2>10. Comes'
    <3> SUFFICES ASSUME NEW m \in KeyId
                 PROVE  /\ Len(delivered'[m]) <= Len(sent[m])
                        /\ \A j \in 1 .. Len(delivered'[m]) : delivered'[m][j] = sent[m][j]
                        /\ \A u \in used : LastUse(u, m) => \E j \in DOMAIN sent[m] :
                              sent[m][j] = u.msg /\ (j <= Len(delivered'[m]) <=> u.words < peeled'[m])
      BY <1>0 DEF Comes, LastUse
    <3>1. CASE m # k BY <1>0, <1>9, <3>1 DEF OrderInv, Comes
    <3>2. CASE m = k
      <4>1. ASSUME NEW u \in used, LastUse(u, k)
            PROVE  \E j \in DOMAIN sent[k] : sent[k][j] = u.msg /\ (j <= d + 1 <=> u.words < After(r))
        <5>1. PICK j \in DOMAIN sent[k] : sent[k][j] = u.msg /\ (j <= d <=> u.words < peeled[k])
          BY <2>6, <4>1
        <5>2. CASE j <= d
          <6>1. u.words < peeled[k] /\ u.words \in Int /\ peeled[k] \in Nat
            BY <1>0, <1>3, <2>4, <5>1, <5>2
          <6>2. u.words < After(r) BY <2>1, <6>1
          <6>3. j <= d + 1 BY <2>2, <2>3, <5>2
          <6> QED BY <5>1, <6>2, <6>3
        <5>3. CASE j = d + 1
          <6>1. u.msg = u0.msg BY <1>1, <2>9, <5>1, <5>3
          <6>2. u.words = u0.words BY <1>0, <2>8, <4>1, <6>1 DEF OrderInv, SentInOrder
          <6> QED BY <1>0, <1>1, <2>1, <2>2, <5>1, <5>3, <6>2
        <5>4. CASE j > d + 1
          <6>1. u.msg > r.msg BY <2>7, <2>9, <5>1, <5>4
          <6>2. u.words >= After(r) BY <1>8, <4>1, <6>1 DEF OrderInv, NextFree, k
          <6> QED BY <2>1, <2>2, <2>3, <2>4, <5>1, <5>4, <6>2
        <5> QED BY <2>2, <2>3, <5>2, <5>3, <5>4
      <4>2. \A j \in 1 .. d + 1 : delivered'[k][j] = sent[k][j] BY <2>2, <2>5, <2>9
      <4>3. d + 1 <= Len(sent[k]) BY <2>3, <2>9
      <4> QED BY <2>1, <2>2, <3>2, <4>1, <4>2, <4>3
    <3> QED BY <3>1, <3>2
  <2>11. NextFree'
    <3>1. ASSUME NEW p \in Pipelines, NEW id \in DOMAIN circuits[p]
          PROVE  circuits[p][id].words[Hops] >= peeled'[circuits[p][id].keys[Hops]]
      <4>1. circuits[p][id].keys[Hops] \in KeyId BY CircuitWords
      <4>2. CASE circuits[p][id].keys[Hops] = k
        BY <1>8, <2>1, <4>2 DEF OrderInv, NextFree, k
      <4>3. CASE circuits[p][id].keys[Hops] # k BY <1>0, <4>1, <4>3 DEF OrderInv, NextFree
      <4> QED BY <4>2, <4>3
    <3> QED BY <1>0, <1>2, <3>1 DEF OrderInv, NextFree, LastUse, After
  <2> QED BY <1>5, <1>6, <2>10, <2>11 DEF OrderInv
<1> QED BY <1>7, <1>8

LEMMA InitOrder == OnionInit => OrderInv
<1> SUFFICES ASSUME OnionInit PROVE OrderInv OBVIOUS
<1>1. \A k \in KeyId : Len(sent[k]) = 0 /\ Len(delivered[k]) = 0 /\ DOMAIN sent[k] = {}
  BY EmptySeq DEF OnionInit
<1>2. Sealed BY DEF OnionInit, Sealed
<1>3. SentInOrder BY <1>1 DEF OnionInit, SentInOrder
<1>4. Comes BY <1>1 DEF OnionInit, Comes
<1>5. NextFree BY DEF OnionInit, NextFree
<1> QED BY <1>2, <1>3, <1>4, <1>5 DEF OrderInv

LEMMA NextOrder == Types /\ KeysInv /\ OrderInv /\ [OnionNext]_onionVars => OrderInv'
<1> SUFFICES ASSUME Types, KeysInv, OrderInv, [OnionNext]_onionVars PROVE OrderInv' OBVIOUS
<1>0. Types' BY NextTypes
<1>1. \A p \in Pipelines : \A id \in DOMAIN circuits[p] : circuits[p][id].words[Hops] \in Nat
  BY CircuitWords
<1>2. ASSUME circuits' = circuits, relayVars' = relayVars, used' = used, sent' = sent PROVE OrderInv'
  BY <1>0, <1>1, <1>2, QuietOrder
<1>3. ASSUME NEW p \in Pipelines, NEW id \in CircuitIds, Close(p, id) PROVE OrderInv'
  <2>1. /\ circuits' = [circuits EXCEPT ![p] = [i \in DOMAIN circuits[p] \ {id} |-> circuits[p][i]]]
        /\ relayVars' = relayVars /\ used' = used /\ sent' = sent
    BY <1>3 DEF Close, historyVars, Types, PipesOK
  <2>2. ASSUME NEW q \in Pipelines, NEW jd \in DOMAIN circuits'[q]
        PROVE  jd \in DOMAIN circuits[q] /\ circuits'[q][jd] = circuits[q][jd]
    BY <2>1 DEF Types, PipesOK
  <2>3. ASSUME NEW q \in Pipelines, NEW jd \in DOMAIN circuits'[q]
        PROVE  /\ jd \in DOMAIN circuits[q] /\ circuits'[q][jd].keys = circuits[q][jd].keys
               /\ circuits'[q][jd].words[Hops] >= circuits[q][jd].words[Hops]
    BY <1>1, <2>2
  <2> QED BY <1>0, <2>1, <2>3, QuietOrder
<1>4. ASSUME NEW len \in BlockSizes, AddKey(len) PROVE OrderInv'
  BY <1>2, <1>4 DEF AddKey, pipeVars, historyVars
<1>5. ASSUME NEW u \in Users, Consume(u) PROVE OrderInv'
  BY <1>2, <1>5 DEF Consume, pipeVars, historyVars
<1>6. ASSUME NEW p \in Pipelines, CompleteAuth(p) \/ BuildFails(p) PROVE OrderInv'
  BY <1>2, <1>6 DEF CompleteAuth, BuildFails, historyVars
<1>7. ASSUME NEW p \in Pipelines, NEW id \in CircuitIds, TakeHopKey(p, id) PROVE OrderInv'
  BY <1>2, <1>7 DEF TakeHopKey, historyVars
<1>8. CASE UNCHANGED onionVars BY <1>2, <1>8 DEF onionVars, pipeVars, historyVars
<1> QED
  BY <1>0, <1>3, <1>4, <1>5, <1>6, <1>7, <1>8, EncryptOrder, RegisterOrder, SendOrder, PeelOrder
     DEF OnionNext

LEMMA ComesIsPrefix == Types /\ Comes => ComesOutInOrder
<1> SUFFICES ASSUME Types, Comes, NEW k \in KeyId PROVE IsPrefix(delivered[k], sent[k])
  BY DEF ComesOutInOrder
<1> DEFINE d == Len(delivered[k])
           s == SubSeq(sent[k], 1, d)
<1>1. delivered[k] \in Seq(Nat) /\ sent[k] \in Seq(Nat) BY DEF Types, HistoryOK
<1>2. d \in Nat /\ Len(sent[k]) \in Nat /\ d <= Len(sent[k]) BY <1>1, LenProperties DEF Comes
<1>3. s \in Seq(Nat) /\ Len(s) = d /\ \A j \in 1 .. d : s[j] = sent[k][j]
  BY <1>1, <1>2, SubSeqProperties, LenProperties
<1>4. \A j \in 1 .. d : delivered[k][j] = s[j] BY <1>3 DEF Comes
<1>5. delivered[k] = s BY <1>1, <1>3, <1>4, SeqEqual
<1> QED BY <1>2, <1>5 DEF IsPrefix

(* What comes out of a circuit is what was sent on it, in order and        *)
(* without a gap, over links that lose, repeat and reorder (onion_encrypt, *)
(* onion_peel, and the word counts of seal and open).                      *)
THEOREM ComesOutCorrect == OnionSpec => []ComesOutInOrder
<1> DEFINE IInv == Types /\ KeysInv /\ OrderInv
<1>1. OnionInit => IInv BY InitTypes, InitKeys, InitOrder
<1>2. IInv /\ [OnionNext]_onionVars => IInv' BY NextTypes, NextKeys, NextOrder
<1>3. IInv => ComesOutInOrder BY ComesIsPrefix DEF OrderInv
<1> QED BY <1>1, <1>2, <1>3, PTL DEF OnionSpec
=============================================================================
