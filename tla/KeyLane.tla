------------------------------- MODULE KeyLane -------------------------------
(***************************************************************************)
(* KeyLane of kernel/qkey/src/lib.rs: a ring buffer of key bytes with the  *)
(* absolute offset of its oldest byte.                                     *)
(*                                                                         *)
(* The value of a key byte is abstracted to its identity, its position in  *)
(* the stream of bytes the lane was ever given; Erased is the zero byte    *)
(* that zeroization leaves.  deposited and spent are history: how many     *)
(* bytes arrived, and which ones have left the ring.                       *)
(***************************************************************************)
EXTENDS KeyWindow

CONSTANTS MaxStream,  \* bound: bytes deposited in a behaviour
          MaxOffset   \* u64::MAX: the largest offset a record can carry

ASSUME BoundsAssumption == MaxStream \in Nat /\ MaxOffset \in Nat /\ Capacity <= MaxOffset

VARIABLES lane,       \* struct KeyLane
          deposited,  \* history: bytes ever deposited
          spent,      \* history: bytes that were taken, consumed or dropped
          reply       \* what the last operation returned

vars == <<lane, deposited, spent, reply>>

Slots  == 0 .. Capacity - 1
Erased == -1
Bytes  == Nat \cup {Erased}

LaneType == [buf : [Slots -> Bytes], read : Slots, count : 0 .. Capacity, base : Nat]

(* How many steps (w + 1) % LANE_CAPACITY lead from one slot to another.   *)
Ahead(from, to) == IF from <= to THEN to - from ELSE to - from + Capacity

Error(e)      == [err |-> e, off |-> 0, out |-> <<>>]
Got(off, out) == [err |-> "none", off |-> off, out |-> out]
Done(off)     == Got(off, <<>>)

Refuse(e) == reply' = Error(e) /\ UNCHANGED <<lane, deposited, spent>>

(***************************************************************************)
(* The private helpers of the code.                                        *)
(***************************************************************************)
NewLane == [buf |-> [s \in Slots |-> Erased], read |-> 0, count |-> 0, base |-> 0]

(* copy_out: n bytes from the skip-th one on.                              *)
CopyOut(l, skip, n) == [i \in 0 .. n - 1 |-> l.buf[(l.read + skip + i) % Capacity]]

(* A fault: discard that forgets to zeroize.                               *)
DiscardLeavesBytes(l, n) ==
    [l EXCEPT !.read = (@ + n) % Capacity, !.count = @ - n, !.base = @ + n]

(* discard: zeroes the n oldest bytes and moves the window over them.      *)
DiscardBytes(l, n) ==
    [buf   |-> [s \in Slots |-> IF Ahead(l.read, s) < n THEN Erased ELSE l.buf[s]],
     read  |-> (l.read + n) % Capacity,
     count |-> l.count - n,
     base  |-> l.base + n]

(* The bytes that a discard of n erases.                                   *)
Leaving(l, n) == {l.buf[s] : s \in {s \in Slots : Ahead(l.read, s) < n}}

(* The writing loop of deposit: n bytes from slot (read + count) on.       *)
WriteBytes(l, first, n) ==
    LET w == (l.read + l.count) % Capacity
    IN  [buf   |-> [s \in Slots |-> IF Ahead(w, s) < n THEN first + Ahead(w, s) ELSE l.buf[s]],
         read  |-> l.read,
         count |-> l.count + n,
         base  |-> l.base]

(* count + len - LANE_CAPACITY, saturating at zero.                        *)
Overflow(l, n) == IF l.count + n > Capacity THEN l.count + n - Capacity ELSE 0

(* checked_add on u64: NoSum when the sum does not fit.                    *)
NoSum == -1

(* A fault: wrapping addition, as before FIX-OVF.                          *)
WrappingAdd(a, b) == (a + b) % (MaxOffset + 1)

CheckedAdd(a, b) == IF a + b <= MaxOffset THEN a + b ELSE NoSum

(* Do the n bytes at off lie before the end of the lane [FIX-OVF]?         *)
WithinLane(l, off, n) ==
    LET need == CheckedAdd(off - l.base, n)
    IN  need # NoSum /\ need <= l.count

(***************************************************************************)
(* The operations.                                                         *)
(***************************************************************************)
Init == lane = NewLane /\ deposited = 0 /\ spent = {} /\ reply = Done(0)

DepositBlock(n) ==
    \/ n = 0 /\ Refuse("EmptyInput")
    \/ n > Capacity /\ Refuse("BlockTooLarge")
    \/ /\ Depositable(n)
       /\ deposited + n <= MaxStream
       /\ LET over == Overflow(lane, n)
          IN  /\ lane' = WriteBytes(DiscardBytes(lane, over), deposited, n)
              /\ spent' = spent \cup Leaving(lane, over)
       /\ deposited' = deposited + n
       /\ reply' = Done(0)

(* A fault: the key that take hands out stays in the lane.                 *)
TakeKeepsKey(n) ==
    /\ n \in 1 .. lane.count
    /\ spent' = spent \cup Leaving(lane, n)
    /\ reply' = Got(lane.base, CopyOut(lane, 0, n))
    /\ UNCHANGED <<lane, deposited>>

TakeKey(n) ==
    \/ n = 0 /\ Refuse("EmptyInput")
    \/ n > lane.count /\ Refuse("InsufficientKey")
    \/ /\ n > 0
       /\ n <= lane.count
       /\ lane' = DiscardBytes(lane, n)
       /\ spent' = spent \cup Leaving(lane, n)
       /\ reply' = Got(lane.base, CopyOut(lane, 0, n))
       /\ UNCHANGED deposited

PeekAt(off, n) ==
    \/ n = 0 /\ Refuse("EmptyInput")
    \/ n > 0 /\ off < lane.base /\ Refuse("AlreadyConsumed")
    \/ n > 0 /\ off >= lane.base /\ ~WithinLane(lane, off, n) /\ Refuse("InsufficientKey")
    \/ /\ n > 0
       /\ off >= lane.base
       /\ WithinLane(lane, off, n)
       /\ reply' = Got(off, CopyOut(lane, off - lane.base, n))
       /\ UNCHANGED <<lane, deposited, spent>>

ConsumeThrough(off, n) ==
    \/ off < lane.base /\ Refuse("AlreadyConsumed")
    \/ off >= lane.base /\ ~WithinLane(lane, off, n) /\ Refuse("InsufficientKey")
    \/ /\ off >= lane.base
       /\ WithinLane(lane, off, n)
       /\ lane' = DiscardBytes(lane, off - lane.base + n)
       /\ spent' = spent \cup Leaving(lane, off - lane.base + n)
       /\ reply' = Done(off)
       /\ UNCHANGED deposited

WipeAll ==
    /\ lane' = [NewLane EXCEPT !.base = lane.base + lane.count]
    /\ spent' = spent \cup Leaving(lane, lane.count)
    /\ reply' = Done(0)
    /\ UNCHANGED deposited

Next ==
    \/ \E n \in 0 .. Capacity + 1 : DepositBlock(n) \/ TakeKey(n)
    \/ \E n \in 0 .. Capacity + 1, off \in 0 .. MaxOffset :
           PeekAt(off, n) \/ ConsumeThrough(off, n)
    \/ WipeAll

Spec == Init /\ [][Next]_vars

(***************************************************************************)
(* Properties.                                                             *)
(***************************************************************************)

(* Type invariant of struct KeyLane: read is a slot and count never runs   *)
(* below zero or above the capacity (discard's unchecked subtraction).     *)
TypeOK == lane \in LaneType /\ deposited \in Nat /\ spent \subseteq Bytes

(* The ring holds exactly the last count bytes of the stream, each in the  *)
(* slot its offset names, and the key in every other slot is erased: what  *)
(* was taken, consumed, slid over or wiped is nowhere in memory.           *)
RingHoldsStream ==
    \A s \in Slots :
        lane.buf[s] = IF Ahead(lane.read, s) < lane.count
                      THEN lane.base + Ahead(lane.read, s) ELSE Erased

(* Offsets and stream positions never drift apart: next_offset() plus      *)
(* available() is what was deposited, through slides, gaps and wipes.      *)
OffsetsCountTheStream == lane.base + lane.count = deposited

(* A byte that left the lane (taken by seal, consumed by open, slid over   *)
(* or wiped) is never handed to a caller again: no key byte is used twice. *)
NeverReissued ==
    [][\A i \in DOMAIN reply'.out : reply'.out[i] \notin spent \cup {Erased}]_vars

(* The ring buffer implements the window over the stream: every operation  *)
(* returns the same offset, bytes or error as KeyStream's.                 *)
Stream == INSTANCE KeyStream WITH win <- [base |-> lane.base, count |-> lane.count]
ImplementsStream == Stream!Spec
=============================================================================
