------------------------------ MODULE KeyWindow ------------------------------
(***************************************************************************)
(* What a key lane (kernel/qkey) does to its window over the L1 key stream.*)
(*                                                                         *)
(* L1 hands both ends of a quantum link the same stream of key bytes; a    *)
(* byte is named by its absolute offset in that stream, and a lane keeps   *)
(* the bytes at offsets base .. base+count-1.  This module has the pure    *)
(* part: windows as records, and each operation of KeyLane as a guard and  *)
(* a new window.  KeyStream makes a specification of it, KeyLane shows the *)
(* ring buffer of the code to implement that, and QtlsLink and NetStack    *)
(* are built on these operators.                                           *)
(***************************************************************************)
EXTENDS Integers

CONSTANT Capacity     \* LANE_CAPACITY: the bytes a lane holds at most

ASSUME CapacityAssumption == Capacity \in Nat \ {0}

Window == [base : Nat, count : 0 .. Capacity]

EmptyWindow == [base |-> 0, count |-> 0]

(* The offset after the last byte deposited.                               *)
End(w) == w.base + w.count

(* The bytes of w that do not fit once n more arrive (saturating_sub).     *)
Excess(w, n) == IF w.count + n > Capacity THEN w.count + n - Capacity ELSE 0

(* discard: the n oldest bytes leave the window.                           *)
Discard(w, n) == [base |-> w.base + n, count |-> w.count - n]

(* deposit [FIX-4]: a full window slides over its oldest unused bytes.     *)
Deposit(w, n) ==
    LET kept == Discard(w, Excess(w, n))
    IN  [kept EXCEPT !.count = @ + n]

Depositable(n) == n \in 1 .. Capacity

(* take: the sender's next n bytes, those at w.base .. w.base + n - 1.     *)
CanTake(w, n) == n > 0 /\ n <= w.count
Take(w, n)    == Discard(w, n)

(* peek_at and consume_through: the receiver reads, then burns, up to the  *)
(* end of the n bytes at offset off, the bytes it skips included.          *)
Consumed(w, off)     == off < w.base
InWindow(w, off, n)  == w.base <= off /\ off + n <= End(w)
ConsumeTo(w, off, n) == Discard(w, off - w.base + n)

(* wipe: every byte still held leaves the window.                          *)
Wipe(w) == Discard(w, w.count)
=============================================================================
