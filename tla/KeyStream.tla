------------------------------ MODULE KeyStream ------------------------------
(***************************************************************************)
(* The promise of a key lane: a window that only moves forward over the    *)
(* stream, whose byte at offset o is byte o of the stream.  There is no    *)
(* ring buffer here; KeyLane refines this specification.                   *)
(***************************************************************************)
EXTENDS KeyWindow

CONSTANTS MaxStream,  \* bound: bytes deposited in a behaviour
          MaxOffset   \* the largest key offset (u64::MAX in the code)

VARIABLES win,        \* the window [base, count]
          reply       \* what the last operation returned

vars == <<win, reply>>

(* An operation returns an error, or key bytes from an offset.  out is the *)
(* caller's buffer: a function from positions to bytes.                    *)
Error(e)      == [err |-> e, off |-> 0, out |-> <<>>]
Got(off, out) == [err |-> "none", off |-> off, out |-> out]
Done(off)     == Got(off, <<>>)

Refuse(e) == reply' = Error(e) /\ UNCHANGED win

BytesFrom(off, n) == [i \in 0 .. n - 1 |-> off + i]

Init == win = EmptyWindow /\ reply = Done(0)

DepositBlock(n) ==
    \/ n = 0 /\ Refuse("EmptyInput")
    \/ n > Capacity /\ Refuse("BlockTooLarge")
    \/ /\ Depositable(n)
       /\ End(win) + n <= MaxStream
       /\ win' = Deposit(win, n)
       /\ reply' = Done(0)

TakeKey(n) ==
    \/ n = 0 /\ Refuse("EmptyInput")
    \/ n > win.count /\ Refuse("InsufficientKey")
    \/ /\ CanTake(win, n)
       /\ win' = Take(win, n)
       /\ reply' = Got(win.base, BytesFrom(win.base, n))

PeekAt(off, n) ==
    \/ n = 0 /\ Refuse("EmptyInput")
    \/ n > 0 /\ Consumed(win, off) /\ Refuse("AlreadyConsumed")
    \/ n > 0 /\ ~Consumed(win, off) /\ ~InWindow(win, off, n) /\ Refuse("InsufficientKey")
    \/ /\ n > 0
       /\ InWindow(win, off, n)
       /\ reply' = Got(off, BytesFrom(off, n))
       /\ UNCHANGED win

ConsumeThrough(off, n) ==
    \/ Consumed(win, off) /\ Refuse("AlreadyConsumed")
    \/ ~Consumed(win, off) /\ ~InWindow(win, off, n) /\ Refuse("InsufficientKey")
    \/ /\ InWindow(win, off, n)
       /\ win' = ConsumeTo(win, off, n)
       /\ reply' = Done(off)

WipeAll == win' = Wipe(win) /\ reply' = Done(0)

Next ==
    \/ \E n \in 0 .. Capacity + 1 : DepositBlock(n) \/ TakeKey(n)
    \/ \E n \in 0 .. Capacity + 1, off \in 0 .. MaxOffset :
           PeekAt(off, n) \/ ConsumeThrough(off, n)
    \/ WipeAll

Spec == Init /\ [][Next]_vars
=============================================================================
