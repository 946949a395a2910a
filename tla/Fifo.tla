-------------------------------- MODULE Fifo --------------------------------
(***************************************************************************)
(* What the message queue and the pipe of kernel/ipc promise: a bounded    *)
(* first-in-first-out buffer.  Items are named by the order in which they  *)
(* were put in, 1, 2, ...; those between low and high wait.                *)
(***************************************************************************)
EXTENDS Integers

CONSTANTS Cap,      \* items it holds
          Asks,     \* how many items a caller asks to put or get
          MaxItems  \* bound: items put in a behaviour

VARIABLES low,   \* items that have been taken out
          high,  \* items that have been put in
          reply  \* the last operation: its name, what was asked, what it did

vars == <<low, high, reply>>

Reply(op, asked, items) == [op |-> op, asked |-> asked, items |-> items]

AtMost(n, limit) == IF n <= limit THEN n ELSE limit

(* The n items after item k.                                               *)
ItemsAfter(k, n) == [i \in 1 .. n |-> k + i]

Init == low = 0 /\ high = 0 /\ reply = Reply("none", 0, <<>>)

Put(k) ==
    LET n == AtMost(k, Cap - (high - low))
    IN  /\ high + n <= MaxItems
        /\ high' = high + n
        /\ reply' = Reply("put", k, ItemsAfter(high, n))
        /\ UNCHANGED low

Get(k) ==
    LET n == AtMost(k, high - low)
    IN  /\ low' = low + n
        /\ reply' = Reply("get", k, ItemsAfter(low, n))
        /\ UNCHANGED high

Next == \E k \in Asks : Put(k) \/ Get(k)

Spec == Init /\ [][Next]_vars
=============================================================================
