----------------------------- MODULE QtlsService -----------------------------
(***************************************************************************)
(* What a QTLS link promises to the layer above, whatever the wire does:   *)
(* messages arrive in the order they were sent, each at most once, and     *)
(* nothing arrives that was not sent.  Messages may be lost.               *)
(***************************************************************************)
EXTENDS Integers

CONSTANTS Node,      \* the two ends of the link
          Peer(_)    \* the other end

VARIABLES sent,      \* sent[n]: how many messages n has sealed; they are 1, 2, ...
          got        \* got[n]: the last message n opened, 0 before the first

vars == <<sent, got>>

Init == sent = [n \in Node |-> 0] /\ got = [n \in Node |-> 0]

Send(n) == sent' = [sent EXCEPT ![n] = @ + 1] /\ UNCHANGED got

Deliver(n) ==
    /\ \E m \in got[n] + 1 .. sent[Peer(n)] : got' = [got EXCEPT ![n] = m]
    /\ UNCHANGED sent

Next == \E n \in Node : Send(n) \/ Deliver(n)

Spec == Init /\ [][Next]_vars
=============================================================================
