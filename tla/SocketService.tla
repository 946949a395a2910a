---------------------------- MODULE SocketService ----------------------------
(***************************************************************************)
(* What the sockets of two nodes promise their applications, whatever the  *)
(* network does.  A connection that one node dials has at most one end at  *)
(* each node; the peer serves it at most once; it opens for the dialler    *)
(* when the peer serves it, and closes only when the peer has left it for  *)
(* good.  Messages come out in the order they were written, each at most   *)
(* once, on the connection they were written to; some may be lost.         *)
(***************************************************************************)
EXTENDS Integers

CONSTANTS Node,     \* the two nodes
          Peer(_),  \* the other node
          Conn      \* the connections there can be; they are dialled as 1, 2, ...

VARIABLES dials,    \* connections dialled so far
          served,   \* connections that were served
          ends,     \* the ends of connections there are
          wrote,    \* wrote[n][c]: messages n has written to connection c
          read      \* read[n][c]: the last message n has read from it

vars == <<dials, served, ends, wrote, read>>

(* An end of connection c at node n; inbox: the messages waiting there.    *)
End(n, c, state, inbox) == [node |-> n, conn |-> c, state |-> state, inbox |-> inbox]

HasEnd(n, c) == \E e \in ends : e.node = n /\ e.conn = c

Init ==
    /\ dials = 0 /\ served = {} /\ ends = {}
    /\ wrote = [n \in Node |-> [c \in Conn |-> 0]]
    /\ read = [n \in Node |-> [c \in Conn |-> 0]]

(* A node dials the next connection; that may fail at once.                *)
Dial(n) ==
    /\ dials + 1 \in Conn
    /\ dials' = dials + 1
    /\ ends' \in {ends, ends \cup {End(n, dials + 1, "HelloSent", {})}}
    /\ UNCHANGED <<served, wrote, read>>

(* A node takes it up, which happens once (it is the peer of the dialler;  *)
(* that is not said here).                                                 *)
Serve(n, c) ==
    /\ c <= dials /\ c \notin served /\ ~HasEnd(n, c)
    /\ served' = served \cup {c}
    /\ ends' = ends \cup {End(n, c, "Established", {})}
    /\ UNCHANGED <<dials, wrote, read>>

(* One end changes, and nothing else.                                      *)
Turn(e, f) == ends' = (ends \ {e}) \cup {f}

Open(e) ==
    /\ e.state = "HelloSent" /\ e.conn \in served
    /\ Turn(e, [e EXCEPT !.state = "Established"])
    /\ UNCHANGED <<dials, served, wrote, read>>

(* The peer has left, and cannot come back.                                *)
PeerLeft(e) ==
    /\ e.state # "Closed" /\ e.conn \in served /\ ~HasEnd(Peer(e.node), e.conn)
    /\ Turn(e, [e EXCEPT !.state = "Closed"])
    /\ UNCHANGED <<dials, served, wrote, read>>

Leave(e) ==
    /\ ends' = ends \ {e}
    /\ UNCHANGED <<dials, served, wrote, read>>

Write(e) ==
    /\ e.state = "Established"
    /\ wrote' = [wrote EXCEPT ![e.node][e.conn] = @ + 1]
    /\ UNCHANGED <<dials, served, ends, read>>

(* A message arrives that is later than all that arrived before.           *)
Deliver(e) ==
    /\ e.state = "Established"
    /\ \E k \in read[e.node][e.conn] + 1 .. wrote[Peer(e.node)][e.conn] :
          /\ \A m \in e.inbox : m < k
          /\ Turn(e, [e EXCEPT !.inbox = @ \cup {k}])
    /\ UNCHANGED <<dials, served, wrote, read>>

(* The earliest message that waits is read.                                *)
Read(e) ==
    /\ \E k \in e.inbox :
          /\ \A m \in e.inbox : k <= m
          /\ read' = [read EXCEPT ![e.node][e.conn] = k]
          /\ Turn(e, [e EXCEPT !.inbox = @ \ {k}])
    /\ UNCHANGED <<dials, served, wrote>>

Next ==
    \/ \E n \in Node : Dial(n) \/ \E c \in Conn : Serve(n, c)
    \/ \E e \in ends : Open(e) \/ PeerLeft(e) \/ Leave(e) \/ Write(e) \/ Deliver(e) \/ Read(e)

Spec == Init /\ [][Next]_vars
=============================================================================
