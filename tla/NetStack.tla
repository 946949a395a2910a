------------------------------ MODULE NetStack ------------------------------
(***************************************************************************)
(* The network stacks of two nodes (kernel/net/src/stack.rs): ARP, the     *)
(* session table, the QTLS handshake, data and close, over a network that  *)
(* loses, repeats and reorders frames and a NIC that fills up.             *)
(*                                                                         *)
(* Both nodes run the same code.  Every operation holds the KERNEL_NET     *)
(* lock, so each is one action; poll is one Receive for each frame, and a  *)
(* frame that is still queued when poll returns is one that has not yet    *)
(* come.  Frames pass Ethernet, IPv4 and UDP parsing here (they come from  *)
(* the peer's stack); QtlsLink has the altered ones.  A record's payload   *)
(* is abstracted to a Message: the connection and the number of the write  *)
(* it came from, and its length.                                           *)
(***************************************************************************)
EXTENDS KeyWindow, Sequences, FiniteSetsExt, SequencesExt

CONSTANTS BlockLen, MacCost, MaxPayload,          \* as in QtlsLink
          MaxSessions, MaxListen, RxSlots, NicSlots, \* sizes of the static tables
          IdSpace,        \* 2^16: session ids are u16
          EphemeralBase, EphemeralPorts, \* 49152 and 16384
          Ports,          \* the ports applications use
          Clients, Servers, Writers, \* the nodes that connect, that listen, that send
          Reordering,     \* may the network reorder and repeat frames?
          MaxBlocks, MaxDials, MaxMsgs, MaxLoss \* bounds of a behaviour

ASSUME RecordAssumption == MacCost \in Nat \ {0} /\ MaxPayload \in Nat \ {0}
ASSUME TableAssumption ==
    {BlockLen, MaxSessions, MaxListen, RxSlots, NicSlots} \subseteq Nat \ {0}
ASSUME PortAssumption ==
    /\ IdSpace \in Nat \ {0, 1} /\ EphemeralBase \in Nat /\ EphemeralPorts \in Nat \ {0}
    /\ Ports \subseteq Nat \ {0}
ASSUME RoleAssumption == Clients \cup Servers \cup Writers \subseteq {"A", "B"}
ASSUME BoundAssumption == {MaxBlocks, MaxDials, MaxMsgs, MaxLoss} \subseteq Nat

VARIABLES st,     \* st[n]: node n's NetStack
          seq,    \* the next L1 block, the same at both ends here
          dials,  \* connections tried so far; they are 1, 2, ...
          born,   \* born[c]: server sessions created for connection c
          wrote,  \* wrote[n][c]: messages n has sent on connection c
          read,   \* read[n][c]: the last message n's application read on c
          lost    \* frames the network lost

vars == <<st, seq, dials, born, wrote, read, lost>>

Node == {"A", "B"}
Peer(n) == IF n = "A" THEN "B" ELSE "A"
Lane == {0, 1}
TxLane(n) == IF n = "A" THEN 0 ELSE 1
RxLane(n) == 1 - TxLane(n)

Slot == 1 .. MaxSessions
Conn == 1 .. MaxDials
Id   == 0 .. IdSpace - 1
Port == Ports \cup {0} \cup EphemeralBase .. EphemeralBase + EphemeralPorts - 1

Message == [conn : Conn, num : 1 .. MaxMsgs, len : 1 .. MaxPayload]

Session == [state : {"Free", "HelloSent", "Established", "Closed"}, id : Id,
            pport : Port, lport : Port, accepted : BOOLEAN, rx : Seq(Message),
            conn : Conn \cup {0}]

(* Session::empty().                                                       *)
FreeSession == [state |-> "Free", id |-> 0, pport |-> 0, lport |-> 0, accepted |-> TRUE,
                rx |-> <<>>, conn |-> 0]

NewStack == [keys |-> [l \in Lane |-> EmptyWindow], arp |-> FALSE, listen |-> {},
             sess |-> [i \in Slot |-> FreeSession], next |-> 1, nic |-> <<>>]

(* The first index that position() finds.                                  *)
FirstFree(s) == Min({i \in Slot : s.sess[i].state = "Free"})
HasFree(s)   == \E i \in Slot : s.sess[i].state = "Free"

(***************************************************************************)
(* Sending.  An operation on a stack gives the new stack and an error.     *)
(***************************************************************************)
Result(s, e) == [stack |-> s, err |-> e]

(* NetDevice::transmit: a NIC of NicSlots frames.                          *)
Transmit(s, f) ==
    IF Len(s.nic) = NicSlots THEN Result(s, "DeviceFull")
    ELSE Result([s EXCEPT !.nic = Append(@, f)], "none")

ArpRequest == [ctype |-> "ArpRequest"]
ArpReply   == [ctype |-> "ArpReply"]

(* resolve: without the peer's MAC, broadcast a request and fail.          *)
Resolve(s) ==
    LET r == Transmit(s, ArpRequest)
    IN  IF s.arp THEN Result(s, "none")
        ELSE IF r.err # "none" THEN r ELSE Result(r.stack, "ArpPending")

KeyCost(len) == MacCost + len

(* The frame that carries slot i's record, sealed with the key at w.base.  *)
QtlsFrame(x, w, ctype, len, num) ==
    [ctype |-> ctype, id |-> x.id, sport |-> x.lport, dport |-> x.pport,
     off |-> w.base, len |-> len, conn |-> x.conn, num |-> num]

(* seal, then send_udp: the key leaves the lane before the NIC is tried.   *)
SealAndTransmit(n, s, i, ctype, len, num) ==
    LET w == s.keys[TxLane(n)]
    IN  IF ~CanTake(w, KeyCost(len)) THEN Result(s, "InsufficientKey")
        ELSE Transmit([s EXCEPT !.keys[TxLane(n)] = Take(w, KeyCost(len))],
                      QtlsFrame(s.sess[i], w, ctype, len, num))

SendRecord(n, s, i, ctype, len, num) ==
    LET r == Resolve(s)
    IN  IF r.err # "none" THEN r ELSE SealAndTransmit(n, s, i, ctype, len, num)

(***************************************************************************)
(* The socket operations.                                                  *)
(***************************************************************************)
SetStack(n, s) == st' = [st EXCEPT ![n] = s]

(* The sessions n's application has a handle of.                           *)
Held(n) == {i \in Slot : st[n].sess[i].state # "Free" /\ st[n].sess[i].accepted}

(* listen: a port that is there already, or a full table, changes nothing. *)
Listenable(s, p) == p \notin s.listen /\ Cardinality(s.listen) < MaxListen

Listen(n, p) ==
    \/ /\ Listenable(st[n], p)
       /\ SetStack(n, [st[n] EXCEPT !.listen = @ \cup {p}])
       /\ UNCHANGED <<seq, dials, born, wrote, read, lost>>
    \/ ~Listenable(st[n], p) /\ UNCHANGED vars

(* A fault: connect that never moves on to the next id.                    *)
SameId(id) == id

(* wrapping_add(1).max(1).                                                 *)
NextId(id) == LET i == (id + 1) % IdSpace IN IF i = 0 THEN 1 ELSE i

LocalPort(id) == EphemeralBase + (id % EphemeralPorts)

(* connect before the peer's MAC is known: only the ARP request goes out.  *)
ConnectUnresolved(n) ==
    /\ ~st[n].arp
    /\ SetStack(n, Resolve(st[n]).stack)
    /\ UNCHANGED <<seq, dials, born, wrote, read, lost>>

(* connect: the slot is freed again when the Hello cannot be sent, but the *)
(* session id stays used.  With no free slot nothing changes.              *)
Connect(n, p) ==
    /\ st[n].arp
    /\ HasFree(st[n])
    /\ dials < MaxDials
    /\ LET i == FirstFree(st[n])
           id == st[n].next
           new == [FreeSession EXCEPT !.state = "HelloSent", !.id = id, !.pport = p,
                      !.lport = LocalPort(id), !.conn = dials + 1]
           r == SendRecord(n, [st[n] EXCEPT !.next = NextId(id), !.sess[i] = new],
                           i, "Hello", 0, 0)
       IN  SetStack(n, IF r.err = "none" THEN r.stack
                       ELSE [r.stack EXCEPT !.sess[i].state = "Free"])
    /\ dials' = dials + 1
    /\ UNCHANGED <<seq, born, wrote, read, lost>>

(* accept: the first established session on p that nobody holds yet.       *)
Acceptable(s, p) ==
    {i \in Slot : s.sess[i].state = "Established" /\ ~s.sess[i].accepted /\ s.sess[i].lport = p}

Accept(n, p) ==
    /\ Acceptable(st[n], p) # {}
    /\ SetStack(n, [st[n] EXCEPT !.sess[Min(Acceptable(st[n], p))].accepted = TRUE])
    /\ UNCHANGED <<seq, dials, born, wrote, read, lost>>

(* send: a message counts as written when send returns its length.         *)
Send(n, i, len) ==
    /\ i \in Held(n)
    /\ st[n].sess[i].state = "Established"
    /\ LET c == st[n].sess[i].conn
           r == SendRecord(n, st[n], i, "Data", len, wrote[n][c] + 1)
       IN  /\ wrote[n][c] < MaxMsgs
           /\ SetStack(n, r.stack)
           /\ wrote' = [wrote EXCEPT ![n][c] = IF r.err = "none" THEN @ + 1 ELSE @]
    /\ UNCHANGED <<seq, dials, born, read, lost>>

(* Does the next message fit a caller's buffer of size bytes?              *)
Fits(x, size) == x.rx # <<>> /\ Head(x.rx).len <= size

(* recv: without a message that fits nothing changes.                      *)
Recv(n, i, size) ==
    /\ i \in Held(n)
    /\ \/ /\ Fits(st[n].sess[i], size)
          /\ LET m == Head(st[n].sess[i].rx)
             IN  read' = [read EXCEPT ![n][m.conn] = m.num]
          /\ SetStack(n, [st[n] EXCEPT !.sess[i].rx = Tail(@)])
          /\ UNCHANGED <<seq, dials, born, wrote, lost>>
       \/ ~Fits(st[n].sess[i], size) /\ UNCHANGED vars

(* close: the peer is told if it can be; the slot is free in any case.     *)
Close(n, i) ==
    /\ i \in Held(n)
    /\ LET s == st[n]
           told == IF s.sess[i].state = "Established"
                   THEN SendRecord(n, s, i, "Close", 0, 0).stack ELSE s
       IN  SetStack(n, [told EXCEPT !.sess[i] = FreeSession])
    /\ UNCHANGED <<seq, dials, born, wrote, read, lost>>

(***************************************************************************)
(* Receiving.  The frames in st[Peer(n)].nic are on their way to n.        *)
(***************************************************************************)

(* The sessions of s that a frame names.                                   *)
Matching(s, f) ==
    {i \in Slot : /\ s.sess[i].state # "Free"
                  /\ s.sess[i].pport = f.sport
                  /\ s.sess[i].lport = f.dport
                  /\ s.sess[i].id = f.id}

(* A fault: the offset is only checked against the end of the window.      *)
OpensOldKey(n, s, f) == f.off + KeyCost(f.len) <= End(s.keys[RxLane(n)])

(* open succeeds on a genuine record whose key is still in the window.     *)
Opens(n, s, f) == InWindow(s.keys[RxLane(n)], f.off, KeyCost(f.len))

(* A fault: a record that is opened without consume_through.               *)
BurnNothing(n, s, f) == s

Burn(n, s, f) ==
    [s EXCEPT !.keys[RxLane(n)] = ConsumeTo(@, f.off, KeyCost(f.len))]

(* A fault: a request is learned from and not answered.                    *)
LearnOnly(s, f) == [s EXCEPT !.arp = TRUE]

HandleArp(s, f) ==
    LET known == [s EXCEPT !.arp = TRUE]
    IN  IF f.ctype = "ArpRequest" THEN Transmit(known, ArpReply).stack ELSE known

(* A Hello that names no session, on a port somebody listens to.           *)
FreshHello(s, f) == f.ctype = "Hello" /\ Matching(s, f) = {} /\ f.dport \in s.listen

(* Faults: a server session with its ports swapped, and one that is never  *)
(* acknowledged.                                                           *)
AcceptHelloSwapped(n, s, f) ==
    LET i == FirstFree(s)
        new == [FreeSession EXCEPT !.state = "Established", !.id = f.id, !.pport = f.dport,
                   !.lport = f.sport, !.accepted = FALSE, !.conn = f.conn]
    IN  SendRecord(n, [s EXCEPT !.sess[i] = new], i, "HelloAck", 0, 0).stack

AcceptHelloSilently(n, s, f) ==
    [s EXCEPT !.sess[FirstFree(s)] =
        [FreeSession EXCEPT !.state = "Established", !.id = f.id, !.pport = f.sport,
            !.lport = f.dport, !.accepted = FALSE, !.conn = f.conn]]

(* The server's side of a Hello: a session, and a HelloAck if it can be    *)
(* sent.  The key is burned even when the table has no free slot.          *)
AcceptHello(n, s, f) ==
    LET i == FirstFree(s)
        new == [FreeSession EXCEPT !.state = "Established", !.id = f.id, !.pport = f.sport,
                   !.lport = f.dport, !.accepted = FALSE, !.conn = f.conn]
    IN  SendRecord(n, [s EXCEPT !.sess[i] = new], i, "HelloAck", 0, 0).stack

(* A fault: a queue that is full one slot early.                           *)
PushEarlyFull(x, m) == IF Len(x.rx) = RxSlots - 1 THEN x ELSE [x EXCEPT !.rx = Append(@, m)]

(* A fault: a message that finds the queue full takes the oldest's place.  *)
PushOverOldest(x, m) ==
    [x EXCEPT !.rx = IF Len(@) = RxSlots THEN Append(Tail(@), m) ELSE Append(@, m)]

(* push: a message that finds the queue full is dropped.                   *)
Push(x, m) == IF Len(x.rx) = RxSlots THEN x ELSE [x EXCEPT !.rx = Append(@, m)]

MessageOf(f) == [conn |-> f.conn, num |-> f.num, len |-> f.len]

(* What an opened record does to the session it names.                     *)
Advance(x, f) ==
    CASE f.ctype = "HelloAck" /\ x.state = "HelloSent" -> [x EXCEPT !.state = "Established"]
      [] f.ctype = "Data" /\ x.state = "Established" -> Push(x, MessageOf(f))
      [] f.ctype = "Close" -> [x EXCEPT !.state = "Closed"]
      [] OTHER -> x

(* Does the frame create a server session?                                 *)
Creates(n, s, f) == FreshHello(s, f) /\ Opens(n, s, f) /\ HasFree(s)

(* The stack of n once it has handled a QTLS frame.                        *)
HandleQtls(n, s, f) ==
    CASE Matching(s, f) # {} /\ Opens(n, s, f) ->
             [Burn(n, s, f) EXCEPT !.sess[Min(Matching(s, f))] = Advance(@, f)]
      [] Creates(n, s, f) -> AcceptHello(n, Burn(n, s, f), f)
      [] FreshHello(s, f) /\ Opens(n, s, f) /\ ~HasFree(s) -> Burn(n, s, f)
      [] OTHER -> s

IsArp(f) == f.ctype \in {"ArpRequest", "ArpReply"}

HandleFrame(n, s, f) == IF IsArp(f) THEN HandleArp(s, f) ELSE HandleQtls(n, s, f)

(* Node n gets the k-th frame on its way; the network may repeat it later. *)
Receive(n, k, repeat) ==
    /\ k \in DOMAIN st[Peer(n)].nic
    /\ Reordering \/ (k = 1 /\ ~repeat)
    /\ LET f == st[Peer(n)].nic[k]
       IN  /\ st' = [st EXCEPT ![n] = HandleFrame(n, st[n], f),
                               ![Peer(n)].nic = IF repeat THEN @ ELSE RemoveAt(@, k)]
           /\ IF ~IsArp(f) /\ Creates(n, st[n], f)
              THEN born' = [born EXCEPT ![f.conn] = @ + 1]
              ELSE UNCHANGED born
    /\ UNCHANGED <<seq, dials, wrote, read, lost>>

(* The network loses a frame.                                              *)
Lose(n, k) ==
    /\ k \in DOMAIN st[n].nic
    /\ lost < MaxLoss
    /\ lost' = lost + 1
    /\ st' = [st EXCEPT ![n].nic = RemoveAt(@, k)]
    /\ UNCHANGED <<seq, dials, born, wrote, read>>

(* L1 delivers a block to both ends (deposit_key_block).                   *)
L1Block ==
    /\ seq < MaxBlocks
    /\ seq' = seq + 1
    /\ st' = [n \in Node |-> [st[n] EXCEPT !.keys[seq % 2] = Deposit(@, BlockLen)]]
    /\ UNCHANGED <<dials, born, wrote, read, lost>>

(***************************************************************************)
(* The specification.                                                      *)
(***************************************************************************)
Init ==
    /\ st = [n \in Node |-> NewStack]
    /\ seq = 0
    /\ dials = 0
    /\ born = [c \in Conn |-> 0]
    /\ wrote = [n \in Node |-> [c \in Conn |-> 0]]
    /\ read = [n \in Node |-> [c \in Conn |-> 0]]
    /\ lost = 0

App(n) ==
    \/ n \in Servers /\ \E p \in Ports : Listen(n, p) \/ Accept(n, p)
    \/ n \in Clients /\ (ConnectUnresolved(n) \/ \E p \in Ports : Connect(n, p))
    \/ \E i \in Slot : Close(n, i)
    \/ \E i \in Slot, len \in 1 .. MaxPayload :
           Recv(n, i, len) \/ (n \in Writers /\ Send(n, i, len))

Network(n) ==
    \E k \in 1 .. NicSlots : Lose(n, k) \/ \E repeat \in BOOLEAN : Receive(n, k, repeat)

Next == L1Block \/ \E n \in Node : App(n) \/ Network(n)

Spec == Init /\ [][Next]_vars

(* kernel_main polls for ever and an application that waits keeps trying:  *)
(* it calls connect again on ArpPending, accept and recv again on EAGAIN.  *)
Fairness ==
    \A n \in Node :
        /\ WF_vars(Receive(n, 1, FALSE))
        /\ n \in Clients => WF_vars(ConnectUnresolved(n))
        /\ \A p \in Ports : WF_vars(Accept(n, p))
        /\ \A i \in Slot : WF_vars(Recv(n, i, MaxPayload))

FairSpec == Spec /\ Fairness

(***************************************************************************)
(* Properties.                                                             *)
(***************************************************************************)
Frame == [ctype : {"ArpRequest", "ArpReply"}] \cup
         [ctype : {"Hello", "HelloAck", "Data", "Close"}, id : Id, sport : Port, dport : Port,
          off : Nat, len : 0 .. MaxPayload, conn : Conn, num : 0 .. MaxMsgs]

(* Type invariant: lanes, session table, queues and NIC within their sizes.*)
TypeOK ==
    /\ \A n \in Node :
        /\ st[n].keys \in [Lane -> Window]
        /\ st[n].arp \in BOOLEAN
        /\ st[n].listen \subseteq Ports /\ Cardinality(st[n].listen) <= MaxListen
        /\ st[n].sess \in [Slot -> Session]
        /\ \A i \in Slot : Len(st[n].sess[i].rx) <= RxSlots
        /\ st[n].next \in Id \ {0}
        /\ st[n].nic \in Seq(Frame) /\ Len(st[n].nic) <= NicSlots
    /\ born \in [Conn -> Nat]
    /\ wrote \in [Node -> [Conn -> 0 .. MaxMsgs]]
    /\ read \in [Node -> [Conn -> 0 .. MaxMsgs]]

Live(n) == {i \in Slot : st[n].sess[i].state # "Free"}

(* What waits in a session's queue was written by the peer on that very    *)
(* connection, in order, each message once and after those already read,   *)
(* although slots, ports and frames are reused, repeated and reordered.    *)
SessionIsolation ==
    \A n \in Node : \A i \in Live(n) :
        LET x == st[n].sess[i]
            num(j) == x.rx[j].num
        IN  \A j \in DOMAIN x.rx :
                /\ x.rx[j].conn = x.conn
                /\ num(j) <= wrote[Peer(n)][x.conn]
                /\ num(j) > IF j = 1 THEN read[n][x.conn] ELSE num(j - 1)

(* A Hello creates one server session at most, however often the network   *)
(* delivers it and whatever became of the session it created.              *)
OneSessionPerHello == \A c \in Conn : born[c] <= 1

IsClient(x) == x.lport \notin Ports

(* A client believes in a connection only if the server made a session for *)
(* it, and while both ends have one they name each other: same id, each    *)
(* other's port.                                                           *)
EndsAgree ==
    \A n \in Node : \A i \in Live(n) :
        LET x == st[n].sess[i]
        IN  /\ (IsClient(x) /\ x.state # "HelloSent") => born[x.conn] = 1
            /\ \A j \in Live(Peer(n)) :
                  LET y == st[Peer(n)].sess[j]
                  IN  y.conn = x.conn =>
                        y.id = x.id /\ y.lport = x.pport /\ y.pport = x.lport

(* A session is closed by the peer's close of that connection and nothing  *)
(* else: its peer has no session for it any more.  (A run sees this in     *)
(* PeerLeft of the socket service below.)                                  *)
ClosedByPeer ==
    \A n \in Node : \A i \in Live(n) :
        st[n].sess[i].state = "Closed" =>
            \A j \in Live(Peer(n)) : st[Peer(n)].sess[j].conn # st[n].sess[i].conn

(* No two live sessions of a node match the same frame, so that position() *)
(* never has a choice (no session outlives a turn of the id counter here). *)
NoAmbiguousSession ==
    \A n \in Node : \A i, j \in Live(n) :
        LET key(x) == <<x.id, x.lport, x.pport>>
        IN  i # j => key(st[n].sess[i]) # key(st[n].sess[j])

(***************************************************************************)
(* What the applications see of it: the ends of connections there are, and *)
(* the numbers of the messages that wait at each.                          *)
(***************************************************************************)

(* The numbers of the messages in a queue.                                 *)
NumbersOf(q) == {m.num : m \in Range(q)}

EndOf(n, i) ==
    LET x == st[n].sess[i]
    IN  [node |-> n, conn |-> x.conn, state |-> x.state, inbox |-> NumbersOf(x.rx)]

Ends == UNION {{EndOf(n, i) : i \in Live(n)} : n \in Node}

Served == {c \in Conn : born[c] > 0}

Sockets == INSTANCE SocketService WITH served <- Served, ends <- Ends

(* The stacks implement the socket service over a network that loses,      *)
(* repeats and reorders frames, with tables, queues and NICs that fill up: *)
(* whatever a frame or a call does to the tables, it is one thing that an  *)
(* application may see happen to one end of one connection.                *)
ImplementsSockets == Sockets!Spec

(* The comment in handle_qtls: a server that gets a Hello has learned the  *)
(* client's MAC, so that it can send the HelloAck.                         *)
ServerKnowsClient ==
    [][\A n \in Node, i \in Slot :
          (st[n].sess[i].state = "Free" /\ st'[n].sess[i].state = "Established")
              => st[n].arp]_vars

(* A client that keeps calling connect learns its peer's MAC, although the *)
(* network loses ARP frames and a full NIC drops the reply.                *)
ArpResolves == \A n \in Clients : <>st[n].arp

(* The frames of this type for conn c that are on their way from n.        *)
OnWay(n, ctype, c) ==
    {f \in Range(st[n].nic) : ~IsArp(f) /\ f.ctype = ctype /\ f.conn = c}

(* A frame from n that came too late: a block has slid its receiver's lane *)
(* over its key, so it will not open (finding 1 of the README).            *)
Overtaken(n, f) == f.off < st[Peer(n)].keys[RxLane(Peer(n))].base

Greeting(n, c) == \E i \in Live(n) : st[n].sess[i].conn = c /\ st[n].sess[i].state = "HelloSent"

(* The server can answer a Hello that comes now: it listens, knows the     *)
(* client's MAC, has a session slot, key for the HelloAck and room in its  *)
(* NIC.                                                                    *)
ServerReady(n) ==
    /\ Ports \subseteq st[n].listen /\ HasFree(st[n]) /\ st[n].arp
    /\ Len(st[n].nic) < NicSlots
    /\ CanTake(st[n].keys[TxLane(n)], KeyCost(0))

(* A Hello on its way to a server that is ready, over a network that keeps *)
(* the order, ends the client's wait, also after earlier losses.  Not so   *)
(* if the network loses one more frame, if the server is no longer ready   *)
(* before the Hello comes, or if a block slides a lane over the key of the *)
(* Hello or of its HelloAck while that is on its way.                      *)
HandshakeCompletes ==
    \A n \in Clients, c \in Conn, l \in 0 .. MaxLoss :
        LET coming == OnWay(n, "Hello", c)
        IN  (Greeting(n, c) /\ coming # {} /\ ServerReady(Peer(n)) /\ lost = l)
                ~> \/ ~Greeting(n, c) \/ lost > l
                   \/ coming # {} /\ ~ServerReady(Peer(n))
                   \/ \E f \in coming : Overtaken(n, f)
                   \/ \E f \in OnWay(Peer(n), "HelloAck", c) : Overtaken(Peer(n), f)

(* n's application holds connection c in one of these states.              *)
Holds(n, c, states) ==
    \E i \in Held(n) : st[n].sess[i].conn = c /\ st[n].sess[i].state \in states

(* Message k that n wrote to c: on its way, waiting at the peer, or on its *)
(* way to a queue that is full.                                            *)
Coming(n, c, k)  == \E f \in OnWay(n, "Data", c) : f.num = k /\ ~Overtaken(n, f)
Waiting(n, c, k) ==
    \E i \in Live(Peer(n)) : \E m \in Range(st[Peer(n)].sess[i].rx) : m.conn = c /\ m.num = k
MeetsFull(n, c, k) ==
    /\ Coming(n, c, k)
    /\ \E i \in Live(Peer(n)) :
          st[Peer(n)].sess[i].conn = c /\ Len(st[Peer(n)].sess[i].rx) = RxSlots

(* A message that is on its way to an application that holds the session,  *)
(* or waits there, is read, over a network that keeps the order and also   *)
(* after earlier losses.  Not so if the network loses one more frame, the  *)
(* reader closes, the queue is full while the message is on its way (the   *)
(* stack drops what finds it full), or a block slides the reader's lane    *)
(* over its key.  (A session closed before accept is never handed out.)    *)
DataIsRead ==
    \A n \in Node, c \in Conn, k \in 1 .. MaxMsgs, l \in 0 .. MaxLoss :
        (/\ Coming(n, c, k) \/ Waiting(n, c, k)
         /\ Holds(Peer(n), c, {"Established"}) /\ lost = l)
            ~> \/ read[Peer(n)][c] >= k \/ lost > l
               \/ ~Holds(Peer(n), c, {"Established", "Closed"})
               \/ MeetsFull(n, c, k)
               \/ \E f \in OnWay(n, "Data", c) : f.num = k /\ Overtaken(n, f)
=============================================================================
