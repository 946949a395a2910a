--------------------------- MODULE NetStackProofs ---------------------------
(***************************************************************************)
(* Proofs about NetStack, for tables, windows, payloads and bounds of any  *)
(* size and whichever nodes connect, listen and send.                      *)
(***************************************************************************)
EXTENDS NetStack, SequenceTheorems, WellFoundedInduction, TLAPS

(***************************************************************************)
(* Slots, windows, nodes.                                                  *)
(***************************************************************************)

(* position() finds a slot when there is one.                              *)
LEMMA MinIsThere ==
    ASSUME NEW S \in SUBSET Slot, S # {}
    PROVE  Min(S) \in S
<1>1. S \subseteq Nat BY DEF Slot
<1>2. PICK x \in S : \A y \in S : <<y, x>> \notin OpToRel(<, Nat)
  BY <1>1, NatLessThanWellFounded, WFMin
<1>3. ASSUME NEW y \in S PROVE x <= y
  <2> DEFINE yx == <<y, x>>
  <2>1. yx \in Nat \X Nat /\ yx[1] = y /\ yx[2] = x BY <1>1
  <2>2. ~(yx[1] < yx[2])
    <3>1. yx \notin {ss \in Nat \X Nat : ss[1] < ss[2]} BY <1>2 DEF OpToRel
    <3> QED BY <2>1, <3>1
  <2> QED BY <1>1, <2>1, <2>2
<1> QED BY <1>3 DEF Min

LEMMA NodePair ==
    ASSUME NEW n \in Node
    PROVE  /\ TxLane(n) \in Lane /\ RxLane(n) \in Lane /\ TxLane(n) # RxLane(n)
           /\ Peer(n) \in Node /\ Peer(n) # n /\ Peer(Peer(n)) = n
           /\ \A m \in Node : m = n \/ m = Peer(n)
BY DEF Node, Lane, TxLane, RxLane, Peer

LEMMA CostType == ASSUME NEW len \in 0 .. MaxPayload PROVE KeyCost(len) \in Nat /\ KeyCost(len) > 0
BY RecordAssumption DEF KeyCost

LEMMA TakeMoves ==
    ASSUME NEW w \in Window, NEW k \in Nat, CanTake(w, k)
    PROVE  Take(w, k) \in Window /\ Take(w, k).base = w.base + k
BY CapacityAssumption DEF Take, Discard, CanTake, Window

LEMMA ConsumeMoves ==
    ASSUME NEW w \in Window, NEW off \in Nat, NEW k \in Nat, InWindow(w, off, k)
    PROVE  ConsumeTo(w, off, k) \in Window /\ ConsumeTo(w, off, k).base = off + k
BY CapacityAssumption DEF ConsumeTo, Discard, InWindow, Window, End

LEMMA DepositMoves ==
    ASSUME NEW w \in Window
    PROVE  Deposit(w, BlockLen) \in Window /\ Deposit(w, BlockLen).base >= w.base
BY CapacityAssumption, TableAssumption DEF Deposit, Excess, Discard, Window

(***************************************************************************)
(* Stacks and the records in their NICs.                                   *)
(***************************************************************************)
Control == {"Hello", "HelloAck", "Data", "Close"}

RecordType ==
    {f \in [ctype : Control, id : Id, sport : Port, dport : Port, off : Nat, len : 0 .. MaxPayload,
            conn : Conn, num : 0 .. MaxMsgs] :
        f.ctype = "Data" => f.len > 0 /\ f.num > 0}

FrameType == [ctype : {"ArpRequest", "ArpReply"}] \cup RecordType

Stack == [keys : [Lane -> Window], arp : BOOLEAN, listen : SUBSET Ports,
          sess : [Slot -> Session], next : Id \ {0}, nic : Seq(FrameType)]

Used(s, i) == s.sess[i].state # "Free"

StackOK(s) == s \in Stack /\ \A i \in Slot : Used(s, i) => s.sess[i].conn \in Conn

(* The QTLS records that wait in the NIC of a stack.                       *)
Records(s) == {f \in Range(s.nic) : ~IsArp(f)}

LEMMA RecordsType ==
    ASSUME NEW s, StackOK(s)
    PROVE  \A f \in Records(s) : f \in RecordType /\ f \in Range(s.nic)
BY DEF StackOK, Stack, Records, Range, IsArp, FrameType

LEMMA RecordAdded ==
    ASSUME NEW q \in Seq(FrameType), NEW f \in FrameType
    PROVE  Append(q, f) \in Seq(FrameType) /\ Range(Append(q, f)) = Range(q) \cup {f}
<1>1. Append(q, f) \in Seq(FrameType) /\ Len(Append(q, f)) = Len(q) + 1
      /\ (\A i \in 1 .. Len(q) : Append(q, f)[i] = q[i]) /\ Append(q, f)[Len(q) + 1] = f
  BY AppendProperties
<1>2. /\ DOMAIN q = 1 .. Len(q) /\ Len(q) \in Nat
      /\ DOMAIN Append(q, f) = 1 .. Len(q) + 1
  BY <1>1, LenProperties
<1>3. \A i \in 1 .. Len(q) : i \in 1 .. Len(q) + 1 /\ i # Len(q) + 1 BY <1>2
<1>4. Len(q) + 1 \in 1 .. Len(q) + 1 BY <1>2
<1>5. \A i \in 1 .. Len(q) + 1 : i \in 1 .. Len(q) \/ i = Len(q) + 1 BY <1>2
<1> QED BY <1>1, <1>2, <1>3, <1>4, <1>5 DEF Range

LEMMA RecordRemoved ==
    ASSUME NEW q \in Seq(FrameType), NEW k \in DOMAIN q
    PROVE  RemoveAt(q, k) \in Seq(FrameType) /\ Range(RemoveAt(q, k)) \subseteq Range(q)
<1> DEFINE a == SubSeq(q, 1, k - 1)
           b == SubSeq(q, k + 1, Len(q))
<1>1. DOMAIN q = 1 .. Len(q) /\ Len(q) \in Nat /\ \A i \in 1 .. Len(q) : q[i] \in FrameType
  BY LenProperties, ElementOfSeq
<1>2. /\ a \in Seq(FrameType) /\ Len(a) = k - 1 /\ \A i \in 1 .. k - 1 : a[i] = q[i]
  <2>1. k - 1 \in Int /\ \A i \in 1 .. k - 1 : q[i] \in FrameType BY <1>1
  <2> QED BY <1>1, <2>1, SubSeqProperties
<1>3. /\ b \in Seq(FrameType) /\ Len(b) = Len(q) - k
      /\ \A i \in 1 .. Len(q) - k : b[i] = q[k + i]
  <2>1. k + 1 \in Int /\ \A i \in k + 1 .. Len(q) : q[i] \in FrameType BY <1>1
  <2>2. /\ b \in Seq(FrameType)
        /\ Len(b) = IF k + 1 <= Len(q) THEN Len(q) - (k + 1) + 1 ELSE 0
        /\ \A i \in 1 .. Len(q) - (k + 1) + 1 : b[i] = q[k + 1 + i - 1]
    BY <1>1, <2>1, SubSeqProperties
  <2>3. Len(b) = Len(q) - k BY <1>1, <2>2
  <2>4. \A i \in 1 .. Len(q) - k : k + 1 + i - 1 = k + i /\ i \in 1 .. Len(q) - (k + 1) + 1 BY <1>1
  <2> QED BY <2>2, <2>3, <2>4
<1> HIDE DEF a, b
<1>4. /\ a \o b \in Seq(FrameType) /\ Len(a \o b) = Len(a) + Len(b)
      /\ \A i \in 1 .. Len(a) + Len(b) : (a \o b)[i] = IF i <= Len(a) THEN a[i] ELSE b[i - Len(a)]
  BY <1>2, <1>3, ConcatProperties
<1>5. DOMAIN (a \o b) = 1 .. Len(q) - 1
  <2>1. DOMAIN (a \o b) = 1 .. Len(a \o b) BY <1>4, LenProperties
  <2>2. Len(a \o b) = Len(q) - 1 BY <1>1, <1>2, <1>3, <1>4
  <2> QED BY <2>1, <2>2
<1>6. ASSUME NEW i \in 1 .. Len(q) - 1 PROVE (a \o b)[i] \in Range(q)
  <2>1. CASE i <= k - 1
    <3>1. i \in 1 .. k - 1 /\ i \in 1 .. Len(q) BY <1>1, <2>1
    <3>2. i \in 1 .. Len(a) + Len(b) /\ i <= Len(a) BY <1>1, <1>2, <1>3, <2>1
    <3>3. (a \o b)[i] = q[i] BY <1>2, <1>4, <3>1, <3>2
    <3> QED BY <1>1, <3>1, <3>3 DEF Range
  <2>2. CASE ~(i <= k - 1)
    <3>1. i - (k - 1) \in 1 .. Len(q) - k /\ k + (i - (k - 1)) \in 1 .. Len(q) BY <1>1, <2>2
    <3>2. i \in 1 .. Len(a) + Len(b) /\ ~(i <= Len(a)) BY <1>1, <1>2, <1>3, <2>2
    <3>4. (a \o b)[i] = b[i - (k - 1)] BY <1>2, <1>4, <3>2
    <3>3. (a \o b)[i] = q[k + (i - (k - 1))] BY <1>3, <3>1, <3>4
    <3> QED BY <1>1, <3>1, <3>3 DEF Range
  <2> QED BY <2>1, <2>2
<1>7. RemoveAt(q, k) = a \o b BY DEF RemoveAt, a, b
<1> QED BY <1>4, <1>5, <1>6, <1>7 DEF Range

LEMMA TransmitShape ==
    ASSUME NEW s, StackOK(s), NEW f \in FrameType
    PROVE  LET r == Transmit(s, f)
               t == r.stack
           IN  /\ StackOK(t) /\ t.keys = s.keys /\ t.arp = s.arp /\ t.listen = s.listen
               /\ t.sess = s.sess /\ t.next = s.next
               /\ \/ r.err = "none" /\ Range(t.nic) = Range(s.nic) \cup {f}
                  \/ r.err = "DeviceFull" /\ t.nic = s.nic
<1> DEFINE t == [s EXCEPT !.nic = Append(s.nic, f)]
<1>1. s.nic \in Seq(FrameType) BY DEF StackOK, Stack
<1>2. Append(s.nic, f) \in Seq(FrameType) /\ Range(Append(s.nic, f)) = Range(s.nic) \cup {f}
  BY <1>1, RecordAdded
<1>3. /\ t \in Stack /\ t.keys = s.keys /\ t.arp = s.arp /\ t.listen = s.listen
      /\ t.sess = s.sess /\ t.next = s.next /\ t.nic = Append(s.nic, f)
  BY <1>2 DEF StackOK, Stack
<1> HIDE DEF t
<1>4. StackOK(t) BY <1>3 DEF StackOK, Used
<1>5. CASE Len(s.nic) = NicSlots BY <1>5 DEF Transmit, Result
<1>6. CASE Len(s.nic) # NicSlots
  <2>1. Transmit(s, f) = [stack |-> t, err |-> "none"] BY <1>6 DEF Transmit, Result, t
  <2>2. Transmit(s, f).stack = t /\ Transmit(s, f).err = "none" BY <2>1
  <2> QED BY <1>2, <1>3, <1>4, <2>2
<1> QED BY <1>5, <1>6

(* What is kept by every operation that sends.                             *)
Alike(s, t) ==
    t.arp = s.arp /\ t.listen = s.listen /\ t.sess = s.sess /\ t.next = s.next

LEMMA ArpIsNoRecord ==
    ASSUME NEW s, NEW t, NEW f \in {ArpRequest, ArpReply}, Range(t.nic) = Range(s.nic) \cup {f}
    PROVE  f \in FrameType /\ Records(t) = Records(s)
BY DEF Records, IsArp, ArpRequest, ArpReply, FrameType

(* resolve: nothing changes but the NIC, which may get a request.          *)
LEMMA ResolveShape ==
    ASSUME NEW s, StackOK(s)
    PROVE  LET r == Resolve(s)
               t == r.stack
           IN  /\ StackOK(t) /\ Alike(s, t) /\ t.keys = s.keys /\ Records(t) = Records(s)
               /\ r.err = "none" => t = s
<1>1. ArpRequest \in FrameType BY DEF ArpRequest, FrameType
<1> DEFINE a == Transmit(s, ArpRequest)
<1>2. /\ StackOK(a.stack) /\ Alike(s, a.stack) /\ a.stack.keys = s.keys
      /\ \/ a.err = "none" /\ Range(a.stack.nic) = Range(s.nic) \cup {ArpRequest}
         \/ a.err = "DeviceFull" /\ a.stack.nic = s.nic
  BY <1>1, TransmitShape DEF Alike
<1> HIDE DEF a
<1>3. Records(a.stack) = Records(s)
  <2>1. CASE a.stack.nic = s.nic BY <2>1 DEF Records
  <2>2. CASE Range(a.stack.nic) = Range(s.nic) \cup {ArpRequest} BY <2>2, ArpIsNoRecord
  <2> QED BY <1>2, <2>1, <2>2
<1>4. CASE s.arp
  <2>1. Resolve(s) = [stack |-> s, err |-> "none"] BY <1>4 DEF Resolve, Result
  <2>2. Resolve(s).stack = s BY <2>1
  <2> QED BY <2>2 DEF Alike
<1>5. CASE ~s.arp /\ a.err # "none"
  <2>1. Resolve(s) = a BY <1>5 DEF Resolve, a
  <2> QED BY <1>2, <1>3, <1>5, <2>1
<1>6. CASE ~s.arp /\ a.err = "none"
  <2>1. Resolve(s) = [stack |-> a.stack, err |-> "ArpPending"]
    BY <1>6 DEF Resolve, Result, a
  <2>2. Resolve(s).stack = a.stack /\ Resolve(s).err = "ArpPending" BY <2>1
  <2> QED BY <1>2, <1>3, <2>2
<1> QED BY <1>4, <1>5, <1>6

(* What slot i sends on a stack: a frame sealed with the oldest key.       *)
Sealed(n, s, i, ctype, len, num) == QtlsFrame(s.sess[i], s.keys[TxLane(n)], ctype, len, num)

LEMMA SealedType ==
    ASSUME NEW n \in Node, NEW s, StackOK(s), NEW i \in Slot, Used(s, i),
           NEW ctype \in Control, NEW len \in 0 .. MaxPayload, NEW num \in 0 .. MaxMsgs,
           ctype = "Data" => len > 0 /\ num > 0
    PROVE  LET f == Sealed(n, s, i, ctype, len, num)
           IN  /\ f \in RecordType /\ f \in FrameType /\ ~IsArp(f)
               /\ f.ctype = ctype /\ f.len = len /\ f.num = num /\ f.off = s.keys[TxLane(n)].base
               /\ f.id = s.sess[i].id /\ f.sport = s.sess[i].lport /\ f.dport = s.sess[i].pport
               /\ f.conn = s.sess[i].conn
<1> DEFINE f == Sealed(n, s, i, ctype, len, num)
<1>1. s.sess[i] \in Session /\ s.sess[i].conn \in Conn BY DEF StackOK, Stack
<1>2. s.keys[TxLane(n)].base \in Nat BY NodePair DEF StackOK, Stack, Window
<1>3. /\ f.ctype = ctype /\ f.len = len /\ f.num = num /\ f.off = s.keys[TxLane(n)].base
      /\ f.id = s.sess[i].id /\ f.sport = s.sess[i].lport /\ f.dport = s.sess[i].pport
      /\ f.conn = s.sess[i].conn
  BY DEF Sealed, QtlsFrame
<1>4. f \in RecordType
  BY <1>1, <1>2, <1>3 DEF Session, RecordType, Sealed, QtlsFrame
<1>5. ~IsArp(f) BY <1>3 DEF IsArp, Control
<1> QED BY <1>3, <1>4, <1>5 DEF FrameType

(* seal and send_udp, when they send and when they do not.                 *)
LEMMA SendShape ==
    ASSUME NEW n \in Node, NEW s, StackOK(s), NEW i \in Slot, Used(s, i),
           NEW ctype \in Control, NEW len \in 0 .. MaxPayload, NEW num \in 0 .. MaxMsgs,
           ctype = "Data" => len > 0 /\ num > 0
    PROVE  LET r == SendRecord(n, s, i, ctype, len, num)
               t == r.stack
               base == s.keys[TxLane(n)].base
           IN  /\ StackOK(t) /\ Alike(s, t) /\ t.keys[RxLane(n)] = s.keys[RxLane(n)]
               /\ \/ /\ r.err # "none" /\ Records(t) = Records(s)
                     /\ t.keys[TxLane(n)].base >= base
                  \/ /\ r.err = "none"
                     /\ Records(t) = Records(s) \cup {Sealed(n, s, i, ctype, len, num)}
                     /\ t.keys[TxLane(n)].base = base + KeyCost(len)
<1> DEFINE w == s.keys[TxLane(n)]
           f == Sealed(n, s, i, ctype, len, num)
           u == [s EXCEPT !.keys[TxLane(n)] = Take(w, KeyCost(len))]
           a == Transmit(u, f)
<1>1. w \in Window /\ w.base \in Nat /\ KeyCost(len) \in Nat /\ KeyCost(len) > 0
  BY NodePair, CostType DEF StackOK, Stack, Window
<1>2. f \in FrameType /\ ~IsArp(f) BY SealedType
<1>3. CASE Resolve(s).err # "none"
  <2>1. SendRecord(n, s, i, ctype, len, num) = Resolve(s) BY <1>3 DEF SendRecord
  <2> QED BY <1>1, <1>3, <2>1, ResolveShape
<1>4. Resolve(s).err = "none" => Resolve(s).stack = s BY ResolveShape
<1>5. CASE Resolve(s).err = "none" /\ ~CanTake(w, KeyCost(len))
  <2>1. SendRecord(n, s, i, ctype, len, num) = [stack |-> s, err |-> "InsufficientKey"]
    BY <1>4, <1>5 DEF SendRecord, SealAndTransmit, Result
  <2>2. /\ SendRecord(n, s, i, ctype, len, num).stack = s
        /\ SendRecord(n, s, i, ctype, len, num).err = "InsufficientKey"
    BY <2>1
  <2> QED BY <1>1, <2>2 DEF Alike
<1>6. CASE Resolve(s).err = "none" /\ CanTake(w, KeyCost(len))
  <2>1. SendRecord(n, s, i, ctype, len, num) = a
    BY <1>4, <1>6 DEF SendRecord, SealAndTransmit, Sealed
  <2>2. Take(w, KeyCost(len)) \in Window /\ Take(w, KeyCost(len)).base = w.base + KeyCost(len)
    BY <1>1, <1>6, TakeMoves
  <2>3. /\ StackOK(u) /\ Alike(s, u) /\ u.nic = s.nic
        /\ u.keys[TxLane(n)] = Take(w, KeyCost(len)) /\ u.keys[RxLane(n)] = s.keys[RxLane(n)]
    <3>1. TxLane(n) \in Lane /\ RxLane(n) \in Lane /\ TxLane(n) # RxLane(n) BY NodePair
    <3>2. /\ u \in Stack /\ Alike(s, u) /\ u.nic = s.nic
          /\ u.keys[TxLane(n)] = Take(w, KeyCost(len)) /\ u.keys[RxLane(n)] = s.keys[RxLane(n)]
      BY <2>2, <3>1 DEF StackOK, Stack, Alike
    <3> HIDE DEF u
    <3> QED BY <3>2 DEF StackOK, Used, Alike
  <2> HIDE DEF u, f, w
  <2>4. /\ StackOK(a.stack) /\ Alike(u, a.stack) /\ a.stack.keys = u.keys
        /\ \/ a.err = "none" /\ Range(a.stack.nic) = Range(u.nic) \cup {f}
           \/ a.err = "DeviceFull" /\ a.stack.nic = u.nic
    BY <1>2, <2>3, TransmitShape DEF Alike
  <2> HIDE DEF a
  <2>5. a.err = "none" => Records(a.stack) = Records(s) \cup {f}
    BY <1>2, <2>3, <2>4 DEF Records
  <2>6. a.err = "DeviceFull" => Records(a.stack) = Records(s) BY <2>3, <2>4 DEF Records
  <2>7. a.stack.keys[TxLane(n)].base = w.base + KeyCost(len) BY <2>2, <2>3, <2>4
  <2>8. Alike(s, a.stack) BY <2>3, <2>4 DEF Alike
  <2>9. a.stack.keys[TxLane(n)].base >= w.base BY <1>1, <2>7 DEF w
  <2> QED BY <2>1, <2>3, <2>4, <2>5, <2>6, <2>7, <2>8, <2>9 DEF f, w
<1> QED BY <1>3, <1>5, <1>6

(* One slot of the session table changes.                                  *)
LEMMA SlotSet ==
    ASSUME NEW s, StackOK(s), NEW i \in Slot, NEW x \in Session, x.state # "Free" => x.conn \in Conn
    PROVE  LET t == [s EXCEPT !.sess[i] = x]
           IN  /\ StackOK(t) /\ t.keys = s.keys /\ t.arp = s.arp /\ t.listen = s.listen
               /\ t.next = s.next /\ t.nic = s.nic /\ Records(t) = Records(s)
               /\ t.sess = [s.sess EXCEPT ![i] = x] /\ t.sess[i] = x
               /\ \A j \in Slot : j # i => t.sess[j] = s.sess[j]
<1> DEFINE t == [s EXCEPT !.sess[i] = x]
<1>1. s \in Stack /\ DOMAIN s.sess = Slot BY DEF StackOK, Stack
<1>2. /\ t.keys = s.keys /\ t.arp = s.arp /\ t.listen = s.listen
      /\ t.next = s.next /\ t.nic = s.nic /\ t.sess = [s.sess EXCEPT ![i] = x]
  BY <1>1 DEF Stack
<1>3. t \in Stack BY <1>1 DEF Stack
<1> HIDE DEF t
<1>4. t.sess[i] = x /\ \A j \in Slot : j # i => t.sess[j] = s.sess[j] BY <1>1, <1>2
<1>5. StackOK(t) BY <1>3, <1>4 DEF StackOK, Used
<1> QED BY <1>2, <1>4, <1>5 DEF Records, t

(* Fields of sessions.                                                     *)
LEMMA EmptyQueue == <<>> \in Seq(Message) /\ Len(<<>>) = 0 /\ DOMAIN <<>> = {}
BY EmptySeq, LenProperties

LEMMA FreeType == FreeSession \in Session /\ FreeSession.state = "Free"
<1>1. 0 \in Id BY PortAssumption DEF Id
<1> QED BY <1>1, EmptyQueue DEF FreeSession, Session, Port

(* wrapping_add(1).max(1)                                                  *)
LEMMA NextIdType ==
    ASSUME NEW id \in Id
    PROVE  NextId(id) \in Id \ {0} /\ (id + 1 < IdSpace => NextId(id) = id + 1)
<1>1. IdSpace \in Nat /\ IdSpace > 1 BY PortAssumption
<1>2. (id + 1) % IdSpace \in 0 .. IdSpace - 1 BY <1>1 DEF Id
<1>3. ASSUME id + 1 < IdSpace PROVE (id + 1) % IdSpace = id + 1 BY <1>1, <1>3 DEF Id
<1> QED BY <1>1, <1>2, <1>3 DEF NextId, Id

LEMMA LocalPortType == ASSUME NEW id \in Id PROVE LocalPort(id) \in Port
<1>1. EphemeralPorts \in Nat /\ EphemeralPorts > 0 /\ EphemeralBase \in Nat BY PortAssumption
<1>2. id % EphemeralPorts \in 0 .. EphemeralPorts - 1 BY <1>1 DEF Id
<1> QED BY <1>1, <1>2 DEF LocalPort, Port

(***************************************************************************)
(* Types, and what a step does to sessions, records and windows.           *)
(***************************************************************************)
Types ==
    /\ DOMAIN st = Node /\ \A n \in Node : StackOK(st[n])
    /\ seq \in Nat /\ dials \in 0 .. MaxDials
    /\ born \in [Conn -> Nat]
    /\ wrote \in [Node -> [Conn -> 0 .. MaxMsgs]]
    /\ read \in [Node -> [Conn -> 0 .. MaxMsgs]]

TxBase(n) == st[n].keys[TxLane(n)].base
RxBase(n) == st[n].keys[RxLane(n)].base

(* No step takes key back, and connect alone counts and uses an id.        *)
Forward ==
    /\ \A n \in Node : TxBase(n)' >= TxBase(n) /\ RxBase(n)' >= RxBase(n)
    /\ \/ dials' = dials /\ \A n \in Node : st'[n].next = st[n].next
       \/ /\ dials < MaxDials /\ dials' = dials + 1
          /\ \A n \in Node : st'[n].next \in {st[n].next, NextId(st[n].next)}

SameSession(x, y) ==
    /\ x.state = y.state /\ x.id = y.id /\ x.pport = y.pport /\ x.lport = y.lport
    /\ x.rx = y.rx /\ x.conn = y.conn

(* Every other session stays as it is.                                     *)
OthersStay(n, i) ==
    \A m \in Node, j \in Slot : ~(m = n /\ j = i) => st'[m].sess[j] = st[m].sess[j]

(* At most f joins the records of n, sealed with the oldest key.           *)
MayAdd(n, f) ==
    /\ \A m \in Node : Records(st'[m]) \subseteq Records(st[m]) \cup (IF m = n THEN {f} ELSE {})
    /\ f \in RecordType /\ f.off = TxBase(n)
    /\ f \in Records(st'[n]) => f \in Records(st[n]) \/ TxBase(n)' = f.off + KeyCost(f.len)

(* A frame that carries the identity of session x.                         *)
Carries(f, x, ctype) ==
    f.ctype = ctype /\ f.id = x.id /\ f.sport = x.lport /\ f.dport = x.pport /\ f.conn = x.conn

(* All sessions but one at most stay as they are.                          *)
OneMoves ==
    \E n \in Node, i \in Slot : \A m \in Node, j \in Slot :
        (m = n /\ j = i) \/ SameSession(st'[m].sess[j], st[m].sess[j])

(* A session is closed, frames are lost; no more than that.                *)
Calm ==
    /\ \A n \in Node, i \in Slot :
          SameSession(st'[n].sess[i], st[n].sess[i]) \/ st'[n].sess[i].state = "Free"
    /\ OneMoves
    /\ \A n \in Node : Records(st'[n]) \subseteq Records(st[n])
    /\ born' = born /\ wrote' = wrote /\ read' = read

(* connect, when the Hello is sent.                                        *)
Dialed(n, i, f) ==
    /\ st[n].sess[i].state = "Free" /\ dials' = dials + 1 /\ st'[n].next = NextId(st[n].next)
    /\ OthersStay(n, i)
    /\ LET x == st'[n].sess[i]
       IN  /\ x.state = "HelloSent" /\ x.id = st[n].next /\ x.lport = LocalPort(x.id)
           /\ x.pport \in Ports /\ x.conn = dials + 1 /\ x.rx = <<>>
           /\ Carries(f, x, "Hello")
    /\ MayAdd(n, f)
    /\ born' = born /\ wrote' = wrote /\ read' = read

(* send, when the record is sent.                                          *)
Sent(n, i, f) ==
    /\ Used(st[n], i) /\ st[n].sess[i].state = "Established"
    /\ st' = [st EXCEPT ![n] = st'[n]] /\ st'[n].sess = st[n].sess
    /\ Carries(f, st[n].sess[i], "Data") /\ f.num = wrote[n][f.conn] + 1
    /\ MayAdd(n, f)
    /\ wrote' = [wrote EXCEPT ![n][f.conn] = @ + 1]
    /\ born' = born /\ read' = read

(* close, when the peer is told.                                           *)
Told(n, i, f) ==
    /\ Used(st[n], i) /\ OthersStay(n, i) /\ st'[n].sess[i].state = "Free"
    /\ Carries(f, st[n].sess[i], "Close")
    /\ MayAdd(n, f)
    /\ born' = born /\ wrote' = wrote /\ read' = read

(* recv, when a message is returned.                                       *)
Took(n, i) ==
    /\ Used(st[n], i) /\ OthersStay(n, i) /\ st[n].sess[i].rx # <<>>
    /\ st'[n].sess[i] = [st[n].sess[i] EXCEPT !.rx = Tail(@)]
    /\ \A m \in Node : Records(st'[m]) = Records(st[m])
    /\ LET m == Head(st[n].sess[i].rx) IN read' = [read EXCEPT ![n][m.conn] = m.num]
    /\ born' = born /\ wrote' = wrote

(* A record of the peer is opened and burned.                              *)
Burned(n, f) ==
    /\ f \in Records(st[Peer(n)])
    /\ RxBase(n) <= f.off /\ RxBase(n)' = f.off + KeyCost(f.len)
    /\ wrote' = wrote /\ read' = read

(* handle_qtls: a session that the record names.                           *)
Advanced(n, i, f) ==
    /\ Burned(n, f) /\ i \in Matching(st[n], f) /\ OthersStay(n, i)
    /\ st'[n].sess[i] = Advance(st[n].sess[i], f)
    /\ \A m \in Node : Records(st'[m]) \subseteq Records(st[m])
    /\ born' = born

(* handle_qtls: a Hello that creates a session, and may be answered.       *)
Created(n, i, f, g) ==
    /\ Burned(n, f) /\ FreshHello(st[n], f) /\ st[n].sess[i].state = "Free" /\ OthersStay(n, i)
    /\ LET x == st'[n].sess[i]
       IN  /\ x.state = "Established" /\ x.id = f.id /\ x.lport = f.dport /\ x.pport = f.sport
           /\ x.conn = f.conn /\ x.rx = <<>>
           /\ Carries(g, x, "HelloAck")
    /\ MayAdd(n, g)
    /\ born' = [born EXCEPT ![f.conn] = @ + 1]

Effect ==
    \/ Calm
    \/ \E n \in Node, i \in Slot : Took(n, i) \/ \E f \in RecordType :
          \/ Dialed(n, i, f) \/ Sent(n, i, f) \/ Told(n, i, f) \/ Advanced(n, i, f)
          \/ \E g \in RecordType : Created(n, i, f, g)

(***************************************************************************)
(* Every step has such an effect.                                          *)
(***************************************************************************)
Step == Types' /\ Forward /\ Effect

LEMMA BaseType ==
    ASSUME NEW s, StackOK(s), NEW l \in Lane
    PROVE  s.keys[l] \in Window /\ s.keys[l].base \in Nat
BY DEF StackOK, Stack, Window

LEMMA FirstSlot == 1 \in Slot /\ "A" \in Node
BY TableAssumption DEF Slot, Node

LEMMA Reflexive == \A x : SameSession(x, x)
BY DEF SameSession

(* Where no session changes, all of them are as they were.                 *)
LEMMA TablesAlike ==
    ASSUME \A m \in Node : st'[m].sess = st[m].sess
    PROVE  /\ \A m \in Node, j \in Slot : SameSession(st'[m].sess[j], st[m].sess[j])
           /\ OneMoves
<1>1. ASSUME NEW m \in Node, NEW j \in Slot PROVE SameSession(st'[m].sess[j], st[m].sess[j])
  <2>1. st'[m].sess[j] = st[m].sess[j] OBVIOUS
  <2> QED BY <2>1 DEF SameSession
<1>2. \E n \in Node, i \in Slot : \A m \in Node, j \in Slot :
         (m = n /\ j = i) \/ SameSession(st'[m].sess[j], st[m].sess[j])
  BY <1>1, FirstSlot
<1> QED BY <1>1, <1>2 DEF OneMoves

LEMMA OneStack ==
    ASSUME Types, NEW n \in Node, NEW t, StackOK(t), st' = [st EXCEPT ![n] = t]
    PROVE  /\ DOMAIN st' = Node /\ \A m \in Node : StackOK(st'[m])
           /\ st'[n] = t /\ \A m \in Node : m # n => st'[m] = st[m]
           /\ \A m \in Node : m # n => TxBase(m)' = TxBase(m) /\ RxBase(m)' = RxBase(m)
<1>1. /\ DOMAIN st' = Node /\ st'[n] = t /\ \A m \in Node : m # n => st'[m] = st[m]
  BY DEF Types
<1> QED BY <1>1 DEF Types, TxBase, RxBase

LEMMA BasesStay ==
    ASSUME Types, NEW n \in Node, st'[n].keys = st[n].keys
    PROVE  TxBase(n)' = TxBase(n) /\ RxBase(n)' = RxBase(n)
BY DEF TxBase, RxBase

LEMMA BasesType == ASSUME Types, NEW n \in Node PROVE TxBase(n) \in Nat /\ RxBase(n) \in Nat
<1>1. StackOK(st[n]) /\ TxLane(n) \in Lane /\ RxLane(n) \in Lane BY NodePair DEF Types
<1> QED BY <1>1, BaseType DEF TxBase, RxBase

(* A stack that gets no session and no record, and loses one at most.      *)
LEMMA CalmStack ==
    ASSUME Types, NEW n \in Node, NEW t, StackOK(t), st' = [st EXCEPT ![n] = t], NEW i \in Slot,
           t.keys[TxLane(n)].base >= TxBase(n), t.keys[RxLane(n)].base >= RxBase(n),
           \/ dials' = dials /\ t.next = st[n].next
           \/ dials < MaxDials /\ dials' = dials + 1 /\ t.next = NextId(st[n].next),
           \A j \in Slot : j # i => SameSession(t.sess[j], st[n].sess[j]),
           SameSession(t.sess[i], st[n].sess[i]) \/ t.sess[i].state = "Free",
           Records(t) \subseteq Records(st[n]),
           UNCHANGED <<seq, born, wrote, read>>
    PROVE  Step /\ Calm
<1>1. /\ DOMAIN st' = Node /\ \A m \in Node : StackOK(st'[m])
      /\ st'[n] = t /\ \A m \in Node : m # n => st'[m] = st[m]
  BY OneStack
<1>2. Types'
  <2>1. dials' \in 0 .. MaxDials BY BoundAssumption DEF Types
  <2> QED BY <1>1, <2>1 DEF Types
<1>3. Forward
  <2>1. TxBase(n)' >= TxBase(n) /\ RxBase(n)' >= RxBase(n) BY <1>1 DEF TxBase, RxBase
  <2>2. \A m \in Node : m # n => TxBase(m)' = TxBase(m) /\ RxBase(m)' = RxBase(m)
    BY <1>1 DEF TxBase, RxBase
  <2>3. \A m \in Node : TxBase(m)' >= TxBase(m) /\ RxBase(m)' >= RxBase(m)
    BY <2>1, <2>2, BasesType
  <2>4. \A m \in Node : m # n => st'[m].next = st[m].next BY <1>1
  <2> QED BY <1>1, <2>3, <2>4 DEF Forward
<1>4. Calm
  <2>1. \A m \in Node, j \in Slot :
           (m = n /\ j = i) \/ SameSession(st'[m].sess[j], st[m].sess[j])
    BY <1>1, Reflexive
  <2>2. \A m \in Node, j \in Slot :
           SameSession(st'[m].sess[j], st[m].sess[j]) \/ st'[m].sess[j].state = "Free"
    BY <1>1, <2>1
  <2>3. \A m \in Node : Records(st'[m]) \subseteq Records(st[m]) BY <1>1
  <2> QED BY <2>1, <2>2, <2>3 DEF Calm, OneMoves
<1> QED BY <1>2, <1>3, <1>4 DEF Step, Effect

LEMMA QuietStack ==
    ASSUME Types, NEW n \in Node, NEW t, StackOK(t), st' = [st EXCEPT ![n] = t],
           t.keys = st[n].keys, t.next = st[n].next,
           \A i \in Slot : SameSession(t.sess[i], st[n].sess[i]),
           Records(t) \subseteq Records(st[n]),
           UNCHANGED <<seq, dials, born, wrote, read>>
    PROVE  Step
<1>1. t.keys[TxLane(n)].base >= TxBase(n) /\ t.keys[RxLane(n)].base >= RxBase(n)
  BY BasesType DEF TxBase, RxBase
<1> QED BY <1>1, FirstSlot, CalmStack

LEMMA ListenStep == ASSUME Types, NEW n \in Node, NEW p \in Ports, Listen(n, p), st' # st PROVE Step
<1> DEFINE t == [st[n] EXCEPT !.listen = @ \cup {p}]
<1>1. st' = [st EXCEPT ![n] = t] /\ UNCHANGED <<seq, dials, born, wrote, read>>
  BY DEF Listen, SetStack, vars
<1>2. StackOK(st[n]) BY DEF Types
<1>3. /\ t \in Stack /\ t.keys = st[n].keys /\ t.next = st[n].next /\ t.sess = st[n].sess
      /\ t.nic = st[n].nic
  BY <1>2 DEF StackOK, Stack
<1> HIDE DEF t
<1>4. StackOK(t) /\ Records(t) = Records(st[n]) BY <1>2, <1>3 DEF StackOK, Used, Records
<1> QED BY <1>1, <1>3, <1>4, QuietStack, Reflexive

LEMMA ConnectUnresolvedStep ==
    ASSUME Types, NEW n \in Node, ConnectUnresolved(n) PROVE Step
<1> DEFINE t == Resolve(st[n]).stack
<1>1. st' = [st EXCEPT ![n] = t] /\ UNCHANGED <<seq, dials, born, wrote, read>>
  BY DEF ConnectUnresolved, SetStack
<1>2. StackOK(st[n]) BY DEF Types
<1>3. /\ StackOK(t) /\ t.keys = st[n].keys /\ t.next = st[n].next /\ t.sess = st[n].sess
      /\ Records(t) = Records(st[n])
  BY <1>2, ResolveShape DEF Alike
<1> HIDE DEF t
<1> QED BY <1>1, <1>3, QuietStack, Reflexive

LEMMA AcceptStep == ASSUME Types, NEW n \in Node, NEW p \in Ports, Accept(n, p) PROVE Step
<1> DEFINE i == Min(Acceptable(st[n], p))
           x == [st[n].sess[i] EXCEPT !.accepted = TRUE]
           t == [st[n] EXCEPT !.sess[i] = x]
<1>1. StackOK(st[n]) BY DEF Types
<1>2. i \in Slot /\ st[n].sess[i].state = "Established"
  <2>1. Acceptable(st[n], p) # {} BY DEF Accept
  <2>2. i \in Acceptable(st[n], p) BY <2>1, MinIsThere DEF Acceptable
  <2> QED BY <2>2 DEF Acceptable
<1>3. x \in Session /\ SameSession(x, st[n].sess[i]) /\ x.conn \in Conn
  BY <1>1, <1>2 DEF StackOK, Stack, Session, SameSession, Used
<1>4. st' = [st EXCEPT ![n] = t] /\ UNCHANGED <<seq, dials, born, wrote, read>>
  <2>1. t = [st[n] EXCEPT !.sess[i].accepted = TRUE] BY <1>1, <1>2 DEF StackOK, Stack
  <2> QED BY <2>1 DEF Accept, SetStack
<1> HIDE DEF x
<1>5. /\ StackOK(t) /\ t.keys = st[n].keys /\ t.next = st[n].next
      /\ Records(t) = Records(st[n]) /\ t.sess[i] = x
      /\ \A j \in Slot : j # i => t.sess[j] = st[n].sess[j]
  BY <1>1, <1>2, <1>3, SlotSet
<1> HIDE DEF t
<1>6. \A j \in Slot : SameSession(t.sess[j], st[n].sess[j]) BY <1>3, <1>5, Reflexive
<1> QED BY <1>4, <1>5, <1>6, QuietStack

LEMMA LoseStep == ASSUME Types, NEW n \in Node, NEW k \in 1 .. NicSlots, Lose(n, k) PROVE Step
<1> DEFINE t == [st[n] EXCEPT !.nic = RemoveAt(st[n].nic, k)]
<1>1. StackOK(st[n]) BY DEF Types
<1>2. k \in DOMAIN st[n].nic /\ st[n].nic \in Seq(FrameType) BY <1>1 DEF Lose, StackOK, Stack
<1>3. /\ RemoveAt(st[n].nic, k) \in Seq(FrameType)
      /\ Range(RemoveAt(st[n].nic, k)) \subseteq Range(st[n].nic)
  BY <1>2, RecordRemoved
<1>4. st' = [st EXCEPT ![n] = t] /\ UNCHANGED <<seq, dials, born, wrote, read>>
  BY DEF Lose
<1>5. /\ t \in Stack /\ t.keys = st[n].keys /\ t.next = st[n].next /\ t.sess = st[n].sess
      /\ t.nic = RemoveAt(st[n].nic, k)
  BY <1>1, <1>3 DEF StackOK, Stack
<1> HIDE DEF t
<1>6. StackOK(t) /\ Records(t) \subseteq Records(st[n]) BY <1>1, <1>3, <1>5 DEF StackOK, Used, Records
<1> QED BY <1>4, <1>5, <1>6, QuietStack, Reflexive

LEMMA L1BlockStep == ASSUME Types, L1Block PROVE Step
<1> DEFINE l == seq % 2
           t(n) == [st[n] EXCEPT !.keys[l] = Deposit(st[n].keys[l], BlockLen)]
<1>1. l \in Lane BY DEF Types, Lane
<1>2. /\ DOMAIN st' = Node /\ \A n \in Node : st'[n] = t(n)
      /\ seq' \in Nat /\ UNCHANGED <<dials, born, wrote, read>>
  BY DEF L1Block, Types
<1>3. ASSUME NEW n \in Node
      PROVE  /\ StackOK(t(n)) /\ t(n).sess = st[n].sess /\ t(n).next = st[n].next
             /\ Records(t(n)) = Records(st[n])
             /\ \A m \in Lane : t(n).keys[m].base >= st[n].keys[m].base
  <2> DEFINE d == Deposit(st[n].keys[l], BlockLen)
  <2>1. StackOK(st[n]) BY DEF Types
  <2>2. d \in Window /\ d.base >= st[n].keys[l].base BY <1>1, <2>1, BaseType, DepositMoves
  <2> HIDE DEF d
  <2> DEFINE u == [st[n] EXCEPT !.keys[l] = d]
  <2>3. /\ u \in Stack /\ u.sess = st[n].sess /\ u.next = st[n].next /\ u.nic = st[n].nic
        /\ u.keys = [st[n].keys EXCEPT ![l] = d]
    BY <1>1, <2>1, <2>2 DEF StackOK, Stack
  <2>4. t(n) = u BY DEF d
  <2> HIDE DEF u, t
  <2>5. \A m \in Lane : u.keys[m].base >= st[n].keys[m].base
    <3>1. DOMAIN st[n].keys = Lane BY <2>1 DEF StackOK, Stack
    <3>2. \A m \in Lane : st[n].keys[m].base \in Nat BY <2>1, BaseType
    <3> QED BY <2>2, <2>3, <3>1, <3>2
  <2> QED BY <2>1, <2>3, <2>4, <2>5 DEF StackOK, Used, Records
<1> HIDE DEF t
<1>4. Types' BY <1>2, <1>3 DEF Types
<1>5. \A n \in Node : TxBase(n)' >= TxBase(n) /\ RxBase(n)' >= RxBase(n)
  BY <1>2, <1>3, NodePair DEF TxBase, RxBase
<1>6. Forward BY <1>2, <1>3, <1>5 DEF Forward
<1>7. Calm
  <2>1. \A m \in Node : st'[m].sess = st[m].sess BY <1>2, <1>3
  <2>2. /\ \A m \in Node, j \in Slot : SameSession(st'[m].sess[j], st[m].sess[j])
        /\ OneMoves
    BY <2>1, TablesAlike
  <2> QED BY <1>2, <1>3, <2>2 DEF Calm
<1> QED BY <1>4, <1>6, <1>7 DEF Step, Effect

(* A stack whose NIC gets at most one record, after a change to slot i.    *)
LEMMA AddingStack ==
    ASSUME Types, NEW n \in Node, NEW t, StackOK(t), st' = [st EXCEPT ![n] = t],
           NEW f \in RecordType, f.off = TxBase(n),
           t.keys[TxLane(n)].base >= TxBase(n), t.keys[RxLane(n)].base = RxBase(n),
           Records(t) \subseteq Records(st[n]) \cup {f},
           f \in Records(t) =>
               f \in Records(st[n]) \/ t.keys[TxLane(n)].base = f.off + KeyCost(f.len),
           \/ dials' = dials /\ t.next = st[n].next
           \/ dials < MaxDials /\ dials' = dials + 1 /\ t.next = NextId(st[n].next)
    PROVE  /\ DOMAIN st' = Node /\ \A m \in Node : StackOK(st'[m])
           /\ st'[n] = t /\ \A m \in Node : m # n => st'[m] = st[m]
           /\ dials' \in 0 .. MaxDials /\ Forward /\ MayAdd(n, f)
<1>1. /\ DOMAIN st' = Node /\ \A m \in Node : StackOK(st'[m])
      /\ st'[n] = t /\ \A m \in Node : m # n => st'[m] = st[m]
  BY OneStack
<1>2. dials' \in 0 .. MaxDials BY BoundAssumption DEF Types
<1>3. Forward
  <2>1. TxBase(n)' >= TxBase(n) /\ RxBase(n)' = RxBase(n) BY <1>1 DEF TxBase, RxBase
  <2>2. \A m \in Node : m # n => TxBase(m)' = TxBase(m) /\ RxBase(m)' = RxBase(m)
    BY <1>1 DEF TxBase, RxBase
  <2>3. \A m \in Node : TxBase(m)' >= TxBase(m) /\ RxBase(m)' >= RxBase(m)
    BY <2>1, <2>2, BasesType
  <2>4. \A m \in Node : m # n => st'[m].next = st[m].next BY <1>1
  <2> QED BY <1>1, <2>3, <2>4 DEF Forward
<1>4. MayAdd(n, f)
  <2>1. \A m \in Node : Records(st'[m]) \subseteq Records(st[m]) \cup (IF m = n THEN {f} ELSE {})
    BY <1>1
  <2>2. f \in Records(st'[n]) => f \in Records(st[n]) \/ TxBase(n)' = f.off + KeyCost(f.len)
    BY <1>1 DEF TxBase
  <2> QED BY <2>1, <2>2 DEF MayAdd
<1> QED BY <1>1, <1>2, <1>3, <1>4

LEMMA SendStep ==
    ASSUME Types, NEW n \in Node, NEW i \in Slot, NEW len \in 1 .. MaxPayload, Send(n, i, len)
    PROVE  Step
<1> DEFINE x == st[n].sess[i]
           c == x.conn
           num == wrote[n][c] + 1
           r == SendRecord(n, st[n], i, "Data", len, num)
           f == Sealed(n, st[n], i, "Data", len, num)
<1>1. StackOK(st[n]) /\ Used(st[n], i) /\ c \in Conn /\ x.state = "Established"
  BY DEF Send, Types, StackOK, Used
<1>2. /\ st' = [st EXCEPT ![n] = r.stack]
      /\ wrote' = [wrote EXCEPT ![n][c] = IF r.err = "none" THEN @ + 1 ELSE @]
      /\ UNCHANGED <<seq, dials, born, read>> /\ wrote[n][c] < MaxMsgs
  BY DEF Send, SetStack
<1>3. /\ "Data" \in Control /\ len \in 0 .. MaxPayload /\ len > 0
      /\ num \in 0 .. MaxMsgs /\ num > 0 /\ wrote[n][c] \in 0 .. MaxMsgs
  BY <1>1, <1>2, RecordAssumption, BoundAssumption DEF Control, Types
<1> HIDE DEF num
<1>4. /\ f \in RecordType /\ f.off = TxBase(n) /\ f.len = len /\ f.num = num
      /\ Carries(f, x, "Data")
  BY <1>1, <1>3, SealedType DEF TxBase, Carries
<1>5. /\ StackOK(r.stack) /\ Alike(st[n], r.stack)
      /\ r.stack.keys[RxLane(n)] = st[n].keys[RxLane(n)]
      /\ \/ /\ r.err # "none" /\ Records(r.stack) = Records(st[n])
            /\ r.stack.keys[TxLane(n)].base >= TxBase(n)
         \/ /\ r.err = "none" /\ Records(r.stack) = Records(st[n]) \cup {f}
            /\ r.stack.keys[TxLane(n)].base = TxBase(n) + KeyCost(len)
  BY <1>1, <1>3, SendShape DEF TxBase
<1> DEFINE t == r.stack
           ok == r.err = "none"
<1>6. /\ t.sess = st[n].sess /\ t.next = st[n].next /\ t.keys[RxLane(n)].base = RxBase(n)
      /\ RxBase(n) \in Nat /\ TxBase(n) \in Nat
  BY <1>5, BasesType DEF Alike, RxBase
<1>7. wrote' \in [Node -> [Conn -> 0 .. MaxMsgs]] /\ (ok => wrote' = [wrote EXCEPT ![n][c] = @ + 1])
      /\ (~ok => wrote' = wrote)
  <2> DEFINE v == IF ok THEN num ELSE wrote[n][c]
  <2>1. v \in 0 .. MaxMsgs BY <1>3
  <2>2. wrote' = [wrote EXCEPT ![n][c] = v] BY <1>2 DEF num
  <2>3. ok => v = wrote[n][c] + 1 BY DEF num
  <2>4. ~ok => v = wrote[n][c] OBVIOUS
  <2>5. wrote \in [Node -> [Conn -> 0 .. MaxMsgs]] BY DEF Types
  <2> HIDE DEF v, r, num
  <2> QED BY <1>1, <2>1, <2>2, <2>3, <2>4, <2>5
<1> HIDE DEF f, r, num
<1>8. CASE ~ok
  <2>1. t.keys[RxLane(n)].base >= RxBase(n) BY <1>6
  <2> QED BY <1>2, <1>5, <1>6, <1>7, <1>8, <2>1, CalmStack, Reflexive
<1>9. CASE ok
  <2>1. t.keys[TxLane(n)].base >= TxBase(n) BY <1>3, <1>5, <1>6, <1>9, CostType
  <2>2. /\ DOMAIN st' = Node /\ \A m \in Node : StackOK(st'[m])
        /\ st'[n] = t /\ \A m \in Node : m # n => st'[m] = st[m]
        /\ dials' \in 0 .. MaxDials /\ Forward /\ MayAdd(n, f)
    <3>1. StackOK(t) /\ t.keys[RxLane(n)].base = RxBase(n) /\ t.next = st[n].next BY <1>5, <1>6
    <3>2. /\ Records(t) \subseteq Records(st[n]) \cup {f}
          /\ t.keys[TxLane(n)].base = f.off + KeyCost(f.len)
      BY <1>4, <1>5, <1>9
    <3>3. st' = [st EXCEPT ![n] = t] /\ dials' = dials BY <1>2
    <3> HIDE DEF t
    <3> QED BY <1>4, <2>1, <3>1, <3>2, <3>3, AddingStack
  <2>3. Types' BY <1>2, <1>7, <2>2 DEF Types
  <2>4. f.conn = c BY <1>4 DEF Carries
  <2>5. Sent(n, i, f)
    BY <1>1, <1>2, <1>4, <1>6, <1>7, <1>9, <2>2, <2>4 DEF Sent, num
  <2> QED BY <1>4, <2>2, <2>3, <2>5 DEF Step, Effect
<1> QED BY <1>8, <1>9

LEMMA RecvStep ==
    ASSUME Types, NEW n \in Node, NEW i \in Slot, NEW size \in 1 .. MaxPayload,
           Recv(n, i, size), vars' # vars
    PROVE  Step
<1> DEFINE x == st[n].sess[i]
           m == Head(x.rx)
           y == [x EXCEPT !.rx = Tail(x.rx)]
           t == [st[n] EXCEPT !.sess[i] = y]
<1>1. StackOK(st[n]) /\ Used(st[n], i) /\ x \in Session /\ x.conn \in Conn
  BY DEF Recv, Held, Types, StackOK, Used, Stack
<1>2. /\ x.rx # <<>> /\ read' = [read EXCEPT ![n][m.conn] = m.num]
      /\ UNCHANGED <<seq, dials, born, wrote>>
      /\ st' = [st EXCEPT ![n].sess[i].rx = Tail(@)]
  BY DEF Recv, Fits, SetStack, vars, Types
<1>3. x.rx \in Seq(Message) BY <1>1 DEF Session
<1>4. m \in Message /\ Tail(x.rx) \in Seq(Message) BY <1>2, <1>3, HeadTailProperties
<1>5. y \in Session /\ y.state = x.state /\ y.conn = x.conn BY <1>1, <1>4 DEF Session
<1>6. st' = [st EXCEPT ![n] = t] BY <1>1, <1>2 DEF StackOK, Stack, Types, SetStack, Session
<1> HIDE DEF y
<1>7. /\ StackOK(t) /\ t.keys = st[n].keys /\ t.next = st[n].next
      /\ Records(t) = Records(st[n]) /\ t.sess[i] = y
      /\ \A j \in Slot : j # i => t.sess[j] = st[n].sess[j]
  BY <1>1, <1>5, SlotSet
<1> HIDE DEF t
<1>8. /\ DOMAIN st' = Node /\ \A k \in Node : StackOK(st'[k])
      /\ st'[n] = t /\ \A k \in Node : k # n => st'[k] = st[k]
  BY <1>6, <1>7, OneStack
<1>9. read' \in [Node -> [Conn -> 0 .. MaxMsgs]]
  <2>0. \A z \in Message : z.conn \in Conn /\ z.num \in 0 .. MaxMsgs BY BoundAssumption DEF Message
  <2>1. m.conn \in Conn /\ m.num \in 0 .. MaxMsgs BY <1>4, <2>0
  <2> QED BY <1>2, <2>1 DEF Types
<1>10. Types' BY <1>2, <1>8, <1>9 DEF Types
<1>11. \A k \in Node : TxBase(k)' >= TxBase(k) /\ RxBase(k)' >= RxBase(k) /\ st'[k].next = st[k].next
  <2>1. \A k \in Node : st'[k].keys = st[k].keys /\ st'[k].next = st[k].next BY <1>7, <1>8
  <2> QED BY <2>1, BasesType DEF TxBase, RxBase
<1>12. Forward BY <1>2, <1>11 DEF Forward
<1>13. OthersStay(n, i) BY <1>7, <1>8 DEF OthersStay
<1>14. \A k \in Node : Records(st'[k]) = Records(st[k]) BY <1>7, <1>8
<1>15. Took(n, i) BY <1>1, <1>2, <1>7, <1>8, <1>13, <1>14 DEF Took, y
<1> QED BY <1>10, <1>12, <1>15 DEF Step, Effect

LEMMA CloseStep == ASSUME Types, NEW n \in Node, NEW i \in Slot, Close(n, i) PROVE Step
<1> DEFINE s == st[n]
           r == SendRecord(n, s, i, "Close", 0, 0)
           f == Sealed(n, s, i, "Close", 0, 0)
           told == IF s.sess[i].state = "Established" THEN r.stack ELSE s
           t == [told EXCEPT !.sess[i] = FreeSession]
<1>1. StackOK(s) /\ Used(s, i) BY DEF Close, Held, Types, Used
<1>2. st' = [st EXCEPT ![n] = t] /\ UNCHANGED <<seq, dials, born, wrote, read>>
  BY DEF Close, SetStack
<1>3. "Close" \in Control /\ 0 \in 0 .. MaxPayload /\ 0 \in 0 .. MaxMsgs
  BY RecordAssumption, BoundAssumption DEF Control
<1>4. /\ f \in RecordType /\ f.off = TxBase(n) /\ f.len = 0 /\ Carries(f, s.sess[i], "Close")
  BY <1>1, <1>3, SealedType DEF TxBase, Carries
<1>5. /\ StackOK(r.stack) /\ Alike(s, r.stack)
      /\ r.stack.keys[RxLane(n)] = s.keys[RxLane(n)]
      /\ \/ /\ r.err # "none" /\ Records(r.stack) = Records(s)
            /\ r.stack.keys[TxLane(n)].base >= TxBase(n)
         \/ /\ r.err = "none" /\ Records(r.stack) = Records(s) \cup {f}
            /\ r.stack.keys[TxLane(n)].base = TxBase(n) + KeyCost(0)
  BY <1>1, <1>3, SendShape DEF TxBase
<1> HIDE DEF f, r
<1>6. /\ StackOK(told) /\ Alike(s, told) /\ told.keys[RxLane(n)] = s.keys[RxLane(n)]
      /\ \/ Records(told) = Records(s) /\ told.keys[TxLane(n)].base >= TxBase(n)
         \/ /\ Records(told) = Records(s) \cup {f}
            /\ told.keys[TxLane(n)].base = TxBase(n) + KeyCost(0)
  <2>1. CASE told = s BY <1>1, <2>1, BasesType DEF Alike, TxBase
  <2>2. CASE told = r.stack BY <1>5, <2>2
  <2> QED BY <2>1, <2>2
<1> HIDE DEF told
<1>7. /\ StackOK(t) /\ t.keys = told.keys /\ t.next = told.next /\ Records(t) = Records(told)
      /\ t.sess[i] = FreeSession /\ \A j \in Slot : j # i => t.sess[j] = told.sess[j]
  BY <1>6, FreeType, SlotSet
<1> HIDE DEF t
<1>8. /\ t.sess[i].state = "Free" /\ \A j \in Slot : j # i => t.sess[j] = s.sess[j]
      /\ t.next = s.next /\ t.keys[RxLane(n)].base = RxBase(n)
  BY <1>6, <1>7, FreeType DEF Alike, RxBase
<1>9. CASE Records(t) = Records(s) /\ t.keys[TxLane(n)].base >= TxBase(n)
  <2>1. /\ \A j \in Slot : j # i => SameSession(t.sess[j], s.sess[j])
        /\ t.sess[i].state = "Free"
    BY <1>8, Reflexive
  <2>2. t.keys[RxLane(n)].base >= RxBase(n) BY <1>8, BasesType
  <2> QED BY <1>2, <1>7, <1>8, <1>9, <2>1, <2>2, CalmStack
<1>10. CASE /\ Records(t) = Records(s) \cup {f}
            /\ t.keys[TxLane(n)].base = TxBase(n) + KeyCost(0)
  <2>1. t.keys[TxLane(n)].base >= TxBase(n) BY <1>3, <1>10, CostType, BasesType
  <2>2. /\ DOMAIN st' = Node /\ \A m \in Node : StackOK(st'[m])
        /\ st'[n] = t /\ \A m \in Node : m # n => st'[m] = st[m]
        /\ dials' \in 0 .. MaxDials /\ Forward /\ MayAdd(n, f)
    <3>1. StackOK(t) /\ t.keys[RxLane(n)].base = RxBase(n) /\ t.next = st[n].next BY <1>7, <1>8
    <3>2. /\ Records(t) \subseteq Records(st[n]) \cup {f}
          /\ t.keys[TxLane(n)].base = f.off + KeyCost(f.len)
      BY <1>4, <1>10
    <3>3. st' = [st EXCEPT ![n] = t] /\ dials' = dials BY <1>2
    <3> HIDE DEF s
    <3> QED BY <1>4, <2>1, <3>1, <3>2, <3>3, AddingStack
  <2>3. Types' BY <1>2, <2>2 DEF Types
  <2>4. OthersStay(n, i) BY <1>8, <2>2 DEF OthersStay
  <2>5. Told(n, i, f) BY <1>1, <1>2, <1>4, <1>8, <2>2, <2>4 DEF Told
  <2> QED BY <1>4, <2>2, <2>3, <2>5 DEF Step, Effect
<1> QED BY <1>6, <1>7, <1>9, <1>10

(* No session is closed.                                                   *)
NoneLeaves == \A n \in Node, i \in Slot : Used(st[n], i) => Used(st'[n], i)

LEMMA ConnectStep ==
    ASSUME Types, NEW n \in Node, NEW p \in Ports, Connect(n, p)
    PROVE  /\ Step
           /\ (Calm /\ NoneLeaves) \/ \E i \in Slot, f \in RecordType : Dialed(n, i, f)
<1> DEFINE i == FirstFree(st[n])
           id == st[n].next
           new == [FreeSession EXCEPT !.state = "HelloSent", !.id = id, !.pport = p,
                      !.lport = LocalPort(id), !.conn = dials + 1]
           u == [st[n] EXCEPT !.next = NextId(id)]
           s == [u EXCEPT !.sess[i] = new]
           r == SendRecord(n, s, i, "Hello", 0, 0)
           f == Sealed(n, s, i, "Hello", 0, 0)
<1>1. StackOK(st[n]) /\ dials < MaxDials /\ dials \in 0 .. MaxDials BY DEF Connect, Types
<1>2. i \in Slot /\ st[n].sess[i].state = "Free"
  <2>1. {j \in Slot : st[n].sess[j].state = "Free"} # {} BY DEF Connect, HasFree
  <2>2. i \in {j \in Slot : st[n].sess[j].state = "Free"} BY <2>1, MinIsThere DEF FirstFree
  <2> QED BY <2>2
<1> HIDE DEF i
<1>3. id \in Id /\ p \in Port /\ LocalPort(id) \in Port /\ dials + 1 \in Conn
  BY <1>1, LocalPortType, BoundAssumption DEF StackOK, Stack, Port, Conn
<1>4. /\ new \in Session /\ new.state = "HelloSent" /\ new.id = id /\ new.pport = p
      /\ new.lport = LocalPort(id) /\ new.conn = dials + 1 /\ new.rx = <<>>
  <2> DEFINE q == LocalPort(id)
             c == dials + 1
  <2>1. q \in Port /\ c \in Conn BY <1>3
  <2> HIDE DEF q, c
  <2>2. LET x == [FreeSession EXCEPT !.state = "HelloSent", !.id = id, !.pport = p, !.lport = q,
                      !.conn = c]
        IN  /\ x \in Session /\ x.state = "HelloSent" /\ x.id = id /\ x.pport = p
            /\ x.lport = q /\ x.conn = c /\ x.rx = <<>>
    BY <1>3, <2>1, EmptyQueue DEF FreeSession, Session
  <2> QED BY <2>2 DEF q, c
<1> HIDE DEF new
<1>5. /\ StackOK(u) /\ u.keys = st[n].keys /\ u.sess = st[n].sess /\ u.next = NextId(id)
      /\ Records(u) = Records(st[n])
  <2>1. NextId(id) \in Id \ {0} BY <1>3, NextIdType
  <2>2. /\ u \in Stack /\ u.keys = st[n].keys /\ u.sess = st[n].sess /\ u.next = NextId(id)
        /\ u.nic = st[n].nic
    BY <1>1, <2>1 DEF StackOK, Stack
  <2> HIDE DEF u
  <2> QED BY <1>1, <2>2 DEF StackOK, Used, Records
<1>6. LET result == IF r.err = "none" THEN r.stack ELSE [r.stack EXCEPT !.sess[i].state = "Free"]
      IN  /\ st' = [st EXCEPT ![n] = result] /\ dials' = dials + 1
          /\ UNCHANGED <<seq, born, wrote, read>>
  <2> DEFINE s0 == [st[n] EXCEPT !.next = NextId(id), !.sess[i] = new]
             r0 == SendRecord(n, s0, i, "Hello", 0, 0)
  <2>1. st' = [st EXCEPT ![n] = IF r0.err = "none" THEN r0.stack
                                ELSE [r0.stack EXCEPT !.sess[i].state = "Free"]]
    BY DEF Connect, SetStack, i, new
  <2>4. s = s0 OBVIOUS
  <2> HIDE DEF s, s0
  <2>5. r = r0 BY <2>4
  <2> HIDE DEF r, r0
  <2>2. dials' = dials + 1 /\ UNCHANGED <<seq, born, wrote, read>> BY DEF Connect
  <2>3. st' = [st EXCEPT ![n] = IF r.err = "none" THEN r.stack
                                ELSE [r.stack EXCEPT !.sess[i].state = "Free"]]
    BY <2>1, <2>5
  <2> QED BY <2>2, <2>3
<1> HIDE DEF u
<1>7. /\ StackOK(s) /\ s.keys = st[n].keys /\ s.next = NextId(id) /\ Records(s) = Records(st[n])
      /\ s.sess[i] = new /\ Used(s, i) /\ \A j \in Slot : j # i => s.sess[j] = st[n].sess[j]
  BY <1>2, <1>3, <1>4, <1>5, SlotSet DEF Used
<1> HIDE DEF s
<1>8. "Hello" \in Control /\ 0 \in 0 .. MaxPayload /\ 0 \in 0 .. MaxMsgs
  BY RecordAssumption, BoundAssumption DEF Control
<1>9. /\ f \in RecordType /\ f.off = TxBase(n) /\ f.len = 0 /\ Carries(f, new, "Hello")
  BY <1>2, <1>7, <1>8, SealedType DEF TxBase, Carries
<1>10. /\ StackOK(r.stack) /\ Alike(s, r.stack)
       /\ r.stack.keys[RxLane(n)] = s.keys[RxLane(n)]
       /\ \/ /\ r.err # "none" /\ Records(r.stack) = Records(s)
             /\ r.stack.keys[TxLane(n)].base >= TxBase(n)
          \/ /\ r.err = "none" /\ Records(r.stack) = Records(s) \cup {f}
             /\ r.stack.keys[TxLane(n)].base = TxBase(n) + KeyCost(0)
  BY <1>2, <1>7, <1>8, SendShape DEF TxBase
<1> HIDE DEF f, r
<1>11. r.stack.keys[RxLane(n)].base = RxBase(n) /\ r.stack.next = NextId(id)
  BY <1>7, <1>10 DEF Alike, RxBase
<1>12. CASE r.err # "none"
  <2> DEFINE y == [r.stack.sess[i] EXCEPT !.state = "Free"]
             t == [r.stack EXCEPT !.sess[i] = y]
  <2>1. y \in Session /\ y.state = "Free"
    BY <1>2, <1>10 DEF StackOK, Stack, Session
  <2>2. t = [r.stack EXCEPT !.sess[i].state = "Free"] BY <1>2, <1>10 DEF StackOK, Stack
  <2>3. st' = [st EXCEPT ![n] = t] BY <1>6, <1>12, <2>2
  <2> HIDE DEF y
  <2>4. /\ StackOK(t) /\ t.keys = r.stack.keys /\ t.next = r.stack.next
        /\ Records(t) = Records(r.stack) /\ t.sess[i] = y
        /\ \A j \in Slot : j # i => t.sess[j] = r.stack.sess[j]
    BY <1>2, <1>10, <2>1, SlotSet
  <2> HIDE DEF t
  <2>5. /\ \A j \in Slot : j # i => SameSession(t.sess[j], st[n].sess[j])
        /\ t.sess[i].state = "Free"
    BY <1>7, <1>10, <2>1, <2>4, Reflexive DEF Alike
  <2>6. t.keys[RxLane(n)].base >= RxBase(n) BY <1>11, <2>4, BasesType
  <2>7. t.keys[TxLane(n)].base >= TxBase(n) BY <1>10, <1>12, <2>4
  <2>8. Step /\ Calm
    <3>1. Records(t) \subseteq Records(st[n]) /\ t.next = NextId(st[n].next)
          /\ dials < MaxDials /\ dials' = dials + 1 /\ UNCHANGED <<seq, born, wrote, read>>
      BY <1>1, <1>6, <1>7, <1>10, <1>11, <1>12, <2>4
    <3> QED BY <1>2, <2>3, <2>4, <2>5, <2>6, <2>7, <3>1, CalmStack
  <2>9. NoneLeaves
    <3>1. st'[n] = t /\ \A m \in Node : m # n => st'[m] = st[m] BY <2>3, <2>4, OneStack
    <3> QED BY <1>2, <2>5, <3>1 DEF NoneLeaves, Used, SameSession
  <2> QED BY <2>8, <2>9
<1>13. CASE r.err = "none"
  <2> DEFINE t == r.stack
  <2>1. t.keys[TxLane(n)].base >= TxBase(n) BY <1>8, <1>10, <1>13, CostType, BasesType
  <2>2. st' = [st EXCEPT ![n] = t] BY <1>6, <1>13
  <2>3. /\ DOMAIN st' = Node /\ \A m \in Node : StackOK(st'[m])
        /\ st'[n] = t /\ \A m \in Node : m # n => st'[m] = st[m]
        /\ dials' \in 0 .. MaxDials /\ Forward /\ MayAdd(n, f)
    <3>1. StackOK(t) /\ t.keys[RxLane(n)].base = RxBase(n) /\ t.next = NextId(st[n].next)
      BY <1>10, <1>11
    <3>2. Records(t) \subseteq Records(st[n]) \cup {f} /\ t.keys[TxLane(n)].base = f.off + KeyCost(f.len)
      BY <1>7, <1>9, <1>10, <1>13
    <3>3. dials < MaxDials /\ dials' = dials + 1 BY <1>1, <1>6
    <3> HIDE DEF t
    <3> QED BY <1>9, <2>1, <2>2, <3>1, <3>2, <3>3, AddingStack
  <2>4. Types' BY <1>6, <2>3 DEF Types
  <2>5. t.sess[i] = new /\ \A j \in Slot : j # i => t.sess[j] = st[n].sess[j]
    BY <1>2, <1>7, <1>10 DEF Alike
  <2>6. OthersStay(n, i) BY <2>3, <2>5 DEF OthersStay
  <2>7. Dialed(n, i, f)
    BY <1>2, <1>4, <1>6, <1>9, <1>11, <2>3, <2>5, <2>6 DEF Dialed
  <2> QED BY <1>2, <1>9, <2>3, <2>4, <2>7 DEF Step, Effect
<1> QED BY <1>12, <1>13

(***************************************************************************)
(* poll: a frame arrives.                                                  *)
(***************************************************************************)

LEMMA Arrived ==
    ASSUME Types, NEW n \in Node, NEW k \in 1 .. NicSlots, NEW repeat \in BOOLEAN,
           Receive(n, k, repeat),
           NEW t, t = HandleFrame(n, st[n], st[Peer(n)].nic[k]), StackOK(t), t.next = st[n].next,
           t.keys[TxLane(n)].base >= TxBase(n), t.keys[RxLane(n)].base >= RxBase(n)
    PROVE  /\ Types' /\ Forward
           /\ st'[n] = t /\ st'[Peer(n)].sess = st[Peer(n)].sess
           /\ Records(st'[Peer(n)]) \subseteq Records(st[Peer(n)])
           /\ wrote' = wrote /\ read' = read
<1> DEFINE m == Peer(n)
           f == st[m].nic[k]
           q == IF repeat THEN st[m].nic ELSE RemoveAt(st[m].nic, k)
           u == [st[m] EXCEPT !.nic = q]
<1>1. m \in Node /\ m # n /\ \A i \in Node : i = n \/ i = m BY NodePair
<1>2. StackOK(st[m]) /\ k \in DOMAIN st[m].nic /\ st[m].nic \in Seq(FrameType)
  BY <1>1 DEF Receive, Types, StackOK, Stack
<1>3. q \in Seq(FrameType) /\ Range(q) \subseteq Range(st[m].nic) BY <1>2, RecordRemoved
<1>4. st' = [st EXCEPT ![n] = t, ![m] = u]
  <2>1. u = [st[m] EXCEPT !.nic = IF repeat THEN @ ELSE RemoveAt(@, k)] OBVIOUS
  <2> HIDE DEF u
  <2> QED BY <1>1, <2>1 DEF Receive
<1>5. seq' = seq /\ dials' = dials /\ wrote' = wrote /\ read' = read BY DEF Receive
<1> HIDE DEF q
<1>6. /\ u \in Stack /\ u.keys = st[m].keys /\ u.next = st[m].next /\ u.sess = st[m].sess
      /\ u.nic = q
  BY <1>2, <1>3 DEF StackOK, Stack
<1> HIDE DEF u
<1>7. StackOK(u) /\ Records(u) \subseteq Records(st[m])
  BY <1>2, <1>3, <1>6 DEF StackOK, Used, Records
<1>8. DOMAIN st' = Node /\ st'[n] = t /\ st'[m] = u BY <1>1, <1>4 DEF Types
<1>9. \A i \in Node : StackOK(st'[i]) BY <1>1, <1>7, <1>8
<1>10. born' \in [Conn -> Nat]
  <2>1. CASE born' = born BY <2>1 DEF Types
  <2>2. CASE ~IsArp(f) /\ born' = [born EXCEPT ![f.conn] = @ + 1]
    <3>1. f \in RecordType BY <1>2, <2>2, ElementOfSeq, LenProperties DEF FrameType, IsArp
    <3>2. f.conn \in Conn BY <3>1 DEF RecordType
    <3> HIDE DEF f
    <3> QED BY <2>2, <3>2 DEF Types
  <2> QED BY <2>1, <2>2 DEF Receive
<1>11. Types' BY <1>5, <1>8, <1>9, <1>10 DEF Types
<1>12. Forward
  <2>1. TxBase(n)' >= TxBase(n) /\ RxBase(n)' >= RxBase(n) BY <1>8 DEF TxBase, RxBase
  <2>2. TxBase(m)' = TxBase(m) /\ RxBase(m)' = RxBase(m) BY <1>6, <1>8 DEF TxBase, RxBase
  <2>3. \A i \in Node : TxBase(i)' >= TxBase(i) /\ RxBase(i)' >= RxBase(i)
    BY <1>1, <2>1, <2>2, BasesType
  <2>4. \A i \in Node : st'[i].next = st[i].next BY <1>1, <1>6, <1>8
  <2> QED BY <1>5, <2>3, <2>4 DEF Forward
<1> QED BY <1>5, <1>6, <1>7, <1>8, <1>11, <1>12

(* open and consume_through.                                               *)
LEMMA BurnShape ==
    ASSUME NEW n \in Node, NEW s, StackOK(s), NEW f \in RecordType, Opens(n, s, f)
    PROVE  LET t == Burn(n, s, f)
           IN  /\ StackOK(t) /\ Alike(s, t) /\ t.nic = s.nic /\ Records(t) = Records(s)
               /\ t.keys[TxLane(n)] = s.keys[TxLane(n)]
               /\ t.keys[RxLane(n)].base = f.off + KeyCost(f.len)
               /\ s.keys[RxLane(n)].base <= f.off
<1> DEFINE w == ConsumeTo(s.keys[RxLane(n)], f.off, KeyCost(f.len))
           t == [s EXCEPT !.keys[RxLane(n)] = w]
<1>1. f.off \in Nat /\ f.len \in 0 .. MaxPayload BY DEF RecordType
<1>2. TxLane(n) \in Lane /\ RxLane(n) \in Lane /\ TxLane(n) # RxLane(n) BY NodePair
<1>3. s.keys[RxLane(n)] \in Window BY <1>2, BaseType
<1>4. w \in Window /\ w.base = f.off + KeyCost(f.len)
  BY <1>1, <1>3, CostType, ConsumeMoves DEF Opens
<1>5. s.keys[RxLane(n)].base <= f.off BY DEF Opens, InWindow
<1>6. Burn(n, s, f) = t BY DEF Burn
<1> HIDE DEF w
<1>7. /\ t \in Stack /\ Alike(s, t) /\ t.nic = s.nic /\ t.keys[RxLane(n)] = w
      /\ t.keys[TxLane(n)] = s.keys[TxLane(n)]
  BY <1>2, <1>4 DEF StackOK, Stack, Alike
<1> HIDE DEF t
<1>8. StackOK(t) BY <1>7 DEF StackOK, Used, Alike
<1> QED BY <1>4, <1>5, <1>6, <1>7, <1>8 DEF Records

LEMMA AdvanceType ==
    ASSUME NEW x \in Session, x.state # "Free", NEW f \in RecordType
    PROVE  /\ Advance(x, f) \in Session /\ Advance(x, f).state # "Free"
           /\ Advance(x, f).conn = x.conn
<1>1. CASE f.ctype = "HelloAck" /\ x.state = "HelloSent" BY <1>1 DEF Advance, Session
<1>2. CASE f.ctype = "Data" /\ x.state = "Established"
  <2>1. MessageOf(f) \in Message BY <1>2, BoundAssumption, RecordAssumption DEF RecordType, MessageOf, Message
  <2>2. x.rx \in Seq(Message) BY DEF Session
  <2>3. Append(x.rx, MessageOf(f)) \in Seq(Message) BY <2>1, <2>2, AppendProperties
  <2>4. Advance(x, f) = Push(x, MessageOf(f)) BY <1>2 DEF Advance
  <2> QED BY <2>3, <2>4 DEF Push, Session
<1>3. CASE f.ctype = "Close" BY <1>3 DEF Advance, Session
<1>4. CASE /\ ~(f.ctype = "HelloAck" /\ x.state = "HelloSent") /\ f.ctype # "Close"
           /\ ~(f.ctype = "Data" /\ x.state = "Established")
  <2>1. Advance(x, f) = x BY <1>4 DEF Advance
  <2> QED BY <2>1
<1> QED BY <1>1, <1>2, <1>3, <1>4

LEMMA CalmArrival ==
    ASSUME Types, NEW n \in Node, NEW k \in 1 .. NicSlots, NEW repeat \in BOOLEAN,
           Receive(n, k, repeat), born' = born,
           NEW t, t = HandleFrame(n, st[n], st[Peer(n)].nic[k]), StackOK(t),
           t.next = st[n].next, t.sess = st[n].sess,
           t.keys[TxLane(n)].base >= TxBase(n), t.keys[RxLane(n)].base >= RxBase(n),
           Records(t) \subseteq Records(st[n])
    PROVE  Step
<1>2. /\ Types' /\ Forward
      /\ st'[n] = t /\ st'[Peer(n)].sess = st[Peer(n)].sess
      /\ Records(st'[Peer(n)]) \subseteq Records(st[Peer(n)])
      /\ wrote' = wrote /\ read' = read
  BY Arrived
<1>3. \A m \in Node : m = n \/ m = Peer(n) BY NodePair
<1>4. \A m \in Node : st'[m].sess = st[m].sess /\ Records(st'[m]) \subseteq Records(st[m])
  BY <1>2, <1>3
<1>5. Calm
  <2>1. /\ \A m \in Node, j \in Slot : SameSession(st'[m].sess[j], st[m].sess[j])
        /\ OneMoves
    BY <1>4, TablesAlike
  <2> QED BY <1>2, <1>4, <2>1 DEF Calm
<1> QED BY <1>2, <1>5 DEF Step, Effect

LEMMA ArpStep ==
    ASSUME Types, NEW n \in Node, NEW k \in 1 .. NicSlots, NEW repeat \in BOOLEAN,
           Receive(n, k, repeat), IsArp(st[Peer(n)].nic[k])
    PROVE  Step
<1> DEFINE s == st[n]
           f == st[Peer(n)].nic[k]
           known == [s EXCEPT !.arp = TRUE]
           r == Transmit(known, ArpReply)
           t == IF f.ctype = "ArpRequest" THEN r.stack ELSE known
<1>1. StackOK(s) BY DEF Types
<1>2. t = HandleFrame(n, s, f) BY DEF HandleFrame, HandleArp
<1>3. born' = born BY DEF Receive
<1>4. /\ StackOK(known) /\ known.keys = s.keys /\ known.next = s.next /\ known.sess = s.sess
      /\ Records(known) = Records(s)
  <2>1. /\ known \in Stack /\ known.keys = s.keys /\ known.next = s.next /\ known.sess = s.sess
        /\ known.nic = s.nic
    BY <1>1 DEF StackOK, Stack
  <2> HIDE DEF known
  <2> QED BY <1>1, <2>1 DEF StackOK, Used, Records
<1> HIDE DEF known
<1>5. /\ StackOK(r.stack) /\ r.stack.keys = s.keys /\ r.stack.next = s.next
      /\ r.stack.sess = s.sess /\ Records(r.stack) = Records(s)
  <2>1. ArpReply \in FrameType BY DEF ArpReply, FrameType
  <2>2. /\ StackOK(r.stack) /\ r.stack.keys = known.keys /\ r.stack.next = known.next
        /\ r.stack.sess = known.sess
        /\ \/ Range(r.stack.nic) = Range(known.nic) \cup {ArpReply}
           \/ r.stack.nic = known.nic
    BY <1>4, <2>1, TransmitShape
  <2> HIDE DEF r
  <2>3. Records(r.stack) = Records(known)
    <3>1. CASE r.stack.nic = known.nic BY <3>1 DEF Records
    <3>2. CASE Range(r.stack.nic) = Range(known.nic) \cup {ArpReply} BY <3>2, ArpIsNoRecord
    <3> QED BY <2>2, <3>1, <3>2
  <2> QED BY <1>4, <2>2, <2>3
<1> HIDE DEF r
<1>6. /\ StackOK(t) /\ t.keys = s.keys /\ t.next = s.next /\ t.sess = s.sess
      /\ Records(t) = Records(s)
  BY <1>4, <1>5
<1> HIDE DEF t
<1>7. t.keys[TxLane(n)].base >= TxBase(n) /\ t.keys[RxLane(n)].base >= RxBase(n)
  BY <1>6, BasesType DEF TxBase, RxBase
<1> QED BY <1>2, <1>3, <1>6, <1>7, CalmArrival

(* What handle_qtls burns.                                                 *)
LEMMA BurnedKey ==
    ASSUME Types, NEW n \in Node, NEW f \in RecordType, Opens(n, st[n], f)
    PROVE  /\ f.off \in Nat /\ KeyCost(f.len) \in Nat /\ KeyCost(f.len) > 0
           /\ RxBase(n) <= f.off /\ RxBase(n) < f.off + KeyCost(f.len)
<1>1. f.off \in Nat /\ f.len \in 0 .. MaxPayload BY DEF RecordType
<1>2. RxBase(n) <= f.off BY DEF Opens, InWindow, RxBase
<1> QED BY <1>1, <1>2, CostType, BasesType

LEMMA MatchStep ==
    ASSUME Types, NEW n \in Node, NEW k \in 1 .. NicSlots, NEW repeat \in BOOLEAN,
           Receive(n, k, repeat), ~IsArp(st[Peer(n)].nic[k]),
           Matching(st[n], st[Peer(n)].nic[k]) # {}, Opens(n, st[n], st[Peer(n)].nic[k]),
           st[Peer(n)].nic[k] \in RecordType,
           st[Peer(n)].nic[k] \in Records(st[Peer(n)])
    PROVE  Step
<1> DEFINE s == st[n]
           f == st[Peer(n)].nic[k]
           i == Min(Matching(s, f))
           b == Burn(n, s, f)
           x == Advance(s.sess[i], f)
           t == [b EXCEPT !.sess[i] = x]
<1>1. StackOK(s) BY DEF Types
<1>2. i \in Matching(s, f) /\ i \in Slot /\ Used(s, i)
  <2>1. i \in Matching(s, f) BY MinIsThere DEF Matching
  <2> QED BY <2>1 DEF Matching, Used
<1>3. /\ StackOK(b) /\ Alike(s, b) /\ Records(b) = Records(s)
      /\ b.keys[TxLane(n)] = s.keys[TxLane(n)] /\ b.keys[RxLane(n)].base = f.off + KeyCost(f.len)
  BY <1>1, BurnShape
<1>4. b.sess = s.sess /\ b.next = s.next BY <1>3 DEF Alike
<1>5. x \in Session /\ x.conn \in Conn
  BY <1>1, <1>2, AdvanceType DEF StackOK, Stack, Used
<1>6. HandleFrame(n, s, f) = t
  <2>1. HandleFrame(n, s, f) = HandleQtls(n, s, f) BY DEF HandleFrame
  <2>2. HandleQtls(n, s, f) = [Burn(n, s, f) EXCEPT !.sess[Min(Matching(s, f))] = Advance(@, f)]
    <3>1. Matching(s, f) # {} /\ Opens(n, s, f) /\ ~Creates(n, s, f) /\ ~FreshHello(s, f)
      BY DEF Creates, FreshHello
    <3> QED BY <3>1 DEF HandleQtls
  <2>3. [Burn(n, s, f) EXCEPT !.sess[Min(Matching(s, f))] = Advance(@, f)]
          = [b EXCEPT !.sess[i] = Advance(b.sess[i], f)]
    OBVIOUS
  <2> QED BY <1>4, <2>1, <2>2, <2>3
<1>7. born' = born BY DEF Receive, Creates, FreshHello
<1>8. /\ f.off \in Nat /\ KeyCost(f.len) \in Nat /\ RxBase(n) <= f.off
      /\ RxBase(n) < f.off + KeyCost(f.len) /\ RxBase(n) \in Nat /\ TxBase(n) \in Nat
  BY BurnedKey, BasesType
<1>9. x = Advance(st[n].sess[i], f) OBVIOUS
<1> HIDE DEF b, x, i
<1>10. /\ StackOK(t) /\ t.keys = b.keys /\ t.next = b.next /\ Records(t) = Records(b)
       /\ t.sess[i] = x /\ \A j \in Slot : j # i => t.sess[j] = b.sess[j]
  BY <1>2, <1>3, <1>5, SlotSet
<1> HIDE DEF t
<1>11. /\ t.keys[TxLane(n)].base >= TxBase(n) /\ t.keys[RxLane(n)].base >= RxBase(n)
       /\ t.keys[RxLane(n)].base = f.off + KeyCost(f.len) /\ t.next = s.next
  BY <1>3, <1>4, <1>8, <1>10 DEF TxBase
<1>12. /\ Types' /\ Forward
       /\ st'[n] = t /\ st'[Peer(n)].sess = st[Peer(n)].sess
       /\ Records(st'[Peer(n)]) \subseteq Records(st[Peer(n)])
       /\ wrote' = wrote /\ read' = read
  BY <1>6, <1>10, <1>11, Arrived
<1>13. \A m \in Node : m = n \/ m = Peer(n) BY NodePair
<1>14. OthersStay(n, i) BY <1>4, <1>10, <1>12, <1>13 DEF OthersStay
<1>15. \A m \in Node : Records(st'[m]) \subseteq Records(st[m]) BY <1>3, <1>10, <1>12, <1>13
<1>16. Burned(n, f) BY <1>8, <1>11, <1>12 DEF Burned, RxBase
<1>17. Advanced(n, i, f) BY <1>2, <1>7, <1>9, <1>10, <1>12, <1>14, <1>15, <1>16 DEF Advanced
<1> QED BY <1>2, <1>12, <1>17 DEF Step, Effect

LEMMA CreateStep ==
    ASSUME Types, NEW n \in Node, NEW k \in 1 .. NicSlots, NEW repeat \in BOOLEAN,
           Receive(n, k, repeat), ~IsArp(st[Peer(n)].nic[k]),
           Creates(n, st[n], st[Peer(n)].nic[k]),
           st[Peer(n)].nic[k] \in RecordType,
           st[Peer(n)].nic[k] \in Records(st[Peer(n)])
    PROVE  Step
<1> DEFINE s == st[n]
           f == st[Peer(n)].nic[k]
           b == Burn(n, s, f)
           i == FirstFree(b)
           x == [FreeSession EXCEPT !.state = "Established", !.id = f.id, !.pport = f.sport,
                   !.lport = f.dport, !.accepted = FALSE, !.conn = f.conn]
           u == [b EXCEPT !.sess[i] = x]
           r == SendRecord(n, u, i, "HelloAck", 0, 0)
           g == Sealed(n, u, i, "HelloAck", 0, 0)
<1>1. StackOK(s) /\ Opens(n, s, f) /\ FreshHello(s, f) /\ HasFree(s) BY DEF Types, Creates
<1>2. /\ StackOK(b) /\ Alike(s, b) /\ Records(b) = Records(s)
      /\ b.keys[TxLane(n)] = s.keys[TxLane(n)] /\ b.keys[RxLane(n)].base = f.off + KeyCost(f.len)
  BY <1>1, BurnShape
<1>3. HandleFrame(n, s, f) = r.stack
  <2>1. HandleFrame(n, s, f) = HandleQtls(n, s, f) BY DEF HandleFrame
  <2>2. HandleQtls(n, s, f) = AcceptHello(n, b, f) BY <1>1 DEF HandleQtls, FreshHello
  <2> QED BY <2>1, <2>2 DEF AcceptHello
<1>4. born' = [born EXCEPT ![f.conn] = @ + 1] BY DEF Receive
<1>5. b.sess = s.sess /\ b.next = s.next BY <1>2 DEF Alike
<1>6. i \in Slot /\ s.sess[i].state = "Free"
  <2>1. {j \in Slot : b.sess[j].state = "Free"} # {} BY <1>1, <1>5 DEF HasFree
  <2>2. i \in {j \in Slot : b.sess[j].state = "Free"} BY <2>1, MinIsThere DEF FirstFree
  <2> QED BY <1>5, <2>2
<1>7. f.id \in Id /\ f.sport \in Port /\ f.dport \in Port /\ f.conn \in Conn BY DEF RecordType
<1>8. /\ f.off \in Nat /\ KeyCost(f.len) \in Nat /\ RxBase(n) <= f.off
      /\ RxBase(n) < f.off + KeyCost(f.len) /\ RxBase(n) \in Nat /\ TxBase(n) \in Nat
  BY <1>1, BurnedKey, BasesType
<1> HIDE DEF b, i, f
<1>9. /\ x \in Session /\ x.state = "Established" /\ x.id = f.id /\ x.pport = f.sport
      /\ x.lport = f.dport /\ x.conn = f.conn /\ x.rx = <<>>
  BY <1>7, EmptyQueue DEF FreeSession, Session
<1> HIDE DEF x
<1>10. /\ StackOK(u) /\ u.keys = b.keys /\ u.next = b.next /\ Records(u) = Records(b)
       /\ u.sess[i] = x /\ Used(u, i) /\ \A j \in Slot : j # i => u.sess[j] = b.sess[j]
  <2>1. x.state # "Free" => x.conn \in Conn BY <1>7, <1>9
  <2>2. /\ StackOK(u) /\ u.keys = b.keys /\ u.next = b.next /\ Records(u) = Records(b)
        /\ u.sess[i] = x /\ \A j \in Slot : j # i => u.sess[j] = b.sess[j]
    BY <1>2, <1>6, <1>9, <2>1, SlotSet
  <2> QED BY <1>9, <2>2 DEF Used
<1> HIDE DEF u
<1>11. "HelloAck" \in Control /\ 0 \in 0 .. MaxPayload /\ 0 \in 0 .. MaxMsgs
  BY RecordAssumption, BoundAssumption DEF Control
<1>12. /\ g \in RecordType /\ g.off = TxBase(n) /\ g.len = 0 /\ Carries(g, x, "HelloAck")
  BY <1>2, <1>6, <1>10, <1>11, SealedType DEF TxBase, Carries
<1>13. /\ StackOK(r.stack) /\ Alike(u, r.stack)
       /\ r.stack.keys[RxLane(n)] = u.keys[RxLane(n)]
       /\ \/ /\ r.err # "none" /\ Records(r.stack) = Records(u)
             /\ r.stack.keys[TxLane(n)].base >= TxBase(n)
          \/ /\ r.err = "none" /\ Records(r.stack) = Records(u) \cup {g}
             /\ r.stack.keys[TxLane(n)].base = TxBase(n) + KeyCost(0)
  BY <1>2, <1>6, <1>10, <1>11, SendShape DEF TxBase
<1> HIDE DEF r, g
<1> DEFINE t == r.stack
<1>14. /\ StackOK(t) /\ t.next = s.next /\ t.sess[i] = x
       /\ \A j \in Slot : j # i => t.sess[j] = s.sess[j]
       /\ t.keys[RxLane(n)].base = f.off + KeyCost(f.len)
  BY <1>2, <1>5, <1>10, <1>13 DEF Alike
<1>15. /\ Records(t) \subseteq Records(s) \cup {g}
       /\ g \in Records(t) =>
             t.keys[TxLane(n)].base = TxBase(n) + KeyCost(0) \/ g \in Records(s)
  BY <1>2, <1>10, <1>13
<1>16. t.keys[TxLane(n)].base >= TxBase(n) /\ t.keys[RxLane(n)].base >= RxBase(n)
  <2>1. KeyCost(0) \in Nat BY <1>11, CostType
  <2> QED BY <1>8, <1>13, <1>14, <2>1
<1>17. t = HandleFrame(n, s, f) BY <1>3
<1> HIDE DEF t
<1>18. /\ Types' /\ Forward
       /\ st'[n] = t /\ st'[Peer(n)].sess = st[Peer(n)].sess
       /\ Records(st'[Peer(n)]) \subseteq Records(st[Peer(n)])
       /\ wrote' = wrote /\ read' = read
  BY <1>14, <1>16, <1>17, Arrived DEF f
<1>19. \A m \in Node : m = n \/ m = Peer(n) BY NodePair
<1>20. OthersStay(n, i) BY <1>14, <1>18, <1>19 DEF OthersStay
<1>21. MayAdd(n, g)
  <2>1. \A m \in Node : Records(st'[m]) \subseteq Records(st[m]) \cup (IF m = n THEN {g} ELSE {})
    BY <1>15, <1>18, <1>19
  <2>2. TxBase(n)' = t.keys[TxLane(n)].base BY <1>18 DEF TxBase
  <2> QED BY <1>12, <1>15, <1>18, <2>1, <2>2 DEF MayAdd
<1>22. Burned(n, f) BY <1>8, <1>14, <1>18 DEF Burned, RxBase, f
<1>23. Created(n, i, f, g)
  BY <1>1, <1>4, <1>6, <1>9, <1>12, <1>14, <1>18, <1>20, <1>21, <1>22 DEF Created, f
<1>24. f \in RecordType BY DEF f
<1> QED BY <1>6, <1>12, <1>18, <1>23, <1>24 DEF Step, Effect

LEMMA ReceiveStep ==
    ASSUME Types, NEW n \in Node, NEW k \in 1 .. NicSlots, NEW repeat \in BOOLEAN,
           Receive(n, k, repeat)
    PROVE  Step
<1> DEFINE s == st[n]
           f == st[Peer(n)].nic[k]
<1>1. StackOK(s) /\ StackOK(st[Peer(n)]) /\ k \in DOMAIN st[Peer(n)].nic
  BY NodePair DEF Types, Receive
<1>2. f \in FrameType /\ f \in Range(st[Peer(n)].nic)
  BY <1>1, ElementOfSeq, LenProperties DEF StackOK, Stack, Range
<1>3. s.keys[TxLane(n)].base >= TxBase(n) /\ s.keys[RxLane(n)].base >= RxBase(n)
  BY BasesType DEF TxBase, RxBase
<1>4. CASE IsArp(f) BY <1>4, ArpStep
<1>5. CASE ~IsArp(f)
  <2>1. f \in RecordType /\ f \in Records(st[Peer(n)])
    BY <1>2, <1>5 DEF FrameType, IsArp, Records
  <2>2. HandleFrame(n, s, f) = HandleQtls(n, s, f) BY <1>5 DEF HandleFrame
  <2>3. CASE Matching(s, f) # {} /\ Opens(n, s, f) BY <1>5, <2>1, <2>3, MatchStep
  <2>4. CASE Creates(n, s, f) BY <1>5, <2>1, <2>4, CreateStep
  <2>5. CASE FreshHello(s, f) /\ Opens(n, s, f) /\ ~HasFree(s)
    <3>1. born' = born BY <2>5 DEF Receive, Creates
    <3>2. HandleQtls(n, s, f) = Burn(n, s, f) BY <2>5 DEF HandleQtls, FreshHello, Creates
    <3> DEFINE b == Burn(n, s, f)
    <3>3. /\ StackOK(b) /\ Alike(s, b) /\ Records(b) = Records(s)
          /\ b.keys[TxLane(n)] = s.keys[TxLane(n)]
          /\ b.keys[RxLane(n)].base = f.off + KeyCost(f.len)
      BY <1>1, <2>1, <2>5, BurnShape
    <3>4. f.off + KeyCost(f.len) >= RxBase(n)
      <4> HIDE DEF f
      <4>1. f.off \in Nat /\ KeyCost(f.len) \in Nat /\ RxBase(n) < f.off + KeyCost(f.len)
        BY <2>1, <2>5, BurnedKey
      <4> QED BY <4>1, BasesType
    <3>5. b = HandleFrame(n, s, f) BY <2>2, <3>2
    <3> HIDE DEF b
    <3> QED BY <1>3, <3>1, <3>3, <3>4, <3>5, CalmArrival DEF Alike
  <2>6. CASE /\ ~(Matching(s, f) # {} /\ Opens(n, s, f)) /\ ~Creates(n, s, f)
             /\ ~(FreshHello(s, f) /\ Opens(n, s, f) /\ ~HasFree(s))
    <3>1. born' = born BY <2>6 DEF Receive
    <3>2. HandleQtls(n, s, f) = s BY <2>6 DEF HandleQtls
    <3>3. s = HandleFrame(n, s, f) BY <2>2, <3>2
    <3> QED BY <1>1, <1>3, <3>1, <3>3, CalmArrival
  <2> QED BY <2>3, <2>4, <2>5, <2>6
<1> QED BY <1>4, <1>5

LEMMA StutterStep == ASSUME Types, UNCHANGED vars PROVE Step
<1>1. Types' BY DEF Types, vars
<1>2. \A n \in Node : TxBase(n)' = TxBase(n) /\ RxBase(n)' = RxBase(n) BY DEF TxBase, RxBase, vars
<1>3. Forward BY <1>2, BasesType DEF Forward, vars
<1>4. Calm
  <2>1. /\ \A m \in Node, j \in Slot : SameSession(st'[m].sess[j], st[m].sess[j])
        /\ OneMoves
    BY TablesAlike DEF vars
  <2> QED BY <2>1 DEF Calm, vars
<1> QED BY <1>1, <1>3, <1>4 DEF Step, Effect

LEMMA NextStep == ASSUME Types, [Next]_vars PROVE Step
<1>1. CASE L1Block BY <1>1, L1BlockStep
<1>2. ASSUME NEW n \in Node, App(n), vars' # vars PROVE Step
  <2>1. CASE \E p \in Ports : Listen(n, p) \/ Accept(n, p)
    <3>1. PICK p \in Ports : Listen(n, p) \/ Accept(n, p) BY <2>1
    <3>2. Listen(n, p) => st' # st BY <1>2 DEF Listen, vars
    <3> QED BY <3>1, <3>2, ListenStep, AcceptStep
  <2>2. CASE ConnectUnresolved(n) \/ \E p \in Ports : Connect(n, p)
    BY <2>2, ConnectUnresolvedStep, ConnectStep
  <2>3. CASE \E i \in Slot : Close(n, i) BY <2>3, CloseStep
  <2>4. CASE \E i \in Slot, len \in 1 .. MaxPayload : Recv(n, i, len) \/ Send(n, i, len)
    BY <1>2, <2>4, RecvStep, SendStep
  <2> QED BY <1>2, <2>1, <2>2, <2>3, <2>4 DEF App
<1>3. ASSUME NEW n \in Node, Network(n) PROVE Step
  <2>1. PICK k \in 1 .. NicSlots : Lose(n, k) \/ \E repeat \in BOOLEAN : Receive(n, k, repeat)
    BY <1>3 DEF Network
  <2> QED BY <2>1, LoseStep, ReceiveStep
<1>4. CASE UNCHANGED vars BY <1>4, StutterStep
<1> QED BY <1>1, <1>2, <1>3, <1>4 DEF Next

LEMMA InitTypes == ASSUME Init PROVE Types
<1>1. EmptyWindow \in Window BY CapacityAssumption DEF EmptyWindow, Window
<1>2. 1 \in Id \ {0} BY PortAssumption DEF Id
<1>3. <<>> \in Seq(FrameType) BY EmptySeq
<1>4. NewStack \in Stack /\ \A i \in Slot : NewStack.sess[i].state = "Free"
  BY <1>1, <1>2, <1>3, FreeType DEF NewStack, Stack
<1>5. StackOK(NewStack) BY <1>4 DEF StackOK, Used
<1>6. 0 \in 0 .. MaxDials /\ 0 \in 0 .. MaxMsgs BY BoundAssumption
<1> QED BY <1>5, <1>6 DEF Init, Types

(***************************************************************************)
(* Where sessions and records come from.                                   *)
(***************************************************************************)
SameName(x, y) == x.id = y.id /\ x.pport = y.pport /\ x.lport = y.lport /\ x.conn = y.conn

Names(f, x) == f.id = x.id /\ f.sport = x.lport /\ f.dport = x.pport /\ f.conn = x.conn

(* No new session, and no new record but what a session sends.             *)
Kept ==
    /\ \A n \in Node, i \in Slot : Used(st'[n], i) =>
           Used(st[n], i) /\ SameName(st'[n].sess[i], st[n].sess[i])
    /\ \A n \in Node : \A f \in Records(st'[n]) :
           \/ f \in Records(st[n])
           \/ f.ctype # "Hello" /\ \E i \in Slot : Used(st[n], i) /\ Names(f, st[n].sess[i])
    /\ born' = born

LEMMA AdvanceKeeps ==
    ASSUME NEW x \in Session, NEW f
    PROVE  SameName(Advance(x, f), x)
BY DEF Advance, Push, Session, SameName

LEMMA KeptOrNew ==
    ASSUME Types, Types', Effect
    PROVE  \/ Kept
           \/ \E n \in Node, i \in Slot, f \in RecordType :
                 Dialed(n, i, f) \/ \E g \in RecordType : Created(n, i, f, g)
<1>1. CASE Calm BY <1>1 DEF Calm, Kept, SameSession, SameName, Used
<1>2. ASSUME NEW n \in Node, NEW i \in Slot, Took(n, i) PROVE Kept
  <2>1. st[n].sess[i] \in Session BY DEF Types, StackOK, Stack
  <2>2. SameName(st'[n].sess[i], st[n].sess[i]) BY <1>2, <2>1 DEF Took, SameName, Session
  <2> QED BY <1>2, <2>2 DEF Took, OthersStay, Kept, SameName, Used
<1>3. ASSUME NEW n \in Node, NEW i \in Slot, NEW f \in RecordType, Sent(n, i, f) PROVE Kept
  <2>1. \A m \in Node : st'[m].sess = st[m].sess BY <1>3 DEF Sent, Types
  <2>2. \A m \in Node : \A g \in Records(st'[m]) : g \in Records(st[m]) \/ (m = n /\ g = f)
    BY <1>3 DEF Sent, MayAdd
  <2>3. f.ctype # "Hello" /\ Used(st[n], i) /\ Names(f, st[n].sess[i])
    BY <1>3 DEF Sent, Carries, Names
  <2>4. born' = born BY <1>3 DEF Sent
  <2> QED BY <2>1, <2>2, <2>3, <2>4 DEF Kept, SameName, Used
<1>4. ASSUME NEW n \in Node, NEW i \in Slot, NEW f \in RecordType, Told(n, i, f) PROVE Kept
  <2>1. \A m \in Node, j \in Slot : Used(st'[m], j) => st'[m].sess[j] = st[m].sess[j]
    BY <1>4 DEF Told, OthersStay, Used
  <2>2. \A m \in Node : \A g \in Records(st'[m]) : g \in Records(st[m]) \/ (m = n /\ g = f)
    BY <1>4 DEF Told, MayAdd
  <2>3. f.ctype # "Hello" /\ Used(st[n], i) /\ Names(f, st[n].sess[i])
    BY <1>4 DEF Told, Carries, Names
  <2>4. born' = born BY <1>4 DEF Told
  <2> QED BY <2>1, <2>2, <2>3, <2>4 DEF Kept, SameName, Used
<1>5. ASSUME NEW n \in Node, NEW i \in Slot, NEW f \in RecordType, Advanced(n, i, f) PROVE Kept
  <2>1. st[n].sess[i] \in Session BY DEF Types, StackOK, Stack
  <2>2. SameName(st'[n].sess[i], st[n].sess[i]) BY <1>5, <2>1, AdvanceKeeps DEF Advanced
  <2>3. Used(st[n], i) BY <1>5 DEF Advanced, Matching, Used
  <2> QED BY <1>5, <2>2, <2>3 DEF Advanced, OthersStay, Kept, SameName, Used
<1> QED BY <1>1, <1>2, <1>3, <1>4, <1>5 DEF Effect

(***************************************************************************)
(* A Hello creates one session.                                            *)
(***************************************************************************)

(* Connections are counted before they are used, all copies of a Hello     *)
(* carry the same key, and the server has burned that key once it has a    *)
(* session for the Hello.                                                  *)
HelloInv ==
    /\ \A n \in Node, f \in RecordType : f \in Records(st[n]) => f.conn <= dials
    /\ \A n \in Node, i \in Slot : Used(st[n], i) => st[n].sess[i].conn <= dials
    /\ \A c \in Conn : born[c] > 0 => c <= dials
    /\ \A n, m \in Node, f, g \in RecordType :
           /\ f \in Records(st[n]) /\ f.ctype = "Hello"
           /\ g \in Records(st[m]) /\ g.ctype = "Hello" /\ f.conn = g.conn
           => n = m /\ f.off = g.off
    /\ \A n \in Node, f \in RecordType :
           f \in Records(st[n]) /\ f.ctype = "Hello" /\ born[f.conn] > 0 => f.off < RxBase(Peer(n))
    /\ OneSessionPerHello

LEMMA AreRecords ==
    ASSUME Types, NEW n \in Node, NEW f \in Records(st[n])
    PROVE  f \in RecordType /\ f.conn \in Conn /\ f.off \in Nat
<1>1. f \in RecordType BY RecordsType DEF Types
<1> QED BY <1>1 DEF RecordType

(* The Hello that creates a session has not created one before.            *)
LEMMA FirstTime ==
    ASSUME Types, HelloInv, NEW n \in Node, NEW f \in RecordType, Burned(n, f), f.ctype = "Hello"
    PROVE  born[f.conn] = 0 /\ f.conn \in Conn
<1>1. f \in Records(st[Peer(n)]) /\ RxBase(n) <= f.off BY DEF Burned
<1>2. Peer(n) \in Node /\ Peer(Peer(n)) = n BY NodePair
<1>3. f.conn \in Conn /\ f.off \in Nat BY DEF RecordType
<1>4. born[f.conn] \in Nat BY <1>3 DEF Types
<1>5. ~(born[f.conn] > 0) BY <1>1, <1>2, <1>3, BasesType DEF HelloInv
<1> QED BY <1>3, <1>4, <1>5

LEMMA HelloStep ==
    ASSUME Types, Types', Forward, Effect, HelloInv
    PROVE  HelloInv'
<1>1. dials \in Nat /\ dials' \in Nat /\ dials' >= dials BY BoundAssumption DEF Types, Forward
<1>2. \A n \in Node : RxBase(n) \in Nat /\ RxBase(n)' \in Nat /\ RxBase(n)' >= RxBase(n)
  <2>1. \A n \in Node : RxBase(n) \in Nat BY BasesType
  <2>2. \A n \in Node : RxBase(n)' \in Nat
    <3>1. \A n \in Node : StackOK(st'[n]) /\ RxLane(n) \in Lane BY NodePair DEF Types
    <3> QED BY <3>1, BaseType DEF RxBase
  <2> QED BY <2>1, <2>2 DEF Forward
<1>3. \A n \in Node, i \in Slot : Used(st[n], i) => st[n].sess[i].conn \in Conn
  BY DEF Types, StackOK
<1>4. \A f \in RecordType : f.conn \in Conn /\ f.off \in Nat BY DEF RecordType
<1>5. CASE Kept
  <2>1. \A n \in Node, f \in RecordType : f \in Records(st'[n]) => f.conn <= dials'
    <3> SUFFICES ASSUME NEW n \in Node, NEW f \in RecordType, f \in Records(st'[n])
                 PROVE  f.conn <= dials'
      OBVIOUS
    <3>1. f.conn <= dials BY <1>5 DEF Kept, HelloInv, Names
    <3> QED BY <1>1, <1>4, <3>1 DEF Conn
  <2>2. \A n \in Node, i \in Slot : Used(st'[n], i) => st'[n].sess[i].conn <= dials'
    <3> SUFFICES ASSUME NEW n \in Node, NEW i \in Slot, Used(st'[n], i)
                 PROVE  st'[n].sess[i].conn <= dials'
      OBVIOUS
    <3>1. Used(st[n], i) /\ st'[n].sess[i].conn = st[n].sess[i].conn BY <1>5 DEF Kept, SameName
    <3>2. st[n].sess[i].conn \in Conn /\ st[n].sess[i].conn <= dials BY <1>3, <3>1 DEF HelloInv
    <3> QED BY <1>1, <3>1, <3>2 DEF Conn
  <2>3. \A c \in Conn : born'[c] > 0 => c <= dials'
    BY <1>1, <1>5 DEF Kept, HelloInv, Conn
  <2>4. \A n \in Node, f \in RecordType :
           f \in Records(st'[n]) /\ f.ctype = "Hello" => f \in Records(st[n])
    BY <1>5 DEF Kept
  <2>5. \A n \in Node, f \in RecordType :
           f \in Records(st'[n]) /\ f.ctype = "Hello" /\ born'[f.conn] > 0
           => f.off < RxBase(Peer(n))'
    <3> SUFFICES ASSUME NEW n \in Node, NEW f \in RecordType, f \in Records(st'[n]),
                        f.ctype = "Hello", born'[f.conn] > 0
                 PROVE  f.off < RxBase(Peer(n))'
      OBVIOUS
    <3>1. f.off < RxBase(Peer(n)) BY <1>5, <2>4 DEF Kept, HelloInv
    <3>2. Peer(n) \in Node BY NodePair
    <3> QED BY <1>2, <1>4, <3>1, <3>2
  <2>6. OneSessionPerHello' BY <1>5 DEF Kept, HelloInv, OneSessionPerHello
  <2> QED BY <2>1, <2>2, <2>3, <2>4, <2>5, <2>6 DEF HelloInv
<1>6. ASSUME NEW n \in Node, NEW i \in Slot, NEW f \in RecordType, Dialed(n, i, f)
      PROVE  HelloInv'
  <2>1. f.conn = dials + 1 /\ dials' = dials + 1 /\ born' = born /\ f.ctype = "Hello"
        /\ st'[n].sess[i].conn = dials + 1
    BY <1>6 DEF Dialed, Carries
  <2>2. \A m \in Node, g \in RecordType :
           g \in Records(st'[m]) => g \in Records(st[m]) \/ (m = n /\ g = f)
    BY <1>6 DEF Dialed, MayAdd
  <2>3. \A m \in Node, g \in RecordType : g \in Records(st'[m]) => g.conn <= dials'
    <3> SUFFICES ASSUME NEW m \in Node, NEW g \in RecordType, g \in Records(st'[m])
                 PROVE  g.conn <= dials'
      OBVIOUS
    <3>1. g.conn \in Nat BY <1>4 DEF Conn
    <3>2. g = f \/ g.conn <= dials BY <2>2 DEF HelloInv
    <3> QED BY <1>1, <2>1, <3>1, <3>2
  <2>4. \A m \in Node, j \in Slot : Used(st'[m], j) => st'[m].sess[j].conn <= dials'
    <3> SUFFICES ASSUME NEW m \in Node, NEW j \in Slot, Used(st'[m], j)
                 PROVE  st'[m].sess[j].conn <= dials'
      OBVIOUS
    <3>1. CASE m = n /\ j = i BY <1>1, <2>1, <3>1
    <3>2. CASE ~(m = n /\ j = i)
      <4>1. st'[m].sess[j] = st[m].sess[j] BY <1>6, <3>2 DEF Dialed, OthersStay
      <4>2. st[m].sess[j].conn <= dials /\ st[m].sess[j].conn \in Nat
        BY <1>3, <4>1 DEF HelloInv, Used, Conn
      <4> QED BY <1>1, <4>1, <4>2
    <3> QED BY <3>1, <3>2
  <2>5. \A c \in Conn : born'[c] > 0 => c <= dials'
    BY <1>1, <2>1 DEF HelloInv, Conn
  <2>6. \A m \in Node, g \in RecordType : g \in Records(st[m]) => g.conn # dials + 1
    <3> SUFFICES ASSUME NEW m \in Node, NEW g \in RecordType, g \in Records(st[m])
                 PROVE  g.conn # dials + 1
      OBVIOUS
    <3>1. g.conn <= dials /\ g.conn \in Nat BY <1>4 DEF HelloInv, Conn
    <3> QED BY <1>1, <3>1
  <2>7. \A m, k \in Node, g, h \in RecordType :
           /\ g \in Records(st'[m]) /\ g.ctype = "Hello"
           /\ h \in Records(st'[k]) /\ h.ctype = "Hello" /\ g.conn = h.conn
           => m = k /\ g.off = h.off
    <3> SUFFICES ASSUME NEW m \in Node, NEW k \in Node, NEW g \in RecordType, NEW h \in RecordType,
                        g \in Records(st'[m]), g.ctype = "Hello",
                        h \in Records(st'[k]), h.ctype = "Hello", g.conn = h.conn
                 PROVE  m = k /\ g.off = h.off
      OBVIOUS
    <3>1. CASE g.conn = dials + 1 BY <2>2, <2>6, <3>1
    <3>2. CASE g.conn # dials + 1
      <4>1. g \in Records(st[m]) /\ h \in Records(st[k]) BY <2>1, <2>2, <3>2
      <4> QED BY <4>1 DEF HelloInv
    <3> QED BY <3>1, <3>2
  <2>8. \A m \in Node, g \in RecordType :
           g \in Records(st'[m]) /\ g.ctype = "Hello" /\ born'[g.conn] > 0
           => g.off < RxBase(Peer(m))'
    <3> SUFFICES ASSUME NEW m \in Node, NEW g \in RecordType, g \in Records(st'[m]),
                        g.ctype = "Hello", born'[g.conn] > 0
                 PROVE  g.off < RxBase(Peer(m))'
      OBVIOUS
    <3>1. g.conn <= dials /\ g.conn \in Nat BY <1>4, <2>1 DEF HelloInv, Conn
    <3>2. g \in Records(st[m]) BY <1>1, <2>1, <2>2, <3>1
    <3>3. g.off < RxBase(Peer(m)) BY <2>1, <3>2 DEF HelloInv
    <3>4. Peer(m) \in Node BY NodePair
    <3> QED BY <1>2, <1>4, <3>3, <3>4
  <2>9. OneSessionPerHello' BY <2>1 DEF HelloInv, OneSessionPerHello
  <2> QED BY <2>3, <2>4, <2>5, <2>7, <2>8, <2>9 DEF HelloInv
<1>7. ASSUME NEW n \in Node, NEW i \in Slot, NEW f \in RecordType, NEW g \in RecordType,
             Created(n, i, f, g)
      PROVE  HelloInv'
  <2>1. /\ f \in Records(st[Peer(n)]) /\ f.ctype = "Hello" /\ g.conn = f.conn /\ g.ctype = "HelloAck"
        /\ st'[n].sess[i].conn = f.conn /\ born' = [born EXCEPT ![f.conn] = @ + 1]
        /\ RxBase(n)' = f.off + KeyCost(f.len)
    BY <1>7 DEF Created, Burned, FreshHello, Carries
  <2>2. born[f.conn] = 0 /\ f.conn \in Conn BY <1>7, <2>1, FirstTime DEF Created
  <2>3. Peer(n) \in Node /\ Peer(Peer(n)) = n BY NodePair
  <2>4. f.conn <= dials BY <2>1, <2>3 DEF HelloInv
  <2>5. \A m \in Node, h \in RecordType :
           h \in Records(st'[m]) => h \in Records(st[m]) \/ (m = n /\ h = g)
    BY <1>7 DEF Created, MayAdd
  <2>6. \A m \in Node, h \in RecordType : h \in Records(st'[m]) => h.conn <= dials'
    <3> SUFFICES ASSUME NEW m \in Node, NEW h \in RecordType, h \in Records(st'[m])
                 PROVE  h.conn <= dials'
      OBVIOUS
    <3>1. h.conn \in Nat BY <1>4 DEF Conn
    <3>2. h.conn <= dials BY <2>1, <2>4, <2>5 DEF HelloInv
    <3> QED BY <1>1, <3>1, <3>2
  <2>7. \A m \in Node, j \in Slot : Used(st'[m], j) => st'[m].sess[j].conn <= dials'
    <3> SUFFICES ASSUME NEW m \in Node, NEW j \in Slot, Used(st'[m], j)
                 PROVE  st'[m].sess[j].conn <= dials'
      OBVIOUS
    <3>1. CASE m = n /\ j = i BY <1>1, <2>1, <2>2, <2>4, <3>1 DEF Conn
    <3>2. CASE ~(m = n /\ j = i)
      <4>1. st'[m].sess[j] = st[m].sess[j] BY <1>7, <3>2 DEF Created, OthersStay
      <4>2. st[m].sess[j].conn <= dials /\ st[m].sess[j].conn \in Nat
        BY <1>3, <4>1 DEF HelloInv, Used, Conn
      <4> QED BY <1>1, <4>1, <4>2
    <3> QED BY <3>1, <3>2
  <2>8. /\ born'[f.conn] = 1 /\ \A c \in Conn : c # f.conn => born'[c] = born[c]
    BY <2>1, <2>2 DEF Types
  <2>9. \A c \in Conn : born'[c] > 0 => c <= dials'
    <3> SUFFICES ASSUME NEW c \in Conn, born'[c] > 0 PROVE c <= dials'
      OBVIOUS
    <3>1. c <= dials BY <2>4, <2>8 DEF HelloInv
    <3> QED BY <1>1, <3>1 DEF Conn
  <2>10. \A m \in Node, h \in RecordType :
           h \in Records(st'[m]) /\ h.ctype = "Hello" => h \in Records(st[m])
    BY <2>1, <2>5
  <2>11. \A m \in Node, h \in RecordType :
           h \in Records(st'[m]) /\ h.ctype = "Hello" /\ born'[h.conn] > 0
           => h.off < RxBase(Peer(m))'
    <3> SUFFICES ASSUME NEW m \in Node, NEW h \in RecordType, h \in Records(st'[m]),
                        h.ctype = "Hello", born'[h.conn] > 0
                 PROVE  h.off < RxBase(Peer(m))'
      OBVIOUS
    <3>1. h \in Records(st[m]) BY <2>10
    <3>2. CASE h.conn = f.conn
      <4>1. m = Peer(n) /\ h.off = f.off BY <2>1, <2>3, <3>1, <3>2 DEF HelloInv
      <4>2. f.off \in Nat /\ KeyCost(f.len) \in Nat /\ KeyCost(f.len) > 0
        <5>1. f.len \in 0 .. MaxPayload BY DEF RecordType
        <5> QED BY <1>4, <5>1, CostType
      <4> QED BY <2>1, <2>3, <4>1, <4>2
    <3>3. CASE h.conn # f.conn
      <4>1. h.off < RxBase(Peer(m)) BY <1>4, <2>8, <3>1, <3>3 DEF HelloInv
      <4>2. Peer(m) \in Node BY NodePair
      <4> QED BY <1>2, <1>4, <4>1, <4>2
    <3> QED BY <3>2, <3>3
  <2>12. OneSessionPerHello' BY <2>8 DEF HelloInv, OneSessionPerHello
  <2> QED BY <2>6, <2>7, <2>9, <2>10, <2>11, <2>12 DEF HelloInv
<1> QED BY <1>5, <1>6, <1>7, KeptOrNew

LEMMA InitEmpty ==
    ASSUME Init, NEW n \in Node
    PROVE  Records(st[n]) = {} /\ \A i \in Slot : ~Used(st[n], i)
<1>1. <<>> \in Seq(FrameType) /\ DOMAIN <<>> = {} BY EmptySeq, LenProperties
<1> QED BY <1>1 DEF Init, NewStack, FreeSession, Used, Records, Range

LEMMA InitHello == ASSUME Init PROVE HelloInv
<1>1. \A n \in Node : Records(st[n]) = {} BY InitEmpty
<1>2. \A n \in Node, i \in Slot : ~Used(st[n], i) BY InitEmpty
<1>3. \A c \in Conn : born[c] = 0 BY DEF Init
<1> QED BY <1>1, <1>2, <1>3 DEF HelloInv, OneSessionPerHello

(* The server creates a session for the Hello of a connection at most      *)
(* once, whatever the network repeats and reorders and whenever the        *)
(* session is closed: handle_qtls burns the key the Hello was sealed with  *)
(* before it creates the session.                                          *)
THEOREM OneSession == Spec => []OneSessionPerHello
<1> DEFINE I == Types /\ HelloInv
<1>1. Init => I BY InitTypes, InitHello
<1>2. I /\ [Next]_vars => I'
  <2> SUFFICES ASSUME I, [Next]_vars PROVE I'
    OBVIOUS
  <2>1. Types' /\ Forward /\ Effect BY NextStep DEF Step
  <2> QED BY <2>1, HelloStep
<1>3. I => OneSessionPerHello BY DEF HelloInv
<1> QED BY <1>1, <1>2, <1>3, PTL DEF Spec

(***************************************************************************)
(* Identities.  These hold while no node comes round to a session id again *)
(* and applications keep off the ephemeral ports.                          *)
(***************************************************************************)
NoIdWraps == MaxDials + 1 < IdSpace
PortsApart == \A id \in Id : LocalPort(id) \notin Ports

(* A connection: who dialled, with which id, from and to which port.       *)
Identity == [dialer : Node, id : Id, client : Port, server : Port]

IdentityOf(n, id, lport, pport) ==
    IF lport \in Ports
    THEN [dialer |-> Peer(n), id |-> id, client |-> pport, server |-> lport]
    ELSE [dialer |-> n, id |-> id, client |-> lport, server |-> pport]

(* T gives each connection its identity, and no two connections the same.  *)
IdentityMap(D, T) ==
    /\ \A c \in D : c <= dials
    /\ \A c \in D : /\ T[c].id < st[T[c].dialer].next
                    /\ T[c].client \notin Ports /\ T[c].server \in Ports
    /\ \A c, d \in D : T[c].dialer = T[d].dialer /\ T[c].id = T[d].id => c = d
    /\ \A n \in Node, i \in Slot : Used(st[n], i) =>
           LET x == st[n].sess[i]
           IN  x.conn \in D /\ T[x.conn] = IdentityOf(n, x.id, x.lport, x.pport)
    /\ \A n \in Node, f \in RecordType : f \in Records(st[n]) =>
           f.conn \in D /\ T[f.conn] = IdentityOf(n, f.id, f.sport, f.dport)

(* Ids grow with the connections tried, each session and record bears the  *)
(* identity of its connection, and a node has one session for it at most.  *)
TagInv ==
    /\ \A n \in Node : st[n].next <= dials + 1
    /\ \E D \in SUBSET Conn, T \in [Conn -> Identity] : IdentityMap(D, T)
    /\ \A n \in Node, i, j \in Slot :
          Used(st[n], i) /\ Used(st[n], j) /\ st[n].sess[i].conn = st[n].sess[j].conn => i = j

(* A record belongs to the connection of the session it names.             *)
LEMMA RightConnection ==
    ASSUME Types, TagInv, NEW n \in Node, NEW i \in Slot, Used(st[n], i),
           NEW f \in RecordType, f \in Records(st[Peer(n)]),
           st[n].sess[i].pport = f.sport, st[n].sess[i].lport = f.dport, st[n].sess[i].id = f.id
    PROVE  f.conn = st[n].sess[i].conn /\ (f.sport \in Ports <=> f.dport \notin Ports)
<1> DEFINE x == st[n].sess[i]
<1>1. PICK D \in SUBSET Conn, T \in [Conn -> Identity] : IdentityMap(D, T) BY DEF TagInv
<1>2. Peer(n) \in Node /\ Peer(n) # n /\ Peer(Peer(n)) = n BY NodePair
<1>3. x.conn \in D /\ T[x.conn] = IdentityOf(n, f.id, f.dport, f.sport) BY <1>1 DEF IdentityMap
<1>4. f.conn \in D /\ T[f.conn] = IdentityOf(Peer(n), f.id, f.sport, f.dport)
  BY <1>1, <1>2 DEF IdentityMap
<1>5. T[x.conn].client \notin Ports /\ T[x.conn].server \in Ports
      /\ T[f.conn].client \notin Ports /\ T[f.conn].server \in Ports
  BY <1>1, <1>3, <1>4 DEF IdentityMap
<1>6. CASE f.dport \in Ports
  <2>1. f.sport \notin Ports /\ T[x.conn].dialer = Peer(n) /\ T[x.conn].id = f.id
    BY <1>3, <1>5, <1>6 DEF IdentityOf
  <2>2. T[f.conn].dialer = Peer(n) /\ T[f.conn].id = f.id BY <1>4, <2>1 DEF IdentityOf
  <2> QED BY <1>1, <1>3, <1>4, <1>6, <2>1, <2>2 DEF IdentityMap
<1>7. CASE f.dport \notin Ports
  <2>1. f.sport \in Ports /\ T[x.conn].dialer = n /\ T[x.conn].id = f.id
    BY <1>3, <1>5, <1>7 DEF IdentityOf
  <2>2. T[f.conn].dialer = n /\ T[f.conn].id = f.id BY <1>2, <1>4, <2>1 DEF IdentityOf
  <2> QED BY <1>1, <1>3, <1>4, <1>7, <2>1, <2>2 DEF IdentityMap
<1> QED BY <1>6, <1>7

(* A session for a connection that a record of the node itself is on, or   *)
(* of the peer: the same end, or the other one.                            *)
LEMMA RightEnd ==
    ASSUME Types, TagInv, NEW n \in Node, NEW i \in Slot, Used(st[n], i),
           NEW f \in RecordType, f.conn = st[n].sess[i].conn
    PROVE  LET x == st[n].sess[i]
           IN  /\ f \in Records(st[n]) => x.id = f.id /\ x.lport = f.sport /\ x.pport = f.dport
               /\ f \in Records(st[Peer(n)]) => x.id = f.id /\ x.lport = f.dport /\ x.pport = f.sport
<1> DEFINE x == st[n].sess[i]
<1>1. PICK D \in SUBSET Conn, T \in [Conn -> Identity] : IdentityMap(D, T) BY DEF TagInv
<1>2. Peer(n) \in Node /\ Peer(n) # n /\ Peer(Peer(n)) = n BY NodePair
<1>3. x.conn \in D /\ T[x.conn] = IdentityOf(n, x.id, x.lport, x.pport) BY <1>1 DEF IdentityMap
<1>4. T[x.conn].client \notin Ports /\ T[x.conn].server \in Ports BY <1>1, <1>3 DEF IdentityMap
<1>5. ASSUME f \in Records(st[n])
      PROVE  x.id = f.id /\ x.lport = f.sport /\ x.pport = f.dport
  <2>1. T[f.conn] = IdentityOf(n, f.id, f.sport, f.dport) BY <1>1, <1>5 DEF IdentityMap
  <2>2. IdentityOf(n, x.id, x.lport, x.pport) = IdentityOf(n, f.id, f.sport, f.dport)
    BY <1>3, <2>1
  <2> QED BY <1>2, <2>2 DEF IdentityOf
<1>6. ASSUME f \in Records(st[Peer(n)])
      PROVE  x.id = f.id /\ x.lport = f.dport /\ x.pport = f.sport
  <2>1. T[f.conn] = IdentityOf(Peer(n), f.id, f.sport, f.dport) BY <1>1, <1>2, <1>6 DEF IdentityMap
  <2>2. IdentityOf(n, x.id, x.lport, x.pport) = IdentityOf(Peer(n), f.id, f.sport, f.dport)
    BY <1>3, <2>1
  <2> QED BY <1>2, <2>2 DEF IdentityOf
<1> QED BY <1>5, <1>6

(* The same for the two ends of a connection.                              *)
LEMMA OtherEnd ==
    ASSUME Types, TagInv, NEW n \in Node, NEW i \in Slot, Used(st[n], i),
           NEW j \in Slot, Used(st[Peer(n)], j),
           st[Peer(n)].sess[j].conn = st[n].sess[i].conn
    PROVE  LET x == st[n].sess[i]
               y == st[Peer(n)].sess[j]
           IN  /\ y.id = x.id /\ y.lport = x.pport /\ y.pport = x.lport
               /\ x.lport \in Ports <=> y.lport \notin Ports
<1> DEFINE x == st[n].sess[i]
           y == st[Peer(n)].sess[j]
<1>1. PICK D \in SUBSET Conn, T \in [Conn -> Identity] : IdentityMap(D, T) BY DEF TagInv
<1>2. Peer(n) \in Node /\ Peer(n) # n /\ Peer(Peer(n)) = n BY NodePair
<1>3. /\ x.conn \in D /\ T[x.conn] = IdentityOf(n, x.id, x.lport, x.pport)
      /\ T[x.conn] = IdentityOf(Peer(n), y.id, y.lport, y.pport)
  BY <1>1, <1>2 DEF IdentityMap
<1>4. IdentityOf(n, x.id, x.lport, x.pport) = IdentityOf(Peer(n), y.id, y.lport, y.pport) BY <1>3
<1>5. T[x.conn].client \notin Ports /\ T[x.conn].server \in Ports BY <1>1, <1>3 DEF IdentityMap
<1> QED BY <1>2, <1>3, <1>4, <1>5 DEF IdentityOf

(* A Hello on its way comes from a client, to a listening port.            *)
LEMMA HelloIsNew ==
    ASSUME Types, TagInv, NEW n \in Node, NEW f \in RecordType, f \in Records(st[Peer(n)]),
           FreshHello(st[n], f)
    PROVE  /\ f.sport \notin Ports /\ f.dport \in Ports
           /\ \A i \in Slot : Used(st[n], i) => st[n].sess[i].conn # f.conn
<1>1. PICK D \in SUBSET Conn, T \in [Conn -> Identity] : IdentityMap(D, T) BY DEF TagInv
<1>2. Peer(n) \in Node /\ Peer(n) # n /\ Peer(Peer(n)) = n BY NodePair
<1>3. f.dport \in Ports BY DEF FreshHello, Types, StackOK, Stack
<1>4. f.conn \in D /\ T[f.conn] = IdentityOf(Peer(n), f.id, f.sport, f.dport)
      /\ T[f.conn].client \notin Ports /\ T[f.conn].server \in Ports
  BY <1>1, <1>2 DEF IdentityMap
<1>5. f.sport \notin Ports BY <1>3, <1>4 DEF IdentityOf
<1>6. ASSUME NEW i \in Slot, Used(st[n], i), st[n].sess[i].conn = f.conn PROVE FALSE
  <2>1. st[n].sess[i].id = f.id /\ st[n].sess[i].lport = f.dport /\ st[n].sess[i].pport = f.sport
    BY <1>6, RightEnd
  <2>2. i \in Matching(st[n], f) BY <1>6, <2>1 DEF Matching, Used
  <2> QED BY <2>2 DEF FreshHello
<1> QED BY <1>3, <1>5, <1>6

LEMMA IdsGrow ==
    ASSUME NoIdWraps, Types, Types', Forward, TagInv, NEW n \in Node
    PROVE  /\ st[n].next \in Nat /\ st'[n].next \in Nat
           /\ st'[n].next >= st[n].next /\ st'[n].next <= dials' + 1
           /\ NextId(st[n].next) = st[n].next + 1 \/ dials = MaxDials
<1>1. st[n].next \in Id /\ st[n].next \in Nat BY PortAssumption DEF Types, StackOK, Stack, Id
<1>2. st[n].next <= dials + 1 /\ dials \in Nat /\ MaxDials \in Nat /\ dials <= MaxDials /\ IdSpace \in Nat
  BY BoundAssumption, PortAssumption DEF TagInv, Types
<1>3. dials < MaxDials => NextId(st[n].next) = st[n].next + 1
  <2> SUFFICES ASSUME dials < MaxDials PROVE NextId(st[n].next) = st[n].next + 1
    OBVIOUS
  <2>1. st[n].next + 1 < IdSpace BY <1>1, <1>2 DEF NoIdWraps
  <2> QED BY <1>1, <2>1, NextIdType
<1>4. \/ dials' = dials /\ st'[n].next = st[n].next
      \/ dials < MaxDials /\ dials' = dials + 1 /\ st'[n].next \in {st[n].next, NextId(st[n].next)}
  BY DEF Forward
<1> QED BY <1>1, <1>2, <1>3, <1>4

LEMMA NewIdentity ==
    ASSUME NoIdWraps, PortsApart, Types, Types', Forward, HelloInv, TagInv,
           NEW n \in Node, NEW i \in Slot, NEW f \in RecordType, Dialed(n, i, f)
    PROVE  TagInv'
<1>0. dials + 1 \in Conn /\ st'[n].sess[i] \in Session
  <2>1. dials \in Nat /\ dials' \in 0 .. MaxDials /\ dials' = dials + 1 BY DEF Types, Dialed
  <2> QED BY <2>1, BoundAssumption DEF Conn, Types, StackOK, Stack
<1> PICK c \in Conn, x \in Session : c = dials + 1 /\ x = st'[n].sess[i] BY <1>0
<1> DEFINE ident == IdentityOf(n, x.id, x.lport, x.pport)
<1>1. PICK D \in SUBSET Conn, T \in [Conn -> Identity] : IdentityMap(D, T) BY DEF TagInv
<1>2. /\ dials' = c /\ st'[n].next = NextId(st[n].next)
      /\ x.state = "HelloSent" /\ x.id = st[n].next /\ x.lport = LocalPort(x.id)
      /\ x.pport \in Ports /\ x.conn = c /\ Names(f, x)
  BY DEF Dialed, Carries, Names
<1>3. dials \in Nat /\ dials' \in 0 .. MaxDials BY DEF Types
<1>4. \A m \in Node : /\ st[m].next \in Nat /\ st'[m].next \in Nat /\ st[m].next <= st'[m].next
                      /\ st'[m].next <= dials' + 1
  BY IdsGrow
<1>5. st'[n].next = st[n].next + 1
  <2>1. dials # MaxDials BY <1>2, <1>3, BoundAssumption
  <2> QED BY <1>2, <2>1, IdsGrow
<1>6. x.id \in Id /\ x.lport \in Port /\ x.pport \in Port
  BY DEF Session
<1>7. x.lport \notin Ports BY <1>2, <1>6 DEF PortsApart
<1>8. ident = [dialer |-> n, id |-> x.id, client |-> x.lport, server |-> x.pport] /\ ident \in Identity
  BY <1>6, <1>7 DEF IdentityOf, Identity
<1> DEFINE D2 == D \cup {c}
           T2 == [T EXCEPT ![c] = ident]
<1>9. /\ D2 \in SUBSET Conn /\ T2 \in [Conn -> Identity] /\ c \notin D
      /\ T2[c] = ident /\ \A d \in D : T2[d] = T[d]
  <2>1. c \notin D BY <1>1, <1>3 DEF IdentityMap
  <2>2. DOMAIN T = Conn OBVIOUS
  <2> HIDE DEF ident
  <2> QED BY <1>3, <1>8, <2>1, <2>2
<1> HIDE DEF T2, D2, ident
<1>10. \A d \in D2 : d \in D \/ d = c BY DEF D2
<1>11. \A d \in D2 : d <= dials'
  <2> SUFFICES ASSUME NEW d \in D2 PROVE d <= dials'
    OBVIOUS
  <2>1. CASE d = c BY <1>2, <1>3, <2>1
  <2>2. CASE d \in D
    <3>1. d <= dials BY <1>1, <2>2 DEF IdentityMap
    <3>2. d \in Nat
      <4>1. d \in Conn BY <2>2
      <4> QED BY <4>1, BoundAssumption DEF Conn
    <3> QED BY <1>2, <1>3, <3>1, <3>2
  <2> QED BY <1>10, <2>1, <2>2
<1>12. ident.dialer = n /\ ident.id = st[n].next /\ ident.client \notin Ports /\ ident.server \in Ports
  BY <1>2, <1>7, <1>8
<1>13. ASSUME NEW d \in D
       PROVE  /\ T[d].dialer \in Node /\ T[d].id \in Nat /\ T[d].id < st[T[d].dialer].next
              /\ T[d].client \notin Ports /\ T[d].server \in Ports
  <2>1. d \in Conn /\ T[d] \in Identity OBVIOUS
  <2>2. T[d].dialer \in Node /\ T[d].id \in Nat BY <2>1, PortAssumption DEF Identity, Id
  <2> QED BY <1>1, <2>2 DEF IdentityMap
<1>14. \A d \in D2 : /\ T2[d].id < st'[T2[d].dialer].next
                     /\ T2[d].client \notin Ports /\ T2[d].server \in Ports
  <2> SUFFICES ASSUME NEW d \in D2
               PROVE  /\ T2[d].id < st'[T2[d].dialer].next
                      /\ T2[d].client \notin Ports /\ T2[d].server \in Ports
    OBVIOUS
  <2>1. CASE d = c BY <1>4, <1>5, <1>9, <1>12, <2>1
  <2>2. CASE d \in D
    <3>1. T2[d] = T[d] BY <1>9, <2>2
    <3>2. T[d].id \in Nat /\ T[d].dialer \in Node /\ T[d].id < st[T[d].dialer].next BY <1>13, <2>2
    <3>3. T[d].id < st'[T[d].dialer].next BY <1>4, <3>2
    <3> QED BY <1>13, <2>2, <3>1, <3>3
  <2> QED BY <1>10, <2>1, <2>2
<1>15. \A d, e \in D2 : T2[d].dialer = T2[e].dialer /\ T2[d].id = T2[e].id => d = e
  <2>1. \A d \in D : ~(T[d].dialer = n /\ T[d].id = st[n].next)
    <3> SUFFICES ASSUME NEW d \in D, T[d].dialer = n, T[d].id = st[n].next PROVE FALSE
      OBVIOUS
    <3>1. T[d].id < st[n].next /\ T[d].id \in Nat BY <1>13
    <3> QED BY <1>4, <3>1
  <2>2. \A d, e \in D : T[d].dialer = T[e].dialer /\ T[d].id = T[e].id => d = e
    BY <1>1 DEF IdentityMap
  <2> QED BY <1>9, <1>10, <1>12, <2>1, <2>2
<1>16. ASSUME NEW m \in Node, NEW j \in Slot, Used(st'[m], j)
       PROVE  LET y == st'[m].sess[j]
              IN  y.conn \in D2 /\ T2[y.conn] = IdentityOf(m, y.id, y.lport, y.pport)
  <2>1. CASE m = n /\ j = i
    <3>1. c \in D2 BY DEF D2
    <3> QED BY <1>2, <1>9, <2>1, <3>1 DEF ident
  <2>2. CASE ~(m = n /\ j = i)
    <3>1. st'[m].sess[j] = st[m].sess[j] BY <2>2 DEF Dialed, OthersStay
    <3> DEFINE y == st[m].sess[j]
    <3>2. y.conn \in D /\ T[y.conn] = IdentityOf(m, y.id, y.lport, y.pport)
      BY <1>1, <1>16, <3>1 DEF IdentityMap, Used
    <3>3. y.conn \in D2 BY <3>2 DEF D2
    <3> QED BY <1>9, <3>1, <3>2, <3>3
  <2> QED BY <2>1, <2>2
<1>17. ASSUME NEW m \in Node, NEW g \in RecordType, g \in Records(st'[m])
       PROVE  g.conn \in D2 /\ T2[g.conn] = IdentityOf(m, g.id, g.sport, g.dport)
  <2>1. g \in Records(st[m]) \/ (m = n /\ g = f) BY <1>17 DEF Dialed, MayAdd
  <2>2. CASE m = n /\ g = f
    <3>1. c \in D2 BY DEF D2
    <3>2. g.conn = c /\ IdentityOf(m, g.id, g.sport, g.dport) = ident BY <1>2, <2>2 DEF Names, ident
    <3> QED BY <1>9, <3>1, <3>2
  <2>3. CASE g \in Records(st[m])
    <3>1. g.conn \in D /\ T[g.conn] = IdentityOf(m, g.id, g.sport, g.dport)
      BY <1>1, <2>3 DEF IdentityMap
    <3> QED BY <1>9, <3>1 DEF D2
  <2> QED BY <2>1, <2>2, <2>3
<1>18. IdentityMap(D2, T2)' BY <1>11, <1>14, <1>15, <1>16, <1>17 DEF IdentityMap
<1>19. ASSUME NEW m \in Node, NEW j \in Slot, NEW k \in Slot, Used(st'[m], j), Used(st'[m], k),
              st'[m].sess[j].conn = st'[m].sess[k].conn
       PROVE  j = k
  <2>1. \A h \in Slot : ~(m = n /\ h = i) => st'[m].sess[h] = st[m].sess[h]
    BY DEF Dialed, OthersStay
  <2>2. \A h \in Slot : Used(st[m], h) => st[m].sess[h].conn # c
    <3> SUFFICES ASSUME NEW h \in Slot, Used(st[m], h) PROVE st[m].sess[h].conn # c
      OBVIOUS
    <3>1. st[m].sess[h].conn <= dials /\ st[m].sess[h].conn \in Conn
      BY DEF HelloInv, Types, StackOK
    <3> QED BY <1>3, <3>1 DEF Conn
  <2> QED BY <1>2, <1>19, <2>1, <2>2 DEF TagInv, Used
<1> QED BY <1>4, <1>9, <1>18, <1>19 DEF TagInv

LEMMA TagStep ==
    ASSUME NoIdWraps, PortsApart, Types, Types', Forward, Effect, HelloInv, TagInv
    PROVE  TagInv'
<1>1. PICK D \in SUBSET Conn, T \in [Conn -> Identity] : IdentityMap(D, T) BY DEF TagInv
<1>2. \A m \in Node : /\ st[m].next \in Nat /\ st'[m].next \in Nat /\ st[m].next <= st'[m].next
                      /\ st'[m].next <= dials' + 1
  BY IdsGrow
<1>3. dials \in Nat /\ dials' \in Nat /\ dials <= dials' BY DEF Types, Forward
<1>4. ASSUME NEW d \in D
      PROVE  /\ d <= dials' /\ T[d].id < st'[T[d].dialer].next
             /\ T[d].client \notin Ports /\ T[d].server \in Ports
  <2>1. d \in Conn /\ T[d] \in Identity OBVIOUS
  <2>2. T[d].dialer \in Node /\ T[d].id \in Nat BY <2>1, PortAssumption DEF Identity, Id
  <2>3. d <= dials /\ T[d].id < st[T[d].dialer].next /\ T[d].client \notin Ports /\ T[d].server \in Ports
    BY <1>1 DEF IdentityMap
  <2>4. d <= dials' BY <1>3, <2>1, <2>3 DEF Conn
  <2>5. st[T[d].dialer].next <= st'[T[d].dialer].next /\ st[T[d].dialer].next \in Nat
        /\ st'[T[d].dialer].next \in Nat
    BY <1>2, <2>2
  <2>6. T[d].id < st'[T[d].dialer].next BY <2>2, <2>3, <2>5
  <2> QED BY <2>3, <2>4, <2>6
<1>5. \A d, e \in D : T[d].dialer = T[e].dialer /\ T[d].id = T[e].id => d = e
  BY <1>1 DEF IdentityMap
<1>6. CASE Kept
  <2>1. ASSUME NEW m \in Node, NEW j \in Slot, Used(st'[m], j)
        PROVE  LET y == st'[m].sess[j]
               IN  y.conn \in D /\ T[y.conn] = IdentityOf(m, y.id, y.lport, y.pport)
    <3>1. Used(st[m], j) /\ SameName(st'[m].sess[j], st[m].sess[j]) BY <1>6, <2>1 DEF Kept
    <3> QED BY <1>1, <3>1 DEF IdentityMap, SameName
  <2>2. ASSUME NEW m \in Node, NEW g \in RecordType, g \in Records(st'[m])
        PROVE  g.conn \in D /\ T[g.conn] = IdentityOf(m, g.id, g.sport, g.dport)
    <3>1. CASE g \in Records(st[m]) BY <1>1, <3>1 DEF IdentityMap
    <3>2. ASSUME NEW j \in Slot, Used(st[m], j), Names(g, st[m].sess[j])
          PROVE  g.conn \in D /\ T[g.conn] = IdentityOf(m, g.id, g.sport, g.dport)
      BY <1>1, <3>2 DEF IdentityMap, Names
    <3> QED BY <1>6, <2>2, <3>1, <3>2 DEF Kept
  <2>3. IdentityMap(D, T)' BY <1>4, <1>5, <2>1, <2>2 DEF IdentityMap
  <2>4. ASSUME NEW m \in Node, NEW j \in Slot, NEW k \in Slot, Used(st'[m], j), Used(st'[m], k),
               st'[m].sess[j].conn = st'[m].sess[k].conn
        PROVE  j = k
    BY <1>6, <2>4 DEF Kept, SameName, TagInv
  <2> QED BY <1>2, <2>3, <2>4 DEF TagInv
<1>7. ASSUME NEW n \in Node, NEW i \in Slot, NEW f \in RecordType, NEW g \in RecordType,
             Created(n, i, f, g)
      PROVE  TagInv'
  <2> DEFINE x == st'[n].sess[i]
  <2>1. Peer(n) \in Node /\ Peer(n) # n /\ Peer(Peer(n)) = n BY NodePair
  <2>2. /\ f \in Records(st[Peer(n)]) /\ FreshHello(st[n], f)
        /\ x.id = f.id /\ x.lport = f.dport /\ x.pport = f.sport /\ x.conn = f.conn
        /\ Names(g, x)
    BY <1>7 DEF Created, Burned, Carries, Names
  <2>3. f.sport \notin Ports /\ f.dport \in Ports BY <2>2, HelloIsNew
  <2>4. f.conn \in D /\ T[f.conn] = IdentityOf(Peer(n), f.id, f.sport, f.dport)
    BY <1>1, <2>1, <2>2 DEF IdentityMap
  <2>5. T[f.conn] = IdentityOf(n, f.id, f.dport, f.sport) BY <2>3, <2>4 DEF IdentityOf
  <2>6. ASSUME NEW m \in Node, NEW j \in Slot, Used(st'[m], j)
        PROVE  LET y == st'[m].sess[j]
               IN  y.conn \in D /\ T[y.conn] = IdentityOf(m, y.id, y.lport, y.pport)
    <3>1. CASE m = n /\ j = i BY <2>2, <2>4, <2>5, <3>1
    <3>2. CASE ~(m = n /\ j = i)
      <4>1. st'[m].sess[j] = st[m].sess[j] BY <1>7, <3>2 DEF Created, OthersStay
      <4> QED BY <1>1, <2>6, <4>1 DEF IdentityMap, Used
    <3> QED BY <3>1, <3>2
  <2>7. ASSUME NEW m \in Node, NEW h \in RecordType, h \in Records(st'[m])
        PROVE  h.conn \in D /\ T[h.conn] = IdentityOf(m, h.id, h.sport, h.dport)
    <3>1. h \in Records(st[m]) \/ (m = n /\ h = g) BY <1>7, <2>7 DEF Created, MayAdd
    <3>2. CASE h \in Records(st[m]) BY <1>1, <3>2 DEF IdentityMap
    <3>3. CASE m = n /\ h = g BY <2>2, <2>4, <2>5, <3>3 DEF Names
    <3> QED BY <3>1, <3>2, <3>3
  <2>8. IdentityMap(D, T)' BY <1>4, <1>5, <2>6, <2>7 DEF IdentityMap
  <2>9. ASSUME NEW m \in Node, NEW j \in Slot, NEW k \in Slot, Used(st'[m], j), Used(st'[m], k),
               st'[m].sess[j].conn = st'[m].sess[k].conn
        PROVE  j = k
    <3>1. \A h \in Slot : ~(m = n /\ h = i) => st'[m].sess[h] = st[m].sess[h]
      BY <1>7 DEF Created, OthersStay
    <3>2. \A h \in Slot : Used(st[n], h) => st[n].sess[h].conn # f.conn BY <2>2, HelloIsNew
    <3> QED BY <2>2, <2>9, <3>1, <3>2 DEF TagInv, Used
  <2> QED BY <1>2, <2>8, <2>9 DEF TagInv
<1> QED BY <1>6, <1>7, KeptOrNew, NewIdentity

LEMMA InitTag == ASSUME Init, Types PROVE TagInv
<1>1. \A n \in Node : Records(st[n]) = {} BY InitEmpty
<1>2. \A n \in Node, i \in Slot : ~Used(st[n], i) BY InitEmpty
<1>3. \A n \in Node : st[n].next <= dials + 1 BY DEF Init, NewStack
<1>4. [c \in Conn |-> [dialer |-> "A", id |-> 0, client |-> 0, server |-> 0]] \in [Conn -> Identity]
  BY PortAssumption DEF Identity, Node, Id, Port
<1>5. IdentityMap({}, [c \in Conn |-> [dialer |-> "A", id |-> 0, client |-> 0, server |-> 0]])
  BY <1>1, <1>2 DEF IdentityMap
<1> QED BY <1>2, <1>3, <1>4, <1>5 DEF TagInv

(* What a server sends, and what a client believes, comes after the        *)
(* session the Hello created.                                              *)
BornInv ==
    /\ \A n \in Node, f \in RecordType :
          f \in Records(st[n]) /\ f.sport \in Ports => born[f.conn] > 0
    /\ \A n \in Node, i \in Slot : Used(st[n], i) =>
          LET x == st[n].sess[i]
          IN  x.lport \in Ports \/ x.state # "HelloSent" => born[x.conn] > 0

(* A node that sent a Close has no session for the connection any more.    *)
CloseInv ==
    /\ \A n \in Node, f \in RecordType, i \in Slot :
          f \in Records(st[n]) /\ f.ctype = "Close" /\ Used(st[n], i)
          => st[n].sess[i].conn # f.conn
    /\ \A n \in Node, i, j \in Slot :
          /\ Used(st[n], i) /\ st[n].sess[i].state = "Closed" /\ Used(st[Peer(n)], j)
          => st[n].sess[i].conn # st[Peer(n)].sess[j].conn

(* born only grows.                                                        *)
LEMMA BornGrows ==
    ASSUME Types, Types', Effect, NEW c \in Conn, born[c] > 0
    PROVE  born'[c] > 0
<1>1. born[c] \in Nat BY DEF Types
<1>2. ASSUME NEW n \in Node, NEW i \in Slot, NEW f \in RecordType, NEW g \in RecordType,
             Created(n, i, f, g)
      PROVE  born'[c] > 0
  <2>1. born' = [born EXCEPT ![f.conn] = @ + 1] BY <1>2 DEF Created
  <2>2. born'[c] = born[c] \/ born'[c] = born[c] + 1 BY <2>1 DEF Types
  <2> QED BY <1>1, <2>2
<1> QED BY <1>2, KeptOrNew DEF Kept, Dialed

LEMMA SessionsType ==
    ASSUME Types, NEW n \in Node, NEW i \in Slot
    PROVE  st[n].sess[i] \in Session /\ (Used(st[n], i) => st[n].sess[i].conn \in Conn)
BY DEF Types, StackOK, Stack

(* Except for the sender of a Hello, sessions move on from HelloSent only  *)
(* by a record of the peer on their own connection.                        *)
LEMMA MovesOn ==
    ASSUME Types, Types', TagInv, Effect, Kept, NEW n \in Node, NEW i \in Slot, Used(st'[n], i),
           st'[n].sess[i].state # st[n].sess[i].state
    PROVE  \E f \in RecordType :
              /\ f \in Records(st[Peer(n)]) /\ f.conn = st[n].sess[i].conn
              /\ f.sport \in Ports \/ st[n].sess[i].lport \in Ports
              /\ st'[n].sess[i].state = "Closed" => f.ctype = "Close"
<1>1. Used(st[n], i) BY DEF Kept
<1>2. ~Calm BY <1>1 DEF Calm, SameSession, Used
<1>3. ASSUME NEW m \in Node, NEW j \in Slot, Took(m, j) PROVE FALSE
  <2>1. st[m].sess[j] \in Session BY SessionsType
  <2>2. st'[m].sess[j].state = st[m].sess[j].state BY <1>3, <2>1 DEF Took, Session
  <2> QED BY <1>3, <2>2 DEF Took, OthersStay
<1>4. ASSUME NEW m \in Node, NEW j \in Slot, NEW f \in RecordType, Sent(m, j, f) PROVE FALSE
  <2>1. st'[n].sess = st[n].sess BY <1>4 DEF Sent, Types
  <2> QED BY <2>1
<1>5. ASSUME NEW m \in Node, NEW j \in Slot, NEW f \in RecordType, Told(m, j, f) PROVE FALSE
  BY <1>5 DEF Told, OthersStay, Used
<1>6. ASSUME NEW m \in Node, NEW j \in Slot, NEW f \in RecordType, Dialed(m, j, f) PROVE FALSE
  <2>1. ~(n = m /\ j = i) BY <1>1, <1>6 DEF Dialed, Used
  <2> QED BY <1>6, <2>1 DEF Dialed, OthersStay
<1>7. ASSUME NEW m \in Node, NEW j \in Slot, NEW f \in RecordType, NEW g \in RecordType,
             Created(m, j, f, g)
      PROVE  FALSE
  <2>1. ~(n = m /\ j = i) BY <1>1, <1>7 DEF Created, Used
  <2> QED BY <1>7, <2>1 DEF Created, OthersStay
<1>8. ASSUME NEW m \in Node, NEW j \in Slot, NEW f \in RecordType, Advanced(m, j, f)
      PROVE  /\ f \in Records(st[Peer(n)]) /\ f.conn = st[n].sess[i].conn
             /\ f.sport \in Ports \/ st[n].sess[i].lport \in Ports
             /\ st'[n].sess[i].state = "Closed" => f.ctype = "Close"
  <2>1. n = m /\ i = j BY <1>8 DEF Advanced, OthersStay
  <2>2. /\ f \in Records(st[Peer(n)]) /\ st[n].sess[i].pport = f.sport
        /\ st[n].sess[i].lport = f.dport /\ st[n].sess[i].id = f.id
    BY <1>8, <2>1 DEF Advanced, Burned, Matching
  <2>3. f.conn = st[n].sess[i].conn /\ (f.sport \in Ports <=> f.dport \notin Ports)
    BY <1>1, <2>2, RightConnection
  <2>4. st[n].sess[i] \in Session /\ st'[n].sess[i] = Advance(st[n].sess[i], f)
    BY <1>8, <2>1, SessionsType DEF Advanced
  <2>5. Advance(st[n].sess[i], f).state = "Closed"
          => f.ctype = "Close" \/ Advance(st[n].sess[i], f).state = st[n].sess[i].state
    BY <2>4 DEF Advance, Push, Session
  <2> QED BY <2>2, <2>3, <2>4, <2>5
<1> QED BY <1>2, <1>3, <1>4, <1>5, <1>6, <1>7, <1>8 DEF Effect

LEMMA BornStep ==
    ASSUME PortsApart, Types, Types', Effect, TagInv, BornInv
    PROVE  BornInv'
<1>1. \A c \in Conn : born[c] > 0 => born'[c] > 0 BY BornGrows
<1>2. \A f \in RecordType : f.conn \in Conn BY DEF RecordType
<1>3. ASSUME NEW n \in Node, NEW i \in Slot, Used(st[n], i),
             st[n].sess[i].lport \in Ports \/ st[n].sess[i].state # "HelloSent"
      PROVE  born'[st[n].sess[i].conn] > 0
  BY <1>1, <1>3, SessionsType DEF BornInv
<1>4. ASSUME NEW n \in Node, NEW f \in RecordType, f \in Records(st[n]), f.sport \in Ports
      PROVE  born'[f.conn] > 0
  BY <1>1, <1>2, <1>4 DEF BornInv
<1>5. CASE Kept
  <2>1. ASSUME NEW n \in Node, NEW f \in RecordType, f \in Records(st'[n]), f.sport \in Ports
        PROVE  born'[f.conn] > 0
    BY <1>3, <1>4, <1>5, <2>1 DEF Kept, Names
  <2>2. ASSUME NEW n \in Node, NEW i \in Slot, Used(st'[n], i),
               st'[n].sess[i].lport \in Ports \/ st'[n].sess[i].state # "HelloSent"
        PROVE  born'[st'[n].sess[i].conn] > 0
    <3>1. Used(st[n], i) /\ SameName(st'[n].sess[i], st[n].sess[i]) BY <1>5, <2>2 DEF Kept
    <3>2. CASE st'[n].sess[i].state = st[n].sess[i].state
      BY <1>3, <2>2, <3>1, <3>2 DEF SameName
    <3>3. CASE st'[n].sess[i].state # st[n].sess[i].state
      <4>1. PICK f \in RecordType :
               /\ f \in Records(st[Peer(n)]) /\ f.conn = st[n].sess[i].conn
               /\ f.sport \in Ports \/ st[n].sess[i].lport \in Ports
        BY <1>5, <2>2, <3>3, MovesOn
      <4>2. Peer(n) \in Node BY NodePair
      <4> QED BY <1>3, <1>4, <3>1, <4>1, <4>2 DEF SameName
    <3> QED BY <3>2, <3>3
  <2> QED BY <2>1, <2>2 DEF BornInv
<1>6. ASSUME NEW n \in Node, NEW i \in Slot, NEW f \in RecordType, Dialed(n, i, f)
      PROVE  BornInv'
  <2> DEFINE x == st'[n].sess[i]
  <2>1. x.state = "HelloSent" /\ x.lport \notin Ports /\ f.sport = x.lport
    <3>1. x \in Session BY DEF Types, StackOK, Stack
    <3>2. x.id \in Id BY <3>1 DEF Session
    <3> QED BY <1>6, <3>2 DEF Dialed, Carries, PortsApart
  <2>2. ASSUME NEW m \in Node, NEW g \in RecordType, g \in Records(st'[m]), g.sport \in Ports
        PROVE  born'[g.conn] > 0
    <3>1. g \in Records(st[m]) BY <1>6, <2>1, <2>2 DEF Dialed, MayAdd
    <3> QED BY <1>4, <2>2, <3>1
  <2>3. ASSUME NEW m \in Node, NEW j \in Slot, Used(st'[m], j),
               st'[m].sess[j].lport \in Ports \/ st'[m].sess[j].state # "HelloSent"
        PROVE  born'[st'[m].sess[j].conn] > 0
    <3>1. st'[m].sess[j] = st[m].sess[j] BY <1>6, <2>1, <2>3 DEF Dialed, OthersStay
    <3> QED BY <1>3, <2>3, <3>1 DEF Used
  <2> QED BY <2>2, <2>3 DEF BornInv
<1>7. ASSUME NEW n \in Node, NEW i \in Slot, NEW f \in RecordType, NEW g \in RecordType,
             Created(n, i, f, g)
      PROVE  BornInv'
  <2>1. /\ st'[n].sess[i].conn = f.conn /\ g.conn = f.conn
        /\ born' = [born EXCEPT ![f.conn] = @ + 1]
    BY <1>7 DEF Created, Carries
  <2>2. born'[f.conn] > 0
    <3>1. born[f.conn] \in Nat /\ born'[f.conn] = born[f.conn] + 1 BY <1>2, <2>1 DEF Types
    <3> QED BY <3>1
  <2>3. ASSUME NEW m \in Node, NEW h \in RecordType, h \in Records(st'[m]), h.sport \in Ports
        PROVE  born'[h.conn] > 0
    <3>1. h \in Records(st[m]) \/ h = g BY <1>7, <2>3 DEF Created, MayAdd
    <3> QED BY <1>4, <2>1, <2>2, <2>3, <3>1
  <2>4. ASSUME NEW m \in Node, NEW j \in Slot, Used(st'[m], j),
               st'[m].sess[j].lport \in Ports \/ st'[m].sess[j].state # "HelloSent"
        PROVE  born'[st'[m].sess[j].conn] > 0
    <3>1. CASE m = n /\ j = i BY <2>1, <2>2, <3>1
    <3>2. CASE ~(m = n /\ j = i)
      <4>1. st'[m].sess[j] = st[m].sess[j] BY <1>7, <3>2 DEF Created, OthersStay
      <4> QED BY <1>3, <2>4, <4>1 DEF Used
    <3> QED BY <3>1, <3>2
  <2> QED BY <2>3, <2>4 DEF BornInv
<1> QED BY <1>5, <1>6, <1>7, KeptOrNew

LEMMA CloseStays ==
    ASSUME PortsApart, Types, Types', Forward, Effect, HelloInv, TagInv, BornInv, CloseInv
    PROVE  CloseInv'
<1>1. \A n \in Node : Peer(n) \in Node /\ Peer(n) # n /\ Peer(Peer(n)) = n BY NodePair
<1>2. CASE Kept
  <2>1. ASSUME NEW n \in Node, NEW f \in RecordType, NEW i \in Slot,
               f \in Records(st'[n]), f.ctype = "Close", Used(st'[n], i),
               st'[n].sess[i].conn = f.conn
        PROVE  FALSE
    <3>1. Used(st[n], i) /\ st[n].sess[i].conn = f.conn BY <1>2, <2>1 DEF Kept, SameName
    <3>2. f \notin Records(st[n]) BY <2>1, <3>1 DEF CloseInv
    <3>3. ~Calm BY <2>1, <3>2 DEF Calm
    <3>4. ASSUME NEW m \in Node, NEW j \in Slot, NEW g \in RecordType, Told(m, j, g) PROVE FALSE
      <4>1. m = n /\ g = f BY <2>1, <3>2, <3>4 DEF Told, MayAdd
      <4>2. Used(st[n], j) /\ st[n].sess[j].conn = f.conn /\ ~Used(st'[n], j)
        BY <3>4, <4>1 DEF Told, Carries, Used
      <4>3. j = i BY <3>1, <4>2 DEF TagInv
      <4> QED BY <2>1, <4>2, <4>3
    <3>5. ASSUME NEW m \in Node, NEW j \in Slot,
                 \/ Took(m, j)
                 \/ \E g \in RecordType : Sent(m, j, g) \/ Advanced(m, j, g) \/ Dialed(m, j, g)
                 \/ \E g, h \in RecordType : Created(m, j, g, h)
          PROVE  FALSE
      BY <2>1, <3>2, <3>5 DEF Took, Sent, Advanced, Dialed, Created, MayAdd, Carries
    <3> QED BY <3>3, <3>4, <3>5 DEF Effect
  <2>2. ASSUME NEW n \in Node, NEW i \in Slot, NEW j \in Slot,
               Used(st'[n], i), st'[n].sess[i].state = "Closed", Used(st'[Peer(n)], j),
               st'[n].sess[i].conn = st'[Peer(n)].sess[j].conn
        PROVE  FALSE
    <3>1. /\ Used(st[n], i) /\ Used(st[Peer(n)], j)
          /\ st[n].sess[i].conn = st[Peer(n)].sess[j].conn
      BY <1>1, <1>2, <2>2 DEF Kept, SameName
    <3>2. st[n].sess[i].state # "Closed" BY <3>1 DEF CloseInv
    <3>3. PICK f \in RecordType :
             f \in Records(st[Peer(n)]) /\ f.conn = st[n].sess[i].conn /\ f.ctype = "Close"
      BY <1>2, <2>2, <3>2, MovesOn
    <3> QED BY <1>1, <3>1, <3>3 DEF CloseInv
  <2> QED BY <2>1, <2>2 DEF CloseInv
<1>3. ASSUME NEW n \in Node, NEW i \in Slot, NEW f \in RecordType, Dialed(n, i, f)
      PROVE  CloseInv'
  <2> DEFINE x == st'[n].sess[i]
  <2>1. /\ x.state = "HelloSent" /\ x.conn = dials + 1 /\ f.ctype = "Hello"
        /\ \A m \in Node, j \in Slot : ~(m = n /\ j = i) => st'[m].sess[j] = st[m].sess[j]
    BY <1>3 DEF Dialed, Carries, OthersStay
  <2>2. \A m \in Node, g \in RecordType :
           g \in Records(st'[m]) /\ g.ctype = "Close" => g \in Records(st[m])
    BY <1>3, <2>1 DEF Dialed, MayAdd
  <2>3. \A m \in Node, g \in RecordType : g \in Records(st[m]) => g.conn # dials + 1
    <3> SUFFICES ASSUME NEW m \in Node, NEW g \in RecordType, g \in Records(st[m])
                 PROVE  g.conn # dials + 1
      OBVIOUS
    <3>1. g.conn <= dials BY DEF HelloInv
    <3>2. g.conn \in Conn BY DEF RecordType
    <3> QED BY <3>1, <3>2 DEF Conn, Types
  <2>4. \A m \in Node, j \in Slot : Used(st[m], j) => st[m].sess[j].conn # dials + 1
    <3> SUFFICES ASSUME NEW m \in Node, NEW j \in Slot, Used(st[m], j)
                 PROVE  st[m].sess[j].conn # dials + 1
      OBVIOUS
    <3>1. st[m].sess[j].conn <= dials /\ st[m].sess[j].conn \in Conn /\ dials \in Nat
      BY SessionsType DEF HelloInv, Types
    <3> QED BY <3>1 DEF Conn
  <2>5. ASSUME NEW m \in Node, NEW g \in RecordType, NEW j \in Slot,
               g \in Records(st'[m]), g.ctype = "Close", Used(st'[m], j)
        PROVE  st'[m].sess[j].conn # g.conn
    <3>1. g \in Records(st[m]) BY <2>2, <2>5
    <3>2. CASE m = n /\ j = i BY <2>1, <2>3, <3>1, <3>2
    <3>3. CASE ~(m = n /\ j = i) BY <2>1, <2>5, <3>1, <3>3 DEF CloseInv, Used
    <3> QED BY <3>2, <3>3
  <2>6. ASSUME NEW m \in Node, NEW j \in Slot, NEW k \in Slot,
               Used(st'[m], j), st'[m].sess[j].state = "Closed", Used(st'[Peer(m)], k)
        PROVE  st'[m].sess[j].conn # st'[Peer(m)].sess[k].conn
    <3>1. st'[m].sess[j] = st[m].sess[j] /\ Used(st[m], j) BY <2>1, <2>6 DEF Used
    <3>2. CASE Peer(m) = n /\ k = i BY <2>1, <2>4, <3>1, <3>2
    <3>3. CASE ~(Peer(m) = n /\ k = i)
      <4>1. st'[Peer(m)].sess[k] = st[Peer(m)].sess[k] BY <1>1, <2>1, <3>3
      <4> QED BY <2>6, <3>1, <4>1 DEF CloseInv, Used
    <3> QED BY <3>2, <3>3
  <2> QED BY <2>5, <2>6 DEF CloseInv
<1>4. ASSUME NEW n \in Node, NEW i \in Slot, NEW f \in RecordType, NEW g \in RecordType,
             Created(n, i, f, g)
      PROVE  CloseInv'
  <2> DEFINE x == st'[n].sess[i]
  <2>1. /\ x.state = "Established" /\ x.conn = f.conn /\ g.ctype = "HelloAck"
        /\ f \in Records(st[Peer(n)]) /\ f.ctype = "Hello" /\ FreshHello(st[n], f)
        /\ \A m \in Node, j \in Slot : ~(m = n /\ j = i) => st'[m].sess[j] = st[m].sess[j]
    BY <1>4 DEF Created, Carries, OthersStay, Burned, FreshHello
  <2>2. born[f.conn] = 0 BY <1>4, <2>1, FirstTime DEF Created
  <2>3. f.sport \notin Ports /\ f.dport \in Ports BY <2>1, HelloIsNew
  <2>4. \A m \in Node, h \in RecordType :
           h \in Records(st'[m]) /\ h.ctype = "Close" => h \in Records(st[m])
    BY <1>4, <2>1 DEF Created, MayAdd
  <2>5. ASSUME NEW h \in RecordType, h \in Records(st[n]), h.conn = f.conn PROVE FALSE
    <3>1. PICK D \in SUBSET Conn, T \in [Conn -> Identity] : IdentityMap(D, T) BY DEF TagInv
    <3>2. IdentityOf(n, h.id, h.sport, h.dport) = IdentityOf(Peer(n), f.id, f.sport, f.dport)
      BY <1>1, <2>1, <2>5, <3>1 DEF IdentityMap
    <3>3. h.sport \in Ports BY <1>1, <2>3, <3>2 DEF IdentityOf
    <3> QED BY <2>2, <2>5, <3>3 DEF BornInv
  <2>6. ASSUME NEW j \in Slot, Used(st[Peer(n)], j), st[Peer(n)].sess[j].state = "Closed",
               st[Peer(n)].sess[j].conn = f.conn
        PROVE  FALSE
    BY <1>1, <2>2, <2>6 DEF BornInv
  <2>7. ASSUME NEW m \in Node, NEW h \in RecordType, NEW j \in Slot,
               h \in Records(st'[m]), h.ctype = "Close", Used(st'[m], j)
        PROVE  st'[m].sess[j].conn # h.conn
    <3>1. h \in Records(st[m]) BY <2>4, <2>7
    <3>2. CASE m = n /\ j = i BY <2>1, <2>5, <3>1, <3>2
    <3>3. CASE ~(m = n /\ j = i) BY <2>1, <2>7, <3>1, <3>3 DEF CloseInv, Used
    <3> QED BY <3>2, <3>3
  <2>8. ASSUME NEW m \in Node, NEW j \in Slot, NEW k \in Slot,
               Used(st'[m], j), st'[m].sess[j].state = "Closed", Used(st'[Peer(m)], k)
        PROVE  st'[m].sess[j].conn # st'[Peer(m)].sess[k].conn
    <3>1. st'[m].sess[j] = st[m].sess[j] /\ Used(st[m], j) BY <2>1, <2>8 DEF Used
    <3>2. CASE Peer(m) = n /\ k = i BY <1>1, <2>1, <2>6, <2>8, <3>1, <3>2
    <3>3. CASE ~(Peer(m) = n /\ k = i)
      <4>1. st'[Peer(m)].sess[k] = st[Peer(m)].sess[k] BY <1>1, <2>1, <3>3
      <4> QED BY <2>8, <3>1, <4>1 DEF CloseInv, Used
    <3> QED BY <3>2, <3>3
  <2> QED BY <2>7, <2>8 DEF CloseInv
<1> QED BY <1>2, <1>3, <1>4, KeptOrNew

(***************************************************************************)
(* Messages.                                                               *)
(***************************************************************************)
Data(f) == f.ctype = "Data"

(* The messages that wait in x carry x's connection, later numbers than    *)
(* those read, none that the peer has not written, in order.               *)
Queued(n, x) ==
    \A j \in DOMAIN x.rx :
        /\ x.rx[j].conn = x.conn
        /\ x.rx[j].num <= wrote[Peer(n)][x.conn]
        /\ x.rx[j].num > read[n][x.conn]
        /\ \A k \in DOMAIN x.rx : k < j => x.rx[k].num < x.rx[j].num

(* Keys are used in the order of the messages, so that a record whose key  *)
(* is not burned is later than all the receiver has had.                   *)
OrderInv ==
    /\ \A n \in Node, f \in RecordType : f \in Records(st[n]) => f.off + KeyCost(f.len) <= TxBase(n)
    /\ \A n \in Node, c \in Conn : read[n][c] <= wrote[Peer(n)][c]
    /\ \A n \in Node, f \in RecordType : f \in Records(st[n]) /\ Data(f) => f.num <= wrote[n][f.conn]
    /\ \A n \in Node, f, g \in RecordType :
          /\ f \in Records(st[n]) /\ Data(f) /\ g \in Records(st[n]) /\ Data(g)
          /\ f.conn = g.conn /\ g.num <= f.num
          => g.off + KeyCost(g.len) <= f.off \/ (g.num = f.num /\ g.off = f.off)
    /\ \A n \in Node, f \in RecordType :
          f \in Records(st[Peer(n)]) /\ Data(f) /\ f.off >= RxBase(n) =>
             /\ f.num > read[n][f.conn]
             /\ \A i \in Slot : Used(st[n], i) /\ st[n].sess[i].conn = f.conn =>
                   \A j \in DOMAIN st[n].sess[i].rx : st[n].sess[i].rx[j].num < f.num
    /\ \A n \in Node, i \in Slot : Used(st[n], i) => Queued(n, st[n].sess[i])

LEMMA Numbers ==
    /\ \A f \in RecordType : /\ f.num \in Nat /\ f.off \in Nat /\ f.conn \in Conn
                             /\ KeyCost(f.len) \in Nat /\ KeyCost(f.len) > 0
    /\ \A m \in Message : m.conn \in Conn /\ m.num \in Nat
<1>1. MaxMsgs \in Nat BY BoundAssumption
<1>2. \A f \in RecordType : /\ f.num \in Nat /\ f.off \in Nat /\ f.conn \in Conn
                            /\ f.len \in 0 .. MaxPayload
  BY <1>1 DEF RecordType
<1>3. \A m \in Message : m.conn \in Conn /\ m.num \in Nat BY <1>1 DEF Message
<1> QED BY <1>2, <1>3, CostType

LEMMA CountsType ==
    ASSUME Types, NEW n \in Node, NEW c \in Conn
    PROVE  wrote[n][c] \in Nat /\ read[n][c] \in Nat
<1>1. wrote[n][c] \in 0 .. MaxMsgs /\ read[n][c] \in 0 .. MaxMsgs BY DEF Types
<1> QED BY <1>1, BoundAssumption

(* The queue of a session.                                                 *)
LEMMA QueueType ==
    ASSUME Types, NEW n \in Node, NEW i \in Slot
    PROVE  LET q == st[n].sess[i].rx
           IN  /\ q \in Seq(Message) /\ Len(q) \in Nat /\ DOMAIN q = 1 .. Len(q)
               /\ \A j \in DOMAIN q : q[j] \in Message /\ q[j].num \in Nat
<1> DEFINE q == st[n].sess[i].rx
<1>1. q \in Seq(Message) BY SessionsType DEF Session
<1> HIDE DEF q
<1>2. Len(q) \in Nat /\ DOMAIN q = 1 .. Len(q) /\ \A j \in 1 .. Len(q) : q[j] \in Message
  BY <1>1, LenProperties, ElementOfSeq
<1> QED BY <1>1, <1>2, Numbers DEF q

(* Steps that write and read nothing, add no Data and fill no queue.       *)
Silent ==
    /\ wrote' = wrote /\ read' = read
    /\ \A n \in Node, f \in RecordType : f \in Records(st'[n]) =>
          \/ f \in Records(st[n])
          \/ ~Data(f) /\ f.off + KeyCost(f.len) = TxBase(n)'
    /\ \A n \in Node, i \in Slot : Used(st'[n], i) =>
          \/ st'[n].sess[i].rx = <<>>
          \/ /\ Used(st[n], i) /\ st'[n].sess[i].conn = st[n].sess[i].conn
             /\ st'[n].sess[i].rx = st[n].sess[i].rx

LEMMA BasesGrow ==
    ASSUME Types, Types', Forward, NEW n \in Node
    PROVE  /\ TxBase(n) \in Nat /\ TxBase(n)' \in Nat /\ TxBase(n) <= TxBase(n)'
           /\ RxBase(n) \in Nat /\ RxBase(n)' \in Nat /\ RxBase(n) <= RxBase(n)'
<1>1. TxBase(n) \in Nat /\ RxBase(n) \in Nat BY BasesType
<1>2. TxBase(n)' \in Nat /\ RxBase(n)' \in Nat
  <2>1. StackOK(st'[n]) /\ RxLane(n) \in Lane /\ TxLane(n) \in Lane BY NodePair DEF Types
  <2> QED BY <2>1, BaseType DEF RxBase, TxBase
<1> QED BY <1>1, <1>2 DEF Forward

LEMMA OldRecords ==
    ASSUME Types, Types', Forward, OrderInv, NEW n \in Node, NEW f \in RecordType,
           f \in Records(st[n])
    PROVE  f.off + KeyCost(f.len) <= TxBase(n)'
<1>1. f.off + KeyCost(f.len) <= TxBase(n) BY DEF OrderInv
<1> QED BY <1>1, BasesGrow, Numbers

LEMMA SilentStep ==
    ASSUME Types, Types', Forward, OrderInv, Silent
    PROVE  OrderInv'
<1>1. ASSUME NEW n \in Node, NEW f \in RecordType, f \in Records(st'[n])
      PROVE  f.off + KeyCost(f.len) <= TxBase(n)'
  <2>1. CASE f \in Records(st[n]) BY <2>1, OldRecords
  <2>2. CASE f.off + KeyCost(f.len) = TxBase(n)' BY <2>2, BasesGrow
  <2> QED BY <1>1, <2>1, <2>2 DEF Silent
<1>2. \A n \in Node, f \in RecordType : f \in Records(st'[n]) /\ Data(f) => f \in Records(st[n])
  BY DEF Silent
<1>3. \A n \in Node : Peer(n) \in Node /\ Peer(Peer(n)) = n BY NodePair
<1>4. ASSUME NEW n \in Node, NEW f \in RecordType,
             f \in Records(st'[Peer(n)]), Data(f), f.off >= RxBase(n)'
      PROVE  /\ f.num > read'[n][f.conn]
             /\ \A i \in Slot : Used(st'[n], i) /\ st'[n].sess[i].conn = f.conn =>
                   \A j \in DOMAIN st'[n].sess[i].rx : st'[n].sess[i].rx[j].num < f.num
  <2>1. f.off >= RxBase(n) BY <1>4, BasesGrow, Numbers
  <2>2. f \in Records(st[Peer(n)]) BY <1>2, <1>3, <1>4
  <2>3. f.num > read'[n][f.conn] BY <1>4, <2>1, <2>2 DEF OrderInv, Silent
  <2>4. ASSUME NEW i \in Slot, Used(st'[n], i), st'[n].sess[i].conn = f.conn,
               NEW j \in DOMAIN st'[n].sess[i].rx
        PROVE  st'[n].sess[i].rx[j].num < f.num
    <3>1. st'[n].sess[i].rx # <<>> BY <2>4, EmptyQueue
    <3>2. /\ Used(st[n], i) /\ st[n].sess[i].conn = f.conn
          /\ st'[n].sess[i].rx = st[n].sess[i].rx
      BY <2>4, <3>1 DEF Silent
    <3> QED BY <1>4, <2>1, <2>2, <2>4, <3>2 DEF OrderInv
  <2> QED BY <2>3, <2>4
<1>5. ASSUME NEW n \in Node, NEW i \in Slot, Used(st'[n], i)
      PROVE  Queued(n, st[n].sess[i])'
  <2>1. CASE st'[n].sess[i].rx = <<>> BY <2>1, EmptyQueue DEF Queued
  <2>2. CASE /\ Used(st[n], i) /\ st'[n].sess[i].conn = st[n].sess[i].conn
             /\ st'[n].sess[i].rx = st[n].sess[i].rx
    <3>1. Queued(n, st[n].sess[i]) BY <2>2 DEF OrderInv
    <3> QED BY <2>2, <3>1 DEF Queued, Silent
  <2> QED BY <1>5, <2>1, <2>2 DEF Silent
<1> QED BY <1>1, <1>2, <1>4, <1>5 DEF OrderInv, Silent

LEMMA SentStep ==
    ASSUME Types, Types', Forward, OrderInv,
           NEW n \in Node, NEW i \in Slot, NEW f \in RecordType, Sent(n, i, f)
    PROVE  OrderInv'
<1> DEFINE c == f.conn
<1>1. /\ Data(f) /\ f.num = wrote[n][c] + 1 /\ f.off = TxBase(n) /\ read' = read
      /\ wrote' = [wrote EXCEPT ![n][c] = @ + 1] /\ c \in Conn
      /\ \A m \in Node : st'[m].sess = st[m].sess
  BY Numbers DEF Sent, Carries, MayAdd, Data, Types
<1>2. \A m \in Node, g \in RecordType :
         g \in Records(st'[m]) => g \in Records(st[m]) \/ (m = n /\ g = f)
  BY DEF Sent, MayAdd
<1>3. f \in Records(st'[n]) => f \in Records(st[n]) \/ TxBase(n)' = f.off + KeyCost(f.len)
  BY DEF Sent, MayAdd
<1>4. /\ \A m \in Node, d \in Conn : wrote[m][d] \in Nat /\ read[m][d] \in Nat
      /\ \A m \in Node, d \in Conn : wrote'[m][d] \in Nat /\ wrote'[m][d] >= wrote[m][d]
      /\ wrote'[n][c] = wrote[n][c] + 1
  <2>1. \A m \in Node, d \in Conn : wrote[m][d] \in Nat /\ read[m][d] \in Nat BY CountsType
  <2>2. wrote'[n][c] = wrote[n][c] + 1 BY <1>1 DEF Types
  <2>3. \A m \in Node, d \in Conn : ~(m = n /\ d = c) => wrote'[m][d] = wrote[m][d]
    BY <1>1 DEF Types
  <2> HIDE DEF c
  <2>4. ASSUME NEW m \in Node, NEW d \in Conn
        PROVE  wrote'[m][d] \in Nat /\ wrote'[m][d] >= wrote[m][d]
    <3>1. CASE m = n /\ d = c BY <2>1, <2>2, <3>1
    <3>2. CASE ~(m = n /\ d = c) BY <2>1, <2>3, <3>2
    <3> QED BY <3>1, <3>2
  <2> QED BY <2>1, <2>2, <2>4
<1>5. ASSUME NEW m \in Node, NEW g \in RecordType, g \in Records(st'[m])
      PROVE  g.off + KeyCost(g.len) <= TxBase(m)'
  <2>1. CASE g \in Records(st[m]) BY <2>1, OldRecords
  <2>2. CASE g \notin Records(st[m])
    <3>1. TxBase(n)' = f.off + KeyCost(f.len) /\ m = n /\ g = f BY <1>2, <1>3, <1>5, <2>2
    <3> QED BY <3>1, Numbers
  <2> QED BY <2>1, <2>2
<1>6. \A m \in Node : Peer(m) \in Node /\ Peer(Peer(m)) = m BY NodePair
<1>7. ASSUME NEW m \in Node, NEW d \in Conn PROVE read'[m][d] <= wrote'[Peer(m)][d]
  <2>1. read[m][d] <= wrote[Peer(m)][d] BY DEF OrderInv
  <2>2. wrote'[Peer(m)][d] >= wrote[Peer(m)][d] /\ wrote[Peer(m)][d] \in Nat
        /\ wrote'[Peer(m)][d] \in Nat /\ read[m][d] \in Nat
    BY <1>4, <1>6
  <2> QED BY <1>1, <2>1, <2>2
<1>8. ASSUME NEW m \in Node, NEW g \in RecordType, g \in Records(st'[m]), Data(g)
      PROVE  g.num <= wrote'[m][g.conn]
  <2>1. CASE m = n /\ g = f BY <1>1, <1>4, <2>1
  <2>2. CASE g \in Records(st[m])
    <3>1. g.num <= wrote[m][g.conn] /\ g.conn \in Conn /\ g.num \in Nat
      BY <1>8, <2>2, Numbers DEF OrderInv
    <3>2. wrote[m][g.conn] \in Nat /\ wrote'[m][g.conn] \in Nat /\ wrote'[m][g.conn] >= wrote[m][g.conn]
      BY <1>4, <3>1
    <3> QED BY <3>1, <3>2
  <2> QED BY <1>2, <1>8, <2>1, <2>2
<1>9. ASSUME NEW g \in RecordType, g \in Records(st[n]), Data(g), g.conn = c
      PROVE  g.num < f.num /\ g.off + KeyCost(g.len) <= f.off
  <2>1. g.num <= wrote[n][c] /\ g.num \in Nat BY <1>9, Numbers DEF OrderInv
  <2>2. g.off + KeyCost(g.len) <= TxBase(n) BY <1>9 DEF OrderInv
  <2> QED BY <1>1, <1>4, <2>1, <2>2
<1>10. ASSUME NEW m \in Node, NEW g \in RecordType, NEW h \in RecordType,
              g \in Records(st'[m]), Data(g), h \in Records(st'[m]), Data(h),
              g.conn = h.conn, h.num <= g.num
       PROVE  h.off + KeyCost(h.len) <= g.off \/ (h.num = g.num /\ h.off = g.off)
  <2>1. CASE g \in Records(st[m]) /\ h \in Records(st[m]) BY <1>10, <2>1 DEF OrderInv
  <2>2. CASE m = n /\ g = f /\ h = f BY <2>2
  <2>3. CASE m = n /\ g = f /\ h \in Records(st[n]) BY <1>9, <1>10, <2>3
  <2>4. CASE m = n /\ h = f /\ g \in Records(st[n])
    <3>1. g.num < h.num /\ g.num \in Nat /\ h.num \in Nat BY <1>9, <1>10, <2>4, Numbers
    <3> QED BY <1>10, <3>1
  <2> QED BY <1>2, <1>10, <2>1, <2>2, <2>3, <2>4
<1>11. ASSUME NEW m \in Node, NEW j \in Slot, Used(st[m], j) PROVE Queued(m, st[m].sess[j])'
  <2> DEFINE x == st[m].sess[j]
             d == x.conn
  <2>1. Queued(m, x) BY <1>11 DEF OrderInv
  <2>2. d \in Conn BY <1>11, SessionsType
  <2>3. st'[m].sess[j] = x BY <1>1
  <2>4. wrote[Peer(m)][d] \in Nat /\ wrote'[Peer(m)][d] \in Nat
        /\ wrote[Peer(m)][d] <= wrote'[Peer(m)][d]
    BY <1>4, <1>6, <2>2
  <2>5. \A k \in DOMAIN x.rx : x.rx[k].num \in Nat BY QueueType
  <2>6. \A k \in DOMAIN x.rx : x.rx[k].num <= wrote'[Peer(m)][d]
    <3>1. \A k \in DOMAIN x.rx : x.rx[k].num <= wrote[Peer(m)][d] BY <2>1 DEF Queued
    <3> HIDE DEF x, d
    <3> QED BY <2>4, <2>5, <3>1
  <2> HIDE DEF x
  <2>7. Queued(m, st[m].sess[j])' <=>
          \A k \in DOMAIN x.rx : /\ x.rx[k].conn = x.conn
                                 /\ x.rx[k].num <= wrote'[Peer(m)][x.conn]
                                 /\ x.rx[k].num > read[m][x.conn]
                                 /\ \A e \in DOMAIN x.rx : e < k => x.rx[e].num < x.rx[k].num
    BY <1>1, <2>3 DEF Queued
  <2> QED BY <2>1, <2>6, <2>7 DEF Queued
<1>12. ASSUME NEW m \in Node, NEW g \in RecordType,
              g \in Records(st'[Peer(m)]), Data(g), g.off >= RxBase(m)'
       PROVE  /\ g.num > read'[m][g.conn]
              /\ \A j \in Slot : Used(st'[m], j) /\ st'[m].sess[j].conn = g.conn =>
                    \A k \in DOMAIN st'[m].sess[j].rx : st'[m].sess[j].rx[k].num < g.num
  <2>1. g.off >= RxBase(m) BY <1>12, BasesGrow, Numbers
  <2>2. CASE g \in Records(st[Peer(m)])
    BY <1>1, <1>12, <2>1, <2>2 DEF OrderInv, Used
  <2>3. CASE Peer(m) = n /\ g = f
    <3>1. read[m][c] <= wrote[n][c] BY <1>1, <2>3 DEF OrderInv
    <3>2. f.num > read'[m][c] BY <1>1, <1>4, <3>1
    <3>3. ASSUME NEW j \in Slot, Used(st[m], j), st[m].sess[j].conn = c,
                 NEW k \in DOMAIN st[m].sess[j].rx
          PROVE  st[m].sess[j].rx[k].num < f.num
      <4>1. st[m].sess[j].rx[k].num <= wrote[n][c] /\ st[m].sess[j].rx[k].num \in Nat
        BY <2>3, <3>3, QueueType DEF OrderInv, Queued
      <4> QED BY <1>1, <1>4, <4>1
    <3> QED BY <1>1, <2>3, <3>2, <3>3 DEF Used
  <2> QED BY <1>2, <1>6, <1>12, <2>2, <2>3
<1>13. \A m \in Node, j \in Slot : Used(st'[m], j) => Queued(m, st[m].sess[j])'
  BY <1>1, <1>11 DEF Used
<1> QED BY <1>5, <1>7, <1>8, <1>10, <1>12, <1>13 DEF OrderInv

LEMMA TookStep ==
    ASSUME Types, Types', Forward, TagInv, OrderInv,
           NEW n \in Node, NEW i \in Slot, Took(n, i)
    PROVE  OrderInv'
<1> DEFINE q == st[n].sess[i].rx
           c == st[n].sess[i].conn
           p == Tail(q)
<1>1. /\ q \in Seq(Message) /\ Len(q) \in Nat /\ DOMAIN q = 1 .. Len(q)
      /\ \A j \in DOMAIN q : q[j] \in Message /\ q[j].num \in Nat
  BY QueueType
<1>2. Used(st[n], i) /\ q # <<>> /\ c \in Conn /\ st[n].sess[i] \in Session
  BY SessionsType DEF Took
<1>3. /\ st'[n].sess[i] = [st[n].sess[i] EXCEPT !.rx = p] /\ wrote' = wrote
      /\ read' = [read EXCEPT ![n][Head(q).conn] = Head(q).num]
      /\ \A m \in Node : Records(st'[m]) = Records(st[m])
      /\ \A m \in Node, j \in Slot : ~(m = n /\ j = i) => st'[m].sess[j] = st[m].sess[j]
  BY DEF Took, OthersStay
<1>4. /\ st'[n].sess[i].rx = p /\ st'[n].sess[i].conn = c /\ Used(st'[n], i)
  BY <1>2, <1>3 DEF Session, Used
<1>5. Queued(n, st[n].sess[i]) BY <1>2 DEF OrderInv
<1> HIDE DEF q, c
<1>6. /\ Head(q) = q[1] /\ 1 \in DOMAIN q /\ Len(q) >= 1
      /\ p \in Seq(Message) /\ Len(p) = Len(q) - 1 /\ \A j \in 1 .. Len(p) : p[j] = q[j + 1]
  BY <1>1, <1>2, HeadTailProperties, EmptySeq
<1>7. DOMAIN p = 1 .. Len(p) BY <1>6, LenProperties
<1> HIDE DEF p
<1>8. \A j \in DOMAIN p : j \in Nat /\ j >= 1 /\ j + 1 \in DOMAIN q /\ p[j] = q[j + 1]
  BY <1>1, <1>6, <1>7
<1>9. \A j \in DOMAIN q : /\ q[j].conn = c /\ q[j].num <= wrote[Peer(n)][c]
                          /\ q[j].num > read[n][c]
                          /\ \A k \in DOMAIN q : k < j => q[k].num < q[j].num
  BY <1>5 DEF Queued, q, c
<1>10. read' = [read EXCEPT ![n][c] = q[1].num] BY <1>3, <1>6, <1>9
<1>11. /\ read'[n][c] = q[1].num
       /\ \A m \in Node, d \in Conn : ~(m = n /\ d = c) => read'[m][d] = read[m][d]
  BY <1>2, <1>10 DEF Types
<1>12. ASSUME NEW m \in Node, NEW d \in Conn PROVE read'[m][d] <= wrote'[Peer(m)][d]
  BY <1>3, <1>6, <1>9, <1>11 DEF OrderInv
<1>13. ASSUME NEW m \in Node, NEW g \in RecordType,
              g \in Records(st[Peer(m)]), Data(g), g.off >= RxBase(m)'
       PROVE  /\ g.num > read'[m][g.conn]
              /\ \A j \in Slot : Used(st'[m], j) /\ st'[m].sess[j].conn = g.conn =>
                    \A k \in DOMAIN st'[m].sess[j].rx : st'[m].sess[j].rx[k].num < g.num
  <2>1. g.off >= RxBase(m) BY <1>13, BasesGrow, Numbers
  <2>2. /\ g.num > read[m][g.conn]
        /\ \A j \in Slot : Used(st[m], j) /\ st[m].sess[j].conn = g.conn =>
              \A k \in DOMAIN st[m].sess[j].rx : st[m].sess[j].rx[k].num < g.num
    BY <1>13, <2>1 DEF OrderInv
  <2>3. g.conn \in Conn BY Numbers
  <2>4. m = n /\ g.conn = c => \A k \in DOMAIN q : q[k].num < g.num BY <1>2, <2>2 DEF q, c
  <2>5. g.num > read'[m][g.conn]
    <3>1. CASE m = n /\ g.conn = c
      <4>1. q[1].num < g.num /\ q[1].num \in Nat /\ g.num \in Nat BY <1>1, <1>6, <2>4, <3>1, Numbers
      <4> QED BY <1>11, <3>1, <4>1
    <3>2. CASE ~(m = n /\ g.conn = c) BY <1>11, <2>2, <2>3, <3>2
    <3> QED BY <3>1, <3>2
  <2>6. ASSUME NEW j \in Slot, Used(st'[m], j), st'[m].sess[j].conn = g.conn,
               NEW k \in DOMAIN st'[m].sess[j].rx
        PROVE  st'[m].sess[j].rx[k].num < g.num
    <3>1. CASE m = n /\ j = i BY <1>4, <1>8, <2>4, <2>6, <3>1
    <3>2. CASE ~(m = n /\ j = i)
      <4>1. st'[m].sess[j] = st[m].sess[j] BY <1>3, <3>2
      <4> QED BY <2>2, <2>6, <4>1 DEF Used
    <3> QED BY <3>1, <3>2
  <2> QED BY <2>5, <2>6
<1>14. ASSUME NEW m \in Node, NEW j \in Slot, Used(st'[m], j) PROVE Queued(m, st[m].sess[j])'
  <2>1. CASE m = n /\ j = i
    <3>1. ASSUME NEW k \in DOMAIN p
          PROVE  /\ p[k].conn = c /\ p[k].num <= wrote'[Peer(n)][c]
                 /\ p[k].num > read'[n][c]
                 /\ \A e \in DOMAIN p : e < k => p[e].num < p[k].num
      <4>1. p[k] = q[k + 1] /\ k + 1 \in DOMAIN q /\ k \in Nat /\ k >= 1 BY <1>8
      <4>2. p[k].conn = c /\ p[k].num <= wrote'[Peer(n)][c] BY <1>3, <1>9, <4>1
      <4>3. q[k + 1].num > q[1].num BY <1>6, <1>9, <4>1
      <4>4. ASSUME NEW e \in DOMAIN p, e < k PROVE p[e].num < p[k].num
        <5>1. p[e] = q[e + 1] /\ e + 1 \in DOMAIN q /\ e + 1 < k + 1 BY <1>8, <4>1, <4>4
        <5> QED BY <1>9, <4>1, <5>1
      <4> QED BY <1>11, <4>1, <4>2, <4>3, <4>4
    <3> QED BY <1>4, <2>1, <3>1 DEF Queued
  <2>2. CASE ~(m = n /\ j = i)
    <3>1. st'[m].sess[j] = st[m].sess[j] BY <1>3, <2>2
    <3>2. Used(st[m], j) BY <1>14, <3>1 DEF Used
    <3>3. Queued(m, st[m].sess[j]) BY <3>2 DEF OrderInv
    <3>4. ~(m = n /\ st[m].sess[j].conn = c) BY <1>2, <2>2, <3>2 DEF TagInv, c
    <3>5. read'[m][st[m].sess[j].conn] = read[m][st[m].sess[j].conn]
      BY <1>11, <3>2, <3>4, SessionsType
    <3> QED BY <1>3, <3>1, <3>3, <3>5 DEF Queued
  <2> QED BY <2>1, <2>2
<1>15. \A m \in Node, f \in RecordType : f \in Records(st'[m]) => f.off + KeyCost(f.len) <= TxBase(m)'
  BY <1>3, OldRecords
<1>16. \A m \in Node, g \in RecordType :
          g \in Records(st'[Peer(m)]) /\ Data(g) /\ g.off >= RxBase(m)' =>
             /\ g.num > read'[m][g.conn]
             /\ \A j \in Slot : Used(st'[m], j) /\ st'[m].sess[j].conn = g.conn =>
                   \A k \in DOMAIN st'[m].sess[j].rx : st'[m].sess[j].rx[k].num < g.num
  BY <1>3, <1>13, NodePair
<1> QED BY <1>3, <1>12, <1>14, <1>15, <1>16 DEF OrderInv

(* A Data record whose message joins the queue of session i.               *)
LEMMA PushStep ==
    ASSUME Types, Types', Forward, TagInv, OrderInv,
           NEW n \in Node, NEW i \in Slot, NEW f \in RecordType, Advanced(n, i, f), Data(f),
           st'[n].sess[i] = [st[n].sess[i] EXCEPT !.rx = Append(@, MessageOf(f))]
    PROVE  OrderInv'
<1> DEFINE q == st[n].sess[i].rx
           c == f.conn
           p == Append(q, MessageOf(f))
<1>1. /\ q \in Seq(Message) /\ Len(q) \in Nat /\ DOMAIN q = 1 .. Len(q)
      /\ \A j \in DOMAIN q : q[j] \in Message /\ q[j].num \in Nat
  BY QueueType
<1>2. /\ f \in Records(st[Peer(n)]) /\ RxBase(n) <= f.off
      /\ RxBase(n)' = f.off + KeyCost(f.len) /\ wrote' = wrote /\ read' = read
      /\ \A m \in Node : Records(st'[m]) \subseteq Records(st[m])
      /\ \A m \in Node, j \in Slot : ~(m = n /\ j = i) => st'[m].sess[j] = st[m].sess[j]
  BY DEF Advanced, Burned, OthersStay
<1>3. Used(st[n], i) /\ st[n].sess[i].conn = c
  <2>1. /\ Used(st[n], i) /\ st[n].sess[i].pport = f.sport
        /\ st[n].sess[i].lport = f.dport /\ st[n].sess[i].id = f.id
    BY DEF Advanced, Matching, Used
  <2> QED BY <1>2, <2>1, RightConnection
<1>4. st'[n].sess[i].rx = p /\ st'[n].sess[i].conn = c
  BY <1>3, SessionsType DEF Session
<1>5. /\ f.num \in Nat /\ f.off \in Nat /\ c \in Conn
      /\ KeyCost(f.len) \in Nat /\ KeyCost(f.len) > 0
  BY Numbers
<1>6. /\ Peer(n) \in Node /\ f.num <= wrote[Peer(n)][c] /\ f.num > read[n][c]
      /\ \A j \in DOMAIN q : q[j].num < f.num
  BY <1>2, <1>3, NodePair DEF OrderInv
<1>7. Queued(n, st[n].sess[i]) BY <1>3 DEF OrderInv
<1>8. MessageOf(f) \in Message /\ MessageOf(f).conn = c /\ MessageOf(f).num = f.num
  BY RecordAssumption, BoundAssumption DEF RecordType, MessageOf, Message, Data
<1> HIDE DEF q
<1>9. /\ p \in Seq(Message) /\ Len(p) = Len(q) + 1 /\ p[Len(q) + 1] = MessageOf(f)
      /\ \A j \in 1 .. Len(q) : p[j] = q[j]
  BY <1>1, <1>8, AppendProperties
<1>10. DOMAIN p = 1 .. Len(q) + 1 BY <1>9, LenProperties
<1> HIDE DEF p, c
<1>11. \A j \in DOMAIN p :
          (j \in DOMAIN q /\ p[j] = q[j]) \/ (j = Len(q) + 1 /\ p[j].num = f.num /\ p[j].conn = c)
  BY <1>1, <1>8, <1>9, <1>10
<1>12. \A m \in Node, g \in RecordType : g \in Records(st'[m]) => g.off + KeyCost(g.len) <= TxBase(m)'
  BY <1>2, OldRecords
<1>13. ASSUME NEW g \in RecordType, g \in Records(st[Peer(n)]), Data(g), g.conn = c,
              g.off >= RxBase(n)'
       PROVE  g.num > f.num
  <2>1. g.num \in Nat /\ g.off \in Nat /\ KeyCost(g.len) \in Nat BY Numbers
  <2>2. SUFFICES ASSUME g.num <= f.num PROVE FALSE
    BY <1>5, <2>1
  <2>3. g.off + KeyCost(g.len) <= f.off \/ g.off = f.off
    BY <1>2, <1>6, <1>13, <2>2 DEF OrderInv, c
  <2> QED BY <1>2, <1>5, <1>13, <2>1, <2>3
<1>14. ASSUME NEW m \in Node, NEW g \in RecordType,
              g \in Records(st'[Peer(m)]), Data(g), g.off >= RxBase(m)'
       PROVE  /\ g.num > read'[m][g.conn]
              /\ \A j \in Slot : Used(st'[m], j) /\ st'[m].sess[j].conn = g.conn =>
                    \A k \in DOMAIN st'[m].sess[j].rx : st'[m].sess[j].rx[k].num < g.num
  <2>1. g.off >= RxBase(m) BY <1>14, BasesGrow, Numbers
  <2>2. g \in Records(st[Peer(m)]) BY <1>2, <1>14, NodePair
  <2>3. /\ g.num > read[m][g.conn]
        /\ \A j \in Slot : Used(st[m], j) /\ st[m].sess[j].conn = g.conn =>
              \A k \in DOMAIN st[m].sess[j].rx : st[m].sess[j].rx[k].num < g.num
    BY <1>14, <2>1, <2>2 DEF OrderInv
  <2>4. ASSUME NEW j \in Slot, Used(st'[m], j), st'[m].sess[j].conn = g.conn,
               NEW k \in DOMAIN st'[m].sess[j].rx
        PROVE  st'[m].sess[j].rx[k].num < g.num
    <3>1. CASE m = n /\ j = i
      <4>1. g.conn = c /\ k \in DOMAIN p /\ st'[m].sess[j].rx[k] = p[k] BY <1>4, <2>4, <3>1
      <4>2. f.num < g.num /\ g.num \in Nat BY <1>13, <1>14, <2>2, <3>1, <4>1, Numbers
      <4>3. \A e \in DOMAIN q : q[e].num < g.num BY <1>3, <2>3, <3>1, <4>1 DEF q
      <4> QED BY <1>11, <4>1, <4>2, <4>3
    <3>2. CASE ~(m = n /\ j = i)
      <4>1. st'[m].sess[j] = st[m].sess[j] BY <1>2, <3>2
      <4> QED BY <2>3, <2>4, <4>1 DEF Used
    <3> QED BY <3>1, <3>2
  <2> QED BY <1>2, <2>3, <2>4
<1>15. ASSUME NEW m \in Node, NEW j \in Slot, Used(st'[m], j) PROVE Queued(m, st[m].sess[j])'
  <2>1. CASE m = n /\ j = i
    <3>1. \A k \in DOMAIN q : /\ q[k].conn = c /\ q[k].num <= wrote[Peer(n)][c]
                              /\ q[k].num > read[n][c]
                              /\ \A e \in DOMAIN q : e < k => q[e].num < q[k].num
      BY <1>3, <1>7 DEF Queued, q
    <3>2. ASSUME NEW k \in DOMAIN p, NEW e \in DOMAIN p, e < k PROVE p[e].num < p[k].num
      <4>1. e \in DOMAIN q /\ p[e] = q[e]
        <5>1. e # Len(q) + 1 BY <1>1, <1>10, <3>2
        <5> QED BY <1>11, <5>1
      <4>2. CASE k \in DOMAIN q /\ p[k] = q[k] BY <3>1, <3>2, <4>1, <4>2
      <4>3. CASE p[k].num = f.num BY <1>6, <4>1, <4>3
      <4> QED BY <1>11, <4>2, <4>3
    <3>3. \A k \in DOMAIN p : /\ p[k].conn = c /\ p[k].num <= wrote[Peer(n)][c]
                              /\ p[k].num > read[n][c]
      BY <1>6, <1>11, <3>1
    <3> QED BY <1>2, <1>4, <2>1, <3>2, <3>3 DEF Queued
  <2>2. CASE ~(m = n /\ j = i)
    <3>1. st'[m].sess[j] = st[m].sess[j] BY <1>2, <2>2
    <3>2. Queued(m, st[m].sess[j]) BY <1>15, <3>1 DEF OrderInv, Used
    <3> QED BY <1>2, <3>1, <3>2 DEF Queued
  <2> QED BY <2>1, <2>2
<1>16. \A m \in Node, g \in RecordType : g \in Records(st'[m]) => g \in Records(st[m]) BY <1>2
<1> QED BY <1>2, <1>12, <1>14, <1>15, <1>16 DEF OrderInv

LEMMA OrderStep ==
    ASSUME Types, Types', Forward, Effect, TagInv, OrderInv
    PROVE  OrderInv'
<1>1. CASE Calm
  <2>1. Silent BY <1>1 DEF Calm, SameSession, Silent, Used
  <2> QED BY <2>1, SilentStep
<1>2. ASSUME NEW n \in Node, NEW i \in Slot, NEW f \in RecordType, Dialed(n, i, f)
      PROVE  OrderInv'
  <2>1. ~Data(f) BY <1>2 DEF Dialed, Carries, Data
  <2>2. \A m \in Node, g \in RecordType : g \in Records(st'[m]) =>
           g \in Records(st[m]) \/ (~Data(g) /\ g.off + KeyCost(g.len) = TxBase(m)')
    BY <1>2, <2>1 DEF Dialed, MayAdd
  <2>3. Silent BY <1>2, <2>2 DEF Dialed, OthersStay, Silent, Used
  <2> QED BY <2>3, SilentStep
<1>3. ASSUME NEW n \in Node, NEW i \in Slot, NEW f \in RecordType, Told(n, i, f)
      PROVE  OrderInv'
  <2>1. ~Data(f) BY <1>3 DEF Told, Carries, Data
  <2>2. \A m \in Node, g \in RecordType : g \in Records(st'[m]) =>
           g \in Records(st[m]) \/ (~Data(g) /\ g.off + KeyCost(g.len) = TxBase(m)')
    BY <1>3, <2>1 DEF Told, MayAdd
  <2>3. Silent BY <1>3, <2>2 DEF Told, OthersStay, Silent, Used
  <2> QED BY <2>3, SilentStep
<1>4. ASSUME NEW n \in Node, NEW i \in Slot, NEW f \in RecordType, NEW g \in RecordType,
             Created(n, i, f, g)
      PROVE  OrderInv'
  <2>1. ~Data(g) BY <1>4 DEF Created, Carries, Data
  <2>2. \A m \in Node, h \in RecordType : h \in Records(st'[m]) =>
           h \in Records(st[m]) \/ (~Data(h) /\ h.off + KeyCost(h.len) = TxBase(m)')
    BY <1>4, <2>1 DEF Created, MayAdd
  <2>3. wrote' = wrote /\ read' = read BY <1>4 DEF Created, Burned
  <2>4. Silent BY <1>4, <2>2, <2>3 DEF Created, OthersStay, Silent, Used
  <2> QED BY <2>4, SilentStep
<1>5. ASSUME NEW n \in Node, NEW i \in Slot, NEW f \in RecordType, Advanced(n, i, f)
      PROVE  OrderInv'
  <2> DEFINE x == st[n].sess[i]
  <2>1. x \in Session /\ st'[n].sess[i] = Advance(x, f) /\ Used(st[n], i)
    BY <1>5, SessionsType DEF Advanced, Matching, Used
  <2>2. CASE f.ctype = "Data" /\ x.state = "Established" /\ Len(x.rx) # RxSlots
    <3>1. Advance(x, f) = [x EXCEPT !.rx = Append(@, MessageOf(f))] BY <2>2 DEF Advance, Push
    <3> QED BY <1>5, <2>1, <2>2, <3>1, PushStep DEF Data
  <2>3. CASE ~(f.ctype = "Data" /\ x.state = "Established" /\ Len(x.rx) # RxSlots)
    <3>1. Advance(x, f).rx = x.rx /\ Advance(x, f).conn = x.conn
      BY <2>1, <2>3 DEF Advance, Push, Session
    <3>2. wrote' = wrote /\ read' = read BY <1>5 DEF Advanced, Burned
    <3>3. Silent BY <1>5, <2>1, <3>1, <3>2 DEF Advanced, OthersStay, Silent, Used
    <3> QED BY <3>3, SilentStep
  <2> QED BY <2>2, <2>3
<1> QED BY <1>1, <1>2, <1>3, <1>4, <1>5, SentStep, TookStep DEF Effect

(***************************************************************************)
(* The theorems.                                                           *)
(***************************************************************************)
NetInv == Types /\ HelloInv /\ TagInv /\ BornInv /\ CloseInv /\ OrderInv

LEMMA InitInv == ASSUME Init PROVE NetInv
<1>1. Types /\ HelloInv /\ TagInv BY InitTypes, InitHello, InitTag
<1>2. \A n \in Node : Records(st[n]) = {} /\ \A i \in Slot : ~Used(st[n], i) BY InitEmpty
<1>3. BornInv /\ CloseInv BY <1>2 DEF BornInv, CloseInv
<1>4. \A n \in Node, c \in Conn : read[n][c] <= wrote[Peer(n)][c] BY NodePair DEF Init
<1>5. OrderInv BY <1>2, <1>4, NodePair DEF OrderInv
<1> QED BY <1>1, <1>3, <1>5 DEF NetInv

LEMMA Inductive == ASSUME NoIdWraps, PortsApart PROVE Spec => []NetInv
<1>1. Init => NetInv BY InitInv
<1>2. NetInv /\ [Next]_vars => NetInv'
  <2> SUFFICES ASSUME NetInv, [Next]_vars PROVE NetInv'
    OBVIOUS
  <2>1. Types' /\ Forward /\ Effect BY NextStep DEF NetInv, Step
  <2> QED BY <2>1, HelloStep, TagStep, BornStep, CloseStays, OrderStep DEF NetInv
<1> QED BY <1>1, <1>2, PTL DEF Spec

(* position() never has a choice: the ports and the id of a record name    *)
(* one session of a node at most.                                          *)
THEOREM NoAmbiguity == ASSUME NoIdWraps, PortsApart PROVE Spec => []NoAmbiguousSession
<1>1. NetInv => NoAmbiguousSession
  <2> SUFFICES ASSUME NetInv, NEW n \in Node, NEW i \in Live(n), NEW j \in Live(n), i # j,
                      st[n].sess[i].id = st[n].sess[j].id,
                      st[n].sess[i].lport = st[n].sess[j].lport,
                      st[n].sess[i].pport = st[n].sess[j].pport
               PROVE  FALSE
    BY DEF NoAmbiguousSession
  <2> DEFINE x == st[n].sess[i]
             y == st[n].sess[j]
  <2>1. i \in Slot /\ j \in Slot /\ Used(st[n], i) /\ Used(st[n], j) BY DEF Live, Used
  <2>2. PICK D \in SUBSET Conn, T \in [Conn -> Identity] : IdentityMap(D, T)
    BY DEF TagInv, NetInv
  <2>3. x.conn \in D /\ y.conn \in D /\ T[x.conn] = T[y.conn] BY <2>1, <2>2 DEF IdentityMap
  <2>4. x.conn = y.conn BY <2>2, <2>3 DEF IdentityMap
  <2> QED BY <2>1, <2>4 DEF NetInv, TagInv
<1> QED BY <1>1, Inductive, PTL

(* A client whose connect has been answered has a session at the server,   *)
(* one, and the two ends of a connection name each other.                  *)
THEOREM EndsDoAgree == ASSUME NoIdWraps, PortsApart PROVE Spec => []EndsAgree
<1>1. NetInv => EndsAgree
  <2> SUFFICES ASSUME NetInv, NEW n \in Node, NEW i \in Live(n)
               PROVE  LET x == st[n].sess[i]
                      IN  /\ (IsClient(x) /\ x.state # "HelloSent") => born[x.conn] = 1
                          /\ \A j \in Live(Peer(n)) :
                                LET y == st[Peer(n)].sess[j]
                                IN  y.conn = x.conn =>
                                      y.id = x.id /\ y.lport = x.pport /\ y.pport = x.lport
    BY DEF EndsAgree
  <2> DEFINE x == st[n].sess[i]
  <2>1. i \in Slot /\ Used(st[n], i) BY DEF Live, Used
  <2>2. ASSUME x.state # "HelloSent" PROVE born[x.conn] = 1
    <3>1. x.conn \in Conn BY <2>1, SessionsType DEF NetInv
    <3>2. born[x.conn] > 0 BY <2>1, <2>2 DEF NetInv, BornInv
    <3>3. born[x.conn] <= 1 /\ born[x.conn] \in Nat
      BY <3>1 DEF NetInv, HelloInv, OneSessionPerHello, Types
    <3> QED BY <3>2, <3>3
  <2>3. ASSUME NEW j \in Live(Peer(n)), st[Peer(n)].sess[j].conn = x.conn
        PROVE  LET y == st[Peer(n)].sess[j]
               IN  y.id = x.id /\ y.lport = x.pport /\ y.pport = x.lport
    <3>1. j \in Slot /\ Used(st[Peer(n)], j) BY DEF Live, Used
    <3> QED BY <2>1, <2>3, <3>1, OtherEnd DEF NetInv
  <2> QED BY <2>2, <2>3
<1> QED BY <1>1, Inductive, PTL

(* Only the peer's own close closes a session: the peer has none for the   *)
(* connection any more.                                                    *)
THEOREM PeerCloses == ASSUME NoIdWraps, PortsApart PROVE Spec => []ClosedByPeer
<1>1. NetInv => ClosedByPeer BY DEF NetInv, CloseInv, ClosedByPeer, Live, Used
<1> QED BY <1>1, Inductive, PTL

(* What recv hands out on a session was sent by the peer on that           *)
(* connection, in order, each message once, whatever slots, ports and      *)
(* frames are reused, lost, repeated and reordered.                        *)
THEOREM SessionsAreIsolated == ASSUME NoIdWraps, PortsApart PROVE Spec => []SessionIsolation
<1>1. NetInv => SessionIsolation
  <2> SUFFICES ASSUME NetInv, NEW n \in Node, NEW i \in Live(n),
                      NEW j \in DOMAIN st[n].sess[i].rx
               PROVE  LET x == st[n].sess[i]
                          num(k) == x.rx[k].num
                      IN  /\ x.rx[j].conn = x.conn
                          /\ num(j) <= wrote[Peer(n)][x.conn]
                          /\ num(j) > IF j = 1 THEN read[n][x.conn] ELSE num(j - 1)
    BY DEF SessionIsolation
  <2> DEFINE x == st[n].sess[i]
  <2>1. i \in Slot /\ Used(st[n], i) BY DEF Live, Used
  <2>2. Queued(n, x) BY <2>1 DEF NetInv, OrderInv
  <2>3. DOMAIN x.rx = 1 .. Len(x.rx) /\ Len(x.rx) \in Nat
        /\ \A k \in DOMAIN x.rx : x.rx[k].num \in Nat
    BY <2>1, QueueType DEF NetInv
  <2>4. j # 1 => j - 1 \in DOMAIN x.rx /\ j - 1 < j BY <2>3
  <2>5. j # 1 => x.rx[j - 1].num < x.rx[j].num BY <2>2, <2>4 DEF Queued
  <2>6. x.rx[j].num > IF j = 1 THEN read[n][x.conn] ELSE x.rx[j - 1].num
    BY <2>2, <2>3, <2>4, <2>5 DEF Queued
  <2> QED BY <2>2, <2>6 DEF Queued
<1> QED BY <1>1, Inductive, PTL

(***************************************************************************)
(* The stacks implement the socket service.                                *)
(***************************************************************************)
LEMMA EndsAre ==
    /\ \A e : e \in Ends <=> \E n \in Node, i \in Slot : Used(st[n], i) /\ e = EndOf(n, i)
    /\ \A e : e \in Ends' <=> \E n \in Node, i \in Slot : Used(st'[n], i) /\ e = EndOf(n, i)'
BY DEF Ends, Live, Used

LEMMA EndFields ==
    ASSUME NEW n, NEW i
    PROVE  /\ EndOf(n, i).node = n /\ EndOf(n, i).conn = st[n].sess[i].conn
           /\ EndOf(n, i).state = st[n].sess[i].state
           /\ EndOf(n, i).inbox = NumbersOf(st[n].sess[i].rx)
BY DEF EndOf

(* A node has one end of a connection at most.                             *)
LEMMA OneEnd ==
    ASSUME TagInv, NEW n \in Node, NEW i \in Slot, Used(st[n], i),
           NEW m \in Node, NEW j \in Slot, Used(st[m], j), EndOf(m, j) = EndOf(n, i)
    PROVE  m = n /\ j = i
<1>1. m = n /\ st[m].sess[j].conn = st[n].sess[i].conn BY EndFields
<1> QED BY <1>1 DEF TagInv

LEMMA HasEndIs ==
    ASSUME NEW n \in Node, NEW c
    PROVE  Sockets!HasEnd(n, c) <=> \E i \in Slot : Used(st[n], i) /\ st[n].sess[i].conn = c
BY EndsAre, EndFields DEF Sockets!HasEnd

(* Whatever happens to one session, the other ends stay as they are.       *)
OtherEndsStay(n, i) ==
    \A m \in Node, j \in Slot : ~(m = n /\ j = i) =>
        (Used(st'[m], j) <=> Used(st[m], j)) /\ EndOf(m, j)' = EndOf(m, j)

LEMMA SameEnd ==
    ASSUME NEW n, NEW i, SameSession(st'[n].sess[i], st[n].sess[i])
    PROVE  (Used(st'[n], i) <=> Used(st[n], i)) /\ EndOf(n, i)' = EndOf(n, i)
BY DEF SameSession, Used, EndOf

LEMMA OthersAlike ==
    ASSUME NEW n \in Node, NEW i \in Slot, OthersStay(n, i)
    PROVE  OtherEndsStay(n, i)
BY SameEnd, Reflexive DEF OthersStay, OtherEndsStay

LEMMA EndGone ==
    ASSUME TagInv, NEW n \in Node, NEW i \in Slot, OtherEndsStay(n, i),
           Used(st[n], i), ~Used(st'[n], i)
    PROVE  EndOf(n, i) \in Ends /\ Ends' = Ends \ {EndOf(n, i)}
<1>1. EndOf(n, i) \in Ends BY EndsAre
<1>2. ASSUME NEW e \in Ends' PROVE e \in Ends /\ e # EndOf(n, i)
  <2>1. PICK m \in Node, j \in Slot : Used(st'[m], j) /\ e = EndOf(m, j)' BY EndsAre
  <2>2. ~(m = n /\ j = i) /\ Used(st[m], j) /\ e = EndOf(m, j) BY <2>1 DEF OtherEndsStay
  <2> QED BY <2>2, EndsAre, OneEnd
<1>3. ASSUME NEW e \in Ends, e # EndOf(n, i) PROVE e \in Ends'
  <2>1. PICK m \in Node, j \in Slot : Used(st[m], j) /\ e = EndOf(m, j) BY EndsAre
  <2>2. ~(m = n /\ j = i) BY <1>3, <2>1
  <2>3. Used(st'[m], j) /\ e = EndOf(m, j)' BY <2>1, <2>2 DEF OtherEndsStay
  <2> QED BY <2>3, EndsAre
<1> QED BY <1>1, <1>2, <1>3

LEMMA EndMade ==
    ASSUME NEW n \in Node, NEW i \in Slot, OtherEndsStay(n, i),
           ~Used(st[n], i), Used(st'[n], i)
    PROVE  Ends' = Ends \cup {EndOf(n, i)'}
<1>1. ASSUME NEW e \in Ends' PROVE e \in Ends \cup {EndOf(n, i)'}
  <2>1. PICK m \in Node, j \in Slot : Used(st'[m], j) /\ e = EndOf(m, j)' BY EndsAre
  <2>2. ~(m = n /\ j = i) => Used(st[m], j) /\ e = EndOf(m, j) BY <2>1 DEF OtherEndsStay
  <2> QED BY <2>1, <2>2, EndsAre
<1>2. ASSUME NEW e \in Ends PROVE e \in Ends'
  <2>1. PICK m \in Node, j \in Slot : Used(st[m], j) /\ e = EndOf(m, j) BY EndsAre
  <2>2. Used(st'[m], j) /\ e = EndOf(m, j)' BY <2>1 DEF OtherEndsStay
  <2> QED BY <2>2, EndsAre
<1>3. EndOf(n, i)' \in Ends' BY EndsAre
<1> QED BY <1>1, <1>2, <1>3

LEMMA EndTurned ==
    ASSUME TagInv, NEW n \in Node, NEW i \in Slot, OtherEndsStay(n, i),
           Used(st[n], i), Used(st'[n], i)
    PROVE  EndOf(n, i) \in Ends /\ Ends' = (Ends \ {EndOf(n, i)}) \cup {EndOf(n, i)'}
<1>1. EndOf(n, i) \in Ends /\ EndOf(n, i)' \in Ends' BY EndsAre
<1>2. ASSUME NEW e \in Ends' PROVE e = EndOf(n, i)' \/ (e \in Ends /\ e # EndOf(n, i))
  <2>1. PICK m \in Node, j \in Slot : Used(st'[m], j) /\ e = EndOf(m, j)' BY EndsAre
  <2>2. CASE m = n /\ j = i BY <2>1, <2>2
  <2>3. CASE ~(m = n /\ j = i)
    <3>1. Used(st[m], j) /\ e = EndOf(m, j) BY <2>1, <2>3 DEF OtherEndsStay
    <3> QED BY <2>3, <3>1, EndsAre, OneEnd
  <2> QED BY <2>2, <2>3
<1>3. ASSUME NEW e \in Ends, e # EndOf(n, i) PROVE e \in Ends'
  <2>1. PICK m \in Node, j \in Slot : Used(st[m], j) /\ e = EndOf(m, j) BY EndsAre
  <2>2. ~(m = n /\ j = i) BY <1>3, <2>1
  <2>3. Used(st'[m], j) /\ e = EndOf(m, j)' BY <2>1, <2>2 DEF OtherEndsStay
  <2> QED BY <2>3, EndsAre
<1> QED BY <1>1, <1>2, <1>3

LEMMA EndsSame ==
    ASSUME \A m \in Node, j \in Slot :
              /\ Used(st'[m], j) <=> Used(st[m], j)
              /\ Used(st[m], j) => EndOf(m, j)' = EndOf(m, j)
    PROVE  Ends' = Ends
<1>1. \A e : e \in Ends' <=> e \in Ends BY EndsAre
<1> QED BY <1>1

LEMMA ServedSame == ASSUME born' = born PROVE Served' = Served
BY DEF Served

(* close, and a session that goes without the peer being told.             *)
LEMMA LeaveStep ==
    ASSUME TagInv, NEW n \in Node, NEW i \in Slot, OtherEndsStay(n, i),
           Used(st[n], i), ~Used(st'[n], i), UNCHANGED <<dials, born, wrote, read>>
    PROVE  Sockets!Next
<1>1. EndOf(n, i) \in Ends /\ Ends' = Ends \ {EndOf(n, i)} BY EndGone
<1>2. Sockets!Leave(EndOf(n, i)) BY <1>1, ServedSame DEF Sockets!Leave
<1> QED BY <1>1, <1>2 DEF Sockets!Next

(* A calm step: the ends stay as they are, or one of them goes.            *)
LEMMA CalmEnds ==
    ASSUME Calm
    PROVE  \/ Ends' = Ends
           \/ \E n \in Node, i \in Slot :
                 OtherEndsStay(n, i) /\ Used(st[n], i) /\ ~Used(st'[n], i)
<1>1. PICK n \in Node, i \in Slot : \A m \in Node, j \in Slot :
         (m = n /\ j = i) \/ SameSession(st'[m].sess[j], st[m].sess[j])
  BY DEF Calm, OneMoves
<1>2. OtherEndsStay(n, i) BY <1>1, SameEnd DEF OtherEndsStay
<1>3. CASE SameSession(st'[n].sess[i], st[n].sess[i])
  <2>1. \A m \in Node, j \in Slot : SameSession(st'[m].sess[j], st[m].sess[j]) BY <1>1, <1>3
  <2> QED BY <2>1, SameEnd, EndsSame
<1>4. CASE st'[n].sess[i].state = "Free" /\ ~Used(st[n], i)
  <2>1. ~Used(st'[n], i) BY <1>4 DEF Used
  <2> QED BY <1>2, <1>4, <2>1, EndsSame DEF OtherEndsStay
<1>5. CASE st'[n].sess[i].state = "Free" /\ Used(st[n], i)
  <2>1. ~Used(st'[n], i) BY <1>5 DEF Used
  <2> QED BY <1>2, <1>5, <2>1
<1> QED BY <1>3, <1>4, <1>5 DEF Calm

(* connect, also when the Hello cannot be sent.                            *)
LEMMA DialStep ==
    ASSUME Types, NEW n \in Node, NEW p \in Ports, Connect(n, p)
    PROVE  Sockets!Next
<1>1. /\ dials < MaxDials /\ dials' = dials + 1 /\ UNCHANGED <<born, wrote, read>>
      /\ dials + 1 \in Conn
  <2>1. dials < MaxDials /\ dials' = dials + 1 /\ UNCHANGED <<born, wrote, read>> BY DEF Connect
  <2> QED BY <2>1, BoundAssumption DEF Types, Conn
<1>2. CASE Calm /\ NoneLeaves
  <2>1. Ends' = Ends BY <1>2, CalmEnds DEF NoneLeaves
  <2>2. Sockets!Dial(n) BY <1>1, <2>1, ServedSame DEF Sockets!Dial
  <2> QED BY <2>2 DEF Sockets!Next
<1>3. ASSUME NEW m \in Node, NEW i \in Slot, NEW f \in RecordType, Dialed(m, i, f)
      PROVE  Sockets!Next
  <2>1. ~Used(st[m], i) /\ Used(st'[m], i) /\ OtherEndsStay(m, i)
    BY <1>3, OthersAlike DEF Dialed, Used
  <2>2. NumbersOf(<<>>) = {} BY EmptyQueue DEF NumbersOf, Range
  <2>3. EndOf(m, i)' = Sockets!End(m, dials + 1, "HelloSent", {})
    BY <1>3, <2>2 DEF Dialed, EndOf, Sockets!End
  <2>4. Ends' = Ends \cup {EndOf(m, i)'} BY <2>1, EndMade
  <2>5. Sockets!Dial(m) BY <1>1, <2>3, <2>4, ServedSame DEF Sockets!Dial
  <2> QED BY <2>5 DEF Sockets!Next
<1> QED BY <1>2, <1>3, ConnectStep

(* send                                                                    *)
LEMMA WriteStep ==
    ASSUME Types, NEW n \in Node, NEW i \in Slot, NEW f \in RecordType, Sent(n, i, f),
           dials' = dials
    PROVE  Sockets!Next
<1> DEFINE e == EndOf(n, i)
<1>1. \A m \in Node : st'[m].sess = st[m].sess BY DEF Sent, Types
<1>2. Ends' = Ends BY <1>1, SameEnd, Reflexive, EndsSame
<1>3. e \in Ends BY EndsAre DEF Sent
<1>4. e.state = "Established" /\ e.node = n /\ e.conn = f.conn BY EndFields DEF Sent, Carries
<1>5. wrote' = [wrote EXCEPT ![n][f.conn] = @ + 1] /\ born' = born /\ read' = read BY DEF Sent
<1> HIDE DEF e
<1>6. Sockets!Write(e) BY <1>2, <1>4, <1>5, ServedSame DEF Sockets!Write
<1> QED BY <1>3, <1>6 DEF Sockets!Next

(* What an append and a removal do to the numbers of a queue.              *)
LEMMA NumbersAppended ==
    ASSUME NEW q \in Seq(Message), NEW m \in Message
    PROVE  NumbersOf(Append(q, m)) = NumbersOf(q) \cup {m.num}
<1>1. /\ Append(q, m) \in Seq(Message) /\ Len(Append(q, m)) = Len(q) + 1
      /\ \A j \in 1 .. Len(q) : Append(q, m)[j] = q[j]
      /\ Append(q, m)[Len(q) + 1] = m
  BY AppendProperties
<1>2. Len(q) \in Nat /\ DOMAIN q = 1 .. Len(q) /\ DOMAIN Append(q, m) = 1 .. Len(q) + 1
  BY <1>1, LenProperties
<1>3. ASSUME NEW k \in NumbersOf(Append(q, m)) PROVE k \in NumbersOf(q) \cup {m.num}
  <2>1. PICK j \in 1 .. Len(q) + 1 : k = Append(q, m)[j].num BY <1>2 DEF NumbersOf, Range
  <2>2. CASE j = Len(q) + 1 BY <1>1, <2>1, <2>2
  <2>3. CASE j \in 1 .. Len(q) BY <1>1, <1>2, <2>1, <2>3 DEF NumbersOf, Range
  <2> QED BY <1>2, <2>2, <2>3
<1>4. ASSUME NEW k \in NumbersOf(q) PROVE k \in NumbersOf(Append(q, m))
  <2>1. PICK j \in 1 .. Len(q) : k = q[j].num BY <1>2 DEF NumbersOf, Range
  <2>2. j \in 1 .. Len(q) + 1 /\ k = Append(q, m)[j].num BY <1>1, <1>2, <2>1
  <2> QED BY <1>2, <2>2 DEF NumbersOf, Range
<1>5. m.num \in NumbersOf(Append(q, m))
  <2>1. Len(q) + 1 \in 1 .. Len(q) + 1 BY <1>2
  <2> QED BY <1>1, <1>2, <2>1 DEF NumbersOf, Range
<1> QED BY <1>3, <1>4, <1>5

LEMMA NumbersTaken ==
    ASSUME NEW q \in Seq(Message), q # <<>>,
           \A j, k \in DOMAIN q : k < j => q[k].num < q[j].num
    PROVE  /\ Head(q).num \in NumbersOf(q)
           /\ \A m \in NumbersOf(q) : Head(q).num <= m
           /\ NumbersOf(Tail(q)) = NumbersOf(q) \ {Head(q).num}
<1>1. /\ Head(q) = q[1] /\ Tail(q) \in Seq(Message) /\ Len(Tail(q)) = Len(q) - 1
      /\ \A j \in 1 .. Len(Tail(q)) : Tail(q)[j] = q[j + 1]
  BY HeadTailProperties
<1>2. /\ Len(q) \in Nat /\ DOMAIN q = 1 .. Len(q) /\ Len(q) # 0
      /\ DOMAIN Tail(q) = 1 .. Len(q) - 1
  BY <1>1, LenProperties, EmptySeq
<1>3. \A j \in 1 .. Len(q) : q[j].num \in Nat BY <1>2, ElementOfSeq, Numbers
<1>4. 1 \in DOMAIN q /\ q[1].num \in Nat BY <1>2, <1>3
<1>5. \A j \in 1 .. Len(q) : j # 1 => q[1].num < q[j].num BY <1>2, <1>4
<1>6. ASSUME NEW m \in NumbersOf(q) PROVE q[1].num <= m
  <2>1. PICK j \in 1 .. Len(q) : m = q[j].num BY <1>2, <1>6 DEF NumbersOf, Range
  <2> QED BY <1>3, <1>4, <1>5, <2>1
<1>7. ASSUME NEW m \in NumbersOf(Tail(q)) PROVE m \in NumbersOf(q) /\ m # q[1].num
  <2>1. PICK j \in 1 .. Len(q) - 1 : m = Tail(q)[j].num BY <1>2 DEF NumbersOf, Range
  <2>2. j + 1 \in 1 .. Len(q) /\ j + 1 # 1 /\ m = q[j + 1].num BY <1>1, <1>2, <2>1
  <2>3. m \in NumbersOf(q) BY <1>2, <2>2 DEF NumbersOf, Range
  <2> QED BY <1>3, <1>4, <1>5, <2>2, <2>3
<1>8. ASSUME NEW m \in NumbersOf(q), m # q[1].num PROVE m \in NumbersOf(Tail(q))
  <2>1. PICK j \in 1 .. Len(q) : m = q[j].num BY <1>2 DEF NumbersOf, Range
  <2>2. j - 1 \in 1 .. Len(q) - 1 /\ (j - 1) + 1 = j BY <1>2, <1>8, <2>1
  <2>3. Tail(q)[j - 1].num = m BY <1>1, <1>2, <2>1, <2>2
  <2> QED BY <1>2, <2>2, <2>3 DEF NumbersOf, Range
<1>9. q[1].num \in NumbersOf(q) BY <1>4 DEF NumbersOf, Range
<1> QED BY <1>1, <1>6, <1>7, <1>8, <1>9

(* An end whose session changes only its state, or only its queue.         *)
LEMMA StateTurned ==
    ASSUME NEW n, NEW i, NEW s,
           st'[n].sess[i].conn = st[n].sess[i].conn, st'[n].sess[i].rx = st[n].sess[i].rx,
           st'[n].sess[i].state = s
    PROVE  EndOf(n, i)' = [EndOf(n, i) EXCEPT !.state = s]
<1> DEFINE c == st[n].sess[i].conn
           q == st[n].sess[i].rx
<1>1. EndOf(n, i)' = [node |-> n, conn |-> c, state |-> s, inbox |-> NumbersOf(q)]
  BY DEF EndOf, NumbersOf
<1>2. [EndOf(n, i) EXCEPT !.state = s]
        = [node |-> n, conn |-> c, state |-> s, inbox |-> NumbersOf(q)]
  BY DEF EndOf
<1> QED BY <1>1, <1>2

LEMMA InboxTurned ==
    ASSUME NEW n, NEW i, NEW q,
           st'[n].sess[i].conn = st[n].sess[i].conn, st'[n].sess[i].rx = q,
           st'[n].sess[i].state = st[n].sess[i].state
    PROVE  EndOf(n, i)' = [EndOf(n, i) EXCEPT !.inbox = NumbersOf(q)]
<1> DEFINE c == st[n].sess[i].conn
           s == st[n].sess[i].state
<1>1. EndOf(n, i)' = [node |-> n, conn |-> c, state |-> s, inbox |-> NumbersOf(q)]
  <2>1. NumbersOf(st[n].sess[i].rx)' = NumbersOf(q) BY DEF NumbersOf
  <2> QED BY <2>1 DEF EndOf
<1>2. [EndOf(n, i) EXCEPT !.inbox = NumbersOf(q)]
        = [node |-> n, conn |-> c, state |-> s, inbox |-> NumbersOf(q)]
  BY DEF EndOf
<1> QED BY <1>1, <1>2

(* recv                                                                    *)
LEMMA ReadStep ==
    ASSUME Types, TagInv, OrderInv, NEW n \in Node, NEW i \in Slot, Took(n, i), dials' = dials
    PROVE  Sockets!Next
<1> DEFINE e == EndOf(n, i)
           x == st[n].sess[i]
           k == Head(x.rx).num
<1>1. /\ Used(st[n], i) /\ x \in Session /\ x.rx \in Seq(Message) /\ x.rx # <<>>
      /\ Queued(n, x)
  BY SessionsType DEF Took, OrderInv, Session
<1>2. /\ k \in NumbersOf(x.rx) /\ (\A m \in NumbersOf(x.rx) : k <= m)
      /\ NumbersOf(Tail(x.rx)) = NumbersOf(x.rx) \ {k}
  BY <1>1, NumbersTaken DEF Queued
<1>3. Head(x.rx).conn = x.conn
  <2>1. Head(x.rx) = x.rx[1] /\ 1 \in DOMAIN x.rx
    BY <1>1, HeadTailProperties, LenProperties, EmptySeq
  <2> QED BY <1>1, <2>1 DEF Queued
<1>4. /\ read' = [read EXCEPT ![n][x.conn] = k] /\ born' = born /\ wrote' = wrote
      /\ st'[n].sess[i].conn = x.conn /\ st'[n].sess[i].state = x.state
      /\ st'[n].sess[i].rx = Tail(x.rx)
  BY <1>1, <1>3 DEF Took, Session
<1>5. EndOf(n, i)' = [e EXCEPT !.inbox = NumbersOf(Tail(x.rx))] /\ Used(st'[n], i)
  <2>1. EndOf(n, i)' = [e EXCEPT !.inbox = NumbersOf(Tail(x.rx))] BY <1>4, InboxTurned
  <2> QED BY <1>1, <1>4, <2>1 DEF Used
<1>6. e.node = n /\ e.conn = x.conn /\ e.state = x.state /\ e.inbox = NumbersOf(x.rx)
  BY EndFields
<1>7. EndOf(n, i)' = [e EXCEPT !.inbox = @ \ {k}] BY <1>2, <1>5, <1>6
<1>8. e \in Ends /\ Ends' = (Ends \ {e}) \cup {EndOf(n, i)'}
  BY <1>1, <1>5, EndTurned, OthersAlike DEF Took
<1> HIDE DEF e, x, k
<1>9. Sockets!Read(e)
  BY <1>2, <1>4, <1>6, <1>7, <1>8, ServedSame DEF Sockets!Read, Sockets!Turn
<1> QED BY <1>8, <1>9 DEF Sockets!Next

(* A Hello that creates a session.                                         *)
LEMMA ServeStep ==
    ASSUME Types, HelloInv, TagInv, NEW n \in Node, NEW i \in Slot, NEW f \in RecordType,
           NEW g \in RecordType, Created(n, i, f, g), dials' = dials
    PROVE  Sockets!Next
<1> DEFINE c == f.conn
<1>1. f.ctype = "Hello" /\ f \in Records(st[Peer(n)]) BY DEF Created, FreshHello, Burned
<1>2. born[c] = 0 /\ c \in Conn /\ born \in [Conn -> Nat] BY <1>1, FirstTime DEF Created, Types
<1>3. c <= dials BY <1>1, NodePair DEF HelloInv
<1>4. ~Sockets!HasEnd(n, c) BY <1>1, HelloIsNew, HasEndIs DEF Created
<1>5. c \notin Served /\ Served' = Served \cup {c}
  <2>1. born' = [born EXCEPT ![c] = born[c] + 1] BY DEF Created
  <2>2. born'[c] > 0 /\ \A d \in Conn : d # c => born'[d] = born[d] BY <1>2, <2>1
  <2> QED BY <1>2, <2>2 DEF Served
<1>6. ~Used(st[n], i) /\ Used(st'[n], i) /\ OtherEndsStay(n, i)
  BY OthersAlike DEF Created, Used
<1>7. NumbersOf(<<>>) = {} BY EmptyQueue DEF NumbersOf, Range
<1>8. EndOf(n, i)' = Sockets!End(n, c, "Established", {})
  BY <1>7 DEF Created, EndOf, Sockets!End
<1>9. Ends' = Ends \cup {EndOf(n, i)'} BY <1>6, EndMade
<1>10. wrote' = wrote /\ read' = read BY DEF Created, Burned
<1> HIDE DEF c
<1>11. Sockets!Serve(n, c) BY <1>3, <1>4, <1>5, <1>8, <1>9, <1>10 DEF Sockets!Serve
<1> QED BY <1>2, <1>11 DEF Sockets!Next

(* A record for a session: its end opens, closes, gets a message, or stays *)
(* as it is.                                                               *)
LEMMA AdvancedStep ==
    ASSUME NetInv, NetInv', NEW n \in Node, NEW i \in Slot, NEW f \in RecordType,
           Advanced(n, i, f), dials' = dials
    PROVE  Sockets!Next \/ UNCHANGED Sockets!vars
<1> DEFINE x == st[n].sess[i]
           y == st'[n].sess[i]
           e == EndOf(n, i)
<1>1. /\ x \in Session /\ Used(st[n], i) /\ y = Advance(x, f) /\ OtherEndsStay(n, i)
      /\ f \in Records(st[Peer(n)]) /\ born' = born /\ wrote' = wrote /\ read' = read
  BY SessionsType, OthersAlike DEF Advanced, Burned, Matching, Used, NetInv
<1>2. f.conn = x.conn /\ x.conn \in Conn
  <2>1. st[n].sess[i].pport = f.sport /\ st[n].sess[i].lport = f.dport /\ st[n].sess[i].id = f.id
    BY DEF Advanced, Matching
  <2> QED BY <1>1, <2>1, RightConnection, SessionsType DEF NetInv
<1>3. y.conn = x.conn /\ y.state # "Free" /\ Used(st'[n], i)
  BY <1>1, AdvanceType DEF Used
<1>4. e \in Ends /\ Ends' = (Ends \ {e}) \cup {EndOf(n, i)'}
  BY <1>1, <1>3, EndTurned DEF NetInv
<1>5. e.node = n /\ e.conn = x.conn /\ e.state = x.state /\ e.inbox = NumbersOf(x.rx)
  BY EndFields
<1>6. y.state # "HelloSent" => x.conn \in Served
  <2>1. y.state # "HelloSent" => born'[y.conn] > 0 BY <1>3 DEF NetInv, BornInv
  <2> QED BY <1>1, <1>2, <1>3, <2>1 DEF Served
<1>7. Served' = Served BY <1>1, ServedSame
<1>8. CASE y = x
  <2>1. Ends' = Ends
    <3>1. SameSession(y, x) BY <1>8 DEF SameSession
    <3> QED BY <1>4, <3>1, SameEnd
  <2> QED BY <1>1, <1>7, <2>1 DEF Sockets!vars
<1>9. CASE f.ctype = "HelloAck" /\ x.state = "HelloSent"
  <2>1. y.state = "Established" /\ y.rx = x.rx BY <1>1, <1>9 DEF Advance, Session
  <2>2. EndOf(n, i)' = [e EXCEPT !.state = "Established"] BY <1>3, <2>1, StateTurned
  <2>3. x.conn \in Served BY <1>6, <2>1
  <2> HIDE DEF e, x, y
  <2>4. Sockets!Open(e)
    BY <1>1, <1>4, <1>5, <1>7, <1>9, <2>2, <2>3 DEF Sockets!Open, Sockets!Turn
  <2> QED BY <1>4, <2>4 DEF Sockets!Next
<1>10. CASE f.ctype = "Close" /\ x.state # "Closed"
  <2>1. y.state = "Closed" /\ y.rx = x.rx BY <1>1, <1>10 DEF Advance, Session
  <2>2. EndOf(n, i)' = [e EXCEPT !.state = "Closed"] BY <1>3, <2>1, StateTurned
  <2>3. x.conn \in Served BY <1>6, <2>1
  <2>4. ~Sockets!HasEnd(Peer(n), x.conn)
    BY <1>1, <1>2, <1>10, NodePair, HasEndIs DEF NetInv, CloseInv
  <2> HIDE DEF e, x, y
  <2>5. Sockets!PeerLeft(e)
    BY <1>1, <1>4, <1>5, <1>7, <1>10, <2>2, <2>3, <2>4 DEF Sockets!PeerLeft, Sockets!Turn
  <2> QED BY <1>4, <2>5 DEF Sockets!Next
<1>11. CASE f.ctype = "Data" /\ x.state = "Established" /\ y # x
  <2> DEFINE k == f.num
             q == Append(x.rx, MessageOf(f))
  <2>1. /\ f.off >= RxBase(n) /\ Data(f) /\ k \in Nat /\ Peer(n) \in Node /\ Peer(Peer(n)) = n
        /\ MessageOf(f) \in Message /\ MessageOf(f).num = k /\ x.rx \in Seq(Message)
    <3>1. MessageOf(f) \in Message
      BY <1>11, BoundAssumption, RecordAssumption DEF RecordType, MessageOf, Message
    <3>2. RxBase(n) <= f.off /\ f.off \in Nat /\ RxBase(n) \in Nat
      BY Numbers, BasesType DEF Advanced, Burned, NetInv
    <3> QED BY <1>1, <1>11, <3>1, <3>2, NodePair, Numbers DEF Data, MessageOf, Session
  <2>2. /\ k > read[n][x.conn] /\ k <= wrote[Peer(n)][x.conn]
        /\ \A j \in DOMAIN x.rx : x.rx[j].num < k
    BY <1>1, <1>2, <2>1 DEF NetInv, OrderInv
  <2>3. k \in read[n][x.conn] + 1 .. wrote[Peer(n)][x.conn]
    BY <1>2, <2>1, <2>2, CountsType DEF NetInv
  <2>4. \A m \in NumbersOf(x.rx) : m < k BY <2>2 DEF NumbersOf, Range
  <2>5. y.rx = q /\ y.state = x.state
    <3>1. y = Push(x, MessageOf(f)) BY <1>1, <1>11 DEF Advance
    <3>2. y = [x EXCEPT !.rx = Append(@, MessageOf(f))] BY <1>11, <3>1 DEF Push
    <3> QED BY <1>1, <3>2 DEF Session
  <2>6. NumbersOf(q) = NumbersOf(x.rx) \cup {k} BY <2>1, NumbersAppended
  <2> HIDE DEF k, q
  <2>7. EndOf(n, i)' = [e EXCEPT !.inbox = NumbersOf(q)] BY <1>3, <2>5, InboxTurned
  <2>8. EndOf(n, i)' = [e EXCEPT !.inbox = @ \cup {k}] BY <1>5, <2>6, <2>7
  <2> HIDE DEF e, x, y
  <2>9. Sockets!Deliver(e)
    BY <1>1, <1>4, <1>5, <1>7, <1>11, <2>3, <2>4, <2>8 DEF Sockets!Deliver, Sockets!Turn
  <2> QED BY <1>4, <2>9 DEF Sockets!Next
<1>12. CASE /\ ~(f.ctype = "HelloAck" /\ x.state = "HelloSent")
            /\ ~(f.ctype = "Data" /\ x.state = "Established")
            /\ ~(f.ctype = "Close" /\ x.state # "Closed")
            /\ y # x
  <2>1. f.ctype = "Close" /\ x.state = "Closed" BY <1>1, <1>12 DEF Advance
  <2>2. y = [x EXCEPT !.state = "Closed"] BY <1>1, <2>1 DEF Advance
  <2>3. y = x BY <1>1, <2>1, <2>2 DEF Session
  <2> QED BY <1>12, <2>3
<1> QED BY <1>8, <1>9, <1>10, <1>11, <1>12

(* Only connect counts a connection.                                       *)
LEMMA OnlyConnectDials ==
    ASSUME [Next]_vars
    PROVE  dials' = dials \/ \E n \in Node, p \in Ports : Connect(n, p)
<1>1. CASE UNCHANGED vars BY <1>1 DEF vars
<1>2. CASE L1Block BY <1>2 DEF L1Block
<1>3. ASSUME NEW n \in Node, Network(n) PROVE dials' = dials
  BY <1>3 DEF Network, Lose, Receive
<1>4. ASSUME NEW n \in Node, App(n), ~\E p \in Ports : Connect(n, p) PROVE dials' = dials
  <2>1. ASSUME NEW p \in Ports, Listen(n, p) \/ Accept(n, p) PROVE dials' = dials
    BY <2>1 DEF Listen, Accept, vars
  <2>2. CASE ConnectUnresolved(n) BY <2>2 DEF ConnectUnresolved
  <2>3. ASSUME NEW i \in Slot, Close(n, i) PROVE dials' = dials BY <2>3 DEF Close
  <2>4. ASSUME NEW i \in Slot, NEW len \in 1 .. MaxPayload, Recv(n, i, len) \/ Send(n, i, len)
        PROVE  dials' = dials
    BY <2>4 DEF Recv, Send, vars
  <2> QED BY <1>4, <2>1, <2>2, <2>3, <2>4 DEF App
<1> QED BY <1>1, <1>2, <1>3, <1>4 DEF Next

LEMMA SocketStep ==
    ASSUME NetInv, NetInv', [Next]_vars
    PROVE  [Sockets!Next]_(Sockets!vars)
<1>1. Types /\ HelloInv /\ TagInv /\ OrderInv BY DEF NetInv
<1>2. CASE \E n \in Node, p \in Ports : Connect(n, p) BY <1>1, <1>2, DialStep
<1>3. CASE dials' = dials
  <2>1. Effect BY <1>1, NextStep DEF Step
  <2>2. CASE Calm
    <3>1. born' = born /\ wrote' = wrote /\ read' = read /\ Served' = Served
      BY <2>2, ServedSame DEF Calm
    <3>2. CASE Ends' = Ends BY <1>3, <3>1, <3>2 DEF Sockets!vars
    <3>3. CASE \E n \in Node, i \in Slot :
                  OtherEndsStay(n, i) /\ Used(st[n], i) /\ ~Used(st'[n], i)
      BY <1>1, <1>3, <3>1, <3>3, LeaveStep
    <3> QED BY <2>2, <3>2, <3>3, CalmEnds
  <2>3. ASSUME NEW n \in Node, NEW i \in Slot, NEW f \in RecordType, Told(n, i, f)
        PROVE  Sockets!Next
    <3>1. /\ Used(st[n], i) /\ ~Used(st'[n], i) /\ OtherEndsStay(n, i)
          /\ born' = born /\ wrote' = wrote /\ read' = read
      BY <2>3, OthersAlike DEF Told, Used
    <3> QED BY <1>1, <1>3, <3>1, LeaveStep
  <2>4. ASSUME NEW n \in Node, NEW i \in Slot, NEW f \in RecordType, Dialed(n, i, f)
        PROVE  FALSE
    BY <1>1, <1>3, <2>4 DEF Dialed, Types
  <2> QED BY <1>1, <1>3, <2>1, <2>2, <2>3, <2>4, ReadStep, WriteStep, AdvancedStep, ServeStep
          DEF Effect
<1> QED BY <1>2, <1>3, OnlyConnectDials

(* The stacks implement SocketService: over a network that loses, repeats  *)
(* and reorders frames, with tables, queues and NICs of any size, each     *)
(* call and each frame does to the applications' view of the connections   *)
(* what one action of the service does, or nothing.                        *)
THEOREM StackImplementsSockets ==
    ASSUME NoIdWraps, PortsApart PROVE Spec => ImplementsSockets
<1>1. Init => Sockets!Init
  <2> SUFFICES ASSUME Init PROVE Sockets!Init
    OBVIOUS
  <2>1. \A n \in Node, i \in Slot : ~Used(st[n], i) BY InitEmpty
  <2>2. Ends = {} BY <2>1, EndsAre
  <2>3. Served = {} BY DEF Served, Init
  <2> QED BY <2>2, <2>3 DEF Init, Sockets!Init
<1>2. NetInv /\ NetInv' /\ [Next]_vars => [Sockets!Next]_(Sockets!vars) BY SocketStep
<1>3. Spec => []NetInv BY Inductive
<1> QED BY <1>1, <1>2, <1>3, PTL DEF Spec, ImplementsSockets, Sockets!Spec
=============================================================================
