--------------------------- MODULE QtlsLinkProofs ---------------------------
(***************************************************************************)
(* Proofs about QtlsLink, for every capacity, block and record size, every *)
(* bound and any forged offsets.                                           *)
(***************************************************************************)
EXTENDS QtlsLink, TLAPS

-----------------------------------------------------------------------------
(* Windows.                                                                *)

LEMMA DiscardKeepsEnd ==
    ASSUME NEW w \in Window, NEW k \in 0 .. w.count
    PROVE  /\ Discard(w, k) \in Window
           /\ End(Discard(w, k)) = End(w)
           /\ Discard(w, k).base = w.base + k
           /\ Discard(w, k).count = w.count - k
BY CapacityAssumption DEF Discard, Window, End

(* A deposit adds n bytes at the end, and drops bytes only from a window   *)
(* that is then full.                                                      *)
LEMMA DepositExtends ==
    ASSUME NEW w \in Window, NEW n \in 1 .. Capacity
    PROVE  /\ Deposit(w, n) \in Window
           /\ End(Deposit(w, n)) = End(w) + n
           /\ Deposit(w, n).count <= w.count + n
           /\ \/ Deposit(w, n).count = Capacity
              \/ Deposit(w, n).base = w.base /\ Deposit(w, n).count = w.count + n
BY CapacityAssumption DEF Deposit, Excess, Discard, Window, End

LEMMA EmptyIsWindow ==
    EmptyWindow \in Window /\ EmptyWindow.base = 0 /\ EmptyWindow.count = 0 /\ End(EmptyWindow) = 0
BY CapacityAssumption DEF EmptyWindow, Window, End

LEMMA Roles ==
    ASSUME NEW n \in Node
    PROVE  /\ TxLane(n) \in Lane /\ RxLane(n) \in Lane /\ Peer(n) \in Node
           /\ Peer(n) # n /\ Peer(Peer(n)) = n
           /\ RxLane(n) = TxLane(Peer(n)) /\ TxLane(n) = RxLane(Peer(n))
           /\ \A m \in Node : TxLane(m) = RxLane(n) => m = Peer(n)
BY DEF Node, Lane, TxLane, RxLane, Peer

LEMMA CostType ==
    ASSUME NEW len \in 0 .. MaxPayload
    PROVE  KeyCost(len) \in Nat \ {0}
BY RecordAssumption DEF KeyCost

-----------------------------------------------------------------------------
(* The inductive invariant.                                                *)

(* No lane counts more bytes than L1 sent it.                              *)
StreamCovers == \A n \in Node, l \in Lane : End(keys[n][l]) <= stream[n][l]

(* Every record lies before what its sender can still hand out.            *)
WireBehind ==
    \A r \in wire : /\ r.pos + Cost(r) <= Front(r.from, TxLane(r.from))
                    /\ r.msg <= sent[r.from]

(* The records of one sender are numbered in the order of their key.       *)
Before(r1, r2) == r1.msg < r2.msg /\ r1.pos + Cost(r1) <= r2.pos
WireOrdered ==
    \A r1, r2 \in wire : r1.from = r2.from => r1 = r2 \/ Before(r1, r2) \/ Before(r2, r1)

(* A record whose key the receiver can still read is newer than the last   *)
(* one it opened.                                                          *)
GotBehind ==
    \A n \in Node :
        /\ got[n] <= sent[Peer(n)]
        /\ \A r \in wire : r.from = Peer(n) /\ r.pos >= Front(n, RxLane(n)) => r.msg > got[n]

TypeInv == TypeOK /\ StreamCovers

Inv == TypeInv /\ WireBehind /\ WireOrdered /\ GotBehind /\ WindowNeverOvertakes

(* In any step a lane's front only moves forward.                          *)
FrontGrows == \A n \in Node, l \in Lane : Front(n, l) <= Front(n, l)'

LEMMA FrontType ==
    ASSUME TypeInv, NEW n \in Node, NEW l \in Lane
    PROVE  /\ keys[n][l] \in Window /\ stream[n][l] \in Nat
           /\ keys[n][l].base \in Nat /\ keys[n][l].count \in Nat /\ keys[n][l].count <= Capacity
           /\ End(keys[n][l]) = keys[n][l].base + keys[n][l].count
           /\ Front(n, l) \in Nat /\ Origin(n, l) \in Nat
           /\ Front(n, l) = Origin(n, l) + keys[n][l].base
BY CapacityAssumption DEF TypeInv, TypeOK, StreamCovers, Front, Origin, End, Window

LEMMA FrontTypeNext ==
    ASSUME TypeInv', NEW n \in Node, NEW l \in Lane
    PROVE  Front(n, l)' \in Nat
BY CapacityAssumption DEF TypeInv, TypeOK, StreamCovers, Front, End, Window

LEMMA RecordType ==
    ASSUME TypeInv, NEW r \in wire
    PROVE  /\ r.from \in Node /\ r.msg \in Nat /\ r.off \in Nat /\ r.len \in 0 .. MaxPayload
           /\ r.pos \in Nat /\ Cost(r) \in Nat \ {0}
<1>1. r \in Record BY DEF TypeInv, TypeOK
<1> QED BY <1>1, CostType DEF Record, Cost

-----------------------------------------------------------------------------
(* One lemma per action: what it does to the lanes' fronts.                *)

LEMMA L1BlockStep ==
    ASSUME TypeInv, NEW n \in Node, L1Block(n)
    PROVE  /\ TypeInv' /\ FrontGrows
           /\ UNCHANGED <<wire, up, boots, sent, got>>
           /\ \A m \in Node, k \in Lane : up[m] =>
                  \/ keys'[m][k].count = Capacity
                  \/ /\ keys'[m][k].base = keys[m][k].base /\ Front(m, k)' = Front(m, k)
                     /\ keys[m][k].count <= keys'[m][k].count
<1> DEFINE l == BlockLane(seq[n])
           w == keys[n][l]
<1>1. l \in Lane
  <2>1. seq[n] \in Nat BY DEF TypeInv, TypeOK
  <2>2. seq[n] % 2 \in 0 .. 1 BY <2>1
  <2> QED BY <2>2 DEF BlockLane, Lane
<1>2. w \in Window /\ stream[n][l] \in Nat /\ BlockLen \in 1 .. Capacity /\ BlockLen \in Nat
  BY <1>1, FrontType, BlockAssumption, CapacityAssumption
<1>3. /\ stream' = [stream EXCEPT ![n][l] = @ + BlockLen]
      /\ \/ keys' = [keys EXCEPT ![n][l] = Deposit(w, BlockLen)]
         \/ ~up[n] /\ keys' = keys
      /\ UNCHANGED <<wire, up, boots, sent, got>>
  <2>1. \/ keys' = [keys EXCEPT ![n][l] = Deposit(w, BlockLen)]
        \/ ~up[n] /\ keys' = keys
    BY DEF L1Block, SetLane
  <2>2. /\ stream' = [stream EXCEPT ![n][l] = @ + BlockLen]
        /\ UNCHANGED <<wire, up, boots, sent, got>>
    BY DEF L1Block
  <2> QED BY <2>1, <2>2
<1> HIDE DEF l
<1>4. /\ Deposit(w, BlockLen) \in Window
      /\ End(Deposit(w, BlockLen)) = End(w) + BlockLen
      /\ Deposit(w, BlockLen).count <= w.count + BlockLen
      /\ \/ Deposit(w, BlockLen).count = Capacity
         \/ /\ Deposit(w, BlockLen).base = w.base
            /\ Deposit(w, BlockLen).count = w.count + BlockLen
  BY <1>2, DepositExtends
<1> HIDE DEF w
<1>5. keys' \in [Node -> [Lane -> Window]] /\ stream' \in [Node -> [Lane -> Nat]]
  <2>1. stream' \in [Node -> [Lane -> Nat]]
    BY <1>1, <1>2, <1>3 DEF TypeInv, TypeOK
  <2>2. keys \in [Node -> [Lane -> Window]] BY DEF TypeInv, TypeOK
  <2>3. keys' \in [Node -> [Lane -> Window]]
    BY <1>1, <1>3, <1>4, <2>2
  <2> QED BY <2>1, <2>3
<1>6. TypeOK' BY <1>5 DEF L1Block, TypeInv, TypeOK
<1>7. ASSUME NEW m \in Node, NEW k \in Lane
      PROVE  /\ End(keys[m][k])' <= stream'[m][k] /\ Front(m, k) <= Front(m, k)'
             /\ up[m] => \/ keys'[m][k].count = Capacity
                         \/ /\ keys'[m][k].base = keys[m][k].base
                            /\ Front(m, k)' = Front(m, k)
                            /\ keys[m][k].count <= keys'[m][k].count
  <2>1. /\ keys[m][k].count \in Nat /\ stream[m][k] \in Nat
        /\ End(keys[m][k]) <= stream[m][k] /\ End(keys[m][k]) \in Nat
    BY FrontType DEF TypeInv, StreamCovers
  <2>2. CASE m = n /\ k = l
    <3>1. stream'[m][k] = stream[m][k] + BlockLen
      BY <1>1, <1>3, <2>2 DEF TypeInv, TypeOK
    <3>2. CASE ~up[n] /\ keys' = keys
      BY <1>2, <2>1, <2>2, <3>1, <3>2 DEF Front
    <3>3. CASE keys' = [keys EXCEPT ![n][l] = Deposit(w, BlockLen)]
      <4>1. keys'[m][k] = Deposit(w, BlockLen)
        BY <1>1, <2>2, <3>3 DEF TypeInv, TypeOK
      <4>2. w = keys[m][k] BY <2>2 DEF w
      <4>3. Deposit(w, BlockLen).count \in Nat BY <1>4, CapacityAssumption DEF Window
      <4> QED BY <1>2, <1>4, <2>1, <3>1, <4>1, <4>2, <4>3 DEF Front
    <3> QED BY <1>3, <3>2, <3>3
  <2>3. CASE ~(m = n /\ k = l)
    <3>1. stream'[m][k] = stream[m][k] /\ keys'[m][k] = keys[m][k]
      BY <1>1, <1>3, <2>3 DEF TypeInv, TypeOK
    <3> QED BY <2>1, <3>1 DEF Front
  <2> QED BY <2>2, <2>3
<1> QED BY <1>3, <1>6, <1>7 DEF TypeInv, StreamCovers, FrontGrows

LEMMA PanicStep ==
    ASSUME TypeInv, NEW n \in Node, Panic(n)
    PROVE  /\ TypeInv' /\ FrontGrows
           /\ UNCHANGED <<stream, wire, sent, got>>
           /\ ~up'[n]
           /\ \A m \in Node : m # n => keys'[m] = keys[m] /\ up'[m] = up[m]
<1>1. ASSUME NEW k \in Lane
      PROVE  /\ Wipe(keys[n][k]) \in Window
             /\ End(Wipe(keys[n][k])) = End(keys[n][k])
             /\ Wipe(keys[n][k]).count = 0
  <2>1. keys[n][k] \in Window /\ keys[n][k].count \in 0 .. keys[n][k].count
    BY FrontType
  <2> QED BY <2>1, DiscardKeepsEnd DEF Wipe
<1>2. /\ keys' = [keys EXCEPT ![n] = [k \in Lane |-> Wipe(keys[n][k])]]
      /\ UNCHANGED <<seq, stream, wire, sent, got>>
      /\ up' \in [Node -> BOOLEAN] /\ boots' \in Nat
  BY DEF Panic, TypeInv, TypeOK
<1>3. TypeOK' BY <1>1, <1>2 DEF TypeInv, TypeOK
<1>4. ASSUME NEW m \in Node, NEW k \in Lane
      PROVE  End(keys[m][k])' <= stream'[m][k] /\ Front(m, k) <= Front(m, k)'
  <2>1. /\ keys[m][k].count \in Nat /\ stream[m][k] \in Nat
        /\ End(keys[m][k]) <= stream[m][k] /\ End(keys[m][k]) \in Nat
    BY FrontType DEF TypeInv, StreamCovers
  <2>2. keys'[m][k] = IF m = n THEN Wipe(keys[m][k]) ELSE keys[m][k]
    BY <1>2 DEF TypeInv, TypeOK
  <2> QED BY <1>1, <1>2, <2>1, <2>2 DEF Front
<1>5. ~up'[n] /\ \A m \in Node : m # n => keys'[m] = keys[m] /\ up'[m] = up[m]
  BY <1>2 DEF Panic, TypeInv, TypeOK
<1> QED BY <1>2, <1>3, <1>4, <1>5 DEF TypeInv, StreamCovers, FrontGrows

LEMMA BootStep ==
    ASSUME TypeInv, NEW n \in Node, Boot(n)
    PROVE  /\ TypeInv' /\ FrontGrows
           /\ UNCHANGED <<stream, wire, sent, got>>
           /\ \A k \in Lane : keys'[n][k].base = 0
           /\ \A m \in Node : m # n => keys'[m] = keys[m] /\ up'[m] = up[m]
<1>1. /\ keys' = [keys EXCEPT ![n] = [k \in Lane |-> EmptyWindow]]
      /\ UNCHANGED <<seq, stream, wire, boots, sent, got>>
      /\ up' \in [Node -> BOOLEAN]
  BY DEF Boot, TypeInv, TypeOK
<1>2. TypeOK' BY <1>1, EmptyIsWindow DEF TypeInv, TypeOK
<1>3. ASSUME NEW m \in Node, NEW k \in Lane
      PROVE  End(keys[m][k])' <= stream'[m][k] /\ Front(m, k) <= Front(m, k)'
  <2>1. /\ keys[m][k].count \in Nat /\ stream[m][k] \in Nat
        /\ End(keys[m][k]) <= stream[m][k] /\ End(keys[m][k]) \in Nat
    BY FrontType DEF TypeInv, StreamCovers
  <2>2. keys'[m][k] = IF m = n THEN EmptyWindow ELSE keys[m][k]
    BY <1>1 DEF TypeInv, TypeOK
  <2> QED BY <1>1, <2>1, <2>2, EmptyIsWindow DEF Front
<1>4. /\ \A k \in Lane : keys'[n][k].base = 0
      /\ \A m \in Node : m # n => keys'[m] = keys[m] /\ up'[m] = up[m]
  BY <1>1, EmptyIsWindow DEF Boot, TypeInv, TypeOK
<1> QED BY <1>1, <1>2, <1>3, <1>4 DEF TypeInv, StreamCovers, FrontGrows

(* Taking or consuming k bytes moves one front forward by k.               *)
LEMMA DiscardStep ==
    ASSUME TypeInv, NEW n \in Node, NEW l \in Lane, NEW k \in 0 .. keys[n][l].count,
           keys' = [keys EXCEPT ![n][l] = Discard(keys[n][l], k)], stream' = stream
    PROVE  /\ keys' \in [Node -> [Lane -> Window]]
           /\ StreamCovers' /\ FrontGrows
           /\ Front(n, l)' = Front(n, l) + k
           /\ \A m \in Node, j \in Lane : m # n \/ j # l => Front(m, j)' = Front(m, j)
<1> DEFINE d == Discard(keys[n][l], k)
<1>1. /\ d \in Window /\ End(d) = End(keys[n][l])
      /\ d.count = keys[n][l].count - k
  BY FrontType, DiscardKeepsEnd
<1> HIDE DEF d
<1>2. keys' = [keys EXCEPT ![n][l] = d] BY DEF d
<1>3. ASSUME NEW m \in Node, NEW j \in Lane
      PROVE  keys'[m][j] = IF m = n /\ j = l THEN d ELSE keys[m][j]
  BY <1>2 DEF TypeInv, TypeOK
<1>4. keys' \in [Node -> [Lane -> Window]]
  BY <1>1, <1>2 DEF TypeInv, TypeOK
<1>5. StreamCovers'
  BY <1>1, <1>3 DEF TypeInv, StreamCovers
<1>6. ASSUME NEW m \in Node, NEW j \in Lane
      PROVE  Front(m, j)' = IF m = n /\ j = l THEN Front(m, j) + k ELSE Front(m, j)
  BY <1>1, <1>3, FrontType DEF Front
<1>7. FrontGrows BY <1>6, FrontType DEF FrontGrows
<1> QED BY <1>4, <1>5, <1>6, <1>7

LEMMA SealStep ==
    ASSUME TypeInv, NEW n \in Node, NEW len \in 0 .. MaxPayload,
           Seal(n, len), CanTake(keys[n][TxLane(n)], KeyCost(len))
    PROVE  /\ TypeInv' /\ FrontGrows
           /\ Sealed(n, len) \in Record
           /\ wire' = wire \cup {Sealed(n, len)}
           /\ sent' = [sent EXCEPT ![n] = @ + 1]
           /\ UNCHANGED <<stream, up, got>>
           /\ Front(n, TxLane(n))' = Front(n, TxLane(n)) + KeyCost(len)
           /\ \A m \in Node, j \in Lane :
                  m # n \/ j # TxLane(n) => keys'[m][j] = keys[m][j]
<1> DEFINE l == TxLane(n)
           k == KeyCost(len)
<1>1. l \in Lane /\ k \in 0 .. keys[n][l].count
  BY Roles, CostType, FrontType DEF CanTake
<1>2. /\ keys' = [keys EXCEPT ![n][l] = Discard(keys[n][l], k)]
      /\ UNCHANGED <<seq, stream, up, boots, got>>
      /\ wire' = wire \cup {Sealed(n, len)}
      /\ sent' = [sent EXCEPT ![n] = @ + 1]
  BY DEF Seal, SetLane, Take
<1>3. Sealed(n, len) \in Record
  BY <1>1, FrontType DEF Sealed, Record, TypeInv, TypeOK
<1>4. /\ keys' \in [Node -> [Lane -> Window]] /\ StreamCovers' /\ FrontGrows
      /\ Front(n, l)' = Front(n, l) + k
  BY <1>1, <1>2, DiscardStep
<1>5. TypeOK' BY <1>2, <1>3, <1>4 DEF TypeInv, TypeOK
<1>6. \A m \in Node, j \in Lane : m # n \/ j # l => keys'[m][j] = keys[m][j]
  BY <1>1, <1>2 DEF TypeInv, TypeOK
<1> QED BY <1>2, <1>3, <1>4, <1>5, <1>6 DEF TypeInv

LEMMA OpenStep ==
    ASSUME TypeInv, NEW n \in Node, NEW r \in wire, NEW off \in Nat, NEW damaged,
           Open(n, r, off, damaged),
           InWindow(keys[n][RxLane(n)], off, Cost(r)), TagValid(n, r, off, damaged)
    PROVE  /\ TypeInv' /\ FrontGrows
           /\ r.from = Peer(n)
           /\ got' = [got EXCEPT ![n] = r.msg]
           /\ UNCHANGED <<wire, sent, up, stream, seq>>
           /\ r.pos >= Front(n, RxLane(n))
           /\ Front(n, RxLane(n))' = r.pos + Cost(r)
           /\ \A m \in Node, j \in Lane :
                  m # n \/ j # RxLane(n) => keys'[m][j] = keys[m][j]
<1> DEFINE l == RxLane(n)
           w == keys[n][l]
           k == off - w.base + Cost(r)
<1>1. l \in Lane /\ r.from = Peer(n)
  BY Roles, RecordType DEF TagValid
<1>2. /\ k \in 0 .. w.count /\ off >= w.base
      /\ Front(n, l) = Origin(n, l) + w.base /\ Origin(n, l) \in Nat /\ w.base \in Nat
  BY <1>1, FrontType, RecordType DEF InWindow
<1>3. /\ keys' = [keys EXCEPT ![n][l] = Discard(w, k)]
      /\ got' = [got EXCEPT ![n] = r.msg]
      /\ UNCHANGED <<seq, stream, wire, up, boots, sent>>
  BY DEF Open, Opened, SetLane, ConsumeTo
<1>4. /\ keys' \in [Node -> [Lane -> Window]] /\ StreamCovers' /\ FrontGrows
      /\ Front(n, l)' = Front(n, l) + k
  BY <1>1, <1>2, <1>3, DiscardStep
<1>5. r.pos = Origin(n, l) + off BY DEF TagValid
<1>6. r.pos >= Front(n, l) /\ Front(n, l)' = r.pos + Cost(r)
  BY <1>2, <1>4, <1>5, RecordType
<1>7. TypeOK' BY <1>3, <1>4, RecordType DEF TypeInv, TypeOK
<1>8. \A m \in Node, j \in Lane : m # n \/ j # l => keys'[m][j] = keys[m][j]
  BY <1>1, <1>3 DEF TypeInv, TypeOK
<1> QED BY <1>1, <1>3, <1>4, <1>6, <1>7, <1>8 DEF TypeInv

-----------------------------------------------------------------------------
(* The conjuncts of Inv.                                                   *)

(* A step that neither seals nor opens keeps what is said of the wire.     *)
LEMMA QuietStep ==
    ASSUME Inv, TypeInv', FrontGrows, UNCHANGED <<wire, sent, got>>
    PROVE  WireBehind' /\ WireOrdered' /\ GotBehind'
<1>1. ASSUME NEW n \in Node, NEW l \in Lane
      PROVE  Front(n, l) \in Nat /\ Front(n, l)' \in Nat /\ Front(n, l) <= Front(n, l)'
  <2>1. Front(n, l) \in Nat BY FrontType DEF Inv
  <2>2. Front(n, l)' \in Nat BY FrontTypeNext
  <2> QED BY <2>1, <2>2 DEF FrontGrows
<1>2. WireBehind'
  BY <1>1, RecordType, Roles DEF Inv, WireBehind
<1>3. WireOrdered' BY DEF Inv, WireOrdered, Before, Cost
<1>4. GotBehind' BY <1>1, RecordType, Roles DEF Inv, GotBehind
<1> QED BY <1>2, <1>3, <1>4

(* Where neither m's receive lane nor m itself changes, only its peer's    *)
(* front does, and it grows.                                               *)
LEMMA PeerMoves ==
    ASSUME Inv, TypeInv', FrontGrows, NEW m \in Node,
           keys'[m][RxLane(m)] = keys[m][RxLane(m)], stream' = stream,
           up'[m] => up[m], up'[m]
    PROVE  \/ keys'[m][RxLane(m)].base = 0
           \/ keys'[m][RxLane(m)].count = Capacity
           \/ Front(m, RxLane(m))' <= Front(Peer(m), RxLane(m))'
<1> DEFINE l == RxLane(m)
<1>1. l \in Lane /\ Peer(m) \in Node BY Roles
<1>2. Front(m, l)' = Front(m, l) BY DEF Front
<1>3. /\ Front(m, l) \in Nat /\ Front(Peer(m), l) \in Nat
      /\ Front(Peer(m), l)' \in Nat /\ Front(Peer(m), l) <= Front(Peer(m), l)'
  <2>1. Front(m, l) \in Nat /\ Front(Peer(m), l) \in Nat BY <1>1, FrontType DEF Inv
  <2>2. Front(Peer(m), l)' \in Nat BY <1>1, FrontTypeNext
  <2> QED BY <1>1, <2>1, <2>2 DEF FrontGrows
<1> QED BY <1>1, <1>2, <1>3 DEF Inv, WindowNeverOvertakes

-----------------------------------------------------------------------------
(* Init and every action establish or keep Inv.                            *)

LEMMA InitInv == Init => Inv
<1> SUFFICES ASSUME Init PROVE Inv OBVIOUS
<1>1. TypeOK BY EmptyIsWindow DEF Init, TypeOK
<1>2. StreamCovers BY EmptyIsWindow DEF Init, StreamCovers
<1>3. WireBehind /\ WireOrdered BY DEF Init, WireBehind, WireOrdered
<1>4. GotBehind BY Roles DEF Init, GotBehind
<1>5. WindowNeverOvertakes BY EmptyIsWindow, Roles DEF Init, WindowNeverOvertakes
<1> QED BY <1>1, <1>2, <1>3, <1>4, <1>5 DEF Inv, TypeInv

LEMMA L1BlockInv ==
    ASSUME Inv, NEW n \in Node, L1Block(n)
    PROVE  Inv'
<1>1. /\ TypeInv' /\ FrontGrows
      /\ UNCHANGED <<wire, up, boots, sent, got>>
      /\ \A m \in Node, k \in Lane : up[m] =>
             \/ keys'[m][k].count = Capacity
             \/ /\ keys'[m][k].base = keys[m][k].base /\ Front(m, k)' = Front(m, k)
                /\ keys[m][k].count <= keys'[m][k].count
  BY L1BlockStep DEF Inv
<1>2. ASSUME NEW m \in Node, up'[m]
      PROVE  \/ keys'[m][RxLane(m)].base = 0
             \/ keys'[m][RxLane(m)].count = Capacity
             \/ Front(m, RxLane(m))' <= Front(Peer(m), RxLane(m))'
  <2>1. RxLane(m) \in Lane /\ Peer(m) \in Node BY Roles
  <2>2. Front(m, RxLane(m)) \in Nat /\ Front(Peer(m), RxLane(m)) \in Nat
    BY <2>1, FrontType DEF Inv
  <2>3. Front(Peer(m), RxLane(m))' \in Nat BY <1>1, <2>1, FrontTypeNext
  <2>4. up[m] BY <1>1, <1>2
  <2>5. Front(Peer(m), RxLane(m)) <= Front(Peer(m), RxLane(m))' BY <1>1, <2>1 DEF FrontGrows
  <2>6. CASE keys'[m][RxLane(m)].count = Capacity BY <2>6
  <2>7. CASE /\ keys'[m][RxLane(m)].base = keys[m][RxLane(m)].base
             /\ Front(m, RxLane(m))' = Front(m, RxLane(m))
             /\ keys[m][RxLane(m)].count <= keys'[m][RxLane(m)].count
    <3>1. \/ keys[m][RxLane(m)].base = 0
          \/ keys[m][RxLane(m)].count = Capacity
          \/ Front(m, RxLane(m)) <= Front(Peer(m), RxLane(m))
      BY <2>4 DEF Inv, WindowNeverOvertakes
    <3>2. CASE keys[m][RxLane(m)].count = Capacity
      <4>1. keys'[m][RxLane(m)].count <= Capacity /\ keys'[m][RxLane(m)].count \in Nat
        BY <1>1, <2>1, CapacityAssumption DEF TypeInv, TypeOK, Window
      <4> QED BY <2>7, <3>2, <4>1, CapacityAssumption
    <3> QED BY <2>2, <2>3, <2>5, <2>7, <3>1, <3>2
  <2> QED BY <1>1, <2>1, <2>4, <2>6, <2>7
<1>3. WindowNeverOvertakes' BY <1>2, Roles DEF WindowNeverOvertakes
<1> QED BY <1>1, <1>3, QuietStep DEF Inv

LEMMA PanicInv ==
    ASSUME Inv, NEW n \in Node, Panic(n)
    PROVE  Inv'
<1>1. /\ TypeInv' /\ FrontGrows
      /\ UNCHANGED <<stream, wire, sent, got>>
      /\ ~up'[n]
      /\ \A m \in Node : m # n => keys'[m] = keys[m] /\ up'[m] = up[m]
  BY PanicStep DEF Inv
<1>2. WindowNeverOvertakes'
  BY <1>1, PeerMoves, Roles DEF WindowNeverOvertakes
<1> QED BY <1>1, <1>2, QuietStep DEF Inv

LEMMA BootInv ==
    ASSUME Inv, NEW n \in Node, Boot(n)
    PROVE  Inv'
<1>1. /\ TypeInv' /\ FrontGrows
      /\ UNCHANGED <<stream, wire, sent, got>>
      /\ \A k \in Lane : keys'[n][k].base = 0
      /\ \A m \in Node : m # n => keys'[m] = keys[m] /\ up'[m] = up[m]
  BY BootStep DEF Inv
<1>2. WindowNeverOvertakes'
  BY <1>1, PeerMoves, Roles DEF WindowNeverOvertakes
<1> QED BY <1>1, <1>2, QuietStep DEF Inv

LEMMA SealInv ==
    ASSUME Inv, NEW n \in Node, NEW len \in 0 .. MaxPayload,
           Seal(n, len), CanTake(keys[n][TxLane(n)], KeyCost(len))
    PROVE  Inv'
<1> DEFINE l == TxLane(n)
<1>0. PICK new \in Record : new = Sealed(n, len)
  BY SealStep DEF Inv
<1>1. /\ TypeInv' /\ FrontGrows
      /\ new \in Record
      /\ wire' = wire \cup {new}
      /\ sent' = [sent EXCEPT ![n] = @ + 1]
      /\ UNCHANGED <<stream, up, got>>
      /\ Front(n, l)' = Front(n, l) + KeyCost(len)
      /\ \A m \in Node, j \in Lane : m # n \/ j # l => keys'[m][j] = keys[m][j]
  BY <1>0, SealStep DEF Inv
<1>2. /\ new.from = n /\ new.msg = sent[n] + 1 /\ new.len = len
      /\ new.pos = Front(n, l) /\ Cost(new) = KeyCost(len)
  BY <1>0 DEF Sealed, Cost
<1> HIDE DEF l
<1>3. ASSUME NEW m \in Node, NEW j \in Lane
      PROVE  Front(m, j) \in Nat /\ Front(m, j)' \in Nat /\ Front(m, j) <= Front(m, j)'
  <2>1. Front(m, j) \in Nat BY FrontType DEF Inv
  <2>2. Front(m, j)' \in Nat BY <1>1, FrontTypeNext
  <2> QED BY <1>1, <2>1, <2>2 DEF FrontGrows
<1>4. l \in Lane /\ KeyCost(len) \in Nat /\ \A m \in Node : sent[m] \in Nat /\ got[m] \in Nat
  BY Roles, CostType DEF Inv, TypeInv, TypeOK, l
<1>5. \A m \in Node : sent'[m] = IF m = n THEN sent[m] + 1 ELSE sent[m]
  BY <1>1 DEF Inv, TypeInv, TypeOK
<1>6. \A r \in wire : /\ r.from \in Node /\ r.pos \in Nat /\ Cost(r) \in Nat /\ r.msg \in Nat
                      /\ TxLane(r.from) \in Lane
  BY RecordType, Roles DEF Inv
<1>7. WireBehind'
  <2>1. ASSUME NEW r \in wire
        PROVE  r.pos + Cost(r) <= Front(r.from, TxLane(r.from))' /\ r.msg <= sent'[r.from]
    BY <1>3, <1>4, <1>5, <1>6 DEF Inv, WireBehind
  <2>2. new.pos + Cost(new) <= Front(new.from, TxLane(new.from))' /\ new.msg <= sent'[new.from]
    BY <1>1, <1>2, <1>3, <1>4, <1>5 DEF l
  <2> QED BY <1>1, <2>1, <2>2 DEF WireBehind, Cost
<1>8. ASSUME NEW r \in wire, r.from = n
      PROVE  Before(r, new)
  BY <1>2, <1>4, <1>6, <1>8 DEF Inv, WireBehind, Before, l
<1>9. WireOrdered'
  <2>1. ASSUME NEW r1 \in wire', NEW r2 \in wire', r1.from = r2.from
        PROVE  r1 = r2 \/ Before(r1, r2) \/ Before(r2, r1)
    BY <1>1, <1>2, <1>8, <2>1 DEF Inv, WireOrdered
  <2> QED BY <2>1 DEF WireOrdered, Before, Cost
<1>10. GotBehind'
  <2>1. ASSUME NEW m \in Node PROVE got'[m] <= sent'[Peer(m)]
    BY <1>1, <1>4, <1>5, Roles DEF Inv, GotBehind
  <2>2. ASSUME NEW m \in Node, NEW r \in wire,
               r.from = Peer(m), r.pos >= Front(m, RxLane(m))'
        PROVE  r.msg > got'[m]
    <3>1. r.pos >= Front(m, RxLane(m)) BY <1>3, <1>6, <2>2, Roles
    <3> QED BY <1>1, <2>2, <3>1 DEF Inv, GotBehind
  <2>3. ASSUME NEW m \in Node, new.from = Peer(m)
        PROVE  new.msg > got'[m]
    BY <1>1, <1>2, <1>4, <2>3, Roles DEF Inv, GotBehind
  <2> QED BY <1>1, <2>1, <2>2, <2>3 DEF GotBehind
<1>11. ASSUME NEW m \in Node PROVE keys'[m][RxLane(m)] = keys[m][RxLane(m)]
  <2>1. RxLane(m) \in Lane /\ (m = n => RxLane(m) # l) BY Roles DEF l, RxLane, TxLane, Node
  <2> QED BY <1>1, <2>1
<1>12. WindowNeverOvertakes'
  BY <1>1, <1>11, PeerMoves DEF WindowNeverOvertakes
<1> QED BY <1>1, <1>7, <1>9, <1>10, <1>12 DEF Inv

LEMMA OpenInv ==
    ASSUME Inv, NEW n \in Node, NEW r \in wire, NEW off \in Nat, NEW damaged,
           Open(n, r, off, damaged),
           InWindow(keys[n][RxLane(n)], off, Cost(r)), TagValid(n, r, off, damaged)
    PROVE  Inv'
<1> DEFINE l == RxLane(n)
<1>1. /\ TypeInv' /\ FrontGrows
      /\ r.from = Peer(n)
      /\ got' = [got EXCEPT ![n] = r.msg]
      /\ UNCHANGED <<wire, sent, up, stream, seq>>
      /\ r.pos >= Front(n, l)
      /\ Front(n, l)' = r.pos + Cost(r)
      /\ \A m \in Node, j \in Lane : m # n \/ j # l => keys'[m][j] = keys[m][j]
  BY OpenStep DEF Inv
<1> HIDE DEF l
<1>2. ASSUME NEW m \in Node, NEW j \in Lane
      PROVE  Front(m, j) \in Nat /\ Front(m, j)' \in Nat /\ Front(m, j) <= Front(m, j)'
  <2>1. Front(m, j) \in Nat BY FrontType DEF Inv
  <2>2. Front(m, j)' \in Nat BY <1>1, FrontTypeNext
  <2> QED BY <1>1, <2>1, <2>2 DEF FrontGrows
<1>3. \A s \in wire : /\ s.from \in Node /\ s.pos \in Nat /\ Cost(s) \in Nat \ {0} /\ s.msg \in Nat
                      /\ TxLane(s.from) \in Lane
  BY RecordType, Roles DEF Inv
<1>4. WireBehind' BY <1>1, <1>2, <1>3 DEF Inv, WireBehind, Cost
<1>5. WireOrdered' BY <1>1 DEF Inv, WireOrdered, Before, Cost
<1>6. \A m \in Node : got'[m] = IF m = n THEN r.msg ELSE got[m]
  BY <1>1 DEF Inv, TypeInv, TypeOK
<1>7. GotBehind'
  <2>1. ASSUME NEW m \in Node PROVE got'[m] <= sent'[Peer(m)]
    BY <1>1, <1>6, Roles DEF Inv, GotBehind, WireBehind
  <2>2. ASSUME NEW m \in Node, NEW s \in wire,
               s.from = Peer(m), s.pos >= Front(m, RxLane(m))'
        PROVE  s.msg > got'[m]
    <3>1. CASE m = n
      <4>1. s.pos >= r.pos + Cost(r) BY <1>1, <2>2, <3>1 DEF l
      <4>2. s # r /\ ~Before(s, r) BY <1>3, <4>1 DEF Before
      <4>3. Before(r, s) BY <1>1, <2>2, <3>1, <4>2 DEF Inv, WireOrdered
      <4> QED BY <1>3, <1>6, <3>1, <4>3 DEF Before
    <3>2. CASE m # n
      <4>1. s.pos >= Front(m, RxLane(m)) BY <1>2, <1>3, <2>2, Roles
      <4> QED BY <1>6, <2>2, <3>2, <4>1 DEF Inv, GotBehind
    <3> QED BY <3>1, <3>2
  <2> QED BY <1>1, <2>1, <2>2 DEF GotBehind
<1>8. ASSUME NEW m \in Node, up'[m]
      PROVE  \/ keys'[m][RxLane(m)].base = 0
             \/ keys'[m][RxLane(m)].count = Capacity
             \/ Front(m, RxLane(m))' <= Front(Peer(m), RxLane(m))'
  <2>1. CASE m # n
    <3>1. keys'[m][RxLane(m)] = keys[m][RxLane(m)] BY <1>1, <2>1, Roles
    <3> QED BY <1>1, <1>8, <3>1, PeerMoves
  <2>2. CASE m = n
    <3>1. r.pos + Cost(r) <= Front(Peer(n), TxLane(Peer(n))) BY <1>1 DEF Inv, WireBehind
    <3>2. Peer(n) \in Node /\ TxLane(Peer(n)) = RxLane(n) /\ RxLane(n) \in Lane BY Roles
    <3>3. Front(Peer(n), RxLane(n)) <= Front(Peer(n), RxLane(n))' BY <1>2, <3>2
    <3> QED BY <1>1, <1>2, <1>3, <2>2, <3>1, <3>2, <3>3 DEF l
  <2> QED BY <2>1, <2>2
<1>9. WindowNeverOvertakes' BY <1>8 DEF WindowNeverOvertakes
<1> QED BY <1>1, <1>4, <1>5, <1>7, <1>9 DEF Inv

LEMMA StutterInv ==
    ASSUME Inv, UNCHANGED vars
    PROVE  Inv'
BY DEF Inv, TypeInv, TypeOK, StreamCovers, WireBehind, WireOrdered, Before, Cost, GotBehind,
       WindowNeverOvertakes, Front, End, vars

(* A step is a refused seal or open, which changes nothing, or one of the  *)
(* five actions the lemmas above are about.                                *)
Accepts(n, r, off, damaged) ==
    /\ Open(n, r, off, damaged)
    /\ InWindow(keys[n][RxLane(n)], off, Cost(r))
    /\ TagValid(n, r, off, damaged)

Takes(n, len) == Seal(n, len) /\ CanTake(keys[n][TxLane(n)], KeyCost(len))

LEMMA NextCases ==
    ASSUME Inv, Next
    PROVE  \/ UNCHANGED vars
           \/ \E n \in Node : L1Block(n) \/ Panic(n) \/ Boot(n)
           \/ \E n \in Node : \E len \in 0 .. MaxPayload : Takes(n, len)
           \/ \E n \in Node : \E r \in wire : \E off \in Nat, damaged \in BOOLEAN :
                  Accepts(n, r, off, damaged)
<1>1. PICK n \in Node :
        \/ L1Block(n) \/ Panic(n) \/ Boot(n)
        \/ \E len \in 0 .. MaxPayload : Seal(n, len)
        \/ \E r \in wire : \E off \in {r.off} \cup ForgedOffsets, damaged \in BOOLEAN :
               Open(n, r, off, damaged)
  BY DEF Next
<1>2. CASE L1Block(n) \/ Panic(n) \/ Boot(n) BY <1>2
<1>3. ASSUME NEW len \in 0 .. MaxPayload, Seal(n, len)
      PROVE  UNCHANGED vars \/ Takes(n, len)
  BY <1>3 DEF Seal, Takes
<1>4. ASSUME NEW r \in wire, NEW off \in {r.off} \cup ForgedOffsets, NEW damaged \in BOOLEAN,
             Open(n, r, off, damaged)
      PROVE  off \in Nat /\ (UNCHANGED vars \/ Accepts(n, r, off, damaged))
  <2>1. off \in Nat BY ForgedAssumption, RecordType DEF Inv
  <2> QED BY <1>4, <2>1 DEF Open, Accepts
<1> QED BY <1>1, <1>2, <1>3, <1>4

LEMMA NextInv == Inv /\ [Next]_vars => Inv'
<1> SUFFICES ASSUME Inv, [Next]_vars PROVE Inv' OBVIOUS
<1>1. CASE UNCHANGED vars BY <1>1, StutterInv
<1>2. ASSUME NEW n \in Node, L1Block(n) PROVE Inv' BY <1>2, L1BlockInv
<1>3. ASSUME NEW n \in Node, Panic(n) PROVE Inv' BY <1>3, PanicInv
<1>4. ASSUME NEW n \in Node, Boot(n) PROVE Inv' BY <1>4, BootInv
<1>5. ASSUME NEW n \in Node, NEW len \in 0 .. MaxPayload, Takes(n, len) PROVE Inv'
  BY <1>5, SealInv DEF Takes
<1>6. ASSUME NEW n \in Node, NEW r \in wire, NEW off \in Nat, NEW damaged \in BOOLEAN,
             Accepts(n, r, off, damaged)
      PROVE  Inv'
  BY <1>6, OpenInv DEF Accepts
<1> QED BY <1>1, <1>2, <1>3, <1>4, <1>5, <1>6, NextCases

THEOREM Invariance == Spec => []Inv
BY InitInv, NextInv, PTL DEF Spec

-----------------------------------------------------------------------------
(* The theorems.                                                           *)

(* The lanes stay windows within their capacity and every record is well   *)
(* formed: no operation of qkey or qtls leaves the types of the code.      *)
THEOREM TypeCorrect == Spec => []TypeOK
<1>1. Inv => TypeOK BY DEF Inv, TypeInv
<1> QED BY <1>1, Invariance, PTL

(* seal never uses a key byte twice, in either direction and across panics *)
(* and reboots.                                                            *)
THEOREM OneTimeUse == Spec => []NoPadReuse
<1>1. ASSUME Inv PROVE NoPadReuse
  <2>1. ASSUME NEW r1 \in wire, NEW r2 \in wire, r1 # r2
        PROVE  KeysDisjoint(r1, r2)
    <3>1. CASE r1.from = r2.from
      BY <1>1, <2>1, <3>1 DEF Inv, WireOrdered, Before, KeysDisjoint
    <3>2. CASE r1.from # r2.from
      BY <1>1, <3>2, RecordType DEF Inv, KeysDisjoint, TxLane, Node
    <3> QED BY <3>1, <3>2
  <2> QED BY <2>1 DEF NoPadReuse
<1> QED BY <1>1, Invariance, PTL

(* [FIX-4]: the receive window of deposit never overtakes the sender.      *)
THEOREM NeverOvertakes == Spec => []WindowNeverOvertakes
<1>1. Inv => WindowNeverOvertakes BY DEF Inv
<1> QED BY <1>1, Invariance, PTL

(* [FIX-4]: with the same blocks at both ends, whatever the sender seals   *)
(* next is within the receiver's window, however many records were lost.   *)
THEOREM Resynchronisation == Spec => []Resynchronises
<1>1. ASSUME Inv PROVE Resynchronises
  <2>1. ASSUME NEW n \in Node, InSync(n),
               NEW cost \in 1 .. keys[Peer(n)][RxLane(n)].count
        PROVE  InWindow(keys[n][RxLane(n)], keys[Peer(n)][RxLane(n)].base, cost)
    <3> DEFINE l == RxLane(n)
               rx == keys[n][l]
               tx == keys[Peer(n)][l]
    <3>1. l \in Lane /\ Peer(n) \in Node BY Roles
    <3>2. /\ rx.base \in Nat /\ rx.count \in Nat /\ End(rx) = rx.base + rx.count
          /\ Front(n, l) = Origin(n, l) + rx.base /\ Origin(n, l) \in Nat
      BY <1>1, <3>1, FrontType DEF Inv
    <3>3. /\ tx.base \in Nat /\ tx.count \in Nat /\ End(tx) = tx.base + tx.count
          /\ tx.count <= Capacity
          /\ Front(Peer(n), l) = Origin(Peer(n), l) + tx.base
      BY <1>1, <3>1, FrontType DEF Inv
    <3>4. up[n] /\ End(rx) = End(tx) /\ Origin(n, l) = Origin(Peer(n), l)
      BY <2>1 DEF InSync
    <3>5. rx.base = 0 \/ rx.count = Capacity \/ Front(n, l) <= Front(Peer(n), l)
      BY <1>1, <3>4 DEF Inv, WindowNeverOvertakes
    <3>6. rx.base <= tx.base
      BY <3>2, <3>3, <3>4, <3>5, CapacityAssumption
    <3> QED BY <3>2, <3>3, <3>4, <3>6 DEF InWindow
  <2> QED BY <2>1 DEF Resynchronises
<1> QED BY <1>1, Invariance, PTL

(* The link implements QtlsService: what a node opens is what its peer     *)
(* sealed, in order, each record at most once.                             *)
THEOREM LinkImplementsService == Spec => ImplementsService
<1>1. Init => Service!Init BY DEF Init, Service!Init
<1>2. ASSUME Inv, [Next]_vars
      PROVE  [Service!Next]_(Service!vars)
  <2>1. CASE UNCHANGED vars BY <2>1 DEF vars, Service!vars
  <2>2. ASSUME NEW n \in Node, L1Block(n) \/ Panic(n) \/ Boot(n)
        PROVE  UNCHANGED Service!vars
    BY <2>2 DEF L1Block, Panic, Boot, Service!vars
  <2>3. ASSUME NEW n \in Node, NEW len \in 0 .. MaxPayload, Takes(n, len)
        PROVE  Service!Next
    <3>1. sent' = [sent EXCEPT ![n] = @ + 1] /\ got' = got
      BY <1>2, <2>3, SealStep DEF Inv, Takes
    <3> QED BY <3>1 DEF Service!Next, Service!Send
  <2>4. ASSUME NEW n \in Node, NEW r \in wire, NEW off \in Nat, NEW damaged \in BOOLEAN,
               Accepts(n, r, off, damaged)
        PROVE  Service!Next
    <3>1. /\ r.from = Peer(n) /\ r.pos >= Front(n, RxLane(n))
          /\ got' = [got EXCEPT ![n] = r.msg] /\ sent' = sent
      BY <1>2, <2>4, OpenStep DEF Inv, Accepts
    <3>2. r.msg > got[n] /\ r.msg <= sent[Peer(n)]
      BY <1>2, <3>1 DEF Inv, GotBehind, WireBehind
    <3>3. r.msg \in Nat /\ got[n] \in Nat /\ sent[Peer(n)] \in Nat
      BY <1>2, RecordType, Roles DEF Inv, TypeInv, TypeOK
    <3>4. r.msg \in got[n] + 1 .. sent[Peer(n)] BY <3>2, <3>3
    <3>5. Service!Deliver(n) BY <3>1, <3>4 DEF Service!Deliver
    <3> QED BY <3>5 DEF Service!Next
  <2> QED BY <1>2, <2>1, <2>2, <2>3, <2>4, NextCases
<1> QED BY <1>1, <1>2, Invariance, PTL DEF Spec, ImplementsService, Service!Spec

(* open burns key only for a record of the peer whose tag verifies, and up *)
(* to that record's end.                                                   *)
THEOREM GenuineBurns == Spec => OnlyGenuineBurnsKey
<1> DEFINE Burn == \A n \in Node :
               LET l == RxLane(n)
               IN  (keys'[n][l] # keys[n][l] /\ seq' = seq /\ up' = up) =>
                   \E r \in wire : /\ r.from = Peer(n)
                                   /\ r.pos >= Front(n, l)
                                   /\ Front(n, l)' = r.pos + Cost(r)
                                   /\ got'[n] = r.msg
<1>1. ASSUME Inv, [Next]_vars
      PROVE  [Burn]_vars
  <2> SUFFICES ASSUME NEW m \in Node, keys'[m][RxLane(m)] # keys[m][RxLane(m)],
                      seq' = seq, up' = up
               PROVE  \E r \in wire : /\ r.from = Peer(m)
                                      /\ r.pos >= Front(m, RxLane(m))
                                      /\ Front(m, RxLane(m))' = r.pos + Cost(r)
                                      /\ got'[m] = r.msg
    OBVIOUS
  <2>1. CASE UNCHANGED vars BY <2>1 DEF vars
  <2>2. ASSUME NEW n \in Node, L1Block(n) \/ Panic(n) \/ Boot(n)
        PROVE  FALSE
    <3>1. seq[n] \in Nat /\ up[n] \in BOOLEAN BY <1>1 DEF Inv, TypeInv, TypeOK
    <3>2. CASE L1Block(n) BY <1>1, <3>1, <3>2 DEF L1Block, Inv, TypeInv, TypeOK
    <3>3. CASE Panic(n) BY <1>1, <3>1, <3>3 DEF Panic, Inv, TypeInv, TypeOK
    <3>4. CASE Boot(n) BY <1>1, <3>1, <3>4 DEF Boot, Inv, TypeInv, TypeOK
    <3> QED BY <2>2, <3>2, <3>3, <3>4
  <2>3. ASSUME NEW n \in Node, NEW len \in 0 .. MaxPayload, Takes(n, len)
        PROVE  FALSE
    <3>1. \A k \in Node, j \in Lane : k # n \/ j # TxLane(n) => keys'[k][j] = keys[k][j]
      BY <1>1, <2>3, SealStep DEF Inv, Takes
    <3>2. RxLane(m) \in Lane /\ (m = n => RxLane(m) # TxLane(n))
      BY Roles DEF RxLane, TxLane
    <3> QED BY <3>1, <3>2
  <2>4. ASSUME NEW n \in Node, NEW r \in wire, NEW off \in Nat, NEW damaged \in BOOLEAN,
               Accepts(n, r, off, damaged)
        PROVE  /\ r.from = Peer(m) /\ r.pos >= Front(m, RxLane(m))
               /\ Front(m, RxLane(m))' = r.pos + Cost(r)
               /\ got'[m] = r.msg
    <3>1. /\ r.from = Peer(n) /\ r.pos >= Front(n, RxLane(n))
          /\ Front(n, RxLane(n))' = r.pos + Cost(r)
          /\ got' = [got EXCEPT ![n] = r.msg]
          /\ \A k \in Node, j \in Lane :
                 k # n \/ j # RxLane(n) => keys'[k][j] = keys[k][j]
      BY <1>1, <2>4, OpenStep DEF Inv, Accepts
    <3>2. m = n BY <3>1, Roles
    <3> QED BY <1>1, <3>1, <3>2 DEF Inv, TypeInv, TypeOK
  <2> QED BY <1>1, <2>1, <2>2, <2>3, <2>4, NextCases
<1> QED BY <1>1, Invariance, PTL DEF Spec, OnlyGenuineBurnsKey
=============================================================================
