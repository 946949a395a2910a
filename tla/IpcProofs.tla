------------------------------ MODULE IpcProofs ------------------------------
(***************************************************************************)
(* Proofs about Ipc for every capacity, length and number of callers.      *)
(***************************************************************************)
EXTENDS Ipc, TLAPS

-----------------------------------------------------------------------------
(* Slots of a ring.                                                        *)

LEMMA AheadType ==
    ASSUME NEW cap \in Nat \ {0}, NEW r \in Slots(cap), NEW s \in Slots(cap)
    PROVE  Ahead(r, s, cap) \in Slots(cap)
BY DEF Ahead, Slots

LEMMA Move ==
    ASSUME NEW cap \in Nat \ {0}, NEW r \in Slots(cap), NEW n \in 0 .. cap
    PROVE  /\ (r + n) % cap = IF r + n < cap THEN r + n ELSE r + n - cap
           /\ (r + n) % cap \in Slots(cap)
<1>1. r \in 0 .. cap - 1 BY DEF Slots
<1>2. (r + n) % cap = IF r + n < cap THEN r + n ELSE r + n - cap BY <1>1
<1> QED BY <1>1, <1>2 DEF Slots

(* How far a slot is from a position that moved by n.                      *)
LEMMA AheadAfter ==
    ASSUME NEW cap \in Nat \ {0}, NEW r \in Slots(cap), NEW s \in Slots(cap), NEW n \in 0 .. cap
    PROVE  Ahead((r + n) % cap, s, cap) = IF n <= Ahead(r, s, cap) THEN Ahead(r, s, cap) - n
                                          ELSE Ahead(r, s, cap) - n + cap
<1> DEFINE p == (r + n) % cap
<1>1. p = (IF r + n < cap THEN r + n ELSE r + n - cap) BY Move
<1> HIDE DEF p
<1>2. Ahead(p, s, cap) = IF n <= Ahead(r, s, cap) THEN Ahead(r, s, cap) - n
                         ELSE Ahead(r, s, cap) - n + cap
  BY <1>1 DEF Ahead, Slots
<1> QED BY <1>2 DEF p

(* The slot i steps on from r is i ahead of it.                            *)
LEMMA AheadOfSlot ==
    ASSUME NEW cap \in Nat \ {0}, NEW r \in Slots(cap), NEW i \in Slots(cap)
    PROVE  Ahead(r, (r + i) % cap, cap) = i
<1> DEFINE p == (r + i) % cap
<1>1. p = (IF r + i < cap THEN r + i ELSE r + i - cap)
  <2>1. i \in 0 .. cap BY DEF Slots
  <2> QED BY <2>1, Move
<1> HIDE DEF p
<1>2. Ahead(r, p, cap) = i BY <1>1 DEF Ahead, Slots
<1> QED BY <1>2 DEF p

(* Moving twice is moving by the sum.                                      *)
LEMMA MoveTwice ==
    ASSUME NEW cap \in Nat \ {0}, NEW r \in Slots(cap), NEW m \in 0 .. cap, NEW n \in 0 .. cap - m
    PROVE  (((r + m) % cap) + n) % cap = (r + (m + n)) % cap
<1> DEFINE p == (r + m) % cap
<1>1. p = (IF r + m < cap THEN r + m ELSE r + m - cap) /\ p \in Slots(cap) BY Move
<1> HIDE DEF p
<1>2. n \in 0 .. cap /\ m + n \in 0 .. cap OBVIOUS
<1>3. (p + n) % cap = IF p + n < cap THEN p + n ELSE p + n - cap BY <1>1, <1>2, Move
<1>4. (r + (m + n)) % cap = IF r + (m + n) < cap THEN r + (m + n) ELSE r + (m + n) - cap
  BY <1>2, Move
<1>5. (p + n) % cap = (r + (m + n)) % cap BY <1>1, <1>3, <1>4 DEF Slots
<1> QED BY <1>5 DEF p

-----------------------------------------------------------------------------
(* The loops of the code.                                                  *)

(* A ring of the right type that holds the last items of the total put in. *)
Good(q, cap, total) == q \in Ring(cap) /\ q.count <= total /\ RingHolds(q, cap, total)

LEMMA NewRingGood ==
    ASSUME NEW cap \in Nat \ {0}
    PROVE  Good(NewRing(cap), cap, 0)
<1>1. NewRing(cap) \in Ring(cap) BY DEF NewRing, Ring, Slots, Erased
<1>2. 0 % cap = 0 OBVIOUS
<1>3. ASSUME NEW s \in Slots(cap)
      PROVE  ~(Ahead(0, s, cap) < 0)
  BY DEF Ahead, Slots
<1> QED BY <1>1, <1>2, <1>3 DEF Good, RingHolds, NewRing

LEMMA PutGood ==
    ASSUME NEW cap \in Nat \ {0}, NEW total \in Nat, NEW q, Good(q, cap, total),
           NEW n \in 0 .. cap - q.count
    PROVE  Good(PutItems(q, cap, total, n), cap, total + n)
<1> DEFINE w == PutItems(q, cap, total, n)
<1>1. /\ q.head \in Slots(cap) /\ q.tail \in Slots(cap) /\ q.count \in 0 .. cap
      /\ q.buf \in [Slots(cap) -> Nat] /\ q.count <= total
      /\ q.tail = (q.head + q.count) % cap /\ n \in 0 .. cap
  BY DEF Good, Ring, RingHolds
<1>2. /\ w.head = q.head /\ w.tail = (q.tail + n) % cap /\ w.count = q.count + n
      /\ w.buf = [s \in Slots(cap) |-> IF Ahead(q.tail, s, cap) < n
                                       THEN total + Ahead(q.tail, s, cap) + 1 ELSE q.buf[s]]
  BY DEF PutItems
<1>3. w \in Ring(cap)
  <2>1. ASSUME NEW s \in Slots(cap)
        PROVE  (IF Ahead(q.tail, s, cap) < n THEN total + Ahead(q.tail, s, cap) + 1 ELSE q.buf[s]) \in Nat
    <3>1. Ahead(q.tail, s, cap) \in Nat
      <4>1. Ahead(q.tail, s, cap) \in Slots(cap) BY <1>1, AheadType
      <4> QED BY <4>1 DEF Slots
    <3> QED BY <1>1, <3>1
  <2>2. w.buf \in [Slots(cap) -> Nat] BY <1>2, <2>1
  <2>3. w.tail \in Slots(cap) BY <1>1, <1>2, Move
  <2>4. w.count \in 0 .. cap BY <1>1, <1>2
  <2> QED BY <1>1, <1>2, <2>2, <2>3, <2>4 DEF Ring, PutItems
<1>4. w.tail = (w.head + w.count) % cap
  <2>1. n \in 0 .. cap - q.count BY <1>1
  <2> QED BY <1>1, <1>2, <2>1, MoveTwice
<1>5. ASSUME NEW s \in Slots(cap)
      PROVE  w.buf[s] = IF Ahead(w.head, s, cap) < w.count
                        THEN (total + n) - w.count + Ahead(w.head, s, cap) + 1 ELSE Erased
  <2>1. Ahead(q.head, s, cap) \in Slots(cap) BY <1>1, AheadType
  <2>2. Ahead(q.tail, s, cap) = IF q.count <= Ahead(q.head, s, cap) THEN Ahead(q.head, s, cap) - q.count
                                ELSE Ahead(q.head, s, cap) - q.count + cap
    BY <1>1, AheadAfter
  <2>3. q.buf[s] = IF Ahead(q.head, s, cap) < q.count
                   THEN total - q.count + Ahead(q.head, s, cap) + 1 ELSE Erased
    BY DEF Good, RingHolds
  <2>4. w.buf[s] = IF Ahead(q.tail, s, cap) < n THEN total + Ahead(q.tail, s, cap) + 1 ELSE q.buf[s]
    BY <1>2
  <2>5. /\ w.head = q.head /\ w.count = q.count + n
        /\ q.count \in 0 .. cap /\ n \in 0 .. cap - q.count
    BY <1>1, <1>2
  <2> HIDE DEF w
  <2> QED BY <2>1, <2>2, <2>3, <2>4, <2>5 DEF Slots
<1>6. w.count <= total + n BY <1>1, <1>2
<1> QED BY <1>3, <1>4, <1>5, <1>6 DEF Good, RingHolds

LEMMA DropGood ==
    ASSUME NEW cap \in Nat \ {0}, NEW total \in Nat, NEW q, Good(q, cap, total),
           NEW n \in 0 .. q.count
    PROVE  Good(DropItems(q, cap, n), cap, total)
<1> DEFINE w == DropItems(q, cap, n)
<1>1. /\ q.head \in Slots(cap) /\ q.tail \in Slots(cap) /\ q.count \in 0 .. cap
      /\ q.buf \in [Slots(cap) -> Nat] /\ q.count <= total
      /\ q.tail = (q.head + q.count) % cap /\ n \in 0 .. cap
  BY DEF Good, Ring, RingHolds
<1>2. /\ w.head = (q.head + n) % cap /\ w.tail = q.tail /\ w.count = q.count - n
      /\ w.buf = [s \in Slots(cap) |-> IF Ahead(q.head, s, cap) < n THEN Erased ELSE q.buf[s]]
  BY DEF DropItems
<1>3. w \in Ring(cap)
  <2>1. w.buf \in [Slots(cap) -> Nat] BY <1>1, <1>2 DEF Erased
  <2>2. w.head \in Slots(cap) BY <1>1, <1>2, Move
  <2>3. w.count \in 0 .. cap BY <1>1, <1>2
  <2> QED BY <1>1, <1>2, <2>1, <2>2, <2>3 DEF Ring, DropItems
<1>4. w.tail = (w.head + w.count) % cap
  <2>1. q.count - n \in 0 .. cap - n /\ n + (q.count - n) = q.count BY <1>1
  <2>2. (((q.head + n) % cap) + (q.count - n)) % cap = (q.head + (n + (q.count - n))) % cap
    BY <1>1, <2>1, MoveTwice
  <2> QED BY <1>1, <1>2, <2>1, <2>2
<1>5. ASSUME NEW s \in Slots(cap)
      PROVE  w.buf[s] = IF Ahead(w.head, s, cap) < w.count
                        THEN total - w.count + Ahead(w.head, s, cap) + 1 ELSE Erased
  <2>1. Ahead(q.head, s, cap) \in Slots(cap) BY <1>1, AheadType
  <2>2. Ahead(w.head, s, cap) = IF n <= Ahead(q.head, s, cap) THEN Ahead(q.head, s, cap) - n
                                ELSE Ahead(q.head, s, cap) - n + cap
    BY <1>1, <1>2, AheadAfter
  <2>3. q.buf[s] = IF Ahead(q.head, s, cap) < q.count
                   THEN total - q.count + Ahead(q.head, s, cap) + 1 ELSE Erased
    BY DEF Good, RingHolds
  <2>4. w.buf[s] = IF Ahead(q.head, s, cap) < n THEN Erased ELSE q.buf[s] BY <1>2
  <2> HIDE DEF w
  <2> QED BY <1>1, <1>2, <2>1, <2>2, <2>3, <2>4 DEF Slots
<1>6. w.count <= total BY <1>1, <1>2
<1> QED BY <1>3, <1>4, <1>5, <1>6 DEF Good, RingHolds

(* What is at the head are the oldest items that wait, in order.           *)
LEMMA HeadReads ==
    ASSUME NEW cap \in Nat \ {0}, NEW total \in Nat, NEW q, Good(q, cap, total),
           NEW n \in 0 .. q.count
    PROVE  HeadItems(q, cap, n) = [i \in 1 .. n |-> total - q.count + i]
<1>1. /\ q.head \in Slots(cap) /\ q.count \in 0 .. cap /\ q.count <= total
  BY DEF Good, Ring
<1>2. ASSUME NEW i \in 1 .. n
      PROVE  q.buf[(q.head + i - 1) % cap] = total - q.count + i
  <2>1. i - 1 \in Slots(cap) /\ i - 1 < q.count /\ q.head + i - 1 = q.head + (i - 1)
    BY <1>1 DEF Slots
  <2>2. (q.head + (i - 1)) % cap \in Slots(cap)
    <3>1. i - 1 \in 0 .. cap BY <1>1
    <3> QED BY <1>1, <3>1, Move
  <2>4. Ahead(q.head, (q.head + (i - 1)) % cap, cap) = i - 1 BY <1>1, <2>1, AheadOfSlot
  <2>3. q.buf[(q.head + (i - 1)) % cap] = total - q.count + (i - 1) + 1
    BY <2>1, <2>2, <2>4 DEF Good, RingHolds
  <2> QED BY <1>1, <2>1, <2>3
<1> QED BY <1>2 DEF HeadItems

-----------------------------------------------------------------------------
(* The inductive invariant.                                                *)

RingsGood ==
    /\ queued \in 0 .. MaxItems /\ Good(queue, QueueCap, queued)
    /\ piped \in 0 .. MaxItems /\ Good(pipe, PipeCap, piped)

Calls == [Callers -> [op : {"idle", "wait", "signal"}, seen : 0 .. MaxCount]]

PermitsGood == count \in 0 .. MaxCount /\ permits = count /\ call \in Calls

Inv == RingsGood /\ PermitsGood

LEMMA Caps == QueueCap \in Nat \ {0} /\ PipeCap \in Nat \ {0}
BY RingAssumption

LEMMA InitInv == Init => Inv
<1> SUFFICES ASSUME Init PROVE Inv OBVIOUS
<1>1. RingsGood BY NewRingGood, Caps, LengthAssumption DEF Init, RingsGood
<1>2. PermitsGood BY CountAssumption DEF Init, PermitsGood, Calls, Idle
<1> QED BY <1>1, <1>2 DEF Inv

LEMMA SendInv == Inv /\ Send => Inv'
<1> SUFFICES ASSUME Inv, Send PROVE Inv' OBVIOUS
<1>1. PermitsGood' BY DEF Inv, PermitsGood, Send, semVars
<1>2. CASE QueueHasRoom /\ queued < MaxItems /\ queue' = PutItems(queue, QueueCap, queued, 1)
           /\ queued' = queued + 1 /\ UNCHANGED pipeVars
  <2>1. queue.count \in 0 .. QueueCap BY DEF Inv, RingsGood, Good, Ring
  <2>2. 1 \in 0 .. QueueCap - queue.count BY <1>2, <2>1, Caps DEF QueueHasRoom
  <2>3. Good(queue', QueueCap, queued') BY <1>2, <2>2, Caps, PutGood DEF Inv, RingsGood
  <2> QED BY <1>1, <1>2, <2>3, LengthAssumption DEF Inv, RingsGood, pipeVars
<1>3. CASE UNCHANGED <<queue, queued, pipeVars>>
  BY <1>1, <1>3 DEF Inv, RingsGood, pipeVars
<1> QED BY <1>2, <1>3 DEF Send

LEMMA RecvInv == Inv /\ Recv => Inv'
<1> SUFFICES ASSUME Inv, Recv PROVE Inv' OBVIOUS
<1>1. PermitsGood' BY DEF Inv, PermitsGood, Recv, semVars
<1>2. CASE queue.count > 0 /\ queue' = DropItems(queue, QueueCap, 1) /\ UNCHANGED <<queued, pipeVars>>
  <2>1. queue.count \in 0 .. QueueCap BY DEF Inv, RingsGood, Good, Ring
  <2>2. 1 \in 0 .. queue.count BY <1>2, <2>1, Caps
  <2>3. Good(queue', QueueCap, queued') BY <1>2, <2>2, Caps, DropGood DEF Inv, RingsGood
  <2> QED BY <1>1, <1>2, <2>3 DEF Inv, RingsGood, pipeVars
<1>3. CASE UNCHANGED <<queue, queued, pipeVars>>
  BY <1>1, <1>3 DEF Inv, RingsGood, pipeVars
<1> QED BY <1>2, <1>3 DEF Recv

LEMMA WriteInv == ASSUME NEW k \in Lengths PROVE Inv /\ Write(k) => Inv'
<1> SUFFICES ASSUME Inv, Write(k) PROVE Inv' OBVIOUS
<1> DEFINE n == AtMost(k, PipeRoom)
<1>1. PermitsGood' BY DEF Inv, PermitsGood, Write, semVars
<1>2. pipe.count \in 0 .. PipeCap BY DEF Inv, RingsGood, Good, Ring
<1>3. n \in 0 .. PipeCap - pipe.count BY <1>2, Caps, LengthAssumption DEF PipeRoom, AtMost
<1>4. /\ piped + n <= MaxItems /\ piped' = piped + n
      /\ pipe' = PutItems(pipe, PipeCap, piped, n) /\ UNCHANGED queueVars
  BY DEF Write
<1> HIDE DEF n
<1>5. Good(pipe', PipeCap, piped') BY <1>3, <1>4, Caps, PutGood DEF Inv, RingsGood
<1>6. piped' \in 0 .. MaxItems BY <1>2, <1>3, <1>4, Caps, LengthAssumption DEF Inv, RingsGood
<1> QED BY <1>1, <1>4, <1>5, <1>6 DEF Inv, RingsGood, queueVars

LEMMA ReadInv == ASSUME NEW k \in Lengths PROVE Inv /\ Read(k) => Inv'
<1> SUFFICES ASSUME Inv, Read(k) PROVE Inv' OBVIOUS
<1> DEFINE n == AtMost(k, pipe.count)
<1>1. PermitsGood' BY DEF Inv, PermitsGood, Read, semVars
<1>2. pipe.count \in 0 .. PipeCap BY DEF Inv, RingsGood, Good, Ring
<1>3. n \in 0 .. pipe.count BY <1>2, Caps, LengthAssumption DEF AtMost
<1>4. pipe' = DropItems(pipe, PipeCap, n) /\ UNCHANGED <<piped, queueVars>> BY DEF Read
<1> HIDE DEF n
<1>5. Good(pipe', PipeCap, piped') BY <1>3, <1>4, Caps, DropGood DEF Inv, RingsGood
<1> QED BY <1>1, <1>4, <1>5 DEF Inv, RingsGood, queueVars

(* The steps of the semaphore's callers leave both rings alone.            *)
LEMMA CallerInv ==
    ASSUME NEW c \in Callers
    PROVE  Inv /\ (Begin(c, "wait") \/ Begin(c, "signal") \/ Refused(c) \/ Swap(c)) => Inv'
<1> SUFFICES ASSUME Inv, Begin(c, "wait") \/ Begin(c, "signal") \/ Refused(c) \/ Swap(c)
             PROVE  Inv'
  OBVIOUS
<1>1. RingsGood' BY DEF Inv, RingsGood, Begin, Refused, Swap, queueVars, pipeVars
<1>2. ASSUME NEW op \in {"wait", "signal"}, Begin(c, op) PROVE PermitsGood'
  BY <1>2 DEF Inv, PermitsGood, Calls, Begin, SetCall
<1>3. CASE Refused(c)
  BY <1>1, <1>3, CountAssumption DEF Inv, PermitsGood, Calls, Refused, Idle
<1>4. CASE Swap(c)
  <2>1. CASE SwapFits(c) /\ count' = Updated(call[c].op, call[c].seen)
             /\ permits' = Updated(call[c].op, permits) /\ call' = [call EXCEPT ![c] = Idle]
    <3>1. count' = permits' BY <2>1 DEF Inv, PermitsGood, SwapFits
    <3>2. count' \in 0 .. MaxCount
      <4>1. call[c].seen \in 0 .. MaxCount /\ Allowed(call[c].op, call[c].seen)
        BY <1>4 DEF Inv, PermitsGood, Calls, Swap
      <4> QED BY <2>1, <4>1, CountAssumption DEF Updated, Allowed
    <3>3. call' \in Calls BY <2>1, CountAssumption DEF Inv, PermitsGood, Calls, Idle
    <3> QED BY <1>1, <3>1, <3>2, <3>3 DEF Inv, PermitsGood
  <2>2. CASE SetCall(c, call[c].op, count) /\ UNCHANGED <<count, permits>>
    <3>1. call[c].op \in {"idle", "wait", "signal"} BY DEF Inv, PermitsGood, Calls
    <3>2. call' \in Calls BY <2>2, <3>1 DEF Inv, PermitsGood, Calls, SetCall
    <3> QED BY <1>1, <2>2, <3>2 DEF Inv, PermitsGood
  <2> QED BY <1>4, <2>1, <2>2 DEF Swap
<1> QED BY <1>1, <1>2, <1>3, <1>4 DEF Inv

LEMMA StutterInv == Inv /\ UNCHANGED vars => Inv'
BY DEF Inv, RingsGood, PermitsGood, vars, queueVars, pipeVars, semVars

LEMMA NextInv == Inv /\ [Next]_vars => Inv'
<1> SUFFICES ASSUME Inv, [Next]_vars PROVE Inv' OBVIOUS
<1>1. CASE Send BY <1>1, SendInv
<1>2. CASE Recv BY <1>2, RecvInv
<1>3. CASE \E k \in Lengths : Write(k) \/ Read(k) BY <1>3, WriteInv, ReadInv
<1>4. CASE \E c \in Callers : Begin(c, "wait") \/ Begin(c, "signal") \/ Refused(c) \/ Swap(c)
  BY <1>4, CallerInv
<1>5. CASE UNCHANGED vars BY <1>5, StutterInv
<1> QED BY <1>1, <1>2, <1>3, <1>4, <1>5 DEF Next

(* The invariant that the theorems below rest on holds in every behaviour. *)
THEOREM Invariance == Spec => []Inv
<1> QED BY InitInv, NextInv, PTL DEF Spec

(* Head, tail and count of both rings stay within the buffers, and the     *)
(* count of the semaphore between 0 and max.                               *)
THEOREM TypeCorrect == Spec => []TypeOK
<1>1. Inv => TypeOK
  BY CountAssumption, LengthAssumption DEF Inv, RingsGood, PermitsGood, Good, Calls, TypeOK
<1> QED BY <1>1, Invariance, PTL

(* Both rings hold what was put in last, in order; the rest is erased.     *)
THEOREM RingsCorrect == Spec => []NothingLeftBehind
<1>1. Inv => NothingLeftBehind BY DEF Inv, RingsGood, Good, NothingLeftBehind
<1> QED BY <1>1, Invariance, PTL

(* Racing callers of the semaphore neither lose nor invent a permit.       *)
THEOREM PermitsCorrect == Spec => []PermitsConserved
<1>1. Inv => PermitsConserved BY DEF Inv, PermitsGood, PermitsConserved
<1> QED BY <1>1, Invariance, PTL

-----------------------------------------------------------------------------
(* Refinement: the items between total - count and total wait in the FIFO. *)

LEMMA QueueInit == Init => QueueFifo!Init
BY NewRingGood, Caps DEF Init, QueueFifo!Init, Reply, QueueFifo!Reply, NewRing

LEMMA QueueNext == Inv /\ [Next]_vars => [QueueFifo!Next]_QueueFifo!vars
<1> SUFFICES ASSUME Inv, [Next]_vars PROVE [QueueFifo!Next]_QueueFifo!vars OBVIOUS
<1>1. /\ queue.count \in 0 .. QueueCap /\ queued \in 0 .. MaxItems /\ queue.count <= queued
      /\ Good(queue, QueueCap, queued)
  BY DEF Inv, RingsGood, Good, Ring
<1>2. queued - (queued - queue.count) = queue.count BY <1>1, Caps, LengthAssumption
<1>3. CASE Send
  <2>1. QueueFifo!Put(1)
    <3>1. CASE QueueHasRoom /\ queued < MaxItems /\ queue' = PutItems(queue, QueueCap, queued, 1)
               /\ queued' = queued + 1
               /\ queueReply' = Reply("put", 1, [i \in 1 .. 1 |-> queued + 1])
      <4>1. QueueFifo!AtMost(1, QueueCap - (queued - (queued - queue.count))) = 1
        BY <1>1, <1>2, <3>1, Caps DEF QueueFifo!AtMost, QueueHasRoom
      <4>2. [i \in 1 .. 1 |-> queued + 1] = QueueFifo!ItemsAfter(queued, 1)
        BY <1>1, LengthAssumption DEF QueueFifo!ItemsAfter
      <4>3. queued' - queue'.count = queued - queue.count
        BY <1>1, <3>1, Caps, LengthAssumption DEF PutItems
      <4>4. queued + 1 <= MaxItems BY <1>1, <3>1, LengthAssumption
      <4> QED BY <3>1, <4>1, <4>2, <4>3, <4>4 DEF QueueFifo!Put, QueueFifo!Reply, Reply
    <3>2. CASE ~QueueHasRoom /\ queueReply' = Reply("put", 1, <<>>) /\ UNCHANGED <<queue, queued>>
      <4>1. QueueFifo!AtMost(1, QueueCap - (queued - (queued - queue.count))) = 0
        BY <1>1, <1>2, <3>2, Caps DEF QueueFifo!AtMost, QueueHasRoom
      <4>2. QueueFifo!ItemsAfter(queued, 0) = <<>> BY DEF QueueFifo!ItemsAfter
      <4>3. queued + 0 = queued /\ queued <= MaxItems BY <1>1, LengthAssumption
      <4> QED BY <3>2, <4>1, <4>2, <4>3 DEF QueueFifo!Put, QueueFifo!Reply, Reply
    <3> QED BY <1>3, <3>1, <3>2 DEF Send
  <2> QED BY <2>1 DEF QueueFifo!Next
<1>4. CASE Recv
  <2>1. QueueFifo!Get(1)
    <3>1. CASE queue.count > 0 /\ queue' = DropItems(queue, QueueCap, 1) /\ queued' = queued
               /\ queueReply' = Reply("get", 1, HeadItems(queue, QueueCap, 1))
      <4>1. QueueFifo!AtMost(1, queued - (queued - queue.count)) = 1
        BY <1>1, <1>2, <3>1, Caps DEF QueueFifo!AtMost
      <4>2. HeadItems(queue, QueueCap, 1) = QueueFifo!ItemsAfter(queued - queue.count, 1)
        <5>1. 1 \in 0 .. queue.count /\ queued \in Nat BY <1>1, <3>1, Caps, LengthAssumption
        <5>2. \A n \in 0 .. queue.count :
                 HeadItems(queue, QueueCap, n) = [i \in 1 .. n |-> queued - queue.count + i]
          BY <1>1, <5>1, HeadReads, Caps
        <5> QED BY <5>1, <5>2 DEF QueueFifo!ItemsAfter
      <4>3. queued' - queue'.count = queued - queue.count + 1
        BY <1>1, <3>1, Caps, LengthAssumption DEF DropItems
      <4> QED BY <3>1, <4>1, <4>2, <4>3 DEF QueueFifo!Get, QueueFifo!Reply, Reply
    <3>2. CASE queue.count = 0 /\ queueReply' = Reply("get", 1, <<>>) /\ UNCHANGED <<queue, queued>>
      <4>1. QueueFifo!AtMost(1, queued - (queued - queue.count)) = 0
        BY <1>1, <1>2, <3>2, Caps DEF QueueFifo!AtMost
      <4>2. QueueFifo!ItemsAfter(queued - queue.count, 0) = <<>> BY DEF QueueFifo!ItemsAfter
      <4>3. (queued - queue.count) + 0 = queued - queue.count BY <1>1, LengthAssumption
      <4> QED BY <3>2, <4>1, <4>2, <4>3 DEF QueueFifo!Get, QueueFifo!Reply, Reply
    <3> QED BY <1>4, <3>1, <3>2 DEF Recv
  <2> QED BY <2>1 DEF QueueFifo!Next
<1>5. CASE UNCHANGED queueVars BY <1>5 DEF queueVars, QueueFifo!vars
<1>6. [Next]_vars => Send \/ Recv \/ UNCHANGED queueVars
  BY DEF Next, Write, Read, Begin, Refused, Swap, vars
<1> QED BY <1>3, <1>4, <1>5, <1>6

(* The message queue behaves as a bounded first-in-first-out buffer.       *)
THEOREM QueueImplementsFifo == Spec => QueueIsFifo
<1> QED BY QueueInit, QueueNext, Invariance, PTL DEF Spec, QueueIsFifo, QueueFifo!Spec

LEMMA PipeInit == Init => PipeFifo!Init
BY NewRingGood, Caps DEF Init, PipeFifo!Init, Reply, PipeFifo!Reply, NewRing

LEMMA PipeNext == Inv /\ [Next]_vars => [PipeFifo!Next]_PipeFifo!vars
<1> SUFFICES ASSUME Inv, [Next]_vars PROVE [PipeFifo!Next]_PipeFifo!vars OBVIOUS
<1>1. /\ pipe.count \in 0 .. PipeCap /\ piped \in 0 .. MaxItems /\ pipe.count <= piped
      /\ Good(pipe, PipeCap, piped)
  BY DEF Inv, RingsGood, Good, Ring
<1>2. piped - (piped - pipe.count) = pipe.count BY <1>1, Caps, LengthAssumption
<1>3. ASSUME NEW k \in Lengths, Write(k)
      PROVE  PipeFifo!Put(k)
  <2> DEFINE n == AtMost(k, PipeRoom)
  <2>1. PipeFifo!AtMost(k, PipeCap - (piped - (piped - pipe.count))) = n
    BY <1>2 DEF PipeFifo!AtMost, AtMost, PipeRoom
  <2>2. n \in Nat BY <1>1, Caps, LengthAssumption DEF AtMost, PipeRoom
  <2>3. /\ piped + n <= MaxItems /\ piped' = piped + n
        /\ pipe' = PutItems(pipe, PipeCap, piped, n)
        /\ pipeReply' = Reply("put", k, [i \in 1 .. n |-> piped + i])
    BY <1>3 DEF Write
  <2> HIDE DEF n
  <2>4. piped' - pipe'.count = piped - pipe.count
    BY <1>1, <2>2, <2>3, Caps, LengthAssumption DEF PutItems
  <2> QED BY <2>1, <2>3, <2>4 DEF PipeFifo!Put, PipeFifo!ItemsAfter, PipeFifo!Reply, Reply
<1>4. ASSUME NEW k \in Lengths, Read(k)
      PROVE  PipeFifo!Get(k)
  <2> DEFINE n == AtMost(k, pipe.count)
  <2>1. PipeFifo!AtMost(k, piped - (piped - pipe.count)) = n
    BY <1>2 DEF PipeFifo!AtMost, AtMost
  <2>2. n \in 0 .. pipe.count BY <1>1, Caps, LengthAssumption DEF AtMost
  <2>3. /\ pipe' = DropItems(pipe, PipeCap, n) /\ piped' = piped
        /\ pipeReply' = Reply("get", k, HeadItems(pipe, PipeCap, n))
    BY <1>4 DEF Read
  <2> HIDE DEF n
  <2>4. piped' - pipe'.count = (piped - pipe.count) + n
    BY <1>1, <2>2, <2>3, Caps, LengthAssumption DEF DropItems
  <2>5. HeadItems(pipe, PipeCap, n) = PipeFifo!ItemsAfter(piped - pipe.count, n)
    BY <1>1, <2>2, HeadReads, Caps, LengthAssumption DEF PipeFifo!ItemsAfter
  <2> QED BY <2>1, <2>3, <2>4, <2>5 DEF PipeFifo!Get, PipeFifo!Reply, Reply
<1>5. CASE UNCHANGED pipeVars BY <1>5 DEF pipeVars, PipeFifo!vars
<1>6. [Next]_vars => (\E k \in Lengths : Write(k) \/ Read(k)) \/ UNCHANGED pipeVars
  BY DEF Next, Send, Recv, Begin, Refused, Swap, vars
<1> QED BY <1>3, <1>4, <1>5, <1>6 DEF PipeFifo!Next

(* The pipe behaves as a bounded first-in-first-out buffer.                *)
THEOREM PipeImplementsFifo == Spec => PipeIsFifo
<1> QED BY PipeInit, PipeNext, Invariance, PTL DEF Spec, PipeIsFifo, PipeFifo!Spec
=============================================================================
