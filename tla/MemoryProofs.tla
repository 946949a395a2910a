---------------------------- MODULE MemoryProofs ----------------------------
(***************************************************************************)
(* Proofs about Memory: any heap, any number of callers, any frames.       *)
(***************************************************************************)
EXTENDS Memory, FiniteSetTheorems, TLAPS

-----------------------------------------------------------------------------
(* The bump allocator.                                                     *)

LEMMA RoundDownNear ==
    ASSUME NEW a \in Nat, NEW align \in Nat \ {0}
    PROVE  /\ RoundDown(a, align) \in Nat
           /\ RoundDown(a, align) % align = 0
           /\ RoundDown(a, align) <= a /\ a < RoundDown(a, align) + align
BY DEF RoundDown

(* A caller in alloc has read a value that next has had.                   *)
ReadsBehind ==
    \A c \in Callers : call[c] # Idle =>
        call[c].size > 0 /\ call[c].align > 0 /\ call[c].current \in HeapStart .. next

RegionsBehind ==
    \A r \in regions :
        /\ r.addr >= HeapStart /\ r.addr + r.size <= next /\ r.addr % r.align = 0
        /\ \A s \in regions \ {r} : r.addr + r.size <= s.addr \/ s.addr + s.size <= r.addr

BumpType ==
    /\ next \in HeapStart .. HeapEnd
    /\ call \in [Callers -> [size : Nat, align : Nat, current : Nat]]
    /\ regions \subseteq Region

BumpInv == BumpType /\ ReadsBehind /\ RegionsBehind

(* What a caller asks for lies behind the value it has read, or fails.     *)
LEMMA AlignedAhead ==
    ASSUME BumpInv, NEW c \in Callers, call[c] # Idle, ~Fails(c)
    PROVE  /\ Aligned(c) \in Nat /\ Aligned(c) >= call[c].current
           /\ Aligned(c) % call[c].align = 0
           /\ NextAfter(c) = Aligned(c) + call[c].size
           /\ NextAfter(c) \in Nat /\ NextAfter(c) <= HeapEnd
<1> DEFINE q == call[c]
           sum == q.current + (q.align - 1)
<1>1. /\ q.size \in Nat \ {0} /\ q.align \in Nat \ {0} /\ q.current \in Nat
      /\ sum \in Nat /\ MaxAddress \in Nat
  BY HeapAssumption DEF BumpInv, BumpType, ReadsBehind
<1>2. CheckedAdd(q.current, q.align - 1) = sum
  BY <1>1 DEF Fails, CheckedAdd, NoSum
<1> HIDE DEF q, sum
<1>3. Aligned(c) = RoundDown(sum, q.align) BY <1>2 DEF Aligned, q
<1>4. /\ Aligned(c) \in Nat /\ Aligned(c) % q.align = 0 /\ sum < Aligned(c) + q.align
  BY <1>1, <1>3, RoundDownNear
<1>5. Aligned(c) >= q.current BY <1>1, <1>4 DEF sum
<1>6. NextAfter(c) = CheckedAdd(Aligned(c), q.size) BY DEF NextAfter, q
<1>7. NextAfter(c) # NoSum /\ ~(NextAfter(c) > HeapEnd) BY DEF Fails
<1>8. NextAfter(c) = Aligned(c) + q.size BY <1>6, <1>7 DEF CheckedAdd
<1> QED BY <1>1, <1>4, <1>5, <1>7, <1>8, HeapAssumption DEF q

LEMMA BumpInit == Init => BumpInv
<1> SUFFICES ASSUME Init PROVE BumpInv OBVIOUS
<1>1. Idle \in [size : Nat, align : Nat, current : Nat] BY DEF Idle
<1>2. BumpType BY <1>1, HeapAssumption DEF Init, BumpType
<1> QED BY <1>2 DEF Init, BumpInv, ReadsBehind, RegionsBehind

LEMMA AllocKeepsBump ==
    ASSUME BumpInv, NEW c \in Callers, NEW size \in Sizes, NEW align \in Aligns,
           Alloc(c, size, align)
    PROVE  BumpInv'
<1>1. CASE UNCHANGED vars
  BY <1>1 DEF vars, bumpVars, BumpInv, BumpType, ReadsBehind, RegionsBehind
<1>2. CASE /\ size # 0 /\ IsPowerOfTwo(align)
           /\ call' = [call EXCEPT ![c] = [size |-> size, align |-> align, current |-> next]]
           /\ UNCHANGED <<next, regions, frameVars>>
  <2>1. size \in Nat /\ align \in Nat /\ align > 0 BY <1>2, RequestAssumption DEF IsPowerOfTwo
  <2>2. next \in HeapStart .. HeapEnd /\ next \in Nat
    BY HeapAssumption DEF BumpInv, BumpType
  <2>3. \A d \in Callers : call'[d] = IF d = c THEN [size |-> size, align |-> align, current |-> next]
                                      ELSE call[d]
    BY <1>2 DEF BumpInv, BumpType
  <2>4. BumpType' BY <1>2, <2>1, <2>2 DEF BumpInv, BumpType
  <2>5. ReadsBehind' BY <1>2, <2>1, <2>2, <2>3, HeapAssumption DEF BumpInv, ReadsBehind
  <2>6. RegionsBehind' BY <1>2 DEF BumpInv, RegionsBehind
  <2> QED BY <2>4, <2>5, <2>6 DEF BumpInv
<1> QED BY <1>1, <1>2 DEF Alloc

(* Two callers that read the same next: the swap of the second one fails.  *)
LEMMA AllocStepKeepsBump ==
    ASSUME BumpInv, NEW c \in Callers, AllocStep(c)
    PROVE  BumpInv'
<1>1. /\ next \in HeapStart .. HeapEnd /\ next \in Nat /\ HeapStart \in Nat /\ HeapEnd \in Nat
      /\ call \in [Callers -> [size : Nat, align : Nat, current : Nat]]
      /\ regions \subseteq Region
  BY HeapAssumption DEF BumpInv, BumpType
<1>2. Idle \in [size : Nat, align : Nat, current : Nat] BY DEF Idle
<1>3. CASE AllocFails(c)
  <2>1. /\ next' = next /\ regions' = regions
        /\ \A d \in Callers : call'[d] = IF d = c THEN Idle ELSE call[d]
    BY <1>1, <1>3 DEF AllocFails
  <2>2. BumpType' BY <1>1, <1>2, <1>3 DEF AllocFails, BumpType
  <2> QED BY <2>1, <2>2 DEF BumpInv, ReadsBehind, RegionsBehind
<1>4. CASE AllocRetries(c)
  <2>1. call[c] # Idle /\ call' = [call EXCEPT ![c].current = next] /\ next' = next /\ regions' = regions
    BY <1>4 DEF AllocRetries
  <2>2. /\ call[c].size > 0 /\ call[c].align > 0 BY <2>1 DEF BumpInv, ReadsBehind
  <2>3. BumpType' BY <1>1, <2>1 DEF BumpType
  <2>4. ReadsBehind'
    <3>1. ASSUME NEW d \in Callers, call'[d] # Idle
          PROVE  call'[d].size > 0 /\ call'[d].align > 0 /\ call'[d].current \in HeapStart .. next
      <4>1. CASE d = c BY <1>1, <2>1, <2>2, <4>1
      <4>2. CASE d # c BY <1>1, <2>1, <3>1, <4>2 DEF BumpInv, ReadsBehind
      <4> QED BY <4>1, <4>2
    <3> QED BY <2>1, <3>1 DEF ReadsBehind
  <2>5. RegionsBehind' BY <2>1 DEF BumpInv, RegionsBehind
  <2> QED BY <2>3, <2>4, <2>5 DEF BumpInv
<1>5. CASE AllocSucceeds(c)
  <2> DEFINE new == [owner |-> c, addr |-> Aligned(c), size |-> call[c].size, align |-> call[c].align]
  <2>1. /\ call[c] # Idle /\ next = call[c].current /\ next' = NextAfter(c)
        /\ regions' = regions \cup {new}
        /\ \A d \in Callers : call'[d] = IF d = c THEN Idle ELSE call[d]
    BY <1>1, <1>5 DEF AllocSucceeds, SwapFits
  <2>2. /\ Aligned(c) \in Nat /\ Aligned(c) >= next /\ Aligned(c) % call[c].align = 0
        /\ NextAfter(c) = Aligned(c) + call[c].size
        /\ NextAfter(c) \in Nat /\ NextAfter(c) <= HeapEnd
    BY <1>5, <2>1, AlignedAhead DEF AllocSucceeds
  <2>3. call[c].size \in Nat \ {0} /\ call[c].align \in Nat
    BY <1>1, <2>1 DEF BumpInv, ReadsBehind
  <2>4. /\ new \in Region /\ new.addr = Aligned(c) /\ new.size = call[c].size
        /\ new.align = call[c].align
    BY <2>2, <2>3 DEF Region
  <2> HIDE DEF new
  <2>5. BumpType'
    <3>1. call' \in [Callers -> [size : Nat, align : Nat, current : Nat]]
      BY <1>1, <1>2, <1>5 DEF AllocSucceeds
    <3>2. next' \in HeapStart .. HeapEnd BY <1>1, <2>1, <2>2, <2>3
    <3> QED BY <1>1, <2>1, <2>4, <3>1, <3>2 DEF BumpType
  <2>6. next <= next' /\ next' \in Nat BY <1>1, <2>1, <2>2, <2>3
  <2>7. ReadsBehind'
    <3>1. ASSUME NEW d \in Callers, call'[d] # Idle
          PROVE  call'[d].size > 0 /\ call'[d].align > 0 /\ call'[d].current \in HeapStart .. next'
      <4>1. d # c /\ call'[d] = call[d] BY <2>1, <3>1
      <4>2. call[d].size > 0 /\ call[d].align > 0 /\ call[d].current \in HeapStart .. next
        BY <3>1, <4>1 DEF BumpInv, ReadsBehind
      <4> QED BY <1>1, <2>6, <4>1, <4>2
    <3> QED BY <3>1 DEF ReadsBehind
  <2>8. ASSUME NEW r \in regions
        PROVE  /\ r.addr \in Nat /\ r.size \in Nat /\ r.addr >= HeapStart
               /\ r.addr + r.size <= next /\ r.addr % r.align = 0
    <3>1. r \in Region BY <1>1
    <3> QED BY <3>1 DEF Region, BumpInv, RegionsBehind
  <2>9. RegionsBehind'
    <3>1. ASSUME NEW r \in regions \cup {new}
          PROVE  /\ r.addr >= HeapStart /\ r.addr + r.size <= next' /\ r.addr % r.align = 0
                 /\ \A s \in (regions \cup {new}) \ {r} :
                        r.addr + r.size <= s.addr \/ s.addr + s.size <= r.addr
      <4>1. CASE r = new
        <5>1. \A s \in regions : s.addr + s.size <= new.addr BY <1>1, <2>2, <2>4, <2>8
        <5> QED BY <1>1, <2>1, <2>2, <2>3, <2>4, <4>1, <5>1
      <4>2. CASE r \in regions
        <5>1. r.addr + r.size <= new.addr BY <1>1, <2>2, <2>4, <2>8, <4>2
        <5>2. \A s \in regions \ {r} : r.addr + r.size <= s.addr \/ s.addr + s.size <= r.addr
          BY <4>2 DEF BumpInv, RegionsBehind
        <5>3. r.addr >= HeapStart /\ r.addr + r.size <= next' /\ r.addr % r.align = 0
          BY <1>1, <2>6, <2>8, <4>2
        <5> QED BY <5>1, <5>2, <5>3
      <4> QED BY <3>1, <4>1, <4>2
    <3> QED BY <2>1, <3>1 DEF RegionsBehind
  <2> QED BY <2>5, <2>7, <2>9 DEF BumpInv
<1> QED BY <1>3, <1>4, <1>5 DEF AllocStep

-----------------------------------------------------------------------------
(* The frame allocator.                                                    *)

LEMMA FramesFinite ==
    /\ IsFiniteSet(Frame) /\ Cardinality(Frame) = Total
    /\ \A S : IsFiniteSet(Frame \ S) /\ Cardinality(Frame \ S) \in 0 .. Total
<1>1. IsFiniteSet(0 .. Total - 1) /\ Cardinality(0 .. Total - 1) = Total
  BY FS_Interval, FrameAssumption
<1>2. IsFiniteSet(Frame) /\ Cardinality(Frame) = Total BY <1>1 DEF Frame
<1>3. ASSUME NEW S
      PROVE  IsFiniteSet(Frame \ S) /\ Cardinality(Frame \ S) \in 0 .. Total
  <2>1. IsFiniteSet(Frame \ S) /\ Cardinality(Frame \ S) <= Cardinality(Frame)
    BY <1>2, FS_Subset
  <2>2. Cardinality(Frame \ S) \in Nat BY <2>1, FS_CardinalityType
  <2> QED BY <1>2, <2>1, <2>2, FrameAssumption
<1> QED BY <1>2, <1>3

FrameType ==
    used \subseteq Frame /\ held \subseteq Frame /\ reserved \subseteq Frame

FrameInv == FrameType /\ FreeCountAgrees /\ FramesExclusive

LEMMA FrameInit == Init => FrameInv
<1> SUFFICES ASSUME Init PROVE FrameInv OBVIOUS
<1>1. Frame \ used = Frame BY DEF Init
<1> QED BY <1>1, FramesFinite DEF Init, FrameInv, FrameType, FreeCountAgrees, FramesExclusive

LEMMA AllocFrameKeeps ==
    ASSUME FrameInv, AllocFrame
    PROVE  FrameInv'
<1>1. CASE UNCHANGED vars
  BY <1>1 DEF vars, frameVars, FrameInv, FrameType, FreeCountAgrees, FramesExclusive
<1>2. ASSUME NEW f \in Frame, FirstFree(f), used' = used \cup {f}, held' = held \cup {f},
             freeCount' = freeCount - 1, reserved' = reserved
      PROVE  FrameInv'
  <2>1. f \in Frame \ used BY <1>2 DEF FirstFree
  <2>2. Frame \ used' = (Frame \ used) \ {f} BY <1>2
  <2>3. Cardinality(Frame \ used') = Cardinality(Frame \ used) - 1
    BY <2>1, <2>2, FramesFinite, FS_RemoveElement
  <2>4. FreeCountAgrees' BY <1>2, <2>3 DEF FrameInv, FreeCountAgrees
  <2>5. f \notin reserved BY <2>1 DEF FrameInv, FramesExclusive
  <2>6. FrameType' /\ FramesExclusive' BY <1>2, <2>5 DEF FrameInv, FrameType, FramesExclusive
  <2> QED BY <2>4, <2>6 DEF FrameInv
<1> QED BY <1>1, <1>2 DEF AllocFrame

(* What a caller may free is its own, so that nothing reserved is cleared. *)
LEMMA FreeFrameKeeps ==
    ASSUME FrameInv, NEW addr \in Addresses, MayFree(addr), FreeFrame(addr)
    PROVE  FrameInv'
<1>1. CASE UNCHANGED vars
  BY <1>1 DEF vars, frameVars, FrameInv, FrameType, FreeCountAgrees, FramesExclusive
<1>2. CASE /\ Freeable(addr)
           /\ used' = used \ {FrameOf(addr)}
           /\ freeCount' = freeCount + 1
           /\ held' = held \ {FrameOf(addr)}
           /\ reserved' = reserved
  <2> DEFINE f == FrameOf(addr)
  <2>1. f \in used /\ f \in Frame BY <1>2 DEF Freeable, FrameInv, FrameType
  <2>2. f \in held
    <3>1. addr \in Nat /\ addr >= PhysBase
      <4>1. addr \in Nat
        <5>1. PhysBase + (Total + 1) * PageSize \in Nat BY FrameAssumption
        <5> QED BY <5>1 DEF Addresses
      <4> QED BY <1>2, <4>1 DEF Freeable
    <3>2. PICK g \in 0 .. Total : addr = AddressOf(g) /\ g \notin used \ held
      BY <3>1, FrameAssumption DEF MayFree
    <3>3. f = g BY <3>2, FrameAssumption DEF FrameOf, AddressOf
    <3> HIDE DEF f
    <3> QED BY <2>1, <3>2, <3>3
  <2> HIDE DEF f
  <2>3. f \notin reserved BY <2>2 DEF FrameInv, FramesExclusive
  <2>4. used' = used \ {f} /\ held' = held \ {f} /\ reserved' = reserved /\ freeCount' = freeCount + 1
    BY <1>2 DEF f
  <2>5. Frame \ used' = (Frame \ used) \cup {f} /\ f \notin Frame \ used BY <2>1, <2>4
  <2>6. Cardinality(Frame \ used') = Cardinality(Frame \ used) + 1
    BY <2>5, FramesFinite, FS_AddElement
  <2>7. FreeCountAgrees' BY <2>4, <2>6 DEF FrameInv, FreeCountAgrees
  <2>8. FrameType' /\ FramesExclusive' BY <2>3, <2>4 DEF FrameInv, FrameType, FramesExclusive
  <2> QED BY <2>7, <2>8 DEF FrameInv
<1> QED BY <1>1, <1>2 DEF FreeFrame

(* The rounding of reserve_range misses no frame that the range touches.   *)
LEMMA TouchedReserved ==
    ASSUME NEW start \in Nat, NEW end \in Nat
    PROVE  Touched(start, end) \subseteq FramesOf(start, end)
<1> SUFFICES ASSUME NEW f \in Frame, start < AddressOf(f) + PageSize, AddressOf(f) < end
             PROVE  f \in FramesOf(start, end)
  BY DEF Touched
<1> DEFINE from == FromBase(start)
           to == FromBase(end)
<1>1. f \in Nat /\ PageSize \in Nat \ {0} /\ PhysBase \in Nat /\ f * PageSize \in Nat
  BY FrameAssumption DEF Frame
<1>2. /\ from \in Nat /\ to \in Nat
      /\ from < f * PageSize + PageSize /\ f * PageSize < to
  BY <1>1 DEF FromBase, AddressOf
<1> HIDE DEF from, to
<1>3. from \div PageSize <= f
  <2> DEFINE q == from \div PageSize
  <2>1. q \in Nat /\ q * PageSize <= from BY <1>1, <1>2
  <2> HIDE DEF q
  <2>2. q * PageSize < (f + 1) * PageSize BY <1>1, <1>2, <2>1
  <2>3. q < f + 1 BY <1>1, <2>1, <2>2
  <2> QED BY <1>1, <2>1, <2>3 DEF q
<1>4. f < (to + PageSize - 1) \div PageSize
  <2> DEFINE q == (to + PageSize - 1) \div PageSize
  <2>1. q \in Nat /\ to + PageSize - 1 < (q + 1) * PageSize BY <1>1, <1>2
  <2> HIDE DEF q
  <2>2. f * PageSize < q * PageSize BY <1>1, <1>2, <2>1
  <2>3. f < q BY <1>1, <2>1, <2>2
  <2> QED BY <2>3 DEF q
<1> QED BY <1>3, <1>4 DEF FramesOf, from, to

LEMMA ReserveKeeps ==
    ASSUME FrameInv, NEW start \in Addresses, NEW end \in Addresses, ReserveRange(start, end)
    PROVE  FrameInv'
<1> DEFINE new == Marks(start, end)
           free == Frame \ used
<1>1. start \in Nat /\ end \in Nat
  <2>1. PhysBase + (Total + 1) * PageSize \in Nat BY FrameAssumption
  <2> QED BY <2>1 DEF Addresses
<1>2. /\ used' = used \cup new
      /\ freeCount' = IF Cardinality(new) <= freeCount THEN freeCount - Cardinality(new) ELSE 0
      /\ reserved' = reserved \cup (Touched(start, end) \ held)
      /\ held' = held
  BY DEF ReserveRange
<1>3. new \subseteq free /\ FramesOf(start, end) \subseteq used \cup new
  BY DEF Marks, FramesOf
<1>4. Touched(start, end) \subseteq used \cup new /\ Touched(start, end) \subseteq Frame
  BY <1>1, <1>3, TouchedReserved DEF Touched
<1> HIDE DEF new
<1>5. IsFiniteSet(free) /\ Cardinality(free) \in Nat /\ freeCount = Cardinality(free)
  <2>1. IsFiniteSet(free) /\ Cardinality(free) \in 0 .. Total BY FramesFinite
  <2> QED BY <2>1, FrameAssumption DEF FrameInv, FreeCountAgrees
<1>6. Frame \ used' = free \ new BY <1>2, <1>3
<1> HIDE DEF free
<1>7. free \cap new = new BY <1>3
<1>8. /\ Cardinality(free \ new) = Cardinality(free) - Cardinality(new)
      /\ Cardinality(new) \in Nat /\ Cardinality(new) <= Cardinality(free)
  <2>1. Cardinality(free \ new) = Cardinality(free) - Cardinality(free \cap new)
    BY <1>5, FS_Difference
  <2>2. IsFiniteSet(new) /\ Cardinality(new) <= Cardinality(free) BY <1>3, <1>5, FS_Subset
  <2>3. Cardinality(new) \in Nat BY <2>2, FS_CardinalityType
  <2> QED BY <1>7, <2>1, <2>2, <2>3
<1>9. FreeCountAgrees' BY <1>2, <1>5, <1>6, <1>8 DEF FreeCountAgrees
<1>10. FrameType' /\ FramesExclusive'
  BY <1>2, <1>3, <1>4 DEF FrameInv, FrameType, FramesExclusive, free
<1> QED BY <1>9, <1>10 DEF FrameInv

-----------------------------------------------------------------------------
(* The results.                                                            *)

Inv == BumpInv /\ FrameInv

LEMMA StepInv == Inv /\ [Next]_vars => Inv'
<1> SUFFICES ASSUME Inv, [Next]_vars PROVE Inv' OBVIOUS
<1>1. ASSUME UNCHANGED frameVars PROVE FrameInv'
  BY <1>1 DEF frameVars, Inv, FrameInv, FrameType, FreeCountAgrees, FramesExclusive
<1>2. ASSUME UNCHANGED bumpVars PROVE BumpInv'
  BY <1>2 DEF bumpVars, Inv, BumpInv, BumpType, ReadsBehind, RegionsBehind
<1>3. CASE UNCHANGED vars BY <1>1, <1>2, <1>3 DEF vars, Inv
<1>4. ASSUME NEW c \in Callers, AllocStep(c) PROVE Inv'
  <2>1. UNCHANGED frameVars BY <1>4 DEF AllocStep, AllocFails, AllocSucceeds, AllocRetries
  <2> QED BY <1>1, <1>4, <2>1, AllocStepKeepsBump DEF Inv
<1>5. ASSUME NEW c \in Callers, NEW size \in Sizes, NEW align \in Aligns, Alloc(c, size, align)
      PROVE  Inv'
  <2>1. UNCHANGED frameVars BY <1>5 DEF Alloc, vars
  <2> QED BY <1>1, <1>5, <2>1, AllocKeepsBump DEF Inv
<1>6. CASE AllocFrame
  <2>1. UNCHANGED bumpVars BY <1>6 DEF AllocFrame, vars
  <2> QED BY <1>2, <1>6, <2>1, AllocFrameKeeps DEF Inv
<1>7. ASSUME NEW addr \in Addresses, MayFree(addr), FreeFrame(addr) PROVE Inv'
  <2>1. UNCHANGED bumpVars BY <1>7 DEF FreeFrame, vars
  <2> QED BY <1>2, <1>7, <2>1, FreeFrameKeeps DEF Inv
<1>8. ASSUME NEW start \in Addresses, NEW end \in Addresses, ReserveRange(start, end)
      PROVE  Inv'
  <2>1. UNCHANGED bumpVars BY <1>8 DEF ReserveRange
  <2> QED BY <1>2, <1>8, <2>1, ReserveKeeps DEF Inv
<1> QED BY <1>3, <1>4, <1>5, <1>6, <1>7, <1>8 DEF Next

(* The invariant of both allocators holds in every behaviour.              *)
THEOREM Invariance == Spec => []Inv
<1>1. Init => Inv BY BumpInit, FrameInit DEF Inv
<1> QED BY <1>1, StepInv, PTL DEF Spec

(* Both allocators are well typed; free_count never wraps below zero.      *)
THEOREM TypeCorrect == Spec => []TypeOK
<1>1. Inv => TypeOK
  <2> SUFFICES ASSUME Inv PROVE TypeOK OBVIOUS
  <2>1. freeCount \in 0 .. Total BY FramesFinite DEF Inv, FrameInv, FreeCountAgrees
  <2> QED BY <2>1 DEF Inv, BumpInv, BumpType, FrameInv, FrameType, TypeOK
<1> QED BY <1>1, Invariance, PTL

(* alloc never hands out a byte twice, however its callers interleave.     *)
THEOREM NoOverlap == Spec => []RegionsDisjoint
<1>1. Inv => RegionsDisjoint
  <2> SUFFICES ASSUME Inv PROVE RegionsDisjoint OBVIOUS
  <2>1. next <= HeapEnd /\ next \in Nat BY HeapAssumption DEF Inv, BumpInv, BumpType
  <2>2. ASSUME NEW r \in regions PROVE r.addr + r.size <= HeapEnd
    <3>1. r \in Region BY DEF Inv, BumpInv, BumpType
    <3>2. r.addr \in Nat /\ r.size \in Nat /\ r.addr + r.size <= next
      BY <3>1 DEF Region, Inv, BumpInv, RegionsBehind
    <3> QED BY <2>1, <3>2, HeapAssumption
  <2> QED BY <2>2 DEF Inv, BumpInv, RegionsBehind, RegionsDisjoint
<1> QED BY <1>1, Invariance, PTL

(* free_count counts the clear bits, through alloc, free and reserve.      *)
THEOREM CountCorrect == Spec => []FreeCountAgrees
<1>1. Inv => FreeCountAgrees BY DEF Inv, FrameInv
<1> QED BY <1>1, Invariance, PTL

(* No frame has two owners and no reserved one is handed out.              *)
THEOREM FramesOwned == Spec => []FramesExclusive
<1>1. Inv => FramesExclusive BY DEF Inv, FrameInv
<1> QED BY <1>1, Invariance, PTL
=============================================================================
