------------------------------- MODULE Memory -------------------------------
(***************************************************************************)
(* The two allocators of kernel/memory/src/lib.rs.                         *)
(*                                                                         *)
(* BumpAllocator::alloc takes &self: callers run it concurrently and meet  *)
(* at one compare-and-swap, so it is split there.  FrameAllocator takes    *)
(* &mut self: each of its operations is one action.  Its bitmap is the set *)
(* of frames whose bit is set.                                             *)
(***************************************************************************)
EXTENDS Integers, FiniteSetsExt

CONSTANTS Callers,            \* concurrent callers of alloc
          HeapStart, HeapEnd, \* the heap's addresses, the end excluded
          MaxAddress,         \* usize::MAX
          Sizes, Aligns,      \* what callers ask for
          PageSize,           \* PAGE_SIZE
          PhysBase, Total     \* the first address and the number of frames

ASSUME HeapAssumption ==
    /\ HeapStart \in Nat /\ HeapEnd \in Nat /\ MaxAddress \in Nat
    /\ HeapStart <= HeapEnd /\ HeapEnd <= MaxAddress
ASSUME RequestAssumption == Sizes \subseteq Nat /\ Aligns \subseteq Nat
ASSUME FrameAssumption == PageSize \in Nat \ {0} /\ PhysBase \in Nat /\ Total \in Nat

VARIABLES next,      \* BumpAllocator::next
          call,      \* call[c]: the alloc that caller c is in, or Idle
          regions,   \* history: the regions handed out
          used,      \* FrameAllocator::bitmap
          freeCount, \* FrameAllocator::free_count
          held,      \* history: the frames callers own
          reserved   \* history: frames that a reserved range touches and nobody owned then

bumpVars  == <<next, call, regions>>
frameVars == <<used, freeCount, held, reserved>>
vars == <<bumpVars, frameVars>>

(***************************************************************************)
(* BumpAllocator.                                                          *)
(***************************************************************************)
Idle == [size |-> 0, align |-> 1, current |-> 0]

IsPowerOfTwo(n) == n > 0 /\ \E k \in 0 .. n : n = 2 ^ k

(* A fault: wrapping addition in place of checked_add [SEC-FIX-H].         *)
WrappingAdd(a, b) == (a + b) % (MaxAddress + 1)

(* checked_add on usize: NoSum when the sum does not fit.                  *)
NoSum == -1
CheckedAdd(a, b) == IF a + b <= MaxAddress THEN a + b ELSE NoSum

(* current + (align - 1), with the low bits cleared.                       *)
RoundDown(a, align) == (a \div align) * align

Aligned(c)   == RoundDown(CheckedAdd(call[c].current, call[c].align - 1), call[c].align)
NextAfter(c) == CheckedAdd(Aligned(c), call[c].size)

(* Does the request of c fail with Overflow or OutOfMemory?                *)
Fails(c) ==
    \/ CheckedAdd(call[c].current, call[c].align - 1) = NoSum
    \/ NextAfter(c) = NoSum
    \/ NextAfter(c) > HeapEnd

(* alloc up to the load of next; a bad request is refused before it.       *)
Alloc(c, size, align) ==
    /\ call[c] = Idle
    /\ \/ /\ size # 0 /\ IsPowerOfTwo(align)
          /\ call' = [call EXCEPT ![c] = [size |-> size, align |-> align, current |-> next]]
          /\ UNCHANGED <<next, regions, frameVars>>
       \/ (size = 0 \/ ~IsPowerOfTwo(align)) /\ UNCHANGED vars

AllocFails(c) ==
    /\ call[c] # Idle
    /\ Fails(c)
    /\ call' = [call EXCEPT ![c] = Idle]
    /\ UNCHANGED <<next, regions, frameVars>>

(* A fault: a store where the compare-and-swap should be.                  *)
StoreNext(c) == TRUE

(* Does the compare-and-swap find the value that c has read?               *)
SwapFits(c) == next = call[c].current

AllocSucceeds(c) ==
    /\ call[c] # Idle /\ ~Fails(c) /\ SwapFits(c)
    /\ next' = NextAfter(c)
    /\ regions' = regions \cup {[owner |-> c, addr |-> Aligned(c), size |-> call[c].size, align |-> call[c].align]}
    /\ call' = [call EXCEPT ![c] = Idle]
    /\ UNCHANGED frameVars

(* A fault: a retry with the value that failed.                            *)
RetryWithOld(c) ==
    /\ call[c] # Idle /\ ~Fails(c) /\ ~SwapFits(c)
    /\ UNCHANGED vars

(* The value that was found is tried next.  A spurious failure of the weak *)
(* compare-and-swap finds the same value: a stuttering step.               *)
AllocRetries(c) ==
    /\ call[c] # Idle /\ ~Fails(c) /\ ~SwapFits(c)
    /\ call' = [call EXCEPT ![c].current = next]
    /\ UNCHANGED <<next, regions, frameVars>>

AllocStep(c) == AllocFails(c) \/ AllocSucceeds(c) \/ AllocRetries(c)

(***************************************************************************)
(* FrameAllocator.                                                         *)
(***************************************************************************)
Frame == 0 .. Total - 1

AddressOf(f) == PhysBase + f * PageSize

(* alloc_frame: the first clear bit, if it is one of a frame.              *)
FirstFree(f) == f \in Frame \ used /\ \A g \in Frame \ used : f <= g

AllocFrame ==
    \/ /\ freeCount # 0
       /\ \E f \in Frame :
             /\ FirstFree(f)
             /\ used' = used \cup {f}
             /\ held' = held \cup {f}
       /\ freeCount' = freeCount - 1
       /\ UNCHANGED <<bumpVars, reserved>>
    \/ (freeCount = 0 \/ Frame \subseteq used) /\ UNCHANGED vars

(* The frame an address lies in.                                           *)
FrameOf(addr) == (addr - PhysBase) \div PageSize

Freeable(addr) == addr >= PhysBase /\ FrameOf(addr) < Total /\ FrameOf(addr) \in used

FreeFrame(addr) ==
    \/ /\ Freeable(addr)
       /\ used' = used \ {FrameOf(addr)}
       /\ freeCount' = freeCount + 1
       /\ held' = held \ {FrameOf(addr)}
       /\ UNCHANGED <<bumpVars, reserved>>
    \/ ~Freeable(addr) /\ UNCHANGED vars

(* free_frame is unsafe: its caller frees frames that it owns.  Addresses  *)
(* that are free already or no frame's are refused by the code.            *)
MayFree(addr) ==
    \/ addr < PhysBase
    \/ \E f \in 0 .. Total : addr = AddressOf(f) /\ f \notin used \ held

FromBase(addr) == IF addr >= PhysBase THEN addr - PhysBase ELSE 0

(* A fault: the end of a reserved range rounded down.                      *)
FramesWithin(start, end) ==
    {f \in Frame : FromBase(start) \div PageSize <= f /\ f < FromBase(end) \div PageSize}

(* The frames of a reserved range: start rounded down, end rounded up.     *)
FramesOf(start, end) ==
    {f \in Frame : /\ FromBase(start) \div PageSize <= f
                   /\ f < (FromBase(end) + PageSize - 1) \div PageSize}

(* A fault: a reservation that counts frames which are in use already.     *)
MarksAll(start, end) == FramesOf(start, end)

(* The frames whose bit a reservation sets, and counts.                    *)
Marks(start, end) == FramesOf(start, end) \ used

(* The frames that have a byte in start .. end - 1.                        *)
Touched(start, end) ==
    {f \in Frame : start < AddressOf(f) + PageSize /\ AddressOf(f) < end /\ start < end}

ReserveRange(start, end) ==
    LET new == Marks(start, end)
    IN  /\ used' = used \cup new
        /\ freeCount' = IF Cardinality(new) <= freeCount THEN freeCount - Cardinality(new) ELSE 0
        /\ reserved' = reserved \cup (Touched(start, end) \ held)
        /\ UNCHANGED <<bumpVars, held>>

(***************************************************************************)
(* The specification.                                                      *)
(***************************************************************************)
Init ==
    /\ next = HeapStart
    /\ call = [c \in Callers |-> Idle]
    /\ regions = {}
    /\ used = {}
    /\ freeCount = Total
    /\ held = {}
    /\ reserved = {}

Addresses == 0 .. PhysBase + (Total + 1) * PageSize

Next ==
    \/ \E c \in Callers :
          AllocStep(c) \/ \E size \in Sizes, align \in Aligns : Alloc(c, size, align)
    \/ AllocFrame
    \/ \E addr \in Addresses : MayFree(addr) /\ FreeFrame(addr)
    \/ \E start, end \in Addresses : ReserveRange(start, end)

Spec == Init /\ [][Next]_vars

(* A caller in alloc keeps running.                                        *)
FairSpec == Spec /\ \A c \in Callers : WF_vars(AllocStep(c))

(***************************************************************************)
(* Properties.                                                             *)
(***************************************************************************)
Region == [owner : Callers, addr : Nat, size : Nat \ {0}, align : Nat]

(* Type invariant of the two allocators.                                   *)
TypeOK ==
    /\ next \in HeapStart .. HeapEnd
    /\ call \in [Callers -> [size : Nat, align : Nat, current : Nat]]
    /\ regions \subseteq Region
    /\ used \subseteq Frame /\ held \subseteq Frame /\ reserved \subseteq Frame
    /\ freeCount \in 0 .. Total

(* No two callers of alloc get a common byte, every region lies in the     *)
(* heap, at the alignment that was asked for, also at the end of the       *)
(* address space.                                                          *)
RegionsDisjoint ==
    \A r \in regions :
        /\ r.addr >= HeapStart /\ r.addr + r.size <= HeapEnd /\ r.addr % r.align = 0
        /\ \A s \in regions \ {r} : r.addr + r.size <= s.addr \/ s.addr + s.size <= r.addr

(* A caller that loses the race for the next region tries again and ends.  *)
AllocReturns == \A c \in Callers : call[c] # Idle ~> call[c] = Idle

(* free_count is the number of clear bits: alloc_frame, which trusts it,   *)
(* does not report OutOfMemory while a frame is free.                      *)
FreeCountAgrees == freeCount = Cardinality(Frame \ used)

(* A frame that somebody owns, or that a reserved range touches, is not    *)
(* handed out: its bit is set, and a reserved frame has no owner.          *)
FramesExclusive == held \cup reserved \subseteq used /\ held \cap reserved = {}
=============================================================================
