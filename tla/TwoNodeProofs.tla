--------------------------- MODULE TwoNodeProofs ---------------------------
(***************************************************************************)
(* Proofs about TwoNode: error correction never makes an error, and the    *)
(* blocks that both ends get are equal, in order and fully paid for; the   *)
(* tags are the polynomial that the one-time MAC promises (Poly1305); what *)
(* the cable brings unaltered is what was sealed (Codec); and a round      *)
(* without noise shows no error, and one that is tapped may (Qubits).      *)
(***************************************************************************)
EXTENDS TwoNode, FiniteSetTheorems, SequenceTheorems, WellFoundedInduction, TLAPS

(***************************************************************************)
(* Intervals of the raw key.                                               *)
(***************************************************************************)

(* A whole number of lengths that fit.                                     *)
LEMMA Multiples ==
    ASSUME NEW a \in Nat, NEW b \in Nat \ {0}, NEW c \in Nat, c < a \div b
    PROVE  /\ c * b \in Nat /\ (c + 1) * b \in Nat
           /\ c * b < (c + 1) * b /\ (c + 1) * b <= a
<1> DEFINE q == a \div b
<1>1. /\ q \in Nat /\ a % b \in Nat
      /\ a = b * q + (a % b)
  OBVIOUS
<1>2. c * b \in Nat /\ (c + 1) * b = c * b + b
  OBVIOUS
<1>3. PICK k \in Nat : q = (c + 1) + k
  <2>1. q - (c + 1) \in Nat /\ q = (c + 1) + (q - (c + 1))
    BY <1>1
  <2> QED
    BY <2>1
<1> HIDE DEF q
<1>4. b * q = (c + 1) * b + k * b /\ k * b \in Nat
  BY <1>3
<1> QED
  BY <1>1, <1>2, <1>4

(* The chunk that reconcile is at lies within the raw key.                 *)
ChunkInRange ==
    /\ ec \in [round : 0 .. EcMaxRounds, pass : DOMAIN Passes, chunk : Nat]
    /\ ec.chunk < RawBits \div ChunkBits

LEMMA PassLength ==
    ASSUME NEW k \in DOMAIN Passes
    PROVE  /\ Passes[k][1] \in Nat \ {0} /\ RawBits % Passes[k][1] = 0
           /\ 0 < RawBits \div Passes[k][1]
<1>1. /\ Passes[k] \in (Nat \ {0}) \X Nat
      /\ RawBits % Passes[k][1] = 0
  BY PassAssumption
<1>2. Passes[k][1] \in Nat \ {0}
  BY <1>1
<1> DEFINE b == Passes[k][1]
<1>3. RawBits \in Nat \ {0}
  BY SizeAssumption
<1> HIDE DEF b
<1>4. b \in Nat \ {0} => RawBits = b * (RawBits \div b) + (RawBits % b) /\ RawBits \div b \in Nat
  BY <1>3
<1>5. b \in Nat \ {0} /\ RawBits % b = 0
  BY <1>1, <1>2 DEF b
<1>6. RawBits \div b # 0
  BY <1>3, <1>4, <1>5
<1>7. 0 < RawBits \div b
  BY <1>4, <1>5, <1>6
<1> QED
  BY <1>1, <1>2, <1>7 DEF b

LEMMA ChunkBounds ==
    ASSUME ChunkInRange
    PROVE  /\ ChunkLo \in Nat /\ ChunkHi \in Nat
           /\ ChunkLo < ChunkHi /\ ChunkHi <= RawBits
<1>1. ec.pass \in DOMAIN Passes /\ ec.chunk \in Nat /\ ec.chunk < RawBits \div ChunkBits
  BY DEF ChunkInRange
<1>2. ChunkBits \in Nat \ {0}
  BY <1>1, PassLength DEF ChunkBits
<1>3. RawBits \in Nat
  BY SizeAssumption
<1> QED
  BY <1>1, <1>2, <1>3, Multiples DEF ChunkLo, ChunkHi

LEMMA WrongFinite ==
    ASSUME NEW d, NEW lo \in Nat, NEW hi \in Nat
    PROVE  IsFiniteSet(Wrong(d, lo, hi)) /\ Cardinality(Wrong(d, lo, hi)) \in Nat
<1>1. IsFiniteSet(lo .. hi - 1)
  BY FS_Interval
<1>2. Wrong(d, lo, hi) \subseteq lo .. hi - 1
  BY DEF Wrong
<1> QED
  BY <1>1, <1>2, FS_Subset, FS_CardinalityType

(* The errors of an interval are those of its halves.                      *)
LEMMA WrongSplits ==
    ASSUME NEW d, NEW lo \in Nat, NEW mid \in Nat, NEW hi \in Nat, lo <= mid, mid <= hi
    PROVE  Cardinality(Wrong(d, lo, hi)) =
               Cardinality(Wrong(d, lo, mid)) + Cardinality(Wrong(d, mid, hi))
<1> DEFINE A == Wrong(d, lo, mid)
           B == Wrong(d, mid, hi)
<1>1. Wrong(d, lo, hi) = A \cup B
  <2>1. lo .. hi - 1 = (lo .. mid - 1) \cup (mid .. hi - 1)
    OBVIOUS
  <2> QED
    BY <2>1 DEF Wrong
<1>2. A \cap B = {}
  <2>1. (lo .. mid - 1) \cap (mid .. hi - 1) = {}
    OBVIOUS
  <2> QED
    BY <2>1 DEF Wrong
<1>3. IsFiniteSet(A) /\ IsFiniteSet(B) /\ Cardinality(A) \in Nat /\ Cardinality(B) \in Nat
  BY WrongFinite
<1>4. Cardinality(A \cup B) = Cardinality(A) + Cardinality(B) - Cardinality(A \cap B)
  BY <1>3, FS_Union
<1> HIDE DEF A, B
<1>5. Cardinality(A \cap B) = 0
  BY <1>2, FS_EmptySet
<1>6. Cardinality(A \cup B) = Cardinality(A) + Cardinality(B)
  BY <1>3, <1>4, <1>5
<1> QED
  BY <1>1, <1>6 DEF A, B

(***************************************************************************)
(* The invariant.                                                          *)
(***************************************************************************)

CountersOK ==
    /\ checks \in Nat /\ errors \in Nat /\ leaked \in Nat
    /\ phase = "correct" => checks >= MinChecks

(* The round after the last one has no pass left.                          *)
PlaceOK == ChunkInRange /\ (ec.round = EcMaxRounds => ec.pass = 1 /\ ec.chunk = 0)

(* The interval searched is a part of the chunk with an odd number of      *)
(* errors, as the whole chunk has.                                         *)
SearchOK ==
    /\ span \in [lo : Nat, hi : Nat]
    /\ span # NoSpan =>
          /\ phase = "correct" /\ ec.round < EcMaxRounds
          /\ ChunkLo <= span.lo /\ span.lo < span.hi /\ span.hi <= ChunkHi
          /\ ParitiesDiffer(span.lo, span.hi) /\ ParitiesDiffer(ChunkLo, ChunkHi)

DistillInv == CountersOK /\ PlaceOK /\ SearchOK

(* The start of reconcile is a place.                                      *)
LEMMA StartInRange ==
    /\ Start \in [round : 0 .. EcMaxRounds, pass : DOMAIN Passes, chunk : Nat]
    /\ 0 < RawBits \div Passes[1][1]
<1>1. 1 \in DOMAIN Passes
  BY PassAssumption
<1>2. 0 \in 0 .. EcMaxRounds
  BY SizeAssumption
<1> QED
  BY <1>1, <1>2, PassLength DEF Start

(* A reset forgets whatever harvest has done.                              *)
LEMMA ResetOK ==
    ASSUME Reset, phase' = "idle"
    PROVE  DistillInv'
<1>1. checks' = 0 /\ errors' = 0 /\ leaked' = 0 /\ ec' = Start /\ span' = NoSpan
  BY DEF Reset
<1>2. CountersOK'
  BY <1>1 DEF CountersOK
<1>3. PlaceOK'
  <2>1. ec'.round = 0 /\ ec'.pass = 1 /\ ec'.chunk = 0
    BY <1>1 DEF Start
  <2> QED
    BY <1>1, <2>1, StartInRange DEF PlaceOK, ChunkInRange, ChunkBits
<1>4. SearchOK'
  BY <1>1 DEF SearchOK, NoSpan
<1> QED
  BY <1>2, <1>3, <1>4 DEF DistillInv

(* The next chunk is a place, and so is the start of the next round.       *)
LEMMA NextChunkOK ==
    ASSUME PlaceOK, ec.round < EcMaxRounds, ec' = NextChunk
    PROVE  PlaceOK'
<1>1. /\ ec \in [round : 0 .. EcMaxRounds, pass : DOMAIN Passes, chunk : Nat]
      /\ ec.round \in Nat /\ ec.chunk \in Nat /\ EcMaxRounds \in Nat
  BY SizeAssumption DEF PlaceOK, ChunkInRange
<1>2. CASE ec.chunk + 1 < RawBits \div ChunkBits
  <2>1. ec' = [ec EXCEPT !.chunk = ec.chunk + 1]
    BY <1>2 DEF NextChunk
  <2>2. ec'.round = ec.round /\ ec'.pass = ec.pass /\ ec'.chunk = ec.chunk + 1
    BY <1>1, <2>1
  <2> QED
    BY <1>1, <1>2, <2>1, <2>2 DEF PlaceOK, ChunkInRange, ChunkBits
<1>3. CASE ~(ec.chunk + 1 < RawBits \div ChunkBits) /\ ec.pass < Len(Passes)
  <2>1. ec' = [round |-> ec.round, pass |-> ec.pass + 1, chunk |-> 0]
    BY <1>3 DEF NextChunk
  <2>2. ec'.round = ec.round /\ ec'.pass = ec.pass + 1 /\ ec'.chunk = 0
    BY <1>1, <2>1
  <2>3. ec.pass + 1 \in DOMAIN Passes
    BY <1>1, <1>3, PassAssumption
  <2>4. 0 < RawBits \div Passes[ec.pass + 1][1]
    BY <2>3, PassLength
  <2>5. ec' \in [round : 0 .. EcMaxRounds, pass : DOMAIN Passes, chunk : Nat]
    BY <1>1, <2>1, <2>3
  <2>6. ChunkInRange'
    BY <2>2, <2>4, <2>5 DEF ChunkInRange, ChunkBits
  <2>7. ec'.round # EcMaxRounds
    BY <1>1, <2>2
  <2> QED
    BY <2>6, <2>7 DEF PlaceOK
<1>4. CASE ~(ec.chunk + 1 < RawBits \div ChunkBits) /\ ~(ec.pass < Len(Passes))
  <2>1. ec' = [round |-> ec.round + 1, pass |-> 1, chunk |-> 0]
    BY <1>4 DEF NextChunk
  <2>2. 1 \in DOMAIN Passes /\ 0 < RawBits \div Passes[1][1]
    BY StartInRange DEF Start
  <2> QED
    BY <1>1, <2>1, <2>2 DEF PlaceOK, ChunkInRange, ChunkBits
<1> QED
  BY <1>2, <1>3, <1>4

(* The half that the search goes on with has the odd number of errors.     *)
LEMMA HalveOK ==
    ASSUME DistillInv, Halve
    PROVE  DistillInv'
<1>1. /\ span \in [lo : Nat, hi : Nat] /\ span # NoSpan /\ span.hi - span.lo > 1
      /\ ChunkLo <= span.lo /\ span.lo < span.hi /\ span.hi <= ChunkHi
      /\ ParitiesDiffer(span.lo, span.hi) /\ ParitiesDiffer(ChunkLo, ChunkHi)
      /\ ec.round < EcMaxRounds /\ phase = "correct"
      /\ ChunkLo \in Nat /\ ChunkHi \in Nat
  BY ChunkBounds DEF DistillInv, SearchOK, PlaceOK, Halve
<1>2. /\ UNCHANGED <<checks, errors, phase, ec, diff>> /\ leaked' = leaked + 1
      /\ span' = Half(span.lo, span.hi)
  BY DEF Halve, rawVars
<1> DEFINE lo == span.lo
           hi == span.hi
           mid == (lo + hi) \div 2
<1>3. lo \in Nat /\ hi \in Nat /\ mid \in Nat /\ lo < mid /\ mid < hi
  BY <1>1
<1>4. Cardinality(Wrong(diff, lo, hi)) =
          Cardinality(Wrong(diff, lo, mid)) + Cardinality(Wrong(diff, mid, hi))
  <2> HIDE DEF lo, mid, hi
  <2> QED
    BY <1>3, WrongSplits
<1>5. /\ Cardinality(Wrong(diff, lo, mid)) \in Nat
      /\ Cardinality(Wrong(diff, mid, hi)) \in Nat
  <2> HIDE DEF lo, mid, hi
  <2> QED
    BY <1>3, WrongFinite
<1>6. Cardinality(Wrong(diff, lo, hi)) % 2 = 1
  BY <1>1 DEF ParitiesDiffer
<1>7. ParitiesDiffer(span'.lo, span'.hi) /\ span' \in [lo : Nat, hi : Nat]
      /\ lo <= span'.lo /\ span'.lo < span'.hi /\ span'.hi <= hi
  <2>1. CASE ParitiesDiffer(lo, mid)
    <3>1. span' = [lo |-> lo, hi |-> mid]
      BY <1>2, <2>1 DEF Half
    <3> QED
      BY <1>3, <2>1, <3>1
  <2>2. CASE ~ParitiesDiffer(lo, mid)
    <3>1. span' = [lo |-> mid, hi |-> hi]
      BY <1>2, <2>2 DEF Half
    <3>2. Cardinality(Wrong(diff, lo, mid)) % 2 = 0
      BY <1>5, <2>2 DEF ParitiesDiffer
    <3>3. Cardinality(Wrong(diff, mid, hi)) % 2 = 1
      <4> DEFINE m == Cardinality(Wrong(diff, lo, mid))
                 n == Cardinality(Wrong(diff, mid, hi))
      <4>1. m \in Nat /\ n \in Nat /\ m % 2 = 0 /\ (m + n) % 2 = 1
        BY <1>4, <1>5, <1>6, <3>2
      <4> HIDE DEF m, n
      <4>2. n % 2 = 1
        BY <4>1
      <4> QED
        BY <4>2 DEF n
    <3> QED
      BY <1>3, <3>1, <3>3 DEF ParitiesDiffer
  <2> QED
    BY <2>1, <2>2
<1>8. /\ ParitiesDiffer(span.lo, span.hi)' /\ ParitiesDiffer(ChunkLo, ChunkHi)'
      /\ ChunkLo' = ChunkLo /\ ChunkHi' = ChunkHi
  BY <1>1, <1>2, <1>7 DEF ParitiesDiffer, Wrong, Perm, ChunkLo, ChunkHi, ChunkBits
<1>9. CountersOK'
  BY <1>2 DEF DistillInv, CountersOK
<1>10. PlaceOK'
  BY <1>2 DEF DistillInv, PlaceOK, ChunkInRange, ChunkBits
<1>11. SearchOK'
  <2>1. ChunkLo' <= span'.lo /\ span'.lo < span'.hi /\ span'.hi <= ChunkHi'
    BY <1>1, <1>3, <1>7, <1>8
  <2> QED
    BY <1>1, <1>2, <1>7, <1>8, <2>1 DEF SearchOK
<1> QED
  BY <1>9, <1>10, <1>11 DEF DistillInv

(* A comparison: an odd chunk is searched, an even one is left.            *)
LEMMA CompareOK ==
    ASSUME DistillInv, CompareChunk
    PROVE  DistillInv'
<1>1. /\ UNCHANGED <<checks, errors, phase, diff>> /\ leaked' = leaked + 1
      /\ phase = "correct" /\ ec.round < EcMaxRounds
  <2>1. ec.round \in 0 .. EcMaxRounds /\ EcMaxRounds \in Nat
    BY SizeAssumption DEF DistillInv, PlaceOK, ChunkInRange
  <2>2. ec.round # EcMaxRounds
    BY DEF CompareChunk, Reconciled, DistillInv, PlaceOK
  <2> QED
    BY <2>1, <2>2 DEF CompareChunk, rawVars
<1>2. CountersOK'
  BY <1>1 DEF DistillInv, CountersOK
<1>3. CASE ParitiesDiffer(ChunkLo, ChunkHi)
  <2>1. span' = [lo |-> ChunkLo, hi |-> ChunkHi] /\ ec' = ec
    BY <1>3 DEF CompareChunk
  <2>2. ChunkLo \in Nat /\ ChunkHi \in Nat /\ ChunkLo < ChunkHi
    BY ChunkBounds DEF DistillInv, PlaceOK
  <2>3. ParitiesDiffer(ChunkLo, ChunkHi)' /\ ChunkLo' = ChunkLo /\ ChunkHi' = ChunkHi
    BY <1>1, <1>3, <2>1 DEF ParitiesDiffer, Wrong, Perm, ChunkLo, ChunkHi, ChunkBits
  <2>4. ParitiesDiffer(span.lo, span.hi)'
    BY <2>1, <2>3
  <2>5. SearchOK'
    BY <1>1, <2>1, <2>2, <2>3, <2>4 DEF SearchOK
  <2>6. PlaceOK'
    BY <2>1 DEF DistillInv, PlaceOK, ChunkInRange, ChunkBits
  <2> QED
    BY <1>2, <2>5, <2>6 DEF DistillInv
<1>4. CASE ~ParitiesDiffer(ChunkLo, ChunkHi)
  <2>1. ec' = NextChunk /\ span' = span /\ span = NoSpan
    BY <1>4 DEF CompareChunk
  <2>2. PlaceOK'
    BY <1>1, <2>1, NextChunkOK DEF DistillInv
  <2>3. SearchOK'
    BY <2>1 DEF SearchOK, NoSpan
  <2> QED
    BY <1>2, <2>2, <2>3 DEF DistillInv
<1> QED
  BY <1>3, <1>4

(* The position found is one where the two ends differ, the only one of    *)
(* its chunk that is looked for there.                                     *)
LEMMA FlipFinds ==
    ASSUME DistillInv, FlipBit
    PROVE  /\ diff' = diff \ {Perm(span.lo)}
           /\ Cardinality(Wrong(diff', ChunkLo, ChunkHi)) % 2 = 0
<1>1. /\ span \in [lo : Nat, hi : Nat] /\ span # NoSpan /\ ~(span.hi - span.lo > 1)
      /\ ChunkLo <= span.lo /\ span.lo < span.hi /\ span.hi <= ChunkHi
      /\ ParitiesDiffer(span.lo, span.hi) /\ ParitiesDiffer(ChunkLo, ChunkHi)
      /\ ChunkLo \in Nat /\ ChunkHi \in Nat /\ ChunkHi <= RawBits
      /\ ec.round < EcMaxRounds
  BY ChunkBounds DEF DistillInv, SearchOK, PlaceOK, FlipBit
<1> DEFINE lo == span.lo
           odd == Wrong(diff, ChunkLo, ChunkHi)
<1>2. lo \in Nat /\ span.hi = lo + 1
  BY <1>1
<1>3. Perm(lo) \in diff
  <2>1. SUFFICES ASSUME Perm(lo) \notin diff
                 PROVE  FALSE
    OBVIOUS
  <2>2. Wrong(diff, lo, span.hi) = {}
    <3>1. lo .. span.hi - 1 = {lo}
      BY <1>2
    <3> QED
      BY <2>1, <3>1 DEF Wrong
  <2>3. Cardinality(Wrong(diff, lo, span.hi)) = 0
    BY <2>2, FS_EmptySet
  <2> QED
    BY <1>1, <2>3 DEF ParitiesDiffer
<1>4. diff' = diff \ {Perm(lo)}
  BY <1>3 DEF FlipBit
<1>5. lo \in odd
  BY <1>1, <1>2, <1>3 DEF Wrong
<1>6. Wrong(diff', ChunkLo, ChunkHi) = odd \ {lo}
  <2>1. ASSUME NEW i \in ChunkLo .. ChunkHi - 1, Perm(i) = Perm(lo)
        PROVE  i = lo
    <3>1. /\ ec.round \in 0 .. EcMaxRounds - 1 /\ ec.pass \in DOMAIN Passes
          /\ i \in 0 .. RawBits - 1 /\ lo \in 0 .. RawBits - 1
      BY <1>1, <1>2, SizeAssumption DEF DistillInv, PlaceOK, ChunkInRange
    <3>2. \A round \in 0 .. EcMaxRounds - 1, k \in DOMAIN Passes, x, y \in 0 .. RawBits - 1 :
             PermAt(round, k, x) = PermAt(round, k, y) => x = y
      BY PassAssumption
    <3> QED
      BY <2>1, <3>1, <3>2 DEF Perm
  <2> HIDE DEF lo
  <2> QED
    BY <1>4, <2>1 DEF Wrong
<1>7. IsFiniteSet(odd) /\ Cardinality(odd) \in Nat /\ Cardinality(odd) % 2 = 1
  BY <1>1, WrongFinite DEF ParitiesDiffer
<1>8. Cardinality(odd \ {lo}) = Cardinality(odd) - 1
  <2> HIDE DEF odd
  <2> QED
    BY <1>5, <1>7, FS_RemoveElement
<1>9. (Cardinality(odd) - 1) % 2 = 0
  BY <1>7
<1> QED
  BY <1>4, <1>6, <1>8, <1>9

LEMMA FlipOK ==
    ASSUME DistillInv, FlipBit
    PROVE  DistillInv'
<1>1. /\ UNCHANGED <<checks, errors, leaked, phase>> /\ ec' = NextChunk /\ span' = NoSpan
      /\ ec.round < EcMaxRounds
  BY DEF FlipBit, rawVars, DistillInv, SearchOK
<1>2. CountersOK'
  BY <1>1 DEF DistillInv, CountersOK
<1>3. PlaceOK'
  BY <1>1, NextChunkOK DEF DistillInv
<1>4. SearchOK'
  BY <1>1 DEF SearchOK, NoSpan
<1> QED
  BY <1>2, <1>3, <1>4 DEF DistillInv

(***************************************************************************)
(* The other steps of harvest.                                             *)
(***************************************************************************)

(* Outside reconcile no place is left and no search is open.               *)
LEMMA FillingOK ==
    ASSUME DistillInv, phase = "fill", UNCHANGED <<ec, span, leaked>>,
           checks' \in Nat, errors' \in Nat, phase' = "correct" => checks' >= MinChecks
    PROVE  DistillInv'
<1>1. CountersOK'
  BY DEF DistillInv, CountersOK
<1>2. PlaceOK'
  BY DEF DistillInv, PlaceOK, ChunkInRange, ChunkBits
<1>3. span = NoSpan
  BY DEF DistillInv, SearchOK
<1>4. SearchOK'
  BY <1>3 DEF SearchOK, NoSpan
<1> QED
  BY <1>1, <1>2, <1>4 DEF DistillInv

(* Every step of harvest keeps the invariant.                              *)
LEMMA DistillStep ==
    ASSUME DistillInv, [DistillNext]_distillVars
    PROVE  DistillInv'
<1>1. checks \in Nat /\ errors \in Nat /\ MinChecks \in Nat /\ (phase # "correct" => span = NoSpan)
  BY SizeAssumption DEF DistillInv, CountersOK, SearchOK
<1>2. CASE Harvest
  <2>1. phase = "idle" /\ phase' = "fill" /\ UNCHANGED <<checks, errors, leaked, ec, span, diff>>
    BY <1>2 DEF Harvest, rawVars
  <2>2. CountersOK' /\ PlaceOK'
    BY <2>1 DEF DistillInv, CountersOK, PlaceOK, ChunkInRange, ChunkBits
  <2>3. SearchOK'
    BY <1>1, <2>1 DEF SearchOK, NoSpan
  <2> QED
    BY <2>2, <2>3 DEF DistillInv
<1>3. CASE CheckRound
  <2>1. phase = "fill" /\ phase' = "fill" /\ UNCHANGED <<ec, span, leaked>>
    BY <1>3 DEF CheckRound, Filling
  <2>2. checks' \in Nat /\ errors' \in Nat
    BY <1>1, <1>3 DEF CheckRound
  <2> QED
    BY <2>1, <2>2, FillingOK
<1>4. CASE KeyRound
  <2>1. phase = "fill" /\ phase' = "fill" /\ UNCHANGED <<ec, span, leaked, checks, errors>>
    BY <1>4 DEF KeyRound, Filling
  <2> QED
    BY <1>1, <2>1, FillingOK
<1>5. CASE Estimate
  <2>1. CASE filled < RawBits \/ checks < MinChecks \/ QberPpm > QberAbortPpm
    <3>1. Reset /\ phase' = "idle"
      BY <1>5, <2>1 DEF Estimate, Fail
    <3> QED
      BY <3>1, ResetOK
  <2>2. CASE ~(filled < RawBits \/ checks < MinChecks \/ QberPpm > QberAbortPpm)
    <3>1. phase = "fill" /\ UNCHANGED <<ec, span, leaked, checks, errors>>
      BY <1>5, <2>2 DEF Estimate, rawVars
    <3> QED
      BY <1>1, <2>2, <3>1, FillingOK
  <2> QED
    BY <2>1, <2>2
<1>6. CASE CompareChunk
  BY <1>6, CompareOK
<1>7. CASE Halve
  BY <1>7, HalveOK
<1>8. CASE FlipBit
  BY <1>8, FlipOK
<1>9. CASE Amplify
  <2>1. Reset /\ phase' = "idle"
    BY <1>9 DEF Amplify, Fail
  <2> QED
    BY <2>1, ResetOK
<1>10. CASE UNCHANGED distillVars
  BY <1>10 DEF distillVars, DistillInv, CountersOK, PlaceOK, ChunkInRange, SearchOK,
               ChunkLo, ChunkHi, ChunkBits, ParitiesDiffer, Wrong, Perm
<1> QED
  BY <1>2, <1>3, <1>4, <1>5, <1>6, <1>7, <1>8, <1>9, <1>10 DEF DistillNext

(* The other steps of TwoNode are none of harvest.                         *)
LEMMA StepsOfDistill ==
    ASSUME [Next]_vars
    PROVE  [DistillNext]_distillVars
BY DEF Next, vars, Distribute, AskArp, Say, Pass, Tamper, Drop, ReceiveArp, ReceiveRecord

(* The state of reconcile is as it should be: a search is always about an  *)
(* interval with an odd number of errors (harvest, reconcile).             *)
THEOREM SearchIsOdd == Spec => []DistillInv
<1>1. Init => DistillInv
  <2> SUFFICES ASSUME Init
               PROVE  DistillInv
    OBVIOUS
  <2>1. checks = 0 /\ errors = 0 /\ leaked = 0 /\ ec = Start /\ span = NoSpan /\ phase = "idle"
    BY DEF Init, DistillInit
  <2>2. ec.round = 0 /\ ec.pass = 1 /\ ec.chunk = 0
    BY <2>1 DEF Start
  <2>3. PlaceOK
    BY <2>1, <2>2, StartInRange DEF PlaceOK, ChunkInRange, ChunkBits
  <2> QED
    BY <2>1, <2>3 DEF DistillInv, CountersOK, SearchOK, NoSpan
<1>2. DistillInv /\ [Next]_vars => DistillInv'
  BY StepsOfDistill, DistillStep
<1> QED
  BY <1>1, <1>2, PTL DEF Spec

(* Error correction never makes an error, and leaves no chunk with an odd  *)
(* number of them, whatever the sizes, the passes and the errors are       *)
(* (reconcile).                                                            *)
THEOREM CorrectionIsSafe == Spec => CorrectionOnlyRemoves
<1> DEFINE Safe ==
              phase = "correct" /\ phase' = "correct" =>
                 /\ diff' \subseteq diff
                 /\ ec' # ec => Cardinality(Wrong(diff', ChunkLo, ChunkHi)) % 2 = 0
<1>1. ASSUME DistillInv, [Next]_vars
      PROVE  [Safe]_distillVars
  <2>1. CASE Harvest \/ CheckRound \/ KeyRound \/ Estimate
    BY <2>1 DEF Harvest, CheckRound, KeyRound, Filling, Estimate
  <2>2. CASE CompareChunk
    <3>1. diff' = diff
      BY <2>2 DEF CompareChunk
    <3>2. ASSUME ec' # ec PROVE Cardinality(Wrong(diff, ChunkLo, ChunkHi)) % 2 = 0
      <4>1. ~ParitiesDiffer(ChunkLo, ChunkHi)
        BY <2>2, <3>2 DEF CompareChunk
      <4>2. Cardinality(Wrong(diff, ChunkLo, ChunkHi)) \in Nat
        BY <1>1, ChunkBounds, WrongFinite DEF DistillInv, PlaceOK
      <4>3. Cardinality(Wrong(diff, ChunkLo, ChunkHi)) % 2 # 1
        BY <4>1 DEF ParitiesDiffer
      <4> QED
        BY <4>2, <4>3
    <3> QED
      BY <3>1, <3>2
  <2>3. CASE Halve
    BY <2>3 DEF Halve
  <2>4. CASE FlipBit
    BY <1>1, <2>4, FlipFinds
  <2>5. CASE Amplify
    BY <2>5 DEF Amplify, Fail
  <2>6. CASE UNCHANGED distillVars
    BY <2>6
  <2> QED
    BY <1>1, <2>1, <2>2, <2>3, <2>4, <2>5, <2>6, StepsOfDistill DEF DistillNext
<1> QED
  BY <1>1, SearchIsOdd, PTL DEF Spec, CorrectionOnlyRemoves

(***************************************************************************)
(* The blocks.                                                             *)
(***************************************************************************)

LEMMA EveIsInt ==
    ASSUME CountersOK, phase = "correct"
    PROVE  EveBits(QberPpm) \in Int
<1>1. checks \in Nat \ {0} /\ errors \in Nat
  BY SizeAssumption DEF CountersOK
<1>2. QberPpm \in Nat
  <2>1. errors * 1000000 \in Nat
    BY <1>1
  <2> QED
    BY <1>1, <2>1 DEF QberPpm
<1> DEFINE i == QberPpm \div 10000
<1>3. i \in Nat
  BY <1>2
<1>4. \A k \in 1 .. 12 : EntropyTable[k] \in Int
  BY DEF EntropyTable
<1>5. RawBits \in Nat
  BY SizeAssumption
<1>6. CASE i >= 11
  <2>1. RawBits * EntropyTable[12] \in Int
    BY <1>4, <1>5
  <2>2. (RawBits * EntropyTable[12]) \div 10000 \in Int
    BY <2>1
  <2> QED
    BY <1>6, <2>2 DEF EveBits
<1>7. CASE ~(i >= 11)
  <2>1. i + 1 \in 1 .. 12 /\ i + 2 \in 1 .. 12
    BY <1>3, <1>7
  <2> DEFINE a == EntropyTable[i + 1]
             b == EntropyTable[i + 2]
             n == a * 10000 + (b - a) * (QberPpm % 10000)
  <2>2. a \in Int /\ b \in Int /\ QberPpm % 10000 \in Int
    BY <1>2, <1>4, <2>1
  <2>3. n \in Int
    <3> HIDE DEF a, b
    <3> QED
      BY <2>2
  <2>4. RawBits * n \in Int
    <3> HIDE DEF n
    <3> QED
      BY <1>5, <2>3
  <2>5. (RawBits * n) \div 100000000 \in Int
    <3> HIDE DEF n
    <3> QED
      BY <2>4
  <2>6. EveBits(QberPpm) = (RawBits * n) \div 100000000
    BY <1>7 DEF EveBits
  <2> QED
    BY <2>5, <2>6
<1> QED
  BY <1>6, <1>7

(* When the rest is as long as a block, no subtraction has stopped at 0.   *)
LEMMA NothingSaturates ==
    ASSUME NEW eve \in Int, NEW l \in Nat,
           AtLeast0(AtLeast0(AtLeast0(RawBits - eve) - l) - PaSafetyBits) >= KeyBlockBits
    PROVE  eve + l + PaSafetyBits + KeyBlockBits <= RawBits
<1>1. RawBits \in Nat /\ PaSafetyBits \in Nat /\ KeyBlockBits \in Nat \ {0}
  BY SizeAssumption
<1> QED
  BY <1>1 DEF AtLeast0

BlocksInv ==
    /\ given \in Seq([seq : Nat, diff : {{}}, charged : Int]) /\ nextSeq = Len(given)
    /\ BlocksAreSound

(* Only the end of harvest gives a block.                                  *)
LEMMA AmplifyGives ==
    ASSUME BlocksInv, DistillInv, Amplify
    PROVE  BlocksInv'
<1>1. CASE diff # {} \/ SecureBits(QberPpm) < KeyBlockBits
  BY <1>1 DEF Amplify, Fail, BlocksInv, BlocksAreSound
<1>2. CASE ~(diff # {} \/ SecureBits(QberPpm) < KeyBlockBits)
  <2> DEFINE eve == EveBits(QberPpm)
             n == Len(given)
  <2>1. /\ given' = Append(given, Block) /\ nextSeq' = nextSeq + 1
        /\ diff = {} /\ phase = "correct"
    BY <1>2 DEF Amplify
  <2>2. /\ leaked \in Nat /\ RawBits \in Nat /\ PaSafetyBits \in Nat
        /\ KeyBlockBits \in Nat
    BY SizeAssumption DEF DistillInv, CountersOK
  <2>3. eve \in Int
    BY <2>1, EveIsInt DEF DistillInv
  <2>4. eve + leaked + PaSafetyBits + KeyBlockBits <= RawBits
    <3> HIDE DEF eve
    <3>1. SecureBits(QberPpm) \in Int
      BY <2>2, <2>3 DEF SecureBits, AtLeast0, eve
    <3>2. SecureBits(QberPpm) >= KeyBlockBits
      BY <1>2, <2>2, <3>1
    <3> QED
      BY <2>2, <2>3, <3>2, NothingSaturates DEF SecureBits, eve
  <2>5. Block = [seq |-> n, diff |-> {}, charged |-> eve + leaked + PaSafetyBits]
    BY <2>1 DEF Block, BlocksInv
  <2> HIDE DEF eve
  <2>6. given \in Seq([seq : Nat, diff : {{}}, charged : Int]) /\ n \in Nat
    BY DEF BlocksInv
  <2>7. Block \in [seq : Nat, diff : {{}}, charged : Int]
    BY <2>2, <2>3, <2>5, <2>6
  <2>8. /\ given' \in Seq([seq : Nat, diff : {{}}, charged : Int])
        /\ Len(given') = n + 1 /\ nextSeq' = Len(given')
        /\ given'[n + 1] = Block /\ \A i \in 1 .. n : given'[i] = given[i]
    <3> HIDE DEF n
    <3>1. n = Len(given)
      BY DEF n
    <3>2. nextSeq = n
      BY <3>1 DEF BlocksInv
    <3> QED
      BY <2>1, <2>6, <2>7, <3>1, <3>2
  <2>9. ASSUME NEW i \in DOMAIN given'
        PROVE  /\ given'[i].seq = i - 1 /\ given'[i].diff = {}
               /\ given'[i].charged + KeyBlockBits <= RawBits
    <3>1. i \in 1 .. n + 1 /\ DOMAIN given = 1 .. n
      BY <2>6, <2>8
    <3>2. CASE i = n + 1
      BY <2>4, <2>5, <2>6, <2>8, <3>2
    <3>3. CASE i \in 1 .. n
      BY <2>8, <3>1, <3>3 DEF BlocksInv, BlocksAreSound
    <3> QED
      BY <2>6, <3>1, <3>2, <3>3
  <2> QED
    BY <2>8, <2>9 DEF BlocksInv, BlocksAreSound
<1> QED
  BY <1>1, <1>2

(* Both ends get equal blocks, numbered without a gap, and none of them    *)
(* is longer than what is left of the raw key (harvest).                   *)
THEOREM BlocksAlwaysSound == Spec => []BlocksAreSound
<1>1. Init => BlocksInv
  BY DEF Init, DistillInit, BlocksInv, BlocksAreSound
<1>2. ASSUME BlocksInv, DistillInv, [Next]_vars
      PROVE  BlocksInv'
  <2>1. CASE Harvest \/ CheckRound \/ KeyRound \/ CompareChunk \/ Halve \/ FlipBit
    BY <1>2, <2>1 DEF Harvest, CheckRound, KeyRound, CompareChunk, Halve, FlipBit,
                      BlocksInv, BlocksAreSound
  <2>2. CASE Estimate
    BY <1>2, <2>2 DEF Estimate, Fail, BlocksInv, BlocksAreSound
  <2>3. CASE Amplify
    BY <1>2, <2>3, AmplifyGives
  <2>4. CASE UNCHANGED distillVars
    BY <1>2, <2>4 DEF distillVars, BlocksInv, BlocksAreSound
  <2> QED
    BY <1>2, <2>1, <2>2, <2>3, <2>4, StepsOfDistill DEF DistillNext
<1>3. BlocksInv => BlocksAreSound
  BY DEF BlocksInv
<1> QED
  BY <1>1, <1>2, <1>3, SearchIsOdd, PTL DEF Spec

(***************************************************************************)
(* The arithmetic of Poly1305, for limbs of any size: no carry is lost in  *)
(* a multiplication or a propagation, and what finalize reads fits its     *)
(* limbs.                                                                  *)
(***************************************************************************)
Vector == [Limbs -> Nat]

(* A number is what a limb keeps and what it passes on.                    *)
LEMMA LowHigh ==
    ASSUME NEW n \in Nat
    PROVE  /\ Low(n) \in Nat /\ Low(n) < LimbSize /\ High(n) \in Nat
           /\ n = LimbSize * High(n) + Low(n)
BY LimbAssumption DEF Low, High

(* A number that fits its limb passes nothing on.                          *)
LEMMA Small ==
    ASSUME NEW n \in Nat, n < LimbSize
    PROVE  Low(n) = n /\ High(n) = 0
BY LimbAssumption, LowHigh DEF Low, High

(* A number below twice the size of a limb passes on at most one.          *)
LEMMA JustOver ==
    ASSUME NEW n \in Nat, LimbSize <= n, n < 2 * LimbSize
    PROVE  Low(n) = n - LimbSize /\ High(n) = 1
<1>1. /\ Low(n) \in Nat /\ Low(n) < LimbSize /\ High(n) \in Nat
      /\ n = LimbSize * High(n) + Low(n)
  BY LowHigh
<1>2. High(n) # 0
  BY <1>1, LimbAssumption
<1>3. ASSUME NEW k \in Nat, High(n) = 2 + k PROVE FALSE
  <2>1. LimbSize * (2 + k) = 2 * LimbSize + LimbSize * k /\ LimbSize * k \in Nat
    BY LimbAssumption
  <2> QED
    BY <1>1, <1>3, <2>1, LimbAssumption
<1>4. High(n) = 1
  <2>1. High(n) = 1 \/ (High(n) - 2 \in Nat /\ High(n) = 2 + (High(n) - 2))
    BY <1>1, <1>2
  <2> QED
    BY <1>3, <2>1
<1> QED
  BY <1>1, <1>4, LimbAssumption

LEMMA Distributes ==
    ASSUME NEW a \in Int, NEW b \in Int, NEW c \in Int
    PROVE  (a + b) * c = a * c + b * c
OBVIOUS

(* Five limbs up is 2^130, which is P + 5.                                 *)
LEMMA Fifth ==
    ASSUME NEW q \in Nat
    PROVE  LimbSize * (LimbSize * (LimbSize * (LimbSize * (LimbSize * q)))) = P * q + 5 * q
<1>1. P + 5 = LimbSize * (LimbSize * (LimbSize * (LimbSize * LimbSize))) /\ P \in Int
  BY LimbAssumption DEF P
<1>2. (P + 5) * q = P * q + 5 * q
  BY <1>1, Distributes
<1>3. (LimbSize * (LimbSize * (LimbSize * (LimbSize * LimbSize)))) * q =
          LimbSize * (LimbSize * (LimbSize * (LimbSize * (LimbSize * q))))
  BY LimbAssumption
<1> QED
  BY <1>1, <1>2, <1>3

LEMMA Times == ASSUME NEW x \in Nat PROVE LimbSize * x \in Nat
BY LimbAssumption

LEMMA Plus ==
    ASSUME NEW x \in Nat, NEW y \in Nat
    PROVE  LimbSize * (x + y) = LimbSize * x + LimbSize * y
BY LimbAssumption

(* What Carry keeps, and the multiple of P that it leaves out.             *)
LEMMA CarryValue ==
    ASSUME NEW d \in Vector
    PROVE  /\ Carry(d) \in Vector
           /\ \A i \in Limbs \ {1} : Carry(d)[i] < LimbSize
           /\ \E k \in Nat : Value(d) = Value(Carry(d)) + P * k
<1> DEFINE d1 == d[1] + High(d[0])
           d2 == d[2] + High(d1)
           d3 == d[3] + High(d2)
           d4 == d[4] + High(d3)
           h0 == Low(d[0]) + 5 * High(d4)
           c == Carry(d)
<1>1. d[0] \in Nat /\ d[1] \in Nat /\ d[2] \in Nat /\ d[3] \in Nat /\ d[4] \in Nat
  BY DEF Vector, Limbs
<1>2. d[0] = LimbSize * High(d[0]) + Low(d[0]) /\ High(d[0]) \in Nat /\ Low(d[0]) \in Nat
  BY <1>1, LowHigh
<1>3. d1 = LimbSize * High(d1) + Low(d1) /\ High(d1) \in Nat /\ Low(d1) \in Nat
  BY <1>1, <1>2, LowHigh
<1>4. /\ d2 = LimbSize * High(d2) + Low(d2) /\ High(d2) \in Nat
      /\ Low(d2) \in Nat /\ Low(d2) < LimbSize
  BY <1>1, <1>3, LowHigh
<1>5. /\ d3 = LimbSize * High(d3) + Low(d3) /\ High(d3) \in Nat
      /\ Low(d3) \in Nat /\ Low(d3) < LimbSize
  BY <1>1, <1>4, LowHigh
<1>6. /\ d4 = LimbSize * High(d4) + Low(d4) /\ High(d4) \in Nat
      /\ Low(d4) \in Nat /\ Low(d4) < LimbSize
  BY <1>1, <1>5, LowHigh
<1>7. /\ h0 = LimbSize * High(h0) + Low(h0) /\ High(h0) \in Nat
      /\ Low(h0) \in Nat /\ Low(h0) < LimbSize
  BY <1>2, <1>6, LowHigh
<1>8. /\ c[0] = Low(h0) /\ c[1] = Low(d1) + High(h0) /\ c[2] = Low(d2) /\ c[3] = Low(d3)
      /\ c[4] = Low(d4)
  BY DEF Carry, Limbs
<1>9. c \in Vector
  <2> DEFINE e(i) == CASE i = 0 -> Low(h0) [] i = 1 -> Low(d1) + High(h0) [] i = 2 -> Low(d2)
                       [] i = 3 -> Low(d3) [] i = 4 -> Low(d4)
  <2>1. c = [i \in Limbs |-> e(i)]
    BY DEF Carry
  <2>2. \A i \in Limbs : e(i) \in Nat
    BY <1>3, <1>4, <1>5, <1>6, <1>7 DEF Limbs
  <2> HIDE DEF e, c
  <2> QED
    BY <2>1, <2>2 DEF Vector
<1>10. \A i \in Limbs \ {1} : c[i] < LimbSize
  BY <1>4, <1>5, <1>6, <1>7, <1>8 DEF Limbs
<1>11. Value(d) = Value(c) + P * High(d4)
  <2> DEFINE a1 == d[1]  a2 == d[2]  a3 == d[3]  a4 == d[4]
             q0 == High(d[0])  q1 == High(d1)  q2 == High(d2)  q3 == High(d3)  q4 == High(d4)
             l0 == Low(d[0])  l1 == Low(d1)  l2 == Low(d2)  l3 == Low(d3)  l4 == Low(d4)
             q5 == High(h0)  m == Low(h0)
             y3 == a3 + LimbSize * a4
             y2 == a2 + LimbSize * y3
             y1 == a1 + LimbSize * y2
             t3 == l3 + LimbSize * l4
             t2 == l2 + LimbSize * t3
             t1 == l1 + LimbSize * t2
             z1 == LimbSize * q4
             z2 == LimbSize * z1
             z3 == LimbSize * z2
             z4 == LimbSize * z3
             z5 == LimbSize * z4
  <2>1. /\ Value(d) = d[0] + LimbSize * y1
        /\ Value(c) = m + LimbSize * (l1 + q5 + LimbSize * t2)
    BY <1>8 DEF Value
  <2>2. /\ d[0] = LimbSize * q0 + l0
        /\ a1 + q0 = LimbSize * q1 + l1 /\ a2 + q1 = LimbSize * q2 + l2
        /\ a3 + q2 = LimbSize * q3 + l3 /\ a4 + q3 = LimbSize * q4 + l4
        /\ l0 + 5 * q4 = LimbSize * q5 + m
    BY <1>2, <1>3, <1>4, <1>5, <1>6, <1>7
  <2>3. /\ {a1, a2, a3, a4, q0, q1, q2, q3, q4, q5, l0, l1, l2, l3, l4, m} \subseteq Nat
    BY <1>1, <1>2, <1>3, <1>4, <1>5, <1>6, <1>7
  <2>4. /\ y3 = a3 + LimbSize * a4 /\ y2 = a2 + LimbSize * y3 /\ y1 = a1 + LimbSize * y2
        /\ t3 = l3 + LimbSize * l4 /\ t2 = l2 + LimbSize * t3 /\ t1 = l1 + LimbSize * t2
    OBVIOUS
  <2>5. /\ z1 = LimbSize * q4 /\ z2 = LimbSize * z1 /\ z3 = LimbSize * z2 /\ z4 = LimbSize * z3
        /\ z5 = LimbSize * z4 /\ z5 = P * q4 + 5 * q4
    BY <1>6, Fifth
  <2> HIDE DEF a1, a2, a3, a4, q0, q1, q2, q3, q4, q5, l0, l1, l2, l3, l4, m,
               y1, y2, y3, t1, t2, t3, z1, z2, z3, z4, z5, d1, d2, d3, d4, h0, c
  <2>6. y3 \in Nat /\ t3 \in Nat /\ z1 \in Nat
    BY <2>3, <2>4, <2>5, Times
  <2>7. y2 \in Nat /\ t2 \in Nat /\ z2 \in Nat
    BY <2>3, <2>4, <2>5, <2>6, Times
  <2>8. y1 \in Nat /\ t1 \in Nat /\ z3 \in Nat
    BY <2>3, <2>4, <2>5, <2>7, Times
  <2>9. z4 \in Nat /\ z5 \in Nat
    BY <2>5, <2>8, Times
  <2>10. y3 + q2 = t3 + z2
    <3>1. LimbSize * (a4 + q3) = LimbSize * a4 + LimbSize * q3
      BY <2>3, Plus
    <3>2. LimbSize * (z1 + l4) = z2 + LimbSize * l4
      BY <2>3, <2>5, <2>6, Plus
    <3>3. LimbSize * a4 \in Nat /\ LimbSize * q3 \in Nat /\ LimbSize * l4 \in Nat
      BY <2>3, Times
    <3>4. a4 + q3 = z1 + l4
      BY <2>2, <2>5
    <3>5. a3 \in Nat /\ q2 \in Nat /\ l3 \in Nat /\ q3 \in Nat
      BY <2>3
    <3>6. LimbSize * a4 + LimbSize * q3 = z2 + LimbSize * l4
      BY <3>1, <3>2, <3>4
    <3> QED
      BY <2>2, <2>4, <2>7, <3>3, <3>5, <3>6
  <2>11. y2 + q1 = t2 + z3
    <3>1. LimbSize * (y3 + q2) = LimbSize * y3 + LimbSize * q2
      BY <2>3, <2>6, Plus
    <3>2. LimbSize * (t3 + z2) = LimbSize * t3 + z3
      BY <2>5, <2>6, <2>7, Plus
    <3>3. LimbSize * y3 \in Nat /\ LimbSize * q2 \in Nat /\ LimbSize * t3 \in Nat
      BY <2>3, <2>6, Times
    <3>4. LimbSize * y3 + LimbSize * q2 = LimbSize * t3 + z3
      BY <2>10, <3>1, <3>2
    <3>5. y2 = a2 + LimbSize * y3 /\ t2 = l2 + LimbSize * t3 /\ a2 + q1 = LimbSize * q2 + l2
      BY <2>2, <2>4
    <3>6. a2 \in Nat /\ q1 \in Nat /\ l2 \in Nat /\ z3 \in Nat
      BY <2>3, <2>8
    <3> QED
      BY <3>3, <3>4, <3>5, <3>6
  <2>12. y1 + q0 = t1 + z4
    <3>1. LimbSize * (y2 + q1) = LimbSize * y2 + LimbSize * q1
      BY <2>3, <2>7, Plus
    <3>2. LimbSize * (t2 + z3) = LimbSize * t2 + z4
      BY <2>5, <2>7, <2>8, Plus
    <3>3. LimbSize * y2 \in Nat /\ LimbSize * q1 \in Nat /\ LimbSize * t2 \in Nat
      BY <2>3, <2>7, Times
    <3>4. LimbSize * y2 + LimbSize * q1 = LimbSize * t2 + z4
      BY <2>11, <3>1, <3>2
    <3>5. y1 = a1 + LimbSize * y2 /\ t1 = l1 + LimbSize * t2 /\ a1 + q0 = LimbSize * q1 + l1
      BY <2>2, <2>4
    <3>6. a1 \in Nat /\ q0 \in Nat /\ l1 \in Nat /\ z4 \in Nat
      BY <2>3, <2>9
    <3> QED
      BY <3>3, <3>4, <3>5, <3>6
  <2>13. d[0] + LimbSize * y1 = l0 + LimbSize * t1 + z5
    <3>1. LimbSize * (y1 + q0) = LimbSize * y1 + LimbSize * q0
      BY <2>3, <2>8, Plus
    <3>2. LimbSize * (t1 + z4) = LimbSize * t1 + z5
      BY <2>5, <2>8, <2>9, Plus
    <3>3. LimbSize * y1 \in Nat /\ LimbSize * q0 \in Nat /\ LimbSize * t1 \in Nat
      BY <2>3, <2>8, Times
    <3>4. LimbSize * y1 + LimbSize * q0 = LimbSize * t1 + z5
      BY <2>12, <3>1, <3>2
    <3>5. d[0] = LimbSize * q0 + l0 /\ l0 \in Nat /\ z5 \in Nat
      BY <2>2, <2>3, <2>9
    <3> QED
      BY <3>3, <3>4, <3>5
  <2>14. l1 + q5 + LimbSize * t2 = t1 + q5
    BY <2>3, <2>4, <2>7, Times
  <2>15. LimbSize * (t1 + q5) = LimbSize * t1 + LimbSize * q5
    BY <2>3, <2>8, Plus
  <2>16. P * q4 \in Int
    BY <2>3, LimbAssumption DEF P
  <2>17. LimbSize * t1 \in Nat /\ LimbSize * q5 \in Nat
    BY <2>3, <2>8, Times
  <2>18. Value(d) = Value(c) + P * q4
    <3>1. Value(d) = l0 + LimbSize * t1 + z5
      BY <2>1, <2>13
    <3>2. Value(c) = m + (LimbSize * t1 + LimbSize * q5)
      BY <2>1, <2>14, <2>15
    <3>3. l0 \in Nat /\ q4 \in Nat /\ q5 \in Nat /\ m \in Nat
      BY <2>3
    <3>4. l0 + 5 * q4 = LimbSize * q5 + m /\ z5 = P * q4 + 5 * q4
      BY <2>2, <2>5
    <3> QED
      BY <3>1, <3>2, <3>3, <3>4, <2>16, <2>17
  <2> QED
    BY <2>18 DEF q4
<1> QED
  BY <1>6, <1>9, <1>10, <1>11

(***************************************************************************)
(* The product.                                                            *)
(***************************************************************************)

(* The number in a vector is a number.                                     *)
LEMMA ValueType ==
    ASSUME NEW x \in Vector
    PROVE  Value(x) \in Nat
<1>1. x[0] \in Nat /\ x[1] \in Nat /\ x[2] \in Nat /\ x[3] \in Nat /\ x[4] \in Nat
  BY DEF Vector, Limbs
<1> DEFINE y3 == x[3] + LimbSize * x[4]
           y2 == x[2] + LimbSize * y3
           y1 == x[1] + LimbSize * y2
<1>2. y3 \in Nat
  BY <1>1, Times
<1>3. y2 \in Nat
  <2> HIDE DEF y3
  <2> QED
    BY <1>1, <1>2, Times
<1>4. y1 \in Nat
  <2> HIDE DEF y2
  <2> QED
    BY <1>1, <1>3, Times
<1>5. x[0] + LimbSize * y1 \in Nat
  <2> HIDE DEF y1
  <2> QED
    BY <1>1, <1>4, Times
<1> QED
  BY <1>5 DEF Value

(* The number in a sum of vectors.                                         *)
LEMMA SumValue ==
    ASSUME NEW x \in Vector, NEW y \in Vector
    PROVE  Value([i \in Limbs |-> x[i] + y[i]]) = Value(x) + Value(y)
<1> DEFINE z == [i \in Limbs |-> x[i] + y[i]]
           x0 == x[0]  x1 == x[1]  x2 == x[2]  x3 == x[3]  x4 == x[4]
           y0 == y[0]  y1 == y[1]  y2 == y[2]  y3 == y[3]  y4 == y[4]
           a3 == x3 + LimbSize * x4
           a2 == x2 + LimbSize * a3
           a1 == x1 + LimbSize * a2
           b3 == y3 + LimbSize * y4
           b2 == y2 + LimbSize * b3
           b1 == y1 + LimbSize * b2
<1>1. {x0, x1, x2, x3, x4, y0, y1, y2, y3, y4} \subseteq Nat
  BY DEF Vector, Limbs
<1>2. z[0] = x0 + y0 /\ z[1] = x1 + y1 /\ z[2] = x2 + y2 /\ z[3] = x3 + y3 /\ z[4] = x4 + y4
  BY DEF Limbs
<1>3. Value(x) = x0 + LimbSize * a1 /\ Value(y) = y0 + LimbSize * b1
  BY DEF Value
<1>4. Value(z) = x0 + y0 + LimbSize * (x1 + y1 + LimbSize * (x2 + y2 +
                    LimbSize * (x3 + y3 + LimbSize * (x4 + y4))))
  BY <1>2 DEF Value
<1>5. /\ a3 = x3 + LimbSize * x4 /\ a2 = x2 + LimbSize * a3 /\ a1 = x1 + LimbSize * a2
      /\ b3 = y3 + LimbSize * y4 /\ b2 = y2 + LimbSize * b3 /\ b1 = y1 + LimbSize * b2
  OBVIOUS
<1> HIDE DEF z, x0, x1, x2, x3, x4, y0, y1, y2, y3, y4, a1, a2, a3, b1, b2, b3
<1>6. a3 \in Nat /\ b3 \in Nat /\ LimbSize * x4 \in Nat /\ LimbSize * y4 \in Nat
  BY <1>1, <1>5, Times
<1>7. a2 \in Nat /\ b2 \in Nat /\ LimbSize * a3 \in Nat /\ LimbSize * b3 \in Nat
  BY <1>1, <1>5, <1>6, Times
<1>8. a1 \in Nat /\ b1 \in Nat /\ LimbSize * a2 \in Nat /\ LimbSize * b2 \in Nat
  BY <1>1, <1>5, <1>7, Times
<1>9. LimbSize * a1 \in Nat /\ LimbSize * b1 \in Nat
  BY <1>8, Times
<1>10. x3 + y3 + LimbSize * (x4 + y4) = a3 + b3
  <2>1. LimbSize * (x4 + y4) = LimbSize * x4 + LimbSize * y4
    BY <1>1, Plus
  <2> QED
    BY <1>1, <1>5, <1>6, <2>1
<1>11. x2 + y2 + LimbSize * (a3 + b3) = a2 + b2
  <2>1. LimbSize * (a3 + b3) = LimbSize * a3 + LimbSize * b3
    BY <1>6, Plus
  <2> QED
    BY <1>1, <1>5, <1>7, <2>1
<1>12. x1 + y1 + LimbSize * (a2 + b2) = a1 + b1
  <2>1. LimbSize * (a2 + b2) = LimbSize * a2 + LimbSize * b2
    BY <1>7, Plus
  <2> QED
    BY <1>1, <1>5, <1>8, <2>1
<1>13. LimbSize * (a1 + b1) = LimbSize * a1 + LimbSize * b1
  BY <1>8, Plus
<1>14. Value(z) = x0 + y0 + LimbSize * (a1 + b1)
  BY <1>4, <1>10, <1>11, <1>12
<1> QED
  BY <1>1, <1>3, <1>9, <1>13, <1>14 DEF z

LEMMA Exchange ==
    ASSUME NEW a \in Nat, NEW x \in Nat, NEW y \in Nat
    PROVE  /\ a * x + LimbSize * (a * y) = a * (x + LimbSize * y)
           /\ a * x \in Nat
<1>1. a * (x + LimbSize * y) = a * x + a * (LimbSize * y)
  BY Times
<1>2. a * (LimbSize * y) = LimbSize * (a * y)
  BY LimbAssumption
<1> QED
  BY <1>1, <1>2

(* The number in a multiple of a vector.                                   *)
LEMMA ScaleValue ==
    ASSUME NEW a \in Nat, NEW x \in Vector
    PROVE  Value([i \in Limbs |-> a * x[i]]) = a * Value(x)
<1> DEFINE z == [i \in Limbs |-> a * x[i]]
           x0 == x[0]  x1 == x[1]  x2 == x[2]  x3 == x[3]  x4 == x[4]
           y3 == x3 + LimbSize * x4
           y2 == x2 + LimbSize * y3
           y1 == x1 + LimbSize * y2
<1>1. {x0, x1, x2, x3, x4} \subseteq Nat
  BY DEF Vector, Limbs
<1>2. z[0] = a * x0 /\ z[1] = a * x1 /\ z[2] = a * x2 /\ z[3] = a * x3 /\ z[4] = a * x4
  BY DEF Limbs
<1>3. Value(x) = x0 + LimbSize * y1
  BY DEF Value
<1>4. Value(z) = a * x0 + LimbSize * (a * x1 + LimbSize * (a * x2 +
                    LimbSize * (a * x3 + LimbSize * (a * x4))))
  BY <1>2 DEF Value
<1>5. y3 = x3 + LimbSize * x4 /\ y2 = x2 + LimbSize * y3 /\ y1 = x1 + LimbSize * y2
  OBVIOUS
<1> HIDE DEF z, x0, x1, x2, x3, x4, y1, y2, y3
<1>6. y3 \in Nat
  BY <1>1, <1>5, Times
<1>7. y2 \in Nat
  BY <1>1, <1>5, <1>6, Times
<1>8. y1 \in Nat
  BY <1>1, <1>5, <1>7, Times
<1>9. a * x3 + LimbSize * (a * x4) = a * y3
  BY <1>1, <1>5, Exchange
<1>10. a * x2 + LimbSize * (a * y3) = a * y2
  BY <1>1, <1>5, <1>6, Exchange
<1>11. a * x1 + LimbSize * (a * y2) = a * y1
  BY <1>1, <1>5, <1>7, Exchange
<1>12. a * x0 + LimbSize * (a * y1) = a * (x0 + LimbSize * y1)
  BY <1>1, <1>8, Exchange
<1> QED
  BY <1>3, <1>4, <1>9, <1>10, <1>11, <1>12 DEF z

(* r times the size of a limb: its limbs move up, the top one comes back   *)
(* times 5.                                                                *)
Rotate(x) == [i \in Limbs |-> IF i = 0 THEN 5 * x[4] ELSE x[i - 1]]

LEMMA RotateValue ==
    ASSUME NEW x \in Vector
    PROVE  Rotate(x) \in Vector /\ LimbSize * Value(x) = Value(Rotate(x)) + P * x[4]
<1> DEFINE x0 == x[0]  x1 == x[1]  x2 == x[2]  x3 == x[3]  x4 == x[4]
           y3 == x3 + LimbSize * x4
           y2 == x2 + LimbSize * y3
           y1 == x1 + LimbSize * y2
           t2 == x2 + LimbSize * x3
           t1 == x1 + LimbSize * t2
           t0 == x0 + LimbSize * t1
           z1 == LimbSize * x4
           z2 == LimbSize * z1
           z3 == LimbSize * z2
           z4 == LimbSize * z3
           z5 == LimbSize * z4
<1>1. {x0, x1, x2, x3, x4} \subseteq Nat
  BY DEF Vector, Limbs
<1>2. Rotate(x) \in Vector
  BY DEF Rotate, Vector, Limbs
<1>3. /\ Rotate(x)[0] = 5 * x4 /\ Rotate(x)[1] = x0 /\ Rotate(x)[2] = x1
      /\ Rotate(x)[3] = x2 /\ Rotate(x)[4] = x3
  BY DEF Rotate, Limbs
<1>4. Value(Rotate(x)) = 5 * x4 + LimbSize * t0 /\ Value(x) = x0 + LimbSize * y1
  BY <1>3 DEF Value
<1>5. /\ y3 = x3 + LimbSize * x4 /\ y2 = x2 + LimbSize * y3 /\ y1 = x1 + LimbSize * y2
      /\ t2 = x2 + LimbSize * x3 /\ t1 = x1 + LimbSize * t2 /\ t0 = x0 + LimbSize * t1
      /\ z1 = LimbSize * x4 /\ z2 = LimbSize * z1 /\ z3 = LimbSize * z2 /\ z4 = LimbSize * z3
      /\ z5 = LimbSize * z4
  OBVIOUS
<1>6. z5 = P * x4 + 5 * x4
  BY <1>1, Fifth
<1> HIDE DEF x0, x1, x2, x3, x4, y1, y2, y3, t0, t1, t2, z1, z2, z3, z4, z5
<1>7. z1 \in Nat /\ t2 \in Nat /\ LimbSize * x3 \in Nat /\ y3 \in Nat
  BY <1>1, <1>5, Times
<1>8. z2 \in Nat /\ t1 \in Nat /\ LimbSize * t2 \in Nat /\ y2 \in Nat
  BY <1>1, <1>5, <1>7, Times
<1>9. z3 \in Nat /\ t0 \in Nat /\ LimbSize * t1 \in Nat /\ y1 \in Nat
  BY <1>1, <1>5, <1>8, Times
<1>10. z4 \in Nat /\ LimbSize * t0 \in Nat
  BY <1>5, <1>9, Times
<1>11. z5 \in Nat
  BY <1>5, <1>10, Times
<1>12. y2 = t2 + z2
  <2>1. LimbSize * (x3 + z1) = LimbSize * x3 + z2
    BY <1>1, <1>5, <1>7, Plus
  <2> QED
    BY <1>1, <1>5, <1>7, <1>8, <2>1
<1>13. y1 = t1 + z3
  <2>1. LimbSize * (t2 + z2) = LimbSize * t2 + z3
    BY <1>5, <1>7, <1>8, Plus
  <2> QED
    BY <1>1, <1>5, <1>8, <1>9, <1>12, <2>1
<1>14. x0 + LimbSize * y1 = t0 + z4
  <2>1. LimbSize * (t1 + z3) = LimbSize * t1 + z4
    BY <1>5, <1>8, <1>9, Plus
  <2> QED
    BY <1>1, <1>5, <1>9, <1>10, <1>13, <2>1
<1>15. LimbSize * (t0 + z4) = LimbSize * t0 + z5
  BY <1>5, <1>9, <1>10, Plus
<1>16. P * x4 \in Int
  BY <1>1, LimbAssumption DEF P
<1>17. LimbSize * Value(x) = Value(Rotate(x)) + P * x4
  <2>1. 5 * x4 \in Nat
    BY <1>1
  <2> QED
    BY <1>4, <1>6, <1>10, <1>11, <1>14, <1>15, <1>16, <2>1
<1> QED
  BY <1>2, <1>17 DEF x4

(* One step of Horner's rule, in the limbs of h.                           *)
LEMMA HornerStep ==
    ASSUME NEW a \in Nat, NEW t \in Nat, NEW w \in Nat, NEW w2 \in Nat, NEW e \in Nat,
           LimbSize * w = w2 + P * e
    PROVE  (a + LimbSize * t) * w = a * w + t * w2 + P * (e * t)
<1>1. P \in Int
  BY LimbAssumption DEF P
<1>2. (a + LimbSize * t) * w = a * w + (LimbSize * t) * w
  BY Times, Distributes
<1>3. (LimbSize * t) * w = t * (LimbSize * w)
  BY LimbAssumption
<1>4. t * (w2 + P * e) = t * w2 + t * (P * e)
  <2>1. P * e \in Int
    BY <1>1
  <2> HIDE DEF P
  <2> QED
    BY <2>1
<1>5. t * (P * e) = P * (e * t)
  BY <1>1
<1>6. a * w \in Nat /\ t * w2 \in Nat /\ P * (e * t) \in Int
  BY <1>1
<1> QED
  BY <1>2, <1>3, <1>4, <1>5, <1>6

(* What h[i] is multiplied with: r, rotated i times.                       *)
Rotated(r, i) == [k \in Limbs |-> IF k >= i THEN r[k - i] ELSE 5 * r[k - i + 5]]

(* Each of these is the one before it, rotated.                            *)
LEMMA RotatedNext ==
    ASSUME NEW r \in Vector
    PROVE  /\ Rotated(r, 0) = r
           /\ Rotated(r, 1) = Rotate(Rotated(r, 0)) /\ Rotated(r, 2) = Rotate(Rotated(r, 1))
           /\ Rotated(r, 3) = Rotate(Rotated(r, 2)) /\ Rotated(r, 4) = Rotate(Rotated(r, 3))
<1>1. Rotated(r, 0) = r
  BY DEF Rotated, Limbs, Vector
<1>2. ASSUME NEW i \in 0 .. 3
      PROVE  Rotated(r, i + 1) = Rotate(Rotated(r, i))
  <2>1. ASSUME NEW k \in Limbs
        PROVE  Rotated(r, i + 1)[k] = Rotate(Rotated(r, i))[k]
    <3>1. 4 \in Limbs /\ (k # 0 => k - 1 \in Limbs) /\ k \in 0 .. 4
      BY DEF Limbs
    <3>2. Rotated(r, i + 1)[k] = IF k >= i + 1 THEN r[k - (i + 1)] ELSE 5 * r[k - (i + 1) + 5]
      BY DEF Rotated
    <3>3. CASE k = 0
      <4>1. Rotate(Rotated(r, i))[k] = 5 * Rotated(r, i)[4]
        BY <3>3 DEF Rotate
      <4>2. Rotated(r, i)[4] = r[4 - i]
        BY <3>1 DEF Rotated
      <4>3. ~(k >= i + 1) /\ k - (i + 1) + 5 = 4 - i
        BY <3>3
      <4> QED
        BY <3>2, <4>1, <4>2, <4>3
    <3>4. CASE k # 0
      <4>1. Rotate(Rotated(r, i))[k] = Rotated(r, i)[k - 1]
        BY <3>4 DEF Rotate
      <4>2. Rotated(r, i)[k - 1] = IF k - 1 >= i THEN r[k - 1 - i] ELSE 5 * r[k - 1 - i + 5]
        BY <3>1, <3>4 DEF Rotated
      <4>3. (k >= i + 1 <=> k - 1 >= i) /\ k - (i + 1) = k - 1 - i
        BY <3>1
      <4> QED
        BY <3>2, <4>1, <4>2, <4>3
    <3> QED
      BY <3>3, <3>4
  <2> QED
    BY <2>1 DEF Rotated, Rotate
<1>3. /\ Rotated(r, 0 + 1) = Rotate(Rotated(r, 0)) /\ Rotated(r, 1 + 1) = Rotate(Rotated(r, 1))
      /\ Rotated(r, 2 + 1) = Rotate(Rotated(r, 2)) /\ Rotated(r, 3 + 1) = Rotate(Rotated(r, 3))
  BY <1>2
<1> QED
  BY <1>1, <1>3

(* The rotations of r and what each of them leaves out, a multiple of P.   *)
LEMMA RotatedValues ==
    ASSUME NEW r \in Vector
    PROVE  \E r1, r2, r3, r4 \in Vector, e0, e1, e2, e3 \in Nat :
              /\ Rotated(r, 0) = r /\ Rotated(r, 1) = r1 /\ Rotated(r, 2) = r2
              /\ Rotated(r, 3) = r3 /\ Rotated(r, 4) = r4
              /\ LimbSize * Value(r) = Value(r1) + P * e0
              /\ LimbSize * Value(r1) = Value(r2) + P * e1
              /\ LimbSize * Value(r2) = Value(r3) + P * e2
              /\ LimbSize * Value(r3) = Value(r4) + P * e3
<1> DEFINE r1 == Rotated(r, 1)
           r2 == Rotated(r, 2)
           r3 == Rotated(r, 3)
           r4 == Rotated(r, 4)
<1>1. /\ Rotated(r, 0) = r /\ r1 = Rotate(r) /\ r2 = Rotate(r1) /\ r3 = Rotate(r2)
      /\ r4 = Rotate(r3)
  BY RotatedNext
<1> HIDE DEF r1, r2, r3, r4
<1>2. /\ r1 \in Vector /\ LimbSize * Value(r) = Value(r1) + P * r[4] /\ r[4] \in Nat
  BY <1>1, RotateValue DEF Vector, Limbs
<1>3. r2 \in Vector /\ LimbSize * Value(r1) = Value(r2) + P * r1[4] /\ r1[4] \in Nat
  BY <1>1, <1>2, RotateValue DEF Vector, Limbs
<1>4. r3 \in Vector /\ LimbSize * Value(r2) = Value(r3) + P * r2[4] /\ r2[4] \in Nat
  BY <1>1, <1>3, RotateValue DEF Vector, Limbs
<1>5. r4 \in Vector /\ LimbSize * Value(r3) = Value(r4) + P * r3[4] /\ r3[4] \in Nat
  BY <1>1, <1>4, RotateValue DEF Vector, Limbs
<1> QED
  BY <1>1, <1>2, <1>3, <1>4, <1>5 DEF r1, r2, r3, r4

(* The product of a limb of h and a rotation of r.                         *)
Row(a, x) == [i \in Limbs |-> a * x[i]]
PlusRows(x, y) == [i \in Limbs |-> x[i] + y[i]]

LEMMA RowValue ==
    ASSUME NEW a \in Nat, NEW x \in Vector
    PROVE  Row(a, x) \in Vector /\ Value(Row(a, x)) = a * Value(x)
<1>1. \A i \in Limbs : a * x[i] \in Nat
  BY DEF Vector
<1> QED
  BY <1>1, ScaleValue DEF Row, Vector

LEMMA PlusRowsValue ==
    ASSUME NEW x \in Vector, NEW y \in Vector
    PROVE  PlusRows(x, y) \in Vector /\ Value(PlusRows(x, y)) = Value(x) + Value(y)
<1>1. \A i \in Limbs : x[i] + y[i] \in Nat
  BY DEF Vector
<1> QED
  BY <1>1, SumValue DEF PlusRows, Vector

(* The sum that mul_r hands to its carries.                                *)
Columns(h, r) ==
    LET at(k, i) == h[i] * (IF k >= i THEN r[k - i] ELSE 5 * r[k - i + 5])
    IN  [k \in Limbs |-> at(k, 0) + at(k, 1) + at(k, 2) + at(k, 3) + at(k, 4)]

(* The columns are the sums of the rows.                                   *)
LEMMA ColumnsAreRows ==
    ASSUME NEW h \in Vector, NEW r \in Vector
    PROVE  /\ MulR(h, r) = Carry(Columns(h, r))
           /\ Columns(h, r) = [k \in Limbs |-> h[0] * Rotated(r, 0)[k] + h[1] * Rotated(r, 1)[k]
                                  + h[2] * Rotated(r, 2)[k] + h[3] * Rotated(r, 3)[k]
                                  + h[4] * Rotated(r, 4)[k]]
<1>1. MulR(h, r) = Carry(Columns(h, r))
  BY DEF MulR, Columns
<1>2. \A i \in 0 .. 4 : \A k \in Limbs :
         Rotated(r, i)[k] = IF k >= i THEN r[k - i] ELSE 5 * r[k - i + 5]
  BY DEF Rotated
<1> QED
  BY <1>1, <1>2 DEF Columns

(* The product, and the multiple of P that the factors 5 leave out.        *)
LEMMA ColumnsValue ==
    ASSUME NEW h \in Vector, NEW r \in Vector
    PROVE  /\ Columns(h, r) \in Vector
           /\ \E k \in Nat : Value(h) * Value(r) = Value(Columns(h, r)) + P * k
<1> DEFINE h0 == h[0]  h1 == h[1]  h2 == h[2]  h3 == h[3]  h4 == h[4]
           t3 == h3 + LimbSize * h4
           t2 == h2 + LimbSize * t3
           t1 == h1 + LimbSize * t2
<1>1. /\ h0 \in Nat /\ h1 \in Nat /\ h2 \in Nat /\ h3 \in Nat /\ h4 \in Nat
  BY DEF Vector, Limbs
<1>2. PICK r1, r2, r3, r4 \in Vector, e0, e1, e2, e3 \in Nat :
              /\ Rotated(r, 0) = r /\ Rotated(r, 1) = r1 /\ Rotated(r, 2) = r2
              /\ Rotated(r, 3) = r3 /\ Rotated(r, 4) = r4
              /\ LimbSize * Value(r) = Value(r1) + P * e0
              /\ LimbSize * Value(r1) = Value(r2) + P * e1
              /\ LimbSize * Value(r2) = Value(r3) + P * e2
              /\ LimbSize * Value(r3) = Value(r4) + P * e3
  BY RotatedValues
<1> DEFINE s1 == PlusRows(Row(h0, r), Row(h1, r1))
           s2 == PlusRows(s1, Row(h2, r2))
           s3 == PlusRows(s2, Row(h3, r3))
           s4 == PlusRows(s3, Row(h4, r4))
           w0 == Value(r)  w1 == Value(r1)  w2 == Value(r2)  w3 == Value(r3)  w4 == Value(r4)
<1>3. /\ w0 \in Nat /\ w1 \in Nat /\ w2 \in Nat /\ w3 \in Nat /\ w4 \in Nat
  BY ValueType
<1>4. Columns(h, r) = s4
  BY <1>2, ColumnsAreRows DEF PlusRows, Row
<1>5. /\ Row(h0, r) \in Vector /\ Row(h1, r1) \in Vector /\ Row(h2, r2) \in Vector
      /\ Row(h3, r3) \in Vector /\ Row(h4, r4) \in Vector
      /\ Value(Row(h0, r)) = h0 * w0 /\ Value(Row(h1, r1)) = h1 * w1
      /\ Value(Row(h2, r2)) = h2 * w2 /\ Value(Row(h3, r3)) = h3 * w3
      /\ Value(Row(h4, r4)) = h4 * w4
  <2> HIDE DEF h0, h1, h2, h3, h4
  <2> QED
    BY <1>1, RowValue
<1> HIDE DEF h0, h1, h2, h3, h4
<1>6. s1 \in Vector /\ Value(s1) = h0 * w0 + h1 * w1
  BY <1>5, PlusRowsValue
<1>7. s2 \in Vector /\ Value(s2) = Value(s1) + h2 * w2
  <2> HIDE DEF s1
  <2> QED
    BY <1>5, <1>6, PlusRowsValue
<1>8. s3 \in Vector /\ Value(s3) = Value(s2) + h3 * w3
  <2> HIDE DEF s2
  <2> QED
    BY <1>5, <1>7, PlusRowsValue
<1>9. s4 \in Vector /\ Value(s4) = Value(s3) + h4 * w4
  <2> HIDE DEF s3
  <2> QED
    BY <1>5, <1>8, PlusRowsValue
<1>10. Value(h) = h0 + LimbSize * t1
  BY DEF Value, h0, h1, h2, h3, h4
<1>11. t3 = h3 + LimbSize * h4 /\ t2 = h2 + LimbSize * t3 /\ t1 = h1 + LimbSize * t2
  OBVIOUS
<1>12. /\ LimbSize * w0 = w1 + P * e0 /\ LimbSize * w1 = w2 + P * e1
       /\ LimbSize * w2 = w3 + P * e2 /\ LimbSize * w3 = w4 + P * e3
  BY <1>2
<1> HIDE DEF s1, s2, s3, s4, t1, t2, t3, w0, w1, w2, w3, w4
<1>13. t3 \in Nat
  BY <1>1, <1>11, Times
<1>14. t2 \in Nat
  BY <1>1, <1>11, <1>13, Times
<1>15. t1 \in Nat
  BY <1>1, <1>11, <1>14, Times
<1> DEFINE Shifted(w, v, e) == LimbSize * w = v + P * e
           Step(a, t, w, v, e) == (a + LimbSize * t) * w = a * w + t * v + P * (e * t)
<1>h. \A a, t, w, v, e \in Nat : Shifted(w, v, e) => Step(a, t, w, v, e)
  BY HornerStep
<1>s. Shifted(w0, w1, e0) /\ Shifted(w1, w2, e1) /\ Shifted(w2, w3, e2) /\ Shifted(w3, w4, e3)
  BY <1>12
<1>t. /\ Step(h0, t1, w0, w1, e0) /\ Step(h1, t2, w1, w2, e1)
      /\ Step(h2, t3, w2, w3, e2) /\ Step(h3, h4, w3, w4, e3)
  <2> HIDE DEF Shifted, Step
  <2> QED
    BY <1>1, <1>3, <1>13, <1>14, <1>15, <1>h, <1>s
<1>16. Value(h) * w0 = h0 * w0 + t1 * w1 + P * (e0 * t1)
  BY <1>10, <1>t, Zenon
<1>17. t1 * w1 = h1 * w1 + t2 * w2 + P * (e1 * t2)
  BY <1>11, <1>t, Zenon
<1>18. t2 * w2 = h2 * w2 + t3 * w3 + P * (e2 * t3)
  BY <1>11, <1>t, Zenon
<1>19. t3 * w3 = h3 * w3 + h4 * w4 + P * (e3 * h4)
  BY <1>11, <1>t, Zenon
<1> DEFINE f0 == e0 * t1
           f1 == e1 * t2
           f2 == e2 * t3
           f3 == e3 * h4
           m == f0 + f1 + f2 + f3
<1>20. f0 \in Nat /\ f1 \in Nat /\ f2 \in Nat /\ f3 \in Nat
  BY <1>1, <1>13, <1>14, <1>15
<1>21. P \in Int
  BY LimbAssumption DEF P
<1>22. Value(s4) = h0 * w0 + h1 * w1 + h2 * w2 + h3 * w3 + h4 * w4
  BY <1>6, <1>7, <1>8, <1>9
<1>23. /\ h0 * w0 \in Nat /\ h1 * w1 \in Nat /\ h2 * w2 \in Nat /\ h3 * w3 \in Nat
       /\ h4 * w4 \in Nat /\ t1 * w1 \in Nat /\ t2 * w2 \in Nat /\ t3 * w3 \in Nat
  BY <1>1, <1>3, <1>13, <1>14, <1>15
<1>24. P * m = P * f0 + P * f1 + P * f2 + P * f3
  <2> HIDE DEF f0, f1, f2, f3, P
  <2> QED
    BY <1>20, <1>21
<1>25. P * f0 \in Int /\ P * f1 \in Int /\ P * f2 \in Int /\ P * f3 \in Int
  <2> HIDE DEF f0, f1, f2, f3, P
  <2> QED
    BY <1>20, <1>21
<1>26. Value(h) * w0 = Value(s4) + P * m
  <2>1. /\ Value(h) * w0 = h0 * w0 + t1 * w1 + P * f0 /\ t1 * w1 = h1 * w1 + t2 * w2 + P * f1
        /\ t2 * w2 = h2 * w2 + t3 * w3 + P * f2 /\ t3 * w3 = h3 * w3 + h4 * w4 + P * f3
    BY <1>16, <1>17, <1>18, <1>19
  <2> HIDE DEF f0, f1, f2, f3, m
  <2> QED
    BY <2>1, <1>22, <1>23, <1>24, <1>25
<1>27. m \in Nat
  BY <1>20
<1>28. Value(h) * Value(r) = Value(s4) + P * m
  BY <1>26 DEF w0
<1> HIDE DEF m
<1> QED
  BY <1>4, <1>9, <1>27, <1>28

(***************************************************************************)
(* Residues.                                                               *)
(***************************************************************************)

LEMMA PIsPositive == P \in Nat /\ P > 5
<1>1. LimbSize \in Nat /\ LimbSize > 5
  BY LimbAssumption
<1>2. ASSUME NEW x \in Nat, x > 5 PROVE LimbSize * x \in Nat /\ LimbSize * x > 10
  <2>1. LimbSize * x >= 6 * x
    BY <1>1, <1>2
  <2> QED
    BY <1>1, <1>2, <2>1
<1> DEFINE a == LimbSize * LimbSize
           b == LimbSize * a
           c == LimbSize * b
           d == LimbSize * c
<1>3. a \in Nat /\ a > 10
  BY <1>1, <1>2
<1>4. b \in Nat /\ b > 10
  <2> HIDE DEF a
  <2> QED
    BY <1>2, <1>3
<1>5. c \in Nat /\ c > 10
  <2> HIDE DEF b
  <2> QED
    BY <1>2, <1>4
<1>6. d \in Nat /\ d > 10
  <2> HIDE DEF c
  <2> QED
    BY <1>2, <1>5
<1>7. P = d - 5
  BY DEF P
<1> HIDE DEF d
<1> QED
  BY <1>6, <1>7

(* Multiples of the modulus do not count.                                  *)
LEMMA SameRemainder ==
    ASSUME NEW m \in Nat \ {0}, NEW a \in Nat, NEW k \in Nat
    PROVE  (a + m * k) % m = a % m
<1> DEFINE n == a + m * k
           q == a \div m
           u == a % m
           x == n \div m
           v == n % m
<1>1. m \in Nat \ {0} /\ m * k \in Nat
  OBVIOUS
<1>2. n \in Nat
  BY <1>1
<1>3. q \in Nat /\ u \in Nat /\ u < m /\ a = m * q + u
  BY <1>1
<1>4. x \in Nat /\ v \in Nat /\ v < m /\ n = m * x + v
  <2> HIDE DEF n
  <2> QED
    BY <1>1, <1>2
<1>5. n = m * (q + k) + u
  <2>1. m * (q + k) = m * q + m * k
    BY <1>1, <1>3
  <2>2. m * q \in Nat
    BY <1>1, <1>3
  <2> HIDE DEF q, u
  <2> QED
    BY <1>1, <1>3, <2>1, <2>2
<1> DEFINE y == q + k
<1>6. y \in Nat
  BY <1>3
<1> HIDE DEF n, q, u, x, v, y
<1>7. m * x + v = m * y + u
  BY <1>4, <1>5 DEF y
<1>8. ASSUME NEW j \in Nat, NEW s \in Nat, NEW t \in Nat, NEW z \in Nat, s < m, t < m,
             m * (z + 1 + j) + s = m * z + t
      PROVE  FALSE
  <2>1. m * (z + 1 + j) = m * z + m + m * j
    BY <1>1
  <2>2. m * j \in Nat /\ m * z \in Nat
    BY <1>1
  <2> QED
    BY <1>1, <1>8, <2>1, <2>2
<1>9. x = y
  <2>1. CASE x > y
    <3>1. x - y - 1 \in Nat /\ x = y + 1 + (x - y - 1)
      BY <1>4, <1>6, <2>1
    <3> QED
      BY <1>3, <1>4, <1>6, <1>7, <1>8, <3>1
  <2>2. CASE y > x
    <3>1. y - x - 1 \in Nat /\ y = x + 1 + (y - x - 1)
      BY <1>4, <1>6, <2>2
    <3> QED
      BY <1>3, <1>4, <1>6, <1>7, <1>8, <3>1
  <2> QED
    BY <1>4, <1>6, <2>1, <2>2
<1>10. m * x \in Nat
  BY <1>1, <1>4
<1>11. v = u
  BY <1>3, <1>4, <1>7, <1>9, <1>10
<1> QED
  BY <1>11 DEF v, u, n

LEMMA SameResidue ==
    ASSUME NEW a \in Nat, NEW k \in Nat
    PROVE  (a + P * k) % P = a % P
<1>1. P \in Nat \ {0} BY PIsPositive
<1> QED BY <1>1, SameRemainder

(* A pass of carries does not change the number modulo 2^130 - 5: what     *)
(* leaves the top limb comes back times 5, and no limb but the second is   *)
(* too large after it (propagate_carry, and the end of mul_r).             *)
THEOREM CarryKeepsResidue ==
    ASSUME NEW d \in Vector
    PROVE  /\ Carry(d) \in Vector /\ \A i \in Limbs \ {1} : Carry(d)[i] < LimbSize
           /\ Value(Carry(d)) % P = Value(d) % P
<1>1. PICK k \in Nat : Value(d) = Value(Carry(d)) + P * k
  BY CarryValue DEF Vector
<1>2. /\ Carry(d) \in Vector
      /\ \A i \in Limbs \ {1} : Carry(d)[i] < LimbSize
  BY CarryValue DEF Vector
<1>3. Value(Carry(d)) \in Nat
  BY <1>2, ValueType
<1> QED
  BY <1>1, <1>2, <1>3, SameResidue

(* mul_r multiplies modulo 2^130 - 5, for accumulators and keys with limbs *)
(* of any size: the products with 5 are those that pass 2^130, and no      *)
(* carry is lost (mul_r).                                                  *)
THEOREM MulRMultiplies ==
    ASSUME NEW h \in Vector, NEW r \in Vector
    PROVE  /\ MulR(h, r) \in Vector
           /\ Value(MulR(h, r)) % P = (Value(h) * Value(r)) % P
<1>1. Columns(h, r) \in Vector
  BY ColumnsValue
<1>2. PICK k \in Nat : Value(h) * Value(r) = Value(Columns(h, r)) + P * k
  BY ColumnsValue
<1>3. /\ MulR(h, r) = Carry(Columns(h, r)) /\ Carry(Columns(h, r)) \in Vector
      /\ Value(Carry(Columns(h, r))) % P = Value(Columns(h, r)) % P
  BY <1>1, ColumnsAreRows, CarryKeepsResidue
<1>4. (Value(Columns(h, r)) + P * k) % P = Value(Columns(h, r)) % P
  BY <1>1, ValueType, SameResidue
<1> QED
  BY <1>2, <1>3, <1>4

(***************************************************************************)
(* The limbs that finalize reads.                                          *)
(***************************************************************************)

LEMMA AtMostOne ==
    ASSUME NEW n \in Nat, n < 2 * LimbSize
    PROVE  High(n) \in {0, 1}
BY Small, JustOver, LimbAssumption

LEMMA HighOfProduct ==
    ASSUME NEW n \in Nat, n < LimbSize * LimbSize
    PROVE  High(n) < LimbSize
<1>1. LimbSize \in Nat /\ High(n) \in Nat /\ Low(n) \in Nat /\ n = LimbSize * High(n) + Low(n)
  BY LowHigh, LimbAssumption
<1>2. ASSUME NEW j \in Nat, High(n) = LimbSize + j
      PROVE  FALSE
  <2>1. LimbSize * (LimbSize + j) = LimbSize * LimbSize + LimbSize * j
    BY <1>1, Plus
  <2>2. LimbSize * j \in Nat /\ LimbSize * LimbSize \in Nat
    BY <1>1, Times
  <2> QED
    BY <1>1, <1>2, <2>1, <2>2
<1>3. CASE High(n) >= LimbSize
  <2>1. High(n) - LimbSize \in Nat /\ High(n) = LimbSize + (High(n) - LimbSize)
    BY <1>1, <1>3
  <2> QED
    BY <1>2, <2>1
<1> QED
  BY <1>1, <1>3

(* A pass over limbs that fit, but for the second one, passes on at most   *)
(* one, and leaves the second limb at LimbSize or below.                   *)
LEMMA FirstPass ==
    ASSUME NEW h \in Vector, \A i \in Limbs \ {1} : h[i] < LimbSize, h[1] < LimbSize * LimbSize
    PROVE  Carry(h)[1] <= LimbSize
<1> DEFINE d1 == h[1] + High(h[0])
           d2 == h[2] + High(d1)
           d3 == h[3] + High(d2)
           d4 == h[4] + High(d3)
           h0 == Low(h[0]) + 5 * High(d4)
<1>1. /\ h[0] \in Nat /\ h[1] \in Nat /\ h[2] \in Nat /\ h[3] \in Nat /\ h[4] \in Nat
      /\ h[0] < LimbSize /\ h[2] < LimbSize /\ h[3] < LimbSize /\ h[4] < LimbSize
      /\ LimbSize \in Nat /\ LimbSize > 5
  BY LimbAssumption DEF Vector, Limbs
<1>2. d1 = h[1] /\ Low(h[0]) = h[0]
  BY <1>1, Small
<1>3. High(d1) \in Nat /\ High(d1) < LimbSize /\ Low(d1) \in Nat /\ Low(d1) < LimbSize
  BY <1>1, <1>2, HighOfProduct, LowHigh
<1>4. High(d2) \in {0, 1}
  BY <1>1, <1>3, AtMostOne
<1>5. High(d3) \in {0, 1}
  BY <1>1, <1>4, AtMostOne
<1>6. High(d4) \in {0, 1}
  BY <1>1, <1>5, AtMostOne
<1>7. High(h0) \in {0, 1}
  BY <1>1, <1>2, <1>6, AtMostOne
<1>8. Carry(h)[1] = Low(d1) + High(h0)
  BY DEF Carry, Limbs
<1> HIDE DEF d1, h0
<1> QED
  BY <1>1, <1>3, <1>7, <1>8

(* A second pass brings the second limb below LimbSize.                    *)
LEMMA SecondPass ==
    ASSUME NEW h \in Vector, \A i \in Limbs \ {1} : h[i] < LimbSize, h[1] <= LimbSize
    PROVE  Carry(h)[1] < LimbSize
<1> DEFINE d1 == h[1] + High(h[0])
           d2 == h[2] + High(d1)
           d3 == h[3] + High(d2)
           d4 == h[4] + High(d3)
           h0 == Low(h[0]) + 5 * High(d4)
<1>1. /\ h[0] \in Nat /\ h[1] \in Nat /\ h[2] \in Nat /\ h[3] \in Nat /\ h[4] \in Nat
      /\ h[0] < LimbSize /\ h[2] < LimbSize /\ h[3] < LimbSize /\ h[4] < LimbSize
      /\ LimbSize \in Nat /\ LimbSize > 5
  BY LimbAssumption DEF Vector, Limbs
<1>2. d1 = h[1] /\ Low(h[0]) = h[0]
  BY <1>1, Small
<1>3. Carry(h)[1] = Low(d1) + High(h0)
  BY DEF Carry, Limbs
<1>4. CASE h[1] < LimbSize
  <2>1. Low(d1) = h[1] /\ High(d1) = 0
    BY <1>1, <1>2, <1>4, Small
  <2>2. High(d2) = 0
    BY <1>1, <2>1, Small
  <2>3. High(d3) = 0
    BY <1>1, <2>2, Small
  <2>4. High(d4) = 0
    BY <1>1, <2>3, Small
  <2>5. High(h0) = 0
    BY <1>1, <1>2, <2>4, Small
  <2> QED
    BY <1>1, <1>3, <1>4, <2>1, <2>5
<1>5. CASE h[1] = LimbSize
  <2>1. Low(d1) = 0 /\ High(d1) = 1
    BY <1>1, <1>2, <1>5, JustOver
  <2>2. High(d2) \in {0, 1}
    BY <1>1, <2>1, AtMostOne
  <2>3. High(d3) \in {0, 1}
    BY <1>1, <2>2, AtMostOne
  <2>4. High(d4) \in {0, 1}
    BY <1>1, <2>3, AtMostOne
  <2>5. High(h0) \in {0, 1}
    BY <1>1, <1>2, <2>4, AtMostOne
  <2> HIDE DEF d1, h0
  <2> QED
    BY <1>1, <1>3, <2>1, <2>5
<1> QED
  BY <1>1, <1>4, <1>5

(* Two passes are enough: after mul_r, which leaves only the second limb   *)
(* too large, propagate_carry makes every limb fit, also when a carry runs *)
(* through all of them, and keeps the number modulo 2^130 - 5 (finalize,   *)
(* propagate_carry).                                                       *)
THEOREM PropagateCarrySettles ==
    ASSUME NEW h \in Vector, \A i \in Limbs \ {1} : h[i] < LimbSize, h[1] < LimbSize * LimbSize
    PROVE  /\ PropagateCarry(h) \in [Limbs -> 0 .. LimbSize - 1]
           /\ Value(PropagateCarry(h)) % P = Value(h) % P
<1> DEFINE c == Carry(h)
           e == Carry(c)
<1>1. /\ c \in Vector /\ \A i \in Limbs \ {1} : c[i] < LimbSize
      /\ Value(c) % P = Value(h) % P
  BY CarryKeepsResidue
<1>2. c[1] <= LimbSize
  BY FirstPass
<1> HIDE DEF c
<1>3. /\ e \in Vector /\ \A i \in Limbs \ {1} : e[i] < LimbSize
      /\ Value(e) % P = Value(c) % P
  BY <1>1, CarryKeepsResidue
<1>4. e[1] < LimbSize
  BY <1>1, <1>2, SecondPass
<1>5. PropagateCarry(h) = e
  BY DEF PropagateCarry, c
<1> HIDE DEF e
<1>6. \A i \in Limbs : e[i] \in 0 .. LimbSize - 1
  <2> SUFFICES ASSUME NEW i \in Limbs
               PROVE  e[i] \in 0 .. LimbSize - 1
    OBVIOUS
  <2>1. e[i] \in Nat /\ LimbSize \in Nat
    BY <1>3, LimbAssumption DEF Vector
  <2>2. e[i] < LimbSize
    BY <1>3, <1>4
  <2> QED
    BY <2>1, <2>2
<1>7. e \in [Limbs -> 0 .. LimbSize - 1]
  BY <1>3, <1>6 DEF Vector
<1> QED
  BY <1>1, <1>3, <1>5, <1>7

(***************************************************************************)
(* Induction and recursive functions. The steps of an induction are a set, *)
(* and a least counterexample refutes it (WFMin); a recursive function is  *)
(* packed in Steps and Follows, so that provers see no function of         *)
(* functions.                                                              *)
(***************************************************************************)

(* Induction up to n.                                                      *)
LEMMA UpTo ==
    ASSUME NEW n \in Nat, NEW S, 0 \in S, \A k \in 0 .. n - 1 : k \in S => k + 1 \in S
    PROVE  0 .. n \subseteq S
<1> SUFFICES ASSUME ~(0 .. n \subseteq S) PROVE FALSE
  OBVIOUS
<1> DEFINE Bad == {k \in 0 .. n : k \notin S}
<1>1. Bad \subseteq Nat /\ Bad # {} OBVIOUS
<1>2. PICK x \in Bad : \A y \in Bad : <<y, x>> \notin OpToRel(<, Nat)
  BY <1>1, NatLessThanWellFounded, WFMin
<1>8. x \in 0 .. n /\ x \notin S OBVIOUS
<1>3. x # 0 /\ x - 1 \in 0 .. n - 1
  <2>1. x # 0 BY <1>8
  <2> HIDE DEF Bad
  <2> QED BY <1>8, <2>1
<1>4. x - 1 \notin S
  <2>1. (x - 1) + 1 = x BY <1>3
  <2> QED BY <1>3, <1>8, <2>1
<1> DEFINE down == <<x - 1, x>>
<1>5. x - 1 \in Bad BY <1>3, <1>4
<1>6. down \notin {ss \in Nat \X Nat : ss[1] < ss[2]} BY <1>2, <1>5 DEF OpToRel
<1>7. down \in Nat \X Nat /\ down[1] = x - 1 /\ down[2] = x BY <1>1, <1>3
<1> QED BY <1>6, <1>7

(* A function with values in V that gives each value from the one before.  *)
Steps(V, n, base, G) == n \in Nat /\ base \in V /\ G \in [1 .. n -> [V -> V]]

Follows(V, n, base, G, f) ==
    f \in [0 .. n -> V] /\ f[0] = base /\ \A k \in 1 .. n : f[k] = G[k][f[k - 1]]

(* A recursive definition whose steps stay in V has a function.            *)
LEMMA Recursion ==
    ASSUME NEW V, NEW n, NEW base, NEW G, Steps(V, n, base, G)
    PROVE  \E f : Follows(V, n, base, G, f)
<1>0. n \in Nat /\ base \in V /\ G \in [1 .. n -> [V -> V]] BY DEF Steps
<1> DEFINE Upto(m, f) == f[0] = base /\ \A k \in 1 .. m : f[k] = G[k][f[k - 1]]
           S == {m \in 0 .. n : \E f \in [0 .. m -> V] : Upto(m, f)}
<1>1. 0 \in S
  <2> DEFINE f == [k \in 0 .. 0 |-> base]
  <2>1. f \in [0 .. 0 -> V] /\ Upto(0, f) BY <1>0
  <2> HIDE DEF f, Upto
  <2>2. \E h \in [0 .. 0 -> V] : Upto(0, h) BY <2>1
  <2> QED BY <1>0, <2>2
<1>2. ASSUME NEW m \in 0 .. n - 1, m \in S PROVE m + 1 \in S
  <2>1. PICK f \in [0 .. m -> V] : Upto(m, f) BY <1>2
  <2> DEFINE last == G[m + 1][f[m]]
             g == [k \in 0 .. m + 1 |-> IF k = m + 1 THEN last ELSE f[k]]
  <2>2. f[m] \in V /\ m + 1 \in 1 .. n /\ G[m + 1] \in [V -> V] BY <1>0, <2>1
  <2>3. last \in V BY <2>2
  <2> HIDE DEF last
  <2>4. g \in [0 .. m + 1 -> V] BY <1>0, <2>1, <2>3
  <2>5. g[0] = base /\ g[m + 1] = last /\ \A k \in 0 .. m : g[k] = f[k] BY <1>0, <2>1
  <2>6. ASSUME NEW k \in 1 .. m + 1 PROVE g[k] = G[k][g[k - 1]]
    <3>1. CASE k = m + 1
      <4>1. k - 1 = m /\ g[k - 1] = f[m] /\ g[k] = last BY <3>1, <2>5, <1>0
      <4> QED BY <4>1, <3>1 DEF last
    <3>2. CASE k # m + 1
      <4>1. k \in 1 .. m /\ g[k] = f[k] /\ g[k - 1] = f[k - 1] BY <3>2, <2>5, <1>0
      <4> QED BY <4>1, <2>1
    <3> QED BY <3>1, <3>2
  <2>7. Upto(m + 1, g) BY <2>5, <2>6
  <2>8. m + 1 \in 0 .. n BY <1>0
  <2> HIDE DEF g, Upto
  <2> QED BY <2>4, <2>7, <2>8
<1> HIDE DEF Upto, S
<1>3. 0 .. n \subseteq S BY <1>0, <1>1, <1>2, UpTo
<1>4. n \in S BY <1>0, <1>3
<1> QED BY <1>4 DEF S, Upto, Follows

(* What follows G where its values are in V has all of its values there.   *)
LEMMA StaysIn ==
    ASSUME NEW V, NEW n, NEW base, NEW G, NEW F, Steps(V, n, base, G),
           F = [k \in 0 .. n |-> F[k]], F[0] = base,
           \A k \in 1 .. n : F[k - 1] \in V => F[k] = G[k][F[k - 1]]
    PROVE  Follows(V, n, base, G, F)
<1>0. n \in Nat /\ base \in V /\ G \in [1 .. n -> [V -> V]] BY DEF Steps
<1> DEFINE S == {k \in 0 .. n : F[k] \in V}
<1>1. 0 \in S BY <1>0
<1>2. ASSUME NEW k \in 0 .. n - 1, k \in S PROVE k + 1 \in S
  <2>0. n \in Nat /\ k \in 0 .. n - 1 BY <1>0
  <2>1. k + 1 \in 1 .. n /\ (k + 1) - 1 = k /\ k + 1 \in 0 .. n BY ONLY <2>0
  <2>2. F[k] \in V BY <1>2
  <2>3. F[k + 1] = G[k + 1][F[k]] BY <2>1, <2>2
  <2>4. G[k + 1] \in [V -> V] BY <1>0, <2>1
  <2> QED BY <2>1, <2>2, <2>3, <2>4
<1> HIDE DEF S
<1>3. 0 .. n \subseteq S BY <1>0, <1>1, <1>2, UpTo
<1>4. \A k \in 0 .. n : F[k] \in V BY <1>3 DEF S
<1>5. F \in [0 .. n -> V] BY <1>4
<1>6. \A k \in 1 .. n : F[k] = G[k][F[k - 1]]
  <2> SUFFICES ASSUME NEW k \in 1 .. n PROVE F[k] = G[k][F[k - 1]] OBVIOUS
  <2>1. k - 1 \in 0 .. n BY <1>0
  <2> QED BY <1>4, <2>1
<1> QED BY <1>5, <1>6 DEF Follows

(***************************************************************************)
(* Numbers in words.                                                       *)
(***************************************************************************)

Word == 0 .. WordSize - 1

(* The widths of limbs, words and blocks.                                  *)
LEMMA Widths ==
    /\ LimbSize \in Nat /\ LimbSize >= 16 /\ WordSize \in Nat /\ WordSize > 1
    /\ BlockLen \in Nat /\ BlockLen >= 1
BY LimbAssumption, BlockAssumption

(* The number in words is a number.                                        *)
LEMMA NumberType ==
    ASSUME NEW b, NEW n \in Nat, Len(b) = n, \A i \in 1 .. n : b[i] \in Nat
    PROVE  Number(b) \in Nat
<1> DEFINE Step(v, i) == b[n + 1 - i] + WordSize * v
           U == CHOOSE f : f = [i \in 0 .. n |-> IF i = 0 THEN 0 ELSE Step(f[i - 1], i)]
           G == [i \in 1 .. n |-> [v \in Nat |-> Step(v, i)]]
<1>1. ASSUME NEW v \in Nat, NEW i \in 1 .. n PROVE Step(v, i) \in Nat
  <2>1. n + 1 - i \in 1 .. n OBVIOUS
  <2>2. b[n + 1 - i] \in Nat BY <2>1
  <2>3. WordSize * v \in Nat BY Widths
  <2> QED BY <2>2, <2>3
<1>2. Number(b) = U[n] BY DEF Number
<1> HIDE DEF Step
<1>3. Steps(Nat, n, 0, G) BY <1>1 DEF Steps
<1>4. \A v \in Nat, i \in 1 .. n : G[i][v] = Step(v, i) OBVIOUS
<1> HIDE DEF G
<1>5. PICK f : Follows(Nat, n, 0, G, f) BY <1>3, Recursion
<1>6. f = [i \in 0 .. n |-> IF i = 0 THEN 0 ELSE Step(f[i - 1], i)]
  <2>1. f \in [0 .. n -> Nat] /\ f[0] = 0 BY <1>5 DEF Follows
  <2>2. ASSUME NEW i \in 1 .. n PROVE f[i] = Step(f[i - 1], i)
    <3>1. f[i - 1] \in Nat BY <2>1
    <3> QED BY <1>4, <1>5, <3>1 DEF Follows
  <2> QED BY <2>1, <2>2
<1>7. U = [i \in 0 .. n |-> IF i = 0 THEN 0 ELSE Step(U[i - 1], i)] BY <1>6
<1> HIDE DEF U
<1>8. U = [i \in 0 .. n |-> U[i]] /\ U[0] = 0 BY <1>7
<1>9. \A k \in 1 .. n : U[k - 1] \in Nat => U[k] = G[k][U[k - 1]] BY <1>4, <1>7
<1>10. Follows(Nat, n, 0, G, U) BY <1>3, <1>8, <1>9, StaysIn
<1> QED BY <1>2, <1>10 DEF Follows

(* A block is below 2^128.                                                 *)
LEMMA NumberOfBlock ==
    ASSUME NEW b \in [1 .. BlockLen -> Word]
    PROVE  Number(b) \in Nat /\ Number(b) < BlockSize
<1>1. \A i \in 1 .. BlockLen : b[i] \in Nat BY Widths DEF Word
<1>2. Len(b) = BlockLen /\ BlockLen \in Nat BY Widths
<1>3. Number(b) \in Nat BY <1>1, <1>2, NumberType
<1> QED BY <1>3, BlockAssumption DEF Word

(***************************************************************************)
(* Limbs of a block.                                                       *)
(***************************************************************************)
LEMMA HighBelow ==
    ASSUME NEW n \in Nat, NEW m \in Nat, n < LimbSize * m
    PROVE  High(n) < m
<1>1. LimbSize \in Nat /\ High(n) \in Nat /\ Low(n) \in Nat /\ n = LimbSize * High(n) + Low(n)
  BY LowHigh, LimbAssumption
<1>2. ASSUME NEW j \in Nat, High(n) = m + j PROVE FALSE
  <2>1. LimbSize * (m + j) = LimbSize * m + LimbSize * j BY Plus
  <2>2. LimbSize * j \in Nat /\ LimbSize * m \in Nat BY Times
  <2> QED BY <1>1, <1>2, <2>1, <2>2
<1>3. CASE High(n) >= m
  <2>1. High(n) - m \in Nat /\ High(n) = m + (High(n) - m) BY <1>1, <1>3
  <2> QED BY <1>2, <2>1
<1> QED BY <1>1, <1>3

(* The bit above a block is in the last limb.                              *)
LEMMA HighBitType == HighBit \in Nat /\ 4 * HighBit <= LimbSize /\ HighBit < LimbSize
BY LimbAssumption DEF HighBit

(* 2^128 is a number.                                                      *)
LEMMA BlockSizeType == BlockSize \in Nat
<1> DEFINE m1 == LimbSize * HighBit
           m2 == LimbSize * m1
           m3 == LimbSize * m2
<1>1. m1 \in Nat BY HighBitType, Times
<1>2. m2 \in Nat
  <2> HIDE DEF m1
  <2> QED BY <1>1, Times
<1>3. m3 \in Nat
  <2> HIDE DEF m2
  <2> QED BY <1>2, Times
<1>4. LimbSize * m3 \in Nat
  <2> HIDE DEF m3
  <2> QED BY <1>3, Times
<1> QED BY <1>4 DEF BlockSize

LimbsIn(n) == [i \in Limbs |-> Limb(n, i)]

(* A number below 2^128 is what its limbs say.                             *)
LEMMA LimbsValue ==
    ASSUME NEW n \in Nat, n < BlockSize
    PROVE  /\ LimbsIn(n) \in Vector /\ \A i \in Limbs : LimbsIn(n)[i] < LimbSize
           /\ Value(LimbsIn(n)) = n
<1> DEFINE n1 == High(n)
           n2 == High(n1)
           n3 == High(n2)
           n4 == High(n3)
           m1 == LimbSize * HighBit
           m2 == LimbSize * m1
           m3 == LimbSize * m2
<1>1. LimbsIn(n)[0] = Low(n) /\ LimbsIn(n)[1] = Low(n1) /\ LimbsIn(n)[2] = Low(n2)
      /\ LimbsIn(n)[3] = Low(n3) /\ LimbsIn(n)[4] = Low(n4)
  BY DEF LimbsIn, Limb, Limbs
<1>2. m1 \in Nat /\ HighBit \in Nat BY HighBitType, Times
<1>3. m2 \in Nat
  <2> HIDE DEF m1
  <2> QED BY <1>2, Times
<1>4. m3 \in Nat
  <2> HIDE DEF m2
  <2> QED BY <1>3, Times
<1>5. n < LimbSize * m3 BY DEF BlockSize
<1>6. n1 \in Nat /\ n1 < m3 /\ Low(n) \in Nat /\ Low(n) < LimbSize /\ n = LimbSize * n1 + Low(n)
  <2> HIDE DEF m3
  <2> QED BY <1>4, <1>5, HighBelow, LowHigh
<1> HIDE DEF n1
<1>7. n2 \in Nat /\ n2 < m2 /\ Low(n1) \in Nat /\ Low(n1) < LimbSize /\ n1 = LimbSize * n2 + Low(n1)
  <2> HIDE DEF m2
  <2> QED BY <1>3, <1>6, HighBelow, LowHigh
<1> HIDE DEF n2
<1>8. n3 \in Nat /\ n3 < m1 /\ Low(n2) \in Nat /\ Low(n2) < LimbSize /\ n2 = LimbSize * n3 + Low(n2)
  <2> HIDE DEF m1
  <2> QED BY <1>2, <1>7, HighBelow, LowHigh
<1> HIDE DEF n3
<1>9. n4 \in Nat /\ n4 < HighBit /\ n3 = LimbSize * n4 + Low(n3) /\ Low(n3) \in Nat /\ Low(n3) < LimbSize
  BY <1>2, <1>8, HighBelow, LowHigh
<1> HIDE DEF n4, m1, m2, m3
<1>10. Low(n4) = n4 /\ n4 < LimbSize
  <2>1. n4 \in Nat /\ n4 < LimbSize BY <1>9, HighBitType, LimbAssumption
  <2> QED BY <2>1, Small
<1>11. LimbsIn(n) = [i \in Limbs |-> LimbsIn(n)[i]] BY DEF LimbsIn
<1>12. Limbs = {0, 1, 2, 3, 4} BY DEF Limbs
<1>13. \A i \in Limbs : LimbsIn(n)[i] \in Nat /\ LimbsIn(n)[i] < LimbSize
  BY <1>1, <1>6, <1>7, <1>8, <1>9, <1>10, <1>12
<1>14. LimbsIn(n) \in Vector
  <2>1. \A i \in Limbs : LimbsIn(n)[i] \in Nat BY <1>13
  <2> QED BY <1>11, <2>1 DEF Vector
<1>15. Value(LimbsIn(n)) =
          Low(n) + LimbSize * (Low(n1) + LimbSize * (Low(n2) + LimbSize * (Low(n3) + LimbSize * n4)))
  BY <1>1, <1>10 DEF Value
<1>16. Low(n3) + LimbSize * n4 = n3
  <2>1. LimbSize * n4 \in Nat BY <1>9, Times
  <2> QED BY <1>9, <2>1
<1>17. Low(n2) + LimbSize * n3 = n2
  <2>1. LimbSize * n3 \in Nat BY <1>8, Times
  <2> QED BY <1>8, <2>1
<1>18. Low(n1) + LimbSize * n2 = n1
  <2>1. LimbSize * n2 \in Nat BY <1>7, Times
  <2> QED BY <1>7, <2>1
<1>19. Low(n) + LimbSize * n1 = n
  <2>1. LimbSize * n1 \in Nat BY <1>6, Times
  <2> QED BY <1>6, <2>1
<1>20. Value(LimbsIn(n)) = n BY <1>15, <1>16, <1>17, <1>18, <1>19
<1> QED BY <1>13, <1>14, <1>20

(* The bit above a block.                                                  *)
Above(hibit) == [i \in Limbs |-> IF i = 4 THEN HighBit * hibit ELSE 0]

(* The limbs of that bit: 2^128 or nothing.                                *)
LEMMA AboveValue ==
    ASSUME NEW hibit \in {0, 1}
    PROVE  /\ Above(hibit) \in Vector /\ Value(Above(hibit)) = BlockSize * hibit
           /\ Above(hibit)[4] <= HighBit /\ \A i \in Limbs \ {4} : Above(hibit)[i] = 0
<1>1. HighBit * hibit \in Nat /\ HighBit * hibit <= HighBit /\ HighBit \in Nat
  BY HighBitType
<1>2. Above(hibit) \in Vector BY <1>1 DEF Above, Vector
<1>3. /\ Above(hibit)[0] = 0 /\ Above(hibit)[1] = 0 /\ Above(hibit)[2] = 0 /\ Above(hibit)[3] = 0
      /\ Above(hibit)[4] = HighBit * hibit
  BY DEF Above, Limbs
<1> DEFINE s(x) == 0 + LimbSize * x
<1>4. Value(Above(hibit)) = s(s(s(s(HighBit * hibit)))) BY <1>3 DEF Value
<1>5. \A x \in Nat : s(x) = LimbSize * x /\ s(x) \in Nat BY Times
<1>6. \A x \in Nat : s(s(s(s(x)))) = LimbSize * (LimbSize * (LimbSize * (LimbSize * x)))
  <2> SUFFICES ASSUME NEW x \in Nat
               PROVE  s(s(s(s(x)))) = LimbSize * (LimbSize * (LimbSize * (LimbSize * x)))
    OBVIOUS
  <2> DEFINE a == s(x)
             b == s(a)
             c == s(b)
  <2> HIDE DEF s
  <2>1. a = LimbSize * x /\ a \in Nat BY <1>5
  <2>2. b = LimbSize * a /\ b \in Nat
    <3> HIDE DEF a
    <3> QED BY <1>5, <2>1
  <2>3. c = LimbSize * b /\ c \in Nat
    <3> HIDE DEF b
    <3> QED BY <1>5, <2>2
  <2>4. s(c) = LimbSize * c
    <3> HIDE DEF c
    <3> QED BY <1>5, <2>3
  <2> QED BY <2>1, <2>2, <2>3, <2>4
<1> HIDE DEF s
<1>7. CASE hibit = 0
  <2>1. HighBit * hibit = 0 /\ BlockSize * hibit = 0 BY <1>7, HighBitType, BlockSizeType
  <2>2. s(s(s(s(0)))) = 0
    <3>1. s(0) = 0 BY <1>5, LimbAssumption
    <3> QED BY <3>1
  <2> QED BY <1>1, <1>2, <1>3, <1>4, <2>1, <2>2 DEF Limbs
<1>8. CASE hibit = 1
  <2>1. HighBit * hibit = HighBit /\ BlockSize * hibit = BlockSize
    BY <1>8, HighBitType, BlockSizeType
  <2>2. s(s(s(s(HighBit)))) = BlockSize BY <1>1, <1>6 DEF BlockSize
  <2> QED BY <1>1, <1>2, <1>3, <1>4, <2>1, <2>2 DEF Limbs
<1> QED BY <1>7, <1>8

(***************************************************************************)
(* Residues modulo P.                                                      *)
(***************************************************************************)
LEMMA Residue ==
    ASSUME NEW a \in Nat
    PROVE  /\ a % P \in Nat /\ a % P < P
           /\ \E q \in Nat : a = (a % P) + P * q
<1>1. P \in Nat /\ P > 0 BY PIsPositive
<1> DEFINE q == a \div P
<1> HIDE DEF P
<1>2. q \in Nat /\ a % P \in 0 .. P - 1 /\ a = P * q + (a % P) BY <1>1
<1> HIDE DEF q
<1>3. P * q \in Nat /\ a % P \in Nat BY <1>1, <1>2
<1>4. a = (a % P) + P * q BY <1>2, <1>3
<1> QED BY <1>1, <1>2, <1>4

(* A factor, or a summand, counts by its residue.                          *)
LEMMA ResidueOfProduct ==
    ASSUME NEW a \in Nat, NEW b \in Nat, NEW c \in Nat
    PROVE  ((a + b) * c) % P = (((a % P) + b) * c) % P
<1> DEFINE u == a % P
<1>1. PICK q \in Nat : a = u + P * q BY Residue
<1>2. u \in Nat BY Residue
<1>3. P \in Nat BY PIsPositive
<1> HIDE DEF u, P
<1>4. (a + b) * c = (u + b) * c + P * (q * c)
  <2>1. a + b = (u + b) + P * q /\ P * q \in Nat /\ u + b \in Nat BY <1>1, <1>2, <1>3
  <2>2. ((u + b) + P * q) * c = (u + b) * c + (P * q) * c BY <2>1, Distributes
  <2>3. (P * q) * c = P * (q * c) BY <1>3
  <2> QED BY <2>1, <2>2, <2>3
<1>5. (u + b) * c \in Nat /\ q * c \in Nat BY <1>2
<1>6. ((u + b) * c + P * (q * c)) % P = ((u + b) * c) % P BY <1>5, SameResidue
<1> QED BY <1>4, <1>6 DEF u

(* The product in two halves.                                              *)
LEMMA TimesModIsProduct ==
    ASSUME NEW a \in Nat, NEW b \in Nat
    PROVE  TimesMod(a, b) = (a * b) % P
<1> DEFINE h == b \div 1024
           l == b % 1024
<1>1. h \in Nat /\ l \in Nat /\ b = 1024 * h + l OBVIOUS
<1> HIDE DEF h, l
<1>2. a * h \in Nat /\ a * l \in Nat BY <1>1
<1> DEFINE ah == a * h
           al == a * l
           u == ah % P
<1>3. a * b = ah * 1024 + al
  <2>1. a * (1024 * h + l) = (1024 * h + l) * a BY <1>1
  <2>2. (1024 * h + l) * a = (1024 * h) * a + l * a BY <1>1, Distributes
  <2>3. (1024 * h) * a = (a * h) * 1024 /\ l * a = a * l BY <1>1
  <2> QED BY <1>1, <2>1, <2>2, <2>3
<1> HIDE DEF ah, al
<1>4. ah \in Nat /\ al \in Nat BY <1>2 DEF ah, al
<1>5. u \in Nat BY <1>4, Residue
<1>6. (ah * 1024 + al) % P = (u * 1024 + al) % P
  <2>1. PICK q \in Nat : ah = u + P * q BY <1>4, Residue
  <2>2. ah * 1024 + al = (u * 1024 + al) + P * (q * 1024)
    <3>1. P \in Nat BY PIsPositive
    <3> HIDE DEF P, u
    <3>2. P * q \in Nat /\ (P * q) * 1024 = P * (q * 1024) BY <3>1
    <3>3. (u + P * q) * 1024 = u * 1024 + (P * q) * 1024 BY <1>5, <3>2
    <3> QED BY <1>4, <1>5, <2>1, <3>2, <3>3
  <2>3. u * 1024 + al \in Nat /\ q * 1024 \in Nat BY <1>4, <1>5
  <2> QED BY <2>2, <2>3, SameResidue
<1>7. TimesMod(a, b) = (u * 1024 + al) % P BY DEF TimesMod, ah, al, h, l
<1> QED BY <1>3, <1>6, <1>7

WordBlock == [1 .. BlockLen -> Word]
Key == [Limbs -> 0 .. LimbSize - 1]

(* A key is a vector of limbs.                                             *)
LEMMA KeyIsVector == ASSUME NEW r \in Key PROVE r \in Vector
BY LimbAssumption DEF Key, Vector

(* What process_block adds to the accumulator.                             *)
Added(h, b, hibit) == [i \in Limbs |-> (h[i] + LimbsIn(Number(b))[i]) + Above(hibit)[i]]

(* It is the block, with the bit above it.                                 *)
LEMMA AddedValue ==
    ASSUME NEW h \in Vector, NEW b \in WordBlock, NEW hibit \in {0, 1}
    PROVE  /\ Added(h, b, hibit) \in Vector
           /\ Value(Added(h, b, hibit)) = Value(h) + (Number(b) + BlockSize * hibit)
<1>1. Number(b) \in Nat /\ Number(b) < BlockSize BY NumberOfBlock DEF WordBlock
<1> DEFINE n == LimbsIn(Number(b))
           t == Above(hibit)
           s == [i \in Limbs |-> h[i] + n[i]]
<1>2. n \in Vector /\ Value(n) = Number(b) BY <1>1, LimbsValue
<1>3. t \in Vector /\ Value(t) = BlockSize * hibit BY AboveValue
<1> HIDE DEF n, t
<1>4. s \in Vector BY <1>2 DEF Vector
<1>5. Value(s) = Value(h) + Value(n) BY <1>2, SumValue
<1>6. Value([i \in Limbs |-> s[i] + t[i]]) = Value(s) + Value(t)
  <2> HIDE DEF s
  <2> QED BY <1>3, <1>4, SumValue
<1>7. Added(h, b, hibit) = [i \in Limbs |-> s[i] + t[i]] BY DEF Added, n, t
<1>8. Added(h, b, hibit) \in Vector
  <2> HIDE DEF s
  <2> QED BY <1>3, <1>4, <1>7 DEF Vector
<1>9. Value(h) \in Nat /\ Number(b) \in Nat /\ BlockSize * hibit \in Nat
  BY <1>1, ValueType, BlockSizeType
<1> HIDE DEF s
<1> QED BY <1>2, <1>3, <1>5, <1>6, <1>7, <1>8, <1>9

(* process_block adds limb by limb, then multiplies.                       *)
LEMMA ProcessBlockAdds ==
    ASSUME NEW h \in Vector, NEW b \in WordBlock, NEW hibit \in {0, 1}, NEW r
    PROVE  ProcessBlock(h, b, hibit, r) = MulR(Added(h, b, hibit), r)
<1> DEFINE n(i) == Limb(Number(b), i) + (IF i = 4 THEN HighBit * hibit ELSE 0)
<1>1. Number(b) \in Nat /\ Number(b) < BlockSize BY NumberOfBlock DEF WordBlock
<1>2. LimbsIn(Number(b)) \in Vector BY <1>1, LimbsValue
<1>3. \A i \in Limbs : h[i] + n(i) = Added(h, b, hibit)[i]
  <2> SUFFICES ASSUME NEW i \in Limbs PROVE h[i] + n(i) = Added(h, b, hibit)[i]
    OBVIOUS
  <2>1. Limb(Number(b), i) \in Nat /\ LimbsIn(Number(b))[i] = Limb(Number(b), i)
    BY <1>2 DEF LimbsIn, Vector
  <2>2. Above(hibit)[i] = (IF i = 4 THEN HighBit * hibit ELSE 0) /\ Above(hibit)[i] \in Nat
    BY AboveValue DEF Above, Vector
  <2>3. Added(h, b, hibit)[i] = (h[i] + LimbsIn(Number(b))[i]) + Above(hibit)[i] BY DEF Added
  <2>4. h[i] \in Nat BY DEF Vector
  <2> QED BY <2>1, <2>2, <2>3, <2>4
<1>4. [i \in Limbs |-> h[i] + n(i)] = Added(h, b, hibit)
  <2>1. Added(h, b, hibit) = [i \in Limbs |-> Added(h, b, hibit)[i]] BY DEF Added
  <2> HIDE DEF n
  <2> QED BY <1>3, <2>1
<1> QED BY <1>4 DEF ProcessBlock

(* process_block is one step of Horner's rule.                             *)
LEMMA ProcessBlockValue ==
    ASSUME NEW h \in Vector, NEW b \in WordBlock, NEW hibit \in {0, 1}, NEW r \in Vector
    PROVE  /\ ProcessBlock(h, b, hibit, r) \in Vector
           /\ Value(ProcessBlock(h, b, hibit, r)) % P =
                 ((Value(h) + (Number(b) + BlockSize * hibit)) * Value(r)) % P
<1> DEFINE a == Added(h, b, hibit)
<1>1. a \in Vector /\ Value(a) = Value(h) + (Number(b) + BlockSize * hibit) BY AddedValue
<1>2. ProcessBlock(h, b, hibit, r) = MulR(a, r) BY ProcessBlockAdds
<1> HIDE DEF a
<1> QED BY <1>1, <1>2, MulRMultiplies

(***************************************************************************)
(* Limbs between two blocks: all fit, but for the second one, which stays  *)
(* below twelve times LimbSize.                                            *)
(***************************************************************************)
Fits(h) ==
    /\ h \in Vector /\ \A i \in Limbs \ {1} : h[i] < LimbSize
    /\ h[1] <= 12 * LimbSize

(* A bound of a product with a limb of the key.                            *)
LEMMA ProductBelow ==
    ASSUME NEW a \in Nat, NEW m \in Nat, a <= m, NEW r \in 0 .. LimbSize - 1
    PROVE  a * r \in Nat /\ a * r <= m * LimbSize
<1>1. r \in Nat /\ LimbSize \in Nat /\ r <= LimbSize BY LimbAssumption
<1>2. a * r \in Nat /\ a * LimbSize \in Nat /\ m * LimbSize \in Nat BY <1>1
<1>3. a * r <= a * LimbSize
  <2>1. LimbSize = r + (LimbSize - r) /\ LimbSize - r \in Nat BY <1>1
  <2> DEFINE d == LimbSize - r
  <2>2. (r + d) * a = r * a + d * a BY <1>1, <2>1, Distributes
  <2>3. d * a \in Nat BY <2>1
  <2>4. r * a = a * r /\ (r + d) * a = a * LimbSize BY <1>1
  <2> HIDE DEF d
  <2> QED BY <1>2, <2>2, <2>3, <2>4
<1>4. a * LimbSize <= m * LimbSize
  <2> DEFINE d == m - a
  <2>1. d \in Nat /\ m = a + d OBVIOUS
  <2>2. (a + d) * LimbSize = a * LimbSize + d * LimbSize /\ d * LimbSize \in Nat
    BY <1>1, <2>1, Distributes
  <2> HIDE DEF d
  <2> QED BY <1>2, <2>1, <2>2
<1> QED BY <1>1, <1>2, <1>3, <1>4

(* What a limb passes on is at most the LimbSize-th part.                  *)
LEMMA HighAtMost ==
    ASSUME NEW n \in Nat, NEW m \in Nat, n <= LimbSize * m
    PROVE  High(n) \in Nat /\ High(n) <= m
<1>1. LimbSize * m \in Nat /\ LimbSize * (m + 1) = LimbSize * m + LimbSize * 1 BY Times, Plus
<1>2. LimbSize * 1 = LimbSize /\ LimbSize > 0 /\ LimbSize \in Nat BY LimbAssumption
<1>3. n < LimbSize * (m + 1) BY <1>1, <1>2
<1>4. m + 1 \in Nat OBVIOUS
<1>5. High(n) < m + 1 BY <1>3, <1>4, HighBelow
<1>6. High(n) \in Nat BY LowHigh
<1> QED BY <1>5, <1>6

(* The second limb stays far below the square of LimbSize, and no column   *)
(* of mul_r comes near 2^64, which is 4096 times the square of 2^26.       *)
LEMMA MulFits ==
    ASSUME NEW x \in Vector, \A i \in Limbs \ {1} : x[i] <= 3 * LimbSize,
           x[1] <= 13 * LimbSize, NEW r \in Key
    PROVE  /\ Fits(MulR(x, r))
           /\ \A k \in Limbs : Columns(x, r)[k] <= 113 * (LimbSize * LimbSize)
<1> DEFINE L == LimbSize
           S == L * L
           x0 == x[0]  x1 == x[1]  x2 == x[2]  x3 == x[3]  x4 == x[4]
           r0 == r[0]  r1 == r[1]  r2 == r[2]  r3 == r[3]  r4 == r[4]
           d0 == x0 * r0 + x1 * (5 * r4) + x2 * (5 * r3) + x3 * (5 * r2) + x4 * (5 * r1)
           d1 == x0 * r1 + x1 * r0 + x2 * (5 * r4) + x3 * (5 * r3) + x4 * (5 * r2)
           d2 == x0 * r2 + x1 * r1 + x2 * r0 + x3 * (5 * r4) + x4 * (5 * r3)
           d3 == x0 * r3 + x1 * r2 + x2 * r1 + x3 * r0 + x4 * (5 * r4)
           d4 == x0 * r4 + x1 * r3 + x2 * r2 + x3 * r1 + x4 * r0
           D == Columns(x, r)
           e1 == d1 + High(d0)
           e2 == d2 + High(e1)
           e3 == d3 + High(e2)
           e4 == d4 + High(e3)
           h0 == Low(d0) + 5 * High(e4)
<1>1. /\ x0 \in Nat /\ x1 \in Nat /\ x2 \in Nat /\ x3 \in Nat /\ x4 \in Nat
      /\ x0 <= 3 * L /\ x2 <= 3 * L /\ x3 <= 3 * L /\ x4 <= 3 * L /\ x1 <= 13 * L
  BY DEF Vector, Limbs
<1>2. /\ r0 \in 0 .. L - 1 /\ r1 \in 0 .. L - 1 /\ r2 \in 0 .. L - 1 /\ r3 \in 0 .. L - 1
      /\ r4 \in 0 .. L - 1
  BY DEF Key, Limbs
<1>3. L \in Nat /\ L >= 16 BY LimbAssumption
<1>4. S \in Nat /\ S >= 16 * L
  <2>1. \E y \in Nat : L = 16 + y
    <3>1. L - 16 \in Nat /\ L = 16 + (L - 16) BY <1>3
    <3> QED BY <3>1
  <2>2. PICK y \in Nat : L = 16 + y BY <2>1
  <2>3. (16 + y) * L = 16 * L + y * L /\ y * L \in Nat BY <1>3, Distributes
  <2> QED BY <1>3, <2>2, <2>3
<1>6. ASSUME NEW a \in Nat, a <= 3 * L, NEW s \in 0 .. L - 1
      PROVE  a * s \in Nat /\ a * s <= 3 * S /\ a * (5 * s) = 5 * (a * s)
  <2>1. a * s \in Nat /\ a * s <= (3 * L) * L BY <1>3, <1>6, ProductBelow
  <2>2. (3 * L) * L = 3 * S BY <1>3
  <2>3. a * (5 * s) = 5 * (a * s) BY <1>3
  <2> QED BY <2>1, <2>2, <2>3
<1>7. ASSUME NEW s \in 0 .. L - 1
      PROVE  x1 * s \in Nat /\ x1 * s <= 13 * S /\ x1 * (5 * s) = 5 * (x1 * s)
  <2>1. x1 * s \in Nat /\ x1 * s <= (13 * L) * L BY <1>1, <1>3, ProductBelow
  <2>2. (13 * L) * L = 13 * S BY <1>3
  <2>3. x1 * (5 * s) = 5 * (x1 * s) BY <1>1, <1>3
  <2> QED BY <2>1, <2>2, <2>3
<1>8. MulR(x, r) = Carry(D) BY DEF MulR, Columns
<1>9. D[0] = d0 /\ D[1] = d1 /\ D[2] = d2 /\ D[3] = d3 /\ D[4] = d4
  BY DEF Columns, Limbs
<1> HIDE DEF D
<1>10. Carry(D)[1] = Low(e1) + High(h0)
  <2>1. Carry(D)[1] = LET f1 == D[1] + High(D[0])
                          f2 == D[2] + High(f1)
                          f3 == D[3] + High(f2)
                          f4 == D[4] + High(f3)
                          g0 == Low(D[0]) + 5 * High(f4)
                      IN  Low(f1) + High(g0)
    BY DEF Carry, Limbs
  <2> HIDE DEF d0, d1, d2, d3, d4
  <2> QED BY <1>9, <2>1
<1>11. d0 \in Nat /\ d0 <= 113 * S
  <2>1. /\ x0 * r0 \in Nat /\ x0 * r0 <= 3 * S
        /\ x1 * r4 \in Nat /\ x1 * r4 <= 13 * S /\ x1 * (5 * r4) = 5 * (x1 * r4)
        /\ x2 * r3 \in Nat /\ x2 * r3 <= 3 * S /\ x2 * (5 * r3) = 5 * (x2 * r3)
        /\ x3 * r2 \in Nat /\ x3 * r2 <= 3 * S /\ x3 * (5 * r2) = 5 * (x3 * r2)
        /\ x4 * r1 \in Nat /\ x4 * r1 <= 3 * S /\ x4 * (5 * r1) = 5 * (x4 * r1)
    BY <1>1, <1>2, <1>6, <1>7
  <2> HIDE DEF S
  <2> QED BY <2>1, <1>4
<1>12. d1 \in Nat /\ d1 <= 61 * S
  <2>1. /\ x0 * r1 \in Nat /\ x0 * r1 <= 3 * S
        /\ x1 * r0 \in Nat /\ x1 * r0 <= 13 * S
        /\ x2 * r4 \in Nat /\ x2 * r4 <= 3 * S /\ x2 * (5 * r4) = 5 * (x2 * r4)
        /\ x3 * r3 \in Nat /\ x3 * r3 <= 3 * S /\ x3 * (5 * r3) = 5 * (x3 * r3)
        /\ x4 * r2 \in Nat /\ x4 * r2 <= 3 * S /\ x4 * (5 * r2) = 5 * (x4 * r2)
    BY <1>1, <1>2, <1>6, <1>7
  <2> HIDE DEF S
  <2> QED BY <2>1, <1>4
<1>13. d2 \in Nat /\ d2 <= 49 * S
  <2>1. /\ x0 * r2 \in Nat /\ x0 * r2 <= 3 * S
        /\ x1 * r1 \in Nat /\ x1 * r1 <= 13 * S
        /\ x2 * r0 \in Nat /\ x2 * r0 <= 3 * S
        /\ x3 * r4 \in Nat /\ x3 * r4 <= 3 * S /\ x3 * (5 * r4) = 5 * (x3 * r4)
        /\ x4 * r3 \in Nat /\ x4 * r3 <= 3 * S /\ x4 * (5 * r3) = 5 * (x4 * r3)
    BY <1>1, <1>2, <1>6, <1>7
  <2> HIDE DEF S
  <2> QED BY <2>1, <1>4
<1>14. d3 \in Nat /\ d3 <= 37 * S
  <2>1. /\ x0 * r3 \in Nat /\ x0 * r3 <= 3 * S
        /\ x1 * r2 \in Nat /\ x1 * r2 <= 13 * S
        /\ x2 * r1 \in Nat /\ x2 * r1 <= 3 * S
        /\ x3 * r0 \in Nat /\ x3 * r0 <= 3 * S
        /\ x4 * r4 \in Nat /\ x4 * r4 <= 3 * S /\ x4 * (5 * r4) = 5 * (x4 * r4)
    BY <1>1, <1>2, <1>6, <1>7
  <2> HIDE DEF S
  <2> QED BY <2>1, <1>4
<1>15. d4 \in Nat /\ d4 <= 25 * S
  <2>1. /\ x0 * r4 \in Nat /\ x0 * r4 <= 3 * S
        /\ x1 * r3 \in Nat /\ x1 * r3 <= 13 * S
        /\ x2 * r2 \in Nat /\ x2 * r2 <= 3 * S
        /\ x3 * r1 \in Nat /\ x3 * r1 <= 3 * S
        /\ x4 * r0 \in Nat /\ x4 * r0 <= 3 * S
    BY <1>1, <1>2, <1>6, <1>7
  <2> HIDE DEF S
  <2> QED BY <2>1, <1>4
<1>16. ASSUME NEW q \in Nat PROVE LimbSize * (q * L) = q * S /\ q * L \in Nat
  BY <1>3
<1> HIDE DEF d0, d1, d2, d3, d4, S, L
<1>17. High(d0) \in Nat /\ High(d0) <= 113 * L
  <2>1. LimbSize * (113 * L) = 113 * S /\ 113 * L \in Nat BY <1>16
  <2> QED BY <1>11, <2>1, HighAtMost
<1>18. e1 \in Nat /\ e1 <= 69 * S BY <1>3, <1>4, <1>12, <1>17
<1>19. High(e1) \in Nat /\ High(e1) <= 69 * L
  <2>1. LimbSize * (69 * L) = 69 * S /\ 69 * L \in Nat BY <1>16
  <2> QED BY <1>18, <2>1, HighAtMost
<1>20. e2 \in Nat /\ e2 <= 54 * S BY <1>3, <1>4, <1>13, <1>19
<1>21. High(e2) \in Nat /\ High(e2) <= 54 * L
  <2>1. LimbSize * (54 * L) = 54 * S /\ 54 * L \in Nat BY <1>16
  <2> QED BY <1>20, <2>1, HighAtMost
<1>22. e3 \in Nat /\ e3 <= 41 * S BY <1>3, <1>4, <1>14, <1>21
<1>23. High(e3) \in Nat /\ High(e3) <= 41 * L
  <2>1. LimbSize * (41 * L) = 41 * S /\ 41 * L \in Nat BY <1>16
  <2> QED BY <1>22, <2>1, HighAtMost
<1>24. e4 \in Nat /\ e4 <= 28 * S BY <1>3, <1>4, <1>15, <1>23
<1>25. High(e4) \in Nat /\ High(e4) <= 28 * L
  <2>1. LimbSize * (28 * L) = 28 * S /\ 28 * L \in Nat BY <1>16
  <2> QED BY <1>24, <2>1, HighAtMost
<1>26. h0 \in Nat /\ h0 <= LimbSize * 141
  <2>1. Low(d0) \in Nat /\ Low(d0) < L BY <1>11, LowHigh DEF L
  <2> QED BY <1>3, <1>25, <2>1 DEF L
<1>27. High(h0) \in Nat /\ High(h0) <= 141 BY <1>26, HighAtMost
<1>28. Low(e1) \in Nat /\ Low(e1) < L BY <1>18, LowHigh DEF L
<1>29. Carry(D)[1] <= 12 * L BY <1>3, <1>10, <1>27, <1>28
<1>30. D \in Vector BY ColumnsValue, KeyIsVector DEF D
<1>31. /\ Carry(D) \in Vector
       /\ \A i \in Limbs \ {1} : Carry(D)[i] < LimbSize
  BY <1>30, CarryKeepsResidue
<1>32. \A k \in Limbs : D[k] <= 113 * S
  <2>1. Limbs = {0, 1, 2, 3, 4} BY DEF Limbs
  <2> QED BY <1>4, <1>9, <1>11, <1>12, <1>13, <1>14, <1>15, <2>1
<1> QED BY <1>8, <1>29, <1>31, <1>32 DEF Fits, L, S, D

(* Between two blocks the limbs fit, and no sum of products that mul_r     *)
(* takes for the next one comes near 2^64, which is 4096 times the square  *)
(* of 2^26 (process_block, mul_r).                                         *)
THEOREM ProcessBlockFits ==
    ASSUME NEW h, Fits(h), NEW b \in WordBlock, NEW hibit \in {0, 1}, NEW r \in Key
    PROVE  /\ Fits(ProcessBlock(h, b, hibit, r))
           /\ ProcessBlock(h, b, hibit, r) = Carry(Columns(Added(h, b, hibit), r))
           /\ \A k \in Limbs : Columns(Added(h, b, hibit), r)[k] <= 113 * (LimbSize * LimbSize)
<1>1. h \in Vector BY DEF Fits
<1>2. Number(b) \in Nat /\ Number(b) < BlockSize BY NumberOfBlock DEF WordBlock
<1> DEFINE n == LimbsIn(Number(b))
           t == Above(hibit)
           x == Added(h, b, hibit)
<1>3. n \in Vector /\ \A i \in Limbs : n[i] < LimbSize BY <1>2, LimbsValue
<1>4. t \in Vector /\ t[4] <= HighBit /\ \A i \in Limbs \ {4} : t[i] = 0 BY AboveValue
<1>5. x \in Vector /\ ProcessBlock(h, b, hibit, r) = MulR(x, r)
  BY <1>1, AddedValue, ProcessBlockAdds
<1>6. \A i \in Limbs : x[i] = (h[i] + n[i]) + t[i] BY DEF Added
<1> HIDE DEF n, t, x
<1>7. ASSUME NEW i \in Limbs \ {1} PROVE x[i] <= 3 * LimbSize
  <2>1. h[i] \in Nat /\ h[i] < LimbSize /\ n[i] \in Nat /\ n[i] < LimbSize
    BY <1>1, <1>3 DEF Fits, Vector
  <2>2. t[i] \in Nat /\ t[i] < LimbSize
    <3>1. t[i] \in Nat BY <1>4 DEF Vector
    <3>2. CASE i = 4 BY <1>4, <3>1, <3>2, HighBitType, LimbAssumption
    <3>3. CASE i # 4 BY <1>4, <3>3, LimbAssumption
    <3> QED BY <3>1, <3>2, <3>3
  <2> QED BY <1>6, <2>1, <2>2, LimbAssumption
<1>8. x[1] <= 13 * LimbSize
  <2>1. 1 \in Limbs /\ 1 # 4 BY DEF Limbs
  <2>2. h[1] \in Nat /\ h[1] <= 12 * LimbSize /\ n[1] \in Nat /\ n[1] < LimbSize
    BY <1>1, <1>3, <2>1 DEF Fits, Vector
  <2>3. t[1] = 0 BY <1>4, <2>1
  <2> QED BY <1>6, <2>1, <2>2, <2>3, LimbAssumption
<1>9. /\ Fits(MulR(x, r))
      /\ \A k \in Limbs : Columns(x, r)[k] <= 113 * (LimbSize * LimbSize)
  BY <1>5, <1>7, <1>8, MulFits
<1>10. MulR(x, r) = Carry(Columns(x, r)) BY DEF MulR, Columns
<1> QED BY <1>5, <1>9, <1>10 DEF x

(***************************************************************************)
(* Blocks of a message.                                                    *)
(***************************************************************************)
Part(data, k) == SubSeq(data, (k - 1) * BlockLen + 1, k * BlockLen)
Whole(data) == Len(data) \div BlockLen

(* The whole blocks of x words, and less than a block more.                *)
LEMMA WholeBlocks ==
    ASSUME NEW x \in Nat
    PROVE  /\ x \div BlockLen \in Nat
           /\ (x \div BlockLen) * BlockLen \in Nat /\ (x \div BlockLen) * BlockLen <= x
           /\ x < (x \div BlockLen) * BlockLen + BlockLen
<1> DEFINE q == x \div BlockLen
<1>1. q \in Nat /\ x % BlockLen \in 0 .. BlockLen - 1 /\ x = BlockLen * q + (x % BlockLen)
  BY Widths
<1> HIDE DEF q
<1>2. BlockLen * q = q * BlockLen /\ q * BlockLen \in Nat BY <1>1, Widths
<1> QED BY <1>1, <1>2, Widths DEF q

(* No other number of blocks leaves less than a block.                     *)
LEMMA WholeUnique ==
    ASSUME NEW x \in Nat, NEW q \in Nat, q * BlockLen <= x, x < q * BlockLen + BlockLen
    PROVE  x \div BlockLen = q
<1> DEFINE p == x \div BlockLen
<1>1. p \in Nat /\ p * BlockLen \in Nat /\ p * BlockLen <= x /\ x < p * BlockLen + BlockLen
  BY WholeBlocks
<1> HIDE DEF p
<1>2. ASSUME NEW a \in Nat, NEW b \in Nat, a < b PROVE a * BlockLen + BlockLen <= b * BlockLen
  <2> DEFINE d == b - a - 1
  <2>1. d \in Nat /\ b = (a + 1) + d BY <1>2
  <2> HIDE DEF d
  <2>2. ((a + 1) + d) * BlockLen = (a + 1) * BlockLen + d * BlockLen BY <2>1, Widths, Distributes
  <2>3. (a + 1) * BlockLen = a * BlockLen + BlockLen BY Widths, Distributes
  <2>4. d * BlockLen \in Nat /\ a * BlockLen \in Nat BY <2>1, Widths
  <2> QED BY <2>1, <2>2, <2>3, <2>4, Widths
<1>3. q * BlockLen \in Nat BY Widths
<1>4. ~(p < q)
  <2> SUFFICES ASSUME p < q PROVE FALSE OBVIOUS
  <2>1. p * BlockLen + BlockLen <= q * BlockLen BY <1>1, <1>2
  <2> QED BY <1>1, <1>3, <2>1, Widths
<1>5. ~(q < p)
  <2> SUFFICES ASSUME q < p PROVE FALSE OBVIOUS
  <2>1. q * BlockLen + BlockLen <= p * BlockLen BY <1>1, <1>2
  <2> QED BY <1>1, <1>3, <2>1, Widths
<1> QED BY <1>1, <1>4, <1>5 DEF p

(* A whole block is inside the message.                                    *)
LEMMA PartBounds ==
    ASSUME NEW x \in Nat, NEW k \in 1 .. x \div BlockLen
    PROVE  /\ (k - 1) * BlockLen \in Nat /\ k * BlockLen \in Nat
           /\ k * BlockLen = (k - 1) * BlockLen + BlockLen /\ k * BlockLen <= x
<1>1. k - 1 \in Nat /\ k - 1 < x \div BlockLen /\ (k - 1) + 1 = k /\ BlockLen \in Nat \ {0}
  BY WholeBlocks, Widths
<1>2. k * BlockLen <= x /\ (k - 1) * BlockLen \in Nat /\ k * BlockLen \in Nat
  <2> DEFINE c == k - 1
  <2>1. c \in Nat /\ c < x \div BlockLen /\ c + 1 = k BY <1>1
  <2> HIDE DEF c
  <2>2. c * BlockLen \in Nat /\ (c + 1) * BlockLen \in Nat /\ (c + 1) * BlockLen <= x
    BY <1>1, <2>1, Multiples
  <2> QED BY <2>1, <2>2 DEF c
<1>3. ((k - 1) + 1) * BlockLen = (k - 1) * BlockLen + 1 * BlockLen BY <1>1, Distributes
<1> QED BY <1>1, <1>2, <1>3

(* A whole block has BlockLen words of the message.                        *)
LEMMA PartIsBlock ==
    ASSUME NEW data \in Seq(Word), NEW k \in 1 .. Whole(data)
    PROVE  /\ Part(data, k) \in WordBlock /\ Len(Part(data, k)) = BlockLen
           /\ Part(data, k) = [i \in 1 .. BlockLen |-> data[(k - 1) * BlockLen + i]]
<1> DEFINE lo == (k - 1) * BlockLen
           hi == k * BlockLen
<1>0. Len(data) \in Nat OBVIOUS
<1>1. lo \in Nat /\ hi \in Nat /\ hi = lo + BlockLen /\ hi <= Len(data)
  BY <1>0, PartBounds DEF Whole
<1> HIDE DEF lo, hi
<1>2. lo + 1 \in 1 .. Len(data) + 1 /\ hi \in (lo + 1) - 1 .. Len(data) BY <1>0, <1>1, Widths
<1>3. /\ SubSeq(data, lo + 1, hi) \in Seq(Word)
      /\ Len(SubSeq(data, lo + 1, hi)) = hi - (lo + 1) + 1
      /\ \A i \in 1 .. hi - (lo + 1) + 1 : SubSeq(data, lo + 1, hi)[i] = data[(lo + 1) + i - 1]
  BY <1>2, SubSeqProperties
<1>4. hi - (lo + 1) + 1 = BlockLen BY <1>1, Widths
<1> DEFINE s == SubSeq(data, lo + 1, hi)
<1>5. s \in Seq(Word) /\ Len(s) = BlockLen BY <1>3, <1>4
<1>6. \A i \in 1 .. BlockLen : s[i] = data[lo + i]
  <2> SUFFICES ASSUME NEW i \in 1 .. BlockLen PROVE s[i] = data[lo + i] OBVIOUS
  <2>1. (lo + 1) + i - 1 = lo + i BY <1>1, Widths
  <2> QED BY <1>3, <1>4, <2>1
<1> HIDE DEF s
<1>7. s \in [1 .. BlockLen -> Word] BY <1>5
<1>8. s = [i \in 1 .. BlockLen |-> data[lo + i]] BY <1>6, <1>7
<1> QED BY <1>5, <1>7, <1>8 DEF s, lo, hi, Part, WordBlock

(* The accumulator after each block: process_block, applied in turn.       *)
LEMMA AfterBlocksRuns ==
    ASSUME NEW h \in Vector, NEW data \in Seq(Word), NEW r \in Vector
    PROVE  LET A == AfterBlocks(h, data, r) IN
           /\ A \in [0 .. Whole(data) -> Vector] /\ A[0] = h
           /\ \A k \in 1 .. Whole(data) : A[k] = ProcessBlock(A[k - 1], Part(data, k), 1, r)
<1> DEFINE n == Whole(data)
           Step(v, k) == ProcessBlock(v, Part(data, k), 1, r)
           U == CHOOSE f : f = [k \in 0 .. n |-> IF k = 0 THEN h ELSE Step(f[k - 1], k)]
           W == [k \in 1 .. n |-> [v \in Vector |-> Step(v, k)]]
<1>1. AfterBlocks(h, data, r) = U BY DEF AfterBlocks, Part, Whole
<1>2. ASSUME NEW v \in Vector, NEW k \in 1 .. n PROVE Step(v, k) \in Vector
  <2>1. Part(data, k) \in WordBlock BY PartIsBlock
  <2> QED BY <2>1, ProcessBlockValue
<1>3. n \in Nat
  <2>1. Len(data) \in Nat OBVIOUS
  <2> QED BY <2>1, WholeBlocks DEF Whole
<1> HIDE DEF Step, n
<1>4. Steps(Vector, n, h, W) BY <1>2, <1>3 DEF Steps
<1>5. \A v \in Vector, k \in 1 .. n : W[k][v] = Step(v, k) OBVIOUS
<1> HIDE DEF W
<1>6. PICK f : Follows(Vector, n, h, W, f) BY <1>4, Recursion
<1>7. f = [k \in 0 .. n |-> IF k = 0 THEN h ELSE Step(f[k - 1], k)]
  <2>1. f \in [0 .. n -> Vector] /\ f[0] = h BY <1>6 DEF Follows
  <2>2. ASSUME NEW k \in 1 .. n PROVE f[k] = Step(f[k - 1], k)
    <3>1. f[k - 1] \in Vector BY <1>3, <2>1
    <3> QED BY <1>5, <1>6, <3>1 DEF Follows
  <2> QED BY <1>3, <2>1, <2>2
<1>8. U = [k \in 0 .. n |-> IF k = 0 THEN h ELSE Step(U[k - 1], k)] BY <1>7
<1> HIDE DEF U
<1>9. U = [k \in 0 .. n |-> U[k]] /\ U[0] = h /\ \A k \in 1 .. n : U[k] = Step(U[k - 1], k)
  BY <1>3, <1>8
<1>10. \A k \in 1 .. n : U[k - 1] \in Vector => U[k] = W[k][U[k - 1]] BY <1>5, <1>9
<1>11. Follows(Vector, n, h, W, U) BY <1>4, <1>9, <1>10, StaysIn
<1> QED BY <1>1, <1>9, <1>11 DEF Follows, Step, n

(* Accumulators stay in their bounds.                                      *)
LEMMA AfterBlocksFit ==
    ASSUME NEW h, Fits(h), NEW data \in Seq(Word), NEW r \in Key
    PROVE  \A k \in 0 .. Whole(data) : Fits(AfterBlocks(h, data, r)[k])
<1> DEFINE A == AfterBlocks(h, data, r)
           n == Whole(data)
           S == {k \in 0 .. n : Fits(A[k])}
<1>1. h \in Vector /\ r \in Vector BY KeyIsVector DEF Fits
<1>2. A[0] = h /\ \A k \in 1 .. n : A[k] = ProcessBlock(A[k - 1], Part(data, k), 1, r)
  BY <1>1, AfterBlocksRuns
<1>3. n \in Nat
  <2>1. Len(data) \in Nat OBVIOUS
  <2> QED BY <2>1, WholeBlocks DEF Whole
<1>7. \A k \in 1 .. n : Part(data, k) \in WordBlock BY PartIsBlock
<1> HIDE DEF A, n
<1>4. 0 \in S BY <1>2, <1>3
<1>5. ASSUME NEW k \in 0 .. n - 1, k \in S PROVE k + 1 \in S
  <2>1. k + 1 \in 1 .. n /\ (k + 1) - 1 = k /\ k + 1 \in 0 .. n BY <1>3
  <2>2. Fits(A[k]) BY <1>5
  <2>3. Part(data, k + 1) \in WordBlock BY <1>7, <2>1
  <2>4. A[k + 1] = ProcessBlock(A[k], Part(data, k + 1), 1, r) BY <1>2, <2>1
  <2>5. Fits(A[k + 1]) BY <2>2, <2>3, <2>4, ProcessBlockFits
  <2> QED BY <2>1, <2>5
<1> HIDE DEF S
<1>6. 0 .. n \subseteq S BY <1>3, <1>4, <1>5, UpTo
<1> QED BY <1>6 DEF S, n, A

(***************************************************************************)
(* The buffer: however a message is cut, the context is the same.          *)
(***************************************************************************)
LEMMA WholeShift ==
    ASSUME NEW n \in Nat, NEW x \in Nat
    PROVE  /\ n * BlockLen \in Nat
           /\ (n * BlockLen + x) \div BlockLen = n + x \div BlockLen
           /\ (n + x \div BlockLen) * BlockLen = n * BlockLen + (x \div BlockLen) * BlockLen
<1> DEFINE q == x \div BlockLen
<1>1. q \in Nat /\ q * BlockLen \in Nat /\ q * BlockLen <= x /\ x < q * BlockLen + BlockLen
  BY WholeBlocks
<1> HIDE DEF q
<1>2. (n + q) * BlockLen = n * BlockLen + q * BlockLen BY <1>1, Widths, Distributes
<1>3. n * BlockLen \in Nat BY Widths
<1>4. (n * BlockLen + x) \div BlockLen = n + q
  <2> DEFINE y == n * BlockLen + x
             p == n + q
  <2>1. y \in Nat /\ p \in Nat /\ p * BlockLen <= y /\ y < p * BlockLen + BlockLen
    BY <1>1, <1>2, <1>3, Widths
  <2> HIDE DEF y, p
  <2>2. y \div BlockLen = p BY <2>1, WholeUnique
  <2> QED BY <2>2 DEF y, p
<1> QED BY <1>2, <1>3, <1>4 DEF q

(* The words from m to n.                                                  *)
LEMMA PieceIs ==
    ASSUME NEW s \in Seq(Word), NEW m \in Nat, NEW n \in Nat, m <= n, n <= Len(s)
    PROVE  /\ SubSeq(s, m + 1, n) \in Seq(Word) /\ Len(SubSeq(s, m + 1, n)) = n - m
           /\ \A i \in 1 .. n - m : SubSeq(s, m + 1, n)[i] = s[m + i]
<1>1. \A i \in m + 1 .. n : s[i] \in Word OBVIOUS
<1>2. m + 1 \in Int /\ n \in Int OBVIOUS
<1>3. /\ SubSeq(s, m + 1, n) \in Seq(Word)
      /\ Len(SubSeq(s, m + 1, n)) = IF m + 1 <= n THEN n - (m + 1) + 1 ELSE 0
      /\ \A i \in 1 .. n - (m + 1) + 1 : SubSeq(s, m + 1, n)[i] = s[(m + 1) + i - 1]
  BY <1>1, <1>2, SubSeqProperties
<1>4. n - (m + 1) + 1 = n - m OBVIOUS
<1>5. \A i \in 1 .. n - m : (m + 1) + i - 1 = m + i OBVIOUS
<1>6. Len(SubSeq(s, m + 1, n)) = n - m BY <1>3
<1> QED BY <1>3, <1>4, <1>5, <1>6

Rest(data) == SubSeq(data, Whole(data) * BlockLen + 1, Len(data))

(* What is left after the whole blocks is less than a block.               *)
LEMMA RestIs ==
    ASSUME NEW data \in Seq(Word)
    PROVE  /\ Whole(data) \in Nat /\ Whole(data) * BlockLen \in Nat
           /\ Whole(data) * BlockLen <= Len(data) /\ Len(data) < Whole(data) * BlockLen + BlockLen
           /\ Rest(data) \in Seq(Word) /\ Len(Rest(data)) = Len(data) - Whole(data) * BlockLen
           /\ Len(Rest(data)) < BlockLen
           /\ \A i \in 1 .. Len(data) - Whole(data) * BlockLen :
                 Rest(data)[i] = data[Whole(data) * BlockLen + i]
<1>1. Len(data) \in Nat OBVIOUS
<1> DEFINE m == Whole(data) * BlockLen
<1>2. Whole(data) \in Nat /\ m \in Nat /\ m <= Len(data) /\ Len(data) < m + BlockLen
  BY <1>1, WholeBlocks DEF Whole
<1>3. Rest(data) = SubSeq(data, m + 1, Len(data)) BY DEF Rest
<1> HIDE DEF m
<1>4. /\ Rest(data) \in Seq(Word) /\ Len(Rest(data)) = Len(data) - m
      /\ \A i \in 1 .. Len(data) - m : Rest(data)[i] = data[m + i]
  BY <1>1, <1>2, <1>3, PieceIs
<1>5. Len(Rest(data)) < BlockLen BY <1>1, <1>2, <1>4, Widths
<1> QED BY <1>2, <1>4, <1>5 DEF m

(* A new context has accumulated nothing.                                  *)
LEMMA FreshFits == Fits(Fresh.h) /\ Fresh.h \in Vector /\ Fresh.buf = <<>> /\ Value(Fresh.h) = 0
<1>1. LimbSize \in Nat /\ 0 < LimbSize BY LimbAssumption
<1>2. Fresh.h = [i \in Limbs |-> 0] /\ Fresh.buf = <<>> BY DEF Fresh
<1>3. Fresh.h \in Vector BY <1>2 DEF Vector
<1>4. Fresh.h[0] = 0 /\ Fresh.h[1] = 0 /\ Fresh.h[2] = 0 /\ Fresh.h[3] = 0 /\ Fresh.h[4] = 0
  BY <1>2 DEF Limbs
<1>6. Fits(Fresh.h)
  <2>1. \A i \in Limbs \ {1} : Fresh.h[i] < LimbSize BY <1>1, <1>2
  <2>2. Fresh.h[1] <= 12 * LimbSize BY <1>1, <1>4
  <2> QED BY <1>3, <2>1, <2>2 DEF Fits
<1>7. LimbSize * 0 = 0 /\ 0 + 0 = 0 BY <1>1
<1>8. Value(Fresh.h) = 0 BY <1>4, <1>7 DEF Value
<1> QED BY <1>2, <1>3, <1>6, <1>8

(* The context after a message.                                            *)
Context(data, r) == [h |-> AfterBlocks(Fresh.h, data, r)[Whole(data)], buf |-> Rest(data)]

(* One call of update gives the context of its message.                    *)
LEMMA ContextOfOne ==
    ASSUME NEW data \in Seq(Word), NEW r
    PROVE  Update(Fresh, data, r) = Context(data, r)
<1>1. <<>> \o data = data BY ConcatEmptySeq
<1>2. Fresh.buf \o data = data BY <1>1, FreshFits
<1> QED BY <1>2 DEF Update, Context, Whole, Rest

(* A further call of update gives the context of both messages together:   *)
(* the words that the buffer kept come first (update).                     *)
LEMMA ContextGrows ==
    ASSUME NEW m \in Seq(Word), NEW d \in Seq(Word), NEW r \in Vector
    PROVE  Update(Context(m, r), d, r) = Context(m \o d, r)
<1> DEFINE w == m \o d
           n == Whole(m)
           off == n * BlockLen
           all == Rest(m) \o d
           k == Whole(all)
           N == Whole(w)
<1>1. w \in Seq(Word) /\ Len(w) = Len(m) + Len(d) /\ Len(m) \in Nat /\ Len(d) \in Nat
      /\ \A i \in 1 .. Len(w) : w[i] = IF i <= Len(m) THEN m[i] ELSE d[i - Len(m)]
  BY ConcatProperties
<1>2. /\ n \in Nat /\ off \in Nat /\ off <= Len(m) /\ Len(m) < off + BlockLen
      /\ Rest(m) \in Seq(Word) /\ Len(Rest(m)) = Len(m) - off
      /\ \A i \in 1 .. Len(m) - off : Rest(m)[i] = m[off + i]
  BY RestIs
<1> HIDE DEF off, n
<1>3. /\ all \in Seq(Word) /\ Len(all) = Len(Rest(m)) + Len(d)
      /\ \A i \in 1 .. Len(all) : all[i] = IF i <= Len(Rest(m)) THEN Rest(m)[i] ELSE d[i - Len(Rest(m))]
  <2> DEFINE x == Rest(m)
  <2>1. x \in Seq(Word) BY <1>2
  <2> HIDE DEF x
  <2>2. /\ x \o d \in Seq(Word) /\ Len(x \o d) = Len(x) + Len(d)
        /\ \A i \in 1 .. Len(x) + Len(d) : (x \o d)[i] = IF i <= Len(x) THEN x[i] ELSE d[i - Len(x)]
    BY <2>1, ConcatProperties
  <2>3. all = x \o d BY DEF x
  <2> HIDE DEF all
  <2> QED BY <2>2, <2>3 DEF x
<1> HIDE DEF w, all
<1>4. Len(all) \in Nat /\ Len(w) \in Nat /\ Len(w) = off + Len(all) BY <1>1, <1>2, <1>3
<1>5. \A i \in 1 .. Len(all) : all[i] = w[off + i]
  <2> SUFFICES ASSUME NEW i \in 1 .. Len(all) PROVE all[i] = w[off + i] OBVIOUS
  <2>1. CASE i <= Len(m) - off
    <3>1. i \in 1 .. Len(m) - off /\ off + i \in 1 .. Len(w) /\ off + i <= Len(m)
      BY <1>1, <1>2, <1>4, <2>1
    <3> QED BY <1>1, <1>2, <1>3, <2>1, <3>1
  <2>2. CASE ~(i <= Len(m) - off)
    <3>1. off + i \in 1 .. Len(w) /\ ~(off + i <= Len(m)) /\ (off + i) - Len(m) = i - (Len(m) - off)
      BY <1>1, <1>2, <1>4, <2>2
    <3> QED BY <1>1, <1>2, <1>3, <2>2, <3>1
  <2> QED BY <2>1, <2>2
<1>6. /\ k \in Nat /\ N = n + k /\ N \in Nat
      /\ (n + k) * BlockLen = off + k * BlockLen /\ k * BlockLen \in Nat
  <2>1. k \in Nat /\ k * BlockLen \in Nat BY <1>4, WholeBlocks DEF Whole
  <2>2. N = n + k /\ (n + k) * BlockLen = off + k * BlockLen
    BY <1>2, <1>4, WholeShift DEF Whole, off
  <2> QED BY <1>2, <2>1, <2>2
<1> HIDE DEF k, N
<1> DEFINE P1 == AfterBlocks(Fresh.h, m, r)
           P2 == AfterBlocks(P1[n], all, r)
           Q == AfterBlocks(Fresh.h, w, r)
<1>7. /\ P1 \in [0 .. n -> Vector] /\ P1[0] = Fresh.h
      /\ \A j \in 1 .. n : P1[j] = ProcessBlock(P1[j - 1], Part(m, j), 1, r)
  BY FreshFits, AfterBlocksRuns DEF n
<1>8. P1[n] \in Vector BY <1>2, <1>7
<1>9. /\ P2[0] = P1[n]
      /\ \A j \in 1 .. k : P2[j] = ProcessBlock(P2[j - 1], Part(all, j), 1, r)
  <2> HIDE DEF P1
  <2> QED BY <1>3, <1>8, AfterBlocksRuns DEF k
<1>10. /\ Q[0] = Fresh.h
       /\ \A j \in 1 .. N : Q[j] = ProcessBlock(Q[j - 1], Part(w, j), 1, r)
  BY <1>1, FreshFits, AfterBlocksRuns DEF N
<1>11. \A j \in 1 .. n : Part(m, j) = Part(w, j)
  <2> SUFFICES ASSUME NEW j \in 1 .. n PROVE Part(m, j) = Part(w, j) OBVIOUS
  <2>1. j \in 1 .. Whole(m) /\ j \in 1 .. Whole(w) BY <1>2, <1>6 DEF n, N
  <2>2. /\ Part(m, j) = [i \in 1 .. BlockLen |-> m[(j - 1) * BlockLen + i]]
        /\ Part(w, j) = [i \in 1 .. BlockLen |-> w[(j - 1) * BlockLen + i]]
    BY <1>1, <2>1, PartIsBlock
  <2>3. (j - 1) * BlockLen \in Nat /\ j * BlockLen = (j - 1) * BlockLen + BlockLen
        /\ j * BlockLen <= Len(m) /\ j * BlockLen \in Nat
    BY <1>1, <2>1, PartBounds DEF Whole
  <2> DEFINE lo == (j - 1) * BlockLen
  <2>4. \A i \in 1 .. BlockLen : m[lo + i] = w[lo + i]
    <3> SUFFICES ASSUME NEW i \in 1 .. BlockLen PROVE m[lo + i] = w[lo + i] OBVIOUS
    <3> HIDE DEF lo
    <3>1. lo + i \in 1 .. Len(w) /\ lo + i <= Len(m) BY <1>1, <2>3, Widths DEF lo
    <3> QED BY <1>1, <3>1
  <2> QED BY <2>2, <2>4
<1>12. \A j \in 1 .. k : Part(all, j) = Part(w, n + j)
  <2> SUFFICES ASSUME NEW j \in 1 .. k PROVE Part(all, j) = Part(w, n + j) OBVIOUS
  <2>1. j \in 1 .. Whole(all) /\ n + j \in 1 .. Whole(w) BY <1>2, <1>6 DEF k, N
  <2> DEFINE lo == (j - 1) * BlockLen
             hi == ((n + j) - 1) * BlockLen
  <2>2. /\ Part(all, j) = [i \in 1 .. BlockLen |-> all[lo + i]]
        /\ Part(w, n + j) = [i \in 1 .. BlockLen |-> w[hi + i]]
    BY <1>1, <1>3, <2>1, PartIsBlock
  <2>3. lo \in Nat /\ j * BlockLen = lo + BlockLen /\ j * BlockLen <= Len(all) /\ j * BlockLen \in Nat
    BY <1>4, <2>1, PartBounds DEF Whole
  <2>4. hi = off + lo
    <3>1. (n + j) - 1 = n + (j - 1) /\ j - 1 \in Nat BY <1>2, <1>6
    <3>2. (n + (j - 1)) * BlockLen = n * BlockLen + (j - 1) * BlockLen
      BY <1>2, <3>1, Widths, Distributes
    <3> QED BY <3>1, <3>2 DEF off
  <2> HIDE DEF lo, hi
  <2>5. \A i \in 1 .. BlockLen : all[lo + i] = w[hi + i]
    <3> SUFFICES ASSUME NEW i \in 1 .. BlockLen PROVE all[lo + i] = w[hi + i] OBVIOUS
    <3>1. lo + i \in 1 .. Len(all) /\ off + (lo + i) = hi + i BY <1>2, <1>4, <2>3, <2>4, Widths
    <3> QED BY <1>5, <3>1
  <2> QED BY <2>2, <2>5
<1> HIDE DEF P1, P2, Q
<1>13. \A j \in 0 .. n : Q[j] = P1[j]
  <2> DEFINE S == {j \in 0 .. n : Q[j] = P1[j]}
  <2>1. 0 \in S BY <1>2, <1>7, <1>10
  <2>2. ASSUME NEW j \in 0 .. n - 1, j \in S PROVE j + 1 \in S
    <3>1. j + 1 \in 1 .. n /\ (j + 1) - 1 = j /\ j + 1 \in 1 .. N /\ j + 1 \in 0 .. n BY <1>2, <1>6
    <3>2. Q[j] = P1[j] BY <2>2
    <3>3. Q[j + 1] = P1[j + 1] BY <1>7, <1>10, <1>11, <3>1, <3>2
    <3> QED BY <3>1, <3>3
  <2> HIDE DEF S
  <2>3. 0 .. n \subseteq S BY <1>2, <2>1, <2>2, UpTo
  <2> QED BY <2>3 DEF S
<1>14. \A j \in 0 .. k : Q[n + j] = P2[j]
  <2> DEFINE S == {j \in 0 .. k : Q[n + j] = P2[j]}
  <2>1. 0 \in S
    <3>1. n + 0 = n /\ n \in 0 .. n BY <1>2
    <3> QED BY <1>6, <1>9, <1>13, <3>1
  <2>2. ASSUME NEW j \in 0 .. k - 1, j \in S PROVE j + 1 \in S
    <3>1. /\ j + 1 \in 1 .. k /\ (j + 1) - 1 = j /\ n + (j + 1) \in 1 .. N /\ j + 1 \in 0 .. k
          /\ (n + (j + 1)) - 1 = n + j
      BY <1>2, <1>6
    <3>2. Q[n + j] = P2[j] BY <2>2
    <3>3. Q[n + (j + 1)] = P2[j + 1] BY <1>9, <1>10, <1>12, <3>1, <3>2
    <3> QED BY <3>1, <3>3
  <2> HIDE DEF S
  <2>3. 0 .. k \subseteq S BY <1>6, <2>1, <2>2, UpTo
  <2> QED BY <2>3 DEF S
<1>15. Q[N] = P2[k]
  <2>1. k \in 0 .. k BY <1>6
  <2> QED BY <1>6, <1>14, <2>1
<1>16. Rest(all) = Rest(w)
  <2> DEFINE a == k * BlockLen
             b == N * BlockLen
  <2>1. b = off + a /\ a \in Nat BY <1>6
  <2>2. /\ Rest(all) \in Seq(Word) /\ Len(Rest(all)) = Len(all) - a
        /\ \A i \in 1 .. Len(all) - a : Rest(all)[i] = all[a + i]
        /\ a <= Len(all)
    BY <1>3, RestIs DEF k
  <2>3. /\ Rest(w) \in Seq(Word) /\ Len(Rest(w)) = Len(w) - b
        /\ \A i \in 1 .. Len(w) - b : Rest(w)[i] = w[b + i]
    BY <1>1, RestIs DEF N
  <2> HIDE DEF a, b
  <2>4. Len(w) - b = Len(all) - a BY <1>2, <1>4, <2>1
  <2>5. \A i \in 1 .. Len(all) - a : Rest(all)[i] = Rest(w)[i]
    <3> SUFFICES ASSUME NEW i \in 1 .. Len(all) - a PROVE Rest(all)[i] = Rest(w)[i] OBVIOUS
    <3>1. a + i \in 1 .. Len(all) /\ off + (a + i) = b + i BY <1>2, <1>4, <2>1, <2>2
    <3> QED BY <1>5, <2>2, <2>3, <2>4, <3>1
  <2> QED BY <2>2, <2>3, <2>4, <2>5, SeqEqual
<1>17. Context(m, r) = [h |-> P1[n], buf |-> Rest(m)] BY DEF Context, P1, n
<1>18. Update(Context(m, r), d, r) = [h |-> P2[k], buf |-> Rest(all)]
  <2>1. Context(m, r).h = P1[n] /\ Context(m, r).buf \o d = all BY <1>17 DEF all
  <2> QED BY <2>1 DEF Update, P2, k, Whole, Rest
<1>19. Context(w, r) = [h |-> Q[N], buf |-> Rest(w)] BY DEF Context, Q, N
<1> QED BY <1>15, <1>16, <1>18, <1>19 DEF w

Blocks(msg) == (Len(msg) + BlockLen - 1) \div BlockLen

(* A message has its whole blocks, and one more for what is left.          *)
LEMMA BlocksIs ==
    ASSUME NEW msg \in Seq(Word)
    PROVE  Blocks(msg) = IF Rest(msg) = <<>> THEN Whole(msg) ELSE Whole(msg) + 1
<1> DEFINE q == Whole(msg)
           m == q * BlockLen
           x == Len(msg) + BlockLen - 1
<1>1. /\ q \in Nat /\ m \in Nat /\ m <= Len(msg) /\ Len(msg) < m + BlockLen /\ Len(msg) \in Nat
      /\ Rest(msg) \in Seq(Word) /\ Len(Rest(msg)) = Len(msg) - m
  BY RestIs
<1>2. (q + 1) * BlockLen = m + BlockLen BY <1>1, Widths, Distributes
<1> HIDE DEF q, m
<1>3. CASE Rest(msg) = <<>>
  <2>1. Len(Rest(msg)) = 0 BY <1>3
  <2>2. x \in Nat /\ m <= x /\ x < m + BlockLen BY <1>1, <2>1, Widths
  <2> HIDE DEF x
  <2>3. x \div BlockLen = q BY <1>1, <2>2, WholeUnique DEF m
  <2> QED BY <1>3, <2>3 DEF x, q, Blocks
<1>4. CASE Rest(msg) # <<>>
  <2>1. Len(Rest(msg)) # 0 BY <1>1, <1>4
  <2>2. x \in Nat /\ m + BlockLen <= x /\ x < (m + BlockLen) + BlockLen BY <1>1, <2>1, Widths
  <2> HIDE DEF x
  <2>3. q + 1 \in Nat BY <1>1
  <2>4. x \div BlockLen = q + 1 BY <1>2, <2>2, <2>3, WholeUnique
  <2> QED BY <1>4, <2>4 DEF x, q, Blocks
<1> QED BY <1>3, <1>4

(* What is left, padded, is a block.                                       *)
LEMMA PadIsBlock ==
    ASSUME NEW b \in Seq(Word)
    PROVE  PadBlock(b) \in WordBlock
<1>1. 0 \in Word /\ 1 \in Word BY Widths DEF Word
<1>2. \A i \in 1 .. BlockLen : i <= Len(b) => b[i] \in Word BY Widths
<1> QED BY <1>1, <1>2 DEF PadBlock, WordBlock

(* A whole block counts with the bit above it, the last one with its       *)
(* padding.                                                                *)
LEMMA CoefficientIs ==
    ASSUME NEW msg \in Seq(Word)
    PROVE  /\ \A k \in 1 .. Whole(msg) : Coefficient(msg, k) = Number(Part(msg, k)) + BlockSize
           /\ Rest(msg) # <<>> => Coefficient(msg, Whole(msg) + 1) = Number(PadBlock(Rest(msg)))
           /\ \A k \in 1 .. Blocks(msg) : Coefficient(msg, k) \in Nat
<1>0. Len(msg) \in Nat /\ Whole(msg) \in Nat BY RestIs
<1>1. ASSUME NEW k \in 1 .. Whole(msg)
      PROVE  /\ Coefficient(msg, k) = Number(Part(msg, k)) + BlockSize
             /\ Coefficient(msg, k) \in Nat
  <2>1. /\ (k - 1) * BlockLen \in Nat /\ k * BlockLen \in Nat
        /\ k * BlockLen = (k - 1) * BlockLen + BlockLen /\ k * BlockLen <= Len(msg)
    BY <1>0, PartBounds DEF Whole
  <2>2. Part(msg, k) \in WordBlock /\ Len(Part(msg, k)) = BlockLen BY PartIsBlock
  <2> DEFINE first == (k - 1) * BlockLen
             last  == IF first + BlockLen <= Len(msg) THEN first + BlockLen ELSE Len(msg)
             b == SubSeq(msg, first + 1, last)
  <2>3. last = k * BlockLen BY <2>1
  <2>4. b = Part(msg, k) BY <2>3 DEF Part
  <2>5. Coefficient(msg, k) =
           IF Len(b) = BlockLen THEN Number(b) + BlockSize ELSE Number(PadBlock(b))
    BY DEF Coefficient
  <2> HIDE DEF b
  <2>6. Coefficient(msg, k) = Number(Part(msg, k)) + BlockSize BY <2>2, <2>4, <2>5
  <2>7. Number(Part(msg, k)) \in Nat BY <2>2, NumberOfBlock DEF WordBlock
  <2> QED BY <2>6, <2>7, BlockSizeType
<1>2. ASSUME Rest(msg) # <<>>
      PROVE  /\ Coefficient(msg, Whole(msg) + 1) = Number(PadBlock(Rest(msg)))
             /\ Coefficient(msg, Whole(msg) + 1) \in Nat
  <2> DEFINE q == Whole(msg)
             k == q + 1
             first == (k - 1) * BlockLen
             last  == IF first + BlockLen <= Len(msg) THEN first + BlockLen ELSE Len(msg)
             b == SubSeq(msg, first + 1, last)
  <2>1. /\ q * BlockLen \in Nat /\ Len(msg) < q * BlockLen + BlockLen
        /\ Rest(msg) \in Seq(Word) /\ Len(Rest(msg)) < BlockLen
    BY RestIs
  <2>2. k - 1 = q BY <1>0
  <2>3. first = q * BlockLen BY <2>2
  <2>4. last = Len(msg) BY <1>0, <2>1, <2>3, Widths
  <2>5. b = Rest(msg) BY <2>3, <2>4 DEF Rest
  <2>6. Coefficient(msg, k) =
           IF Len(b) = BlockLen THEN Number(b) + BlockSize ELSE Number(PadBlock(b))
    BY DEF Coefficient
  <2> HIDE DEF b
  <2>7. Coefficient(msg, k) = Number(PadBlock(Rest(msg))) BY <2>1, <2>5, <2>6, Widths
  <2>8. PadBlock(Rest(msg)) \in WordBlock BY <2>1, PadIsBlock
  <2> QED BY <2>7, <2>8, NumberOfBlock DEF WordBlock
<1>3. ASSUME NEW k \in 1 .. Blocks(msg) PROVE Coefficient(msg, k) \in Nat
  <2>1. CASE k \in 1 .. Whole(msg) BY <1>1, <2>1
  <2>2. CASE k \notin 1 .. Whole(msg)
    <3>1. Rest(msg) # <<>> /\ k = Whole(msg) + 1 BY <1>0, <2>2, BlocksIs
    <3> QED BY <1>2, <3>1
  <2> QED BY <2>1, <2>2
<1> QED BY <1>1, <1>2, <1>3

(* Horner's rule.                                                          *)
LEMMA HornerIs ==
    ASSUME NEW msg \in Seq(Word), NEW r \in Vector
    PROVE  LET S == Horner(msg, r) IN
           /\ S \in [0 .. Blocks(msg) -> Nat] /\ S[0] = 0
           /\ \A k \in 1 .. Blocks(msg) :
                 S[k] = ((S[k - 1] + Coefficient(msg, k)) * Value(r)) % P
<1> DEFINE n == Blocks(msg)
           v == Value(r)
           Step(a, k) == TimesMod((a + Coefficient(msg, k)) % P, v)
           U == CHOOSE f : f = [k \in 0 .. n |-> IF k = 0 THEN 0 ELSE Step(f[k - 1], k)]
           W == [k \in 1 .. n |-> [a \in Nat |-> Step(a, k)]]
<1>1. Horner(msg, r) = U BY DEF Horner, Blocks
<1>2. v \in Nat BY ValueType
<1>3. n \in Nat
  <2>1. Whole(msg) \in Nat BY RestIs
  <2> QED BY <2>1, BlocksIs
<1>4. ASSUME NEW a \in Nat, NEW k \in 1 .. n
      PROVE  Step(a, k) = ((a + Coefficient(msg, k)) * v) % P /\ Step(a, k) \in Nat
  <2> DEFINE c == Coefficient(msg, k)
             e == a + c
             u == e % P
  <2>1. c \in Nat BY CoefficientIs
  <2>2. e \in Nat BY <2>1
  <2> HIDE DEF c, e, v
  <2>3. u \in Nat BY <2>2, Residue
  <2>4. TimesMod(u, v) = (u * v) % P
    <3> HIDE DEF u
    <3> QED BY <1>2, <2>3, TimesModIsProduct
  <2>5. (e * v) % P = (u * v) % P
    <3>1. ((e + 0) * v) % P = (((e % P) + 0) * v) % P BY <1>2, <2>2, ResidueOfProduct
    <3>2. e + 0 = e /\ u + 0 = u BY <2>2, <2>3
    <3> QED BY <3>1, <3>2
  <2>6. u * v \in Nat
    <3> HIDE DEF u
    <3> QED BY <1>2, <2>3
  <2>7. (u * v) % P \in Nat
    <3> DEFINE uv == u * v
    <3> HIDE DEF u
    <3>1. uv \in Nat BY <2>6
    <3> HIDE DEF uv
    <3>2. uv % P \in Nat BY <3>1, Residue
    <3> QED BY <3>2 DEF uv
  <2>8. Step(a, k) = TimesMod(u, v) BY DEF u, e, c
  <2> HIDE DEF Step, u
  <2> QED BY <2>4, <2>5, <2>7, <2>8 DEF e, c
<1> HIDE DEF Step, n, v
<1>5. Steps(Nat, n, 0, W) BY <1>3, <1>4 DEF Steps
<1>6. \A a \in Nat, k \in 1 .. n : W[k][a] = Step(a, k) OBVIOUS
<1> HIDE DEF W
<1>7. PICK f : Follows(Nat, n, 0, W, f) BY <1>5, Recursion
<1>8. f = [k \in 0 .. n |-> IF k = 0 THEN 0 ELSE Step(f[k - 1], k)]
  <2>1. f \in [0 .. n -> Nat] /\ f[0] = 0 BY <1>7 DEF Follows
  <2>2. ASSUME NEW k \in 1 .. n PROVE f[k] = Step(f[k - 1], k)
    <3>1. f[k - 1] \in Nat BY <1>3, <2>1
    <3> QED BY <1>6, <1>7, <3>1 DEF Follows
  <2> QED BY <1>3, <2>1, <2>2
<1>9. U = [k \in 0 .. n |-> IF k = 0 THEN 0 ELSE Step(U[k - 1], k)] BY <1>8
<1> HIDE DEF U
<1>10. U = [k \in 0 .. n |-> U[k]] /\ U[0] = 0 /\ \A k \in 1 .. n : U[k] = Step(U[k - 1], k)
  BY <1>3, <1>9
<1>11. \A k \in 1 .. n : U[k - 1] \in Nat => U[k] = W[k][U[k - 1]] BY <1>6, <1>10
<1>12. Follows(Nat, n, 0, W, U) BY <1>5, <1>10, <1>11, StaysIn
<1>13. U \in [0 .. n -> Nat] BY <1>12 DEF Follows
<1>14. \A k \in 1 .. n : U[k] = ((U[k - 1] + Coefficient(msg, k)) * v) % P
  <2> SUFFICES ASSUME NEW k \in 1 .. n
               PROVE  U[k] = ((U[k - 1] + Coefficient(msg, k)) * v) % P
    OBVIOUS
  <2>1. k - 1 \in 0 .. n BY <1>3
  <2>2. U[k - 1] \in Nat BY <1>13, <2>1
  <2>3. U[k] = Step(U[k - 1], k) BY <1>10
  <2> QED BY <1>4, <2>2, <2>3
<1> QED BY <1>1, <1>10, <1>13, <1>14 DEF n, v

(* process_block after a sum that is right modulo P.                       *)
LEMMA OneBlock ==
    ASSUME NEW h \in Vector, NEW b \in WordBlock, NEW hibit \in {0, 1}, NEW r \in Vector,
           NEW s \in Nat, Value(h) % P = s
    PROVE  Value(ProcessBlock(h, b, hibit, r)) % P =
              ((s + (Number(b) + BlockSize * hibit)) * Value(r)) % P
<1> DEFINE c == Number(b) + BlockSize * hibit
           a == Value(h)
           v == Value(r)
<1>1. a \in Nat /\ v \in Nat BY ValueType
<1>2. c \in Nat
  <2>1. Number(b) \in Nat BY NumberOfBlock DEF WordBlock
  <2>2. BlockSize * hibit \in Nat BY BlockSizeType
  <2> QED BY <2>1, <2>2
<1>3. Value(ProcessBlock(h, b, hibit, r)) % P = ((a + c) * v) % P BY ProcessBlockValue
<1>4. a % P = s OBVIOUS
<1> HIDE DEF a, c, v
<1>5. ((a + c) * v) % P = (((a % P) + c) * v) % P BY <1>1, <1>2, ResidueOfProduct
<1> QED BY <1>3, <1>4, <1>5 DEF c, v

(* After each whole block the accumulator is what Horner's rule gives.     *)
LEMMA AccumulatorIsHorner ==
    ASSUME NEW msg \in Seq(Word), NEW r \in Vector
    PROVE  \A k \in 0 .. Whole(msg) :
              /\ AfterBlocks(Fresh.h, msg, r)[k] \in Vector
              /\ Value(AfterBlocks(Fresh.h, msg, r)[k]) % P = Horner(msg, r)[k]
<1> DEFINE A == AfterBlocks(Fresh.h, msg, r)
           S == Horner(msg, r)
           n == Whole(msg)
           v == Value(r)
           G == {k \in 0 .. n : Value(A[k]) % P = S[k]}
<1>1. /\ A \in [0 .. n -> Vector] /\ A[0] = Fresh.h
      /\ \A k \in 1 .. n : A[k] = ProcessBlock(A[k - 1], Part(msg, k), 1, r)
  BY FreshFits, AfterBlocksRuns
<1>2. n \in Nat /\ 0 .. n \subseteq 0 .. Blocks(msg) /\ 1 .. n \subseteq 1 .. Blocks(msg)
  <2>1. Whole(msg) \in Nat BY RestIs
  <2> QED BY <2>1, BlocksIs
<1>3. /\ S[0] = 0 /\ \A k \in 0 .. n : S[k] \in Nat
      /\ \A k \in 1 .. n : S[k] = ((S[k - 1] + Coefficient(msg, k)) * v) % P
  <2> HIDE DEF n
  <2> QED BY <1>2, HornerIs
<1>4. \A k \in 1 .. n : /\ Part(msg, k) \in WordBlock
                        /\ Coefficient(msg, k) = Number(Part(msg, k)) + BlockSize * 1
  <2> SUFFICES ASSUME NEW k \in 1 .. n
               PROVE  /\ Part(msg, k) \in WordBlock
                      /\ Coefficient(msg, k) = Number(Part(msg, k)) + BlockSize * 1
    OBVIOUS
  <2>1. BlockSize * 1 = BlockSize BY BlockSizeType
  <2> QED BY <2>1, CoefficientIs, PartIsBlock
<1> HIDE DEF A, S, n, v
<1>5. 0 \in G
  <2>1. 0 % P = 0
    <3>1. (0 + P * 0) % P = 0 % P /\ P \in Nat /\ P > 0 BY SameResidue, PIsPositive
    <3> HIDE DEF P
    <3> QED BY <3>1
  <2> QED BY <1>1, <1>2, <1>3, <2>1, FreshFits
<1>6. ASSUME NEW k \in 0 .. n - 1, k \in G PROVE k + 1 \in G
  <2>1. k + 1 \in 1 .. n /\ (k + 1) - 1 = k /\ k + 1 \in 0 .. n /\ k \in 0 .. n BY <1>2
  <2>2. Value(A[k]) % P = S[k] BY <1>6
  <2>3. /\ A[k] \in Vector /\ S[k] \in Nat /\ Part(msg, k + 1) \in WordBlock
        /\ A[k + 1] = ProcessBlock(A[k], Part(msg, k + 1), 1, r)
    BY <1>1, <1>3, <1>4, <2>1
  <2>4. Value(A[k + 1]) % P = ((S[k] + (Number(Part(msg, k + 1)) + BlockSize * 1)) * v) % P
    BY <2>2, <2>3, OneBlock DEF v
  <2>5. S[k + 1] = ((S[k] + Coefficient(msg, k + 1)) * v) % P BY <1>3, <2>1
  <2>6. Coefficient(msg, k + 1) = Number(Part(msg, k + 1)) + BlockSize * 1 BY <1>4, <2>1
  <2>7. Value(A[k + 1]) % P = S[k + 1] BY <2>4, <2>5, <2>6
  <2> QED BY <2>1, <2>7
<1> HIDE DEF G
<1>7. 0 .. n \subseteq G BY <1>2, <1>5, <1>6, UpTo
<1> QED BY <1>1, <1>7 DEF G, A, S, n

(* What finalize reads.                                                    *)
LEMMA SettledIsPolynomial ==
    ASSUME NEW msg \in Seq(Word), NEW r \in Key
    PROVE  /\ Settled(Context(msg, r), r) \in [Limbs -> 0 .. LimbSize - 1]
           /\ Value(Settled(Context(msg, r), r)) % P = Polynomial(msg, r)
<1> DEFINE n == Whole(msg)
           A == AfterBlocks(Fresh.h, msg, r)
           S == Horner(msg, r)
           h == A[n]
           g == IF Rest(msg) = <<>> THEN h ELSE ProcessBlock(h, PadBlock(Rest(msg)), 0, r)
<1>1. r \in Vector BY KeyIsVector
<1>2. n \in 0 .. n /\ n \in Nat
  <2>1. Whole(msg) \in Nat BY RestIs
  <2> QED BY <2>1
<1>3. Fits(h) BY <1>2, FreshFits, AfterBlocksFit
<1>4. h \in Vector /\ Value(h) % P = S[n] BY <1>1, <1>2, AccumulatorIsHorner
<1>5. Polynomial(msg, r) = S[Blocks(msg)] BY DEF Polynomial, Blocks
<1>6. Settled(Context(msg, r), r) = PropagateCarry(g) BY DEF Settled, Context
<1> HIDE DEF h
<1>7. Fits(g) /\ Value(g) % P = S[Blocks(msg)]
  <2>1. CASE Rest(msg) = <<>> BY <1>3, <1>4, <2>1, BlocksIs
  <2>2. CASE Rest(msg) # <<>>
    <3> DEFINE b == PadBlock(Rest(msg))
               k == n + 1
    <3>1. g = ProcessBlock(h, b, 0, r) BY <2>2
    <3>2. b \in WordBlock BY RestIs, PadIsBlock
    <3>3. Blocks(msg) = k BY <2>2, BlocksIs
    <3>4. Coefficient(msg, k) = Number(b) BY <2>2, CoefficientIs
    <3> HIDE DEF b, g
    <3>5. Fits(g) BY <1>3, <3>1, <3>2, ProcessBlockFits
    <3>6. S[n] \in Nat /\ S[k] = ((S[n] + Coefficient(msg, k)) * Value(r)) % P
      <4>1. k \in 1 .. Blocks(msg) /\ n \in 0 .. Blocks(msg) /\ k - 1 = n
        <5> HIDE DEF n
        <5> QED BY <1>2, <3>3
      <4> HIDE DEF n, k
      <4> QED BY <1>1, <4>1, HornerIs
    <3>7. Value(g) % P = ((S[n] + (Number(b) + BlockSize * 0)) * Value(r)) % P
      <4> HIDE DEF S, n
      <4> QED BY <1>1, <1>4, <3>1, <3>2, <3>6, OneBlock
    <3>8. Number(b) + BlockSize * 0 = Number(b)
      <4>1. Number(b) \in Nat BY <3>2, NumberOfBlock DEF WordBlock
      <4> QED BY <4>1, BlockSizeType
    <3> QED BY <3>3, <3>4, <3>5, <3>6, <3>7, <3>8
  <2> QED BY <2>1, <2>2
<1> HIDE DEF g, S
<1>8. g \in Vector /\ (\A i \in Limbs \ {1} : g[i] < LimbSize) /\ g[1] < LimbSize * LimbSize
  <2>1. g \in Vector /\ (\A i \in Limbs \ {1} : g[i] < LimbSize) /\ g[1] <= 12 * LimbSize
    BY <1>7 DEF Fits
  <2>2. g[1] \in Nat BY <2>1 DEF Vector, Limbs
  <2>3. LimbSize \in Nat /\ 12 * LimbSize < LimbSize * LimbSize
    <3>1. LimbSize \in Nat /\ LimbSize >= 16 BY LimbAssumption
    <3> DEFINE d == LimbSize - 16
    <3>2. d \in Nat /\ LimbSize = 16 + d BY <3>1
    <3>3. (16 + d) * LimbSize = 16 * LimbSize + d * LimbSize /\ d * LimbSize \in Nat
      BY <3>1, <3>2, Distributes
    <3> HIDE DEF d
    <3>4. LimbSize * LimbSize = 16 * LimbSize + d * LimbSize BY <3>2, <3>3
    <3> QED BY <3>1, <3>3, <3>4
  <2>4. LimbSize * LimbSize \in Nat BY <2>3
  <2> QED BY <2>1, <2>2, <2>3, <2>4
<1>9. /\ PropagateCarry(g) \in [Limbs -> 0 .. LimbSize - 1]
      /\ Value(PropagateCarry(g)) % P = Value(g) % P
  BY <1>8, PropagateCarrySettles
<1> QED BY <1>5, <1>6, <1>7, <1>9

(* Two pieces of a message, one after the other.                           *)
LEMMA PiecesJoin ==
    ASSUME NEW s \in Seq(Word), NEW i \in 0 .. Len(s), NEW j \in i .. Len(s)
    PROVE  /\ SubSeq(s, 1, i) \in Seq(Word) /\ SubSeq(s, i + 1, j) \in Seq(Word)
           /\ SubSeq(s, 1, i) \o SubSeq(s, i + 1, j) = SubSeq(s, 1, j)
<1> DEFINE a == SubSeq(s, 1, i)
           b == SubSeq(s, i + 1, j)
           c == SubSeq(s, 1, j)
<1>0. Len(s) \in Nat /\ i \in Nat /\ j \in Nat /\ i <= j /\ j <= Len(s)
  <2>1. Len(s) \in Nat OBVIOUS
  <2> QED BY <2>1
<1>1. a \in Seq(Word) /\ Len(a) = i /\ \A k \in 1 .. i : a[k] = s[k]
  <2>1. /\ SubSeq(s, 0 + 1, i) \in Seq(Word) /\ Len(SubSeq(s, 0 + 1, i)) = i - 0
        /\ \A k \in 1 .. i - 0 : SubSeq(s, 0 + 1, i)[k] = s[0 + k]
    BY <1>0, PieceIs
  <2>2. 0 + 1 = 1 /\ i - 0 = i /\ \A k \in 1 .. i : 0 + k = k BY <1>0
  <2> QED BY <2>1, <2>2
<1>2. c \in Seq(Word) /\ Len(c) = j /\ \A k \in 1 .. j : c[k] = s[k]
  <2>1. /\ SubSeq(s, 0 + 1, j) \in Seq(Word) /\ Len(SubSeq(s, 0 + 1, j)) = j - 0
        /\ \A k \in 1 .. j - 0 : SubSeq(s, 0 + 1, j)[k] = s[0 + k]
    BY <1>0, PieceIs
  <2>2. 0 + 1 = 1 /\ j - 0 = j /\ \A k \in 1 .. j : 0 + k = k BY <1>0
  <2> QED BY <2>1, <2>2
<1>3. b \in Seq(Word) /\ Len(b) = j - i /\ \A k \in 1 .. j - i : b[k] = s[i + k]
  BY <1>0, PieceIs
<1> HIDE DEF a, b, c
<1>4. /\ a \o b \in Seq(Word) /\ Len(a \o b) = Len(a) + Len(b)
      /\ \A k \in 1 .. Len(a) + Len(b) : (a \o b)[k] = IF k <= Len(a) THEN a[k] ELSE b[k - Len(a)]
  BY <1>1, <1>3, ConcatProperties
<1> DEFINE x == a \o b
<1> HIDE DEF x
<1>5. x \in Seq(Word) /\ Len(x) = j
      /\ \A k \in 1 .. j : x[k] = IF k <= i THEN a[k] ELSE b[k - i]
  <2>1. Len(a) + Len(b) = j BY <1>0, <1>1, <1>3
  <2> QED BY <1>1, <1>4, <2>1 DEF x
<1>6. \A k \in 1 .. j : x[k] = c[k]
  <2> SUFFICES ASSUME NEW k \in 1 .. j PROVE x[k] = c[k] OBVIOUS
  <2>1. CASE k <= i
    <3>1. k \in 1 .. i BY <1>0, <2>1
    <3> QED BY <1>1, <1>2, <1>5, <2>1, <3>1
  <2>2. CASE ~(k <= i)
    <3>1. k - i \in 1 .. j - i /\ i + (k - i) = k BY <1>0, <2>2
    <3>2. b[k - i] = s[k] BY <1>3, <3>1
    <3> QED BY <1>2, <1>5, <2>2, <3>2
  <2> QED BY <2>1, <2>2
<1>7. x = c BY <1>2, <1>5, <1>6, SeqEqual
<1> QED BY <1>1, <1>3, <1>7 DEF x, a, b, c

(* However a message is cut into three calls of update.                    *)
LEMMA CutsAgree ==
    ASSUME NEW msg \in Seq(Word), NEW i \in 0 .. Len(msg), NEW j \in i .. Len(msg), NEW r \in Vector
    PROVE  /\ Update(Fresh, msg, r) = Context(msg, r)
           /\ Update(Update(Update(Fresh, SubSeq(msg, 1, i), r), SubSeq(msg, i + 1, j), r),
                     SubSeq(msg, j + 1, Len(msg)), r) = Context(msg, r)
<1> DEFINE n == Len(msg)
           a == SubSeq(msg, 1, i)
           b == SubSeq(msg, i + 1, j)
           ab == SubSeq(msg, 1, j)
           c == SubSeq(msg, j + 1, n)
<1>1. a \in Seq(Word) /\ b \in Seq(Word) /\ a \o b = ab BY PiecesJoin
<1>2. ab \in Seq(Word) /\ c \in Seq(Word) /\ ab \o c = SubSeq(msg, 1, n)
  <2>1. j \in 0 .. Len(msg) /\ n \in j .. Len(msg)
    <3>1. Len(msg) \in Nat OBVIOUS
    <3> QED BY <3>1
  <2> HIDE DEF n
  <2> QED BY <2>1, PiecesJoin
<1>3. SubSeq(msg, 1, n) = msg BY SubSeqFull
<1>4. Update(Fresh, msg, r) = Context(msg, r) BY ContextOfOne
<1>5. Update(Fresh, a, r) = Context(a, r) BY <1>1, ContextOfOne
<1> HIDE DEF a, b, ab, c
<1>6. Update(Context(a, r), b, r) = Context(ab, r)
  <2>1. Update(Context(a, r), b, r) = Context(a \o b, r) BY <1>1, ContextGrows
  <2> QED BY <1>1, <2>1
<1>7. Update(Context(ab, r), c, r) = Context(msg, r)
  <2>1. Update(Context(ab, r), c, r) = Context(ab \o c, r) BY <1>2, ContextGrows
  <2> QED BY <1>2, <1>3, <2>1
<1> QED BY <1>4, <1>5, <1>6, <1>7 DEF a, b, c

(* A limb on top of a number.                                              *)
LEMMA OnTop ==
    ASSUME NEW x \in 0 .. LimbSize - 1, NEW y \in Nat, NEW m \in Nat, y < m
    PROVE  x + LimbSize * y \in Nat /\ x + LimbSize * y < LimbSize * m
<1> DEFINE d == m - (y + 1)
<1>1. d \in Nat /\ m = (y + 1) + d OBVIOUS
<1> HIDE DEF d
<1>2. LimbSize * m = (LimbSize * y + LimbSize * 1) + LimbSize * d BY <1>1, Plus
<1>3. LimbSize * y \in Nat /\ LimbSize * d \in Nat /\ LimbSize \in Nat BY <1>1, Times, Widths
<1>4. LimbSize * 1 = LimbSize BY <1>3
<1> DEFINE u == LimbSize * y
           v == LimbSize * d
           w == LimbSize * m
<1> HIDE DEF u, v, w
<1>5. w = (u + LimbSize) + v /\ u \in Nat /\ v \in Nat BY <1>2, <1>3, <1>4 DEF u, v, w
<1>6. x + u \in Nat /\ x + u < w BY <1>3, <1>5
<1> QED BY <1>6 DEF u, w

(* Limbs that fit are a number below 2^130, which is P + 5.                *)
LEMMA ValueBelow ==
    ASSUME NEW h \in Key
    PROVE  Value(h) \in Nat /\ Value(h) < P + 5
<1> DEFINE y3 == h[3] + LimbSize * h[4]
           y2 == h[2] + LimbSize * y3
           y1 == h[1] + LimbSize * y2
           y0 == h[0] + LimbSize * y1
           m3 == LimbSize * LimbSize
           m2 == LimbSize * m3
           m1 == LimbSize * m2
           m0 == LimbSize * m1
<1>1. LimbSize \in Nat BY Widths
<1>2. /\ h[0] \in 0 .. LimbSize - 1 /\ h[1] \in 0 .. LimbSize - 1 /\ h[2] \in 0 .. LimbSize - 1
      /\ h[3] \in 0 .. LimbSize - 1 /\ h[4] \in 0 .. LimbSize - 1
  BY DEF Key, Limbs
<1>3. h[4] \in Nat /\ h[4] < LimbSize BY <1>1, <1>2
<1>4. y3 \in Nat /\ y3 < m3 BY <1>1, <1>2, <1>3, OnTop
<1>5. m3 \in Nat BY <1>1, Times
<1> HIDE DEF y3, m3
<1>6. y2 \in Nat /\ y2 < m2 /\ m2 \in Nat BY <1>2, <1>4, <1>5, OnTop, Times
<1> HIDE DEF y2, m2
<1>7. y1 \in Nat /\ y1 < m1 /\ m1 \in Nat BY <1>2, <1>6, OnTop, Times
<1> HIDE DEF y1, m1
<1>8. y0 \in Nat /\ y0 < m0 /\ m0 \in Nat BY <1>2, <1>7, OnTop, Times
<1>9. Value(h) = y0 BY DEF Value, y1, y2, y3
<1>10. P = m0 - 5 BY DEF P, m1, m2, m3
<1> HIDE DEF y0, m0
<1> QED BY <1>8, <1>9, <1>10

(* h_to_u128 leaves out what is above 2^128.                               *)
LEMMA ToBlockLeaves ==
    ASSUME NEW h \in Key
    PROVE  /\ ToBlock(h) \in Nat /\ BlockSize \in Nat \ {0}
           /\ \E q \in Nat : Value(h) = ToBlock(h) + BlockSize * q
<1> DEFINE q == h[4] \div HighBit
           Up(m) == LimbSize * m
           On(x, y) == x + LimbSize * y
           Leaves(w, y, m) == w = y + m * q
<1>1. h[0] \in Nat /\ h[1] \in Nat /\ h[2] \in Nat /\ h[3] \in Nat /\ h[4] \in Nat
  BY Widths DEF Key, Limbs
<1>2. HighBit \in Nat /\ HighBit > 0 BY Widths DEF HighBit
<1>3. h[4] % HighBit \in Nat /\ q \in Nat /\ Leaves(h[4], h[4] % HighBit, HighBit)
  <2> DEFINE n == h[4]
  <2>1. n \in Nat BY <1>1
  <2> HIDE DEF n
  <2>2. n % HighBit \in Nat /\ n \div HighBit \in Nat /\ n = (n % HighBit) + HighBit * (n \div HighBit)
    BY <1>2, <2>1
  <2> QED BY <2>2 DEF n
<1> HIDE DEF q
<1>4. ASSUME NEW x \in Nat, NEW y \in Nat, NEW m \in Nat, NEW w, Leaves(w, y, m)
      PROVE  On(x, y) \in Nat /\ Up(m) \in Nat /\ Leaves(On(x, w), On(x, y), Up(m))
  <2>1. LimbSize \in Nat /\ m * q \in Nat BY <1>3, Widths
  <2>2. LimbSize * y \in Nat /\ LimbSize * m \in Nat /\ LimbSize * (m * q) \in Nat BY <2>1, Times
  <2>3. LimbSize * (y + m * q) = LimbSize * y + LimbSize * (m * q) BY <2>1, Plus
  <2>4. LimbSize * (m * q) = (LimbSize * m) * q BY <1>3, <2>1
  <2> DEFINE a == LimbSize * y
             b == LimbSize * (m * q)
             c == LimbSize * (y + m * q)
  <2> HIDE DEF a, b, c
  <2>5. a \in Nat /\ b \in Nat /\ c = a + b BY <2>2, <2>3 DEF a, b, c
  <2>6. x + a \in Nat /\ x + c = (x + a) + b BY <2>5
  <2> QED BY <1>4, <2>2, <2>4, <2>6 DEF a, b, c
<1> DEFINE t == On(h[0], On(h[1], On(h[2], On(h[3], h[4] % HighBit))))
           v == On(h[0], On(h[1], On(h[2], On(h[3], h[4]))))
           top == Up(Up(Up(Up(HighBit))))
<1>5. ToBlock(h) = t BY DEF ToBlock
<1>6. Value(h) = v BY DEF Value
<1>7. BlockSize = top BY DEF BlockSize
<1> HIDE DEF On, Up, Leaves
<1>8. t \in Nat /\ Leaves(v, t, top)
  <2> DEFINE t3 == On(h[3], h[4] % HighBit)
             v3 == On(h[3], h[4])
             t2 == On(h[2], t3)
             v2 == On(h[2], v3)
             t1 == On(h[1], t2)
             v1 == On(h[1], v2)
  <2>1. t3 \in Nat /\ Up(HighBit) \in Nat /\ Leaves(v3, t3, Up(HighBit))
    BY <1>1, <1>2, <1>3, <1>4
  <2> HIDE DEF t3, v3
  <2>2. t2 \in Nat /\ Up(Up(HighBit)) \in Nat /\ Leaves(v2, t2, Up(Up(HighBit)))
    BY <1>1, <2>1, <1>4
  <2> HIDE DEF t2, v2
  <2>3. t1 \in Nat /\ Up(Up(Up(HighBit))) \in Nat /\ Leaves(v1, t1, Up(Up(Up(HighBit))))
    BY <1>1, <2>2, <1>4
  <2> HIDE DEF t1, v1
  <2>4. On(h[0], t1) \in Nat /\ Leaves(On(h[0], v1), On(h[0], t1), top)
    BY <1>1, <2>3, <1>4
  <2> QED BY <2>4 DEF t1, t2, t3, v1, v2, v3
<1>9. Value(h) = ToBlock(h) + BlockSize * q
  <2> HIDE DEF t, v, top
  <2>1. v = t + top * q BY <1>8 DEF Leaves
  <2> QED BY <1>5, <1>6, <1>7, <2>1
<1>10. BlockSize \in Nat \ {0}
  <2> DEFINE b == [i \in 1 .. BlockLen |-> 0]
  <2>1. b \in WordBlock BY Widths DEF WordBlock, Word
  <2> HIDE DEF b
  <2>2. Number(b) \in Nat /\ Number(b) < BlockSize BY <2>1, NumberOfBlock DEF WordBlock
  <2> QED BY <2>2, BlockSizeType
<1> HIDE DEF t
<1> QED BY <1>3, <1>5, <1>8, <1>9, <1>10

(* A number below P + 5 is its residue, or that and P.                     *)
LEMMA OnceOver ==
    ASSUME NEW v \in Nat, v < P + 5
    PROVE  v \in {v % P, (v % P) + P}
<1> DEFINE p == v % P
<1>1. PICK q \in Nat : v = p + P * q BY Residue
<1>2. p \in Nat BY Residue
<1>3. P \in Nat /\ P > 5 BY PIsPositive
<1> HIDE DEF p
<1>4. CASE q = 0 BY <1>1, <1>2, <1>3, <1>4 DEF p
<1>5. CASE q = 1 BY <1>1, <1>2, <1>3, <1>5 DEF p
<1>6. CASE q > 1
  <2> DEFINE d == q - 2
             e == P * d
  <2>1. d \in Nat /\ q = 2 + d BY <1>6
  <2> HIDE DEF d
  <2>2. P * (2 + d) = 2 * P + P * d /\ P * d \in Nat BY <1>3, <2>1
  <2> HIDE DEF e
  <2>3. v = p + (2 * P + e) /\ e \in Nat BY <1>1, <2>1, <2>2 DEF e
  <2> QED BY <1>2, <1>3, <2>3
<1> QED BY <1>4, <1>5, <1>6

(* The tag is the number in the limbs and s, modulo 2^128.                 *)
LEMMA TagOfLimbs ==
    ASSUME NEW h \in Key, NEW s \in Nat
    PROVE  (ToBlock(h) + s) % BlockSize = (Value(h) + s) % BlockSize
<1>1. ToBlock(h) \in Nat /\ BlockSize \in Nat \ {0} BY ToBlockLeaves
<1>2. PICK q \in Nat : Value(h) = ToBlock(h) + BlockSize * q BY ToBlockLeaves
<1> DEFINE t == ToBlock(h)
           b == BlockSize
           e == b * q
<1>3. e \in Nat BY <1>1
<1> HIDE DEF t, b, e
<1>4. Value(h) + s = (t + s) + e
  <2>1. Value(h) = t + e BY <1>2 DEF t, b, e
  <2> QED BY <1>1, <1>3, <2>1 DEF t
<1>5. ((t + s) + b * q) % b = (t + s) % b
  <2>1. t + s \in Nat /\ b \in Nat \ {0} BY <1>1 DEF t, b
  <2> QED BY <2>1, SameRemainder
<1> QED BY <1>4, <1>5 DEF t, b, e

(* The MAC of every message, under every key: finalize reads limbs that    *)
(* fit, they are the polynomial p of the message in r modulo 2^130 - 5, or *)
(* p + 2^130 - 5, which finalize does not subtract, and the tag is that    *)
(* number and s modulo 2^128; also when the message comes in three calls   *)
(* of update instead of the one of mac (update, finalize, mac).            *)
THEOREM MacIsPolynomial ==
    ASSUME NEW msg \in Seq(Word), NEW r \in Key, NEW i \in 0 .. Len(msg), NEW j \in i .. Len(msg),
           NEW s \in Nat
    PROVE  LET first == Update(Fresh, SubSeq(msg, 1, i), r)
               cut == Update(Update(first, SubSeq(msg, i + 1, j), r), After(msg, j), r)
               h == Settled(cut, r)
               p == Polynomial(msg, r)
           IN  /\ \A k \in Limbs : h[k] < LimbSize
               /\ Value(h) \in {p, p + P}
               /\ Finalize(cut, r, s) = (Value(h) + s) % BlockSize
               /\ Mac(r, s, msg) = Finalize(cut, r, s)
<1> DEFINE first == Update(Fresh, SubSeq(msg, 1, i), r)
           cut == Update(Update(first, SubSeq(msg, i + 1, j), r), After(msg, j), r)
           h == Settled(cut, r)
<1>1. r \in Vector BY KeyIsVector
<1>2. cut = Context(msg, r) /\ Update(Fresh, msg, r) = Context(msg, r)
  BY <1>1, CutsAgree DEF After
<1> HIDE DEF cut
<1>3. h \in Key /\ Value(h) % P = Polynomial(msg, r)
  BY <1>2, SettledIsPolynomial DEF Key
<1>4. Finalize(cut, r, s) = (ToBlock(h) + s) % BlockSize BY DEF Finalize
<1>5. Mac(r, s, msg) = Finalize(cut, r, s) BY <1>2 DEF Mac
<1> HIDE DEF h
<1>6. \A k \in Limbs : h[k] < LimbSize BY <1>3, LimbAssumption DEF Key
<1>7. Value(h) \in {Polynomial(msg, r), Polynomial(msg, r) + P}
  <2> DEFINE v == Value(h)
  <2>1. v \in Nat /\ v < P + 5 BY <1>3, ValueBelow
  <2> HIDE DEF v
  <2>2. v \in {v % P, (v % P) + P} BY <2>1, OnceOver
  <2> QED BY <1>3, <2>2 DEF v
<1>8. Finalize(cut, r, s) = (Value(h) + s) % BlockSize BY <1>3, <1>4, TagOfLimbs
<1> QED BY <1>5, <1>6, <1>7, <1>8 DEF h, cut

HeaderOf(ct) == [ctype |-> Data, sid |-> Session.sid, off |-> KeyOffset, len |-> Len(ct)]

(* What A has said last.                                                   *)
SealedIsSaid ==
    sealed # None =>
        \E ct \in Payloads, k \in MacKeys : sealed = [key |-> k, ct |-> ct, hdr |-> HeaderOf(ct)]

(* What is sealed is what a call of Say sealed (seal).                     *)
THEOREM SaidInv == Spec => []SealedIsSaid
<1>1. Init => SealedIsSaid BY DEF Init, SealedIsSaid
<1>2. SealedIsSaid /\ [Next]_vars => SealedIsSaid'
  <2> SUFFICES ASSUME SealedIsSaid, [Next]_vars PROVE SealedIsSaid' OBVIOUS
  <2>1. CASE Say
    <3>1. PICK ct \in Payloads, k \in MacKeys :
             sealed' = [key |-> k, ct |-> ct, hdr |-> HeaderOf(ct)]
      BY <2>1 DEF Say, HeaderOf
    <3> QED BY <3>1 DEF SealedIsSaid
  <2>2. CASE Drop BY <2>2 DEF Drop, SealedIsSaid, None
  <2>3. CASE UNCHANGED sealed BY <2>3 DEF SealedIsSaid, None
  <2>4. [Next]_vars => Say \/ Drop \/ UNCHANGED sealed
    BY DEF Next, vars, nodeVars, Distribute, AskArp, Pass, Tamper, ReceiveArp, ReceiveRecord
  <2> QED BY <2>1, <2>2, <2>3, <2>4
<1> QED BY <1>1, <1>2, PTL DEF Spec

(* A record's header and ciphertext are words.                             *)
LEMMA SaidIsWords ==
    ASSUME NEW ct \in Payloads, NEW k
    PROVE  Authenticated([key |-> k, ct |-> ct, hdr |-> HeaderOf(ct)]) \in Seq(Word)
<1> DEFINE x == [key |-> k, ct |-> ct, hdr |-> HeaderOf(ct)]
           low == <<Data * 2 + QtlsVersion, Session.sid>>
           top == <<Len(ct)>>
<1>1. Word = 0 .. MaxWord /\ WordSize >= 64 /\ WordSize \in Nat BY Widths, WireAssumption DEF Word, MaxWord
<1>2. ct \in Seq(Word) /\ Len(ct) <= MaxWord
  <2>1. ct \in Seq(0 .. MaxWord) /\ Ipv4HdrLen + UdpHdrLen + RecordHdrLen + Len(ct) + TagLen <= MaxWord
    BY WireAssumption
  <2>2. Len(ct) \in Nat BY <2>1
  <2>3. Ipv4HdrLen + UdpHdrLen + RecordHdrLen + Len(ct) + BlockLen <= MaxWord BY <2>1 DEF TagLen
  <2>4. Len(ct) <= MaxWord
    BY <1>1, <2>2, <2>3, Widths DEF Ipv4HdrLen, UdpHdrLen, RecordHdrLen, MaxWord
  <2> QED BY <1>1, <2>1, <2>4
<1>3. low \in Seq(Word) /\ KeyOffset \in Seq(Word)
  <2>1. Data * 2 + QtlsVersion \in Word /\ Session.sid \in Word BY <1>1 DEF Data, QtlsVersion, Session, Word
  <2>2. 0 \in Word /\ 5 \in Word BY <1>1 DEF Word
  <2> QED BY <2>1, <2>2 DEF KeyOffset
<1>4. top \in Seq(Word)
  <2>1. Len(ct) \in Word BY <1>1, <1>2
  <2> QED BY <2>1
<1>5. Authenticated(x) = ((low \o KeyOffset) \o top) \o ct
  BY DEF Authenticated, RecordWrite, HeaderOf
<1> HIDE DEF low, top, x
<1>6. low \o KeyOffset \in Seq(Word) BY <1>3
<1>7. (low \o KeyOffset) \o top \in Seq(Word) BY <1>4, <1>6
<1>8. ((low \o KeyOffset) \o top) \o ct \in Seq(Word) BY <1>2, <1>7
<1> QED BY <1>5, <1>8 DEF x

(* So the tag of what A said is made of the polynomial.                    *)
LEMMA SaidGivesPolynomial == SealedIsSaid => TagIsPolynomial
<1> SUFFICES ASSUME SealedIsSaid, sealed # None, ~carried PROVE TagIsPolynomial
  BY DEF TagIsPolynomial
<1> DEFINE rec == Authenticated(sealed)
           r == sealed.key.r
           s == sealed.key.s
<1>1. PICK ct \in Payloads, k \in MacKeys : sealed = [key |-> k, ct |-> ct, hdr |-> HeaderOf(ct)]
  BY DEF SealedIsSaid
<1>2. rec \in Seq(Word) BY <1>1, SaidIsWords
<1>3. r \in Key /\ s \in Nat
  <2>1. k \in [r : [Limbs -> 0 .. LimbSize - 1], s : Nat] BY WireAssumption
  <2> QED BY <1>1, <2>1 DEF Key
<1>4. Tag(sealed.key, rec) = Mac(r, s, rec) BY DEF Tag
<1> HIDE DEF rec, r, s
<1>5. ASSUME NEW i \in 0 .. Len(rec), NEW j \in i .. Len(rec)
      PROVE  LET first == Update(Fresh, SubSeq(rec, 1, i), r)
                 cut == Update(Update(first, SubSeq(rec, i + 1, j), r), After(rec, j), r)
                 h == Settled(cut, r)
                 p == Polynomial(rec, r)
             IN  /\ \A c \in Limbs : h[c] < LimbSize
                 /\ Value(h) \in {p, p + P}
                 /\ Finalize(cut, r, s) = (Value(h) + s) % BlockSize
                 /\ Tag(sealed.key, rec) = Finalize(cut, r, s)
  BY <1>2, <1>3, <1>4, MacIsPolynomial
<1> QED BY <1>5 DEF TagIsPolynomial, rec, r, s

(* The tag of every record that A seals is made of the polynomial p of its *)
(* header and its ciphertext in r and of s, as TagIsPolynomial says: of p, *)
(* or of p + P, which finalize does not reduce (seal, uhf: update,         *)
(* process_block, mul_r, propagate_carry, finalize).                       *)
THEOREM TagsArePolynomials == Spec => []TagIsPolynomial
BY SaidInv, SaidGivesPolynomial, PTL

(***************************************************************************)
(* Checksums.                                                              *)
(***************************************************************************)

(* Sum is the running total of the words.                                *)
LEMMA SumRuns ==
    ASSUME NEW p \in Seq(Nat)
    PROVE  \E f \in [0 .. Len(p) -> Nat] :
              /\ f[0] = 0 /\ \A i \in 1 .. Len(p) : f[i] = f[i - 1] + p[i]
              /\ Sum(p) = f[Len(p)]
<1> DEFINE n == Len(p)
           Step(v, i) == v + p[i]
           U == CHOOSE f : f = [i \in 0 .. n |-> IF i = 0 THEN 0 ELSE Step(f[i - 1], i)]
           G == [i \in 1 .. n |-> [v \in Nat |-> Step(v, i)]]
<1>0. n \in Nat OBVIOUS
<1>1. ASSUME NEW v \in Nat, NEW i \in 1 .. n PROVE Step(v, i) \in Nat
  <2>1. p[i] \in Nat OBVIOUS
  <2> QED BY <2>1
<1>2. Sum(p) = U[n] BY DEF Sum
<1> HIDE DEF Step, n
<1>3. Steps(Nat, n, 0, G) BY <1>0, <1>1 DEF Steps
<1>4. \A v \in Nat, i \in 1 .. n : G[i][v] = Step(v, i) OBVIOUS
<1> HIDE DEF G
<1>5. PICK f : Follows(Nat, n, 0, G, f) BY <1>3, Recursion
<1>6. f = [i \in 0 .. n |-> IF i = 0 THEN 0 ELSE Step(f[i - 1], i)]
  <2>1. f \in [0 .. n -> Nat] /\ f[0] = 0 BY <1>5 DEF Follows
  <2>2. ASSUME NEW i \in 1 .. n PROVE f[i] = Step(f[i - 1], i)
    <3>1. f[i - 1] \in Nat BY <1>0, <2>1
    <3> QED BY <1>4, <1>5, <3>1 DEF Follows
  <2> QED BY <1>0, <2>1, <2>2
<1>7. U = [i \in 0 .. n |-> IF i = 0 THEN 0 ELSE Step(U[i - 1], i)] BY <1>6
<1> HIDE DEF U
<1>8. U = [i \in 0 .. n |-> U[i]] /\ U[0] = 0 /\ \A i \in 1 .. n : U[i] = Step(U[i - 1], i)
  BY <1>0, <1>7
<1>9. \A i \in 1 .. n : U[i - 1] \in Nat => U[i] = G[i][U[i - 1]] BY <1>4, <1>8
<1>10. Follows(Nat, n, 0, G, U) BY <1>3, <1>8, <1>9, StaysIn
<1>11. U \in [0 .. n -> Nat] BY <1>10 DEF Follows
<1>12. \A i \in 1 .. n : U[i] = U[i - 1] + p[i] BY <1>8 DEF Step
<1> QED BY <1>2, <1>8, <1>11, <1>12 DEF n

(* A sum of n words is at most n times the largest.                      *)
LEMMA SumBounds ==
    ASSUME NEW p \in Seq(Word)
    PROVE  Sum(p) \in Nat /\ Sum(p) <= Len(p) * MaxWord
<1>0. MaxWord \in Nat /\ Word = 0 .. MaxWord BY Widths DEF MaxWord, Word
<1>1. p \in Seq(Nat) BY <1>0
<1> DEFINE n == Len(p)
<1>2. n \in Nat OBVIOUS
<1>3. PICK f \in [0 .. n -> Nat] :
         /\ f[0] = 0 /\ \A i \in 1 .. n : f[i] = f[i - 1] + p[i]
         /\ Sum(p) = f[n]
  BY <1>1, SumRuns
<1>4. \A i \in 1 .. n : p[i] \in Word OBVIOUS
<1> HIDE DEF n
<1> DEFINE S == {i \in 0 .. n : f[i] <= i * MaxWord}
<1>5. 0 \in S
  <2>1. 0 * MaxWord = 0 BY <1>0
  <2> QED BY <1>2, <1>3, <2>1
<1>6. ASSUME NEW i \in 0 .. n - 1, i \in S PROVE i + 1 \in S
  <2>1. i + 1 \in 1 .. n /\ i + 1 \in 0 .. n /\ (i + 1) - 1 = i /\ i \in 0 .. n /\ i \in Nat BY <1>2
  <2>2. f[i + 1] = f[i] + p[i + 1] /\ f[i] \in Nat BY <1>3, <2>1
  <2>3. p[i + 1] \in Nat /\ p[i + 1] <= MaxWord BY <1>0, <1>4, <2>1
  <2>4. (i + 1) * MaxWord = i * MaxWord + MaxWord /\ i * MaxWord \in Nat BY <1>0, <2>1, Distributes
  <2>5. f[i] <= i * MaxWord BY <1>6
  <2>6. f[i + 1] <= (i + 1) * MaxWord BY <1>0, <2>2, <2>3, <2>4, <2>5
  <2> QED BY <2>1, <2>6
<1> HIDE DEF S
<1>7. 0 .. n \subseteq S BY <1>2, <1>5, <1>6, UpTo
<1>8. n \in S /\ n \in 0 .. n BY <1>2, <1>7
<1> QED BY <1>3, <1>8 DEF S, n

(* A word put where there was 0 adds itself to the sum.                    *)
LEMMA SumChanges ==
    ASSUME NEW p \in Seq(Nat), NEW q \in Seq(Nat), Len(p) = Len(q),
           NEW j \in 1 .. Len(p), p[j] = 0, \A i \in 1 .. Len(p) : i # j => p[i] = q[i]
    PROVE  Sum(q) = Sum(p) + q[j] /\ Sum(p) \in Nat
<1> DEFINE n == Len(p)
           w == q[j]
<1>2. n \in Nat /\ j \in 1 .. n /\ w \in Nat OBVIOUS
<1>3. PICK f \in [0 .. n -> Nat] :
         /\ f[0] = 0 /\ \A i \in 1 .. n : f[i] = f[i - 1] + p[i]
         /\ Sum(p) = f[n]
  BY SumRuns
<1>4. PICK g \in [0 .. n -> Nat] :
         /\ g[0] = 0 /\ \A i \in 1 .. n : g[i] = g[i - 1] + q[i]
         /\ Sum(q) = g[n]
  <2>1. \E g \in [0 .. Len(q) -> Nat] :
           /\ g[0] = 0 /\ \A i \in 1 .. Len(q) : g[i] = g[i - 1] + q[i]
           /\ Sum(q) = g[Len(q)]
    BY SumRuns
  <2>2. Len(q) = n OBVIOUS
  <2> HIDE DEF n
  <2> QED BY ONLY <2>1, <2>2
<1>5. \A i \in 1 .. n : p[i] \in Nat /\ q[i] \in Nat OBVIOUS
<1>6. p[j] = 0 /\ q[j] = w /\ \A i \in 1 .. n : i # j => p[i] = q[i] OBVIOUS
<1> HIDE DEF n, w
<1> DEFINE S == {i \in 0 .. n : g[i] = f[i] + (IF i >= j THEN w ELSE 0)}
<1>7. 0 \in S BY <1>2, <1>3, <1>4
<1>8. ASSUME NEW i \in 0 .. n - 1, i \in S PROVE i + 1 \in S
  <2>1. i + 1 \in 1 .. n /\ i + 1 \in 0 .. n /\ (i + 1) - 1 = i /\ i \in 0 .. n /\ i \in Nat BY <1>2
  <2>2. /\ f[i + 1] = f[i] + p[i + 1] /\ f[i] \in Nat
        /\ g[i + 1] = g[i] + q[i + 1] /\ g[i] \in Nat
    BY <1>3, <1>4, <2>1
  <2>3. p[i + 1] \in Nat /\ q[i + 1] \in Nat BY <1>5, <2>1
  <2>4. g[i] = f[i] + (IF i >= j THEN w ELSE 0) BY <1>8
  <2>5. CASE i + 1 = j
    <3>1. ~(i >= j) /\ i + 1 >= j
      <4>1. i \in Nat /\ i < i + 1 BY <2>1
      <4> QED BY ONLY <2>5, <4>1
    <3>2. p[i + 1] = 0 /\ q[i + 1] = w BY <1>6, <2>5
    <3>3. g[i] = f[i] BY ONLY <2>2, <2>4, <3>1
    <3>4. g[i + 1] = f[i + 1] + w BY ONLY <1>2, <2>2, <3>2, <3>3
    <3> QED BY <2>1, <3>1, <3>4
  <2>6. CASE i + 1 # j
    <3>0. p[i + 1] = q[i + 1] BY <1>6, <2>1, <2>6
    <3>1. i >= j <=> i + 1 >= j
      <4>1. i \in Nat /\ j \in Nat BY <1>2, <2>1
      <4> QED BY ONLY <2>6, <4>1
    <3> DEFINE e == IF i >= j THEN w ELSE 0
    <3>3. e \in Nat /\ g[i] = f[i] + e BY <1>2, <2>4
    <3>4. e = IF i + 1 >= j THEN w ELSE 0 BY <3>1
    <3> HIDE DEF e
    <3>5. g[i + 1] = f[i + 1] + e BY ONLY <2>2, <2>3, <3>0, <3>3
    <3>2. g[i + 1] = f[i + 1] + (IF i + 1 >= j THEN w ELSE 0) BY <3>4, <3>5
    <3> QED BY <2>1, <3>2
  <2> QED BY <2>5, <2>6
<1> HIDE DEF S
<1>9. 0 .. n \subseteq S BY <1>2, <1>7, <1>8, UpTo
<1>10. n \in S /\ n \in 0 .. n /\ n >= j BY <1>2, <1>9
<1>11. g[n] = f[n] + w BY <1>10 DEF S
<1> QED BY <1>3, <1>4, <1>10, <1>11 DEF w

(* One folding of the carries.                                             *)
Fold(x) == (x % WordSize) + x \div WordSize

(* One folding keeps the sum modulo MaxWord, and brings it down.         *)
LEMMA FoldIs ==
    ASSUME NEW n \in Nat
    PROVE  /\ Fold(n) \in Nat /\ n \div WordSize \in Nat
           /\ n = Fold(n) + MaxWord * (n \div WordSize)
           /\ n > 0 => Fold(n) > 0
           /\ n < WordSize * WordSize => Fold(n) <= 2 * MaxWord
           /\ n <= 2 * MaxWord => Fold(n) <= MaxWord
<1>1. WordSize \in Nat /\ WordSize > 1 /\ MaxWord \in Nat /\ WordSize = MaxWord + 1
  BY Widths DEF MaxWord
<1> DEFINE q == n \div WordSize
           u == n % WordSize
<1>2. q \in Nat /\ u \in 0 .. WordSize - 1 /\ n = WordSize * q + u BY Widths
<1>3. Fold(n) = u + q BY DEF Fold
<1> HIDE DEF q, u
<1>4. (MaxWord + 1) * q = MaxWord * q + 1 * q /\ MaxWord * q \in Nat BY <1>1, <1>2, Distributes
<1>5. n = (u + q) + MaxWord * q
  <2>1. WordSize * q = MaxWord * q + q BY <1>1, <1>2, <1>4
  <2> QED BY <1>1, <1>2, <1>4, <2>1
<1>6. u + q = 0 => n = 0
  <2>1. u + q = 0 => q = 0 /\ u = 0 BY <1>1, <1>2
  <2>2. WordSize * 0 = 0 BY <1>1
  <2> QED BY <1>2, <2>1, <2>2
<1>7. ASSUME n < WordSize * WordSize PROVE q < WordSize
  <2>1. CASE q >= WordSize
    <3> DEFINE d == q - WordSize
    <3>1. d \in Nat /\ q = WordSize + d BY <1>1, <1>2, <2>1
    <3>2. (WordSize + d) * WordSize = WordSize * WordSize + d * WordSize BY <1>1, <3>1, Distributes
    <3>3. d * WordSize \in Nat /\ WordSize * WordSize \in Nat BY <1>1, <3>1
    <3>4. WordSize * q = (WordSize + d) * WordSize
      <4> HIDE DEF d
      <4> QED BY <1>1, <3>1
    <3> HIDE DEF d
    <3> QED BY <1>1, <1>2, <1>7, <3>2, <3>3, <3>4
  <2> QED BY <1>1, <1>2, <2>1
<1>8. ASSUME n <= 2 * MaxWord PROVE u + q <= MaxWord
  <2>1. CASE q = 0 BY <1>1, <1>2, <2>1
  <2>2. CASE q = 1
    <3>1. WordSize * 1 = WordSize BY <1>1
    <3> QED BY <1>1, <1>2, <1>8, <2>2, <3>1
  <2>3. CASE q >= 2
    <3> DEFINE d == q - 2
    <3>1. d \in Nat /\ q = 2 + d BY <1>2, <2>3
    <3>2. (2 + d) * WordSize = 2 * WordSize + d * WordSize /\ d * WordSize \in Nat
      BY <1>1, <3>1, Distributes
    <3>3. WordSize * q = (2 + d) * WordSize
      <4> HIDE DEF d
      <4> QED BY <1>1, <3>1
    <3> HIDE DEF d
    <3> QED BY <1>1, <1>2, <1>8, <3>2, <3>3
  <2> QED BY <1>2, <2>1, <2>2, <2>3
<1>9. n < WordSize * WordSize => Fold(n) <= 2 * MaxWord BY <1>1, <1>2, <1>3, <1>7
<1>10. n <= 2 * MaxWord => Fold(n) <= MaxWord BY <1>3, <1>8
<1>11. Fold(n) \in Nat /\ (n > 0 => Fold(n) > 0) BY <1>1, <1>2, <1>3, <1>6
<1> QED BY <1>2, <1>3, <1>5, <1>9, <1>10, <1>11 DEF q

(* Three foldings leave a word, the same modulo MaxWord, and 0 only of 0.  *)
LEMMA FoldedIs ==
    ASSUME NEW n \in Nat, n > 0, n < WordSize * WordSize
    PROVE  /\ ChecksumFinish(n) \in 0 .. MaxWord - 1
           /\ \E k \in Nat : n + ChecksumFinish(n) = MaxWord * (k + 1)
<1> DEFINE a == Fold(n)
           b == Fold(a)
           c == Fold(b)
<1>0. MaxWord \in Nat /\ MaxWord > 0 BY Widths DEF MaxWord
<1>1. a \in Nat /\ a > 0 /\ a <= 2 * MaxWord /\ \E k \in Nat : n = a + MaxWord * k BY FoldIs
<1>2. ChecksumFinish(n) = MaxWord - c BY DEF ChecksumFinish, Fold
<1> HIDE DEF a
<1>3. b \in Nat /\ b > 0 /\ b <= MaxWord /\ \E k \in Nat : a = b + MaxWord * k BY <1>1, FoldIs
<1> HIDE DEF b
<1>4. b <= 2 * MaxWord BY <1>0, <1>3
<1>5. c \in Nat /\ c > 0 /\ c <= MaxWord /\ \E k \in Nat : b = c + MaxWord * k
  BY <1>3, <1>4, FoldIs
<1> HIDE DEF c
<1>6. PICK i \in Nat : n = a + MaxWord * i BY <1>1
<1>7. PICK j \in Nat : a = b + MaxWord * j BY <1>3
<1>8. PICK k \in Nat : b = c + MaxWord * k BY <1>5
<1>9. MaxWord * (((i + j) + k) + 1) = MaxWord * i + MaxWord * j + MaxWord * k + MaxWord
  <2>1. /\ (((i + j) + k) + 1) * MaxWord = ((i + j) + k) * MaxWord + 1 * MaxWord
        /\ ((i + j) + k) * MaxWord = (i + j) * MaxWord + k * MaxWord
        /\ (i + j) * MaxWord = i * MaxWord + j * MaxWord
    BY <1>0, Distributes
  <2>2. /\ i * MaxWord = MaxWord * i /\ j * MaxWord = MaxWord * j /\ k * MaxWord = MaxWord * k
        /\ (((i + j) + k) + 1) * MaxWord = MaxWord * (((i + j) + k) + 1)
    BY <1>0
  <2>3. MaxWord * i \in Nat /\ MaxWord * j \in Nat /\ MaxWord * k \in Nat BY <1>0
  <2> QED BY <1>0, <2>1, <2>2, <2>3
<1>10. MaxWord * i \in Nat /\ MaxWord * j \in Nat /\ MaxWord * k \in Nat BY <1>0
<1>11. n + ChecksumFinish(n) = MaxWord * (((i + j) + k) + 1)
  BY <1>0, <1>2, <1>5, <1>6, <1>7, <1>8, <1>9, <1>10
<1>12. ChecksumFinish(n) \in 0 .. MaxWord - 1 BY <1>0, <1>2, <1>5
<1> DEFINE t == (i + j) + k
<1>13. t \in Nat /\ n + ChecksumFinish(n) = MaxWord * (t + 1) BY <1>11
<1> HIDE DEF t
<1> QED BY <1>12, <1>13

(* A sum with its checksum, or MaxWord where that is 0, checks.            *)
LEMMA ChecksumHolds ==
    ASSUME NEW n \in Nat, n > 0, n + MaxWord < WordSize * WordSize, NEW c,
           c = ChecksumFinish(n) \/ (ChecksumFinish(n) = 0 /\ c = MaxWord)
    PROVE  c \in Word /\ ChecksumFinish(n + c) = 0 /\ (n + c) % MaxWord = 0
<1>0. MaxWord \in Nat /\ MaxWord > 0 /\ Word = 0 .. MaxWord BY Widths DEF MaxWord, Word
<1>1. n < WordSize * WordSize /\ WordSize * WordSize \in Nat BY <1>0, Widths
<1>2. ChecksumFinish(n) \in 0 .. MaxWord - 1 BY <1>1, FoldedIs
<1>3. c \in 0 .. MaxWord BY <1>0, <1>2
<1>4. PICK k \in Nat : n + ChecksumFinish(n) = MaxWord * (k + 1) BY <1>1, FoldedIs
<1>5. \E j \in Nat : n + c = MaxWord * (j + 1)
  <2>1. CASE c = ChecksumFinish(n) BY <1>4, <2>1
  <2>2. CASE ChecksumFinish(n) = 0 /\ c = MaxWord
    <3>1. n + c = MaxWord * (k + 1) + MaxWord BY <1>0, <1>4, <2>2
    <3>2. ((k + 1) + 1) * MaxWord = (k + 1) * MaxWord + 1 * MaxWord BY <1>0, Distributes
    <3>3. MaxWord * ((k + 1) + 1) = MaxWord * (k + 1) + MaxWord BY <1>0, <3>2
    <3>4. k + 1 \in Nat OBVIOUS
    <3> QED BY <3>1, <3>3, <3>4
  <2> QED BY <2>1, <2>2
<1>6. PICK j \in Nat : n + c = MaxWord * (j + 1) BY <1>5
<1> DEFINE m == n + c
           d == ChecksumFinish(m)
<1>7. m \in Nat /\ m > 0 /\ m < WordSize * WordSize BY <1>0, <1>1, <1>3
<1>8. m = MaxWord * (j + 1) BY <1>6
<1> HIDE DEF m
<1>9. d \in 0 .. MaxWord - 1 BY <1>7, FoldedIs
<1>10. PICK i \in Nat : m + d = MaxWord * (i + 1) BY <1>7, FoldedIs
<1> HIDE DEF d
<1>11. d = 0
  <2>1. CASE i >= j
    <3> DEFINE e == i - j
    <3>1. e \in Nat /\ i + 1 = (j + 1) + e BY <2>1
    <3> HIDE DEF e
    <3>2. ((j + 1) + e) * MaxWord = (j + 1) * MaxWord + e * MaxWord BY <1>0, <3>1, Distributes
    <3>3. MaxWord * (i + 1) = MaxWord * (j + 1) + e * MaxWord /\ e * MaxWord \in Nat
          /\ MaxWord * (j + 1) \in Nat
      BY <1>0, <3>1, <3>2
    <3>4. d = e * MaxWord BY <1>8, <1>9, <1>10, <3>3
    <3>5. e = 0 \/ e * MaxWord >= MaxWord
      <4>1. CASE e # 0
        <5>1. e - 1 \in Nat /\ e = (e - 1) + 1 BY <3>1, <4>1
        <5>2. ((e - 1) + 1) * MaxWord = (e - 1) * MaxWord + 1 * MaxWord /\ (e - 1) * MaxWord \in Nat
          BY <1>0, <5>1, Distributes
        <5> QED BY <1>0, <5>1, <5>2
      <4> QED BY <4>1
    <3> QED BY <1>0, <1>9, <3>4, <3>5
  <2>2. CASE ~(i >= j)
    <3> DEFINE e == j - i
    <3>1. e \in Nat /\ j + 1 = (i + 1) + e /\ e >= 1 BY <2>2
    <3> HIDE DEF e
    <3>2. ((i + 1) + e) * MaxWord = (i + 1) * MaxWord + e * MaxWord BY <1>0, <3>1, Distributes
    <3>3. MaxWord * (j + 1) = MaxWord * (i + 1) + e * MaxWord /\ e * MaxWord \in Nat
          /\ MaxWord * (i + 1) \in Nat
      BY <1>0, <3>1, <3>2
    <3>4. e * MaxWord + d = 0 BY <1>7, <1>8, <1>9, <1>10, <3>3
    <3>5. d = 0 BY <1>9, <3>3, <3>4
    <3> QED BY <3>5
  <2> QED BY <2>1, <2>2
<1>12. m % MaxWord = 0
  <2> DEFINE x == j + 1
  <2>1. x \in Nat OBVIOUS
  <2> HIDE DEF x
  <2>2. (MaxWord * x) % MaxWord = 0 BY <1>0, <2>1
  <2> QED BY <1>8, <2>2 DEF x
<1> QED BY <1>0, <1>3, <1>11, <1>12 DEF d, m

(***************************************************************************)
(* Each parser after its writer.                                           *)
(***************************************************************************)

(* A piece is read by its place and length.                              *)
LEMMA PieceOf ==
    ASSUME NEW p \in Seq(Word), NEW b \in Seq(Word), NEW m \in Nat, m + Len(b) <= Len(p),
           \A i \in 1 .. Len(b) : p[m + i] = b[i]
    PROVE  SubSeq(p, m + 1, m + Len(b)) = b
<1> DEFINE n == Len(b)
           s == SubSeq(p, m + 1, m + n)
<1>0. n \in Nat /\ m + n \in Nat OBVIOUS
<1>1. /\ s \in Seq(Word) /\ Len(s) = (m + n) - m
      /\ \A i \in 1 .. (m + n) - m : s[i] = p[m + i]
  <2> HIDE DEF n
  <2>1. m <= m + n /\ m + n <= Len(p) BY <1>0 DEF n
  <2> QED BY <1>0, <2>1, PieceIs
<1>2. (m + n) - m = n BY <1>0
<1> HIDE DEF s
<1>3. Len(s) = Len(b) /\ \A i \in 1 .. Len(s) : s[i] = b[i] BY <1>1, <1>2
<1>4. s = b BY <1>1, <1>3, SeqEqual
<1> QED BY <1>4 DEF s

(* One sequence after another.                                             *)
LEMMA Joined ==
    ASSUME NEW a \in Seq(Word), NEW b \in Seq(Word)
    PROVE  /\ a \o b \in Seq(Word) /\ Len(a \o b) = Len(a) + Len(b)
           /\ Len(a) \in Nat /\ Len(b) \in Nat
           /\ \A i \in 1 .. Len(a) : (a \o b)[i] = a[i]
           /\ \A i \in 1 .. Len(b) : (a \o b)[Len(a) + i] = b[i]
<1>0. Len(a) \in Nat /\ Len(b) \in Nat OBVIOUS
<1>1. /\ a \o b \in Seq(Word) /\ Len(a \o b) = Len(a) + Len(b)
      /\ \A i \in 1 .. Len(a) + Len(b) :
            (a \o b)[i] = IF i <= Len(a) THEN a[i] ELSE b[i - Len(a)]
  BY ConcatProperties
<1> DEFINE c == a \o b
<1> HIDE DEF c
<1>2. \A i \in 1 .. Len(a) : c[i] = a[i] BY <1>0, <1>1 DEF c
<1>3. \A i \in 1 .. Len(b) : c[Len(a) + i] = b[i]
  <2> SUFFICES ASSUME NEW i \in 1 .. Len(b) PROVE c[Len(a) + i] = b[i] OBVIOUS
  <2>1. Len(a) + i \in 1 .. Len(a) + Len(b) /\ ~(Len(a) + i <= Len(a)) /\ (Len(a) + i) - Len(a) = i
    BY <1>0
  <2> QED BY <1>1, <2>1 DEF c
<1> QED BY <1>0, <1>1, <1>2, <1>3 DEF c

(* Words are wide enough for every constant of the headers.              *)
LEMMA WordFacts ==
    /\ WordSize \in Nat /\ WordSize >= 64 /\ MaxWord \in Nat /\ MaxWord >= 63
    /\ WordSize = MaxWord + 1 /\ Word = 0 .. MaxWord /\ \A i \in 0 .. 63 : i \in Word
BY Widths, WireAssumption DEF MaxWord, Word

(* A sequence of n words, one after another, and where a piece begins.     *)
Words(p, n) == p \in Seq(Word) /\ n \in Nat /\ Len(p) = n
Joins(c, a, b) == c = a \o b
Piece(p, m, b) == m + Len(b) <= Len(p) /\ \A i \in 1 .. Len(b) : p[m + i] = b[i]

(* Writing one thing after another (the write functions).                  *)
LEMMA Appended ==
    ASSUME NEW a, NEW n, Words(a, n), NEW b, NEW k, Words(b, k), NEW l, l = n + k,
           NEW c, Joins(c, a, b)
    PROVE  Words(c, l) /\ Piece(c, 0, a) /\ Piece(c, n, b)
<1>1. /\ c \in Seq(Word) /\ Len(c) = n + k /\ n \in Nat /\ k \in Nat
      /\ Len(a) = n /\ Len(b) = k
      /\ \A i \in 1 .. n : c[i] = a[i]
      /\ \A i \in 1 .. k : c[n + i] = b[i]
  BY Joined DEF Words, Joins
<1>2. Words(c, l) BY <1>1 DEF Words
<1>3. Piece(c, 0, a)
  <2>1. \A i \in 1 .. n : 0 + i = i BY <1>1
  <2> QED BY <1>1, <2>1 DEF Piece
<1>4. Piece(c, n, b) BY <1>1 DEF Piece
<1> QED BY <1>2, <1>3, <1>4

(* What is already written stays where it is.                              *)
LEMMA Kept ==
    ASSUME NEW a, NEW n, Words(a, n), NEW b, NEW k, Words(b, k), NEW c, Joins(c, a, b),
           NEW m \in Nat, NEW s, NEW j, Words(s, j), Piece(a, m, s)
    PROVE  Piece(c, m, s)
<1>1. /\ Len(c) = n + k /\ n \in Nat /\ k \in Nat /\ j \in Nat
      /\ Len(a) = n /\ Len(s) = j
      /\ \A i \in 1 .. n : c[i] = a[i]
  BY Joined DEF Words, Joins
<1>2. m + j <= n /\ \A i \in 1 .. j : a[m + i] = s[i] BY <1>1 DEF Piece
<1>3. \A i \in 1 .. j : m + i \in 1 .. n BY <1>1, <1>2
<1>4. \A i \in 1 .. j : c[m + i] = s[i] BY <1>1, <1>2, <1>3
<1>5. m + Len(s) <= Len(c) BY <1>1, <1>2
<1> QED BY <1>1, <1>4, <1>5 DEF Piece

(* Reading a piece, what follows a piece, and one word.                    *)
LEMMA ReadPiece ==
    ASSUME NEW p, NEW l, Words(p, l), NEW b, NEW n, Words(b, n), NEW m \in Nat, Piece(p, m, b)
    PROVE  \A i, j : i = m + 1 /\ j = m + n => SubSeq(p, i, j) = b
BY PieceOf DEF Words, Piece

LEMMA ReadFrom ==
    ASSUME NEW p, NEW l, Words(p, l), NEW b, NEW n, Words(b, n), NEW m \in Nat, Piece(p, m, b),
           NEW i, i = m + 1
    PROVE  From(p, i, n) = b
<1>1. n \in Nat BY DEF Words
<1>2. i + n - 1 = m + n BY <1>1
<1> QED BY <1>2, ReadPiece DEF From

LEMMA ReadAfter ==
    ASSUME NEW p, NEW b, NEW n, Words(b, n), NEW m \in Nat, Words(p, m + n), Piece(p, m, b)
    PROVE  After(p, m) = b
<1>1. Len(p) = m + n BY DEF Words
<1>2. SubSeq(p, m + 1, m + n) = b BY ReadPiece
<1> QED BY <1>1, <1>2 DEF After

LEMMA ReadWord ==
    ASSUME NEW w \in Word
    PROVE  /\ Words(<<w>>, 1)
           /\ \A p, m, i : m \in Nat /\ i = m + 1 /\ Piece(p, m, <<w>>) => p[i] = w
<1> DEFINE b == <<w>>
<1>1. b \in Seq(Word) /\ Len(b) = 1 /\ b[1] = w OBVIOUS
<1> HIDE DEF b
<1>2. 1 \in 1 .. Len(b) BY <1>1
<1> QED BY <1>1, <1>2 DEF Piece, b, Words

(* Padding goes behind the last thing written.                           *)
LEMMA PadLast ==
    ASSUME NEW a, NEW n, Words(a, n), NEW b, NEW k, Words(b, k), NEW pad, NEW j, Words(pad, j)
    PROVE  (a \o b) \o pad = a \o (b \o pad)
BY ConcatAssociative DEF Words

(* Ethernet: what EthHeader::write puts in front, parse takes off, and     *)
(* padding stays behind the payload.                                       *)
EthCarries(dst, src, type, payload, n) ==
    LET f == EthWrite(dst, src, type, payload) IN
    /\ Words(f, 7 + n) /\ f[7] = type /\ Piece(f, 7, payload)
    /\ EthParse(f) = {[dst |-> dst, src |-> src, type |-> type, payload |-> payload]}
    /\ After(f, EthHdrLen) = payload
    /\ \A pad, j : Words(pad, j) => f \o pad = EthWrite(dst, src, type, payload \o pad)

LEMMA EthLayer ==
    ASSUME NEW dst, Words(dst, 3), NEW src, Words(src, 3),
           NEW type \in Word, NEW payload, NEW n, Words(payload, n)
    PROVE  EthCarries(dst, src, type, payload, n)
<1> DEFINE a == dst \o src
           t == <<type>>
           h == a \o t
           f == h \o payload
<1>0. EthWrite(dst, src, type, payload) = f BY DEF EthWrite
<1>1. Words(t, 1) BY ReadWord
<1>2. Joins(a, dst, src) /\ Joins(h, a, t) /\ Joins(f, h, payload) BY DEF Joins
<1> HIDE DEF a, t, h
<1>3. Words(a, 6) /\ Piece(a, 0, dst) /\ Piece(a, 3, src) BY <1>2, Appended
<1>4. Words(h, 7) /\ Piece(h, 6, t) /\ Piece(h, 0, dst) /\ Piece(h, 3, src)
  BY <1>1, <1>2, <1>3, Appended, Kept
<1>5. ASSUME NEW pad, NEW j, Words(pad, j) PROVE f \o pad = h \o (payload \o pad)
  <2>1. h \in Seq(Word) /\ payload \in Seq(Word) /\ pad \in Seq(Word) BY <1>4, <1>5 DEF Words
  <2>2. (h \o payload) \o pad = h \o (payload \o pad) BY <2>1, ConcatAssociative
  <2> QED BY <2>2
<1> HIDE DEF f
<1>6. /\ Words(f, 7 + n) /\ Piece(f, 7, payload) /\ Piece(f, 6, t)
      /\ Piece(f, 0, dst) /\ Piece(f, 3, src)
  BY <1>1, <1>2, <1>4, Appended, Kept
<1>7. From(f, 1, 3) = dst /\ From(f, 4, 3) = src BY <1>6, ReadFrom
<1>8. f[7] = type BY <1>6, ReadWord DEF t
<1>9. After(f, EthHdrLen) = payload BY <1>6, ReadAfter DEF EthHdrLen
<1>10. ~(Len(f) < EthHdrLen) BY <1>6 DEF EthHdrLen, Words
<1>11. EthParse(f) = {[dst |-> dst, src |-> src, type |-> type, payload |-> payload]}
  BY <1>7, <1>8, <1>9, <1>10 DEF EthParse
<1>12. \A pad, j : Words(pad, j) => f \o pad = EthWrite(dst, src, type, payload \o pad)
  BY <1>5 DEF EthWrite, h, t, a
<1> QED BY <1>0, <1>6, <1>8, <1>9, <1>11, <1>12 DEF EthCarries

(* ARP: what ArpPacket::write writes, parse reads, padded or not.          *)
LEMMA ArpLayer ==
    ASSUME NEW op \in Word, NEW sha, Words(sha, 3), NEW spa, Words(spa, 2),
           NEW tha, Words(tha, 3), NEW tpa, Words(tpa, 2), NEW pad, NEW j, Words(pad, j)
    PROVE  LET a == [op |-> op, sha |-> sha, spa |-> spa, tha |-> tha, tpa |-> tpa] IN
           /\ Words(ArpWrite(a), ArpLen)
           /\ ArpParse(ArpWrite(a)) = {a} /\ ArpParse(ArpWrite(a) \o pad) = {a}
<1> DEFINE a == [op |-> op, sha |-> sha, spa |-> spa, tha |-> tha, tpa |-> tpa]
           t == <<op>>
           p1 == ArpFixed \o t
           p2 == p1 \o sha
           p3 == p2 \o spa
           p4 == p3 \o tha
           p5 == p4 \o tpa
           p6 == p5 \o pad
           Reads(p) ==
               /\ Piece(p, 0, ArpFixed) /\ Piece(p, 3, t) /\ Piece(p, 4, sha)
               /\ Piece(p, 7, spa) /\ Piece(p, 9, tha) /\ Piece(p, 12, tpa)
<1>0. ArpWrite(a) = p5 BY DEF ArpWrite
<1>1. Words(ArpFixed, 3)
  <2>1. 1 \in Word /\ EtherIpv4 \in Word /\ 50 \in Word BY WordFacts DEF EtherIpv4
  <2> QED BY <2>1 DEF ArpFixed, Words
<1>2. Words(t, 1) BY ReadWord
<1>3. /\ Joins(p1, ArpFixed, t) /\ Joins(p2, p1, sha) /\ Joins(p3, p2, spa)
      /\ Joins(p4, p3, tha) /\ Joins(p5, p4, tpa) /\ Joins(p6, p5, pad)
  BY DEF Joins
<1> HIDE DEF t, p1, p2, p3, p4, p5, p6
<1>4. Words(p1, 4) /\ Piece(p1, 0, ArpFixed) /\ Piece(p1, 3, t)
  BY <1>1, <1>2, <1>3, Appended
<1>5. Words(p2, 7) /\ Piece(p2, 0, ArpFixed) /\ Piece(p2, 3, t) /\ Piece(p2, 4, sha)
  BY <1>1, <1>2, <1>3, <1>4, Appended, Kept
<1>6. /\ Words(p3, 9) /\ Piece(p3, 0, ArpFixed) /\ Piece(p3, 3, t) /\ Piece(p3, 4, sha)
      /\ Piece(p3, 7, spa)
  BY <1>1, <1>2, <1>3, <1>5, Appended, Kept
<1>7. /\ Words(p4, 12) /\ Piece(p4, 0, ArpFixed) /\ Piece(p4, 3, t) /\ Piece(p4, 4, sha)
      /\ Piece(p4, 7, spa) /\ Piece(p4, 9, tha)
  BY <1>1, <1>2, <1>3, <1>6, Appended, Kept
<1>8. Words(p5, 14) /\ Reads(p5) BY <1>1, <1>2, <1>3, <1>7, Appended, Kept
<1>9. Words(p6, 14 + j) /\ Reads(p6) BY <1>1, <1>2, <1>3, <1>8, Appended, Kept
<1>10. ASSUME NEW p, NEW l, l >= 14, Words(p, l), Reads(p) PROVE ArpParse(p) = {a}
  <2>1. From(p, 1, 3) = ArpFixed BY <1>1, <1>10, ReadFrom
  <2>2. p[4] = op BY <1>10, ReadWord DEF t
  <2>3. From(p, 5, 3) = sha /\ From(p, 8, 2) = spa BY <1>10, ReadFrom
  <2>4. From(p, 10, 3) = tha /\ From(p, 13, 2) = tpa BY <1>10, ReadFrom
  <2>5. ~(Len(p) < ArpLen) BY <1>10 DEF ArpLen, Words
  <2> QED BY <2>1, <2>2, <2>3, <2>4, <2>5 DEF ArpParse
<1>11. 14 + j >= 14 BY DEF Words
<1>12. ArpParse(p5) = {a} /\ ArpParse(p6) = {a} BY <1>8, <1>9, <1>10, <1>11
<1> QED BY <1>0, <1>8, <1>12 DEF ArpLen, p6

(* A sum over which a checksum is taken: not 0, and far below WordSize^2,  *)
(* where the folding of checksum_finish comes to an end.                   *)
Summed(m, p, n) ==
    /\ Words(p, n) /\ m \in Nat
    /\ m > 0 \/ \E i \in 1 .. n : p[i] > 0
    /\ m + (n * MaxWord + MaxWord) < WordSize * WordSize

(* Such a sum is where folding ends.                                     *)
LEMMA SummedIs ==
    ASSUME NEW m, NEW p, NEW n, Summed(m, p, n)
    PROVE  /\ m + Sum(p) \in Nat /\ m + Sum(p) > 0
           /\ (m + Sum(p)) + MaxWord < WordSize * WordSize
<1>1. p \in Seq(Word) /\ Len(p) = n /\ n \in Nat /\ m \in Nat BY DEF Summed, Words
<1>2. Sum(p) \in Nat /\ Sum(p) <= n * MaxWord BY <1>1, SumBounds
<1>3. m + (n * MaxWord + MaxWord) < WordSize * WordSize BY DEF Summed
<1>4. MaxWord \in Nat /\ WordSize * WordSize \in Nat /\ n * MaxWord \in Nat BY <1>1, WordFacts
<1> DEFINE top == n * MaxWord
           square == WordSize * WordSize
<1>5. (m + Sum(p)) + MaxWord < WordSize * WordSize
  <2> HIDE DEF top, square
  <2>1. top \in Nat /\ square \in Nat /\ Sum(p) <= top /\ m + (top + MaxWord) < square
    BY <1>2, <1>3, <1>4 DEF top, square
  <2>2. (m + Sum(p)) + MaxWord < square BY <1>1, <1>2, <1>4, <2>1
  <2> QED BY <2>2 DEF square
<1>6. m > 0 \/ \E i \in 1 .. n : p[i] > 0 BY DEF Summed
<1>7. ASSUME NEW j \in 1 .. n, p[j] > 0 PROVE Sum(p) > 0
  <2> DEFINE q == [p EXCEPT ![j] = 0]
  <2>1. /\ q \in Seq(Nat) /\ Len(q) = n /\ p \in Seq(Nat) /\ q[j] = 0
        /\ \A i \in 1 .. n : j # i => q[i] = p[i]
    BY <1>1, WordFacts
  <2> HIDE DEF q
  <2>2. Sum(p) = Sum(q) + p[j] /\ Sum(q) \in Nat BY <1>1, <2>1, SumChanges, SMTT(20)
  <2>3. p[j] \in Nat BY <1>1, WordFacts
  <2> QED BY <1>7, <2>2, <2>3
<1>8. m + Sum(p) > 0 BY <1>1, <1>2, <1>6, <1>7
<1> QED BY <1>1, <1>2, <1>5, <1>8

LEMMA FinishIsWord ==
    ASSUME NEW m, NEW p, NEW n, Summed(m, p, n)
    PROVE  ChecksumFinish(m + Sum(p)) \in Word
BY SummedIs, ChecksumHolds

(* What is written over a checksum field of 0 makes the checksum hold.     *)
LEMMA FinishChecks ==
    ASSUME NEW m, NEW p, NEW n, Summed(m, p, n), NEW q, Words(q, n), NEW j \in 1 .. n,
           p[j] = 0, \A i \in 1 .. n : j # i => p[i] = q[i],
           \/ q[j] = ChecksumFinish(m + Sum(p))
           \/ ChecksumFinish(m + Sum(p)) = 0 /\ q[j] = MaxWord
    PROVE  ChecksumFinish(m + Sum(q)) = 0 /\ (m + Sum(q)) % MaxWord = 0
<1>1. /\ p \in Seq(Nat) /\ Len(p) = n /\ n \in Nat /\ m \in Nat /\ q \in Seq(Nat) /\ Len(q) = n
  BY WordFacts DEF Summed, Words
<1>2. Sum(q) = Sum(p) + q[j] /\ Sum(p) \in Nat BY <1>1, SumChanges
<1>3. q[j] \in Nat BY <1>1
<1>4. m + Sum(q) = (m + Sum(p)) + q[j] BY <1>1, <1>2, <1>3
<1> DEFINE s == m + Sum(p)
<1>5. s \in Nat /\ s > 0 /\ s + MaxWord < WordSize * WordSize BY SummedIs
<1>6. q[j] = ChecksumFinish(s) \/ (ChecksumFinish(s) = 0 /\ q[j] = MaxWord) OBVIOUS
<1> HIDE DEF s
<1>7. ChecksumFinish(s + q[j]) = 0 /\ (s + q[j]) % MaxWord = 0 BY <1>5, <1>6, ChecksumHolds
<1> QED BY <1>4, <1>7 DEF s

(* Sums of fewer words than there are words stay below WordSize^2.       *)
LEMMA SquareIsLarge ==
    ASSUME NEW k \in Nat, k + 1 <= WordSize
    PROVE  k * MaxWord + MaxWord < WordSize * WordSize
<1>1. WordSize \in Nat /\ WordSize >= 64 /\ MaxWord \in Nat /\ WordSize = MaxWord + 1
  BY WordFacts
<1>2. k * MaxWord + MaxWord = MaxWord * (k + 1) BY <1>1
<1> DEFINE j == k + 1
           w == WordSize
           v == MaxWord
<1>3. j \in Nat /\ j <= w /\ w \in Nat /\ v \in Nat /\ w = v + 1 BY <1>1
<1> HIDE DEF j, w, v
<1>4. v * j <= v * w BY <1>3
<1>5. v * w < w * w BY <1>3
<1>6. v * j < w * w BY <1>3, <1>4, <1>5
<1> QED BY <1>2, <1>6 DEF j, w, v

(* What a parser finds in a header of single words.                        *)
LEMMA ReadWords ==
    ASSUME NEW p, NEW b, NEW n, Words(b, n), Piece(p, 0, b)
    PROVE  \A i \in 1 .. n : p[i] = b[i]
<1>1. n \in Nat /\ Len(b) = n BY DEF Words
<1>2. \A i \in 1 .. n : 0 + i = i BY <1>1
<1> QED BY <1>1, <1>2 DEF Piece

(* IPv4: the header checksum holds, and parse takes off what               *)
(* Ipv4Header::write put in front, and what lies behind the total length.  *)
Ipv4Carries(src, dst, id, payload, n, pad) ==
    LET p == Ipv4Write(src, dst, id, payload)
        read == {[src |-> src, dst |-> dst, proto |-> ProtoUdp, payload |-> payload]}
    IN  /\ Words(p, 10 + n) /\ p[1] = VersionIhl
        /\ From(p, 7, 2) = src /\ From(p, 9, 2) = dst /\ After(p, Ipv4HdrLen) = payload
        /\ Sum(From(p, 1, Ipv4HdrLen)) % MaxWord = 0
        /\ Ipv4Parse(p) = read /\ Ipv4Parse(p \o pad) = read

LEMMA Ipv4Layer ==
    ASSUME NEW src, Words(src, 2), NEW dst, Words(dst, 2), NEW id \in Word,
           NEW payload, NEW n, Words(payload, n), Ipv4HdrLen + n <= MaxWord,
           NEW pad, NEW j, Words(pad, j)
    PROVE  Ipv4Carries(src, dst, id, payload, n, pad)
<1> DEFINE six(c) == <<VersionIhl, Ipv4HdrLen + n, id, FlagDf, TtlProto, c>>
           net(c) == six(c) \o src
           hdr(c) == net(c) \o dst
           sum == ChecksumFinish(Sum(hdr(0)))
           p == hdr(sum) \o payload
           q == p \o pad
           read == {[src |-> src, dst |-> dst, proto |-> ProtoUdp, payload |-> payload]}
<1>0. n \in Nat /\ Len(payload) = n /\ n + 10 <= MaxWord /\ Ipv4HdrLen + n = 10 + n
  BY DEF Words, Ipv4HdrLen
<1>1. Ipv4Write(src, dst, id, payload) = p BY <1>0 DEF Ipv4Write
<1>2. ASSUME NEW c \in Word
      PROVE  /\ Words(six(c), 6) /\ Words(net(c), 8) /\ Words(hdr(c), 10)
             /\ Piece(hdr(c), 0, six(c)) /\ Piece(hdr(c), 6, src) /\ Piece(hdr(c), 8, dst)
  <2>1. /\ VersionIhl \in Word /\ Ipv4HdrLen + n \in Word /\ FlagDf \in Word /\ TtlProto \in Word
        /\ id \in Word /\ c \in Word
    BY <1>0, WordFacts DEF VersionIhl, Ipv4HdrLen, FlagDf, TtlProto, ProtoUdp
  <2>2. Words(six(c), 6) BY <2>1 DEF Words
  <2>3. Joins(net(c), six(c), src) /\ Joins(hdr(c), net(c), dst) BY DEF Joins
  <2> HIDE DEF six, net, hdr
  <2>4. Words(net(c), 8) /\ Piece(net(c), 0, six(c)) /\ Piece(net(c), 6, src)
    BY <2>2, <2>3, Appended
  <2> QED BY <2>2, <2>3, <2>4, Appended, Kept
<1>3. \A c : six(c) = <<VersionIhl, 10 + n, id, FlagDf, TtlProto, c>> BY <1>0
<1> HIDE DEF six, net, hdr
<1>4. ASSUME NEW c \in Word
      PROVE  /\ hdr(c)[1] = VersionIhl /\ hdr(c)[6] = c
             /\ \A i \in 1 .. 10 : 6 # i => hdr(0)[i] = hdr(c)[i]
  <2>0. 0 \in Word BY WordFacts
  <2>1. /\ Piece(hdr(c), 0, six(c)) /\ Piece(hdr(c), 6, src) /\ Piece(hdr(c), 8, dst)
        /\ Piece(hdr(0), 0, six(0)) /\ Piece(hdr(0), 6, src) /\ Piece(hdr(0), 8, dst)
        /\ Words(six(c), 6) /\ Words(six(0), 6) /\ Len(src) = 2 /\ Len(dst) = 2
    BY <1>2, <2>0 DEF Words
  <2>2. \A i \in 1 .. 6 : hdr(c)[i] = six(c)[i] /\ hdr(0)[i] = six(0)[i] BY <2>1, ReadWords
  <2>3. \A i \in 1 .. 2 : hdr(c)[6 + i] = src[i] /\ hdr(0)[6 + i] = src[i] BY <2>1 DEF Piece
  <2>4. \A i \in 1 .. 2 : hdr(c)[8 + i] = dst[i] /\ hdr(0)[8 + i] = dst[i] BY <2>1 DEF Piece
  <2>5. hdr(c)[1] = VersionIhl /\ hdr(c)[6] = c BY <1>3, <2>2
  <2>6. \A i \in 1 .. 6 : 6 # i => hdr(0)[i] = hdr(c)[i]
    <3>1. \A i \in 1 .. 6 : 6 # i => six(0)[i] = six(c)[i] BY <1>3
    <3> QED BY <2>2, <3>1
  <2>7. hdr(0)[7] = hdr(c)[7] /\ hdr(0)[8] = hdr(c)[8]
    <3>1. hdr(0)[6 + 1] = hdr(c)[6 + 1] /\ hdr(0)[6 + 2] = hdr(c)[6 + 2] BY <2>3
    <3> QED BY <3>1
  <2>8. hdr(0)[9] = hdr(c)[9] /\ hdr(0)[10] = hdr(c)[10]
    <3>1. hdr(0)[8 + 1] = hdr(c)[8 + 1] /\ hdr(0)[8 + 2] = hdr(c)[8 + 2] BY <2>4
    <3> QED BY <3>1
  <2>9. \A i \in 1 .. 10 : i \in 1 .. 6 \/ i = 7 \/ i = 8 \/ i = 9 \/ i = 10 OBVIOUS
  <2> QED BY <2>5, <2>6, <2>7, <2>8, <2>9
<1>5. Summed(0, hdr(0), 10)
  <2>0. 0 \in Word BY WordFacts
  <2>1. Words(hdr(0), 10) /\ hdr(0)[1] = VersionIhl BY <1>2, <1>4, <2>0
  <2>2. 0 + (10 * MaxWord + MaxWord) < WordSize * WordSize
    <3>1. 10 + 1 <= WordSize BY WordFacts
    <3>2. 10 * MaxWord + MaxWord < WordSize * WordSize BY <3>1, SquareIsLarge
    <3> QED BY <3>2, WordFacts
  <2>3. hdr(0)[1] > 0 /\ 1 \in 1 .. 10 BY <2>1 DEF VersionIhl
  <2> QED BY <2>1, <2>2, <2>3 DEF Summed
<1>6. 0 + Sum(hdr(0)) = Sum(hdr(0)) BY <1>5, SumBounds DEF Summed, Words
<1>7. sum \in Word BY <1>5, <1>6, FinishIsWord
<1>8. ChecksumFinish(Sum(hdr(sum))) = 0 /\ Sum(hdr(sum)) % MaxWord = 0
  <2>0. 0 \in Word BY WordFacts
  <2>1. Words(hdr(sum), 10) BY <1>2, <1>7
  <2>2. hdr(0)[6] = 0 /\ hdr(sum)[6] = sum /\ \A i \in 1 .. 10 : 6 # i => hdr(0)[i] = hdr(sum)[i]
    BY <1>4, <1>7, <2>0
  <2>3. ChecksumFinish(0 + Sum(hdr(sum))) = 0 /\ (0 + Sum(hdr(sum))) % MaxWord = 0
    BY <1>5, <1>6, <2>1, <2>2, FinishChecks
  <2>4. 0 + Sum(hdr(sum)) = Sum(hdr(sum)) BY <2>1, SumBounds DEF Words
  <2> QED BY <2>3, <2>4
<1> DEFINE h == hdr(sum)
<1>9. /\ Words(h, 10) /\ Piece(h, 0, six(sum)) /\ Piece(h, 6, src) /\ Piece(h, 8, dst)
      /\ Words(six(sum), 6)
  BY <1>2, <1>7
<1>10. Joins(p, h, payload) /\ Joins(q, p, pad) BY DEF Joins
<1>11. ChecksumFinish(Sum(h)) = 0 /\ Sum(h) % MaxWord = 0 BY <1>8
<1> HIDE DEF sum, h, p, q
<1> DEFINE Reads(f) ==
        /\ Piece(f, 0, h) /\ Piece(f, 0, six(sum)) /\ Piece(f, 6, src) /\ Piece(f, 8, dst)
        /\ Piece(f, 10, payload)
<1>12. Words(p, 10 + n) /\ Reads(p) BY <1>9, <1>10, Appended, Kept
<1>13. Words(q, (10 + n) + j) /\ Reads(q) BY <1>9, <1>10, <1>12, Appended, Kept
<1>14. ASSUME NEW f, NEW l, Words(f, l), Reads(f), l >= 10 + n
       PROVE  /\ Ipv4Parse(f) = read /\ f[1] = VersionIhl
              /\ From(f, 1, 10) = h /\ From(f, 7, 2) = src /\ From(f, 9, 2) = dst
  <2>1. From(f, 1, 10) = h BY <1>9, <1>14, ReadFrom
  <2>2. From(f, 7, 2) = src /\ From(f, 9, 2) = dst BY <1>14, ReadFrom
  <2>3. SubSeq(f, 10 + 1, 10 + n) = payload
    <3>1. \A i, last : i = 10 + 1 /\ last = 10 + n => SubSeq(f, i, last) = payload
      BY <1>14, ReadPiece, SMTT(20)
    <3> QED BY <3>1
  <2>4. \A i \in 1 .. 6 : f[i] = six(sum)[i] BY <1>9, <1>14, ReadWords
  <2>5. f[1] = VersionIhl /\ f[2] = 10 + n /\ f[4] = FlagDf /\ f[5] = TtlProto BY <1>3, <2>4
  <2>6. /\ f[1] % 8 = 5 /\ f[1] \div 8 = 4 /\ 2 * (f[1] % 8) = 10
        /\ f[4] % FlagDf = 0 /\ f[5] % 8 = ProtoUdp
    BY <2>5 DEF VersionIhl, FlagDf, TtlProto, ProtoUdp
  <2>7. ~(Len(f) < 10) /\ ~(f[2] < 10) /\ ~(f[2] > Len(f)) BY <1>0, <1>14, <2>5 DEF Words
  <2>8. Ipv4Parse(f) = {[src |-> From(f, 7, 2), dst |-> From(f, 9, 2), proto |-> f[5] % 8,
                         payload |-> SubSeq(f, 10 + 1, f[2])]}
    BY <1>11, <2>1, <2>6, <2>7 DEF Ipv4Parse, Ipv4HdrLen
  <2>9. Ipv4Parse(f) = read
    <3>1. SubSeq(f, 10 + 1, f[2]) = payload BY <2>3, <2>5
    <3> QED BY <2>2, <2>6, <2>8, <3>1
  <2> QED BY <2>1, <2>2, <2>5, <2>9
<1>15. 10 + n >= 10 + n /\ (10 + n) + j >= 10 + n BY <1>0 DEF Words
<1>16. After(p, Ipv4HdrLen) = payload BY <1>12, ReadAfter DEF Ipv4HdrLen
<1>17. Sum(From(p, 1, Ipv4HdrLen)) % MaxWord = 0
  BY <1>11, <1>12, <1>14, <1>15 DEF Ipv4HdrLen
<1> QED BY <1>1, <1>12, <1>13, <1>14, <1>15, <1>16, <1>17 DEF q, Ipv4Carries

(* UDP: the checksum over the pseudo-header and the segment holds, it is   *)
(* never 0, and parse gives what UdpHeader::finish was given.              *)
UdpCarries(src, dst, sport, dport, payload, n) ==
    LET s == UdpFinish(src, dst, sport, dport, payload) IN
    /\ Words(s, 4 + n) /\ s[4] # 0
    /\ (PseudoSum(src, dst, Len(s)) + Sum(s)) % MaxWord = 0
    /\ UdpParse(src, dst, s) = {[sport |-> sport, dport |-> dport, payload |-> payload]}

LEMMA UdpLayer ==
    ASSUME NEW src, Words(src, 2), NEW dst, Words(dst, 2), NEW sport \in Word, NEW dport \in Word,
           NEW payload, NEW n, Words(payload, n), Ipv4HdrLen + UdpHdrLen + n <= MaxWord
    PROVE  UdpCarries(src, dst, sport, dport, payload, n)
<1> DEFINE len == 4 + n
           four(c) == <<sport, dport, len, c>>
           seg(c) == four(c) \o payload
           m == PseudoSum(src, dst, len)
           c0 == ChecksumFinish(m + Sum(seg(0)))
           c1 == IF c0 = 0 THEN MaxWord ELSE c0
           s == seg(c1)
<1>0. /\ n \in Nat /\ Len(payload) = n /\ n + 14 <= MaxWord /\ UdpHdrLen + Len(payload) = len
      /\ len \in Nat /\ len \in Word
  <2>1. n \in Nat /\ Len(payload) = n BY DEF Words
  <2>2. 10 + 4 + n <= MaxWord BY DEF Ipv4HdrLen, UdpHdrLen
  <2> QED BY <2>1, <2>2, WordFacts DEF UdpHdrLen
<1>1. UdpFinish(src, dst, sport, dport, payload) = s BY <1>0 DEF UdpFinish
<1>2. ASSUME NEW c \in Word
      PROVE  /\ Words(four(c), 4) /\ Words(seg(c), len)
             /\ Piece(seg(c), 0, four(c)) /\ Piece(seg(c), 4, payload)
  <2>1. Words(four(c), 4) BY <1>0 DEF Words
  <2>2. Joins(seg(c), four(c), payload) BY DEF Joins
  <2> HIDE DEF four, seg
  <2> QED BY <2>1, <2>2, Appended
<1>3. \A c : four(c) = <<sport, dport, len, c>> OBVIOUS
<1> HIDE DEF four, seg, len
<1>4. ASSUME NEW c \in Word
      PROVE  /\ seg(c)[1] = sport /\ seg(c)[2] = dport /\ seg(c)[3] = len /\ seg(c)[4] = c
             /\ \A i \in 1 .. len : 4 # i => seg(0)[i] = seg(c)[i]
  <2>0. 0 \in Word BY WordFacts
  <2>1. /\ \A i \in 1 .. 4 : seg(c)[i] = four(c)[i] /\ seg(0)[i] = four(0)[i]
        /\ Piece(seg(c), 4, payload) /\ Piece(seg(0), 4, payload)
    BY <1>2, <2>0, ReadWords
  <2>2. /\ seg(c)[1] = sport /\ seg(c)[2] = dport /\ seg(c)[3] = len /\ seg(c)[4] = c
        /\ seg(0)[1] = sport /\ seg(0)[2] = dport /\ seg(0)[3] = len
    BY <1>3, <2>1
  <2>3. \A i \in 1 .. n : seg(c)[4 + i] = payload[i] /\ seg(0)[4 + i] = payload[i]
    BY <1>0, <2>1 DEF Piece
  <2>4. ASSUME NEW i \in 1 .. len, 4 # i PROVE seg(0)[i] = seg(c)[i]
    <3>1. CASE i < 4
      <4>1. i = 1 \/ i = 2 \/ i = 3 BY <1>0, <3>1
      <4> QED BY <2>2, <4>1
    <3>2. CASE ~(i < 4)
      <4>1. i - 4 \in 1 .. n /\ 4 + (i - 4) = i BY <1>0, <2>4, <3>2 DEF len
      <4>2. seg(c)[4 + (i - 4)] = seg(0)[4 + (i - 4)] BY <2>3, <4>1
      <4> QED BY <4>1, <4>2
    <3> QED BY <3>1, <3>2
  <2> QED BY <2>2, <2>4
<1>5. m \in Nat /\ m > 0 /\ m <= 5 * MaxWord
  <2>1. src \in Seq(Word) /\ dst \in Seq(Word) /\ Len(src) = 2 /\ Len(dst) = 2 BY DEF Words
  <2>2. Sum(src) \in Nat /\ Sum(dst) \in Nat /\ Sum(src) <= 2 * MaxWord /\ Sum(dst) <= 2 * MaxWord
    BY <2>1, SumBounds
  <2>3. m = Sum(src) + Sum(dst) + 1 + len BY DEF PseudoSum, ProtoUdp
  <2>4. len + 1 <= MaxWord BY <1>0, WordFacts DEF len
  <2> QED BY <1>0, <2>2, <2>3, <2>4, WordFacts
<1> HIDE DEF m
<1>6. Summed(m, seg(0), len)
  <2>1. Words(seg(0), len) BY <1>2, WordFacts
  <2>2. m + (len * MaxWord + MaxWord) < WordSize * WordSize
    <3> DEFINE k == 5 + len
    <3>1. k \in Nat /\ k + 1 <= WordSize BY <1>0, WordFacts DEF len
    <3>2. k * MaxWord + MaxWord < WordSize * WordSize
      <4> HIDE DEF k
      <4> QED BY <3>1, SquareIsLarge
    <3>3. k * MaxWord = 5 * MaxWord + len * MaxWord BY <1>0, WordFacts, Distributes
    <3>4. len * MaxWord \in Nat /\ WordSize * WordSize \in Nat /\ MaxWord \in Nat
      BY <1>0, WordFacts
    <3> DEFINE a == len * MaxWord
               b == WordSize * WordSize
               km == k * MaxWord
    <3>5. km + MaxWord < b /\ km = 5 * MaxWord + a /\ a \in Nat /\ b \in Nat /\ MaxWord \in Nat
      BY <3>2, <3>3, <3>4
    <3> HIDE DEF a, b, km, k
    <3>6. m + (a + MaxWord) < b BY <1>5, <3>5
    <3> QED BY <3>6 DEF a, b
  <2> QED BY <1>5, <2>1, <2>2 DEF Summed
<1>7. c0 \in Word BY <1>6, FinishIsWord
<1>8. c1 \in Word /\ c1 # 0 BY <1>7, WordFacts
<1>9. c1 = c0 \/ (c0 = 0 /\ c1 = MaxWord) OBVIOUS
<1> HIDE DEF c1
<1>10. /\ Words(s, len) /\ Words(four(c1), 4) /\ Piece(s, 0, four(c1)) /\ Piece(s, 4, payload)
       /\ s[1] = sport /\ s[2] = dport /\ s[3] = len /\ s[4] = c1
  BY <1>2, <1>4, <1>8
<1>11. ChecksumFinish(m + Sum(s)) = 0 /\ (m + Sum(s)) % MaxWord = 0
  <2>1. 4 \in 1 .. len BY <1>0 DEF len
  <2>2. seg(0)[4] = 0 /\ \A i \in 1 .. len : 4 # i => seg(0)[i] = s[i] BY <1>4, <1>8, WordFacts
  <2>3. \/ s[4] = ChecksumFinish(m + Sum(seg(0)))
        \/ ChecksumFinish(m + Sum(seg(0))) = 0 /\ s[4] = MaxWord
    BY <1>9, <1>10
  <2> HIDE DEF s, c0
  <2> QED BY <1>6, <1>10, <2>1, <2>2, <2>3, FinishChecks
<1> HIDE DEF s, c0
<1>12. Len(s) = len /\ Words(s, 4 + n) BY <1>10 DEF Words, len
<1>13. SubSeq(s, 1, s[3]) = s
  <2>1. s \in Seq(Word) BY <1>10 DEF Words
  <2>2. s = SubSeq(s, 1, Len(s)) BY <2>1
  <2> QED BY <1>10, <1>12, <2>2
<1>14. After(s, UdpHdrLen) = payload BY <1>10, <1>12, ReadAfter DEF UdpHdrLen
<1>15. UdpParse(src, dst, s) = {[sport |-> sport, dport |-> dport, payload |-> payload]}
  <2>1. ~(Len(s) < UdpHdrLen) /\ ~(s[3] < UdpHdrLen) /\ ~(s[3] > Len(s))
    BY <1>0, <1>10, <1>12 DEF UdpHdrLen, len
  <2>2. ChecksumFinish(PseudoSum(src, dst, s[3]) + Sum(SubSeq(s, 1, s[3]))) = 0
    BY <1>10, <1>11, <1>13 DEF m
  <2> QED BY <1>10, <1>13, <1>14, <2>1, <2>2 DEF UdpParse
<1>16. (PseudoSum(src, dst, Len(s)) + Sum(s)) % MaxWord = 0 BY <1>11, <1>12 DEF m
<1> QED BY <1>1, <1>8, <1>10, <1>12, <1>15, <1>16 DEF UdpCarries

(* A tag is a number.                                                    *)
LEMMA MacType ==
    ASSUME NEW msg \in Seq(Word), NEW r \in Key, NEW s \in Nat
    PROVE  Mac(r, s, msg) \in Nat
<1> DEFINE h == Settled(Context(msg, r), r)
<1>1. h \in Key BY SettledIsPolynomial DEF Key
<1>2. Mac(r, s, msg) = (ToBlock(h) + s) % BlockSize BY ContextOfOne DEF Mac, Finalize
<1> HIDE DEF h
<1>3. ToBlock(h) \in Nat /\ BlockSize \in Nat \ {0} BY <1>1, ToBlockLeaves
<1>4. (ToBlock(h) + s) % BlockSize \in Nat BY <1>3
<1> QED BY <1>2, <1>4

(* to_le_bytes gives words, as many as a tag has.                          *)
LEMMA TagIsWords ==
    ASSUME NEW t \in Nat
    PROVE  Words(TagWords(t), TagLen)
<1> DEFINE n == TagLen
           Step(v, i) == v \div WordSize
           U == CHOOSE f : f = [i \in 0 .. n |-> IF i = 0 THEN t ELSE Step(f[i - 1], i)]
           G == [i \in 1 .. n |-> [v \in Nat |-> Step(v, i)]]
<1>0. n \in Nat /\ n >= 1 BY Widths DEF TagLen
<1>1. ASSUME NEW v \in Nat, NEW i \in 1 .. n PROVE Step(v, i) \in Nat BY Widths
<1>2. TagWords(t) = [i \in 1 .. n |-> U[i - 1] % WordSize] BY DEF TagWords
<1> HIDE DEF Step, n
<1>3. Steps(Nat, n, t, G) BY <1>0, <1>1 DEF Steps
<1>4. \A v \in Nat, i \in 1 .. n : G[i][v] = Step(v, i) OBVIOUS
<1> HIDE DEF G
<1>5. PICK f : Follows(Nat, n, t, G, f) BY <1>3, Recursion
<1>6. f = [i \in 0 .. n |-> IF i = 0 THEN t ELSE Step(f[i - 1], i)]
  <2>1. f \in [0 .. n -> Nat] /\ f[0] = t BY <1>5 DEF Follows
  <2>2. ASSUME NEW i \in 1 .. n PROVE f[i] = Step(f[i - 1], i)
    <3>1. f[i - 1] \in Nat BY <1>0, <2>1
    <3> QED BY <1>4, <1>5, <3>1 DEF Follows
  <2> QED BY <1>0, <2>1, <2>2
<1>7. U = [i \in 0 .. n |-> IF i = 0 THEN t ELSE Step(U[i - 1], i)] BY <1>6
<1> HIDE DEF U
<1>8. U = [i \in 0 .. n |-> U[i]] /\ U[0] = t /\ \A i \in 1 .. n : U[i] = Step(U[i - 1], i)
  BY <1>0, <1>7
<1>9. \A i \in 1 .. n : U[i - 1] \in Nat => U[i] = G[i][U[i - 1]] BY <1>4, <1>8
<1>10. Follows(Nat, n, t, G, U) BY <1>3, <1>8, <1>9, StaysIn
<1>11. U \in [0 .. n -> Nat] BY <1>10 DEF Follows
<1>12. ASSUME NEW i \in 1 .. n PROVE U[i - 1] % WordSize \in Word
  <2>1. U[i - 1] \in Nat BY <1>0, <1>11
  <2> QED BY <2>1, Widths DEF Word
<1>13. [i \in 1 .. n |-> U[i - 1] % WordSize] \in [1 .. n -> Word] BY <1>12
<1> DEFINE w == [i \in 1 .. n |-> U[i - 1] % WordSize]
<1>14. w \in [1 .. n -> Word] BY <1>13
<1> HIDE DEF w
<1>15. w \in Seq(Word) /\ Len(w) = n BY <1>0, <1>14
<1> QED BY <1>0, <1>2, <1>15 DEF Words, w, n

(* A record: what seal writes, open finds, and the tag behind it.          *)
RecordCarries(sid, off, ct, n, tag) ==
    LET h == [ctype |-> Data, sid |-> sid, off |-> off, len |-> n]
        a == RecordWrite(h) \o ct
        rec == a \o tag
    IN  /\ Words(a, 7 + n) /\ Words(rec, (7 + n) + TagLen)
        /\ RecordParse(rec) = {h}
        /\ SubSeq(rec, 1, RecordHdrLen + n) = a /\ After(rec, RecordHdrLen + n) = tag
        /\ From(rec, RecordHdrLen + 1, n) = ct

LEMMA RecordLayer ==
    ASSUME NEW sid \in Word, NEW off, Words(off, 4), NEW ct, NEW n, Words(ct, n), n \in Word,
           n <= MaxRecordPayload, NEW tag, Words(tag, TagLen)
    PROVE  RecordCarries(sid, off, ct, n, tag)
<1> DEFINE h == [ctype |-> Data, sid |-> sid, off |-> off, len |-> n]
           w == <<Data * 2 + QtlsVersion, sid>>
           l == <<n>>
           p1 == w \o off
           p2 == p1 \o l
           a == p2 \o ct
           rec == a \o tag
<1>0. n \in Nat /\ TagLen \in Nat BY Widths DEF Words, TagLen
<1>1. Words(w, 2)
  <2>1. 7 \in Word BY WordFacts
  <2>2. Data * 2 + QtlsVersion = 7 BY DEF Data, QtlsVersion
  <2> QED BY <2>1, <2>2 DEF Words
<1>2. Words(l, 1) BY ReadWord
<1>3. Joins(p1, w, off) /\ Joins(p2, p1, l) /\ Joins(a, p2, ct) /\ Joins(rec, a, tag) BY DEF Joins
<1>4. RecordWrite(h) \o ct = a BY DEF RecordWrite
<1>5. w[1] = 7 /\ w[2] = sid BY DEF Data, QtlsVersion
<1> HIDE DEF w, l, p1, p2, a, rec
<1>6. Words(p1, 6) /\ Piece(p1, 0, w) /\ Piece(p1, 2, off) BY <1>1, <1>3, Appended
<1>7. Words(p2, 7) /\ Piece(p2, 0, w) /\ Piece(p2, 2, off) /\ Piece(p2, 6, l)
  BY <1>1, <1>2, <1>3, <1>6, Appended, Kept
<1>8. /\ Words(a, 7 + n) /\ Piece(a, 0, w) /\ Piece(a, 2, off) /\ Piece(a, 6, l)
      /\ Piece(a, 7, ct)
  BY <1>1, <1>2, <1>3, <1>7, Appended, Kept
<1>9. /\ Words(rec, (7 + n) + TagLen) /\ Piece(rec, 0, w) /\ Piece(rec, 2, off)
      /\ Piece(rec, 6, l) /\ Piece(rec, 7, ct) /\ Piece(rec, 0, a) /\ Piece(rec, 7 + n, tag)
  BY <1>0, <1>1, <1>2, <1>3, <1>8, Appended, Kept
<1>10. From(rec, 3, 4) = off BY <1>9, ReadFrom
<1>11. From(rec, 8, n) = ct BY <1>9, ReadFrom
<1>12. rec[7] = n BY <1>9, ReadWord DEF l
<1>13. rec[1] = 7 /\ rec[2] = sid
  <2>1. \A i \in 1 .. 2 : rec[i] = w[i] BY <1>1, <1>9, ReadWords
  <2> QED BY <1>5, <2>1
<1>14. SubSeq(rec, 1, 7 + n) = a
  <2>1. \A i, last : i = 0 + 1 /\ last = 0 + (7 + n) => SubSeq(rec, i, last) = a
    BY <1>8, <1>9, ReadPiece
  <2>2. 0 + (7 + n) = 7 + n BY <1>0
  <2> QED BY <2>1, <2>2
<1>15. After(rec, 7 + n) = tag
  <2> DEFINE k == 7 + n
  <2>1. k \in Nat /\ Words(rec, k + TagLen) /\ Piece(rec, k, tag) BY <1>0, <1>9
  <2> HIDE DEF k
  <2>2. After(rec, k) = tag BY <2>1, ReadAfter
  <2> QED BY <2>2 DEF k
<1>16. Len(rec) = (7 + n) + TagLen BY <1>9 DEF Words
<1>17. RecordParse(rec) = {h}
  <2>1. ~(Len(rec) < RecordHdrLen + TagLen) BY <1>0, <1>16 DEF RecordHdrLen
  <2>2. rec[1] % 2 = QtlsVersion /\ rec[1] \div 2 = Data /\ Data \in 1 .. 4
    BY <1>13 DEF QtlsVersion, Data
  <2>3. Len(rec) = RecordHdrLen + rec[7] + TagLen BY <1>12, <1>16 DEF RecordHdrLen
  <2>4. ~(rec[7] > MaxRecordPayload) BY <1>0, <1>12, WireAssumption
  <2> QED BY <1>10, <1>12, <1>13, <2>1, <2>2, <2>3, <2>4 DEF RecordParse
<1>18. RecordHdrLen = 7 /\ RecordHdrLen + 1 = 8 BY DEF RecordHdrLen
<1> QED BY <1>4, <1>8, <1>9, <1>11, <1>14, <1>15, <1>17, <1>18 DEF rec, RecordCarries

(* The addresses and the session of the example are words.                 *)
LEMMA AddressesAreWords ==
    /\ \A n \in Node : Words(Mac48[n], 3) /\ Words(Ip[n], 2) /\ Peer(n) \in Node
    /\ Words(Broadcast, 3) /\ Words(<<0, 0, 0>>, 3) /\ Words(<<0, 0>>, 2) /\ Words(<<>>, 0)
    /\ Words(KeyOffset, 4)
    /\ Session.sport \in Word /\ Session.dport \in Word /\ Session.sid \in Word
    /\ EtherArp \in Word /\ EtherIpv4 \in Word /\ 1 \in Word /\ 2 \in Word
<1>1. /\ 0 \in Word /\ 1 \in Word /\ 2 \in Word /\ 5 \in Word /\ 8 \in Word /\ 9 \in Word
      /\ 32 \in Word /\ 40 \in Word /\ 41 \in Word /\ 43 \in Word /\ 48 \in Word /\ 50 \in Word
      /\ MaxWord \in Word
  BY WordFacts
<1>2. ASSUME NEW n \in Node PROVE Words(Mac48[n], 3) /\ Words(Ip[n], 2) /\ Peer(n) \in Node
  <2>1. CASE n = "A" BY <1>1, <2>1 DEF Mac48, Ip, Peer, Node, Words
  <2>2. CASE n = "B" BY <1>1, <2>2 DEF Mac48, Ip, Peer, Node, Words
  <2> QED BY <2>1, <2>2 DEF Node
<1>3. Words(Broadcast, 3) /\ Words(<<0, 0, 0>>, 3) /\ Words(<<0, 0>>, 2) /\ Words(<<>>, 0)
  BY <1>1 DEF Broadcast, Words
<1>4. Words(KeyOffset, 4) BY <1>1 DEF KeyOffset, Words
<1> QED BY <1>1, <1>2, <1>3, <1>4 DEF Session, EtherArp, EtherIpv4

(* What a node sees of an ARP frame for it, padded or not.                 *)
ArpSeen(n, op, dst, tha, pad) ==
    LET f == ArpFrame(n, op, dst, tha)
        a == [op |-> op, sha |-> Mac48[n], spa |-> Ip[n], tha |-> tha, tpa |-> Ip[Peer(n)]]
    IN  /\ \E l : Words(f, l)
        /\ f[7] = EtherArp
        /\ \A g \in {f, f \o pad} : ArpsFor(Peer(n), g) = {a}

LEMMA ArpArrives ==
    ASSUME NEW n \in Node, NEW op \in Word, NEW dst \in {Mac48[Peer(n)], Broadcast},
           NEW tha, Words(tha, 3), NEW pad, NEW j, Words(pad, j)
    PROVE  ArpSeen(n, op, dst, tha, pad)
<1> DEFINE src == Mac48[n]
           a == [op |-> op, sha |-> src, spa |-> Ip[n], tha |-> tha, tpa |-> Ip[Peer(n)]]
           w == ArpWrite(a)
           f == EthWrite(dst, src, EtherArp, w)
           E(p) == [dst |-> dst, src |-> src, type |-> EtherArp, payload |-> p]
<1>1. /\ Words(src, 3) /\ Words(Ip[n], 2) /\ Words(Ip[Peer(n)], 2) /\ Words(dst, 3)
      /\ EtherArp \in Word
  BY AddressesAreWords
<1>2. Words(w, ArpLen) /\ ArpParse(w) = {a} /\ ArpParse(w \o pad) = {a} BY <1>1, ArpLayer
<1>3. ArpFrame(n, op, dst, tha) = f BY DEF ArpFrame
<1> HIDE DEF w, src
<1>4. /\ Words(f, 7 + ArpLen) /\ f[7] = EtherArp /\ EthParse(f) = {E(w)}
      /\ f \o pad = EthWrite(dst, src, EtherArp, w \o pad)
  <2>1. EthCarries(dst, src, EtherArp, w, ArpLen) BY <1>1, <1>2, EthLayer
  <2> QED BY <2>1 DEF EthCarries
<1>5. EthParse(f \o pad) = {E(w \o pad)}
  <2>1. Joins(w \o pad, w, pad) BY DEF Joins
  <2>2. Words(w \o pad, ArpLen + j) BY <1>2, <2>1, Appended
  <2>3. EthCarries(dst, src, EtherArp, w \o pad, ArpLen + j) BY <1>1, <2>2, EthLayer
  <2> QED BY <1>4, <2>3 DEF EthCarries
<1>6. ASSUME NEW g, NEW p, EthParse(g) = {E(p)}, ArpParse(p) = {a} PROVE ArpsFor(Peer(n), g) = {a}
  <2>1. ForMe(Peer(n), g, EtherArp) = {E(p)} BY <1>6 DEF ForMe
  <2>2. UNION {ArpParse(e.payload) : e \in {E(p)}} = ArpParse(p) OBVIOUS
  <2>3. UNION {ArpParse(e.payload) : e \in ForMe(Peer(n), g, EtherArp)} = {a} BY <1>6, <2>1, <2>2
  <2> QED BY <2>3 DEF ArpsFor
<1>7. ArpsFor(Peer(n), f) = {a} /\ ArpsFor(Peer(n), f \o pad) = {a} BY <1>2, <1>4, <1>5, <1>6
<1> QED BY <1>3, <1>4, <1>7 DEF src, ArpSeen

(* A frame of another type, or that begins as IPv4 does, is no ARP.        *)
LEMMA NoArp ==
    ASSUME NEW S, NEW g \in Seq(S), NEW n, g[7] # EtherArp \/ g[8] # 1
    PROVE  ArpsFor(n, g) = {}
<1> SUFFICES ASSUME NEW a \in ArpsFor(n, g) PROVE FALSE OBVIOUS
<1>1. PICK e \in EthParse(g) : e.type = EtherArp /\ a \in ArpParse(e.payload)
  BY DEF ArpsFor, ForMe
<1> DEFINE p == After(g, EthHdrLen)
<1>2. ~(Len(g) < 7) /\ g[7] = EtherArp /\ e.payload = p BY <1>1 DEF EthParse, EthHdrLen
<1>3. ~(Len(p) < 14) /\ From(p, 1, 3) = ArpFixed BY <1>1, <1>2 DEF ArpParse, ArpLen
<1>4. p \in Seq(S) /\ Len(p) = Len(g) - 7 /\ \A i \in 1 .. Len(g) - 7 : p[i] = g[7 + i]
  <2>0. Len(g) \in Nat /\ 7 <= Len(g) BY <1>2
  <2>1. p = SubSeq(g, 8, Len(g)) BY DEF After, EthHdrLen
  <2>2. 8 \in Int /\ Len(g) \in Nat /\ 7 <= Len(g) /\ \A i \in 8 .. Len(g) : g[i] \in S BY <1>2
  <2>3. /\ p \in Seq(S) /\ Len(p) = IF 8 <= Len(g) THEN Len(g) - 8 + 1 ELSE 0
        /\ \A i \in 1 .. Len(g) - 8 + 1 : p[i] = g[8 + i - 1]
    BY <2>1, <2>2, SubSeqProperties
  <2> HIDE DEF p
  <2>4. \A i \in 1 .. Len(g) - 7 : i \in 1 .. Len(g) - 8 + 1 /\ 8 + i - 1 = 7 + i BY <2>2
  <2>5. Len(p) = Len(g) - 7
    <3>1. CASE 8 <= Len(g) BY <2>2, <2>3, <3>1
    <3>2. CASE ~(8 <= Len(g))
      <4>1. Len(p) = 0 BY <2>3, <3>2
      <4>2. \A l \in Nat : 7 <= l /\ ~(8 <= l) => l = 7 OBVIOUS
      <4>3. Len(g) = 7 BY <2>0, <3>2, <4>2
      <4> QED BY <4>1, <4>3
    <3> QED BY <3>1, <3>2
  <2> QED BY <2>3, <2>4, <2>5
<1>5. 1 \in 1 .. Len(g) - 7 /\ 7 + 1 = 8 BY <1>3, <1>4
<1>6. p[1] = g[8] BY <1>4, <1>5
<1>7. From(p, 1, 3)[1] = p[1]
  <2>1. From(p, 1, 3) = SubSeq(p, 1, 3) BY DEF From
  <2>2. \A i \in 1 .. 3 : p[i] \in S BY <1>3, <1>4
  <2> QED BY <1>4, <2>1, <2>2, SubSeqProperties
<1>8. ArpFixed[1] = 1 BY DEF ArpFixed
<1> QED BY <1>2, <1>3, <1>6, <1>7, <1>8

(***************************************************************************)
(* The state: what is on the cable, and what has come of it.               *)
(***************************************************************************)

(* What Say seals, and the frame that carries it.                          *)
Said(ct, k) == [key |-> k, ct |-> ct, hdr |-> HeaderOf(ct)]

RecordFrame(x, id) ==
    EthWrite(Mac48["B"], Mac48["A"], EtherIpv4,
             Ipv4Write(Ip["A"], Ip["B"], id,
                       UdpFinish(Ip["A"], Ip["B"], Session.sport, Session.dport, SealedRecord(x))))

(* What seal writes is a record, and open gives it back under its key.     *)
LEMMA SealedOpens ==
    ASSUME NEW ct \in Payloads, NEW k \in MacKeys
    PROVE  LET x == Said(ct, k) IN
           /\ Words(SealedRecord(x), 7 + Len(ct) + TagLen) /\ Len(ct) \in Nat
           /\ 10 + 4 + (7 + Len(ct) + TagLen) <= MaxWord
           /\ RecordParse(SealedRecord(x)) = {x.hdr}
           /\ Open([hdr |-> x.hdr, rec |-> SealedRecord(x)], k) = <<[hdr |-> x.hdr, ct |-> ct]>>
<1> DEFINE x == Said(ct, k)
           n == Len(ct)
           a == RecordWrite(HeaderOf(ct)) \o ct
           tag == TagWords(Tag(k, a))
           rec == a \o tag
<1>1. /\ ct \in Seq(0 .. MaxWord) /\ Ipv4HdrLen + UdpHdrLen + RecordHdrLen + n + TagLen <= MaxWord
  BY WireAssumption
<1>2. TagLen \in Nat /\ n \in Nat BY <1>1, Widths DEF TagLen
<1>3. 10 + 4 + (7 + n + TagLen) <= MaxWord
  BY <1>1, <1>2 DEF Ipv4HdrLen, UdpHdrLen, RecordHdrLen
<1>4. Words(ct, n) /\ n \in Word /\ n <= MaxRecordPayload
  <2>1. n \in 0 .. MaxWord BY <1>2, <1>3, WordFacts
  <2>2. n <= MaxRecordPayload BY WireAssumption
  <2> QED BY <1>1, <1>2, <2>1, <2>2, WordFacts DEF Words
<1>5. Authenticated(x) = a /\ SealedRecord(x) = rec
  BY DEF Authenticated, SealedRecord, Said
<1>6. a \in Seq(Word)
  <2>1. Authenticated(x) \in Seq(Word) BY SaidIsWords DEF Said
  <2> QED BY <1>5, <2>1
<1>7. k.r \in Key /\ k.s \in Nat BY WireAssumption DEF Key
<1>8. Words(tag, TagLen)
  <2>1. Tag(k, a) \in Nat BY <1>6, <1>7, MacType DEF Tag
  <2> HIDE DEF a
  <2> QED BY <2>1, TagIsWords
<1>9. RecordCarries(Session.sid, KeyOffset, ct, n, tag)
  <2> HIDE DEF tag
  <2> QED BY <1>4, <1>8, AddressesAreWords, RecordLayer
<1>10. /\ Words(rec, (7 + n) + TagLen) /\ RecordParse(rec) = {HeaderOf(ct)}
       /\ SubSeq(rec, 1, RecordHdrLen + n) = a /\ After(rec, RecordHdrLen + n) = tag
       /\ From(rec, RecordHdrLen + 1, n) = ct
  <2> HIDE DEF tag
  <2> QED BY <1>9 DEF RecordCarries, HeaderOf
<1>11. x.hdr = HeaderOf(ct) /\ HeaderOf(ct).len = n BY DEF Said, HeaderOf
<1> HIDE DEF x, rec, a
<1>12. Open([hdr |-> HeaderOf(ct), rec |-> rec], k) = <<[hdr |-> HeaderOf(ct), ct |-> ct]>>
  BY <1>10, <1>11 DEF Open
<1> QED BY <1>2, <1>3, <1>5, <1>10, <1>11, <1>12 DEF x

(* The frame that carries a record: its checksums hold, and B finds that   *)
(* one record in it, padded or not.                                        *)
LEMMA RecordArrives ==
    ASSUME NEW ct \in Payloads, NEW k \in MacKeys, NEW id \in Ids
    PROVE  LET x == Said(ct, k)
               f == RecordFrame(x, id)
           IN  /\ \E l \in Nat : Words(f, l) /\ l >= 28 + TagLen
               /\ f[7] = EtherIpv4 /\ f[8] = VersionIhl
               /\ ChecksumsHold(f)
               /\ \A g \in {f, f \o <<0, 0>>} :
                     /\ ArpsFor("B", g) = {}
                     /\ RecordsFor("B", g) = {[hdr |-> x.hdr, rec |-> SealedRecord(x)]}
<1> DEFINE x == Said(ct, k)
           f == RecordFrame(x, id)
           r == SealedRecord(x)
           pad == <<0, 0>>
           src == Ip["A"]
           dst == Ip["B"]
           to == Mac48["B"]
           from == Mac48["A"]
           n == 7 + Len(ct) + TagLen
           u == UdpFinish(src, dst, Session.sport, Session.dport, r)
           p == Ipv4Write(src, dst, id, u)
           E(q) == [dst |-> to, src |-> from, type |-> EtherIpv4, payload |-> q]
           I == [src |-> src, dst |-> dst, proto |-> ProtoUdp, payload |-> u]
           D == [sport |-> Session.sport, dport |-> Session.dport, payload |-> r]
<1>1. /\ Words(src, 2) /\ Words(dst, 2) /\ Words(to, 3) /\ Words(from, 3) /\ Words(pad, 2)
      /\ Session.sport \in Word /\ Session.dport \in Word /\ EtherIpv4 \in Word
  BY AddressesAreWords DEF Node
<1>2. /\ Words(r, n) /\ n \in Nat /\ 10 + 4 + n <= MaxWord /\ RecordParse(r) = {x.hdr}
      /\ n >= 7 + TagLen
  <2>1. TagLen \in Nat BY Widths DEF TagLen
  <2>2. /\ Words(r, n) /\ Len(ct) \in Nat /\ 10 + 4 + n <= MaxWord /\ RecordParse(r) = {x.hdr}
    <3> HIDE DEF r, x
    <3> QED BY SealedOpens DEF r, x
  <2> QED BY <2>1, <2>2
<1>3. id \in Word BY WireAssumption, WordFacts
<1>4. f = EthWrite(to, from, EtherIpv4, p) BY DEF RecordFrame
<1>5. Ip["A"] # Ip["B"] /\ Peer("B") = "A" /\ src = Ip[Peer("B")] BY DEF Ip, Node, Peer
<1>6. x.hdr.sid = Session.sid BY DEF Said, HeaderOf
<1>7. EtherArp # EtherIpv4 BY DEF EtherArp, EtherIpv4
<1> HIDE DEF x, r, n, src, dst, to, from, pad, f
<1>8. UdpCarries(src, dst, Session.sport, Session.dport, r, n)
  BY <1>1, <1>2, UdpLayer DEF Ipv4HdrLen, UdpHdrLen
<1>9. /\ Words(u, 4 + n) /\ u[4] # 0 /\ (PseudoSum(src, dst, Len(u)) + Sum(u)) % MaxWord = 0
      /\ UdpParse(src, dst, u) = {D}
  BY <1>8 DEF UdpCarries
<1> HIDE DEF u
<1>10. Ipv4Carries(src, dst, id, u, 4 + n, pad)
  <2>1. Ipv4HdrLen + (4 + n) <= MaxWord BY <1>2 DEF Ipv4HdrLen
  <2> QED BY <1>1, <1>3, <1>9, <2>1, Ipv4Layer
<1>11. /\ Words(p, 10 + (4 + n)) /\ p[1] = VersionIhl
       /\ From(p, 7, 2) = src /\ From(p, 9, 2) = dst /\ After(p, Ipv4HdrLen) = u
       /\ Sum(From(p, 1, Ipv4HdrLen)) % MaxWord = 0
       /\ Ipv4Parse(p) = {I} /\ Ipv4Parse(p \o pad) = {I}
  BY <1>10 DEF Ipv4Carries
<1> HIDE DEF p
<1> DEFINE m == 10 + (4 + n)
<1>12. /\ Words(f, 7 + m) /\ f[7] = EtherIpv4 /\ Piece(f, 7, p) /\ EthParse(f) = {E(p)}
       /\ After(f, EthHdrLen) = p /\ f \o pad = EthWrite(to, from, EtherIpv4, p \o pad)
  <2> HIDE DEF m
  <2>1. EthCarries(to, from, EtherIpv4, p, m) BY <1>1, <1>11, EthLayer DEF m
  <2> QED BY <1>1, <1>4, <2>1 DEF EthCarries
<1>13. EthParse(f \o pad) = {E(p \o pad)}
  <2>1. Joins(p \o pad, p, pad) BY DEF Joins
  <2>2. Words(p \o pad, m + 2) BY <1>1, <1>11, <2>1, Appended
  <2> HIDE DEF m
  <2>3. EthCarries(to, from, EtherIpv4, p \o pad, m + 2) BY <1>1, <2>2, EthLayer
  <2> QED BY <1>12, <2>3 DEF EthCarries
<1>14. f[8] = VersionIhl
  <2>1. 1 \in 1 .. Len(p) /\ 7 + 1 = 8 BY <1>2, <1>11 DEF Words
  <2>2. f[7 + 1] = p[1] BY <1>12, <2>1 DEF Piece
  <2> QED BY <1>11, <2>1, <2>2
<1>15. ChecksumsHold(f) BY <1>9, <1>11, <1>12 DEF ChecksumsHold
<1>16. ASSUME NEW g, NEW q, EthParse(g) = {E(q)}, Ipv4Parse(q) = {I}
       PROVE  /\ ArpsFor("B", g) = {}
              /\ RecordsFor("B", g) = {[hdr |-> x.hdr, rec |-> r]}
  <2>1. ForMe("B", g, EtherArp) = {} BY <1>7, <1>16 DEF ForMe
  <2>2. ArpsFor("B", g) = {} BY <2>1 DEF ArpsFor
  <2>3. ForMe("B", g, EtherIpv4) = {E(q)} BY <1>16 DEF ForMe, to
  <2>4. UNION {Ipv4Parse(e.payload) : e \in {E(q)}} = Ipv4Parse(q) OBVIOUS
  <2>5. PacketsFor("B", g) = {I} BY <1>16, <2>3, <2>4 DEF PacketsFor, dst
  <2>6. {j \in PacketsFor("B", g) : j.src = Ip[Peer("B")]} = {I} BY <1>5, <2>5
  <2>7. UNION {UdpParse(i.src, i.dst, i.payload) : i \in {I}} = UdpParse(src, dst, u) OBVIOUS
  <2>8. DatagramsFor("B", g) = {D} BY <1>9, <2>6, <2>7 DEF DatagramsFor
  <2>9. UNION {{[hdr |-> h, rec |-> d.payload] : h \in RecordParse(d.payload)} : d \in {D}}
          = {[hdr |-> x.hdr, rec |-> r]}
    BY <1>2
  <2>10. RecordsFor("B", g) = {[hdr |-> x.hdr, rec |-> r]} BY <1>6, <2>8, <2>9 DEF RecordsFor
  <2> QED BY <2>2, <2>10
<1>17. 7 + m \in Nat /\ 7 + m >= 28 + TagLen
  <2>1. TagLen \in Nat BY Widths DEF TagLen
  <2> QED BY <1>2, <2>1
<1>18. \A g \in {f, f \o pad} :
          /\ ArpsFor("B", g) = {}
          /\ RecordsFor("B", g) = {[hdr |-> x.hdr, rec |-> r]}
  <2>1. ArpsFor("B", f) = {} /\ RecordsFor("B", f) = {[hdr |-> x.hdr, rec |-> r]}
    BY <1>11, <1>12, <1>16
  <2>2. /\ ArpsFor("B", f \o pad) = {}
        /\ RecordsFor("B", f \o pad) = {[hdr |-> x.hdr, rec |-> r]}
    BY <1>11, <1>13, <1>16
  <2> QED BY <2>1, <2>2
<1> HIDE DEF m
<1> QED BY <1>12, <1>14, <1>15, <1>17, <1>18 DEF f, x, r, pad

(* The frames that run over the cable, and what their ARP packets say.     *)
AskFrame == ArpFrame("A", 1, Broadcast, <<0, 0, 0>>)
ReplyFrame == ArpFrame("B", 2, Mac48["A"], Mac48["A"])
AskRead == [op |-> 1, sha |-> Mac48["A"], spa |-> Ip["A"], tha |-> <<0, 0, 0>>, tpa |-> Ip["B"]]
ReplyRead ==
    [op |-> 2, sha |-> Mac48["B"], spa |-> Ip["B"], tha |-> Mac48["A"], tpa |-> Ip["A"]]
(* As the cable leaves it, or with padding behind it.                      *)
Carried(f) == IF carried THEN {f, f \o <<0, 0>>} ELSE {f}

(* On the cable is an ARP frame or what A sealed last, whole or padded, or *)
(* something altered that no ARP cache learns from.                        *)
CableOK ==
    cable # <<>> =>
        \E from, f :
           /\ cable = <<[from |-> from, frame |-> f]>>
           /\ \/ intact /\ from = "A" /\ f \in Carried(AskFrame)
              \/ intact /\ from = "B" /\ f \in Carried(ReplyFrame)
              \/ /\ intact /\ from = "A" /\ sealed # None
                 /\ \E id \in Ids : f \in Carried(RecordFrame(sealed, id))
              \/ ~intact /\ carried /\ from = "A" /\ ArpsFor("B", f) = {}

(* ARP has taught nothing yet, or the truth.                               *)
ArpOK ==
    /\ arp \in [Node -> {<<>>, Mac48["A"], Mac48["B"]}]
    /\ \A n \in Node : arp[n] \in {<<>>, Mac48[Peer(n)]}

(* What has come through is what A sealed.                                 *)
OpenedOK ==
    sealed # None /\ carried /\ intact /\ cable = <<>> =>
        opened = <<[hdr |-> sealed.hdr, ct |-> sealed.ct]>>

WireInv == SealedIsSaid /\ ArpOK /\ CableOK /\ OpenedOK

(* The two ARP frames, as they arrive.                                   *)
LEMMA AskArrives ==
    /\ \E l : Words(AskFrame, l)
    /\ AskFrame[7] = EtherArp
    /\ \A g \in {AskFrame, AskFrame \o <<0, 0>>} :
          ArpsFor("B", g) = {AskRead}
<1>1. "A" \in Node /\ Peer("A") = "B" BY DEF Node, Peer
<1>2. 1 \in Word /\ Words(<<0, 0, 0>>, 3) /\ Words(<<0, 0>>, 2) BY AddressesAreWords
<1>3. ArpSeen("A", 1, Broadcast, <<0, 0, 0>>, <<0, 0>>) BY <1>1, <1>2, ArpArrives
<1> QED BY <1>1, <1>3 DEF AskFrame, AskRead, ArpSeen

LEMMA ReplyArrives ==
    /\ \E l : Words(ReplyFrame, l)
    /\ ReplyFrame[7] = EtherArp
    /\ \A g \in {ReplyFrame, ReplyFrame \o <<0, 0>>} :
          ArpsFor("A", g) = {ReplyRead}
<1>1. "A" \in Node /\ "B" \in Node /\ Peer("B") = "A" BY DEF Node, Peer
<1>2. 2 \in Word /\ Words(Mac48["A"], 3) /\ Words(<<0, 0>>, 2) BY <1>1, AddressesAreWords
<1>3. ArpSeen("B", 2, Mac48["A"], Mac48["A"], <<0, 0>>) BY <1>1, <1>2, ArpArrives
<1> QED BY <1>1, <1>3 DEF ReplyFrame, ReplyRead, ArpSeen

(* What arrives of what A has sealed last, on any frame that carries it. *)
LEMMA SaidArrives ==
    ASSUME SealedIsSaid, sealed # None, NEW id \in Ids
    PROVE  LET f == RecordFrame(sealed, id) IN
           /\ \E l \in Nat : Words(f, l) /\ l >= 28 + TagLen
           /\ f[7] = EtherIpv4 /\ f[8] = VersionIhl
           /\ ChecksumsHold(f)
           /\ \A g \in {f, f \o <<0, 0>>} :
                 /\ ArpsFor("B", g) = {}
                 /\ RecordsFor("B", g) = {[hdr |-> sealed.hdr, rec |-> SealedRecord(sealed)]}
           /\ Open([hdr |-> sealed.hdr, rec |-> SealedRecord(sealed)], sealed.key)
                = <<[hdr |-> sealed.hdr, ct |-> sealed.ct]>>
<1>1. PICK ct \in Payloads, k \in MacKeys : sealed = Said(ct, k) BY DEF SealedIsSaid, Said
<1>2. sealed.key = k /\ sealed.ct = ct BY <1>1 DEF Said
<1>3. Open([hdr |-> sealed.hdr, rec |-> SealedRecord(sealed)], sealed.key)
        = <<[hdr |-> sealed.hdr, ct |-> sealed.ct]>>
  BY <1>1, <1>2, SealedOpens
<1>4. /\ \E l \in Nat : Words(RecordFrame(sealed, id), l) /\ l >= 28 + TagLen
      /\ RecordFrame(sealed, id)[7] = EtherIpv4 /\ RecordFrame(sealed, id)[8] = VersionIhl
      /\ ChecksumsHold(RecordFrame(sealed, id))
      /\ \A g \in {RecordFrame(sealed, id), RecordFrame(sealed, id) \o <<0, 0>>} :
            /\ ArpsFor("B", g) = {}
            /\ RecordsFor("B", g) = {[hdr |-> sealed.hdr, rec |-> SealedRecord(sealed)]}
  BY <1>1, RecordArrives
<1> QED BY <1>3, <1>4

(* What Tamper makes of a record is no ARP frame.                        *)
LEMMA AlteredIsNoArp ==
    ASSUME NEW f, NEW l \in Nat, Words(f, l), l >= 28 + TagLen, f[7] = EtherIpv4, f[8] = VersionIhl,
           NEW g \in Altered(f) \cup {Tampered(f)}
    PROVE  ArpsFor("B", g) = {}
<1>1. \E i \in 1 .. l : \E w :
         g = [f EXCEPT ![i] = w] \/ g = [f EXCEPT ![i] = w, ![21] = 0]
  <2>1. TagLen \in Nat BY Widths DEF TagLen
  <2>2. DOMAIN f = 1 .. l /\ Len(f) = l BY DEF Words
  <2>3. UdpChecksumAt = 21 BY DEF UdpChecksumAt, EthHdrLen, Ipv4HdrLen
  <2>4. CASE g \in Altered(f) BY <2>2, <2>3, <2>4 DEF Altered
  <2>5. CASE g = Tampered(f)
    <3>1. l - TagLen \in 1 .. l BY <2>1
    <3> QED BY <2>2, <2>3, <2>5, <3>1 DEF Tampered
  <2> QED BY <2>4, <2>5
<1>10. PICK i \in 1 .. l : \E w :
          g = [f EXCEPT ![i] = w] \/ g = [f EXCEPT ![i] = w, ![21] = 0]
  BY <1>1
<1>2. PICK w : g = [f EXCEPT ![i] = w] \/ g = [f EXCEPT ![i] = w, ![21] = 0]
  BY <1>10
<1> DEFINE T == Word \cup {w, 0}
<1>3. f \in [1 .. l -> T] BY DEF Words
<1>4. g \in [1 .. l -> T] BY <1>2, <1>3
<1>5. g \in Seq(T) BY <1>4
<1>6. TagLen \in Nat BY Widths DEF TagLen
<1>7. 7 \in 1 .. l /\ 8 \in 1 .. l BY <1>6
<1>8. CASE i = 7
  <2>1. g[8] = f[8] BY <1>2, <1>3, <1>7, <1>8
  <2>2. g[8] # 1 BY <2>1 DEF VersionIhl
  <2> QED BY <1>5, <2>2, NoArp
<1>9. CASE i # 7
  <2>1. g[7] = f[7] BY <1>2, <1>3, <1>7, <1>9
  <2>2. g[7] # EtherArp BY <2>1 DEF EtherArp, EtherIpv4
  <2> QED BY <1>5, <2>2, NoArp
<1> QED BY <1>8, <1>9

(* What the cable holds does not depend on the quantum link.             *)
LEMMA CableStays ==
    ASSUME CableOK, UNCHANGED <<cable, intact, carried, sealed>>
    PROVE  CableOK'
BY DEF CableOK, Carried

(* One lemma for each step.                                                *)
LEMMA AskOK == ASSUME WireInv, AskArp PROVE (ArpOK /\ CableOK /\ OpenedOK)'
<1>1. /\ cable' = <<[from |-> "A", frame |-> AskFrame]>> /\ ~carried' /\ intact'
      /\ arp' = arp
  BY DEF AskArp, Put, AskFrame
<1>2. CableOK' 
  <2>1. AskFrame \in {AskFrame} OBVIOUS
  <2> QED BY <1>1, <2>1 DEF CableOK, Carried
<1>3. OpenedOK' BY <1>1 DEF OpenedOK
<1> QED BY <1>1, <1>2, <1>3 DEF WireInv, ArpOK

LEMMA SayOK == ASSUME WireInv, Say PROVE (ArpOK /\ CableOK /\ OpenedOK)'
<1>1. arp["A"] = Mac48["B"] /\ arp' = arp
  <2>1. "A" \in Node /\ Peer("A") = "B" BY DEF Node, Peer
  <2> QED BY <2>1 DEF WireInv, ArpOK, Say
<1>2. PICK ct \in Payloads, k \in MacKeys, id \in Ids :
         /\ sealed' = Said(ct, k)
         /\ Put("A", UdpFrame("A", id, SealedRecord(Said(ct, k))))
  BY DEF Say, Said, HeaderOf
<1>3. UdpFrame("A", id, SealedRecord(Said(ct, k))) = RecordFrame(sealed', id)
  <2>1. Peer("A") = "B" BY DEF Peer
  <2> QED BY <1>1, <1>2, <2>1 DEF UdpFrame, RecordFrame
<1>4. /\ cable' = <<[from |-> "A", frame |-> RecordFrame(sealed', id)]>> /\ ~carried' /\ intact'
  BY <1>2, <1>3 DEF Put
<1>5. sealed' # None
  <2>1. Said(ct, k).ct = ct /\ DOMAIN Said(ct, k) = {"key", "ct", "hdr"} /\ DOMAIN None = {"key"}
    BY DEF Said, None
  <2>2. "ct" # "key" OBVIOUS
  <2> QED BY <1>2, <2>1, <2>2
<1>6. CableOK' BY <1>4, <1>5 DEF CableOK, Carried
<1>7. OpenedOK' BY <1>4 DEF OpenedOK
<1> QED BY <1>1, <1>6, <1>7 DEF WireInv, ArpOK

LEMMA PassOK == ASSUME WireInv, Pass PROVE (ArpOK /\ CableOK /\ OpenedOK)'
<1>1. PICK from, f :
         /\ cable = <<[from |-> from, frame |-> f]>>
         /\ intact
         /\ \/ from = "A" /\ f = AskFrame
            \/ from = "B" /\ f = ReplyFrame
            \/ /\ from = "A" /\ sealed # None
               /\ \E id \in Ids : f = RecordFrame(sealed, id)
  BY DEF WireInv, CableOK, Carried, Pass
<1>2. \E l : Words(f, l) BY <1>1, AskArrives, ReplyArrives, SaidArrives DEF WireInv
<1>3. f \o <<>> = f BY <1>2 DEF Words
<1>4. PICK pad \in {<<>>, <<0, 0>>} : cable' = [cable EXCEPT ![1].frame = @ \o pad] BY DEF Pass
<1>5. cable' = <<[from |-> from, frame |-> f \o pad]>>
  <2> DEFINE g == f \o pad
  <2>1. cable[1].frame = f BY <1>1
  <2>2. cable' = [cable EXCEPT ![1].frame = g] BY <1>4, <2>1
  <2> HIDE DEF g
  <2>3. cable' = <<[from |-> from, frame |-> g]>> BY <1>1, <2>2
  <2> QED BY <2>3 DEF g
<1>6. carried' /\ intact' = intact /\ sealed' = sealed /\ arp' = arp BY DEF Pass
<1>7. f \o pad \in {f, f \o <<0, 0>>} BY <1>3, <1>4
<1>8. CableOK' BY <1>1, <1>5, <1>6, <1>7 DEF CableOK, Carried
<1>9. OpenedOK' BY <1>5 DEF OpenedOK
<1> QED BY <1>6, <1>8, <1>9 DEF WireInv, ArpOK

LEMMA TamperOK == ASSUME WireInv, Tamper PROVE (ArpOK /\ CableOK /\ OpenedOK)'
<1>1. PICK from, f :
         /\ cable = <<[from |-> from, frame |-> f]>>
         /\ intact
         /\ \/ from = "A" /\ f = AskFrame
            \/ from = "B" /\ f = ReplyFrame
            \/ /\ from = "A" /\ sealed # None
               /\ \E id \in Ids : f = RecordFrame(sealed, id)
  BY DEF WireInv, CableOK, Carried, Tamper
<1>2. f[7] = EtherIpv4 BY <1>1 DEF Tamper, IsRecord
<1>3. PICK id \in Ids : from = "A" /\ sealed # None /\ f = RecordFrame(sealed, id)
  BY <1>1, <1>2, AskArrives, ReplyArrives DEF EtherIpv4, EtherArp
<1>4. PICK g \in Altered(f) \cup {Tampered(f)} : cable' = [cable EXCEPT ![1].frame = g]
  BY <1>1 DEF Tamper
<1>5. (\E l \in Nat : Words(f, l) /\ l >= 28 + TagLen) /\ f[8] = VersionIhl
  BY <1>3, SaidArrives DEF WireInv
<1>6. ArpsFor("B", g) = {} BY <1>2, <1>5, AlteredIsNoArp
<1>7. cable' = <<[from |-> from, frame |-> g]>> BY <1>1, <1>4
<1>8. carried' /\ ~intact' /\ arp' = arp BY DEF Tamper
<1>9. CableOK' BY <1>3, <1>6, <1>7, <1>8 DEF CableOK
<1>10. OpenedOK' BY <1>8 DEF OpenedOK
<1> QED BY <1>8, <1>9, <1>10 DEF WireInv, ArpOK

LEMMA DropOK == ASSUME WireInv, Drop PROVE (ArpOK /\ CableOK /\ OpenedOK)'
<1>1. cable' = <<>> /\ sealed' = None /\ arp' = arp BY DEF Drop
<1> QED BY <1>1 DEF WireInv, ArpOK, CableOK, OpenedOK, None

LEMMA ReceiveArpOK == ASSUME WireInv, ReceiveArp PROVE (ArpOK /\ CableOK /\ OpenedOK)'
<1>1. PICK from, f :
         /\ cable = <<[from |-> from, frame |-> f]>>
         /\ \/ intact /\ from = "A" /\ f \in {AskFrame, AskFrame \o <<0, 0>>}
            \/ intact /\ from = "B" /\ f \in {ReplyFrame, ReplyFrame \o <<0, 0>>}
            \/ from = "A" /\ ArpsFor("B", f) = {}
  <2>1. PICK from, f :
           /\ cable = <<[from |-> from, frame |-> f]>>
           /\ \/ intact /\ from = "A" /\ f \in {AskFrame, AskFrame \o <<0, 0>>}
              \/ intact /\ from = "B" /\ f \in {ReplyFrame, ReplyFrame \o <<0, 0>>}
              \/ /\ intact /\ from = "A" /\ sealed # None
                 /\ \E id \in Ids :
                       f \in {RecordFrame(sealed, id), RecordFrame(sealed, id) \o <<0, 0>>}
              \/ ~intact /\ carried /\ from = "A" /\ ArpsFor("B", f) = {}
    BY DEF WireInv, CableOK, Carried, ReceiveArp
  <2>2. ASSUME sealed # None, NEW id \in Ids,
               f \in {RecordFrame(sealed, id), RecordFrame(sealed, id) \o <<0, 0>>}
        PROVE  ArpsFor("B", f) = {}
    BY <2>2, SaidArrives DEF WireInv
  <2> QED BY <2>1, <2>2
<1>2. cable[1].from = from /\ cable[1].frame = f BY <1>1
<1>3. PICK a \in ArpsFor(Peer(from), f) :
         /\ arp' = IF a.spa = Ip[Peer(Peer(from))]
                   THEN [arp EXCEPT ![Peer(from)] = a.sha] ELSE arp
         /\ IF a.op = 1 THEN Put(Peer(from), ArpFrame(Peer(from), 2, a.sha, a.sha))
            ELSE cable' = <<>> /\ carried' = FALSE
  BY <1>2 DEF ReceiveArp
<1>4. Peer("A") = "B" /\ Peer("B") = "A" /\ "A" \in Node /\ "B" \in Node BY DEF Peer, Node
<1>5. CASE from = "A" /\ f \in {AskFrame, AskFrame \o <<0, 0>>}
  <2>1. a.op = 1 /\ a.sha = Mac48["A"]
    <3>1. Peer(from) = "B" BY <1>4, <1>5
    <3>2. a \in ArpsFor("B", f) BY <3>1
    <3>3. ArpsFor("B", f) = {AskRead}
      BY <1>5, AskArrives
    <3> QED BY <3>2, <3>3 DEF AskRead
  <2>2. arp' = arp \/ arp' = [arp EXCEPT !["B"] = Mac48["A"]] BY <1>3, <1>4, <1>5, <2>1
  <2>3. ArpOK' BY <1>4, <2>2 DEF WireInv, ArpOK
  <2>4. cable' = <<[from |-> "B", frame |-> ReplyFrame]>> /\ ~carried' /\ intact'
    BY <1>3, <1>4, <1>5, <2>1 DEF Put, ReplyFrame
  <2>5. CableOK' BY <2>4 DEF CableOK, Carried
  <2>6. OpenedOK' BY <2>4 DEF OpenedOK
  <2> QED BY <2>3, <2>5, <2>6
<1>6. CASE from = "B" /\ f \in {ReplyFrame, ReplyFrame \o <<0, 0>>}
  <2>1. a.op = 2 /\ a.sha = Mac48["B"]
    <3>1. Peer(from) = "A" BY <1>4, <1>6
    <3>2. a \in ArpsFor("A", f) BY <3>1
    <3>3. ArpsFor("A", f) = {ReplyRead}
      BY <1>6, ReplyArrives
    <3> QED BY <3>2, <3>3 DEF ReplyRead
  <2>2. arp' = arp \/ arp' = [arp EXCEPT !["A"] = Mac48["B"]] BY <1>3, <1>4, <1>6, <2>1
  <2>3. ArpOK' BY <1>4, <2>2 DEF WireInv, ArpOK
  <2>4. cable' = <<>> /\ ~carried' BY <1>3, <2>1
  <2>5. CableOK' /\ OpenedOK' BY <2>4 DEF CableOK, OpenedOK
  <2> QED BY <2>3, <2>5
<1>7. CASE from = "A" /\ ArpsFor("B", f) = {} BY <1>3, <1>4, <1>7
<1> QED BY <1>1, <1>5, <1>6, <1>7

LEMMA ReceiveRecordOK ==
    ASSUME WireInv, BlocksAreSound, ReceiveRecord
    PROVE  (ArpOK /\ CableOK /\ OpenedOK)'
<1>1. cable' = <<>> /\ arp' = arp /\ sealed' = sealed /\ intact' = intact /\ carried' = carried
  BY DEF ReceiveRecord
<1>2. CableOK' BY <1>1 DEF CableOK
<1>3. OpenedOK'
  <2> SUFFICES ASSUME sealed # None, intact
               PROVE  opened' = <<[hdr |-> sealed.hdr, ct |-> sealed.ct]>>
    BY <1>1 DEF OpenedOK
  <2>1. PICK from, f :
           /\ cable = <<[from |-> from, frame |-> f]>>
           /\ \/ from = "A" /\ f \in {AskFrame, AskFrame \o <<0, 0>>}
              \/ from = "B" /\ f \in {ReplyFrame, ReplyFrame \o <<0, 0>>}
              \/ /\ from = "A"
                 /\ \E id \in Ids :
                       f \in {RecordFrame(sealed, id), RecordFrame(sealed, id) \o <<0, 0>>}
    BY DEF WireInv, CableOK, Carried, ReceiveRecord
  <2>2. cable[1].from = from /\ cable[1].frame = f BY <2>1
  <2>3. ArpsFor(Peer(from), f) = {} BY <2>2 DEF ReceiveRecord
  <2>4. Peer("A") = "B" /\ Peer("B") = "A" BY DEF Peer
  <2>5. PICK id \in Ids :
           from = "A" /\ f \in {RecordFrame(sealed, id), RecordFrame(sealed, id) \o <<0, 0>>}
    BY <2>1, <2>3, <2>4, AskArrives, ReplyArrives
  <2> DEFINE x == [hdr |-> sealed.hdr, rec |-> SealedRecord(sealed)]
  <2>6. /\ RecordsFor("B", f) = {x}
        /\ Open(x, sealed.key) = <<[hdr |-> sealed.hdr, ct |-> sealed.ct]>>
    BY <2>5, SaidArrives DEF WireInv
  <2>7. x.hdr.off = KeyOffset
    <3>1. PICK ct \in Payloads, k \in MacKeys : sealed = Said(ct, k)
      BY DEF WireInv, SealedIsSaid, Said
    <3> QED BY <3>1 DEF Said, HeaderOf
  <2> HIDE DEF x
  <2>8. KeysAt(x.hdr.off) = {sealed.key} BY <2>7 DEF KeysAt, BlocksAreSound
  <2>9. \E y \in RecordsFor("B", f) : \E k \in KeysAt(y.hdr.off) : opened' = Open(y, k)
    BY <2>2, <2>4, <2>5, <2>6 DEF ReceiveRecord
  <2> QED BY <2>6, <2>8, <2>9
<1> QED BY <1>1, <1>2, <1>3 DEF WireInv, ArpOK

(* Whatever frame a run has put on the cable, its checksums hold, ARP      *)
(* teaches true addresses, and a frame that comes through gives B what A   *)
(* sealed.                                                                 *)
THEOREM WireAlwaysFaithful == Spec => []WireIsFaithful
<1>1. Init => ArpOK /\ CableOK /\ OpenedOK BY DEF Init, ArpOK, CableOK, OpenedOK, Node, None
<1>2. WireInv /\ BlocksAreSound /\ [Next]_vars => (ArpOK /\ CableOK /\ OpenedOK)'
  <2> SUFFICES ASSUME WireInv, BlocksAreSound, [Next]_vars PROVE (ArpOK /\ CableOK /\ OpenedOK)'
    OBVIOUS
  <2>1. CASE UNCHANGED nodeVars BY <2>1, CableStays DEF nodeVars, WireInv, ArpOK, OpenedOK, None
  <2>2. CASE AskArp BY <2>2, AskOK
  <2>3. CASE Say BY <2>3, SayOK
  <2>4. CASE Pass BY <2>4, PassOK
  <2>5. CASE Tamper BY <2>5, TamperOK
  <2>6. CASE Drop BY <2>6, DropOK
  <2>7. CASE ReceiveArp BY <2>7, ReceiveArpOK
  <2>8. CASE ReceiveRecord BY <2>8, ReceiveRecordOK
  <2>9. [Next]_vars => \/ UNCHANGED nodeVars \/ AskArp \/ Say \/ Pass \/ Tamper \/ Drop
                       \/ ReceiveArp \/ ReceiveRecord
    BY DEF Next, vars, Distribute
  <2> QED BY <2>1, <2>2, <2>3, <2>4, <2>5, <2>6, <2>7, <2>8, <2>9
<1>3. WireInv => WireIsFaithful
  <2> SUFFICES ASSUME WireInv PROVE WireIsFaithful OBVIOUS
  <2>1. ASSUME cable # <<>>, ~carried, IsRecord(cable[1].frame)
        PROVE  ChecksumsHold(cable[1].frame)
    <3>1. PICK from, f :
             /\ cable = <<[from |-> from, frame |-> f]>>
             /\ \/ f = AskFrame \/ f = ReplyFrame
                \/ sealed # None /\ \E id \in Ids : f = RecordFrame(sealed, id)
      BY <2>1 DEF WireInv, CableOK, Carried
    <3>2. f[7] = EtherIpv4 BY <2>1, <3>1 DEF IsRecord
    <3>3. sealed # None /\ \E id \in Ids : f = RecordFrame(sealed, id)
      BY <3>1, <3>2, AskArrives, ReplyArrives DEF EtherIpv4, EtherArp
    <3>4. ChecksumsHold(f) BY <3>3, SaidArrives DEF WireInv
    <3> QED BY <3>1, <3>4
  <2> QED BY <2>1 DEF WireIsFaithful, WireInv, ArpOK, OpenedOK
<1> QED BY <1>1, <1>2, <1>3, SaidInv, BlocksAlwaysSound, PTL DEF Spec, WireInv

(***************************************************************************)
(* The rounds of qphy.  States are written as their amplitudes, and what   *)
(* each gate and each measurement does to them is proved once.             *)
(***************************************************************************)

(* The first eight amplitudes of a state; the fourth qubit stays |0>.      *)
Vec(a, b, c, d, e, f, g, h) ==
    [i \in Basis |-> CASE i = 0 -> a [] i = 1 -> b [] i = 2 -> c [] i = 3 -> d
                       [] i = 4 -> e [] i = 5 -> f [] i = 6 -> g [] i = 7 -> h [] OTHER -> 0]

(* The basis states, one by one.                                           *)
LEMMA Indices ==
    /\ Basis = 0 .. 15
    /\ \A i \in Basis : \/ i = 0 \/ i = 1 \/ i = 2 \/ i = 3
                        \/ i = 4 \/ i = 5 \/ i = 6 \/ i = 7 \/ i \in 8 .. 15
BY DEF Basis

(* The bits of an index.                                                   *)
LEMMA Bits ==
    \A i \in Basis :
       /\ Bit(i, 0) = IF i \in {1, 3, 5, 7, 9, 11, 13, 15} THEN 1 ELSE 0
       /\ Bit(i, 1) = IF i \in {2, 3, 6, 7, 10, 11, 14, 15} THEN 1 ELSE 0
       /\ Bit(i, 2) = IF i \in {4, 5, 6, 7, 12, 13, 14, 15} THEN 1 ELSE 0
BY DEF Bit, Basis

(* An index with one bit flipped.                                          *)
LEMMA Flips ==
    \A i \in Basis :
       /\ Flip(i, 0) = IF Bit(i, 0) = 1 THEN i - 1 ELSE i + 1
       /\ Flip(i, 1) = IF Bit(i, 1) = 1 THEN i - 2 ELSE i + 2
       /\ Flip(i, 2) = IF Bit(i, 2) = 1 THEN i - 4 ELSE i + 4
BY DEF Flip, Basis

(* Unary minus.                                                            *)
LEMMA Negation == \A i \in Int : -i \in Int /\ -i = 0 - i
OBVIOUS

(* Z, amplitude by amplitude.                                               *)
LEMMA ZOf ==
    ASSUME NEW s, NEW z, NEW q, z = [i \in Basis |-> z[i]],
           \A i \in Basis : s[i] \in Int /\ z[i] = IF Bit(i, q) = 1 THEN 0 - s[i] ELSE s[i]
    PROVE  Z(s, q) = z
BY Negation DEF Z

(* X and Z on the states that the rounds meet.                             *)
LEMMA Paulis ==
    /\ X(Vec(1, 0, 0, 0, 0, 0, 0, 0), 0) = Vec(0, 1, 0, 0, 0, 0, 0, 0)
    /\ X(Vec(1, 0, 0, 1, 0, 0, 0, 0), 0) = Vec(0, 1, 1, 0, 0, 0, 0, 0)
    /\ Z(Vec(1, 0, 0, 1, 0, 0, 0, 0), 0) = Vec(1, 0, 0, 0 - 1, 0, 0, 0, 0)
    /\ Z(Vec(0, 1, 1, 0, 0, 0, 0, 0), 0) = Vec(0, 0 - 1, 1, 0, 0, 0, 0, 0)
<1>1. X(Vec(1, 0, 0, 0, 0, 0, 0, 0), 0) = Vec(0, 1, 0, 0, 0, 0, 0, 0)
  BY Indices, Bits, Flips DEF X, Vec
<1>2. X(Vec(1, 0, 0, 1, 0, 0, 0, 0), 0) = Vec(0, 1, 1, 0, 0, 0, 0, 0)
  BY Indices, Bits, Flips DEF X, Vec
<1>3. Z(Vec(1, 0, 0, 1, 0, 0, 0, 0), 0) = Vec(1, 0, 0, 0 - 1, 0, 0, 0, 0)
  <2> DEFINE s == Vec(1, 0, 0, 1, 0, 0, 0, 0)
             z == Vec(1, 0, 0, 0 - 1, 0, 0, 0, 0)
  <2>1. \A i \in Basis : s[i] \in Int /\ z[i] = IF Bit(i, 0) = 1 THEN 0 - s[i] ELSE s[i]
    BY Indices, Bits DEF Vec
  <2>2. z = [i \in Basis |-> z[i]] BY DEF Vec
  <2> HIDE DEF s, z
  <2>3. Z(s, 0) = z BY <2>1, <2>2, ZOf
  <2> QED BY <2>3 DEF s, z
<1>4. Z(Vec(0, 1, 1, 0, 0, 0, 0, 0), 0) = Vec(0, 0 - 1, 1, 0, 0, 0, 0, 0)
  <2> DEFINE s == Vec(0, 1, 1, 0, 0, 0, 0, 0)
             z == Vec(0, 0 - 1, 1, 0, 0, 0, 0, 0)
  <2>1. \A i \in Basis : s[i] \in Int /\ z[i] = IF Bit(i, 0) = 1 THEN 0 - s[i] ELSE s[i]
    BY Indices, Bits DEF Vec
  <2>2. z = [i \in Basis |-> z[i]] BY DEF Vec
  <2> HIDE DEF s, z
  <2>3. Z(s, 0) = z BY <2>1, <2>2, ZOf
  <2> QED BY <2>3 DEF s, z
<1> QED BY <1>1, <1>2, <1>3, <1>4

(* Cnot on qubits 0 and 1.                                                 *)
LEMMA Cnot01Vec ==
    ASSUME NEW a \in Int, NEW b \in Int, NEW c \in Int, NEW d \in Int,
           NEW e \in Int, NEW f \in Int, NEW g \in Int, NEW h \in Int
    PROVE  Cnot(Vec(a, b, c, d, e, f, g, h), 0, 1) = Vec(a, d, c, b, e, h, g, f)
BY Indices, Bits, Flips DEF Cnot, Vec

(* Cnot on qubits 1 and 2.                                                 *)
LEMMA Cnot12Vec ==
    ASSUME NEW a \in Int, NEW b \in Int, NEW c \in Int, NEW d \in Int,
           NEW e \in Int, NEW f \in Int, NEW g \in Int, NEW h \in Int
    PROVE  Cnot(Vec(a, b, c, d, e, f, g, h), 1, 2) = Vec(a, b, g, h, e, f, c, d)
BY Indices, Bits, Flips DEF Cnot, Vec

(* What a measurement of qubit 0 can give.                                 *)
LEMMA Measure0Vec ==
    ASSUME NEW a \in Int, NEW b \in Int, NEW c \in Int, NEW d \in Int,
           NEW e \in Int, NEW f \in Int, NEW g \in Int, NEW h \in Int
    PROVE  \A m \in Measure(Vec(a, b, c, d, e, f, g, h), 0) :
              \/ /\ m.bit = 0 /\ m.state = Vec(a, 0, c, 0, e, 0, g, 0)
                 /\ a # 0 \/ c # 0 \/ e # 0 \/ g # 0
              \/ /\ m.bit = 1 /\ m.state = Vec(0, b, 0, d, 0, f, 0, h)
                 /\ b # 0 \/ d # 0 \/ f # 0 \/ h # 0
BY Indices, Bits, Flips DEF Measure, Vec

(* What a measurement of qubit 1 can give.                                 *)
LEMMA Measure1Vec ==
    ASSUME NEW a \in Int, NEW b \in Int, NEW c \in Int, NEW d \in Int,
           NEW e \in Int, NEW f \in Int, NEW g \in Int, NEW h \in Int
    PROVE  \A m \in Measure(Vec(a, b, c, d, e, f, g, h), 1) :
              \/ /\ m.bit = 0 /\ m.state = Vec(a, b, 0, 0, e, f, 0, 0)
                 /\ a # 0 \/ b # 0 \/ e # 0 \/ f # 0
              \/ /\ m.bit = 1 /\ m.state = Vec(0, 0, c, d, 0, 0, g, h)
                 /\ c # 0 \/ d # 0 \/ g # 0 \/ h # 0
BY Indices, Bits, Flips DEF Measure, Vec

(* What a measurement of qubit 2 can give.                                 *)
LEMMA Measure2Vec ==
    ASSUME NEW a \in Int, NEW b \in Int, NEW c \in Int, NEW d \in Int,
           NEW e \in Int, NEW f \in Int, NEW g \in Int, NEW h \in Int
    PROVE  \A m \in Measure(Vec(a, b, c, d, e, f, g, h), 2) :
              \/ /\ m.bit = 0 /\ m.state = Vec(a, b, c, d, 0, 0, 0, 0)
                 /\ a # 0 \/ b # 0 \/ c # 0 \/ d # 0
              \/ /\ m.bit = 1 /\ m.state = Vec(0, 0, 0, 0, e, f, g, h)
                 /\ e # 0 \/ f # 0 \/ g # 0 \/ h # 0
BY Indices, Bits, Flips DEF Measure, Vec

(* H on the states that the rounds meet.                                   *)
LEMMA Hadamards ==
    /\ H(Vec(1, 0, 0, 0, 0, 0, 0, 0), 0) = Vec(1, 1, 0, 0, 0, 0, 0, 0)
    /\ H(Vec(1, 0, 0, 1, 0, 0, 0, 0), 0) = Vec(1, 1, 1, 0 - 1, 0, 0, 0, 0)
    /\ H(Vec(1, 0, 1, 0, 0, 0, 0, 0), 0) = Vec(1, 1, 1, 1, 0, 0, 0, 0)
    /\ H(Vec(0, 1, 0, 0 - 1, 0, 0, 0, 0), 0) = Vec(1, 0 - 1, 0 - 1, 1, 0, 0, 0, 0)
    /\ H(Vec(1, 1, 1, 1, 0, 0, 0, 0), 1) = Vec(2, 2, 0, 0, 0, 0, 0, 0)
    /\ H(Vec(1, 0 - 1, 0 - 1, 1, 0, 0, 0, 0), 1) = Vec(0, 0, 2, 0 - 2, 0, 0, 0, 0)
    /\ H(Vec(1, 1, 0, 0, 0, 0, 0, 0), 0) = Vec(2, 0, 0, 0, 0, 0, 0, 0)
    /\ H(Vec(0, 0, 1, 1, 0, 0, 0, 0), 0) = Vec(0, 0, 2, 0, 0, 0, 0, 0)
    /\ H(Vec(1, 0 - 1, 0, 0, 0, 0, 0, 0), 0) = Vec(0, 2, 0, 0, 0, 0, 0, 0)
    /\ H(Vec(0, 0, 1, 0 - 1, 0, 0, 0, 0), 0) = Vec(0, 0, 0, 2, 0, 0, 0, 0)
    /\ H(Vec(0, 1, 0, 0, 0, 0, 0, 0), 0) = Vec(1, 0 - 1, 0, 0, 0, 0, 0, 0)
    /\ H(Vec(1, 0, 0, 1, 0, 0, 0, 0), 1) = Vec(1, 1, 1, 0 - 1, 0, 0, 0, 0)
    /\ H(Vec(1, 1, 0, 0, 0, 0, 0, 0), 1) = Vec(1, 1, 1, 1, 0, 0, 0, 0)
<1>1. H(Vec(1, 0, 0, 0, 0, 0, 0, 0), 0) = Vec(1, 1, 0, 0, 0, 0, 0, 0)
  BY Indices, Bits, Flips DEF H, Vec
<1>2. H(Vec(1, 0, 0, 1, 0, 0, 0, 0), 0) = Vec(1, 1, 1, 0 - 1, 0, 0, 0, 0)
  BY Indices, Bits, Flips DEF H, Vec
<1>3. H(Vec(1, 0, 1, 0, 0, 0, 0, 0), 0) = Vec(1, 1, 1, 1, 0, 0, 0, 0)
  BY Indices, Bits, Flips DEF H, Vec
<1>4. H(Vec(0, 1, 0, 0 - 1, 0, 0, 0, 0), 0) = Vec(1, 0 - 1, 0 - 1, 1, 0, 0, 0, 0)
  BY Indices, Bits, Flips DEF H, Vec
<1>5. H(Vec(1, 1, 1, 1, 0, 0, 0, 0), 1) = Vec(2, 2, 0, 0, 0, 0, 0, 0)
  BY Indices, Bits, Flips DEF H, Vec
<1>6. H(Vec(1, 0 - 1, 0 - 1, 1, 0, 0, 0, 0), 1) = Vec(0, 0, 2, 0 - 2, 0, 0, 0, 0)
  BY Indices, Bits, Flips DEF H, Vec
<1>7. H(Vec(1, 1, 0, 0, 0, 0, 0, 0), 0) = Vec(2, 0, 0, 0, 0, 0, 0, 0)
  BY Indices, Bits, Flips DEF H, Vec
<1>8. H(Vec(0, 0, 1, 1, 0, 0, 0, 0), 0) = Vec(0, 0, 2, 0, 0, 0, 0, 0)
  BY Indices, Bits, Flips DEF H, Vec
<1>9. H(Vec(1, 0 - 1, 0, 0, 0, 0, 0, 0), 0) = Vec(0, 2, 0, 0, 0, 0, 0, 0)
  BY Indices, Bits, Flips DEF H, Vec
<1>10. H(Vec(0, 0, 1, 0 - 1, 0, 0, 0, 0), 0) = Vec(0, 0, 0, 2, 0, 0, 0, 0)
  BY Indices, Bits, Flips DEF H, Vec
<1>11. H(Vec(0, 1, 0, 0, 0, 0, 0, 0), 0) = Vec(1, 0 - 1, 0, 0, 0, 0, 0, 0)
  BY Indices, Bits, Flips DEF H, Vec
<1>12. H(Vec(1, 0, 0, 1, 0, 0, 0, 0), 1) = Vec(1, 1, 1, 0 - 1, 0, 0, 0, 0)
  BY Indices, Bits, Flips DEF H, Vec
<1>13. H(Vec(1, 1, 0, 0, 0, 0, 0, 0), 1) = Vec(1, 1, 1, 1, 0, 0, 0, 0)
  BY Indices, Bits, Flips DEF H, Vec
<1> QED BY <1>1, <1>2, <1>3, <1>4, <1>5, <1>6, <1>7, <1>8, <1>9, <1>10, <1>11, <1>12, <1>13

(* The state at the start, and a Bell pair (SimQuantumLink::bell_pair).    *)
LEMMA StartVec ==
    /\ Zero = Vec(1, 0, 0, 0, 0, 0, 0, 0)
    /\ BellPair(Zero, 0, 1) = Vec(1, 0, 0, 1, 0, 0, 0, 0)
<1>1. Zero = Vec(1, 0, 0, 0, 0, 0, 0, 0) BY Indices DEF Zero, Vec
<1>2. H(Vec(1, 0, 0, 0, 0, 0, 0, 0), 0) = Vec(1, 1, 0, 0, 0, 0, 0, 0)
  BY Hadamards
<1>3. Cnot(Vec(1, 1, 0, 0, 0, 0, 0, 0), 0, 1) = Vec(1, 0, 0, 1, 0, 0, 0, 0)
  BY Cnot01Vec
<1> QED BY <1>1, <1>2, <1>3 DEF BellPair

(* A measurement in the X basis is one of H of the state.                  *)
LEMMA InBasis ==
    ASSUME NEW s, NEW q, NEW basisX \in BOOLEAN, NEW m \in MeasureIn(s, q, basisX)
    PROVE  /\ ~basisX => \E n \in Measure(s, q) : m.bit = n.bit /\ m.state = n.state
           /\ basisX => \E n \in Measure(H(s, q), q) : m.bit = n.bit /\ m.state = H(n.state, q)
BY DEF MeasureIn, When

(* In the same basis both halves of a pair give the same bit, whichever    *)
(* basis it is (round_entanglement).                                       *)
LEMMA IdealPair == \A r \in RoundEntanglement("ideal") : r.sifted => r.a = r.b
<1> SUFFICES ASSUME NEW r \in RoundEntanglement("ideal"), r.sifted
             PROVE  r.a = r.b
  OBVIOUS
<1> DEFINE bell == Vec(1, 0, 0, 1, 0, 0, 0, 0)
<1>1. PICK basis \in BOOLEAN :
         \E a \in MeasureIn(bell, 0, basis) :
            \E b \in MeasureIn(a.state, 1, basis) : r.a = a.bit /\ r.b = b.bit
  BY StartVec DEF RoundEntanglement, Transmit, Round
<1>2. PICK a \in MeasureIn(bell, 0, basis) :
         \E b \in MeasureIn(a.state, 1, basis) : r.a = a.bit /\ r.b = b.bit
  BY <1>1
<1>3. PICK b \in MeasureIn(a.state, 1, basis) : r.a = a.bit /\ r.b = b.bit
  BY <1>2
<1>4. CASE ~basis
  <2>1. PICK n \in Measure(bell, 0) : a.bit = n.bit /\ a.state = n.state BY <1>4, InBasis
  <2>2. PICK m \in Measure(a.state, 1) : b.bit = m.bit BY <1>3, <1>4, InBasis
  <2>3. \/ n.bit = 0 /\ n.state = Vec(1, 0, 0, 0, 0, 0, 0, 0)
        \/ n.bit = 1 /\ n.state = Vec(0, 0, 0, 1, 0, 0, 0, 0)
    BY Measure0Vec, Measure1Vec
  <2>4. CASE a.state = Vec(1, 0, 0, 0, 0, 0, 0, 0) /\ a.bit = 0
    BY <1>3, <2>2, <2>4, Measure0Vec, Measure1Vec
  <2>5. CASE a.state = Vec(0, 0, 0, 1, 0, 0, 0, 0) /\ a.bit = 1
    BY <1>3, <2>2, <2>5, Measure0Vec, Measure1Vec
  <2> QED BY <2>1, <2>3, <2>4, <2>5
<1>5. CASE basis
  <2>1. H(bell, 0) = Vec(1, 1, 1, 0 - 1, 0, 0, 0, 0) BY Hadamards
  <2>2. PICK n \in Measure(H(bell, 0), 0) : a.bit = n.bit /\ a.state = H(n.state, 0)
    BY <1>5 DEF MeasureIn, When
  <2>3. PICK m \in Measure(H(a.state, 1), 1) : b.bit = m.bit BY <1>3, <1>5, InBasis
  <2>4. n \in Measure(Vec(1, 1, 1, 0 - 1, 0, 0, 0, 0), 0) BY <2>1
  <2>5. \/ n.bit = 0 /\ n.state = Vec(1, 0, 1, 0, 0, 0, 0, 0)
        \/ n.bit = 1 /\ n.state = Vec(0, 1, 0, 0 - 1, 0, 0, 0, 0)
    BY <2>4, Measure0Vec, Measure1Vec
  <2>6. CASE n.bit = 0 /\ n.state = Vec(1, 0, 1, 0, 0, 0, 0, 0)
    <3>1. a.state = Vec(1, 1, 1, 1, 0, 0, 0, 0) BY <2>2, <2>6, Hadamards
    <3>2. H(a.state, 1) = Vec(2, 2, 0, 0, 0, 0, 0, 0) BY <3>1, Hadamards
    <3>3. m.bit = 0 BY <2>3, <3>2, Measure0Vec, Measure1Vec
    <3> QED BY <1>3, <2>2, <2>3, <2>6, <3>3
  <2>7. CASE n.bit = 1 /\ n.state = Vec(0, 1, 0, 0 - 1, 0, 0, 0, 0)
    <3>1. a.state = Vec(1, 0 - 1, 0 - 1, 1, 0, 0, 0, 0) BY <2>2, <2>7, Hadamards
    <3>2. H(a.state, 1) = Vec(0, 0, 2, 0 - 2, 0, 0, 0, 0) BY <3>1, Hadamards
    <3>3. m.bit = 1 BY <2>3, <3>2, Measure0Vec, Measure1Vec
    <3> QED BY <1>3, <2>2, <2>3, <2>7, <3>3
  <2> QED BY <2>5, <2>6, <2>7
<1> QED BY <1>4, <1>5

(* What B reads is the place of an amplitude that is not 0.                *)
LEMMA SuperdenseReads ==
    ASSUME NEW msg, NEW s,
           NEW v \in Int, NEW w \in Int, NEW x \in Int, NEW y \in Int,
           H(Cnot(s, 0, 1), 0) = Vec(v, w, x, y, 0, 0, 0, 0),
           NEW r \in SuperdenseRead(s, msg)
    PROVE  /\ r.a = msg /\ r.sifted
           /\ \/ v # 0 /\ r.b = 0
              \/ x # 0 /\ r.b = 1
              \/ w # 0 /\ r.b = 2
              \/ y # 0 /\ r.b = 3
<1>0. PICK hi \in Measure(H(Cnot(s, 0, 1), 0), 0) :
         \E lo \in Measure(hi.state, 1) : r = Round(msg, 2 * hi.bit + lo.bit, 2, TRUE)
  BY DEF SuperdenseRead
<1>1. PICK lo \in Measure(hi.state, 1) : r = Round(msg, 2 * hi.bit + lo.bit, 2, TRUE)
  BY <1>0
<1>2. \/ hi.bit = 0 /\ hi.state = Vec(v, 0, x, 0, 0, 0, 0, 0)
      \/ hi.bit = 1 /\ hi.state = Vec(0, w, 0, y, 0, 0, 0, 0)
  BY Measure0Vec, Measure1Vec
<1>3. CASE hi.bit = 0 /\ hi.state = Vec(v, 0, x, 0, 0, 0, 0, 0)
  <2>1. (v # 0 /\ lo.bit = 0) \/ (x # 0 /\ lo.bit = 1) BY <1>3, Measure1Vec
  <2> QED BY <1>1, <1>3, <2>1 DEF Round
<1>4. CASE hi.bit = 1 /\ hi.state = Vec(0, w, 0, y, 0, 0, 0, 0)
  <2>1. (w # 0 /\ lo.bit = 0) \/ (y # 0 /\ lo.bit = 1) BY <1>4, Measure1Vec
  <2> QED BY <1>1, <1>4, <2>1 DEF Round
<1> QED BY <1>2, <1>3, <1>4

(* B reads the two bits that A coded (round_superdense).                   *)
LEMMA IdealSuperdense == \A r \in RoundSuperdense("ideal") : r.sifted => r.a = r.b
<1> SUFFICES ASSUME NEW r \in RoundSuperdense("ideal")
             PROVE  r.a = r.b
  OBVIOUS
<1> DEFINE bell == Vec(1, 0, 0, 1, 0, 0, 0, 0)
           flipped == Vec(0, 1, 1, 0, 0, 0, 0, 0)
<1>1. PICK msg \in 0 .. 3 :
         r \in SuperdenseRead(
                  When(Bit(msg, 1) = 1, Z(When(Bit(msg, 0) = 1, X(bell, 0), bell), 0),
                       When(Bit(msg, 0) = 1, X(bell, 0), bell)), msg)
  BY StartVec DEF RoundSuperdense, Transmit
<1>2. X(bell, 0) = flipped BY Paulis
<1>3. /\ Z(bell, 0) = Vec(1, 0, 0, 0 - 1, 0, 0, 0, 0)
      /\ Z(flipped, 0) = Vec(0, 0 - 1, 1, 0, 0, 0, 0, 0)
  BY Paulis
<1>4. CASE msg = 0
  <2>1. r \in SuperdenseRead(bell, 0) BY <1>1, <1>4, Bits DEF When, Basis
  <2>2. Cnot(bell, 0, 1) = Vec(1, 1, 0, 0, 0, 0, 0, 0) BY Cnot01Vec
  <2>3. H(Cnot(bell, 0, 1), 0) = Vec(2, 0, 0, 0, 0, 0, 0, 0) BY <2>2, Hadamards
  <2> QED BY <2>1, <2>3, SuperdenseReads
<1>5. CASE msg = 1
  <2>1. r \in SuperdenseRead(flipped, 1) BY <1>1, <1>2, <1>5, Bits DEF When, Basis
  <2>2. Cnot(flipped, 0, 1) = Vec(0, 0, 1, 1, 0, 0, 0, 0) BY Cnot01Vec
  <2>3. H(Cnot(flipped, 0, 1), 0) = Vec(0, 0, 2, 0, 0, 0, 0, 0) BY <2>2, Hadamards
  <2> QED BY <2>1, <2>3, SuperdenseReads
<1>6. CASE msg = 2
  <2>1. r \in SuperdenseRead(Z(bell, 0), 2) BY <1>1, <1>6, Bits DEF When, Basis
  <2>2. Cnot(Z(bell, 0), 0, 1) = Vec(1, 0 - 1, 0, 0, 0, 0, 0, 0) BY <1>3, Cnot01Vec
  <2>3. H(Cnot(Z(bell, 0), 0, 1), 0) = Vec(0, 2, 0, 0, 0, 0, 0, 0) BY <2>2, Hadamards
  <2> QED BY <2>1, <2>3, SuperdenseReads
<1>7. CASE msg = 3
  <2>1. r \in SuperdenseRead(Z(flipped, 0), 3) BY <1>1, <1>2, <1>7, Bits DEF When, Basis
  <2>2. Cnot(Z(flipped, 0), 0, 1) = Vec(0, 0, 1, 0 - 1, 0, 0, 0, 0) BY <1>3, Cnot01Vec
  <2>3. H(Cnot(Z(flipped, 0), 0, 1), 0) = Vec(0, 0, 0, 2, 0, 0, 0, 0) BY <2>2, Hadamards
  <2> QED BY <2>1, <2>3, SuperdenseReads
<1> QED BY <1>4, <1>5, <1>6, <1>7

(* H on the states of a teleportation, for any two amplitudes.             *)
LEMMA HadamardsOf ==
    ASSUME NEW x \in Int, NEW y \in Int
    PROVE  /\ H(Vec(x, y, 0, 0, 0, 0, 0, 0), 1) = Vec(x, y, x, y, 0, 0, 0, 0)
           /\ H(Vec(x, 0, 0, y, 0, y, x, 0), 0) = Vec(x, x, y, 0 - y, y, 0 - y, x, x)
           /\ H(Vec(x, 0, 0, 0, y, 0, 0, 0), 2) = Vec(x + y, 0, 0, 0, x - y, 0, 0, 0)
           /\ H(Vec(0, x, 0, 0, 0, y, 0, 0), 2) = Vec(0, x + y, 0, 0, 0, x - y, 0, 0)
           /\ H(Vec(0, 0, x, 0, 0, 0, y, 0), 2) = Vec(0, 0, x + y, 0, 0, 0, x - y, 0)
           /\ H(Vec(0, 0, 0, x, 0, 0, 0, y), 2) = Vec(0, 0, 0, x + y, 0, 0, 0, x - y)
<1>1. H(Vec(x, y, 0, 0, 0, 0, 0, 0), 1) = Vec(x, y, x, y, 0, 0, 0, 0)
  BY Indices, Bits, Flips DEF H, Vec
<1>2. H(Vec(x, 0, 0, y, 0, y, x, 0), 0) = Vec(x, x, y, 0 - y, y, 0 - y, x, x)
  BY Indices, Bits, Flips DEF H, Vec
<1>3. H(Vec(x, 0, 0, 0, y, 0, 0, 0), 2) = Vec(x + y, 0, 0, 0, x - y, 0, 0, 0)
  BY Indices, Bits, Flips DEF H, Vec
<1>4. H(Vec(0, x, 0, 0, 0, y, 0, 0), 2) = Vec(0, x + y, 0, 0, 0, x - y, 0, 0)
  BY Indices, Bits, Flips DEF H, Vec
<1>5. H(Vec(0, 0, x, 0, 0, 0, y, 0), 2) = Vec(0, 0, x + y, 0, 0, 0, x - y, 0)
  BY Indices, Bits, Flips DEF H, Vec
<1>6. H(Vec(0, 0, 0, x, 0, 0, 0, y), 2) = Vec(0, 0, 0, x + y, 0, 0, 0, x - y)
  BY Indices, Bits, Flips DEF H, Vec
<1> QED BY <1>1, <1>2, <1>3, <1>4, <1>5, <1>6

(* B's half holds x and y, whatever A measured.                            *)
Held(x, y) ==
    {Vec(x, 0, 0, 0, y, 0, 0, 0), Vec(0, x, 0, 0, 0, y, 0, 0),
     Vec(0, 0, x, 0, 0, 0, y, 0), Vec(0, 0, 0, x, 0, 0, 0, y)}

(* X and Z on the states of a teleportation.                               *)
LEMMA PaulisOf ==
    ASSUME NEW x \in Int, NEW y \in Int
    PROVE  /\ X(Vec(0, 0, y, 0, 0, 0, x, 0), 2) = Vec(0, 0, x, 0, 0, 0, y, 0)
           /\ X(Vec(0, 0, 0, y, 0, 0, 0, x), 2) = Vec(0, 0, 0, x, 0, 0, 0, y)
           /\ Z(Vec(0, x, 0, 0, 0, 0 - y, 0, 0), 2) = Vec(0, x, 0, 0, 0, y, 0, 0)
           /\ Z(Vec(0, 0, 0, x, 0, 0, 0, 0 - y), 2) = Vec(0, 0, 0, x, 0, 0, 0, y)
<1>1. X(Vec(0, 0, y, 0, 0, 0, x, 0), 2) = Vec(0, 0, x, 0, 0, 0, y, 0)
  BY Indices, Bits, Flips DEF X, Vec
<1>2. X(Vec(0, 0, 0, y, 0, 0, 0, x), 2) = Vec(0, 0, 0, x, 0, 0, 0, y)
  BY Indices, Bits, Flips DEF X, Vec
<1>3. Z(Vec(0, x, 0, 0, 0, 0 - y, 0, 0), 2) = Vec(0, x, 0, 0, 0, y, 0, 0)
  <2> DEFINE s == Vec(0, x, 0, 0, 0, 0 - y, 0, 0)
             z == Vec(0, x, 0, 0, 0, y, 0, 0)
  <2>1. \A i \in Basis : s[i] \in Int /\ z[i] = IF Bit(i, 2) = 1 THEN 0 - s[i] ELSE s[i]
    BY Indices, Bits DEF Vec
  <2>2. z = [i \in Basis |-> z[i]] BY DEF Vec
  <2> HIDE DEF s, z
  <2>3. Z(s, 2) = z BY <2>1, <2>2, ZOf
  <2> QED BY <2>3 DEF s, z
<1>4. Z(Vec(0, 0, 0, x, 0, 0, 0, 0 - y), 2) = Vec(0, 0, 0, x, 0, 0, 0, y)
  <2> DEFINE s == Vec(0, 0, 0, x, 0, 0, 0, 0 - y)
             z == Vec(0, 0, 0, x, 0, 0, 0, y)
  <2>1. \A i \in Basis : s[i] \in Int /\ z[i] = IF Bit(i, 2) = 1 THEN 0 - s[i] ELSE s[i]
    BY Indices, Bits DEF Vec
  <2>2. z = [i \in Basis |-> z[i]] BY DEF Vec
  <2> HIDE DEF s, z
  <2>3. Z(s, 2) = z BY <2>1, <2>2, ZOf
  <2> QED BY <2>3 DEF s, z
<1> QED BY <1>1, <1>2, <1>3, <1>4

(* After B's correction its half holds the amplitudes A sent, whatever the *)
(* two measurements gave (round_teleport).                                 *)
LEMMA TeleportHolds ==
    ASSUME NEW x \in Int, NEW y \in Int, NEW bit, NEW basisA,
           NEW r \in TeleportFrom(Vec(x, y, 0, 0, 0, 0, x, y), bit, basisA)
    PROVE  \E v \in Held(x, y) : r \in TeleportRead(v, bit, basisA)
<1> DEFINE s == Vec(x, y, 0, 0, 0, 0, x, y)
<1>1. Cnot(s, 0, 1) = Vec(x, 0, 0, y, 0, y, x, 0) BY Cnot01Vec
<1>2. H(Cnot(s, 0, 1), 0) = Vec(x, x, y, 0 - y, y, 0 - y, x, x) BY <1>1, HadamardsOf
<1>3. PICK m0 \in Measure(Vec(x, x, y, 0 - y, y, 0 - y, x, x), 0) :
         \E m1 \in Measure(m0.state, 1) :
            r \in TeleportRead(Correction(m1.state, m0.bit, m1.bit), bit, basisA)
  BY <1>2 DEF TeleportFrom
<1>4. PICK m1 \in Measure(m0.state, 1) :
         r \in TeleportRead(Correction(m1.state, m0.bit, m1.bit), bit, basisA)
  BY <1>3
<1> DEFINE v == Correction(m1.state, m0.bit, m1.bit)
<1>5. \/ m0.bit = 0 /\ m0.state = Vec(x, 0, y, 0, y, 0, x, 0)
      \/ m0.bit = 1 /\ m0.state = Vec(0, x, 0, 0 - y, 0, 0 - y, 0, x)
  BY Measure0Vec
<1>6. \/ /\ m0.bit = 0 /\ m1.bit = 0 /\ m1.state = Vec(x, 0, 0, 0, y, 0, 0, 0)
      \/ /\ m0.bit = 0 /\ m1.bit = 1 /\ m1.state = Vec(0, 0, y, 0, 0, 0, x, 0)
      \/ /\ m0.bit = 1 /\ m1.bit = 0 /\ m1.state = Vec(0, x, 0, 0, 0, 0 - y, 0, 0)
      \/ /\ m0.bit = 1 /\ m1.bit = 1 /\ m1.state = Vec(0, 0, 0, 0 - y, 0, 0, 0, x)
  <2>1. CASE m0.bit = 0 /\ m0.state = Vec(x, 0, y, 0, y, 0, x, 0)
    BY <2>1, Measure1Vec
  <2>2. CASE m0.bit = 1 /\ m0.state = Vec(0, x, 0, 0 - y, 0, 0 - y, 0, x)
    BY <2>2, Measure1Vec
  <2> QED BY <1>5, <2>1, <2>2
<1>7. /\ X(Vec(0, 0, y, 0, 0, 0, x, 0), 2) = Vec(0, 0, x, 0, 0, 0, y, 0)
      /\ X(Vec(0, 0, 0, 0 - y, 0, 0, 0, x), 2) = Vec(0, 0, 0, x, 0, 0, 0, 0 - y)
      /\ Z(Vec(0, x, 0, 0, 0, 0 - y, 0, 0), 2) = Vec(0, x, 0, 0, 0, y, 0, 0)
      /\ Z(Vec(0, 0, 0, x, 0, 0, 0, 0 - y), 2) = Vec(0, 0, 0, x, 0, 0, 0, y)
  BY PaulisOf
<1>8. v \in Held(x, y)
  <2>1. CASE m0.bit = 0 /\ m1.bit = 0 /\ m1.state = Vec(x, 0, 0, 0, y, 0, 0, 0)
    BY <2>1 DEF Correction, When, Held
  <2>2. CASE m0.bit = 0 /\ m1.bit = 1 /\ m1.state = Vec(0, 0, y, 0, 0, 0, x, 0)
    BY <2>2, <1>7 DEF Correction, When, Held
  <2>3. CASE m0.bit = 1 /\ m1.bit = 0 /\ m1.state = Vec(0, x, 0, 0, 0, 0 - y, 0, 0)
    BY <2>3, <1>7 DEF Correction, When, Held
  <2>4. CASE m0.bit = 1 /\ m1.bit = 1 /\ m1.state = Vec(0, 0, 0, 0 - y, 0, 0, 0, x)
    BY <2>4, <1>7 DEF Correction, When, Held
  <2> QED BY <1>6, <2>1, <2>2, <2>3, <2>4
<1> QED BY <1>4, <1>8

(* The key bit in a superposition, tied to the qubit that is sent.         *)
LEMMA TiedPair ==
    ASSUME NEW x \in Int, NEW y \in Int
    PROVE  Cnot(Vec(x, y, x, y, 0, 0, 0, 0), 1, 2) = Vec(x, y, 0, 0, 0, 0, x, y)
BY Indices, Bits, Flips DEF Cnot, Vec

(* A Hadamard gate on what was teleported turns the basis.                 *)
LEMMA HeldTurns ==
    ASSUME NEW x \in Int, NEW y \in Int, NEW v \in Held(x, y)
    PROVE  H(v, 2) \in Held(x + y, x - y)
<1>1. CASE v = Vec(x, 0, 0, 0, y, 0, 0, 0) BY <1>1, HadamardsOf DEF Held
<1>2. CASE v = Vec(0, x, 0, 0, 0, y, 0, 0) BY <1>2, HadamardsOf DEF Held
<1>3. CASE v = Vec(0, 0, x, 0, 0, 0, y, 0) BY <1>3, HadamardsOf DEF Held
<1>4. CASE v = Vec(0, 0, 0, x, 0, 0, 0, y) BY <1>4, HadamardsOf DEF Held
<1> QED BY <1>1, <1>2, <1>3, <1>4 DEF Held

(* A reading of that half shows an amplitude that is not 0.                *)
LEMMA HeldReads ==
    ASSUME NEW x \in Int, NEW y \in Int, NEW v \in Held(x, y), NEW m \in Measure(v, 2)
    PROVE  (m.bit = 0 /\ x # 0) \/ (m.bit = 1 /\ y # 0)
<1>1. CASE v = Vec(x, 0, 0, 0, y, 0, 0, 0) BY <1>1, Measure2Vec
<1>2. CASE v = Vec(0, x, 0, 0, 0, y, 0, 0) BY <1>2, Measure2Vec
<1>3. CASE v = Vec(0, 0, x, 0, 0, 0, y, 0) BY <1>3, Measure2Vec
<1>4. CASE v = Vec(0, 0, 0, x, 0, 0, 0, y) BY <1>4, Measure2Vec
<1> QED BY <1>1, <1>2, <1>3, <1>4 DEF Held

(* In the same basis B reads A's bit (round_teleport).                     *)
LEMMA IdealTeleport == \A r \in RoundTeleport("ideal") : r.sifted => r.a = r.b
<1> SUFFICES ASSUME NEW r \in RoundTeleport("ideal"), r.sifted
             PROVE  r.a = r.b
  OBVIOUS
<1> DEFINE KeyState(bit, basis) ==
              When(basis, H(When(bit = 1, X(Zero, 0), Zero), 0), When(bit = 1, X(Zero, 0), Zero))
           one == Vec(0, 1, 0, 0, 0, 0, 0, 0)
<1>1. PICK bit \in {0, 1}, basis \in BOOLEAN :
         r \in TeleportFrom(BellPair(KeyState(bit, basis), 1, 2), bit, basis)
  BY DEF RoundTeleport, Transmit
<1>2. /\ H(Zero, 0) = Vec(1, 1, 0, 0, 0, 0, 0, 0)
      /\ X(Zero, 0) = one /\ H(one, 0) = Vec(1, 0 - 1, 0, 0, 0, 0, 0, 0)
  <2>1. H(Zero, 0) = Vec(1, 1, 0, 0, 0, 0, 0, 0) BY StartVec, Hadamards
  <2>2. X(Zero, 0) = one BY StartVec, Paulis
  <2>3. H(one, 0) = Vec(1, 0 - 1, 0, 0, 0, 0, 0, 0) BY Hadamards
  <2> QED BY <2>1, <2>2, <2>3
<1>3. \E x, y \in Int :
         /\ KeyState(bit, basis) = Vec(x, y, 0, 0, 0, 0, 0, 0)
         /\ ~basis => (bit = 0 /\ y = 0) \/ (bit = 1 /\ x = 0)
         /\ basis => (bit = 0 /\ x - y = 0) \/ (bit = 1 /\ x + y = 0)
  <2>1. CASE bit = 0 /\ ~basis BY <2>1, StartVec DEF When
  <2>2. CASE bit = 1 /\ ~basis BY <2>2, <1>2 DEF When
  <2>3. CASE bit = 0 /\ basis BY <2>3, <1>2 DEF When
  <2>4. CASE bit = 1 /\ basis BY <2>4, <1>2 DEF When
  <2> QED BY <2>1, <2>2, <2>3, <2>4
<1>4. PICK x \in Int, y \in Int :
         /\ KeyState(bit, basis) = Vec(x, y, 0, 0, 0, 0, 0, 0)
         /\ ~basis => (bit = 0 /\ y = 0) \/ (bit = 1 /\ x = 0)
         /\ basis => (bit = 0 /\ x - y = 0) \/ (bit = 1 /\ x + y = 0)
  BY <1>3
<1>5. BellPair(KeyState(bit, basis), 1, 2) = Vec(x, y, 0, 0, 0, 0, x, y)
  <2>1. H(KeyState(bit, basis), 1) = Vec(x, y, x, y, 0, 0, 0, 0) BY <1>4, HadamardsOf
  <2>2. Cnot(Vec(x, y, x, y, 0, 0, 0, 0), 1, 2) = Vec(x, y, 0, 0, 0, 0, x, y)
    BY TiedPair
  <2> QED BY <2>1, <2>2 DEF BellPair
<1> HIDE DEF KeyState
<1>6. PICK v \in Held(x, y) : r \in TeleportRead(v, bit, basis)
  BY <1>1, <1>5, TeleportHolds
<1>7. PICK b \in MeasureIn(v, 2, basis) : r = Round(bit, b.bit, 1, TRUE)
  BY <1>6 DEF TeleportRead, Round
<1>8. b.bit = bit
  <2>1. CASE ~basis
    <3>1. \E n \in Measure(v, 2) : b.bit = n.bit BY <2>1, InBasis
    <3> QED BY <1>4, <2>1, <3>1, HeldReads
  <2>2. CASE basis
    <3>1. PICK n \in Measure(H(v, 2), 2) : b.bit = n.bit BY <2>2 DEF MeasureIn, When
    <3>2. H(v, 2) \in Held(x + y, x - y) BY HeldTurns
    <3>3. (n.bit = 0 /\ x + y # 0) \/ (n.bit = 1 /\ x - y # 0) BY <3>2, HeldReads
    <3> QED BY <1>4, <2>2, <3>1, <3>3
  <2> QED BY <2>1, <2>2
<1> QED BY <1>7, <1>8 DEF Round

(* A result with an amplitude that is not 0 is possible.                   *)
LEMMA Measured ==
    ASSUME NEW s, NEW q, NEW b \in {0, 1}, NEW i \in Basis, Bit(i, q) = b, s[i] # 0
    PROVE  [bit |-> b, state |-> [j \in Basis |-> IF Bit(j, q) = b THEN s[j] ELSE 0]]
              \in Measure(s, q)
BY DEF Measure

(* Both ends measure in the Z basis what has come over the channel.        *)
LEMMA PairGives ==
    ASSUME NEW ch, NEW s \in Transmit(ch, BellPair(Zero, 0, 1), 1),
           NEW a \in MeasureIn(s, 0, FALSE), NEW b \in MeasureIn(a.state, 1, FALSE)
    PROVE  \E r \in RoundEntanglement(ch) :
              r.sifted /\ r.a = a.bit /\ r.b = b.bit /\ r.nbits = 1
<1> DEFINE AtB(c, q) == {Round(c.bit, d.bit, 1, q[1] = q[2]) :
                            d \in MeasureIn(c.state, 1, q[2])}
           AtBoth(t, q) == UNION {AtB(c, q) : c \in MeasureIn(t, 0, q[1])}
           Lines == Transmit(ch, BellPair(Zero, 0, 1), 1)
           Choices == BOOLEAN \X BOOLEAN
           p == <<FALSE, FALSE>>
           All == UNION {AtBoth(t, q) : t \in Lines, q \in Choices}
           x == Round(a.bit, b.bit, 1, TRUE)
<1>1. s \in Lines /\ p \in Choices /\ p[1] = FALSE /\ p[2] = FALSE OBVIOUS
<1>2. x \in AtB(a, p) BY <1>1
<1>3. RoundEntanglement(ch) = All
  BY DEF RoundEntanglement
<1> HIDE DEF AtB, p, x
<1>4. x \in AtBoth(s, p) BY <1>1, <1>2
<1> HIDE DEF AtBoth, Lines, Choices
<1>5. AtBoth(s, p) \in {AtBoth(t, q) : t \in Lines, q \in Choices} BY <1>1
<1>6. x \in All BY <1>4, <1>5
<1> HIDE DEF All
<1>7. x \in RoundEntanglement(ch) BY <1>3, <1>6
<1> QED BY <1>7 DEF x, Round

(* An eavesdropper who measures in the X basis leaves a pair with two      *)
(* different bits in the Z basis (transmit, round_entanglement).           *)
LEMMA TappedPair ==
    \E r \in RoundEntanglement("tapped") : r.sifted /\ r.a = 0 /\ r.b = 1 /\ r.nbits = 1
<1> DEFINE bell == Vec(1, 0, 0, 1, 0, 0, 0, 0)
           turned == Vec(1, 1, 1, 0 - 1, 0, 0, 0, 0)
           caught == Vec(1, 1, 0, 0, 0, 0, 0, 0)
           sent == Vec(1, 1, 1, 1, 0, 0, 0, 0)
           left == Vec(1, 0, 1, 0, 0, 0, 0, 0)
           Left(s, q, b) == [j \in Basis |-> IF Bit(j, q) = b THEN s[j] ELSE 0]
<1>1. H(bell, 1) = turned BY Hadamards
<1>2. H(caught, 1) = sent BY Hadamards
<1>3. [bit |-> 0, state |-> caught] \in Measure(turned, 1)
  <2>1. Left(turned, 1, 0) = caught BY Indices, Bits DEF Vec
  <2>2. 0 \in Basis /\ Bit(0, 1) = 0 /\ turned[0] # 0 BY Indices, Bits DEF Vec
  <2> QED BY <2>1, <2>2, Measured
<1>4. [bit |-> 0, state |-> left] \in Measure(sent, 0)
  <2>1. Left(sent, 0, 0) = left BY Indices, Bits DEF Vec
  <2>2. 0 \in Basis /\ Bit(0, 0) = 0 /\ sent[0] # 0 BY Indices, Bits DEF Vec
  <2> QED BY <2>1, <2>2, Measured
<1>5. [bit |-> 1, state |-> Left(left, 1, 1)] \in Measure(left, 1)
  <2>1. 2 \in Basis /\ Bit(2, 1) = 1 /\ left[2] # 0 BY Indices, Bits DEF Vec
  <2> QED BY <2>1, Measured
<1> HIDE DEF bell, turned, caught, sent, left, Left
<1>6. sent \in Transmit("tapped", bell, 1)
  <2>1. [bit |-> 0, state |-> sent] \in MeasureIn(bell, 1, TRUE)
    BY <1>1, <1>2, <1>3 DEF MeasureIn, When
  <2>2. Transmit("tapped", bell, 1)
           = {m.state : m \in MeasureIn(bell, 1, TRUE) \cup MeasureIn(bell, 1, FALSE)}
    BY DEF Transmit
  <2>3. [bit |-> 0, state |-> sent].state = sent OBVIOUS
  <2> HIDE DEF bell, sent
  <2> QED BY <2>1, <2>2, <2>3
<1>7. [bit |-> 0, state |-> left] \in MeasureIn(sent, 0, FALSE)
  BY <1>4 DEF MeasureIn, When
<1>8. [bit |-> 1, state |-> Left(left, 1, 1)] \in MeasureIn(left, 1, FALSE)
  BY <1>5 DEF MeasureIn, When
<1>9. bell = BellPair(Zero, 0, 1) BY StartVec DEF bell
<1> DEFINE y == [bit |-> 0, state |-> left]
           z == [bit |-> 1, state |-> Left(left, 1, 1)]
<1>10. y.bit = 0 /\ y.state = left /\ z.bit = 1 OBVIOUS
<1> HIDE DEF y, z
<1>11. y \in MeasureIn(sent, 0, FALSE) /\ z \in MeasureIn(y.state, 1, FALSE)
  BY <1>7, <1>8, <1>10 DEF y, z
<1>12. PICK r \in RoundEntanglement("tapped") :
          r.sifted /\ r.a = y.bit /\ r.b = z.bit /\ r.nbits = 1
  BY <1>6, <1>9, <1>11, PairGives
<1> QED BY <1>10, <1>12

(***************************************************************************)
(* What the rounds do to the raw keys.                                     *)
(***************************************************************************)

(* Without noise nothing that is sifted is wrong, in any mode.             *)
LEMMA IdealEffects ==
    /\ \A r \in CheckEffects["ideal"] : r.sifted => r.wrong = {}
    /\ \A m \in Mode : \A r \in KeyEffects[m]["ideal"] : r.sifted => r.wrong = {}
<1> DEFINE Right(E) == \A r \in E : r.sifted => r.wrong = {}
<1>1. Right({Effect(r) : r \in RoundEntanglement("ideal")})
  BY IdealPair DEF Effect
<1>2. Right({Effect(r) : r \in RoundSuperdense("ideal")})
  BY IdealSuperdense DEF Effect
<1>3. Right({Effect(r) : r \in RoundTeleport("ideal")})
  BY IdealTeleport DEF Effect
<1>4. CheckEffects["ideal"] = {Effect(r) : r \in RoundEntanglement("ideal")}
  BY DEF CheckEffects, Channel
<1>5. /\ KeyEffects["entanglement"]["ideal"] = CheckEffects["ideal"]
      /\ KeyEffects["superdense"]["ideal"] = {Effect(r) : r \in RoundSuperdense("ideal")}
      /\ KeyEffects["teleport"]["ideal"] = {Effect(r) : r \in RoundTeleport("ideal")}
  BY DEF KeyEffects, Mode, Channel
<1> HIDE DEF Right
<1>6. Right(CheckEffects["ideal"]) BY <1>1, <1>4
<1>7. ASSUME NEW m \in Mode PROVE Right(KeyEffects[m]["ideal"])
  BY <1>2, <1>3, <1>5, <1>6 DEF Mode
<1> QED BY <1>6, <1>7 DEF Right

(* A tapped line shows in a check.                                         *)
LEMMA TappedEffect ==
    \E r \in CheckEffects["tapped"] : r.sifted /\ r.wrong # {}
<1>1. PICK r \in RoundEntanglement("tapped") : r.sifted /\ r.a = 0 /\ r.b = 1 /\ r.nbits = 1
  BY TappedPair
<1>2. 0 \in Effect(r).wrong /\ Effect(r).sifted BY <1>1 DEF Effect
<1>3. Effect(r) \in CheckEffects["tapped"] BY DEF CheckEffects, Channel
<1> QED BY <1>2, <1>3

IdealInv ==
    /\ mode \in Mode /\ channel \in Channel
    /\ channel = "ideal" => diff = {} /\ errors = 0

(* An ideal line shows no error and leaves none in the raw keys, in any    *)
(* mode; a tapped one can show in a check: whatever the sizes and the      *)
(* passes are (the rounds, harvest).                                       *)
THEOREM RoundsAlwaysTell == Spec => []RoundsTell
<1>1. Init => IdealInv
  BY DEF Init, DistillInit, IdealInv
<1>2. ASSUME IdealInv, DistillInv, [Next]_vars
      PROVE  IdealInv'
  <2>1. ASSUME DistillNext \/ UNCHANGED distillVars
        PROVE  mode' = mode /\ channel' = channel
    BY <2>1 DEF distillVars, DistillNext, linkVars, Harvest, CheckRound, KeyRound, Estimate, Fail,
                CompareChunk, Halve, FlipBit, Amplify
  <2>2. mode' \in Mode /\ channel' \in Channel BY <1>2, <2>1, StepsOfDistill DEF IdealInv
  <2> SUFFICES ASSUME channel = "ideal"
               PROVE  diff' = {} /\ errors' = 0
    BY <1>2, <2>1, <2>2, StepsOfDistill DEF IdealInv
  <2>3. diff = {} /\ errors = 0 /\ mode \in Mode BY <1>2 DEF IdealInv
  <2>4. CASE Harvest BY <2>3, <2>4 DEF Harvest, rawVars
  <2>5. CASE CheckRound
    BY <2>3, <2>5, IdealEffects DEF CheckRound
  <2>6. CASE KeyRound
    <3>1. PICK r \in KeyEffects[mode]["ideal"] :
             IF r.sifted
             THEN LET added == {k \in 0 .. r.nbits - 1 : filled + k < RawBits}
                  IN  /\ diff' = diff \cup {filled + k : k \in added \cap r.wrong}
                      /\ filled' = filled + Cardinality(added)
             ELSE UNCHANGED <<diff, filled>>
      BY <2>6 DEF KeyRound
    <3>2. r.sifted => r.wrong = {} BY <2>3, IdealEffects
    <3>3. diff' = {} BY <2>3, <3>1, <3>2
    <3> QED BY <2>3, <2>6, <3>3 DEF KeyRound
  <2>7. CASE Estimate BY <2>3, <2>7 DEF Estimate, Fail, Reset, rawVars
  <2>8. CASE CompareChunk \/ Halve BY <2>3, <2>8 DEF CompareChunk, Halve, rawVars
  <2>9. CASE FlipBit
    <3>1. Wrong(diff, span.lo, span.hi) = {} BY <2>3 DEF Wrong
    <3>2. ~ParitiesDiffer(span.lo, span.hi) BY <3>1, FS_EmptySet DEF ParitiesDiffer
    <3> QED BY <1>2, <2>9, <3>2 DEF FlipBit, DistillInv, SearchOK
  <2>10. CASE Amplify BY <2>3, <2>10 DEF Amplify, Fail, Reset
  <2>11. CASE UNCHANGED distillVars BY <2>3, <2>11 DEF distillVars
  <2> QED
    BY <1>2, <2>4, <2>5, <2>6, <2>7, <2>8, <2>9, <2>10, <2>11, StepsOfDistill DEF DistillNext
<1>3. IdealInv => RoundsTell
  BY TappedEffect DEF IdealInv, RoundsTell
<1> QED
  BY <1>1, <1>2, <1>3, SearchIsOdd, PTL DEF Spec
=============================================================================
