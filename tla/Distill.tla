------------------------------ MODULE Distill ------------------------------
(***************************************************************************)
(* SimQuantumLink::harvest of kernel/qphy/src/lib.rs: fill the raw key by  *)
(* rounds, estimate the error rate from checks, reconcile, account for     *)
(* what leaked, and give both ends a block, or an error.                   *)
(*                                                                         *)
(* The raw keys are abstracted to diff, the positions where they differ:   *)
(* every comparison of the code is of equal positions or of the parities   *)
(* of both ends, and toeplitz_compress is one linear function of public    *)
(* seed, so equal raw keys give equal blocks.  A block is its number.      *)
(***************************************************************************)
EXTENDS Qubits, FiniteSets, Sequences

CONSTANTS RawBits, KeyBlockBits, MinChecks, MaxRounds, EcMaxRounds, PaSafetyBits,
          QberAbortPpm, Passes, \* as in qphy; Passes is a sequence of <<length, multiplier>>
          MaxDiff,    \* bound: bits in which the raw keys differ
          MaxHarvests \* bound: calls of harvest

ASSUME SizeAssumption ==
    /\ RawBits \in Nat /\ KeyBlockBits \in 1 .. RawBits /\ MinChecks \in Nat \ {0}
    /\ EcMaxRounds \in Nat /\ PaSafetyBits \in Nat

(* Where a pass of a round looks for position i.                           *)
PermAt(round, pass, i) == (i * Passes[pass][2] * (1 + 2 * round) + round * 101) % RawBits

(* Chunks fill the raw key, and multipliers are odd where its length is a  *)
(* power of 2, so that a pass looks at every position once.                *)
ASSUME PassAssumption ==
    /\ Passes \in Seq((Nat \ {0}) \X Nat) /\ Passes # <<>>
    /\ \A k \in DOMAIN Passes : RawBits % Passes[k][1] = 0
    /\ \A round \in 0 .. EcMaxRounds - 1, k \in DOMAIN Passes, i, j \in 0 .. RawBits - 1 :
          PermAt(round, k, i) = PermAt(round, k, j) => i = j

VARIABLES mode, channel,  \* KeyMode and ChannelModel of the link
          phase,          \* what harvest does: "idle", "fill" or "correct"
          rounds, filled, checks, errors, \* the loop of harvest
          diff,           \* where raw_a and raw_b differ
          ec, span,       \* where reconcile is: round, pass and chunk; lo and hi in it
          leaked,         \* parities it has made public
          nextSeq,        \* next_seq
          harvests,       \* calls so far
          given           \* the blocks given: number, difference, and bits it was charged for

linkVars == <<mode, channel>>
rawVars  == <<rounds, filled, checks, errors>>
distillVars == <<mode, channel, phase, rounds, filled, checks, errors, diff, ec, span, leaked,
                 nextSeq, harvests, given>>

Mode == {"entanglement", "superdense", "teleport"}
Start == [round |-> 0, pass |-> 1, chunk |-> 0]
NoSpan == [lo |-> 0, hi |-> 0]

DistillInit ==
    /\ mode \in Mode /\ channel \in Channel
    /\ phase = "idle" /\ rounds = 0 /\ filled = 0 /\ checks = 0 /\ errors = 0
    /\ diff = {} /\ ec = Start /\ span = NoSpan /\ leaked = 0
    /\ nextSeq = 0 /\ harvests = 0 /\ given = <<>>

(* The raw keys and the counters are locals of harvest.                    *)
Reset ==
    /\ rounds' = 0 /\ filled' = 0 /\ checks' = 0 /\ errors' = 0
    /\ diff' = {} /\ ec' = Start /\ span' = NoSpan /\ leaked' = 0

Harvest ==
    /\ phase = "idle" /\ harvests < MaxHarvests
    /\ phase' = "fill" /\ harvests' = harvests + 1
    /\ UNCHANGED <<linkVars, rawVars, diff, ec, span, leaked, nextSeq, given>>

Fail == phase' = "idle" /\ Reset /\ UNCHANGED <<linkVars, nextSeq, harvests, given>>

(***************************************************************************)
(* Rounds.  What a round does to the raw keys: is it sifted, how many bits *)
(* it adds, and which of them differ.                                      *)
(***************************************************************************)
Effect(r) == [sifted |-> r.sifted, nbits |-> r.nbits,
              wrong |-> {k \in 0 .. r.nbits - 1 : (r.a \div 2^k) % 2 # (r.b \div 2^k) % 2}]

CheckEffects == [c \in Channel |-> {Effect(r) : r \in RoundEntanglement(c)}]
KeyEffects ==
    [m \in Mode |-> [c \in Channel |->
        CASE m = "entanglement" -> CheckEffects[c]
          [] m = "superdense"   -> {Effect(r) : r \in RoundSuperdense(c)}
          [] m = "teleport"     -> {Effect(r) : r \in RoundTeleport(c)}]]

Filling == phase = "fill" /\ rounds < MaxRounds /\ ~(filled >= RawBits /\ checks >= MinChecks)

(* A check round; after the raw key is full every round is one.            *)
CheckRound ==
    /\ Filling
    /\ \E r \in CheckEffects[channel] :
          /\ checks' = IF r.sifted THEN checks + 1 ELSE checks
          /\ errors' = IF r.sifted /\ r.wrong # {} THEN errors + 1 ELSE errors
    /\ rounds' = rounds + 1
    /\ UNCHANGED <<linkVars, phase, filled, diff, ec, span, leaked, nextSeq, harvests, given>>

KeyRound ==
    /\ Filling /\ filled < RawBits
    /\ \E r \in KeyEffects[mode][channel] :
          IF r.sifted
          THEN LET added == {k \in 0 .. r.nbits - 1 : filled + k < RawBits}
               IN  /\ diff' = diff \cup {filled + k : k \in added \cap r.wrong}
                   /\ filled' = filled + Cardinality(added)
          ELSE UNCHANGED <<diff, filled>>
    /\ Cardinality(diff') <= MaxDiff
    /\ rounds' = rounds + 1
    /\ UNCHANGED <<linkVars, phase, checks, errors, ec, span, leaked, nextSeq, harvests, given>>

QberPpm == (errors * 1000000) \div checks

(* The estimate, after the loop.                                           *)
Estimate ==
    /\ phase = "fill" /\ ~Filling
    /\ IF \/ filled < RawBits \/ checks < MinChecks  \* InsufficientSamples
          \/ QberPpm > QberAbortPpm                  \* QberExceeded
       THEN Fail
       ELSE phase' = "correct"
            /\ UNCHANGED <<linkVars, rawVars, diff, ec, span, leaked, nextSeq, harvests, given>>

(***************************************************************************)
(* reconcile, one comparison of parities at a time.                        *)
(***************************************************************************)

Perm(i) == PermAt(ec.round, ec.pass, i)

(* The positions of lo .. hi - 1 where the two ends differ; their parities *)
(* differ when there is an odd number of them.                             *)
Wrong(d, lo, hi) == {i \in lo .. hi - 1 : Perm(i) \in d}
ParitiesDiffer(lo, hi) == Cardinality(Wrong(diff, lo, hi)) % 2 = 1

ChunkBits == Passes[ec.pass][1]
ChunkLo == ec.chunk * ChunkBits
ChunkHi == (ec.chunk + 1) * ChunkBits

(* The chunk after this one, then the next pass, then the next round.      *)
NextChunk ==
    IF ec.chunk + 1 < RawBits \div ChunkBits THEN [ec EXCEPT !.chunk = @ + 1]
    ELSE IF ec.pass < Len(Passes) THEN [round |-> ec.round, pass |-> ec.pass + 1, chunk |-> 0]
    ELSE [round |-> ec.round + 1, pass |-> 1, chunk |-> 0]

(* a = b is tested at the start of a round only.                           *)
Reconciled == ec.pass = 1 /\ ec.chunk = 0 /\ (diff = {} \/ ec.round = EcMaxRounds)

CompareChunk ==
    /\ phase = "correct" /\ span = NoSpan /\ ~Reconciled
    /\ leaked' = leaked + 1
    /\ IF ParitiesDiffer(ChunkLo, ChunkHi)
       THEN span' = [lo |-> ChunkLo, hi |-> ChunkHi] /\ UNCHANGED ec
       ELSE ec' = NextChunk /\ UNCHANGED span
    /\ UNCHANGED <<linkVars, rawVars, phase, diff, nextSeq, harvests, given>>

(* A fault: the upper half starts one late.                                *)
HalfSkips(lo, hi) ==
    LET mid == (lo + hi) \div 2
    IN  IF ParitiesDiffer(lo, mid) THEN [lo |-> lo, hi |-> mid] ELSE [lo |-> mid + 1, hi |-> hi]

(* The half with different parities.                                       *)
Half(lo, hi) ==
    LET mid == (lo + hi) \div 2
    IN  IF ParitiesDiffer(lo, mid) THEN [lo |-> lo, hi |-> mid] ELSE [lo |-> mid, hi |-> hi]

Halve ==
    /\ span # NoSpan /\ span.hi - span.lo > 1
    /\ leaked' = leaked + 1
    /\ span' = Half(span.lo, span.hi)
    /\ UNCHANGED <<linkVars, rawVars, phase, diff, ec, nextSeq, harvests, given>>

FlipBit ==
    /\ span # NoSpan /\ ~(span.hi - span.lo > 1)
    /\ LET at == {Perm(span.lo)} IN diff' = (diff \ at) \cup (at \ diff)
    /\ ec' = NextChunk /\ span' = NoSpan
    /\ UNCHANGED <<linkVars, rawVars, phase, leaked, nextSeq, harvests, given>>

(***************************************************************************)
(* Privacy amplification.                                                  *)
(***************************************************************************)

(* The table of binary_entropy, in units of 0.0001.                        *)
EntropyTable == <<0, 808, 1414, 1944, 2423, 2864, 3274, 3659, 4022, 4365, 4690, 4999>>

(* RawBits times binary_entropy, between two entries by linear             *)
(* interpolation; a rate above 0.11 counts as 0.11.                        *)
EveBits(ppm) ==
    LET i == ppm \div 10000
    IN  IF i >= 11 THEN (RawBits * EntropyTable[12]) \div 10000
        ELSE (RawBits * (EntropyTable[i + 1] * 10000
                + (EntropyTable[i + 2] - EntropyTable[i + 1]) * (ppm % 10000))) \div 100000000

AtLeast0(n) == IF n < 0 THEN 0 ELSE n

(* A fault: the parities that were made public are not subtracted.         *)
ForgetsLeaked(ppm) == AtLeast0(AtLeast0(RawBits - EveBits(ppm)) - PaSafetyBits)

SecureBits(ppm) == AtLeast0(AtLeast0(AtLeast0(RawBits - EveBits(ppm)) - leaked) - PaSafetyBits)

Block == [seq |-> nextSeq, diff |-> diff, charged |-> EveBits(QberPpm) + leaked + PaSafetyBits]

(* A fault: blocks that were not compared.                                 *)
AmplifyUnchecked ==
    /\ phase = "correct" /\ span = NoSpan /\ Reconciled
    /\ IF SecureBits(QberPpm) < KeyBlockBits
       THEN Fail
       ELSE /\ given' = Append(given, Block)
            /\ nextSeq' = nextSeq + 1 /\ phase' = "idle"
            /\ Reset /\ UNCHANGED <<linkVars, harvests>>

(* The end of harvest: ReconciliationFailed, InsufficientSecrecy, or Ok.   *)
Amplify ==
    /\ phase = "correct" /\ span = NoSpan /\ Reconciled
    /\ IF diff # {} \/ SecureBits(QberPpm) < KeyBlockBits
       THEN Fail
       ELSE /\ given' = Append(given, Block)
            /\ nextSeq' = nextSeq + 1 /\ phase' = "idle"
            /\ Reset /\ UNCHANGED <<linkVars, harvests>>

DistillNext ==
    \/ Harvest \/ CheckRound \/ KeyRound \/ Estimate
    \/ CompareChunk \/ Halve \/ FlipBit \/ Amplify

(***************************************************************************)
(* Properties.                                                             *)
(***************************************************************************)

(* On an ideal channel the two ends never differ, in a check or in a key   *)
(* bit of any of the three modes; with an eavesdropper on the line a check *)
(* can fail (the rounds, the gates and the sifting).                       *)
RoundsTell ==
    /\ channel = "ideal" => diff = {} /\ errors = 0
    /\ channel = "tapped" => \E r \in CheckEffects[channel] : r.sifted /\ r.wrong # {}

(* No step of reconcile makes a new error, and it leaves a chunk with an   *)
(* even number of them (reconcile: parities, halving and the permutation   *)
(* agree on the positions they name).                                      *)
CorrectionOnlyRemoves ==
    [][phase = "correct" /\ phase' = "correct" =>
          /\ diff' \subseteq diff
          /\ ec' # ec => Cardinality(Wrong(diff', ChunkLo, ChunkHi)) % 2 = 0]_distillVars

(* Both ends get the same blocks, numbered one after the other without a   *)
(* gap whatever failed in between, and no block is longer than what is     *)
(* left of the raw key without what an eavesdropper may know, the parities *)
(* made public and the margin: no subtraction stopped at 0 on the way      *)
(* (harvest; two_node asserts that a = b).                                 *)
BlocksAreSound ==
    \A i \in DOMAIN given :
        /\ given[i].seq = i - 1 /\ given[i].diff = {}
        /\ given[i].charged + KeyBlockBits <= RawBits
=============================================================================
