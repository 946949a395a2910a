------------------------------- MODULE Qubits -------------------------------
(***************************************************************************)
(* The state vector simulator of kernel/qphy/src/lib.rs and the three      *)
(* rounds that run on it, as sets of what they can give.                   *)
(*                                                                         *)
(* Every state reached from |0> by these gates has amplitudes that are     *)
(* integers times one common factor.  H is kept without its 1/sqrt(2), so  *)
(* amplitudes are exact; the code never normalises either, and a result    *)
(* of a measurement is possible when some amplitude of it is not 0.        *)
(***************************************************************************)
EXTENDS Integers

Qubit == 0 .. 3           \* SIM_QUBITS
Basis == 0 .. 2^4 - 1     \* DIM

Bit(i, q)  == (i \div 2^q) % 2
Flip(i, q) == IF Bit(i, q) = 1 THEN i - 2^q ELSE i + 2^q

(***************************************************************************)
(* Gates.                                                                  *)
(***************************************************************************)
Zero    == [i \in Basis |-> IF i = 0 THEN 1 ELSE 0]
X(s, q) == [i \in Basis |-> s[Flip(i, q)]]
Z(s, q) == [i \in Basis |-> IF Bit(i, q) = 1 THEN -s[i] ELSE s[i]]
H(s, q) == [i \in Basis |-> IF Bit(i, q) = 1 THEN s[Flip(i, q)] - s[i]
                                             ELSE s[i] + s[Flip(i, q)]]
Cnot(s, c, t) == [i \in Basis |-> IF Bit(i, c) = 1 THEN s[Flip(i, t)] ELSE s[i]]
BellPair(s, a, b) == Cnot(H(s, a), a, b)

When(cond, after, before) == IF cond THEN after ELSE before

(***************************************************************************)
(* Measurements: the set of [bit, state] that are possible.                *)
(***************************************************************************)
Measure(s, q) ==
    {[bit |-> b, state |-> [i \in Basis |-> IF Bit(i, q) = b THEN s[i] ELSE 0]] :
        b \in {c \in {0, 1} : \E i \in Basis : Bit(i, q) = c /\ s[i] # 0}}

MeasureIn(s, q, basisX) ==
    {[bit |-> m.bit, state |-> When(basisX, H(m.state, q), m.state)] :
        m \in Measure(When(basisX, H(s, q), s), q)}

(***************************************************************************)
(* ChannelModel::transmit: an eavesdropper measures in a basis of hers and *)
(* sends on; noise is one of three Pauli errors, or none.                  *)
(***************************************************************************)
Channel == {"ideal", "noisy", "tapped"}

Transmit(ch, s, q) ==
    CASE ch = "ideal"  -> {s}
      [] ch = "noisy"  -> {s, X(s, q), Z(s, q), Z(X(s, q), q)}
      [] ch = "tapped" -> {m.state : m \in MeasureIn(s, q, TRUE) \cup MeasureIn(s, q, FALSE)}

(***************************************************************************)
(* The rounds.                                                             *)
(***************************************************************************)
Round(a, b, nbits, sifted) == [a |-> a, b |-> b, nbits |-> nbits, sifted |-> sifted]

(* BBM92: qubit 0 is A's, qubit 1 goes to B.                               *)
RoundEntanglement(ch) ==
    UNION {UNION {{Round(a.bit, b.bit, 1, bases[1] = bases[2]) :
                      b \in MeasureIn(a.state, 1, bases[2])} :
                  a \in MeasureIn(s, 0, bases[1])} :
           s \in Transmit(ch, BellPair(Zero, 0, 1), 1), bases \in BOOLEAN \X BOOLEAN}

(* Superdense coding: two bits on A's half, which goes to B.               *)
SuperdenseRead(s, msg) ==
    UNION {{Round(msg, 2 * hi.bit + lo.bit, 2, TRUE) : lo \in Measure(hi.state, 1)} :
           hi \in Measure(H(Cnot(s, 0, 1), 0), 0)}

RoundSuperdense(ch) ==
    UNION {LET bell == BellPair(Zero, 0, 1)
               flipped == When(Bit(msg, 0) = 1, X(bell, 0), bell)
               coded == When(Bit(msg, 1) = 1, Z(flipped, 0), flipped)
           IN  UNION {SuperdenseRead(s, msg) : s \in Transmit(ch, coded, 0)} : msg \in 0 .. 3}

(* A fault: B takes the two corrections for each other.                    *)
SwappedCorrection(s, m0, m1) ==
    LET flipped == When(m0 = 1, X(s, 2), s) IN When(m1 = 1, Z(flipped, 2), flipped)

(* B corrects by the two bits A has measured.                              *)
Correction(s, m0, m1) ==
    LET flipped == When(m1 = 1, X(s, 2), s) IN When(m0 = 1, Z(flipped, 2), flipped)

(* B reads what is left on its half, in a basis of its own.                *)
TeleportRead(s, bit, basisA) ==
    UNION {{Round(bit, b.bit, 1, basisA = basisB) : b \in MeasureIn(s, 2, basisB)} :
           basisB \in BOOLEAN}

(* Teleportation: 0 carries A's bit, 1 and 2 are the pair, 2 goes to B;    *)
(* A measures 0 and 1 in the Bell basis.                                   *)
TeleportFrom(s, bit, basisA) ==
    UNION {UNION {TeleportRead(Correction(m1.state, m0.bit, m1.bit), bit, basisA) :
                  m1 \in Measure(m0.state, 1)} :
           m0 \in Measure(H(Cnot(s, 0, 1), 0), 0)}

RoundTeleport(ch) ==
    UNION {LET set == When(choice[1] = 1, X(Zero, 0), Zero)
               key == When(choice[2], H(set, 0), set)
           IN  UNION {TeleportFrom(s, choice[1], choice[2]) :
                      s \in Transmit(ch, BellPair(key, 1, 2), 2)} :
           choice \in {0, 1} \X BOOLEAN}
=============================================================================
