------------------------------ MODULE Poly1305 ------------------------------
(***************************************************************************)
(* The one-time MAC of uhf/src/lib.rs: limbs, carries and the buffer of a  *)
(* partial block.                                                          *)
(*                                                                         *)
(* The structure is the code's, the widths are parameters: five limbs, so  *)
(* that the modulus is 2^130 - 5, and a block and a tag of five limbs      *)
(* without the two upper bits of the last.  In the code limbs have 26 bits *)
(* and a block 16 bytes.  TLC runs it with limbs of 4 bits and blocks of 3 *)
(* words of 6 bits, where 2^20 - 5 is prime too.                           *)
(* Products fit u64 in the code (ProcessBlockFits), so nothing wraps but   *)
(* the last addition.                                                      *)
(***************************************************************************)
EXTENDS Integers, Sequences

CONSTANTS LimbSize,       \* 2^26
          WordSize,       \* 2^8: a word of a message is a byte
          BlockLen        \* BLOCK, in words

ASSUME LimbAssumption == LimbSize \in Nat /\ LimbSize >= 16

HighBit   == LimbSize \div 4  \* 2^24: the bit above a block, in its last limb
BlockSize == LimbSize * (LimbSize * (LimbSize * (LimbSize * HighBit)))  \* 2^128
P == LimbSize * (LimbSize * (LimbSize * (LimbSize * LimbSize))) - 5  \* 2^130 - 5

Limbs == 0 .. 4

(* The little-endian number in a block.                                    *)
Number(b) ==
    LET upper[i \in 0 .. Len(b)] ==
            IF i = 0 THEN 0 ELSE b[Len(b) + 1 - i] + WordSize * upper[i - 1]
    IN  upper[Len(b)]

(* u128 has room for every block: 256^16 = 2^128.                          *)
ASSUME BlockAssumption ==
    /\ WordSize \in Nat /\ WordSize > 1 /\ BlockLen \in Nat \ {0}
    /\ \A b \in [1 .. BlockLen -> 0 .. WordSize - 1] : Number(b) < BlockSize

(***************************************************************************)
(* Arithmetic on five limbs.                                               *)
(***************************************************************************)

Low(n)  == n % LimbSize
High(n) == n \div LimbSize

Limb(n, i) == Low(CASE i = 0 -> n [] i = 1 -> High(n) [] i = 2 -> High(High(n))
                    [] i = 3 -> High(High(High(n))) [] i = 4 -> High(High(High(High(n)))))

(* A fault: the carry out of the top limb is lost.                         *)
CarryDropsTop(d) ==
    LET d1 == d[1] + High(d[0])
        d2 == d[2] + High(d1)
        d3 == d[3] + High(d2)
        d4 == d[4] + High(d3)
    IN  [i \in Limbs |-> Low(CASE i = 0 -> d[0] [] i = 1 -> d1 [] i = 2 -> d2 [] i = 3 -> d3
                                [] i = 4 -> d4)]

(* One pass of carries: what reaches 2^130 comes back times 5, and limb 1  *)
(* may stay above LimbSize.                                                *)
Carry(d) ==
    LET d1 == d[1] + High(d[0])
        d2 == d[2] + High(d1)
        d3 == d[3] + High(d2)
        d4 == d[4] + High(d3)
        h0 == Low(d[0]) + 5 * High(d4)
    IN  [i \in Limbs |-> CASE i = 0 -> Low(h0) [] i = 1 -> Low(d1) + High(h0) [] i = 2 -> Low(d2)
                           [] i = 3 -> Low(d3) [] i = 4 -> Low(d4)]

(* mul_r.                                                                  *)
MulR(h, r) ==
    LET at(k, i) == h[i] * (IF k >= i THEN r[k - i] ELSE 5 * r[k - i + 5])
    IN  Carry([k \in Limbs |-> at(k, 0) + at(k, 1) + at(k, 2) + at(k, 3) + at(k, 4)])

PropagateCarry(h) == Carry(Carry(h))

(* h_to_u128, where it is the sum of the limbs (they are below LimbSize).  *)
ToBlock(h) ==
    h[0] + LimbSize * (h[1] + LimbSize * (h[2] + LimbSize * (h[3] + LimbSize * (h[4] % HighBit))))

(***************************************************************************)
(* The context: update and finalize.                                       *)
(***************************************************************************)
Fresh == [h |-> [i \in Limbs |-> 0], buf |-> <<>>]

(* process_block, with the bit above the block or without it.              *)
ProcessBlock(h, b, hibit, r) ==
    LET n(i) == Limb(Number(b), i) + (IF i = 4 THEN HighBit * hibit ELSE 0)
    IN  MulR([i \in Limbs |-> h[i] + n(i)], r)

(* The accumulator after each block of data.                               *)
AfterBlocks(h, data, r) ==
    LET after[k \in 0 .. Len(data) \div BlockLen] ==
            IF k = 0 THEN h
            ELSE ProcessBlock(after[k - 1], SubSeq(data, (k - 1) * BlockLen + 1, k * BlockLen), 1, r)
    IN  after

(* A fault: what is left of the buffer is lost when a block comes.         *)
UpdateForgets(c, data, r) ==
    LET n == Len(data) \div BlockLen
        rest == SubSeq(data, n * BlockLen + 1, Len(data))
    IN  [h |-> AfterBlocks(c.h, data, r)[n], buf |-> IF rest = <<>> THEN c.buf ELSE rest]

(* update: fill the buffer up to a block, process whole blocks, keep the   *)
(* rest.                                                                   *)
Update(c, data, r) ==
    LET all == c.buf \o data
        n == Len(all) \div BlockLen
    IN  [h |-> AfterBlocks(c.h, all, r)[n], buf |-> SubSeq(all, n * BlockLen + 1, Len(all))]

(* The last block of finalize: a 1 after the data, then zeros.             *)
PadBlock(buf) == [i \in 1 .. BlockLen |-> IF i <= Len(buf) THEN buf[i]
                                         ELSE IF i = Len(buf) + 1 THEN 1 ELSE 0]

(* The accumulator that finalize reads, and the tag.                       *)
Settled(c, r) ==
    PropagateCarry(IF c.buf = <<>> THEN c.h ELSE ProcessBlock(c.h, PadBlock(c.buf), 0, r))
Finalize(c, r, s) == (ToBlock(Settled(c, r)) + s) % BlockSize

Mac(r, s, msg) == Finalize(Update(Fresh, msg, r), r, s)

(***************************************************************************)
(* What it computes: a polynomial in r, modulo P.                          *)
(***************************************************************************)
Value(h) ==
    h[0] + LimbSize * (h[1] + LimbSize * (h[2] + LimbSize * (h[3] + LimbSize * h[4])))

(* a * b modulo P, in two halves of b: below 2^31 for a, b < 2^20.         *)
TimesMod(a, b) == (((a * (b \div 1024)) % P) * 1024 + a * (b % 1024)) % P

(* Coefficient k of message msg: its block with a 1 above it.              *)
Coefficient(msg, k) ==
    LET first == (k - 1) * BlockLen
        last  == IF first + BlockLen <= Len(msg) THEN first + BlockLen ELSE Len(msg)
        b == SubSeq(msg, first + 1, last)
    IN  IF Len(b) = BlockLen THEN Number(b) + BlockSize ELSE Number(PadBlock(b))

(* The blocks of msg as coefficients: (..(m1 * r + m2) * r .. + mn) * r.   *)
Horner(msg, r) ==
    LET horner[k \in 0 .. (Len(msg) + BlockLen - 1) \div BlockLen] ==
            IF k = 0 THEN 0
            ELSE TimesMod((horner[k - 1] + Coefficient(msg, k)) % P, Value(r))
    IN  horner

Polynomial(msg, r) == Horner(msg, r)[(Len(msg) + BlockLen - 1) \div BlockLen]
=============================================================================
