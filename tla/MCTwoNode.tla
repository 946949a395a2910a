----------------------------- MODULE MCTwoNode -----------------------------
(***************************************************************************)
(* The instance of TwoNode: a raw key of 8 bits in two passes, and one     *)
(* frame with a payload of up to three words.                              *)
(***************************************************************************)
EXTENDS TwoNode

PassTable == <<<<4, 1>>, <<8, 3>>>>
AfterNoise == {<<"superdense", "noisy">>}

(* With <<49>> the UDP checksum comes out as 0; <<14, 39, 45>> under the   *)
(* second key leaves the accumulator of the MAC at P.                      *)
FewPayloads == {<<>>, <<0>>, <<49>>, <<63>>, <<63, 0>>, <<7, 42>>, <<63, 63, 63>>, <<14, 39, 45>>}

LimbsOf(a, b, c, d, e) ==
    [i \in Limbs |-> CASE i = 0 -> a [] i = 1 -> b [] i = 2 -> c [] i = 3 -> d [] i = 4 -> e]

TwoKeys == {[r |-> LimbsOf(15, 15, 15, 15, 3), s |-> 262143],
            [r |-> LimbsOf(12, 3, 8, 11, 1), s |-> 4711]}

(* RFC 8439: the polynomial modulo 2^130 - 5, plus s, modulo 2^128.        *)
TagOfRfc8439(k, rec) == (Polynomial(rec, k.r) + k.s) % BlockSize

(* The README of the repository says "Poly1305: RFC 8439".  Among what A   *)
(* says here is a record with another tag: finalize does not subtract the  *)
(* modulus (finding 3 of the README).                                      *)
ASSUME NotRfc8439 ==
    \E k \in MacKeys, ct \in Payloads :
        LET hdr == [ctype |-> Data, sid |-> Session.sid, off |-> KeyOffset, len |-> Len(ct)]
            rec == Authenticated([key |-> k, ct |-> ct, hdr |-> hdr])
        IN  Tag(k, rec) # TagOfRfc8439(k, rec)
=============================================================================
