------------------------------- MODULE Codec -------------------------------
(***************************************************************************)
(* The wire format: Ethernet, ARP, IPv4, UDP and QTLS record headers       *)
(* (kernel/net/src: eth, arp, ipv4, udp, qtls).                            *)
(*                                                                         *)
(* A frame is a sequence of 16-bit words, in the layout of the code; only  *)
(* the range of a word is smaller here, 6 bits (WordSize), its bits used   *)
(* in the same order, and lengths count words.  Payloads have whole words. *)
(* A parser gives the set of its results: one, or none when it refuses.    *)
(***************************************************************************)
EXTENDS Poly1305

CONSTANT MaxRecordPayload  \* MAX_RECORD_PAYLOAD, in words

EthHdrLen == 7
ArpLen    == 14
Ipv4HdrLen == 10
UdpHdrLen == 4
RecordHdrLen == 7
TagLen    == BlockLen

MaxWord  == WordSize - 1
Broadcast == <<MaxWord, MaxWord, MaxWord>>
EtherIpv4 == 8
EtherArp  == 9
ProtoUdp  == 1
VersionIhl == 37  \* 0x4500: version 4 above three bits of header length, 5
FlagDf    == 16   \* 0x4000: below it MF and the offset
TtlProto  == 32 + ProtoUdp
ArpFixed  == <<1, EtherIpv4, 50>>
QtlsVersion == 1

From(p, i, n) == SubSeq(p, i, i + n - 1)
After(p, n) == SubSeq(p, n + 1, Len(p))

(***************************************************************************)
(* Checksums.                                                              *)
(***************************************************************************)
Sum(p) ==
    LET upto[i \in 0 .. Len(p)] == IF i = 0 THEN 0 ELSE upto[i - 1] + p[i]
    IN  upto[Len(p)]

(* checksum_finish: fold carries until none is left, then complement; sums *)
(* are far below WordSize^2, where two foldings and one for their carry do.*)
ChecksumFinish(n) ==
    LET fold(x) == (x % WordSize) + x \div WordSize IN MaxWord - fold(fold(fold(n)))

(***************************************************************************)
(* Ethernet and ARP.                                                       *)
(***************************************************************************)
EthWrite(dst, src, type, payload) == dst \o src \o <<type>> \o payload

EthParse(f) ==
    IF Len(f) < EthHdrLen THEN {}
    ELSE {[dst |-> From(f, 1, 3), src |-> From(f, 4, 3), type |-> f[7], payload |-> After(f, EthHdrLen)]}

ArpWrite(a) == ArpFixed \o <<a.op>> \o a.sha \o a.spa \o a.tha \o a.tpa

ArpParse(p) ==
    IF Len(p) < ArpLen \/ From(p, 1, 3) # ArpFixed THEN {}
    ELSE {[op |-> p[4], sha |-> From(p, 5, 3), spa |-> From(p, 8, 2),
           tha |-> From(p, 10, 3), tpa |-> From(p, 13, 2)]}

(***************************************************************************)
(* IPv4.                                                                   *)
(***************************************************************************)
Ipv4Write(src, dst, id, payload) ==
    LET hdr(c) == <<VersionIhl, Ipv4HdrLen + Len(payload), id, FlagDf, TtlProto, c>> \o src \o dst
    IN  hdr(ChecksumFinish(Sum(hdr(0)))) \o payload

(* A fault: a packet with padding behind it is refused.                    *)
Ipv4ParseExact(p) ==
    LET ihl == 2 * (p[1] % 8) IN
    IF \/ Len(p) < Ipv4HdrLen \/ p[1] \div 8 # 4
       \/ ihl < Ipv4HdrLen \/ p[2] < ihl \/ p[2] # Len(p)
       \/ ChecksumFinish(Sum(From(p, 1, ihl))) # 0
       \/ p[4] % FlagDf # 0
    THEN {}
    ELSE {[src |-> From(p, 7, 2), dst |-> From(p, 9, 2), proto |-> p[5] % 8,
           payload |-> SubSeq(p, ihl + 1, p[2])]}

(* The header is checked before any field is used.                         *)
Ipv4Parse(p) ==
    LET ihl == 2 * (p[1] % 8) IN
    IF \/ Len(p) < Ipv4HdrLen \/ p[1] \div 8 # 4
       \/ ihl < Ipv4HdrLen \/ p[2] < ihl \/ p[2] > Len(p)
       \/ ChecksumFinish(Sum(From(p, 1, ihl))) # 0
       \/ p[4] % FlagDf # 0  \* MF or an offset
    THEN {}
    ELSE {[src |-> From(p, 7, 2), dst |-> From(p, 9, 2), proto |-> p[5] % 8,
           payload |-> SubSeq(p, ihl + 1, p[2])]}

(***************************************************************************)
(* UDP.                                                                    *)
(***************************************************************************)
PseudoSum(src, dst, len) == Sum(src) + Sum(dst) + ProtoUdp + len

(* A fault: a checksum that comes out as 0 is sent as 0, "none".           *)
UdpFinishZero(src, dst, sport, dport, payload) ==
    LET len == UdpHdrLen + Len(payload)
        seg(c) == <<sport, dport, len, c>> \o payload
    IN  seg(ChecksumFinish(PseudoSum(src, dst, len) + Sum(seg(0))))

UdpFinish(src, dst, sport, dport, payload) ==
    LET len == UdpHdrLen + Len(payload)
        seg(c) == <<sport, dport, len, c>> \o payload
        c0 == ChecksumFinish(PseudoSum(src, dst, len) + Sum(seg(0)))
    IN  seg(IF c0 = 0 THEN MaxWord ELSE c0)

(* A checksum of 0 is not checked.                                         *)
UdpParse(src, dst, p) ==
    IF Len(p) < UdpHdrLen THEN {}
    ELSE LET seg == SubSeq(p, 1, p[3]) IN
         IF \/ p[3] < UdpHdrLen \/ p[3] > Len(p)
            \/ p[4] # 0 /\ ChecksumFinish(PseudoSum(src, dst, p[3]) + Sum(seg)) # 0
         THEN {}
         ELSE {[sport |-> p[1], dport |-> p[2], payload |-> After(seg, UdpHdrLen)]}

(***************************************************************************)
(* QTLS records: header, ciphertext and tag.                               *)
(***************************************************************************)
RecordWrite(r) == <<r.ctype * 2 + QtlsVersion, r.sid>> \o r.off \o <<r.len>>

RecordParse(p) ==
    IF \/ Len(p) < RecordHdrLen + TagLen
       \/ p[1] % 2 # QtlsVersion \/ p[1] \div 2 \notin 1 .. 4
       \/ p[7] > MaxRecordPayload \/ Len(p) # RecordHdrLen + p[7] + TagLen
    THEN {}
    ELSE {[ctype |-> p[1] \div 2, sid |-> p[2], off |-> From(p, 3, 4), len |-> p[7]]}
=============================================================================
