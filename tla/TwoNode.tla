------------------------------ MODULE TwoNode ------------------------------
(***************************************************************************)
(* Two nodes from the quantum link to the wire, as examples/two_node.rs    *)
(* puts them together: harvest gives key to both (Distill), ARP finds the  *)
(* MAC address, and A says something to B in one frame, bit for bit        *)
(* (Codec, Poly1305), that is tapped on the cable.                         *)
(*                                                                         *)
(* Sessions, lanes and the order of many frames are in NetStack and        *)
(* QtlsLink: here one session is open and one frame is on its way.         *)
(***************************************************************************)
EXTENDS Distill, Codec

CONSTANTS Links,      \* bound: the <<mode, channel>> after which the wire is explored
          Payloads,   \* ciphertexts; XOR with the same pad is one-to-one
          MacKeys,    \* one-time keys [r, s]
          Ids,        \* values of ip_id, which counts frames and wraps
          TamperOver, \* 80, without the headers and the tag
          Damages     \* words that damage can put on the cable

ASSUME WireAssumption ==
    /\ WordSize >= 64 /\ MaxRecordPayload \in Nat
    /\ Ids \subseteq 0 .. MaxWord
    /\ MacKeys \subseteq [r : [Limbs -> 0 .. LimbSize - 1], s : Nat]
    /\ \A ct \in Payloads :
          /\ ct \in Seq(0 .. MaxWord) /\ Len(ct) <= MaxRecordPayload
          /\ Ipv4HdrLen + UdpHdrLen + RecordHdrLen + Len(ct) + TagLen <= MaxWord

VARIABLES arp,     \* arp[n]: the MAC of its peer that node n has learned, or <<>>
          cable,   \* <<>>, or the frame on the cable as <<[from, frame]>>
          sealed,  \* what A has said last, or None
          intact,  \* has the frame come through unaltered?
          carried, \* has the cable done what it does to this frame?
          opened   \* what B has opened of it: <<>> or <<record>>

nodeVars == <<arp, cable, sealed, intact, carried, opened>>
vars == <<distillVars, nodeVars>>

None == [key |-> <<>>]
Node == {"A", "B"}
Peer(n) == IF n = "A" THEN "B" ELSE "A"
Mac48 == [n \in Node |-> IF n = "A" THEN <<32, 0, 41>> ELSE <<32, 0, 50>>]
Ip == [n \in Node |-> IF n = "A" THEN <<40, 1>> ELSE <<40, 2>>]
Session == [sport |-> 48, dport |-> 43, sid |-> 1]
KeyOffset == <<0, 0, 0, 5>>
Data == 3

Init ==
    /\ DistillInit
    /\ arp = [n \in Node |-> <<>>] /\ cable = <<>> /\ sealed = None
    /\ intact = TRUE /\ carried = FALSE /\ opened = <<>>

(* distribute_keys: both ends get every block that harvest gives.          *)
Distribute == DistillNext /\ UNCHANGED nodeVars

(* main goes on when the harvests are done and both lanes have key: blocks *)
(* are dealt to them by the parity of their number.                        *)
HasKeys ==
    /\ phase = "idle" /\ harvests = MaxHarvests /\ <<mode, channel>> \in Links
    /\ \A lane \in {0, 1} : \E i \in DOMAIN given : given[i].seq % 2 = lane

(***************************************************************************)
(* ARP.                                                                    *)
(***************************************************************************)
ArpFrame(n, op, dst, tha) ==
    EthWrite(dst, Mac48[n], EtherArp,
             ArpWrite([op |-> op, sha |-> Mac48[n], spa |-> Ip[n], tha |-> tha, tpa |-> Ip[Peer(n)]]))

Put(n, f) == cable' = <<[from |-> n, frame |-> f]>> /\ carried' = FALSE /\ intact' = TRUE

(* resolve of an unknown peer.                                             *)
AskArp ==
    /\ HasKeys /\ cable = <<>> /\ arp["A"] = <<>>
    /\ Put("A", ArpFrame("A", 1, Broadcast, <<0, 0, 0>>))
    /\ UNCHANGED <<distillVars, arp, sealed, opened>>

(***************************************************************************)
(* A says something: seal and send_udp.                                    *)
(***************************************************************************)

(* A fault: the header is not under the tag.                               *)
TagWithoutHeader(k, rec) == Mac(k.r, k.s, After(rec, RecordHdrLen))

(* mac of the header and the ciphertext.                                   *)
Tag(k, rec) == Mac(k.r, k.s, rec)

(* to_le_bytes.                                                            *)
TagWords(t) ==
    LET rest[i \in 0 .. TagLen] == IF i = 0 THEN t ELSE rest[i - 1] \div WordSize
    IN  [i \in 1 .. TagLen |-> rest[i - 1] % WordSize]

Authenticated(x) == RecordWrite(x.hdr) \o x.ct
SealedRecord(x) == Authenticated(x) \o TagWords(Tag(x.key, Authenticated(x)))

UdpFrame(n, id, payload) ==
    EthWrite(arp[n], Mac48[n], EtherIpv4,
             Ipv4Write(Ip[n], Ip[Peer(n)], id,
                       UdpFinish(Ip[n], Ip[Peer(n)], Session.sport, Session.dport, payload)))

Say ==
    /\ HasKeys /\ cable = <<>> /\ arp["A"] # <<>>
    /\ \E ct \in Payloads, k \in MacKeys, id \in Ids :
          LET x == [key |-> k, ct |-> ct,
                    hdr |-> [ctype |-> Data, sid |-> Session.sid, off |-> KeyOffset, len |-> Len(ct)]]
          IN  /\ sealed' = x
              /\ Put("A", UdpFrame("A", id, SealedRecord(x)))
    /\ opened' = <<>>
    /\ UNCHANGED <<distillVars, arp>>

(***************************************************************************)
(* The cable: Pass, Drop, Tamper, and what cables and switches do: a word  *)
(* altered, with the UDP checksum disabled or not, or padding at the end.  *)
(***************************************************************************)
UdpChecksumAt == EthHdrLen + Ipv4HdrLen + 4
IsRecord(f) == f[7] = EtherIpv4

FlipLowBit(w) == IF w % 2 = 1 THEN w - 1 ELSE w + 1

Tampered(f) == [f EXCEPT ![Len(f) - TagLen] = FlipLowBit(@), ![UdpChecksumAt] = 0]

Altered(f) ==
    UNION {{[f EXCEPT ![i] = w], [f EXCEPT ![i] = w, ![UdpChecksumAt] = 0]} :
           i \in DOMAIN f, w \in Damages}

Pass ==
    /\ cable # <<>> /\ ~carried
    /\ \E pad \in {<<>>, <<0, 0>>} : cable' = [cable EXCEPT ![1].frame = @ \o pad]
    /\ carried' = TRUE
    /\ UNCHANGED <<distillVars, arp, sealed, intact, opened>>

Tamper ==
    /\ cable # <<>> /\ ~carried /\ IsRecord(cable[1].frame)
    /\ \E f \in Altered(cable[1].frame) \cup
                (IF Len(sealed.ct) > TamperOver THEN {Tampered(cable[1].frame)} ELSE {}) :
          /\ f # cable[1].frame
          /\ cable' = [cable EXCEPT ![1].frame = f]
    /\ carried' = TRUE /\ intact' = FALSE
    /\ UNCHANGED <<distillVars, arp, sealed, opened>>

Drop ==
    /\ cable # <<>> /\ ~carried
    /\ cable' = <<>> /\ sealed' = None
    /\ UNCHANGED <<distillVars, arp, intact, carried, opened>>

(***************************************************************************)
(* poll: what a node does with the frame.                                  *)
(***************************************************************************)
ForMe(n, f, type) ==
    {e \in EthParse(f) : e.dst \in {Mac48[n], Broadcast} /\ e.type = type}

ArpsFor(n, f) ==
    {a \in UNION {ArpParse(e.payload) : e \in ForMe(n, f, EtherArp)} : a.tpa = Ip[n]}

(* handle_arp: learn the peer, answer a request.                           *)
ReceiveArp ==
    /\ cable # <<>> /\ carried
    /\ LET n == Peer(cable[1].from) IN
       \E a \in ArpsFor(n, cable[1].frame) :
          /\ arp' = IF a.spa = Ip[Peer(n)] THEN [arp EXCEPT ![n] = a.sha] ELSE arp
          /\ IF a.op = 1 THEN Put(n, ArpFrame(n, 2, a.sha, a.sha))
             ELSE cable' = <<>> /\ carried' = FALSE /\ UNCHANGED intact
    /\ UNCHANGED <<distillVars, sealed, opened>>

PacketsFor(n, f) ==
    {i \in UNION {Ipv4Parse(e.payload) : e \in ForMe(n, f, EtherIpv4)} :
        i.dst = Ip[n] /\ i.proto = ProtoUdp}

(* Datagrams of the session, with the address of the registered peer.      *)
DatagramsFor(n, f) ==
    {u \in UNION {UdpParse(i.src, i.dst, i.payload) :
                     i \in {j \in PacketsFor(n, f) : j.src = Ip[Peer(n)]}} :
        u.sport = Session.sport /\ u.dport = Session.dport}

RecordsFor(n, f) ==
    {x \in UNION {{[hdr |-> h, rec |-> u.payload] : h \in RecordParse(u.payload)} :
                     u \in DatagramsFor(n, f)} :
        x.hdr.sid = Session.sid}

(* The key that B finds at an offset: A's where both hold the same block,  *)
(* another everywhere else.                                                *)
KeysAt(off) ==
    IF off = KeyOffset /\ \A i \in DOMAIN given : given[i].diff = {}
    THEN {sealed.key} ELSE MacKeys \ {sealed.key}

Open(x, k) ==
    LET n == RecordHdrLen + x.hdr.len IN
    IF TagWords(Tag(k, SubSeq(x.rec, 1, n))) # After(x.rec, n) THEN <<>>
    ELSE <<[hdr |-> x.hdr, ct |-> From(x.rec, RecordHdrLen + 1, x.hdr.len)]>>

ReceiveRecord ==
    /\ cable # <<>> /\ carried
    /\ LET n == Peer(cable[1].from)
           records == RecordsFor(n, cable[1].frame)
       IN  /\ ArpsFor(n, cable[1].frame) = {}
           /\ IF records = {} THEN opened' = <<>>
              ELSE \E x \in records : \E k \in KeysAt(x.hdr.off) : opened' = Open(x, k)
    /\ cable' = <<>>
    /\ UNCHANGED <<distillVars, arp, sealed, intact, carried>>

Next ==
    \/ Distribute \/ AskArp \/ Say
    \/ Pass \/ Tamper \/ Drop
    \/ ReceiveArp \/ ReceiveRecord

Spec == Init /\ [][Next]_vars

(***************************************************************************)
(* Properties.                                                             *)
(***************************************************************************)

(* The tag of a record is (p + s) modulo 2^128, where p is its polynomial  *)
(* in r modulo P = 2^130 - 5, unless the accumulator comes to rest at      *)
(* p + P: finalize does not subtract P, and the tag is (p + P + s) modulo  *)
(* 2^128 then.  This holds however the record is cut into calls of update: *)
(* no block, no carry and no byte of the buffer is lost, and h_to_u128     *)
(* reads limbs that fit (uhf: update, mul_r, propagate_carry, finalize).   *)
TagIsPolynomial ==
    sealed # None /\ ~carried =>
        LET rec == Authenticated(sealed)
            r == sealed.key.r
            s == sealed.key.s
            p == Polynomial(rec, r)
        IN  \A i \in 0 .. Len(rec) : \A j \in i .. Len(rec) :
               LET first == Update(Fresh, SubSeq(rec, 1, i), r)
                   cut == Update(Update(first, SubSeq(rec, i + 1, j), r), After(rec, j), r)
                   h == Settled(cut, r)
               IN  /\ \A k \in Limbs : h[k] < LimbSize
                   /\ Value(h) \in {p, p + P}
                   /\ Finalize(cut, r, s) = (Value(h) + s) % BlockSize
                   /\ Tag(sealed.key, rec) = Finalize(cut, r, s)

(* The checksums of a frame are those of RFC 1071, and UDP never sends 0,  *)
(* which says that there is none (checksum_finish, Ipv4Header::write,      *)
(* UdpHeader::finish).                                                     *)
ChecksumsHold(f) ==
    LET p == After(f, EthHdrLen)
        seg == After(p, Ipv4HdrLen)
    IN  /\ Sum(From(p, 1, Ipv4HdrLen)) % MaxWord = 0
        /\ (PseudoSum(From(p, 7, 2), From(p, 9, 2), Len(seg)) + Sum(seg)) % MaxWord = 0
        /\ seg[4] # 0

(* What leaves a node has true checksums, and what the cable leaves as it  *)
(* is, or pads, arrives: ARP teaches the right address, and B opens the    *)
(* record that A sealed (every write and parse of a layer, seal, open).    *)
WireIsFaithful ==
    /\ cable # <<>> /\ ~carried /\ IsRecord(cable[1].frame) => ChecksumsHold(cable[1].frame)
    /\ \A n \in Node : arp[n] \in {<<>>, Mac48[Peer(n)]}
    /\ sealed # None /\ carried /\ intact /\ cable = <<>> =>
          opened = <<[hdr |-> sealed.hdr, ct |-> sealed.ct]>>

(* Whatever happens to a frame on the cable, also with its checksum        *)
(* disabled, B opens what A sealed or nothing at all (open: the tag covers *)
(* the header and the ciphertext; two_node, attack 4).                     *)
OnlySealedComesOut ==
    opened # <<>> => opened[1] = [hdr |-> sealed.hdr, ct |-> sealed.ct]
=============================================================================
