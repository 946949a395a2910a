------------------------------ MODULE QtlsLink ------------------------------
(***************************************************************************)
(* Two nodes joined by a quantum link and by a network that loses,         *)
(* repeats, reorders and alters QTLS records (kernel/net/src/qtls.rs over  *)
(* the lanes of kernel/qkey).                                              *)
(*                                                                         *)
(* L1 feeds both nodes the same blocks, at different times.  seal takes    *)
(* one-time key from the sender's lane and puts its offset in the record;  *)
(* open finds the key by that offset, checks the tag and only then burns   *)
(* the key.  A node that panics wipes its lanes, misses the blocks that    *)
(* come while it is down, and boots with empty lanes at offset 0.          *)
(*                                                                         *)
(* Key bytes are abstracted to their identity: their position in the       *)
(* stream L1 gives a lane.  Two ends hold the same byte at an offset when  *)
(* the two positions agree, and a tag verifies exactly then, on a record   *)
(* that nobody altered (a one-time MAC has no forgeries in this model).    *)
(***************************************************************************)
EXTENDS KeyWindow

CONSTANTS BlockLen,    \* KEY_BLOCK_BYTES
          MacCost,     \* MAC_KEY_LEN: key bytes of a record beside its payload's
          MaxPayload,  \* MAX_RECORD_PAYLOAD
          ForgedOffsets, \* key offsets that an altered header may carry
          MaxBlocks,   \* bound: L1 blocks in a behaviour
          MaxMsgs,     \* bound: records each node seals
          MaxBoots     \* bound: panics over the behaviour

ASSUME BlockAssumption  == BlockLen \in 1 .. Capacity
ASSUME RecordAssumption == MacCost \in Nat \ {0} /\ MaxPayload \in Nat
ASSUME ForgedAssumption == ForgedOffsets \subseteq Nat
ASSUME BoundAssumption  == MaxBlocks \in Nat /\ MaxMsgs \in Nat /\ MaxBoots \in Nat

VARIABLES keys,    \* keys[n][l]: node n's lane l (struct PeerKeys)
          seq,     \* seq[n]: the next L1 block for n
          stream,  \* stream[n][l]: bytes L1 has sent n for lane l, also while down
          wire,    \* every record ever sealed: the network may deliver any, any time
          up,      \* up[n]: n is running
          boots,   \* panics so far
          sent,    \* sent[n]: records n has sealed
          got      \* got[n]: the number of the last record n opened

vars == <<keys, seq, stream, wire, up, boots, sent, got>>

Node == {"A", "B"}
Lane == {0, 1}
Peer(n) == IF n = "A" THEN "B" ELSE "A"

(* A fault: both ends take the sender's role.                              *)
SameTxLane(n) == 0

(* LinkRole: A sends on lane 0 and receives on lane 1, B the reverse.      *)
TxLane(n) == IF n = "A" THEN 0 ELSE 1
RxLane(n) == 1 - TxLane(n)

KeyCost(len) == MacCost + len

Record == [from : Node, msg : Nat, off : Nat, len : 0 .. MaxPayload, pos : Nat]

Cost(r) == KeyCost(r.len)

(* The stream position of the byte at offset 0 of a lane, and of the first *)
(* byte that the lane can still hand out.                                  *)
Origin(n, l) == stream[n][l] - End(keys[n][l])
Front(n, l)  == stream[n][l] - keys[n][l].count

SetLane(n, l, w) == keys' = [keys EXCEPT ![n][l] = w]

(***************************************************************************)
(* L1 and the life of a node.                                              *)
(***************************************************************************)

(* The lane of an L1 block: both ends use the parity of its number.        *)
BlockLane(s) == s % 2

(* L1 delivers the next block; a running node deposits it (qkd_pump,       *)
(* deposit_block), one that is down misses it.                             *)
L1Block(n) ==
    /\ seq[n] < MaxBlocks
    /\ LET l == BlockLane(seq[n])
       IN  /\ stream' = [stream EXCEPT ![n][l] = @ + BlockLen]
           /\ \/ up[n] /\ SetLane(n, l, Deposit(keys[n][l], BlockLen))
              \/ ~up[n] /\ UNCHANGED keys
    /\ seq' = [seq EXCEPT ![n] = @ + 1]
    /\ UNCHANGED <<wire, up, boots, sent, got>>

(* The panic handler wipes every lane and halts (emergency_zeroize).       *)
Panic(n) ==
    /\ up[n]
    /\ boots < MaxBoots
    /\ up' = [up EXCEPT ![n] = FALSE]
    /\ boots' = boots + 1
    /\ keys' = [keys EXCEPT ![n] = [l \in Lane |-> Wipe(keys[n][l])]]
    /\ UNCHANGED <<seq, stream, wire, sent, got>>

(* A power cycle: kernel_main starts from the static initial lanes.        *)
Boot(n) ==
    /\ ~up[n]
    /\ up' = [up EXCEPT ![n] = TRUE]
    /\ keys' = [keys EXCEPT ![n] = [l \in Lane |-> EmptyWindow]]
    /\ UNCHANGED <<seq, stream, wire, boots, sent, got>>

(***************************************************************************)
(* seal and open.                                                          *)
(***************************************************************************)

(* A sealed record names its key by the offset take returned.              *)
Sealed(n, len) ==
    LET l == TxLane(n)
    IN  [from |-> n, msg |-> sent[n] + 1, off |-> keys[n][l].base, len |-> len,
         pos |-> Front(n, l)]

(* seal: without enough key the record is refused, never sent in another   *)
(* way.  That the network may never deliver it covers a NIC that is full.  *)
Seal(n, len) ==
    /\ up[n]
    /\ LET l == TxLane(n)
           w == keys[n][l]
       IN  \/ /\ CanTake(w, KeyCost(len))
              /\ sent[n] < MaxMsgs
              /\ SetLane(n, l, Take(w, KeyCost(len)))
              /\ wire' = wire \cup {Sealed(n, len)}
              /\ sent' = [sent EXCEPT ![n] = @ + 1]
              /\ UNCHANGED <<seq, stream, up, boots, got>>
           \/ ~CanTake(w, KeyCost(len)) /\ UNCHANGED vars

(* Faults: a tag that does not cover the key offset, and one not checked.  *)
TagSkipsOffset(n, r, off, damaged) ==
    /\ ~damaged
    /\ TxLane(r.from) = RxLane(n)
    /\ Origin(n, RxLane(n)) + r.off = r.pos

TagUnchecked(n, r, off, damaged) == TRUE

(* The tag of r verifies at n when its header still says r's offset, the   *)
(* rest is undamaged, and n's key there is the key that r was sealed with. *)
TagValid(n, r, off, damaged) ==
    /\ ~damaged
    /\ off = r.off
    /\ TxLane(r.from) = RxLane(n)
    /\ Origin(n, RxLane(n)) + off = r.pos

(* What open does to key and record number when it succeeds.               *)
Opened(n, r, off) ==
    /\ SetLane(n, RxLane(n), ConsumeTo(keys[n][RxLane(n)], off, Cost(r)))
    /\ got' = [got EXCEPT ![n] = r.msg]
    /\ UNCHANGED <<seq, stream, wire, up, boots, sent>>

(* Faults: open that burns the key before it checks the tag, and open that *)
(* never burns it.                                                         *)
OpenBurnsFirst(n, r, off, damaged) ==
    up[n] /\ InWindow(keys[n][RxLane(n)], off, Cost(r)) /\ Opened(n, r, off)

OpenKeepsKey(n, r, off, damaged) ==
    /\ up[n]
    /\ InWindow(keys[n][RxLane(n)], off, Cost(r))
    /\ TagValid(n, r, off, damaged)
    /\ got' = [got EXCEPT ![n] = r.msg]
    /\ UNCHANGED <<keys, seq, stream, wire, up, boots, sent>>

(* open, on record r as the network delivers it: with the key offset off   *)
(* in its header, damaged or not.                                          *)
Open(n, r, off, damaged) ==
    /\ up[n]
    /\ LET w == keys[n][RxLane(n)]
       IN  \/ /\ InWindow(w, off, Cost(r))
              /\ TagValid(n, r, off, damaged)
              /\ Opened(n, r, off)
           \/ ~InWindow(w, off, Cost(r)) /\ UNCHANGED vars
           \/ /\ InWindow(w, off, Cost(r))
              /\ ~TagValid(n, r, off, damaged)
              /\ UNCHANGED vars

(***************************************************************************)
(* The specification.                                                      *)
(***************************************************************************)
Init ==
    /\ keys = [n \in Node |-> [l \in Lane |-> EmptyWindow]]
    /\ seq = [n \in Node |-> 0]
    /\ stream = [n \in Node |-> [l \in Lane |-> 0]]
    /\ wire = {}
    /\ up = [n \in Node |-> TRUE]
    /\ boots = 0
    /\ sent = [n \in Node |-> 0]
    /\ got = [n \in Node |-> 0]

Next == \E n \in Node :
    \/ L1Block(n)
    \/ Panic(n)
    \/ Boot(n)
    \/ \E len \in 0 .. MaxPayload : Seal(n, len)
    \/ \E r \in wire : \E off \in {r.off} \cup ForgedOffsets, damaged \in BOOLEAN :
           Open(n, r, off, damaged)

Spec == Init /\ [][Next]_vars

(***************************************************************************)
(* Properties.                                                             *)
(***************************************************************************)

(* Type invariant: the lanes are windows within the capacity.              *)
TypeOK ==
    /\ keys \in [Node -> [Lane -> Window]]
    /\ seq \in [Node -> Nat]
    /\ stream \in [Node -> [Lane -> Nat]]
    /\ wire \subseteq Record
    /\ up \in [Node -> BOOLEAN]
    /\ boots \in Nat
    /\ sent \in [Node -> Nat]
    /\ got \in [Node -> Nat]

(* The key bytes of two records have no byte in common.                    *)
KeysDisjoint(r1, r2) ==
    \/ TxLane(r1.from) # TxLane(r2.from)
    \/ r1.pos + Cost(r1) <= r2.pos
    \/ r2.pos + Cost(r2) <= r1.pos

(* One-time use: no two records are ever sealed with a common key byte, in *)
(* either direction, across panics and reboots.                            *)
NoPadReuse == \A r1, r2 \in wire : r1 # r2 => KeysDisjoint(r1, r2)

(* The records that n opens are a subsequence of those its peer sealed, in *)
(* order and each at most once, although the network repeats, reorders and *)
(* alters records and either node may lose its key state and reboot.       *)
Service == INSTANCE QtlsService
ImplementsService == Service!Spec

(* [FIX-4] The receiver never drops key its peer may yet use for a reason  *)
(* other than a full window: its window is still at offset 0, or is full,  *)
(* or starts no later than what the sender has already used.               *)
WindowNeverOvertakes ==
    \A n \in Node :
        LET l == RxLane(n)
        IN  up[n] => \/ keys[n][l].base = 0
                     \/ keys[n][l].count = Capacity
                     \/ Front(n, l) <= Front(Peer(n), l)

(* Both ends of n's receive direction run and have had the same blocks     *)
(* since they booted.                                                      *)
InSync(n) ==
    LET l == RxLane(n)
    IN  /\ up[n] /\ up[Peer(n)]
        /\ End(keys[n][l]) = End(keys[Peer(n)][l])
        /\ Origin(n, l) = Origin(Peer(n), l)

(* [FIX-4] However many records were lost, once the two ends have had the  *)
(* same blocks the receiver can open whatever the sender seals next.       *)
Resynchronises ==
    \A n \in Node : InSync(n) =>
        LET tx == keys[Peer(n)][RxLane(n)]
        IN  \A cost \in 1 .. tx.count : InWindow(keys[n][RxLane(n)], tx.base, cost)

(* The receive window moves only by a deposit, a panic or boot, or to the  *)
(* end of a record the peer sealed: a damaged, replayed or forged record   *)
(* never burns key.                                                        *)
OnlyGenuineBurnsKey ==
    [][\A n \in Node :
          LET l == RxLane(n)
          IN  (keys'[n][l] # keys[n][l] /\ seq' = seq /\ up' = up) =>
              \E r \in wire : /\ r.from = Peer(n)
                              /\ r.pos >= Front(n, l)
                              /\ Front(n, l)' = r.pos + Cost(r)
                              /\ got'[n] = r.msg]_vars

(* What the comment in qkd_pump assumes, that a block which overflows one  *)
(* end's lane overflows the other's alike: while nobody panicked and both  *)
(* have had the same blocks, a record on its way can still be opened.      *)
InFlightReadable ==
    \A n \in Node : (InSync(n) /\ boots = 0) =>
        \A r \in wire : (r.from = Peer(n) /\ r.msg > got[n]) =>
            InWindow(keys[n][RxLane(n)], r.off, Cost(r))
=============================================================================
