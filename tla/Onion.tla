-------------------------------- MODULE Onion --------------------------------
(***************************************************************************)
(* The user-land circuits: pipelines (qonion) build onion circuits (qtor)  *)
(* of sessions with word counters (wc_auth) from the keys of a pool that   *)
(* they share (key_pool) with other callers, which take a key and consume  *)
(* it as OtpEngine::encrypt (otp_engine) does on its pool.                 *)
(*                                                                         *)
(* The pool is behind a mutex: acquire, consume and add_key_material are   *)
(* one step each, and a caller of several meets others in between.  A      *)
(* pipeline is used through &mut self.  The relays and the network between *)
(* them are not in the code; a relay peels with a Receiver session of the  *)
(* hop's key, and records get lost, repeated and reordered on the way.     *)
(* A call that is refused and changes nothing is a stuttering step.        *)
(***************************************************************************)
EXTENDS Integers, FiniteSetsExt, SequencesExt

CONSTANTS Users, Pipelines,
          Hops,          \* CIRCUIT_HOPS
          CircuitIds, MaxCircuits,
          BlockSizes,    \* lengths of the key material that is added
          HopKey,        \* bytes of key that a hop takes
          LowWater,      \* low_water_mark
          PadSizes,      \* lengths of what users encrypt
          Sizes,         \* lengths of what pipelines send
          Header,        \* MAR_HEADER_LEN
          WordBytes,     \* WORD_BYTES
          MaxLen,        \* MAX_MSG_LEN
          MaxWords,      \* u64::MAX, the largest word count
          MaxBlocks, MaxMsgs  \* bounds: blocks added, messages sealed or encrypted

ASSUME HopAssumption == Hops \in Nat \ {0} /\ HopKey \in Nat \ {0}
ASSUME PoolAssumption == BlockSizes \subseteq Nat /\ LowWater \in Nat /\ MaxCircuits \in Nat
ASSUME LengthAssumption ==
    /\ PadSizes \subseteq Nat /\ Sizes \subseteq Nat /\ {Header, MaxLen, MaxWords} \subseteq Nat
    /\ WordBytes \in Nat \ {0} /\ MaxBlocks \in Nat /\ MaxMsgs \in Nat

VARIABLES blocks,    \* PoolState::blocks, in the order of their ids
          nextId,    \* PoolState::next_id
          pad,       \* pad[u]: the block user u has acquired and not consumed, or NoKey
          auth,      \* auth[p]: QOnionPipeline::authenticated
          building,  \* building[p]: the id and the keys of the circuit p builds
          circuits,  \* circuits[p]: QTorNode::circuits, a function from ids
          peeled,    \* peeled[k]: word_count of the relay's session with key k
          link,      \* link[i]: records on their way to relay i
          msgs,      \* history: how many messages there were
          used,      \* history: what was done with each key
          sent, delivered \* history, by the key of the last hop: messages sent and come out

poolVars == <<blocks, nextId>>
pipeVars == <<auth, building, circuits>>
relayVars == <<peeled, link, delivered>>
historyVars == <<msgs, used, sent>>
onionVars == <<poolVars, pad, pipeVars, relayVars, historyVars>>

Hop == 1 .. Hops
KeyId == 0 .. MaxBlocks - 1
NoKey == -1

(***************************************************************************)
(* KeyPoolManager.                                                         *)
(***************************************************************************)
Available == {b \in blocks : b.state = "Available"}

AvailableBytes == MapThenSumSet(LAMBDA b : b.len, Available)

(* The first available block that is long enough.                          *)
Fitting(b, needed) ==
    /\ b \in Available /\ b.len >= needed
    /\ \A c \in Available : c.len >= needed => b.id <= c.id

(* acquire, when it succeeds with block b.                                 *)
Acquirable(b, needed) ==
    /\ needed > 0 /\ AvailableBytes >= LowWater /\ AvailableBytes >= needed
    /\ Fitting(b, needed)

(* A fault: a block stays available when only a part of it was needed.     *)
TakenInPart(b, needed) ==
    IF needed < b.len THEN blocks
    ELSE (blocks \ {b}) \cup {[id |-> b.id, len |-> 0, state |-> "InUse"]}

(* The whole block leaves, the bytes that were not needed are dropped.     *)
Taken(b, needed) == (blocks \ {b}) \cup {[id |-> b.id, len |-> 0, state |-> "InUse"]}

(* add_key_material; an empty block is refused.                            *)
AddKey(len) ==
    /\ len > 0 /\ nextId < MaxBlocks
    /\ blocks' = blocks \cup {[id |-> nextId, len |-> len, state |-> "Available"]}
    /\ nextId' = nextId + 1
    /\ UNCHANGED <<pad, pipeVars, relayVars, historyVars>>

(***************************************************************************)
(* OtpEngine::encrypt: acquire, encrypt, consume.                          *)
(***************************************************************************)
Pad == -1

Encrypt(u, len) ==
    /\ pad[u] = NoKey /\ msgs < MaxMsgs
    /\ \E b \in blocks :
          /\ Acquirable(b, len)
          /\ blocks' = Taken(b, len)
          /\ pad' = [pad EXCEPT ![u] = b.id]
          /\ used' = used \cup {[key |-> b.id, hop |-> 0, words |-> Pad, msg |-> msgs]}
    /\ msgs' = msgs + 1
    /\ UNCHANGED <<nextId, pipeVars, relayVars, sent>>

Consume(u) ==
    /\ pad[u] # NoKey
    /\ blocks' = {b \in blocks : b.id # pad[u]}
    /\ pad' = [pad EXCEPT ![u] = NoKey]
    /\ UNCHANGED <<nextId, pipeVars, relayVars, historyVars>>

(***************************************************************************)
(* QOnionPipeline::build_circuit: one acquire for each hop.                *)
(***************************************************************************)
NotBuilding == [id |-> 0, keys |-> <<>>]

CompleteAuth(p) ==
    /\ building[p] = NotBuilding
    /\ auth' = [auth EXCEPT ![p] = TRUE]
    /\ UNCHANGED <<poolVars, pad, building, circuits, relayVars, historyVars>>

(* The key of the next hop; consume is never called for it.                *)
TakeHopKey(p, id) ==
    /\ auth[p]
    /\ building[p] = NotBuilding \/ (building[p].id = id /\ Len(building[p].keys) < Hops)
    /\ \E b \in blocks :
          /\ Acquirable(b, HopKey)
          /\ blocks' = Taken(b, HopKey)
          /\ building' = [building EXCEPT ![p] = [id |-> id, keys |-> Append(@.keys, b.id)]]
    /\ UNCHANGED <<nextId, pad, auth, circuits, relayVars, historyVars>>

(* acquire fails for a later hop: the keys of the first ones are gone.     *)
BuildFails(p) ==
    /\ building[p] # NotBuilding /\ Len(building[p].keys) < Hops
    /\ \A b \in blocks : ~Acquirable(b, HopKey)
    /\ building' = [building EXCEPT ![p] = NotBuilding]
    /\ UNCHANGED <<poolVars, pad, auth, circuits, relayVars, historyVars>>

(* register_circuit: TooManyCircuits, or the circuit is there from now on, *)
(* in the place of an older one with the same id.                          *)
Register(p) ==
    /\ Len(building[p].keys) = Hops
    /\ building' = [building EXCEPT ![p] = NotBuilding]
    /\ \/ /\ Cardinality(DOMAIN circuits[p]) < MaxCircuits
          /\ circuits' = [circuits EXCEPT ![p] =
                [id \in DOMAIN @ \cup {building[p].id} |->
                    IF id = building[p].id
                    THEN [keys |-> building[p].keys, words |-> [i \in Hop |-> 0]]
                    ELSE @[id]]]
       \/ Cardinality(DOMAIN circuits[p]) >= MaxCircuits /\ UNCHANGED circuits
    /\ UNCHANGED <<poolVars, pad, auth, relayVars, historyVars>>

Close(p, id) ==
    /\ building[p] = NotBuilding
    /\ circuits' = [circuits EXCEPT ![p] = [i \in DOMAIN @ \ {id} |-> @[i]]]
    /\ UNCHANGED <<poolVars, pad, auth, building, relayVars, historyVars>>

(***************************************************************************)
(* Circuit::onion_encrypt and WcAuthSession.                               *)
(***************************************************************************)

(* A fault: an incomplete word is not counted.                             *)
WholeWords(len) == len \div WordBytes

(* bytes_to_words: rounded up.                                             *)
Words(len) == (len + WordBytes - 1) \div WordBytes

(* What is sealed for hop i: the message in the layers of the later hops.  *)
LayerLen(i, len) == len + (Hops - i) * Header

(* seal and open at this word count: EmptyMessage, MessageTooLong and      *)
(* WordCountOverflow are the refusals.                                     *)
Countable(words, len) == len > 0 /\ len <= MaxLen /\ words + Words(len) <= MaxWords

(* The hops, from the last one on, whose session seals before one fails.   *)
Sealing(c, len) == {i \in Hop : \A j \in i .. Hops : Countable(c.words[j], LayerLen(j, len))}

(* onion_encrypt: every hop that has sealed keeps its new counter, also    *)
(* when an earlier one fails and nothing is sent.                          *)
Send(p, id, len) ==
    /\ building[p] = NotBuilding /\ id \in DOMAIN circuits[p] /\ msgs < MaxMsgs
    /\ LET c  == circuits[p][id]
           ok == Sealing(c, len)
       IN  /\ ok # {}
           /\ circuits' = [circuits EXCEPT ![p][id].words =
                 [i \in Hop |-> IF i \in ok THEN @[i] + Words(LayerLen(i, len)) ELSE @[i]]]
           /\ \/ /\ ok = Hop
                 /\ link' = [link EXCEPT ![1] = @ \cup
                       {[keys |-> c.keys, words |-> c.words, len |-> len, msg |-> msgs]}]
                 /\ used' = used \cup
                       {[key |-> c.keys[i], hop |-> i, words |-> c.words[i], msg |-> msgs] : i \in Hop}
                 /\ sent' = [sent EXCEPT ![c.keys[Hops]] = Append(@, msgs)]
              \/ ok # Hop /\ UNCHANGED <<link, used, sent>>
    /\ msgs' = msgs + 1
    /\ UNCHANGED <<poolVars, pad, auth, building, peeled, delivered>>

(* A fault: a receiver that lets counters jump forward.                    *)
NotBehind(k, words) == words >= peeled[k]

(* open takes exactly the word count that comes next.                      *)
ComesNext(k, words) == words = peeled[k]

(* onion_peel at relay i, which forwards what comes out.                   *)
Peel(i, r) ==
    LET k == r.keys[i]
    IN  /\ r \in link[i]
        /\ ComesNext(k, r.words[i])
        /\ Countable(peeled[k], LayerLen(i, r.len))
        /\ peeled' = [peeled EXCEPT ![k] = @ + Words(LayerLen(i, r.len))]
        /\ IF i < Hops
           THEN /\ link' = [link EXCEPT ![i + 1] = @ \cup {r}]
                /\ UNCHANGED delivered
           ELSE /\ delivered' = [delivered EXCEPT ![k] = Append(@, r.msg)]
                /\ UNCHANGED link
        /\ UNCHANGED <<poolVars, pad, pipeVars, historyVars>>

(***************************************************************************)
(* The specification.                                                      *)
(***************************************************************************)
OnionInit ==
    /\ blocks = {} /\ nextId = 0
    /\ pad = [u \in Users |-> NoKey]
    /\ auth = [p \in Pipelines |-> FALSE]
    /\ building = [p \in Pipelines |-> NotBuilding]
    /\ circuits = [p \in Pipelines |-> [id \in {} |-> 0]]
    /\ peeled = [k \in KeyId |-> 0]
    /\ link = [i \in Hop |-> {}]
    /\ msgs = 0 /\ used = {}
    /\ sent = [k \in KeyId |-> <<>>] /\ delivered = [k \in KeyId |-> <<>>]

OnionNext ==
    \/ \E len \in BlockSizes : AddKey(len)
    \/ \E u \in Users : Consume(u) \/ \E len \in PadSizes : Encrypt(u, len)
    \/ \E p \in Pipelines :
          \/ CompleteAuth(p) \/ BuildFails(p) \/ Register(p)
          \/ \E id \in CircuitIds :
                TakeHopKey(p, id) \/ Close(p, id) \/ \E len \in Sizes : Send(p, id, len)
    \/ \E i \in Hop : \E r \in link[i] : Peel(i, r)

OnionSpec == OnionInit /\ [][OnionNext]_onionVars

(***************************************************************************)
(* Properties.                                                             *)
(***************************************************************************)
Circuit == [keys : [Hop -> KeyId], words : [Hop -> 0 .. MaxWords]]

(* Type invariant: block ids are unique, and no word count overflows.      *)
OnionTypeOK ==
    /\ blocks \subseteq [id : 0 .. nextId - 1, len : Nat, state : {"Available", "InUse"}]
    /\ \A b, c \in blocks : b.id = c.id => b = c
    /\ nextId \in 0 .. MaxBlocks
    /\ pad \in [Users -> KeyId \cup {NoKey}]
    /\ auth \in [Pipelines -> BOOLEAN]
    /\ \A p \in Pipelines :
          /\ building[p].keys \in BoundedSeq(KeyId, Hops)
          /\ DOMAIN circuits[p] \subseteq CircuitIds
          /\ \A id \in DOMAIN circuits[p] : circuits[p][id] \in Circuit
    /\ peeled \in [KeyId -> 0 .. MaxWords]

(* A pad encrypts one message and nothing else is done with it; a session  *)
(* key authenticates one message per word count, whatever was closed,      *)
(* replaced or failed half-way, and whoever else draws on the pool.        *)
OneTimeKeys ==
    \A a, b \in used :
        (a.key = b.key /\ (a.words = b.words \/ a.words = Pad)) => a = b

(* What comes out of a circuit is what was sent on it, in order, without   *)
(* repetition or gap, over links that do none of this.                     *)
ComesOutInOrder == \A k \in KeyId : IsPrefix(delivered[k], sent[k])
=============================================================================
