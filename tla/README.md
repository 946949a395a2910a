# Verification of Project-QLinux

This directory holds TLA+ models of QLinux (the Rust code under `src/qlinux/`),
TLC configurations that check them on small instances, and TLAPS proofs of the
results that matter most. Paths below are relative to `src/qlinux/`.

QLinux is a small kernel whose network speaks QTLS: records protected by
one-time key that a quantum link (L1) delivers to both ends. Everything else
in the system exists to make that key, keep it, use each byte of it once, and
destroy it. The models start with that path.

## 1. The system

### Components, state, operations, and what makes each correct

| Component | Source | State | Operations | Correct when |
|---|---|---|---|---|
| Key lane | `kernel/qkey/src/lib.rs` | ring buffer, read index, count, offset of the oldest byte | deposit, take, peek_at, consume_through, wipe | the ring holds exactly the last bytes of the stream at their offsets; used key is erased and never returned again |
| Peer keys | same | two lanes and the role of this end | deposit_block, the tx/rx lanes, wipe | the two directions never share a byte; both ends put a block in the same lane |
| QTLS records | `kernel/net/src/qtls.rs` | none of its own | seal, open | a record opens at most once, in order, with the key it was sealed with; nothing else burns key |
| Network stack | `kernel/net/src/stack.rs` | keys of the peers, ARP cache, sessions, listening ports, next id | listen, connect, accept, send, recv, close, poll and its handlers | data stays on its connection; a repeated Hello makes no session; both ends agree on who talks to whom |
| NIC and codecs | `kernel/net/src/{device,eth,arp,ipv4,udp}.rs` | frame queues of a fixed size | transmit, receive, parse, build | a full queue refuses, a bad frame is dropped, a frame that comes through says what was sent |
| Quantum link | `kernel/qphy/src/lib.rs` | mode, channel, next block number; raw keys and counters during a call | the three rounds, harvest, reconcile | both ends get equal blocks, numbered without a gap; no block leaves without passing the error test and the secrecy budget |
| One-time MAC | `uhf/src/lib.rs` | five limbs, a partial block | update, finalize, mac | the tag is made of the polynomial of the message, however it is cut into calls |
| Kernel main | `kernel/src/lib.rs`, `kernel/net/src/lib.rs` | `QPHY`, `KERNEL_NET` | boot order, qkd_tick, qkd_pump, panic handler | the stack is given back after every use; a panic wipes it even while a lock is held |
| Spin lock | `kernel/ksync/src/lib.rs` | locked flag, data | lock, try_lock, drop, force_get_mut | mutual exclusion; no wait on the panic path |
| System calls | `kernel/syscall/src/lib.rs` | kernel image range, in two atomics | one call per socket operation, pointer check | no call works on a buffer inside the kernel |
| Scheduler | `kernel/scheduler/src/lib.rs` | task table, current slot, time slice | spawn, tick, block_current, unblock, schedule | one running task; a ready task runs in the end |
| IPC | `kernel/ipc/src/lib.rs` | ring of messages, ring of bytes, count of the semaphore | send/receive, write/read, try_wait/signal | first in, first out, nothing lost or doubled; permits bounded |
| Memory | `kernel/memory/src/lib.rs` | bump pointer, frame bitmap, free count | alloc, free, reserve | regions never overlap; the count agrees with the bitmap |
| Key pool, OTP | `key_pool/src/lib.rs`, `otp_engine/src/lib.rs` | pool of blocks with their state | add, acquire, consume, encrypt, decrypt | a block is used once, by one user |
| Counter authentication | `wc_auth/src/lib.rs` | counters of the two ends | seal, open | no replay, no reuse of a counter |
| Circuits | `qtor/src/lib.rs`, `qonion/src/lib.rs` | hops of a circuit and their sessions | build, wrap, peel, close | the layers come off in order; no key is used by two hops |
| Rest | `auth`, `amnesia`, `usb_boot`, `qhal`, `tools`, `kernel/drivers_core`, `kernel_module` | none, or that of a device | stubs, device and host I/O | out of the models, see section 8 |

### How they interact

```
 qphy --harvest--> kernel main (qkd_tick, qkd_pump) --deposit_key_block--> NetStack.peers (PeerKeys)
                                                                                  |  take / peek_at / consume_through
 application --system call--> NetStack socket operations --seal / open--> qtls ---+
                                    |  poll                                        
                                    +--> ARP, sessions <--frames--> NIC <--> the peer's NIC
 panic --emergency_zeroize--> NetStack.wipe_keys
```

The kernel is a single loop (`kernel_main`, `kernel/src/lib.rs:41-79`) that ticks
L1 and polls the stack; a system call takes the `KERNEL_NET` lock for its whole
duration. Inside a node the contexts of `kernel_main`, of the tasks and of the panic
handler meet at the two spin locks and at the image range (`Kernel`); above the lock
the stack is sequential, so the concurrency of QTLS is that of two nodes, their link
and their network (`QtlsLink`, `NetStack`). `examples/two_node.rs` puts the whole path
together, from the quantum link to the cable (`TwoNode`). The scheduler, the IPC objects and the allocators are
libraries of the same kernel: `kernel_main` calls only their empty `init`, so they
are modelled on their own, under any callers.

### Hard behaviours

- The two ends slide, consume and wipe the same key stream at different times
  and name its bytes only by an offset that travels on the wire.
- Records are lost, repeated, reordered and altered; nothing is sent again by
  the stack.
- Key can run out, lanes overflow, session tables, queues and the NIC fill up,
  often in the middle of an operation that has changed state already.
- A session slot is used again while frames of its last session are on their way.
- The allocator and the semaphore are shared by callers that meet at one
  compare-and-swap; the timer preempts whatever task runs.
- A panic wipes the keys at any moment, also with locks held; a reboot starts at
  offset 0 while the peer goes on.
- Reconciliation works on two noisy raw keys through permutations, parities and halving,
  and what it makes public is charged to the block.
- Checksums, carries and the streaming buffer go wrong for rare values only.

`PROJECT.json` lists each hazard at its line with the properties that cover it.

## 2. Modules

| Module | What it is | Code |
|---|---|---|
| `KeyWindow` | windows `[base, count]` over the key stream and the operations on them | pure part of `KeyLane` |
| `KeyStream` | abstract specification of a lane: a window that only moves forward | what callers of `KeyLane` rely on |
| `KeyLane` | the ring buffer itself, byte by byte | `kernel/qkey/src/lib.rs` |
| `QtlsService` | abstract specification of the link: in order, at most once | what `seal`/`open` promise |
| `QtlsLink` | two nodes, four lanes, L1, a hostile network, panic and reboot | `kernel/net/src/qtls.rs`, `kernel/qkey`, `kernel/src/lib.rs` |
| `QtlsLinkProofs` | theorems about `QtlsLink` | |
| `NetStack` | the two stacks: ARP, sessions, handshake, data, close, NIC | `kernel/net/src/stack.rs`, `arp.rs`, `device.rs` |
| `SocketService` | abstract specification of the sockets: one end of a connection per node, messages in order, at most once | what `listen` to `close` promise |
| `NetStackProofs` | theorems about `NetStack` | |
| `Scheduler` | the task table, the timer, whose context is where | `kernel/scheduler/src/lib.rs` |
| `SchedulerProofs` | theorems about `Scheduler` | |
| `Memory` | bump allocator with racing callers, frame bitmap | `kernel/memory/src/lib.rs` |
| `MemoryProofs` | theorems about `Memory` | |
| `Fifo` | abstract specification: a bounded first-in-first-out buffer | what the message queue and the pipe promise |
| `Ipc` | the two rings, slot by slot, and the semaphore with racing callers | `kernel/ipc/src/lib.rs` |
| `IpcProofs` | theorems about `Ipc` | |
| `Onion` | pipelines, their circuits and relays, and the key pool they share with other callers | `key_pool`, `otp_engine`, `wc_auth`, `qtor`, `qonion` |
| `KeyProofs` | theorems about `KeyLane` and `Onion` | |
| `Kernel` | `kernel_main`, tasks in system calls, two spin locks, the image range, panic | `kernel/src/lib.rs`, `kernel/ksync`, `kernel/syscall`, `kernel/net/src/lib.rs` |
| `KernelProofs` | theorems about `Kernel` | |
| `Qubits` | gates, measurements, the channel and the three rounds, as pure operators | `kernel/qphy/src/lib.rs:77-242` |
| `Distill` | `harvest`: sampling, estimate, reconcile, privacy amplification | `kernel/qphy/src/lib.rs:244-449` |
| `Poly1305` | the MAC on five limbs, and the polynomial it stands for | `uhf/src/lib.rs:40-223` |
| `Codec` | headers and checksums of every layer, write and parse | `kernel/net/src/{eth,arp,ipv4,udp,qtls}.rs` |
| `TwoNode` | key distribution, ARP and one record over a cable: composes `Distill`, `Codec`, `Poly1305` | `kernel/net/examples/two_node.rs`, `stack.rs`, `qtls.rs` |
| `MCTwoNode` | its instance | |
| `TwoNodeProofs` | theorems about `TwoNode`: `Qubits` and `Distill`, `Poly1305` up to the tag of every record, `Codec` and the cable | |

`KeyLane` implements `KeyStream` (`ImplementsStream`). `QtlsLink` and `NetStack`
use the windows of `KeyWindow`, the operators that `KeyStream` is made of, in the
place of the ring buffers. `QtlsLink` implements `QtlsService`
(`ImplementsService`). `NetStack` implements `SocketService` (`ImplementsSockets`): the sessions that are not Free are
the ends of connections, with the numbers of the messages that wait in their queues, and a connection is served once its
server has made a session (`Ends`, `Served`). `Ipc` implements `Fifo` twice, with the variables of the
queue and with those of the pipe (`QueueIsFifo`, `PipeIsFifo`).

Each module carries a few operators that start with *A fault*: variants of a
definition as a plausible bug would make it. Nothing uses them in the
specifications; each property is known to fail when its fault takes the place
of the definition (`mutants` in `PROJECT.json`).

### KeyLane and the code

`lane` is `struct KeyLane`: `buf`, `read`, `count`, `base` keep their names. A
key byte is its position in the stream the lane was given, `Erased` the zero
byte zeroization writes. `DepositBlock`, `TakeKey`, `PeekAt`, `ConsumeThrough`
and `WipeAll` are `deposit`, `take`, `peek_at`, `consume_through` and `wipe`,
each with its refusals in the code's order; `DiscardBytes`, `CopyOut`,
`WithinLane` and `CheckedAdd` are `discard`, `copy_out` and the checked
additions. `deposited` and `spent` are history variables.

### QtlsLink and the code

`keys[n][l]` is lane `l` of node `n`. A record carries the offset `take`
returned; its `pos` is the identity of the key it was sealed with, which the
network cannot see. `TagValid` is the contract of the one-time tag: it verifies
exactly when the record is unaltered and the receiver holds the same key bytes
at that offset. `Seal` and `Open` are the two functions of `qtls.rs`, refusals
included (a damaged header, or one that names other key, fails `TagValid`).
`L1Block` is `qkd_pump` followed by `deposit_block` at one end: the two ends have
the same blocks at different times. `Panic` is `emergency_zeroize`, `Boot` a
power cycle. `wire` is never emptied, so the network may lose, repeat, delay and
reorder at will; `ForgedOffsets` are offsets it may write into a header.

### NetStack and the code

`st[n]` is the `NetStack` of node `n`: `keys` its `PeerKeys`, `arp` whether the
cache holds the peer, `listen`, `sess` (`Session`, same fields), `next`
(`next_session`), `nic` the frames it has given to the device. `conn` in a session and in a
frame is history: the attempt to connect it came from. `Listen`,
`ConnectUnresolved`/`Connect`, `Accept`, `Send`, `Recv`, `Close` are the socket
operations with every early return that changes state (`connect` after a failed
Hello frees the slot but keeps the id; `close` frees the slot whether or not the
Close record left). `Receive` is one turn of `poll`: `HandleArp` or `HandleQtls`,
with the answer it transmits.

`Clients`, `Servers` and `Writers` say which node's application dials, listens
and sends; `Reordering` whether the network may reorder and repeat. Both nodes
always run the whole stack.

The simplifications: one peer each way; L1 blocks arrive at both ends in one
step (`QtlsLink` has them apart); frames are not altered (`QtlsLink` has that);
lengths and ports that the system call layer refuses do not reach the stack.

### Scheduler and the code

`table` is `TASK_TABLE` (stacks and priority are left out: no decision reads
them), `current` is `CURRENT_IDX`. All operations run with interrupts off, so each
is one action; `Schedule(t)` is `schedule` called on the table its caller has just
changed, inlined into `Tick` and `BlockCurrent`. A context is abstracted to the
execution it belongs to: `exec` is on the CPU, `saved[i]` is in slot `i`, and
`ContextSwitch` stores one and loads the other. `passed` is history.

### Memory and the code

`alloc` is split at its compare-and-swap: `Alloc` checks the request and loads
`next`, `AllocStep` computes from what was loaded and tries to swap, where a
failure goes round the loop with the value found. `CheckedAdd` is addition on
`usize`. The frame allocator takes `&mut self` and each call is one action; `used`
is its bitmap. `regions`, `held` and `reserved` are history. Two premises are the
callers': `free_frame` is `unsafe`, so they free frames of their own at their address
(`MayFree`; addresses the code refuses are tried too), and the frames fit the bitmap
(`total_frames <= MAX_FRAMES`).

### Ipc and the code

A message or byte is its number; `PutItems` and `DropItems` are the loops of `write`
and `read`, which `send` and `recv` run once. `QueueFull`, `QueueEmpty` and the short
counts of the pipe are replies. The semaphore is split at its loads: `Begin`, then
`Refused` or `Swap`. `queued`, `piped`, `permits` and the replies are history.

### Onion and the code

`blocks` and `nextId` are `PoolState`; each call of the pool is one critical section
and one action. `Encrypt` and `Consume` are the two that `OtpEngine::encrypt` makes: an
engine owns its pool, so in the model it stands for any caller of `acquire` and
`consume` beside the pipelines. `build_circuit` takes a key for each hop in a step of
its own (`TakeHopKey`), may run dry (`BuildFails`), and registers. A session is its key
and its word count. `Send` is the whole of `onion_encrypt`: `Sealing` is the set of hops,
last one first, that seal before one refuses, and those keep their counters although
nothing is sent. The relays are external: the code has `onion_peel`, which they call with a
Receiver session of the hop's key. `used`, `sent` and `delivered` are history.

### Kernel and the code

`locked` holds the flags of `QPHY` and `KERNEL_NET`; `job[c]` is what context `c` does and
`at[c]` how far it is. A guard is a span of `at`: `Holds` says where `c` has one. `Acquire` is
the compare-exchange that succeeds (a failed one changes nothing), `Release` the drop.
`Boot`, `Wake`, `TickLocks`, `Harvest`, `Deposit`, `Erase` and `TickUnlocks` are the statements of
`kernel_main`, `qkd_tick` and `qkd_pump` in `Following`'s order; `EnterStack`, `UseStack`, `LeaveStack` one use
of the stack, by the boot, by `poll` or by a system call. `Syscall` is the dispatch with the
load of `KERNEL_LO`, `Validate` the load of `KERNEL_HI` and the verdict. `Panic` happens in
any context at any step, and what it held stays locked; `Handler` and `Wipe` are
`emergency_zeroize`. What the stack holds is one bit, `secrets`: a harvest with a registered
peer sets it, using the stack may use the last of it up, `wipe_keys` clears it.

### Distill, Qubits and the code

`Qubits` has the sixteen amplitudes of the simulator as integers: `H` leaves out its factor
1/sqrt(2), which no possibility of a result depends on, as the code never normalises. A
measurement gives the set of results whose amplitudes are not all 0, a round the set of what it
can return; probabilities are not modelled. `Distill` keeps the raw keys as `diff`, the positions
where they differ: every decision of `harvest` and `reconcile` is a function of it. A round adds its
bits (`KeyRound`) or counts as a check (`CheckRound`); `Estimate`, `CompareChunk`, `Halve`, `FlipBit`
and `Amplify` are the rest, with each error of `PhyError` as `Fail`. `binary_entropy` is computed in
integers with the code's table. `given` is history: the blocks with what they were charged for.

### Poly1305, Codec, TwoNode and the code

Limbs, words and the modulus keep the code's shape with a smaller width: five limbs of 4
bits (2^20 - 5 is a prime like 2^130 - 5), words of 6 bits. A block has three words. These widths are
constants; the code's (2^26, bytes, 16) meet their assumptions too. Frames are
sequences of words in the code's layout; a parser returns one result or none. `TwoNode` puts
one frame at a time on the cable: `AskArp` and `ReceiveArp`, then `Say` (`seal`, `send_udp`),
the tap (`Pass`, `Tamper`, `Drop`) and `ReceiveRecord` (`handle_frame` down to `open`). The
ciphertext stands for the plaintext, since XOR with a fixed pad is one-to-one; `KeysAt` is the key
B finds at an offset, which is A's only where the blocks are equal, and that is what `Distill` has to
provide. Lanes and sessions are in `QtlsLink` and `NetStack`.

## 3. Runs

| Run | Module, cfg | Asks | Size |
|---|---|---|---|
| `key_lane` | `KeyLane`, `KeyLane.cfg` | is the ring buffer right, and is it the abstract window | 1.6 k states |
| `qtls_link` | `QtlsLink`, `QtlsLink.cfg` | one-time use, order, resynchronisation over a hostile network with a reboot | 320 k states |
| `net_stack` | `NetStack`, `NetStack.cfg` | sessions stay apart, handshakes agree, and it is the socket service | 885 k states, 2 minutes |
| `net_live` | `NetStack`, `NetLive.cfg` | what happens in the end, and exactly what may prevent it | 141 k states, 1.5 minutes |
| `scheduler` | `Scheduler`, `Scheduler.cfg` | one running task, own contexts, bounded waiting, no starvation | 8 k states |
| `memory` | `Memory`, `Memory.cfg` | regions disjoint under races, count and bitmap agree, alloc returns | 131 k states |
| `ipc` | `Ipc`, `Ipc.cfg` | both rings are FIFOs that erase, permits are conserved | 155 k states |
| `onion` | `Onion`, `Onion.cfg` | keys and word counts are used once, circuits deliver in order | 1.5 M states |
| `kernel` | `Kernel`, `Kernel.cfg` | locks exclude and come free, buffers stay out of the image, a panic wipes | 151 k states |
| `two_node` | `MCTwoNode`, `TwoNode.cfg` | equal blocks within the budget, what the tag is made of, the wire is right, nothing altered comes out | 1.4 M states |
| `qtls_in_flight` | `QtlsLink`, `QtlsInFlight.cfg` | finding 1 | counterexample |
| `net_hello_mac` | `NetStack`, `NetHelloMac.cfg` | finding 2 | counterexample |

### Properties

- `KeyLane`: `RingHoldsStream` (each slot holds the byte its offset names or is
  erased), `NeverReissued` (no byte that left the lane is returned again),
  `ImplementsStream`.
- `QtlsLink`: `NoPadReuse` (no two records share a key byte, across panics),
  `WindowNeverOvertakes` and `Resynchronises` (what FIX-4 in the code is for),
  `ImplementsService`, `OnlyGenuineBurnsKey`.
- `NetStack` safety: `SessionIsolation` (a queue holds messages of its own
  connection, in order, once), `OneSessionPerHello`, `EndsAgree`,
  `NoAmbiguousSession`, and `ImplementsSockets`: one frame or call changes at most one end of one connection, a served
  connection is never served again, an end opens only after its peer served it and closes only when its peer is gone for
  good; what waits stays until it is read or its end leaves, and what comes is later than all before it. Which
  node dialled a connection is not in the service (`EndsAgree` and `TagInv` of the proofs relate the two ends). (`ClosedByPeer`, that a closed session has no peer, is
  proved; no run lists it, since the service's `PeerLeft` says it and an end that is gone does not come back.)
- `NetStack` liveness: `ArpResolves`; `HandshakeCompletes` (a Hello on its way to a server that is ready ends the
  client's wait) and `DataIsRead` (a message on its way to an application that holds the session, or waiting there, is
  read). The code sends nothing again, so these two name every event that stops them: one more lost frame
  (`lost = l ~> ... lost > l`: earlier losses excuse nothing), a block that slides the receiver's lane over the key of the
  frame on its way (`Overtaken`, finding 1), a server that is no longer ready when the Hello comes (`ServerReady`), a
  reader that closes, a message on its way while the receive queue is full (`MeetsFull`: the stack drops what finds it full).
  Each of these exceptions is needed: without it TLC finds a counterexample under the bounds of `NetLive.cfg`.
- `Scheduler`: `OnlyCurrentRuns`; `ContextsBelong` (every task keeps its own
  registers, once the boot code owns slot 0); `BoundedWait` (a ready task is passed
  over at most once by each other one); `ReadyRuns` (liveness).
- `Memory`: `RegionsDisjoint` (also aligned and inside the heap), `FreeCountAgrees`,
  `FramesExclusive`, `AllocReturns` (liveness).
- `Ipc`: `QueueIsFifo`, `PipeIsFifo`, `NothingLeftBehind` (what was read is erased),
  `PermitsConserved`.
- `Onion`: `OneTimeKeys` (a pad encrypts one message and nothing else is done with its
  block; a session key authenticates one message per word count), `ComesOutInOrder`.
- `Kernel`: `OneOwner` (also against the access by force), `ImageProtected`,
  `StackComesFree` and `PanicWipes` (liveness: the handler ends and leaves no secret).
- `TwoNode`: `RoundsTell` (no error without noise, in any mode; an eavesdropper can be
  seen), `CorrectionOnlyRemoves` (reconcile never adds an error and leaves chunks
  even), `BlocksAreSound` (equal, numbered without gap, within the secrecy budget),
  `TagIsPolynomial` (for every cut of the record into calls the limbs fit, they are the polynomial `p` or, where
  `finalize` would have to subtract `P` and does not, `p + P`, and the tag is that and `s`), `WireIsFaithful` (true checksums;
  what arrives unaltered or padded is what was sent), `OnlySealedComesOut`.

The type invariants are proved rather than run, where there is a proof module
(`TypeCorrect`, `OnionTypeCorrect`, and `OffsetsCorrect` for the offsets of a lane; `Types` in
`NetStackProofs`).

### Bounds, and why they are enough

- `KeyLane`: a ring of 4 slots and a stream of 9 bytes let the ring wrap twice
  and slide by every amount; a deposit may be empty, of every size, or too
  large. `MaxOffset` stands for `u64::MAX`: offsets up to it are named, so
  `checked_add` overflows.
- `QtlsLink`: lanes of 3 bytes and blocks of 2 slide by one, records cost 1 or
  2; five blocks give lane 0 three and lane 1 two, so lane 0 overflows and goes
  on; three records each way and one panic at any moment at either end.
- `NetStack` (`NetStack.cfg`): two slots, two attempts to connect, one port, a
  receive queue of one and a NIC of two, so that every table fills; frames may
  be lost (one), repeated and taken in any order. Two blocks of 5 give one
  deposit in each lane and key for five records each way, so key runs out too.
  With two attempts and `IdSpace` 4 no id is given out twice: the wrap of
  `next_session` at 2^16 is out of these runs (section 7).
- `NetLive.cfg`: both nodes dial and send, one attempt and two messages, an
  ordered network that loses one frame. Lanes of 5 and blocks of 4, two for each lane: the second one slides the
  lane of a receiver over the key of a Hello, a HelloAck or a message on its way. A queue of one and two
  messages: the second may find it full.

- `Scheduler.cfg`: four slots, so that a search can wrap past several ready tasks, and
  a slice of two, so that a task runs on and expires. No operation frees a slot, so the
  tids are bounded by the table.
- `Memory.cfg`: the heap ends at the largest address (rounding up to 4 from 5 on
  overflows) and starts unaligned; 0 and 3 are bad requests. Two callers lose the race to each
  other. Frames of two bytes, based at an odd address, are reserved at every pair of
  addresses, aligned or not.
- `Ipc.cfg`: rings of two, four items put in: both wrap twice. Lengths 0, 1 and 3 are
  empty, partial and too long. Two callers race on a semaphore between 0 and 2.

- `Onion.cfg`: two pipelines with room for two circuits, six blocks for three of them (so the
  third is refused with its keys taken), blocks that fit a hop and that do not. Two hops are enough
  for a middle and a last layer. A length of 4 fits the last layer and not the first one (the partial failure);
  word counts end at 2, so that they overflow.

- `Kernel.cfg`: two tasks, so that a call meets another call, `kernel_main` and a
  panic. Addresses end at 9 and user space at 8; the image is 3..4. The buffers start at 0, below,
  at the end of and behind the image, and lengths of 1, 2 and 4 stop short of it, reach
  into it, cover it, pass the end of user space and overflow.
- `TwoNode.cfg`: a raw key of 8 bits in chunks of 4 and 8 (`Passes`, with two rounds and an odd
  multiplier), at most 13 rounds, 3 checks and 2 harvests, the raw keys differing in up to 3 positions
  (`MaxDiff`): reconciliation meets 0 to 3 errors, corrects, gives up, and spends more than the
  budget. With so few checks the error rate has steps of a third, so
  `QberAbortPpm` is 340000 in the place of 110000: one error of three checks passes, two do not. A
  block has one bit and the margin is 1.
  The wire is explored after the blocks of one link (`Links`: superdense coding over a noisy channel),
  since it does not depend on which. Payloads of 0 to 3 words include one whose UDP checksum comes out as 0 and
  fill blocks of the MAC partly, exactly and over; two one-time keys, one with limbs at their largest; `<<14, 39, 45>>`
  under the second key leaves the accumulator of the MAC at `P`, so that both cases of `TagIsPolynomial` occur; damage replaces
  any one word by 0, 9 or 63, with the UDP checksum disabled or not; ARP frames are not damaged.
  `TamperOver` is the code's limit of 80 bytes less what the smaller headers and tag leave out. This run has
  `CHECK_DEADLOCK FALSE`, because `main` returns when the harvests gave no key for both directions.

The variables a specification could grow for ever are bounded in the guards:
`MaxStream`, `MaxBlocks`, `MaxMsgs`, `MaxBoots`, `MaxDials`, `MaxLoss`, `MaxItems`,
`MaxHarvests`. When they are used up the behaviour may end, but no other run needs
`CHECK_DEADLOCK FALSE`: a refused operation is always possible.

### Fairness

`FairSpec` of `NetStack` asks for weak fairness of
- `Receive(n, 1, FALSE)`: `kernel_main` polls for ever (`kernel/src/lib.rs:41-79`)
  and every blocking system call polls too, so a frame that stays first on the
  wire is taken;
- `ConnectUnresolved`, `Accept`, `Recv`: an application that gets `ArpPending` or
  `-EAGAIN` calls again, as the error codes ask. This is an assumption about the
  applications.

There is none on the network's losses, on L1, or on `Connect`, `Send`, `Close`:
losses are limited by `MaxLoss`, and a property that a loss may break says so (`lost > l`).
Nothing is assumed of a lost Hello being sent again, since the code does not do that.

`FairSpec` of `Scheduler` asks for weak fairness of `Tick`: the timer keeps
interrupting. Nothing is assumed of tasks, which may block whenever they run.
`ReadyRuns` says *while some task runs*, because `tick` does nothing otherwise (section
7). `FairSpec` of `Memory` asks for weak fairness of each caller's `AllocStep`: a
caller inside `alloc` keeps running. That it returns is then because each lost race
means that another caller moved `next`, and `next` is bounded by the heap.

`FairSpec` of `Kernel` asks for weak fairness of what a context has begun: the steps of
`kernel_main`, of a call and of the panic handler go on, since a scheduler that preempts
comes back (and after a panic only the handler runs). It is weak: the spin lock is not
fair, and a context whose compare-exchange always meets a taken lock may wait for
ever, so no property says that one context gets the stack. When a task makes a call, when an
interrupt ends `hlt`, and a panic are never forced.

## 4. What is proved

TLAPS checks every theorem for all values of the constants that satisfy their
named assumptions (a positive capacity, blocks that fit a lane, a positive key
cost of a record, natural numbers as bounds).

`KeyProofs`, on `KeyLane` - the inductive invariant is `LaneType`, `RingHoldsStream`,
`OffsetsCountTheStream` and *every spent byte lies before `base`*. The last part
is what `NeverReissued` needs: `spent` alone does not say that what is left in the
ring is fresh. Lemmas say what `discard`, the writing loop of `deposit` and
`copy_out` do to a ring that holds the stream; `AheadAfter` is the modular arithmetic
they rest on. Results: `TypeCorrect`, `RingCorrect`, `OffsetsCorrect`,
`SingleUse`, and `LaneImplementsStream`, the refinement.

`QtlsLinkProofs` - the inductive invariant `Inv` has: no lane counts more bytes than
L1 sent it (`StreamCovers`); every record lies before what its sender can still
hand out (`WireBehind`); the records of one sender are numbered in the order of
their key (`WireOrdered`); a record whose key the receiver can still read is newer
than the last one it opened (`GotBehind`); and `WindowNeverOvertakes`. `NoPadReuse` alone is not
inductive: a new record is disjoint from the old ones only because those all end
before the sender's front, and a reboot keeps that because the front, counted in
the stream and not in offsets, never moves back.
Results: `TypeCorrect`, `OneTimeUse`, `NeverOvertakes`, `Resynchronisation`,
`LinkImplementsService`, `GenuineBurns`. So single use and order of delivery hold for
any lane, block and record size, any number of records, losses, forgeries and panics.

`KeyProofs`, on `Onion` - `Types` is the type invariant with the types of the records and the histories.
`KeysInv` says that every key has one holder (available or in use in the pool, a pad, a circuit being built, one
hop of one circuit, or nobody any more: `AllGone`, `OneHolder`) and that what was done with a session key was
done at a word count below its counter (`Counted`). `OneTimeKeys` alone is not inductive: that two holders never share a key is
what a `TooManyCircuits`, a replaced circuit or a partial seal might break. `OrderInv` adds for each circuit key that the words sealed
are those of the messages sent, in their order (`Sealed`, `SentInOrder`), that what a relay opened is what
comes next at its counter (`Comes`), and that nothing was sealed with a key nobody took
(`NextFree`). Since a relay passes on only what the one before it opened at the
next word count, what comes out is a prefix of what was sent. Results: `OnionTypeCorrect`, `KeysUsedOnce`, `ComesOutCorrect`,
for any number of users, pipelines, circuits and hops.

`NetStackProofs` - every action, with all its early returns, is first shown (`NextStep`) to have one of
seven effects on what the properties speak of: nothing, a client dialled, a record was sent, a Close was sent
and its slot freed, a record was taken from the wire and queued, an answer moved a client on, a server created a
session. The invariants are then proved effect by effect. The inductive invariant is `NetInv`:
- `HelloInv`: all copies of a Hello carry one key offset, and a server that made a session has burned it. This
  alone gives `OneSession`, for every `IdSpace`.
- `TagInv`: a connection stands for one dialling node, id and pair of ports, ids are given out in order, and a node has
  one session per connection. So no frame of another connection matches a session.
- `BornInv`: what a server sends, and what a client believes, comes after the server made its session.
- `CloseInv`: the node a Close came from has no session for it any more.
- `OrderInv`: key is used in the order of the messages, and a record whose key is not yet burned is newer
  than all that was read or waits in the queue.

Results: `OneSession`, and under two hypotheses `NoAmbiguity`, `EndsDoAgree`, `PeerCloses`, `SessionsAreIsolated` and
`StackImplementsSockets`. The hypotheses
are `NoIdWraps` (fewer attempts to connect than ids, so that no id is given out twice: the code has no such limit, and section 7
says what happens without it) and `PortsApart` (no port that is listened on is an ephemeral one, 49152 and above). Both hold in
`NetStack.cfg`. The refinement `StackImplementsSockets` needs the whole of `NetInv` and the same two hypotheses. Each effect
is shown to be one action of `SocketService`, or to change nothing an application sees: nothing (or an end that its own
node leaves: `CalmEnds`), `Dial`, `Write`, `Leave`, `Read`, `Open` / `PeerLeft` / `Deliver` (an answer or data that moves
one session, `AdvancedStep`), `Serve`. A session turns one end into another and no two slots of a node show the same
end, because a node has one session per connection (`OneEnd`, `EndTurned`, from `TagInv`); a HelloAck finds its connection served by
`BornInv`, a Close finds the peer without an end by `CloseInv`, and what is delivered is newer than what is in the inbox by `OrderInv`.
Nothing is assumed about the number of slots, blocks, messages or losses, the sizes of windows and queues, or
who dials, listens and sends.

`SchedulerProofs` - the inductive invariant adds to the checked ones that the table
is untouched until somebody blocks or spawns, that the current slot is never Empty once
slot 0 is not (`Occupied`), and `Waits`: how often a ready slot was passed
plus its distance from the current slot is less than `MaxTasks`. `BoundedWait` alone is
not inductive; `DistanceFromNext` says that each dispatch which passes a slot brings the
search nearer to it. Results: `TypeCorrect`, `MutualExclusion`, `ContextsStay`,
`BoundedWaiting`, for every table size.

`MemoryProofs` - for the bump allocator: what a caller has read is at most `next`, and
every region ends at or before `next` (`ReadsBehind`, `RegionsBehind`); a successful swap
then starts behind all regions. For the frames: `FreeCountAgrees` with `FramesExclusive`, over the
cardinality theorems of the library. Results: `TypeCorrect`, `NoOverlap`, `CountCorrect`,
`FramesOwned`, for any number of callers and any heap.

`IpcProofs` - the inductive invariant is *each ring holds the last items of its total*
(`Good`) and, for the semaphore, that count and permits agree; `PutGood`, `DropGood` and
`HeadReads` say what the loops do to such a ring. Results: `TypeCorrect`, `RingsCorrect`,
`PermitsCorrect`, and the refinements `QueueImplementsFifo` and `PipeImplementsFifo`.

`KernelProofs` - three inductive invariants. `LockInv` (`GuardsLock` and its like): a context
with a guard has the flag set, and two never have the same; the panic handler's access by
force is safe because nobody else is alive then. `PanicInv`: a context that has finished the handler
has wiped, and nothing else moves. `ImageInv`: no task is inside a call before both stores are done, so
a preempted call has loaded the real range. Results: `TypeCorrect`, `OneOwnerAlways`, `ImageIsProtected`,
`NothingLeftAfterPanic`, for any number of tasks, any image and any buffers.

`TwoNodeProofs`, on `Distill` - `DistillInv` says that the span which is halved has an odd number of
differences (so a span of one bit is an error, and flipping it removes one), lies in its chunk, and
that chunks fit the raw key. `WrongSplits` counts the differences of the two halves, `FlipFinds` uses that a pass
looks at every position once (`PassAssumption`). `NothingSaturates` shows that a block which
passes the last test was charged in full. Results: `SearchIsOdd`, `CorrectionIsSafe`,
`BlocksAlwaysSound`, for every length of the raw key, table of passes, margin and threshold.

`TwoNodeProofs`, on `Poly1305` - the limbs as a number in base `LimbSize`, modulo P: a pass of carries keeps
the residue, `mul_r` multiplies (rotating the limbs of one factor is multiplying by the base), two passes of
`propagate_carry` leave limbs that fit. `Fits` is what holds between two blocks: all limbs below the width
but the second, which stays below twelve times it, so no column of products reaches 113 times its square (with 26
bits below 2^59, and u64 never overflows). Then the message: `AccumulatorIsHorner` takes Horner's rule through the
blocks, `ContextGrows` says that a call of `update` after another leaves the context that one call with both
messages leaves. At last `ValueBelow` and `OnceOver` say that limbs which fit are the residue or P more, and `ToBlockLeaves` that what
`h_to_u128` cuts off is a multiple of 2^128, so that the tag itself is known. The steps over blocks are inductions over data; they are done with a least counterexample in a set
of block numbers (`UpTo`, from `WFMin`), and recursive functions are reached through `Recursion` and
`StaysIn`. Results: `CarryKeepsResidue`, `MulRMultiplies`, `PropagateCarrySettles`, `ProcessBlockFits`,
`MacIsPolynomial` and, of what is sealed in `TwoNode`, `TagsArePolynomials`, for every message, key, cut
into three calls, width of limbs from 16, width of words and length of blocks. Assumed are that a block's number fits five
limbs (`BlockAssumption`) and that keys are limbs, records are words and payloads what `seal` accepts (`WireAssumption`).

`TwoNodeProofs`, on `Codec` and the cable - each parser after its writer gives back what was written, layer by layer
(`EthLayer`, `ArpLayer`, `Ipv4Layer`, `UdpLayer`, `RecordLayer`), and three foldings leave a sum of words modulo
`MaxWord`, so a header with its own checksum adds up to `MaxWord` (`FinishChecks`, `ChecksumHolds`). The inductive
invariant is `WireInv`: what was sealed is `Said` of some payload and key (`SealedIsSaid`), ARP knows true addresses
(`ArpOK`), what is on the cable is an ARP frame, what A sealed last, whole or padded by a switch, or something altered
(`CableOK`), and what B opened of an intact frame is what A sealed (`OpenedOK`). `WireIsFaithful` alone is not
inductive: that B opens the right record depends on which frame it may be, and that an altered frame teaches ARP
nothing (`AlteredIsNoArp`) is what keeps `ArpOK`. `BlocksAlwaysSound` is used to find the key of the record. Result:
`WireAlwaysFaithful`, for every payload, key, id, set of damages and width of words from 64 values.

`TwoNodeProofs`, on `Qubits` - a state of the rounds is written as its amplitudes (`Vec`), and what each gate and each
measurement does to them is proved once. `IdealPair` and `IdealSuperdense` follow the two rounds for every choice of
bits and bases; `TeleportHolds` does it for any two amplitudes, whatever A measured (`Held`); `TappedPair` is one way in
which an eavesdropper leaves different bits. For the state, `IdealInv` is the inductive invariant, and `DistillInv` shows
that error correction does not flip a bit when there is no error. Result: `RoundsAlwaysTell`.

## 5. What is only model-checked

The liveness of `NetStack`, `Scheduler`, `Memory` and `Kernel`: liveness under fairness, and ENABLED, are out of
the proof system's reach. Every other property of the passing runs is a theorem but `OnlySealedComesOut` of `TwoNode`,
which is true of the keys, payloads and damages of the run and not of all: a tag has forgeries.

## 6. Findings

1. **A record in flight can lose its key** (`qtls_in_flight`,
   `kernel/qkey/src/lib.rs:63`). The comment in `qkd_pump` assumes that a block
   which overflows one end overflows the other alike. It does not: the sender has
   already taken the key of the record on its way and has room, the receiver slides
   over it. The record is then refused, with a perfect network and without a panic.
2. **A server may not know its client's MAC** (`net_hello_mac`,
   `kernel/net/src/stack.rs:278`). The comment says that the ARP request just before
   taught it; when the client learned the MAC from a request of the server, and its
   reply was lost, it did not. The HelloAck fails, its error is ignored, the server
   keeps an established session and the client waits.
3. **The tag is not always that of RFC 8439** (`two_node`, `uhf/src/lib.rs:142`). The README of the
   repository (line 32) says that Poly1305 conforms to it. `finalize` does not subtract 2^130 - 5, so an accumulator between
   2^130 - 5 and 2^130 gives another tag. At the code's widths r = 2, s = 0 and sixteen bytes FF do it:
   the tag is FE FF .. FF, that of the RFC 03 00 .. 00. Both ends of QLinux compute the same. `TagIsPolynomial` says what
   the tag is in either case; that the run meets this one is the assumption `NotRfc8439` of `MCTwoNode`, which TLC evaluates.

## 7. Known behaviours that no property covers

- A Close that arrives before the application accepted the session leaves a slot
  that nobody can free: `accept` only returns Established sessions.
- Session ids wrap after 65535 attempts and an id still in use is given out again.
- A lost Hello or HelloAck is never sent again and there is no timeout: `HandshakeCompletes` promises nothing then.
- A message that finds its receive queue full is dropped, with its key burned and counted as sent
  (`kernel/net/src/stack.rs:284`): `DataIsRead` promises nothing then, the safety properties hold.
- A refused `send` still costs key when the NIC was full.
- `pop` treats a message longer than the buffer like an empty queue (`kernel/net/src/stack.rs:48`), so `recv` on
  a closed session returns 0, the end of the data by `docs/ARCHITECTURE.md:122`, with a message waiting.
- Nothing stops the other contexts when one panics: the `SAFETY` comment of
  `emergency_zeroize` (`kernel/net/src/lib.rs:67-68`) is a premise, and `Kernel` takes it as one.
- The panic handler wipes the stack only. A panic inside `qkd_pump` leaves the block on the stack of
  `kernel_main` (`blk` in `Kernel`), although the comment of the handler (`kernel/src/lib.rs:111`)
  speaks of all key material.
- The spin locks are not fair, and `docs/ARCHITECTURE.md:157` says that they leave interrupts on.
- A second entry of `kernel_main` executes one `hlt` and, after an interrupt, boots on.
- The comment on `secure_bits` (`kernel/qphy/src/lib.rs:288`) says always larger than the output; the code accepts
  equality, and so does `BlocksAreSound`.
- The QTLS tag does not cover the UDP ports: with the UDP checksum disabled, a frame with altered
  ports is looked up under other ports. No session has them in the model.
- `tick` counts only while the current slot is Running. Before the first dispatch, or
  when every task blocked and one is then unblocked, nobody calls `schedule` for it: the
  code that was running goes on, in a task that is marked Blocked.
- `block_current` blocks whatever slot `CURRENT_IDX` names. When the boot code calls it
  after a `spawn` that took slot 0, that task loses its context (`BootHasSlot`).
- `spawn` prepares a stack pointer but neither a return address nor a call of `entry`;
  the model takes "the task's own execution" for what such a context starts.
- The bitmap does not tell reserved from owned: a range reserved over a frame somebody
  owns is handed out again after that owner frees it, and an unaligned address passed to
  `free_frame` zeroizes the first bytes of the next frame.
- An `onion_encrypt` that fails after some hops have sealed (a message within 28 bytes per layer of
  `MAX_MSG_LEN`) leaves their counters ahead of the relays': this circuit delivers nothing
  any more. So does one lost record.
- A circuit that fails while it is built, or that is one too many, leaves its keys in the pool as
  InUse blocks that nobody consumes. `acquire` needs one block that is long enough, however much key there is.

## 8. What is not modelled

- Cryptography in `QtlsLink`, `NetStack` and `Onion` by its contract only: key is an
  identity, a tag has no forgeries. `Poly1305` computes the tag, the chance of a forgery is not a property.
- UMAC and GHASH of `uhf`, which nothing in the repository uses; the clamping of `r`, and constant time.
- Probabilities in `qphy` (what a rate of noise or an eavesdropper makes likely), the random sources, and the
  bits of `toeplitz_compress`, a function of the raw key and a public seed.
- Socket calls on handles that the caller does not own: applications call `send`, `recv` and `close` on sessions that
  `connect` or `accept` gave them (`Held`). What `recv` replies when nothing fits (0 or `WouldBlock`).
- The checksum of an odd number of bytes (`kernel/net/src/ipv4.rs:13`), since payloads have whole words.
- `reserve_range` with an end so large that rounding it up to a page overflows (`kernel/memory/src/lib.rs:99`).
- Memory orderings of the atomics: a step on them is atomic and seen at once.
- A second peer, the eviction of ARP entries, the loopback device (the models have
  the wire between two nodes, as in the tests of `kernel/net/src/stack.rs`).
- Device and host I/O: `drivers_core`, `qhal`, `amnesia`, `usb_boot`, `tools`,
  `kernel_module`; `auth` is a compile-time stub.

## 9. Plan

Done: the key path (`KeyLane`, `QtlsLink`), the network stack (`NetStack`), the
scheduler, the allocators, the IPC objects, the circuits over the key pool (`Onion`), the
kernel's contexts (`Kernel`), and the way from the quantum link to the cable (`Distill`, `TwoNode`, `Codec`,
`Poly1305`), each with its theorems.
Next, in this order:

1. The two hazards of `NetStack` that no property covers yet (section 7): a Close before `accept`, and a message
   longer than the caller's buffer.
2. More of `NetStack`: a second peer and the ARP cache's eviction.
