--------------------------------- MODULE Ipc ---------------------------------
(***************************************************************************)
(* The objects of kernel/ipc/src/lib.rs: the message queue and the pipe,   *)
(* two ring buffers whose operations take &mut self (one action each), and *)
(* the semaphore, which concurrent callers share by compare-and-swap.      *)
(*                                                                         *)
(* A message or byte is abstracted to its number, the order in which it    *)
(* was put in; Erased is what zeroization leaves.                          *)
(***************************************************************************)
EXTENDS Integers

CONSTANTS QueueCap,          \* MQ_CAPACITY
          PipeCap,           \* PIPE_BUF_SIZE
          Lengths,           \* how many bytes callers of the pipe give and ask for
          MaxItems,          \* bound: messages, and bytes, put in a behaviour
          Callers,           \* concurrent callers of the semaphore
          Initial, MaxCount  \* Semaphore::new(initial, max)

ASSUME RingAssumption == {QueueCap, PipeCap} \subseteq Nat \ {0}
ASSUME LengthAssumption == Lengths \subseteq Nat /\ MaxItems \in Nat
ASSUME CountAssumption == MaxCount \in Nat /\ Initial \in 0 .. MaxCount

VARIABLES queue, queued, queueReply,  \* MessageQueue; history: messages sent, last answer
          pipe, piped, pipeReply,     \* Pipe; history: bytes written, last answer
          count,                      \* Semaphore::count
          call,                       \* call[c]: what caller c is doing
          permits                     \* history: Initial plus signals minus waits that succeeded

queueVars == <<queue, queued, queueReply>>
pipeVars  == <<pipe, piped, pipeReply>>
semVars   == <<count, call, permits>>
vars == <<queueVars, pipeVars, semVars>>

(***************************************************************************)
(* Ring buffers.                                                           *)
(***************************************************************************)
Erased == 0

Slots(cap) == 0 .. cap - 1
NewRing(cap) == [buf |-> [s \in Slots(cap) |-> Erased], head |-> 0, tail |-> 0, count |-> 0]

(* How many slots s lies ahead of slot from.                               *)
Ahead(from, s, cap) == IF from <= s THEN s - from ELSE s - from + cap

Reply(op, asked, items) == [op |-> op, asked |-> asked, items |-> items]

AtMost(n, limit) == IF n <= limit THEN n ELSE limit

(* The loop of write: items first + 1 .. first + n from the tail on.       *)
PutItems(q, cap, first, n) ==
    [buf   |-> [s \in Slots(cap) |->
                   IF Ahead(q.tail, s, cap) < n THEN first + Ahead(q.tail, s, cap) + 1 ELSE q.buf[s]],
     head  |-> q.head,
     tail  |-> (q.tail + n) % cap,
     count |-> q.count + n]

(* A fault: what is read stays in the buffer.                              *)
DropKeepsBytes(q, cap, n) ==
    [q EXCEPT !.head = (@ + n) % cap, !.count = @ - n]

(* The loop of read: the n items at the head are erased.                   *)
DropItems(q, cap, n) ==
    [buf   |-> [s \in Slots(cap) |-> IF Ahead(q.head, s, cap) < n THEN Erased ELSE q.buf[s]],
     head  |-> (q.head + n) % cap,
     tail  |-> q.tail,
     count |-> q.count - n]

HeadItems(q, cap, n) == [i \in 1 .. n |-> q.buf[(q.head + i - 1) % cap]]

(***************************************************************************)
(* MessageQueue: QueueFull and QueueEmpty are answers without a message.   *)
(***************************************************************************)

(* A fault: a queue that takes one message too many.                       *)
RoomForOneMore == queue.count <= QueueCap

QueueHasRoom == queue.count < QueueCap

Send ==
    \/ /\ QueueHasRoom
       /\ queued < MaxItems
       /\ queue' = PutItems(queue, QueueCap, queued, 1)
       /\ queued' = queued + 1
       /\ queueReply' = Reply("put", 1, [i \in 1 .. 1 |-> queued + 1])
       /\ UNCHANGED <<pipeVars, semVars>>
    \/ /\ ~QueueHasRoom
       /\ queueReply' = Reply("put", 1, <<>>)
       /\ UNCHANGED <<queue, queued, pipeVars, semVars>>

Recv ==
    \/ /\ queue.count > 0
       /\ queue' = DropItems(queue, QueueCap, 1)
       /\ queueReply' = Reply("get", 1, HeadItems(queue, QueueCap, 1))
       /\ UNCHANGED <<queued, pipeVars, semVars>>
    \/ /\ queue.count = 0
       /\ queueReply' = Reply("get", 1, <<>>)
       /\ UNCHANGED <<queue, queued, pipeVars, semVars>>

(***************************************************************************)
(* Pipe: write takes what fits, read gives what is there.                  *)
(***************************************************************************)

(* A fault: the room of a pipe whose tail has wrapped around counts only   *)
(* up to the end of the buffer.                                            *)
RoomToEnd == AtMost(PipeCap - pipe.tail, PipeCap - pipe.count)

PipeRoom == PipeCap - pipe.count

Write(k) ==
    LET n == AtMost(k, PipeRoom)
    IN  /\ piped + n <= MaxItems
        /\ pipe' = PutItems(pipe, PipeCap, piped, n)
        /\ piped' = piped + n
        /\ pipeReply' = Reply("put", k, [i \in 1 .. n |-> piped + i])
        /\ UNCHANGED <<queueVars, semVars>>

Read(k) ==
    LET n == AtMost(k, pipe.count)
    IN  /\ pipe' = DropItems(pipe, PipeCap, n)
        /\ pipeReply' = Reply("get", k, HeadItems(pipe, PipeCap, n))
        /\ UNCHANGED <<piped, queueVars, semVars>>

(***************************************************************************)
(* Semaphore.                                                              *)
(***************************************************************************)
Idle == [op |-> "idle", seen |-> 0]

SetCall(c, op, seen) == call' = [call EXCEPT ![c] = [op |-> op, seen |-> seen]]

(* try_wait and signal: the first load.                                    *)
Begin(c, op) ==
    /\ call[c] = Idle
    /\ SetCall(c, op, count)
    /\ UNCHANGED <<count, permits, queueVars, pipeVars>>

(* The count that an operation which saw n would write, if it may.         *)
Allowed(op, n) == IF op = "wait" THEN n > 0 ELSE n < MaxCount
Updated(op, n) == IF op = "wait" THEN n - 1 ELSE n + 1

(* WouldBlock or SemaphoreOverflow.                                        *)
Refused(c) ==
    /\ call[c] # Idle
    /\ ~Allowed(call[c].op, call[c].seen)
    /\ call' = [call EXCEPT ![c] = Idle]
    /\ UNCHANGED <<count, permits, queueVars, pipeVars>>

(* A fault: a store where the compare-and-swap should be.                  *)
StoreCount(c) == TRUE

SwapFits(c) == count = call[c].seen

(* The compare-and-swap: a success, or another turn with the value found.  *)
Swap(c) ==
    /\ call[c] # Idle
    /\ Allowed(call[c].op, call[c].seen)
    /\ \/ /\ SwapFits(c)
          /\ count' = Updated(call[c].op, call[c].seen)
          /\ permits' = Updated(call[c].op, permits)
          /\ call' = [call EXCEPT ![c] = Idle]
       \/ /\ ~SwapFits(c)
          /\ SetCall(c, call[c].op, count)
          /\ UNCHANGED <<count, permits>>
    /\ UNCHANGED <<queueVars, pipeVars>>

(***************************************************************************)
(* The specification.                                                      *)
(***************************************************************************)
Init ==
    /\ queue = NewRing(QueueCap) /\ queued = 0 /\ queueReply = Reply("none", 0, <<>>)
    /\ pipe = NewRing(PipeCap) /\ piped = 0 /\ pipeReply = Reply("none", 0, <<>>)
    /\ count = Initial /\ permits = Initial
    /\ call = [c \in Callers |-> Idle]

Next ==
    \/ Send \/ Recv
    \/ \E k \in Lengths : Write(k) \/ Read(k)
    \/ \E c \in Callers : Begin(c, "wait") \/ Begin(c, "signal") \/ Refused(c) \/ Swap(c)

Spec == Init /\ [][Next]_vars

(***************************************************************************)
(* Properties.                                                             *)
(***************************************************************************)
Ring(cap) == [buf : [Slots(cap) -> Nat], head : Slots(cap), tail : Slots(cap), count : 0 .. cap]

(* Type invariant: counts stay within the buffers (count is unsigned).     *)
TypeOK ==
    /\ queue \in Ring(QueueCap) /\ queued \in Nat
    /\ pipe \in Ring(PipeCap) /\ piped \in Nat
    /\ count \in 0 .. MaxCount /\ permits \in Int
    /\ call \in [Callers -> [op : {"idle", "wait", "signal"}, seen : 0 .. MaxCount]]

(* The ring holds exactly the last items that were put in, in order from   *)
(* the head, and everything else is erased: no message is left behind.     *)
RingHolds(q, cap, total) ==
    /\ q.tail = (q.head + q.count) % cap
    /\ \A s \in Slots(cap) :
          q.buf[s] = IF Ahead(q.head, s, cap) < q.count
                     THEN total - q.count + Ahead(q.head, s, cap) + 1 ELSE Erased

NothingLeftBehind == RingHolds(queue, QueueCap, queued) /\ RingHolds(pipe, PipeCap, piped)

(* The message queue is a first-in-first-out buffer of QueueCap messages.  *)
QueueFifo == INSTANCE Fifo WITH
    Cap <- QueueCap, Asks <- {1}, low <- queued - queue.count, high <- queued, reply <- queueReply
QueueIsFifo == QueueFifo!Spec

(* The pipe is a first-in-first-out buffer of PipeCap bytes; write and     *)
(* read move as many bytes as they can.                                    *)
PipeFifo == INSTANCE Fifo WITH
    Cap <- PipeCap, Asks <- Lengths, low <- piped - pipe.count, high <- piped, reply <- pipeReply
PipeIsFifo == PipeFifo!Spec

(* No permit is lost or invented by callers that race: the count is what   *)
(* the successful calls make it, and stays between 0 and max.              *)
PermitsConserved == count = permits /\ permits \in 0 .. MaxCount
=============================================================================
