------------------------------- MODULE Kernel -------------------------------
(***************************************************************************)
(* The kernel image at run time: kernel_main (boot, then the loop that     *)
(* feeds keys and polls), tasks in system calls, the two spin locks they   *)
(* share (ksync), the check of user buffers, and the panic handler.        *)
(*                                                                         *)
(* Contexts are preempted anywhere.  A spinning context waits: the CAS     *)
(* that takes a free lock is its step, the ones that fail change nothing.  *)
(* What the stack holds is abstracted to one bit: does it hold secrets     *)
(* (keys in a lane, plaintext in a receive queue)?  System calls that      *)
(* answer at once (getpid, sleep, yield, the memory stubs, a number or a   *)
(* port out of range, a length of 0) change nothing and have no action.    *)
(*                                                                         *)
(* After a panic nothing else runs: the premise that net/src/lib.rs states *)
(* for the forced access (one core, scheduler and interrupts stopped).     *)
(***************************************************************************)
EXTENDS Integers

CONSTANTS Main, Tasks, None,   \* the context of kernel_main; tasks; nobody
          MaxWord, UserVirtMax, \* usize::MAX and USER_VIRT_MAX
          ImageLo, ImageHi,    \* _skernel and _ekernel
          Ptrs, Sizes          \* the user buffers tasks name

Ctx == {Main} \cup Tasks

ASSUME ContextAssumption == Main \notin Tasks /\ None \notin Ctx
ASSUME WordAssumption == MaxWord \in Nat /\ UserVirtMax \in 0 .. MaxWord
ASSUME ImageAssumption == ImageLo \in 0 .. MaxWord /\ ImageHi \in 0 .. MaxWord
ASSUME BufferAssumption == Ptrs \subseteq 0 .. MaxWord /\ Sizes \subseteq 0 .. MaxWord

VARIABLES locked,     \* locked[l]: the flags of QPHY and KERNEL_NET
          job, at,    \* what context c is doing, and how far it is
          buf,        \* buf[t]: the user buffer [ptr, size] of t's call
          seen,       \* seen[t]: the image start t has loaded
          klo, khi,   \* KERNEL_LO, KERNEL_HI
          registered, \* the peer of the quantum link is in the stack's table
          started,    \* the scheduler runs: tasks exist
          secrets,    \* the stack holds key material or received plaintext
          blk,        \* the block on kernel_main's own stack holds key
          panicked    \* the context that panicked, or None

vars == <<locked, job, at, buf, seen, klo, khi, registered, started, secrets, blk, panicked>>

Lock == {"qphy", "net"}
BootJob == {"entry", "configure", "register", "imageLo", "imageHi", "start"}
BufferCall == {"copy", "data"}  \* read, write, open and the ipc stubs; send and recv
StackCall  == {"data", "call"}  \* call: the other QTLS calls
MainStackJob == {"configure", "register", "poll"}
Job == BootJob \cup BufferCall \cup StackCall \cup {"poll", "tick", "halt", "user", "exit", "panic"}
At == {"ready", "check", "driver", "inside", "harvested", "stored", "leaving", "returned",
       "wipe", "force", "dead"}
NoBuffer == [ptr |-> 0, size |-> 0]

Init ==
    /\ locked = [l \in Lock |-> FALSE]
    /\ job = [c \in Ctx |-> IF c = Main THEN "entry" ELSE "user"]
    /\ at = [c \in Ctx |-> "ready"]
    /\ buf = [t \in Tasks |-> NoBuffer] /\ seen = [t \in Tasks |-> 0]
    /\ klo = 0 /\ khi = 0
    /\ registered = FALSE /\ started = FALSE /\ secrets = FALSE /\ blk = FALSE
    /\ panicked = None

Alive(c) == panicked \in {None, c}
Doing(c, j, a) == Alive(c) /\ job[c] = j /\ at[c] = a
Goto(c, a) == at' = [at EXCEPT ![c] = a]

(***************************************************************************)
(* SpinLock.                                                               *)
(***************************************************************************)

(* A fault: a lock that stores the flag without testing it.                *)
StoreOnly(l) == locked' = [locked EXCEPT ![l] = TRUE]

(* compare_exchange(false, true) that succeeds, and the drop of the guard. *)
Acquire(l) == ~locked[l] /\ locked' = [locked EXCEPT ![l] = TRUE]
Release(l) == locked' = [locked EXCEPT ![l] = FALSE]

(***************************************************************************)
(* kernel_main.                                                            *)
(***************************************************************************)

(* A fault: tasks may run before the image is registered.                  *)
StartsFirst(j) ==
    CASE j = "entry" -> "start"
      [] j = "start" -> "configure"
      [] j = "configure" -> "register"
      [] j = "register" -> "imageLo"
      [] j = "imageLo" -> "imageHi"
      [] j = "imageHi" -> "tick"
      [] j = "tick" -> "poll"
      [] j = "poll" -> "halt"
      [] j = "halt" -> "tick"

(* The order of kernel_main: boot, then tick, poll and halt for ever.      *)
Following(j) ==
    CASE j = "entry" -> "configure"
      [] j = "configure" -> "register"
      [] j = "register" -> "tick"
      [] j = "tick" -> IF started THEN "poll" ELSE "imageLo"
      [] j = "imageLo" -> "imageHi"
      [] j = "imageHi" -> "start"
      [] j = "start" -> "tick"
      [] j = "poll" -> "halt"
      [] j = "halt" -> "tick"

(* Context c ends its job: kernel_main goes on, a call returns.            *)
Finish(c) ==
    /\ job' = [job EXCEPT ![c] = IF c = Main THEN Following(job[c]) ELSE "user"]
    /\ at' = [at EXCEPT ![c] = "ready"]
    /\ buf' = IF c = Main THEN buf ELSE [buf EXCEPT ![c] = NoBuffer]

(* The swap of KERNEL_INITIALIZED, memory::init and drivers_core::init;    *)
(* the two stores of set_kernel_image; the inits before the loop.          *)
Boot ==
    \E j \in {"entry", "imageLo", "imageHi", "start"} :
        /\ Doing(Main, j, "ready")
        /\ klo' = IF j = "imageLo" THEN ImageLo ELSE klo
        /\ khi' = IF j = "imageHi" THEN ImageHi ELSE khi
        /\ started' = (started \/ j = "start")
        /\ Finish(Main)
        /\ UNCHANGED <<locked, seen, registered, secrets, blk, panicked>>

(* hlt, until an interrupt.                                                *)
Wake ==
    /\ Doing(Main, "halt", "ready")
    /\ Finish(Main)
    /\ UNCHANGED <<locked, seen, klo, khi, registered, started, secrets, blk, panicked>>

kernelVars == <<job, buf, seen, klo, khi, started, panicked>>

(* qkd_tick takes the driver, then the stack.                              *)
TickLocks ==
    \/ /\ Doing(Main, "tick", "ready") /\ Acquire("qphy") /\ Goto(Main, "driver")
       /\ UNCHANGED <<kernelVars, registered, secrets, blk>>
    \/ /\ Doing(Main, "tick", "driver") /\ Acquire("net") /\ Goto(Main, "inside")
       /\ UNCHANGED <<kernelVars, registered, secrets, blk>>

(* qkd_pump: the driver gives a block or fails (NoDevice or another        *)
(* error); deposit refuses it without the peer; the copy is erased.        *)
Harvest ==
    /\ Doing(Main, "tick", "inside")
    /\ \/ Goto(Main, "harvested") /\ blk' = TRUE
       \/ Goto(Main, "stored") /\ UNCHANGED blk
    /\ UNCHANGED <<kernelVars, locked, registered, secrets>>

Deposit ==
    /\ Doing(Main, "tick", "harvested")
    /\ Goto(Main, "stored")
    /\ secrets' = (secrets \/ registered)
    /\ UNCHANGED <<kernelVars, locked, registered, blk>>

Erase ==
    /\ Doing(Main, "tick", "stored")
    /\ Goto(Main, "leaving") /\ blk' = FALSE
    /\ UNCHANGED <<kernelVars, locked, registered, secrets>>

(* The guards drop in the reverse order, the driver's last.                *)
TickUnlocks ==
    \/ /\ Doing(Main, "tick", "leaving")
       /\ Release("net") /\ Goto(Main, "returned")
       /\ UNCHANGED <<kernelVars, registered, secrets, blk>>
    \/ /\ Doing(Main, "tick", "returned")
       /\ Release("qphy") /\ Finish(Main)
       /\ UNCHANGED <<seen, klo, khi, started, panicked, registered, secrets, blk>>

(***************************************************************************)
(* One use of KERNEL_NET: the boot statements, poll and the QTLS calls.    *)
(***************************************************************************)
UsesStack(c) == job[c] \in IF c = Main THEN MainStackJob ELSE StackCall

EnterStack(c) ==
    /\ UsesStack(c) /\ Doing(c, job[c], "ready")
    /\ Acquire("net") /\ Goto(c, "inside")
    /\ UNCHANGED <<kernelVars, registered, secrets, blk>>

(* register_peer on the boot; poll, send and recv may use up the last key, *)
(* take in plaintext while there is key, or hand the last plaintext out.   *)
UseStack(c) ==
    /\ UsesStack(c) /\ Doing(c, job[c], "inside")
    /\ Goto(c, "leaving")
    /\ registered' = (registered \/ job[c] = "register")
    /\ secrets' \in {secrets, FALSE}
    /\ UNCHANGED <<kernelVars, locked, blk>>

(* A fault: the guard of register_peer lives on.                           *)
LeavesRegisterLocked(c) ==
    /\ UsesStack(c) /\ Doing(c, job[c], "leaving")
    /\ IF job[c] = "register" THEN UNCHANGED locked ELSE Release("net")
    /\ Finish(c)
    /\ UNCHANGED <<seen, klo, khi, started, panicked, registered, secrets, blk>>

LeaveStack(c) ==
    /\ UsesStack(c) /\ Doing(c, job[c], "leaving")
    /\ Release("net") /\ Finish(c)
    /\ UNCHANGED <<seen, klo, khi, started, panicked, registered, secrets, blk>>

(***************************************************************************)
(* System calls.                                                           *)
(***************************************************************************)

(* syscall_dispatch, for the calls that do more than answer.  A zero       *)
(* length answers 0 in send and recv; the check below refuses it anyway.   *)
Syscall(t) ==
    /\ started /\ Doing(t, "user", "ready")
    /\ \/ \E j \in BufferCall, p \in Ptrs, s \in Sizes :
             /\ job' = [job EXCEPT ![t] = j] /\ Goto(t, "check")
             /\ buf' = [buf EXCEPT ![t] = [ptr |-> p, size |-> s]]
             /\ seen' = [seen EXCEPT ![t] = klo]
       \/ \E j \in {"call", "exit"} :
             job' = [job EXCEPT ![t] = j] /\ UNCHANGED <<at, buf, seen>>
    /\ UNCHANGED <<locked, klo, khi, registered, started, secrets, blk, panicked>>

(* A fault: a sum that wraps.                                              *)
AcceptsWrapped(b, lo, hi) ==
    LET end == (b.ptr + b.size) % (MaxWord + 1)
    IN  /\ b.ptr # 0 /\ b.size # 0 /\ end <= UserVirtMax
        /\ ~(hi > lo /\ b.ptr < hi /\ end > lo)

(* validate_user_ptr, with the image bounds it has loaded.                 *)
Accepts(b, lo, hi) ==
    /\ b.ptr # 0 /\ b.size # 0
    /\ b.ptr + b.size <= MaxWord
    /\ b.ptr + b.size <= UserVirtMax
    /\ ~(hi > lo /\ b.ptr < hi /\ b.ptr + b.size > lo)

(* The second load and the verdict: the call goes on or returns EFAULT.    *)
Validate(t) ==
    /\ job[t] \in BufferCall /\ Doing(t, job[t], "check")
    /\ IF Accepts(buf[t], seen[t], khi)
       THEN /\ Goto(t, IF job[t] = "copy" THEN "inside" ELSE "ready")
            /\ UNCHANGED <<job, buf>>
       ELSE Finish(t)
    /\ UNCHANGED <<locked, seen, klo, khi, registered, started, secrets, blk, panicked>>

(* read, write, open and the ipc stubs look at the buffer and return.      *)
Copy(t) ==
    /\ Doing(t, "copy", "inside")
    /\ Finish(t)
    /\ UNCHANGED <<locked, seen, klo, khi, registered, started, secrets, blk, panicked>>

(***************************************************************************)
(* panic and emergency_zeroize.                                            *)
(***************************************************************************)
rest == <<buf, seen, klo, khi, registered, started, blk>>

(* The guards a context holds are not dropped.                             *)
Panic(c) ==
    /\ panicked = None
    /\ (c = Main \/ started)
    /\ panicked' = c
    /\ job' = [job EXCEPT ![c] = "panic"] /\ Goto(c, "ready")
    /\ UNCHANGED <<rest, locked, secrets>>

(* A fault: a handler that waits for the lock.                             *)
HandlerWaits(c) ==
    /\ Doing(c, "panic", "ready")
    /\ Acquire("net") /\ Goto(c, "wipe")
    /\ UNCHANGED <<rest, job, secrets, panicked>>

(* try_lock, or the access by force.                                       *)
Handler(c) ==
    /\ Doing(c, "panic", "ready")
    /\ IF locked["net"] THEN Goto(c, "force") /\ UNCHANGED locked
       ELSE Acquire("net") /\ Goto(c, "wipe")
    /\ UNCHANGED <<rest, job, secrets, panicked>>

(* wipe_keys; only a guard from try_lock is dropped.                       *)
Wipe(c) ==
    /\ \/ Doing(c, "panic", "wipe") /\ Release("net")
       \/ Doing(c, "panic", "force") /\ UNCHANGED locked
    /\ secrets' = FALSE /\ Goto(c, "dead")
    /\ UNCHANGED <<rest, job, panicked>>

(* loop hlt: sys_exit and the end of the handler.                          *)
Halted(c) ==
    /\ Doing(c, "exit", "ready") \/ Doing(c, "panic", "dead")
    /\ UNCHANGED vars

(***************************************************************************)
(* The kernel.                                                             *)
(***************************************************************************)
MainStep == Boot \/ TickLocks \/ Harvest \/ Deposit \/ Erase \/ TickUnlocks
StackStep(c) == EnterStack(c) \/ UseStack(c) \/ LeaveStack(c)
CallStep(t) == Validate(t) \/ Copy(t)
PanicStep(c) == Handler(c) \/ Wipe(c)

Next ==
    \/ MainStep \/ Wake
    \/ \E c \in Ctx : StackStep(c) \/ PanicStep(c) \/ Panic(c) \/ Halted(c)
    \/ \E t \in Tasks : Syscall(t) \/ CallStep(t)

Spec == Init /\ [][Next]_vars

(* Every context goes on with what it has begun: the scheduler runs each.  *)
(* When a task makes a call, and when an interrupt ends the hlt, is open.  *)
FairSpec ==
    /\ Spec
    /\ WF_vars(MainStep)
    /\ \A c \in Ctx : WF_vars(StackStep(c)) /\ WF_vars(PanicStep(c))
    /\ \A t \in Tasks : WF_vars(CallStep(t))

(***************************************************************************)
(* Properties.                                                             *)
(***************************************************************************)

(* Every variable has its type.                                            *)
TypeOK ==
    /\ locked \in [Lock -> BOOLEAN]
    /\ job \in [Ctx -> Job] /\ at \in [Ctx -> At]
    /\ buf \in [Tasks -> [ptr : 0 .. MaxWord, size : 0 .. MaxWord]]
    /\ seen \in [Tasks -> 0 .. MaxWord]
    /\ klo \in 0 .. MaxWord /\ khi \in 0 .. MaxWord
    /\ registered \in BOOLEAN /\ started \in BOOLEAN
    /\ secrets \in BOOLEAN /\ blk \in BOOLEAN
    /\ panicked \in Ctx \cup {None}

(* Where context c has a live guard of lock l.                             *)
Holds(c, l) ==
    /\ Alive(c)
    /\ CASE l = "qphy" -> job[c] = "tick" /\ at[c] # "ready"
         [] l = "net"  ->
              \/ job[c] = "tick" /\ at[c] \in {"inside", "harvested", "stored", "leaving"}
              \/ UsesStack(c) /\ at[c] \in {"inside", "leaving"}
              \/ job[c] = "panic" /\ at[c] \in {"wipe", "force"}

(* Two contexts never have the driver or the stack at a time, also while   *)
(* kernel_main, calls and the panic handler interleave (SpinLock, and the  *)
(* access by force of emergency_zeroize).                                  *)
OneOwner == \A l \in Lock, c, d \in Ctx : Holds(c, l) /\ Holds(d, l) => c = d

(* The kernel uses a user buffer only when it lies in user space and       *)
(* outside of the kernel image, whenever the call came (validate_user_ptr  *)
(* and the order of kernel_main).                                          *)
ImageProtected ==
    \A t \in Tasks : job[t] \in BufferCall /\ at[t] # "check" =>
        LET bytes == buf[t].ptr .. buf[t].ptr + buf[t].size - 1
        IN  /\ bytes # {} /\ bytes \subseteq 1 .. UserVirtMax - 1
            /\ bytes \cap (ImageLo .. ImageHi - 1) = {}

(* The lock of the stack comes free after every use, or somebody panicked: *)
(* no path keeps its guard or takes it twice (kernel_main, qkd_tick and    *)
(* the calls; spin locks are not fair, so one context may wait for ever).  *)
StackComesFree == locked["net"] ~> (~locked["net"] \/ panicked # None)

(* Whoever panics, wherever it and the others stand, the handler ends and  *)
(* leaves no secret in the stack (emergency_zeroize).                      *)
PanicWipes ==
    \A c \in Ctx : (panicked = c) ~> [](at[c] = "dead" /\ ~secrets)
=============================================================================
