---------------------------- MODULE KernelProofs ----------------------------
(***************************************************************************)
(* Proofs about Kernel for any set of tasks, any image and any buffers.    *)
(***************************************************************************)
EXTENDS Kernel, TLAPS

-----------------------------------------------------------------------------
(* Types.                                                                  *)

LEMMA InitType == Init => TypeOK
<1> SUFFICES ASSUME Init PROVE TypeOK OBVIOUS
<1>1. NoBuffer \in [ptr : 0 .. MaxWord, size : 0 .. MaxWord] BY WordAssumption DEF NoBuffer
<1>2. job \in [Ctx -> Job] /\ at \in [Ctx -> At] BY DEF Init, Job, BootJob, At
<1>3. locked \in [Lock -> BOOLEAN] BY DEF Init
<1>4. buf \in [Tasks -> [ptr : 0 .. MaxWord, size : 0 .. MaxWord]] BY <1>1 DEF Init
<1>5. seen \in [Tasks -> 0 .. MaxWord] BY WordAssumption DEF Init
<1>6. klo \in 0 .. MaxWord /\ khi \in 0 .. MaxWord BY WordAssumption DEF Init
<1>7. /\ registered \in BOOLEAN /\ started \in BOOLEAN
      /\ secrets \in BOOLEAN /\ blk \in BOOLEAN
  BY Zenon DEF Init
<1>8. panicked \in Ctx \cup {None} BY DEF Init
<1> QED BY <1>2, <1>3, <1>4, <1>5, <1>6, <1>7, <1>8 DEF TypeOK

LEMMA NextType == TypeOK /\ [Next]_vars => TypeOK'
<1> SUFFICES ASSUME TypeOK, [Next]_vars PROVE TypeOK' OBVIOUS
<1> USE ContextAssumption, WordAssumption, ImageAssumption, BufferAssumption
<1>1. CASE UNCHANGED vars BY <1>1 DEF TypeOK, vars
<1>2. CASE Boot
  BY <1>2 DEF Boot, Finish, Following, Doing, Goto, TypeOK, Ctx, Job, BootJob, At
<1>3. CASE Wake
  BY <1>3 DEF Wake, Finish, Following, Doing, Goto, TypeOK, Ctx, Job, BootJob, At
<1>4. CASE TickLocks
  BY <1>4 DEF TickLocks, Acquire, Goto, kernelVars, TypeOK, Ctx, At, Lock
<1>5. CASE Harvest \/ Deposit \/ Erase
  BY <1>5 DEF Harvest, Deposit, Erase, Goto, kernelVars, TypeOK, Ctx, At
<1>6. CASE TickUnlocks
  <2>1. CASE Doing(Main, "tick", "leaving")
    BY <1>6, <2>1 DEF TickUnlocks, Release, Doing, Goto, kernelVars, TypeOK, Ctx, At, Lock
  <2>2. CASE Doing(Main, "tick", "returned")
    <3>1. /\ Release("qphy") /\ Finish(Main) /\ Following("tick") \in Job /\ job[Main] = "tick"
          /\ UNCHANGED <<seen, klo, khi, started, panicked, registered, secrets, blk>>
      BY <1>6, <2>2 DEF TickUnlocks, Doing, Following, Job, BootJob
    <3> QED BY <3>1 DEF Release, Finish, TypeOK, Ctx, At, Lock
  <2> QED BY <1>6, <2>1, <2>2 DEF TickUnlocks
<1>7. ASSUME NEW c \in Ctx, StackStep(c) PROVE TypeOK'
  <2>1. CASE EnterStack(c)
    BY <2>1 DEF EnterStack, Acquire, Goto, kernelVars, TypeOK, At, Lock
  <2>2. CASE UseStack(c)
    BY <2>2 DEF UseStack, Goto, kernelVars, TypeOK, At
  <2>3. CASE LeaveStack(c)
    BY <2>3 DEF LeaveStack, UsesStack, MainStackJob, Release, Finish, Following, Doing, TypeOK, Ctx,
                Job, BootJob, At, Lock, NoBuffer
  <2> QED BY <1>7, <2>1, <2>2, <2>3 DEF StackStep
<1>8. ASSUME NEW c \in Ctx, PanicStep(c) PROVE TypeOK'
  BY <1>8 DEF PanicStep, Handler, Wipe, Acquire, Release, Goto, rest, TypeOK, At, Lock
<1>9. ASSUME NEW c \in Ctx, Panic(c) PROVE TypeOK'
  BY <1>9 DEF Panic, Goto, rest, TypeOK, Job, At
<1>10. ASSUME NEW t \in Tasks, Syscall(t) PROVE TypeOK'
  BY <1>10 DEF Syscall, Goto, TypeOK, Ctx, Job, BufferCall, StackCall, At
<1>11. ASSUME NEW t \in Tasks, CallStep(t) PROVE TypeOK'
  <2>1. CASE Validate(t)
    BY <2>1 DEF Validate, Finish, Goto, TypeOK, Ctx, Job, At, NoBuffer
  <2>2. CASE Copy(t)
    BY <2>2 DEF Copy, Finish, TypeOK, Ctx, Job, At, NoBuffer
  <2> QED BY <1>11, <2>1, <2>2 DEF CallStep
<1>12. ASSUME NEW c \in Ctx, Halted(c) PROVE TypeOK'
  BY <1>12 DEF Halted, TypeOK, vars
<1> QED
  BY <1>1, <1>2, <1>3, <1>4, <1>5, <1>6, <1>7, <1>8, <1>9, <1>10, <1>11, <1>12
     DEF Next, MainStep

(* The variables of the kernel keep their types.                           *)
THEOREM TypeCorrect == Spec => []TypeOK
<1>1. Init => TypeOK BY InitType
<1>2. TypeOK /\ [Next]_vars => TypeOK' BY NextType
<1> QED BY <1>1, <1>2, PTL DEF Spec

-----------------------------------------------------------------------------
(* The panic handler.                                                      *)

(* Who panicked runs the handler, nobody else does, and at its end nothing *)
(* is left.                                                                *)
PanicInv ==
    \A c \in Ctx :
        /\ panicked = c <=> job[c] = "panic"
        /\ job[c] = "panic" => at[c] \in {"ready", "wipe", "force", "dead"}
        /\ job[c] = "panic" /\ at[c] = "dead" => ~secrets

LEMMA InitPanic == Init => PanicInv
BY ContextAssumption DEF Init, PanicInv

LEMMA NextPanic == TypeOK /\ PanicInv /\ [Next]_vars => PanicInv'
<1> SUFFICES ASSUME TypeOK, PanicInv, [Next]_vars PROVE PanicInv' OBVIOUS
<1> USE ContextAssumption
<1>1. CASE UNCHANGED vars BY <1>1 DEF PanicInv, vars
<1>2. CASE Boot
  BY <1>2 DEF Boot, Finish, Following, Doing, Alive, TypeOK, PanicInv, Ctx
<1>3. CASE Wake
  BY <1>3 DEF Wake, Finish, Following, Doing, Alive, TypeOK, PanicInv, Ctx
<1>4. CASE TickLocks
  BY <1>4 DEF TickLocks, Goto, Doing, Alive, kernelVars, TypeOK, PanicInv, Ctx
<1>5. CASE Harvest \/ Deposit \/ Erase
  BY <1>5 DEF Harvest, Deposit, Erase, Goto, Doing, Alive, kernelVars, TypeOK, PanicInv, Ctx
<1>6. CASE TickUnlocks
  BY <1>6 DEF TickUnlocks, Finish, Following, Doing, Alive, Goto, kernelVars, TypeOK, PanicInv, Ctx
<1>7. ASSUME NEW c \in Ctx, StackStep(c) PROVE PanicInv'
  <2>1. UsesStack(c) => job[c] # "panic"
    BY DEF UsesStack, MainStackJob, StackCall
  <2>2. CASE EnterStack(c)
    BY <2>1, <2>2 DEF EnterStack, Goto, Doing, Alive, kernelVars, TypeOK, PanicInv
  <2>3. CASE UseStack(c)
    BY <2>1, <2>3 DEF UseStack, Goto, Doing, Alive, kernelVars, TypeOK, PanicInv
  <2>4. CASE LeaveStack(c)
    BY <2>1, <2>4 DEF LeaveStack, UsesStack, MainStackJob, Finish, Following, Doing, Alive, TypeOK,
                      PanicInv
  <2> QED BY <1>7, <2>2, <2>3, <2>4 DEF StackStep
<1>8. ASSUME NEW c \in Ctx, PanicStep(c) PROVE PanicInv'
  BY <1>8 DEF PanicStep, Handler, Wipe, Goto, Doing, Alive, rest, TypeOK, PanicInv
<1>9. ASSUME NEW c \in Ctx, Panic(c) PROVE PanicInv'
  BY <1>9 DEF Panic, Goto, rest, TypeOK, PanicInv
<1>10. ASSUME NEW t \in Tasks, Syscall(t) PROVE PanicInv'
  BY <1>10 DEF Syscall, Goto, Doing, Alive, TypeOK, PanicInv, Ctx, BufferCall
<1>11. ASSUME NEW t \in Tasks, CallStep(t) PROVE PanicInv'
  BY <1>11 DEF CallStep, Validate, Copy, Finish, Goto, Doing, Alive, TypeOK, PanicInv, Ctx, BufferCall
<1>12. ASSUME NEW c \in Ctx, Halted(c) PROVE PanicInv'
  BY <1>12 DEF Halted, PanicInv, vars
<1> QED
  BY <1>1, <1>2, <1>3, <1>4, <1>5, <1>6, <1>7, <1>8, <1>9, <1>10, <1>11, <1>12
     DEF Next, MainStep

(* A context that has panicked and ended its handler left no secret in the *)
(* stack, and stays so: the safety half of PanicWipes, also when it wiped  *)
(* by force (emergency_zeroize).                                           *)
THEOREM NothingLeftAfterPanic ==
    Spec => [](\A c \in Ctx : panicked = c /\ at[c] = "dead" => ~secrets)
<1>1. Init => TypeOK /\ PanicInv BY InitType, InitPanic
<1>2. TypeOK /\ PanicInv /\ [Next]_vars => (TypeOK /\ PanicInv)' BY NextType, NextPanic
<1>3. PanicInv => \A c \in Ctx : panicked = c /\ at[c] = "dead" => ~secrets BY DEF PanicInv
<1> QED BY <1>1, <1>2, <1>3, PTL DEF Spec

-----------------------------------------------------------------------------
(* The two locks.                                                          *)

(* While nobody has panicked, a live guard means that the flag is set.     *)
GuardsLock == panicked = None => \A l \in Lock, c \in Ctx : Holds(c, l) => locked[l]

LockInv == TypeOK /\ PanicInv /\ GuardsLock /\ OneOwner

(* What a context holds changes by its own steps only.                     *)
LEMMA OthersHold ==
    ASSUME NEW d \in Ctx, panicked' = panicked,
           \A c \in Ctx : c # d => job'[c] = job[c] /\ at'[c] = at[c]
    PROVE  \A l \in Lock, c \in Ctx : c # d => (Holds(c, l)' <=> Holds(c, l))
<1> SUFFICES ASSUME NEW l \in Lock, NEW c \in Ctx, c # d PROVE Holds(c, l)' <=> Holds(c, l)
  OBVIOUS
<1>1. job'[c] = job[c] /\ at'[c] = at[c] OBVIOUS
<1>2. CASE l = "qphy" BY <1>1, <1>2 DEF Holds, Alive
<1>3. CASE l = "net" BY <1>1, <1>3 DEF Holds, UsesStack, Alive
<1> QED BY <1>2, <1>3 DEF Lock

(* A step that takes no lock, and after which no context holds a lock that *)
(* it did not hold before, and that clears no flag.                        *)
LEMMA NoNewHolder ==
    ASSUME LockInv, panicked' = panicked, locked' = locked,
           \A l \in Lock, c \in Ctx : Holds(c, l)' => Holds(c, l)
    PROVE  GuardsLock' /\ OneOwner'
BY DEF LockInv, GuardsLock, OneOwner

(* A context takes a lock that is free.                                    *)
LEMMA TakesLock ==
    ASSUME LockInv, panicked = None, panicked' = None, NEW lock \in Lock, NEW d \in Ctx, Acquire(lock),
           \A l \in Lock, c \in Ctx : Holds(c, l)' => Holds(c, l) \/ (c = d /\ l = lock)
    PROVE  GuardsLock' /\ OneOwner'
BY DEF LockInv, TypeOK, GuardsLock, OneOwner, Acquire

(* The holder of a lock gives it back.                                     *)
LEMMA GivesLock ==
    ASSUME LockInv, panicked' = panicked, NEW lock \in Lock, NEW d \in Ctx, Release(lock),
           Holds(d, lock), ~Holds(d, lock)',
           \A l \in Lock, c \in Ctx : Holds(c, l)' => Holds(c, l)
    PROVE  GuardsLock' /\ OneOwner'
BY DEF LockInv, TypeOK, GuardsLock, OneOwner, Release

(* After a panic one context is left.                                      *)
LEMMA AlonePanicked ==
    ASSUME panicked' \in Ctx
    PROVE  GuardsLock' /\ OneOwner'
BY ContextAssumption DEF GuardsLock, OneOwner, Holds, Alive

LEMMA InitLock == Init => LockInv
<1> SUFFICES ASSUME Init PROVE GuardsLock /\ OneOwner BY InitType, InitPanic DEF LockInv
<1>1. \A l \in Lock, c \in Ctx : ~Holds(c, l)
  BY DEF Init, Holds, UsesStack, Lock
<1> QED BY <1>1 DEF GuardsLock, OneOwner

LEMMA NextLock == LockInv /\ [Next]_vars => LockInv'
<1> SUFFICES ASSUME LockInv, [Next]_vars PROVE GuardsLock' /\ OneOwner'
  BY NextType, NextPanic DEF LockInv
<1> USE ContextAssumption
<1>0. TypeOK /\ PanicInv BY DEF LockInv
<1>a. {"qphy", "net"} = Lock /\ Main \in Ctx BY DEF Lock, Ctx
<1>1. CASE UNCHANGED vars
  BY <1>1, NoNewHolder DEF vars, Holds, UsesStack, Alive
<1>2. CASE panicked' \in Ctx BY <1>2, AlonePanicked
<1>3. ASSUME panicked' = panicked, panicked = None, Next PROVE GuardsLock' /\ OneOwner'
  <2>1. CASE Boot
    BY <1>0, <1>3, <2>1, NoNewHolder
       DEF Boot, Finish, Following, Doing, TypeOK, Holds, UsesStack, Alive, Ctx, Lock
  <2>2. CASE Wake
    BY <1>0, <1>3, <2>2, NoNewHolder
       DEF Wake, Finish, Following, Doing, TypeOK, Holds, UsesStack, Alive, Ctx, Lock
  <2>3. CASE TickLocks
    <3>1. CASE Doing(Main, "tick", "ready")
      <4>1. Acquire("qphy") /\ Goto(Main, "driver") /\ UNCHANGED job /\ job[Main] = "tick"
        BY <2>3, <3>1 DEF TickLocks, Doing, kernelVars
      <4>2. \A l \in Lock, c \in Ctx : Holds(c, l)' => Holds(c, l) \/ (c = Main /\ l = "qphy")
        BY <1>0, <1>3, <4>1 DEF Goto, TypeOK, Holds, UsesStack, MainStackJob, Alive, Lock
      <4> QED BY <1>a, <1>3, <4>1, <4>2, TakesLock
    <3>2. CASE Doing(Main, "tick", "driver")
      <4>1. Acquire("net") /\ Goto(Main, "inside") /\ UNCHANGED job /\ job[Main] = "tick" /\ at[Main] = "driver"
        BY <2>3, <3>2 DEF TickLocks, Doing, kernelVars
      <4>2. \A l \in Lock, c \in Ctx : Holds(c, l)' => Holds(c, l) \/ (c = Main /\ l = "net")
        <5>1. \A l \in Lock, c \in Ctx : c # Main => (Holds(c, l)' <=> Holds(c, l))
          BY <1>0, <1>3, <1>a, <4>1, OthersHold DEF Goto, TypeOK
        <5>2. Holds(Main, "qphy") BY <1>3, <4>1 DEF Holds, Alive
        <5> QED BY <5>1, <5>2 DEF Lock
      <4> QED BY <1>a, <1>3, <4>1, <4>2, TakesLock
    <3> QED BY <2>3, <3>1, <3>2 DEF TickLocks
  <2>4. CASE Harvest \/ Deposit \/ Erase
    <3>1. \A l \in Lock, c \in Ctx : Holds(c, l)' => Holds(c, l)
      <4>1. /\ job' = job /\ at' = [at EXCEPT ![Main] = at'[Main]]
            /\ job[Main] = "tick" /\ at[Main] \in {"inside", "harvested", "stored"}
        BY <1>0, <1>a, <2>4 DEF Harvest, Deposit, Erase, Goto, Doing, kernelVars, TypeOK
      <4>2. \A l \in Lock, c \in Ctx : c # Main => (Holds(c, l)' <=> Holds(c, l))
        BY <1>0, <1>3, <1>a, <4>1, OthersHold DEF TypeOK
      <4>3. Holds(Main, "qphy") /\ Holds(Main, "net") BY <1>3, <4>1 DEF Holds, Alive
      <4> QED BY <4>2, <4>3 DEF Lock
    <3> QED BY <1>3, <2>4, <3>1, NoNewHolder DEF Harvest, Deposit, Erase
  <2>5. CASE TickUnlocks
    <3>1. CASE Doing(Main, "tick", "leaving")
      <4>1. Release("net") /\ Goto(Main, "returned") /\ UNCHANGED job /\ job[Main] = "tick" /\ at[Main] = "leaving"
        BY <2>5, <3>1 DEF TickUnlocks, Doing, kernelVars
      <4>2. \A l \in Lock, c \in Ctx : Holds(c, l)' => Holds(c, l)
        BY <1>0, <1>3, <4>1 DEF Goto, TypeOK, Holds, UsesStack, MainStackJob, Alive, Lock
      <4>3. Holds(Main, "net") /\ ~Holds(Main, "net")'
        BY <1>0, <1>3, <1>a, <4>1 DEF Goto, TypeOK, Holds, UsesStack, MainStackJob, Alive
      <4> QED BY <1>a, <1>3, <4>1, <4>2, <4>3, GivesLock
    <3>2. CASE Doing(Main, "tick", "returned")
      <4>1. Release("qphy") /\ Finish(Main) /\ job[Main] = "tick" /\ at[Main] = "returned"
        BY <2>5, <3>2 DEF TickUnlocks, Doing
      <4>2. \A l \in Lock, c \in Ctx : Holds(c, l)' => Holds(c, l)
        <5>1. \A l \in Lock, c \in Ctx : c # Main => (Holds(c, l)' <=> Holds(c, l))
          BY <1>0, <1>3, <1>a, <4>1, OthersHold DEF Finish, TypeOK
        <5>2. at'[Main] = "ready" /\ job'[Main] # "panic"
          BY <1>0, <1>a, <4>1 DEF Finish, Following, TypeOK
        <5>3. ~Holds(Main, "qphy")' /\ ~Holds(Main, "net")' BY <5>2 DEF Holds
        <5> QED BY <5>1, <5>3 DEF Lock
      <4>3. Holds(Main, "qphy") /\ ~Holds(Main, "qphy")'
        BY <1>0, <1>3, <1>a, <4>1 DEF Finish, TypeOK, Holds, Alive
      <4> QED BY <1>a, <1>3, <4>1, <4>2, <4>3, GivesLock
    <3> QED BY <2>5, <3>1, <3>2 DEF TickUnlocks
  <2>6. ASSUME NEW d \in Ctx, StackStep(d) PROVE GuardsLock' /\ OneOwner'
    <3>1. CASE EnterStack(d)
      <4>1. Acquire("net") /\ Goto(d, "inside") /\ UNCHANGED job /\ UsesStack(d)
        BY <3>1 DEF EnterStack, kernelVars
      <4>2. \A l \in Lock, c \in Ctx : Holds(c, l)' => Holds(c, l) \/ (c = d /\ l = "net")
        <5>1. \A l \in Lock, c \in Ctx : c # d => (Holds(c, l)' <=> Holds(c, l))
          BY <1>0, <1>3, <4>1, OthersHold DEF Goto, TypeOK
        <5>2. ~Holds(d, "qphy")'
          BY <4>1 DEF Holds, UsesStack, MainStackJob, StackCall
        <5> QED BY <5>1, <5>2 DEF Lock
      <4> QED BY <1>a, <1>3, <4>1, <4>2, TakesLock
    <3>2. CASE UseStack(d)
      <4>1. \A l \in Lock, c \in Ctx : Holds(c, l)' => Holds(c, l)
        <5>1. job' = job /\ Goto(d, "leaving") /\ UsesStack(d) /\ at[d] = "inside"
          BY <3>2 DEF UseStack, Doing, kernelVars
        <5>2. \A l \in Lock, c \in Ctx : c # d => (Holds(c, l)' <=> Holds(c, l))
          BY <1>0, <1>3, <5>1, OthersHold DEF Goto, TypeOK
        <5>3. ~Holds(d, "qphy")'
          BY <5>1 DEF Holds, UsesStack, MainStackJob, StackCall
        <5>4. Holds(d, "net")
          BY <1>3, <5>1 DEF Holds, Alive
        <5> QED BY <5>2, <5>3, <5>4 DEF Lock
      <4> QED BY <1>3, <3>2, <4>1, NoNewHolder DEF UseStack
    <3>3. CASE LeaveStack(d)
      <4>1. Release("net") /\ Finish(d) /\ UsesStack(d) /\ at[d] = "leaving"
        BY <3>3 DEF LeaveStack, Doing
      <4>2. \A l \in Lock, c \in Ctx : Holds(c, l)' => Holds(c, l)
        <5>1. \A l \in Lock, c \in Ctx : c # d => (Holds(c, l)' <=> Holds(c, l))
          BY <1>0, <1>3, <4>1, OthersHold DEF Finish, TypeOK
        <5>2. at'[d] = "ready" /\ job'[d] \notin {"panic"}
          BY <1>0, <4>1 DEF Finish, Following, TypeOK, UsesStack, MainStackJob
        <5>3. ~Holds(d, "qphy")' /\ ~Holds(d, "net")' BY <5>2 DEF Holds
        <5> QED BY <5>1, <5>3 DEF Lock
      <4>3. Holds(d, "net") /\ ~Holds(d, "net")'
        BY <1>0, <1>3, <4>1 DEF Finish, TypeOK, Holds, UsesStack, MainStackJob, StackCall, Alive
      <4> QED BY <1>a, <1>3, <4>1, <4>2, <4>3, GivesLock
    <3> QED BY <2>6, <3>1, <3>2, <3>3 DEF StackStep
  <2>7. ASSUME NEW d \in Ctx, PanicStep(d) PROVE FALSE
    BY <1>0, <1>3, <2>7 DEF PanicStep, Handler, Wipe, Doing, PanicInv
  <2>8. ASSUME NEW d \in Ctx, Panic(d) PROVE FALSE
    BY <1>3, <2>8 DEF Panic
  <2>9. ASSUME NEW t \in Tasks, Syscall(t) PROVE GuardsLock' /\ OneOwner'
    BY <1>0, <1>3, <2>9, NoNewHolder
       DEF Syscall, Goto, Doing, TypeOK, Holds, UsesStack, Alive, Ctx, Lock, BufferCall
  <2>10. ASSUME NEW t \in Tasks, CallStep(t) PROVE GuardsLock' /\ OneOwner'
    <3>1. \A l \in Lock, c \in Ctx : Holds(c, l)' => Holds(c, l)
      <4>1. t \in Ctx /\ t # Main BY DEF Ctx
      <4>2. /\ \A c \in Ctx : c # t => job'[c] = job[c] /\ at'[c] = at[c]
            /\ job[t] \in BufferCall
            /\ job'[t] = "user" \/ (job'[t] = job[t] /\ at'[t] = "ready")
               \/ (job'[t] = "copy" /\ at'[t] = "inside")
        <5>1. CASE Validate(t)
          BY <1>0, <2>10, <4>1, <5>1 DEF Validate, Finish, Goto, TypeOK
        <5>2. CASE Copy(t)
          BY <1>0, <2>10, <4>1, <5>2 DEF Copy, Doing, Finish, TypeOK, BufferCall
        <5> QED BY <2>10, <5>1, <5>2 DEF CallStep
      <4>3. \A l \in Lock, c \in Ctx : c # t => (Holds(c, l)' <=> Holds(c, l))
        BY <1>3, <4>1, <4>2, OthersHold
      <4>4. ~Holds(t, "qphy")' /\ ~Holds(t, "net")'
        BY <4>1, <4>2 DEF Holds, UsesStack, StackCall, BufferCall
      <4> QED BY <4>3, <4>4 DEF Lock
    <3> QED BY <1>3, <2>10, <3>1, NoNewHolder DEF CallStep, Validate, Copy
  <2>11. ASSUME NEW d \in Ctx, Halted(d) PROVE GuardsLock' /\ OneOwner'
    BY <1>3, <2>11, NoNewHolder DEF Halted, vars, Holds, UsesStack, Alive
  <2> QED
    BY <1>3, <2>1, <2>2, <2>3, <2>4, <2>5, <2>6, <2>7, <2>8, <2>9, <2>10, <2>11 DEF Next, MainStep
<1>4. Next => panicked' \in Ctx \/ (panicked' = panicked /\ panicked = None)
  BY <1>0 DEF Next, MainStep, Boot, Wake, TickLocks, Harvest, Deposit, Erase, TickUnlocks, StackStep,
      EnterStack, UseStack, LeaveStack, PanicStep, Handler, Wipe, Panic, Halted, Syscall, CallStep,
      Validate, Copy, kernelVars, rest, vars, TypeOK
<1> QED BY <1>1, <1>2, <1>3, <1>4

(* Two contexts never have the driver or the stack at a time, however many *)
(* tasks make calls (SpinLock; emergency_zeroize).                         *)
THEOREM OneOwnerAlways == Spec => []OneOwner
<1>1. Init => LockInv BY InitLock
<1>2. LockInv /\ [Next]_vars => LockInv' BY NextLock
<1>3. LockInv => OneOwner BY DEF LockInv
<1> QED BY <1>1, <1>2, <1>3, PTL DEF Spec
-----------------------------------------------------------------------------
(* The check of user buffers.                                              *)

(* Both bounds of the image are stored before a task can make a call, and  *)
(* a call that got past the check was accepted with them.                  *)
ImageInv ==
    /\ job[Main] \notin {"user", "exit"}
    /\ job[Main] = "imageHi" => klo = ImageLo
    /\ job[Main] = "start" => klo = ImageLo /\ khi = ImageHi
    /\ started => klo = ImageLo /\ khi = ImageHi
    /\ job[Main] \in {"imageLo", "imageHi", "start"} => ~started
    /\ ~started => \A t \in Tasks : job[t] = "user"
    /\ \A t \in Tasks : job[t] \in BufferCall =>
          /\ seen[t] = ImageLo
          /\ at[t] # "check" => Accepts(buf[t], ImageLo, ImageHi)

LEMMA InitImage == Init => ImageInv
BY ContextAssumption DEF Init, ImageInv, Ctx, BufferCall

LEMMA NextImage == TypeOK /\ ImageInv /\ [Next]_vars => ImageInv'
<1> SUFFICES ASSUME TypeOK, ImageInv, [Next]_vars PROVE ImageInv' OBVIOUS
<1> USE ContextAssumption
<1>a. \A t \in Tasks : t \in Ctx /\ t # Main BY DEF Ctx
<1>b. Main \in Ctx BY DEF Ctx
<1>1. CASE UNCHANGED vars BY <1>1 DEF ImageInv, vars
<1>2. CASE Boot
  BY <1>a, <1>b, <1>2 DEF Boot, Finish, Following, Doing, TypeOK, ImageInv, BufferCall
<1>3. CASE Wake
  BY <1>a, <1>b, <1>3 DEF Wake, Finish, Following, Doing, TypeOK, ImageInv
<1>4. CASE TickLocks
  BY <1>a, <1>b, <1>4 DEF TickLocks, Goto, kernelVars, TypeOK, ImageInv
<1>5. CASE Harvest \/ Deposit \/ Erase
  BY <1>a, <1>b, <1>5 DEF Harvest, Deposit, Erase, Goto, kernelVars, TypeOK, ImageInv
<1>6. CASE TickUnlocks
  BY <1>a, <1>b, <1>6 DEF TickUnlocks, Finish, Following, Doing, Goto, kernelVars, TypeOK, ImageInv
<1>7. ASSUME NEW c \in Ctx, StackStep(c) PROVE ImageInv'
  <2>1. CASE EnterStack(c)
    BY <1>a, <2>1 DEF EnterStack, Doing, Goto, kernelVars, TypeOK, ImageInv
  <2>2. CASE UseStack(c)
    BY <1>a, <2>2 DEF UseStack, Doing, Goto, kernelVars, TypeOK, ImageInv
  <2>3. CASE LeaveStack(c) /\ c = Main
    BY <1>a, <1>b, <2>3 DEF LeaveStack, UsesStack, MainStackJob, Finish, Following, TypeOK, ImageInv
  <2>4. CASE LeaveStack(c) /\ c \in Tasks
    BY <1>a, <1>b, <2>4 DEF LeaveStack, UsesStack, Finish, TypeOK, ImageInv, BufferCall
  <2> QED BY <1>7, <2>1, <2>2, <2>3, <2>4 DEF StackStep, Ctx
<1>8. ASSUME NEW c \in Ctx, PanicStep(c) PROVE ImageInv'
  BY <1>a, <1>b, <1>8 DEF PanicStep, Handler, Wipe, Doing, Goto, rest, TypeOK, ImageInv, BufferCall
<1>9. ASSUME NEW c \in Ctx, Panic(c) PROVE ImageInv'
  BY <1>a, <1>b, <1>9 DEF Panic, Goto, rest, TypeOK, ImageInv, BufferCall
<1>10. ASSUME NEW t \in Tasks, Syscall(t) PROVE ImageInv'
  BY <1>a, <1>b, <1>10 DEF Syscall, Goto, Doing, TypeOK, ImageInv, BufferCall
<1>11. ASSUME NEW t \in Tasks, CallStep(t) PROVE ImageInv'
  <2>1. started /\ job[t] \in BufferCall
    BY <1>a, <1>11 DEF CallStep, Validate, Copy, Doing, ImageInv, BufferCall
  <2>2. CASE Validate(t) /\ Accepts(buf[t], seen[t], khi)
    BY <1>a, <1>b, <2>1, <2>2 DEF Validate, Goto, TypeOK, ImageInv
  <2>3. CASE Validate(t) /\ ~Accepts(buf[t], seen[t], khi)
    BY <1>a, <1>b, <2>1, <2>3 DEF Validate, Finish, TypeOK, ImageInv, BufferCall
  <2>4. CASE Copy(t)
    BY <1>a, <1>b, <2>1, <2>4 DEF Copy, Finish, TypeOK, ImageInv, BufferCall
  <2> QED BY <1>11, <2>2, <2>3, <2>4 DEF CallStep
<1>12. ASSUME NEW c \in Ctx, Halted(c) PROVE ImageInv'
  BY <1>12 DEF Halted, ImageInv, vars
<1> QED
  BY <1>1, <1>2, <1>3, <1>4, <1>5, <1>6, <1>7, <1>8, <1>9, <1>10, <1>11, <1>12
     DEF Next, MainStep

(* An accepted buffer lies in user space and outside of the image.         *)
LEMMA AcceptedIsOutside ==
    ASSUME NEW b \in [ptr : 0 .. MaxWord, size : 0 .. MaxWord], Accepts(b, ImageLo, ImageHi)
    PROVE  LET bytes == b.ptr .. b.ptr + b.size - 1
           IN  /\ bytes # {} /\ bytes \subseteq 1 .. UserVirtMax - 1
               /\ bytes \cap (ImageLo .. ImageHi - 1) = {}
<1> DEFINE bytes == b.ptr .. b.ptr + b.size - 1
<1>1. b.ptr \in Nat /\ b.size \in Nat /\ b.ptr > 0 /\ b.size > 0 /\ b.ptr + b.size <= UserVirtMax
  BY WordAssumption DEF Accepts
<1>2. b.ptr \in bytes BY <1>1
<1>3. bytes \subseteq 1 .. UserVirtMax - 1 BY <1>1, WordAssumption
<1>4. ASSUME NEW x \in bytes, x \in ImageLo .. ImageHi - 1 PROVE FALSE
  BY <1>1, <1>4, ImageAssumption, WordAssumption DEF Accepts
<1> QED BY <1>2, <1>3, <1>4

(* No call uses a buffer that touches the kernel image or leaves user      *)
(* space, for any image, buffer and width of a word, although the bounds   *)
(* are stored and loaded one after the other (validate_user_ptr).          *)
THEOREM ImageIsProtected == Spec => []ImageProtected
<1>1. Init => TypeOK /\ ImageInv BY InitType, InitImage
<1>2. TypeOK /\ ImageInv /\ [Next]_vars => (TypeOK /\ ImageInv)' BY NextType, NextImage
<1>3. TypeOK /\ ImageInv => ImageProtected
  <2> SUFFICES ASSUME TypeOK, ImageInv, NEW t \in Tasks, job[t] \in BufferCall, at[t] # "check"
               PROVE  LET bytes == buf[t].ptr .. buf[t].ptr + buf[t].size - 1
                      IN  /\ bytes # {} /\ bytes \subseteq 1 .. UserVirtMax - 1
                          /\ bytes \cap (ImageLo .. ImageHi - 1) = {}
    BY DEF ImageProtected
  <2> QED BY AcceptedIsOutside DEF TypeOK, ImageInv
<1> QED BY <1>1, <1>2, <1>3, PTL DEF Spec
=============================================================================
