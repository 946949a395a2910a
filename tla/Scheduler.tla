------------------------------ MODULE Scheduler ------------------------------
(***************************************************************************)
(* The task table of kernel/scheduler/src/lib.rs: round robin over a fixed *)
(* table, preempted by the timer and by tasks that block.                  *)
(*                                                                         *)
(* Every operation runs with interrupts off, so each is one action; the    *)
(* timer calls tick.  Registers and stacks are abstracted to whose         *)
(* execution they hold: exec runs on the CPU now, saved[i] is the context  *)
(* that slot i keeps.  Execution 0 is the boot code, which runs in         *)
(* kernel_main before any task does; a task's execution has its tid.       *)
(***************************************************************************)
EXTENDS Integers

CONSTANTS MaxTasks,         \* MAX_TASKS
          DefaultTimeslice  \* DEFAULT_TIMESLICE

ASSUME TableAssumption == MaxTasks \in Nat \ {0}
ASSUME SliceAssumption == DefaultTimeslice \in Nat \ {0}

VARIABLES table,    \* TASK_TABLE
          current,  \* CURRENT_IDX
          nextTid,  \* NEXT_TID
          exec,     \* whose execution the CPU runs
          saved,    \* saved[i]: whose execution slot i's CpuContext holds
          passed    \* history: dispatches that passed over slot i while it was Ready

vars == <<table, current, nextTid, exec, saved, passed>>

Slot == 0 .. MaxTasks - 1
Boot == 0
Task == [tid : Nat, state : {"Empty", "Ready", "Running", "Blocked"},
         timeslice : 1 .. DefaultTimeslice]

(* A task in some state with a full slice.                                 *)
FreshTask(tid, state) == [tid |-> tid, state |-> state, timeslice |-> DefaultTimeslice]

Ready(t) == {i \in Slot : t[i].state = "Ready"}

(* How many slots a search from the one after cur passes before slot i.    *)
Distance(cur, i) == IF i > cur THEN i - cur - 1 ELSE i - cur - 1 + MaxTasks

(* Faults: a search that does not wrap around, and one from slot 0.        *)
NextWithoutWrap(t, cur, i) ==
    i \in Ready(t) /\ i > cur /\ \A j \in Ready(t) : j > cur => i <= j
NextFromZero(t, cur, i) == i \in Ready(t) /\ \A j \in Ready(t) : i <= j

(* Slot i is the first Ready one after cur, cur itself coming last.        *)
NextReady(t, cur, i) ==
    /\ i \in Ready(t)
    /\ \A j \in Ready(t) : Distance(cur, i) <= Distance(cur, j)

(* A fault: the context is saved to the slot that is switched to.          *)
SwitchSavesToNext(prev, next) ==
    LET kept == [saved EXCEPT ![next] = exec]
    IN  saved' = kept /\ exec' = kept[next]

(* context_switch: what runs is saved for prev, what next kept runs.       *)
ContextSwitch(prev, next) ==
    LET kept == [saved EXCEPT ![prev] = exec]
    IN  saved' = kept /\ exec' = kept[next]

(* schedule, on a table t in which the current task does not run any more. *)
Dispatch(t) ==
    \E next \in Slot :
        /\ NextReady(t, current, next)
        /\ table' = [t EXCEPT ![next].state = "Running"]
        /\ current' = next
        /\ ContextSwitch(current, next)
        /\ passed' = [i \in Slot |-> IF i \in Ready(t) \ {next} THEN passed[i] + 1 ELSE 0]

(* schedule with nothing Ready: the code that called it goes on.           *)
NoDispatch(t) ==
    /\ \A i \in Slot : ~NextReady(t, current, i)
    /\ table' = t
    /\ UNCHANGED <<current, exec, saved, passed>>

Schedule(t) == Dispatch(t) \/ NoDispatch(t)

(***************************************************************************)
(* The operations.                                                         *)
(***************************************************************************)
FirstEmpty(i) ==
    table[i].state = "Empty" /\ \A j \in Slot : j < i => table[j].state # "Empty"

Spawn ==
    \/ /\ \E i \in Slot :
              /\ FirstEmpty(i)
              /\ table' = [table EXCEPT ![i] = FreshTask(nextTid, "Ready")]
              /\ saved' = [saved EXCEPT ![i] = nextTid]
       /\ nextTid' = nextTid + 1
       /\ UNCHANGED <<current, exec, passed>>
    \/ (\A i \in Slot : table[i].state # "Empty") /\ UNCHANGED vars

(* A fault: a task that stays Running when its slice expires.              *)
ExpiredStaysRunning(i) == [table EXCEPT ![i].timeslice = DefaultTimeslice]

(* The table once the slice of slot i has expired.                         *)
Expired(i) == [table EXCEPT ![i] = FreshTask(@.tid, "Ready")]

(* The timer interrupt.  It does nothing while the current slot is not     *)
(* Running: before the first dispatch, and in a task that blocked when     *)
(* nothing else was Ready.                                                 *)
Tick ==
    \/ /\ table[current].state = "Running"
       /\ \/ /\ table[current].timeslice > 1
             /\ table' = [table EXCEPT ![current].timeslice = @ - 1]
             /\ UNCHANGED <<current, exec, saved, passed>>
          \/ /\ table[current].timeslice = 1
             /\ Schedule(Expired(current))
       /\ UNCHANGED nextTid
    \/ table[current].state # "Running" /\ UNCHANGED vars

(* Whoever runs may block, also the boot code.                             *)
BlockCurrent ==
    /\ Schedule([table EXCEPT ![current].state = "Blocked"])
    /\ UNCHANGED nextTid

(* The first blocked slot with this tid (find: tids are unique anyway).    *)
Wakes(i, tid) ==
    /\ table[i].tid = tid /\ table[i].state = "Blocked"
    /\ \A j \in Slot : (j < i /\ table[j].tid = tid) => table[j].state # "Blocked"

Unblock(tid) ==
    \/ \E i \in Slot :
          /\ Wakes(i, tid)
          /\ table' = [table EXCEPT ![i].state = "Ready"]
          /\ UNCHANGED <<current, nextTid, exec, saved, passed>>
    \/ (\A i \in Slot : ~Wakes(i, tid)) /\ UNCHANGED vars

(***************************************************************************)
(* The specification.                                                      *)
(***************************************************************************)
Init ==
    /\ table = [i \in Slot |-> FreshTask(0, "Empty")]
    /\ current = 0
    /\ nextTid = 1
    /\ exec = Boot
    /\ saved = [i \in Slot |-> Boot]
    /\ passed = [i \in Slot |-> 0]

Next == Spawn \/ Tick \/ BlockCurrent \/ \E tid \in 0 .. MaxTasks : Unblock(tid)

Spec == Init /\ [][Next]_vars

(* The timer keeps interrupting.                                           *)
FairSpec == Spec /\ WF_vars(Tick)

(***************************************************************************)
(* Properties.                                                             *)
(***************************************************************************)

(* Type invariant: slices never run out unnoticed (timeslice is unsigned). *)
TypeOK ==
    /\ table \in [Slot -> Task]
    /\ current \in Slot
    /\ nextTid \in Nat
    /\ exec \in Nat
    /\ saved \in [Slot -> Nat]
    /\ passed \in [Slot -> Nat]

(* One CPU: no task but the current one is ever Running.                   *)
OnlyCurrentRuns == \A i \in Slot : table[i].state = "Running" => i = current

(* The boot code took slot 0: it called block_current before any spawn.    *)
(* (After a spawn, block_current blocks that task in its place.)           *)
BootHasSlot == table[0].tid = Boot /\ table[0].state # "Empty"

(* Every task goes on with its own registers and stack: what runs belongs  *)
(* to the current slot, and every other slot keeps its own task's context. *)
ContextsBelong ==
    BootHasSlot =>
        /\ exec = table[current].tid
        /\ \A i \in Slot \ {current} : table[i].state # "Empty" => saved[i] = table[i].tid

(* Round robin: a Ready task is passed over at most once by each other.    *)
BoundedWait == \A i \in Slot : passed[i] < MaxTasks

(* No starvation: while some task runs, a Ready task runs in the end.      *)
ReadyRuns ==
    \A i \in Slot :
        (table[i].state = "Ready" /\ \E j \in Slot : table[j].state = "Running")
            ~> table[i].state = "Running"
=============================================================================
