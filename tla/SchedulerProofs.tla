--------------------------- MODULE SchedulerProofs ---------------------------
(***************************************************************************)
(* Proofs about Scheduler for every size of the table and every slice.     *)
(***************************************************************************)
EXTENDS Scheduler, TLAPS

-----------------------------------------------------------------------------
(* The order in which slots are searched.                                  *)

LEMMA DistanceType ==
    ASSUME NEW cur \in Slot, NEW i \in Slot
    PROVE  Distance(cur, i) \in 0 .. MaxTasks - 1
BY TableAssumption DEF Distance, Slot

(* A slot that is searched after next is nearer to next than to cur.       *)
LEMMA DistanceFromNext ==
    ASSUME NEW cur \in Slot, NEW next \in Slot, NEW i \in Slot, i # next,
           Distance(cur, next) <= Distance(cur, i)
    PROVE  Distance(next, i) < Distance(cur, i)
BY TableAssumption DEF Distance, Slot

LEMMA FreshTaskType ==
    ASSUME NEW tid \in Nat, NEW state \in {"Empty", "Ready", "Running", "Blocked"}
    PROVE  /\ FreshTask(tid, state) \in Task
           /\ FreshTask(tid, state).state = state /\ FreshTask(tid, state).tid = tid
BY SliceAssumption DEF FreshTask, Task

-----------------------------------------------------------------------------
(* The inductive invariant, on a table t and a current slot cur.           *)

(* Until the boot code blocks or a task is spawned the table is empty.     *)
Untouched(t) ==
    t[0].state = "Empty" =>
        current = 0 /\ exec = Boot /\ \A i \in Slot : t[i].state = "Empty"

(* A slot has been passed over at most as often as there are slots between *)
(* it and the current one on the other side; others have not been passed.  *)
Waits(t, p, cur) ==
    \A i \in Slot :
        IF t[i].state = "Ready" /\ i # cur THEN p[i] + Distance(cur, i) < MaxTasks
        ELSE p[i] = 0

(* Whoever runs owns a slot, from the first block or spawn on.             *)
Occupied == table[0].state # "Empty" => table[current].state # "Empty"

Inv ==
    /\ TypeOK
    /\ Occupied
    /\ nextTid > 0
    /\ OnlyCurrentRuns
    /\ Untouched(table)
    /\ ContextsBelong
    /\ Waits(table, passed, current)

(* What schedule is called with: the table t of a task that stops running. *)
Stopped(t) ==
    /\ t \in [Slot -> Task]
    /\ \A i \in Slot : t[i].state # "Running" /\ t[i].tid = table[i].tid
    /\ \A i \in Slot \ {current} : t[i] = table[i]
    /\ t[current].state # "Empty"

LEMMA InitInv == Init => Inv
<1> SUFFICES ASSUME Init PROVE Inv OBVIOUS
<1>1. 0 \in Slot BY TableAssumption DEF Slot
<1>2. FreshTask(0, "Empty") \in Task BY FreshTaskType
<1>3. TypeOK BY <1>1, <1>2 DEF Init, TypeOK, Boot
<1>4. \A i \in Slot : table[i].state = "Empty" BY DEF Init, FreshTask
<1>5. nextTid > 0 /\ OnlyCurrentRuns /\ Untouched(table) /\ Waits(table, passed, current)
  BY <1>1, <1>4 DEF Init, OnlyCurrentRuns, Untouched, Waits
<1>6. ContextsBelong BY <1>1, <1>4 DEF ContextsBelong, BootHasSlot
<1>7. Occupied BY <1>1, <1>4 DEF Occupied
<1> QED BY <1>3, <1>5, <1>6, <1>7 DEF Inv

(* A dispatch starts the nearest Ready slot and lets the others come nearer.*)
LEMMA DispatchKeepsInv ==
    ASSUME Inv, NEW t, Stopped(t), Dispatch(t), nextTid' = nextTid
    PROVE  Inv'
<1>1. PICK next \in Slot :
          /\ NextReady(t, current, next)
          /\ table' = [t EXCEPT ![next].state = "Running"]
          /\ current' = next
          /\ ContextSwitch(current, next)
          /\ passed' = [i \in Slot |-> IF i \in Ready(t) \ {next} THEN passed[i] + 1 ELSE 0]
  BY DEF Dispatch
<1>2. /\ table \in [Slot -> Task] /\ t \in [Slot -> Task] /\ current \in Slot
      /\ passed \in [Slot -> Nat] /\ saved \in [Slot -> Nat] /\ exec \in Nat
  BY DEF Inv, TypeOK, Stopped
<1>3. /\ saved' = [saved EXCEPT ![current] = exec]
      /\ exec' = IF next = current THEN exec ELSE saved[next]
  BY <1>1, <1>2 DEF ContextSwitch
<1>4. \A i \in Slot : table'[i] = IF i = next THEN [t[i] EXCEPT !.state = "Running"] ELSE t[i]
  BY <1>1, <1>2
<1>5. TypeOK'
  <2>1. table' \in [Slot -> Task] BY <1>1, <1>2 DEF Task
  <2>2. passed' \in [Slot -> Nat] BY <1>1, <1>2
  <2>3. saved' \in [Slot -> Nat] /\ exec' \in Nat BY <1>2, <1>3
  <2> QED BY <1>1, <2>1, <2>2, <2>3 DEF Inv, TypeOK
<1>6. OnlyCurrentRuns' BY <1>1, <1>4 DEF OnlyCurrentRuns, Stopped
<1>7. \A i \in Slot : table'[i].tid = table[i].tid /\ (table'[i].state = "Empty" <=> t[i].state = "Empty")
  <2>1. t[next].state = "Ready" BY <1>1 DEF NextReady, Ready
  <2>2. \A i \in Slot : t[i] \in Task /\ t[i].tid = table[i].tid BY <1>2 DEF Stopped
  <2> QED BY <1>4, <2>1, <2>2 DEF Task
<1>8. Untouched(table)'
  <2>1. ASSUME table'[0].state = "Empty" PROVE FALSE
    <3>1. 0 \in Slot BY TableAssumption DEF Slot
    <3>2. t[0].state = "Empty" BY <1>7, <2>1, <3>1
    <3>3. current # 0 BY <3>2 DEF Stopped
    <3>4. table[0].state = "Empty" BY <3>1, <3>2, <3>3 DEF Stopped
    <3> QED BY <3>3, <3>4 DEF Inv, Untouched
  <2> QED BY <2>1 DEF Untouched
<1>9. ContextsBelong'
  <2>1. SUFFICES ASSUME BootHasSlot'
                 PROVE  /\ exec' = table'[next].tid
                        /\ \A i \in Slot \ {next} :
                               table'[i].state # "Empty" => saved'[i] = table'[i].tid
    BY <1>1 DEF ContextsBelong
  <2>2. 0 \in Slot BY TableAssumption DEF Slot
  <2>3. table[0].tid = Boot BY <1>7, <2>1, <2>2 DEF BootHasSlot
  <2>4. CASE table[0].state = "Empty"
    <3>1. current = 0 /\ exec = Boot /\ \A i \in Slot : table[i].state = "Empty"
      BY <2>4 DEF Inv, Untouched
    <3>2. \A i \in Slot : i # 0 => t[i].state = "Empty" BY <3>1 DEF Stopped
    <3>3. next = 0 BY <1>1, <3>2 DEF NextReady, Ready
    <3> QED BY <1>3, <1>7, <2>2, <2>3, <3>1, <3>2, <3>3
  <2>5. CASE table[0].state # "Empty"
    <3>1. BootHasSlot BY <2>3, <2>5 DEF BootHasSlot
    <3>2. /\ exec = table[current].tid
          /\ \A i \in Slot \ {current} : table[i].state # "Empty" => saved[i] = table[i].tid
      BY <3>1 DEF Inv, ContextsBelong
    <3>3. t[next].state # "Empty" BY <1>1 DEF NextReady, Ready
    <3>4. next # current => table[next].state # "Empty" BY <3>3 DEF Stopped
    <3>5. exec' = table'[next].tid BY <1>3, <1>7, <3>2, <3>4
    <3>6. ASSUME NEW i \in Slot \ {next}, table'[i].state # "Empty"
          PROVE  saved'[i] = table'[i].tid
      <4>1. CASE i = current BY <1>2, <1>3, <1>7, <3>2, <4>1
      <4>2. CASE i # current
        <5>1. table[i].state # "Empty" BY <1>7, <3>6, <4>2 DEF Stopped
        <5> QED BY <1>2, <1>3, <1>7, <3>2, <4>2, <5>1
      <4> QED BY <4>1, <4>2
    <3> QED BY <3>5, <3>6
  <2> QED BY <2>4, <2>5
<1>10. Waits(table, passed, current)'
  <2>1. ASSUME NEW i \in Slot
        PROVE  IF table'[i].state = "Ready" /\ i # next
               THEN passed'[i] + Distance(next, i) < MaxTasks ELSE passed'[i] = 0
    <3>1. CASE i \in Ready(t) \ {next}
      <4>1. passed'[i] = passed[i] + 1 BY <1>1, <3>1
      <4>2. Distance(next, i) < Distance(current, i)
        BY <1>1, <1>2, <3>1, DistanceFromNext DEF NextReady
      <4>3. Distance(next, i) \in Nat /\ Distance(current, i) \in 0 .. MaxTasks - 1
        BY <1>2, DistanceType, TableAssumption
      <4>4. passed[i] + Distance(current, i) < MaxTasks
        <5>1. CASE i = current
          <6>1. passed[i] = 0 BY <5>1 DEF Inv, Waits
          <6> QED BY <4>3, <6>1, TableAssumption
        <5>2. CASE i # current
          <6>1. table[i].state = "Ready" BY <3>1, <5>2 DEF Stopped, Ready
          <6> QED BY <5>2, <6>1 DEF Inv, Waits
        <5> QED BY <5>1, <5>2
      <4>5. table'[i].state = "Ready" BY <1>4, <3>1 DEF Ready
      <4>6. passed[i] \in Nat BY <1>2
      <4> QED BY <3>1, <4>1, <4>2, <4>3, <4>4, <4>5, <4>6, TableAssumption
    <3>2. CASE i \notin Ready(t) \ {next}
      <4>1. passed'[i] = 0 BY <1>1, <3>2
      <4>2. i # next => table'[i].state # "Ready" BY <1>4, <3>2 DEF Ready
      <4> QED BY <4>1, <4>2
    <3> QED BY <3>1, <3>2
  <2> QED BY <1>1, <2>1 DEF Waits
<1>11. nextTid' > 0 BY DEF Inv
<1>12. Occupied'
  <2>1. t[next] \in Task BY <1>2
  <2>2. table'[next].state = "Running" BY <1>4, <2>1 DEF Task
  <2> QED BY <1>1, <2>2 DEF Occupied
<1> QED BY <1>5, <1>6, <1>8, <1>9, <1>10, <1>11, <1>12 DEF Inv

(* Without a dispatch only the state of the current slot has changed.      *)
LEMMA NoDispatchKeepsInv ==
    ASSUME Inv, NEW t, Stopped(t), NoDispatch(t), nextTid' = nextTid
    PROVE  Inv'
<1>1. table' = t /\ UNCHANGED <<current, exec, saved, passed>> BY DEF NoDispatch
<1>2. current \in Slot BY DEF Inv, TypeOK
<1>3. TypeOK' BY <1>1 DEF Inv, TypeOK, Stopped
<1>4. OnlyCurrentRuns' BY <1>1 DEF OnlyCurrentRuns, Stopped
<1>5. \A i \in Slot : t[i].tid = table[i].tid BY DEF Stopped
<1>6. 0 \in Slot BY TableAssumption DEF Slot
<1>7. Untouched(table)'
  <2>1. ASSUME t[0].state = "Empty" PROVE FALSE
    <3>1. current # 0 BY <2>1 DEF Stopped
    <3>2. table[0].state = "Empty" BY <1>6, <2>1, <3>1 DEF Stopped
    <3> QED BY <3>1, <3>2 DEF Inv, Untouched
  <2> QED BY <1>1, <2>1 DEF Untouched
<1>8. ContextsBelong'
  <2>1. SUFFICES ASSUME t[0].tid = Boot
                 PROVE  /\ exec = t[current].tid
                        /\ \A i \in Slot \ {current} :
                               t[i].state # "Empty" => saved[i] = t[i].tid
    BY <1>1 DEF ContextsBelong, BootHasSlot
  <2>2. CASE table[0].state = "Empty"
    <3>1. current = 0 /\ exec = Boot /\ \A i \in Slot : table[i].state = "Empty"
      BY <2>2 DEF Inv, Untouched
    <3> QED BY <2>1, <3>1 DEF Stopped
  <2>3. CASE table[0].state # "Empty"
    <3>1. BootHasSlot BY <1>5, <1>6, <2>1, <2>3 DEF BootHasSlot
    <3>2. /\ exec = table[current].tid
          /\ \A i \in Slot \ {current} : table[i].state # "Empty" => saved[i] = table[i].tid
      BY <3>1 DEF Inv, ContextsBelong
    <3> QED BY <1>2, <1>5, <3>2 DEF Stopped
  <2> QED BY <2>2, <2>3
<1>9. Waits(table, passed, current)'
  BY <1>1, <1>2 DEF Inv, Waits, Stopped
<1>10. nextTid' > 0 BY DEF Inv
<1>11. Occupied' BY <1>1 DEF Occupied, Stopped
<1> QED BY <1>3, <1>4, <1>7, <1>8, <1>9, <1>10, <1>11 DEF Inv

LEMMA SpawnKeepsInv ==
    ASSUME Inv, NEW i \in Slot, FirstEmpty(i),
           table' = [table EXCEPT ![i] = FreshTask(nextTid, "Ready")],
           saved' = [saved EXCEPT ![i] = nextTid],
           nextTid' = nextTid + 1,
           UNCHANGED <<current, exec, passed>>
    PROVE  Inv'
<1> DEFINE new == FreshTask(nextTid, "Ready")
<1>1. /\ table \in [Slot -> Task] /\ saved \in [Slot -> Nat] /\ nextTid \in Nat
      /\ nextTid > 0 /\ current \in Slot /\ 0 \in Slot
  BY TableAssumption DEF Inv, TypeOK, Slot
<1>2. new \in Task /\ new.state = "Ready" /\ new.tid = nextTid
  BY <1>1, FreshTaskType
<1>3. \A j \in Slot : table'[j] = IF j = i THEN new ELSE table[j] BY <1>1
<1>4. table[i].state = "Empty" BY DEF FirstEmpty
<1> HIDE DEF new
<1>5. TypeOK'
  <2>1. table' \in [Slot -> Task] BY <1>1, <1>2 DEF new
  <2> QED BY <1>1, <2>1 DEF Inv, TypeOK
<1>6. OnlyCurrentRuns' BY <1>2, <1>3 DEF Inv, OnlyCurrentRuns
<1>7. table'[0].state # "Empty"
  <2>1. i = 0 \/ table[0].state # "Empty"
    BY <1>1, TableAssumption DEF FirstEmpty, Slot
  <2> QED BY <1>1, <1>2, <1>3, <2>1
<1>8. Untouched(table)' BY <1>7 DEF Untouched
<1>9. ContextsBelong'
  <2>1. SUFFICES ASSUME table'[0].tid = Boot
                 PROVE  /\ exec = table'[current].tid
                        /\ \A j \in Slot \ {current} :
                               table'[j].state # "Empty" => saved'[j] = table'[j].tid
    BY DEF ContextsBelong, BootHasSlot
  <2>2. i # 0 /\ table[0].tid = Boot BY <1>1, <1>2, <1>3, <2>1 DEF Boot
  <2>3. BootHasSlot BY <1>1, <1>3, <1>7, <2>2 DEF BootHasSlot
  <2>4. /\ exec = table[current].tid
        /\ \A j \in Slot \ {current} : table[j].state # "Empty" => saved[j] = table[j].tid
    BY <2>3 DEF Inv, ContextsBelong
  <2>5. ASSUME i = current PROVE FALSE
    \* The current slot is not Empty once the boot code has slot 0.
    BY <1>4, <2>3, <2>5 DEF Inv, Occupied, BootHasSlot
  <2> QED BY <1>1, <1>2, <1>3, <2>4, <2>5
<1>10. Waits(table, passed, current)'
  <2>1. \A j \in Slot : passed[j] + Distance(current, j) < MaxTasks \/ table[j].state # "Empty"
    <3>1. SUFFICES ASSUME NEW j \in Slot, table[j].state = "Empty"
                   PROVE  passed[j] + Distance(current, j) < MaxTasks
      OBVIOUS
    <3>2. passed[j] = 0 BY <3>1 DEF Inv, Waits
    <3> QED BY <1>1, <3>2, DistanceType, TableAssumption
  <2>2. passed[i] = 0 BY <1>4 DEF Inv, Waits
  <2> QED BY <1>1, <1>2, <1>3, <1>4, <2>1, <2>2 DEF Inv, Waits
<1>11. Occupied' BY <1>1, <1>2, <1>3, <1>7 DEF Inv, Occupied, Untouched
<1>12. nextTid' > 0 BY <1>1
<1> QED BY <1>5, <1>6, <1>8, <1>9, <1>10, <1>11, <1>12 DEF Inv

LEMMA UnblockKeepsInv ==
    ASSUME Inv, NEW i \in Slot, table[i].state = "Blocked",
           table' = [table EXCEPT ![i].state = "Ready"],
           UNCHANGED <<current, nextTid, exec, saved, passed>>
    PROVE  Inv'
<1>1. /\ table \in [Slot -> Task] /\ current \in Slot /\ 0 \in Slot
      /\ passed \in [Slot -> Nat]
  BY TableAssumption DEF Inv, TypeOK, Slot
<1>2. \A j \in Slot : /\ table'[j].tid = table[j].tid
                      /\ table'[j].state = IF j = i THEN "Ready" ELSE table[j].state
  BY <1>1 DEF Task
<1>3. TypeOK' BY <1>1 DEF Inv, TypeOK, Task
<1>4. OnlyCurrentRuns' BY <1>2 DEF Inv, OnlyCurrentRuns
<1>5. Untouched(table)' BY <1>1, <1>2 DEF Inv, Untouched
<1>6. ContextsBelong' BY <1>1, <1>2 DEF Inv, ContextsBelong, BootHasSlot
<1>7. Waits(table, passed, current)'
  <2>1. passed[i] = 0 BY DEF Inv, Waits
  <2>2. passed[i] + Distance(current, i) < MaxTasks
    BY <1>1, <2>1, DistanceType, TableAssumption
  <2> QED BY <1>1, <1>2, <2>1, <2>2 DEF Inv, Waits
<1>8. Occupied' BY <1>1, <1>2 DEF Inv, Occupied
<1> QED BY <1>3, <1>4, <1>5, <1>6, <1>7, <1>8 DEF Inv

(* A slice that goes on.                                                   *)
LEMMA SliceKeepsInv ==
    ASSUME Inv, table[current].timeslice > 1,
           table' = [table EXCEPT ![current].timeslice = @ - 1],
           UNCHANGED <<current, nextTid, exec, saved, passed>>
    PROVE  Inv'
<1>1. table \in [Slot -> Task] /\ current \in Slot /\ 0 \in Slot
  BY TableAssumption DEF Inv, TypeOK, Slot
<1>2. \A j \in Slot : table'[j].tid = table[j].tid /\ table'[j].state = table[j].state
  BY <1>1 DEF Task
<1>3. table[current].timeslice \in 1 .. DefaultTimeslice BY <1>1 DEF Task
<1>4. table[current].timeslice - 1 \in 1 .. DefaultTimeslice BY <1>3, SliceAssumption
<1>5. TypeOK'
  <2>1. table' \in [Slot -> Task] BY <1>1, <1>4 DEF Task
  <2> QED BY <2>1 DEF Inv, TypeOK
<1>6. OnlyCurrentRuns' /\ Untouched(table)' /\ Occupied'
  BY <1>1, <1>2 DEF Inv, OnlyCurrentRuns, Untouched, Occupied
<1>7. ContextsBelong' BY <1>1, <1>2 DEF Inv, ContextsBelong, BootHasSlot
<1>8. Waits(table, passed, current)' BY <1>2 DEF Inv, Waits
<1> QED BY <1>5, <1>6, <1>7, <1>8 DEF Inv

(* What tick and block_current do to the current slot before schedule.     *)
LEMMA StopsCurrent ==
    ASSUME Inv, NEW t, t \in [Slot -> Task],
           \A i \in Slot \ {current} : t[i] = table[i],
           t[current].tid = table[current].tid, t[current].state \in {"Ready", "Blocked"}
    PROVE  Stopped(t)
BY DEF Inv, Stopped, OnlyCurrentRuns, TypeOK

LEMMA ScheduleKeepsInv ==
    ASSUME Inv, NEW t, Stopped(t), Schedule(t), nextTid' = nextTid
    PROVE  Inv'
BY DispatchKeepsInv, NoDispatchKeepsInv DEF Schedule

LEMMA StepInv == Inv /\ [Next]_vars => Inv'
<1> SUFFICES ASSUME Inv, [Next]_vars PROVE Inv' OBVIOUS
<1>1. table \in [Slot -> Task] /\ current \in Slot BY DEF Inv, TypeOK
<1>2. CASE UNCHANGED vars
  <2>1. UNCHANGED <<table, current, nextTid, exec, saved, passed>> BY <1>2 DEF vars
  <2> QED BY <2>1 DEF Inv, TypeOK, OnlyCurrentRuns, Untouched, ContextsBelong, BootHasSlot,
                       Waits, Occupied
<1>3. CASE Spawn BY <1>2, <1>3, SpawnKeepsInv DEF Spawn
<1>4. CASE Tick
  <2>1. CASE /\ table[current].timeslice > 1
             /\ table' = [table EXCEPT ![current].timeslice = @ - 1]
             /\ UNCHANGED <<current, exec, saved, passed>>
             /\ UNCHANGED nextTid
    BY <2>1, SliceKeepsInv
  <2>2. CASE Schedule(Expired(current)) /\ UNCHANGED nextTid
    <3>1. /\ Expired(current) \in [Slot -> Task]
          /\ \A i \in Slot \ {current} : Expired(current)[i] = table[i]
          /\ Expired(current)[current].tid = table[current].tid
          /\ Expired(current)[current].state = "Ready"
      <4>1. table[current] \in Task /\ table[current].tid \in Nat BY <1>1 DEF Task
      <4> QED BY <1>1, <4>1, FreshTaskType DEF Expired
    <3>2. Stopped(Expired(current)) BY <3>1, StopsCurrent
    <3> QED BY <2>2, <3>2, ScheduleKeepsInv
  <2> QED BY <1>2, <1>4, <2>1, <2>2 DEF Tick
<1>5. CASE BlockCurrent
  <2> DEFINE t == [table EXCEPT ![current].state = "Blocked"]
  <2>1. /\ t \in [Slot -> Task] /\ \A i \in Slot \ {current} : t[i] = table[i]
        /\ t[current].tid = table[current].tid /\ t[current].state = "Blocked"
    BY <1>1 DEF Task
  <2>2. Schedule(t) /\ UNCHANGED nextTid BY <1>5 DEF BlockCurrent
  <2> HIDE DEF t
  <2>3. Stopped(t) BY <2>1, StopsCurrent
  <2> QED BY <2>2, <2>3, ScheduleKeepsInv
<1>6. ASSUME NEW tid \in 0 .. MaxTasks, Unblock(tid) PROVE Inv'
  BY <1>2, <1>6, UnblockKeepsInv DEF Unblock, Wakes
<1> QED BY <1>2, <1>3, <1>4, <1>5, <1>6 DEF Next

-----------------------------------------------------------------------------
(* The results.                                                            *)

THEOREM Invariance == Spec => []Inv
BY InitInv, StepInv, PTL DEF Spec

(* The task table is well typed; no slice is 0 between two ticks.          *)
THEOREM TypeCorrect == Spec => []TypeOK
<1>1. Inv => TypeOK BY DEF Inv
<1> QED BY <1>1, Invariance, PTL

(* No two tasks run: tick and block_current stop one before the next.      *)
THEOREM MutualExclusion == Spec => []OnlyCurrentRuns
<1>1. Inv => OnlyCurrentRuns BY DEF Inv
<1> QED BY <1>1, Invariance, PTL

(* context_switch never mixes up the contexts of two tasks.                *)
THEOREM ContextsStay == Spec => []ContextsBelong
<1>1. Inv => ContextsBelong BY DEF Inv
<1> QED BY <1>1, Invariance, PTL

(* Round robin: a Ready task waits for MaxTasks - 1 dispatches at most.    *)
THEOREM BoundedWaiting == Spec => []BoundedWait
<1>1. Inv => BoundedWait
  <2>1. ASSUME Inv, NEW i \in Slot PROVE passed[i] < MaxTasks
    <3>1. current \in Slot /\ passed[i] \in Nat BY <2>1 DEF Inv, TypeOK
    <3>2. Distance(current, i) \in 0 .. MaxTasks - 1 BY <3>1, DistanceType
    <3> QED BY <2>1, <3>1, <3>2, TableAssumption DEF Inv, Waits
  <2> QED BY <2>1 DEF BoundedWait
<1> QED BY <1>1, Invariance, PTL
=============================================================================
