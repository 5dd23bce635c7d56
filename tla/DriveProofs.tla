---------------------------- MODULE DriveProofs ----------------------------
(***************************************************************************)
(* Proof that IInv is an invariant of Drive for every number of chunks,    *)
(* every set of executors and every schedule, and that the safety          *)
(* properties of drive follow from it.                                     *)
(*                                                                         *)
(* One lemma per action shows that the action preserves IInv, one step per *)
(* conjunct.  Task and Index stay folded except in TaskIndex, which states *)
(* the arithmetic of indices once.                                         *)
(***************************************************************************)
EXTENDS DriveInvariant, TLAPS

(* Indices of the call are natural numbers below num_chunks.              *)
LEMMA TaskIndex ==
    ASSUME TypeOK
    PROVE  /\ Task \subseteq Index
           /\ \A j \in Task : j \in Nat /\ j < num_chunks
           /\ \A j \in Nat : j < num_chunks => j \in Task
           /\ num_chunks \in Nat /\ cursor \in Nat
  BY MaxChunksAssumption DEF TypeOK, Task, Index

(* The results of a complete call form a sequence of indices.             *)
LEMMA IndexSeq ==
    ASSUME NEW n \in 0 .. MaxChunks
    PROVE  [k \in 1 .. n |-> k - 1] \in Seq(Index)
  BY MaxChunksAssumption DEF Index


(* results.push(n) extends the results of 0 .. n-1 in index order.        *)
LEMMA AppendIndex ==
    ASSUME NEW n \in Nat
    PROVE  Append([k \in 1 .. n |-> k - 1], n) = [k \in 1 .. n + 1 |-> k - 1]
  <1> DEFINE s == [k \in 1 .. n |-> k - 1]
  <1>1. s \in Seq(Int) /\ Len(s) = n
    OBVIOUS
  <1>2. Append(s, n) = [k \in 1 .. n + 1 |-> IF k = n + 1 THEN n ELSE s[k]]
    BY <1>1
  <1> QED
    BY <1>2

-----------------------------------------------------------------------------
(* The executor starts an index that was never started. *)
LEMMA InvokeInv ==
    ASSUME IInv, NEW i \in Task, Invoke(i)
    PROVE  IInv'
  <1>1. /\ TypeOK
        /\ Task \subseteq Index
        /\ Task' = Task
    BY TaskIndex DEF IInv, Task, Invoke, Invocable, callVars
  <1>2. executor # Null /\ executor' = executor
    BY <1>1 DEF IInv, Control, OnExecutor, OnThreads, Invoke, Invocable,
       callVars
  <1>3. TypeOK'
    BY <1>1, <1>2, MaxChunksAssumption DEF TypeOK, Invoke, Invocable,
       callVars, bufferVars, valueVars, exitVars, InFlight, Panicked,
       TaskState, Place, Terminal, OnExecutor, OnThreads, Working, OtherPanic
  <1>4. Untouched'
    BY <1>1, <1>2 DEF IInv, Untouched, TypeOK, Invoke, Invocable, callVars,
       bufferVars, valueVars, exitVars
  <1>5. Lives'
    <2> SUFFICES ASSUME NEW j \in Task
                 PROVE  LifeOf(j)'
      BY <1>1, <1>2 DEF Lives
    <2> QED
      BY <1>1, <1>2 DEF IInv, Lives, LifeOf, Produced, TypeOK, Invoke,
         Invocable, callVars, bufferVars, valueVars, exitVars, ExecutorPath,
         ExecutorTask
  <1>6. Fresh'
    BY <1>1, <1>2 DEF IInv, Fresh, Invoke, Invocable, callVars, bufferVars,
       valueVars, exitVars
  <1>7. Control'
    BY <1>1, <1>2, MaxChunksAssumption DEF IInv, Control, TypeOK,
       OnExecutor, OnThreads, Invoke, Invocable, callVars, bufferVars,
       valueVars, exitVars
  <1>8. Collected'
    BY <1>1, <1>2 DEF IInv, Collected, Control, TypeOK, Invoke, Invocable,
       callVars, bufferVars, valueVars, exitVars
  <1>9. ExecutorPath'
    <2>1. ExecutorCall'
      BY <1>1, <1>2, PayloadAssumption DEF IInv, ExecutorPath, ExecutorCall,
         ExecutorTask, TypeOK, OnExecutor, OtherPanic, Invoke, Invocable,
         callVars, bufferVars, valueVars, exitVars
    <2>2. ASSUME NEW j \in Task
          PROVE  ExecutorTask(j)'
      BY <1>1, <1>2, PayloadAssumption DEF IInv, ExecutorPath, ExecutorTask,
         ExecutorCall, TypeOK, InFlight, Invoke, Invocable, callVars,
         bufferVars, valueVars, exitVars
    <2> QED
      BY <1>1, <1>2, <2>1, <2>2 DEF ExecutorPath
  <1>10. ExecutorPayload'
    BY <1>1, <1>2, PayloadAssumption DEF IInv, ExecutorPayload,
       ExecutorPath, ExecutorCall, TypeOK, OtherPanic, Index, Invoke,
       Invocable, callVars, bufferVars, valueVars, exitVars
  <1>11. ScopedPath'
    BY <1>1, <1>2 DEF ScopedPath
  <1>12. ReturnsAllResultsInOrder'
    BY <1>1, <1>2 DEF IInv, ReturnsAllResultsInOrder, Control, Collected,
       ExecutorPath, ExecutorTask, ScopedPath, ScopedTask, Lives, LifeOf,
       Produced, TypeOK, Invoke, Invocable, callVars, bufferVars, valueVars,
       exitVars
  <1> QED
    BY <1>3, <1>4, <1>5, <1>6, <1>7, <1>8, <1>9, <1>10, <1>11, <1>12 DEF
       IInv

(* catch_unwind comes back: a value in hand, or a payload. *)
LEMMA RunCaughtInv ==
    ASSUME IInv, NEW i \in Task, RunCaught(i)
    PROVE  IInv'
  <1>1. /\ TypeOK
        /\ Task \subseteq Index
        /\ Task' = Task
    BY TaskIndex DEF IInv, Task, RunCaught, callVars
  <1>2. executor # Null /\ executor' = executor
    BY <1>1 DEF IInv, Control, OnExecutor, OnThreads, RunCaught, callVars
  <1>3. TypeOK'
    BY <1>1, <1>2, MaxChunksAssumption DEF TypeOK, RunCaught, callVars,
       bufferVars, valueVars, exitVars, InFlight, Panicked, TaskState, Place,
       Terminal, OnExecutor, OnThreads, Working, OtherPanic
  <1>4. Untouched'
    BY <1>1, <1>2 DEF IInv, Untouched, TypeOK, RunCaught, callVars,
       bufferVars, valueVars, exitVars
  <1>5. Lives'
    <2> SUFFICES ASSUME NEW j \in Task
                 PROVE  LifeOf(j)'
      BY <1>1, <1>2 DEF Lives
    <2> QED
      BY <1>1, <1>2 DEF IInv, Lives, LifeOf, Produced, TypeOK, RunCaught,
         callVars, bufferVars, valueVars, exitVars, ExecutorPath, ExecutorTask
  <1>6. Fresh'
    BY <1>1, <1>2 DEF IInv, Fresh, RunCaught, callVars, bufferVars,
       valueVars, exitVars
  <1>7. Control'
    BY <1>1, <1>2, MaxChunksAssumption DEF IInv, Control, TypeOK,
       OnExecutor, OnThreads, RunCaught, callVars, bufferVars, valueVars,
       exitVars
  <1>8. Collected'
    BY <1>1, <1>2 DEF IInv, Collected, Control, TypeOK, RunCaught, callVars,
       bufferVars, valueVars, exitVars
  <1>9. ExecutorPath'
    <2>1. ExecutorCall'
      BY <1>1, <1>2, PayloadAssumption DEF IInv, ExecutorPath, ExecutorCall,
         ExecutorTask, TypeOK, OnExecutor, OtherPanic, RunCaught, callVars,
         bufferVars, valueVars, exitVars
    <2>2. ASSUME NEW j \in Task
          PROVE  ExecutorTask(j)'
      BY <1>1, <1>2, PayloadAssumption DEF IInv, ExecutorPath, ExecutorTask,
         ExecutorCall, TypeOK, InFlight, RunCaught, callVars, bufferVars,
         valueVars, exitVars
    <2> QED
      BY <1>1, <1>2, <2>1, <2>2 DEF ExecutorPath
  <1>10. ExecutorPayload'
    BY <1>1, <1>2, PayloadAssumption DEF IInv, ExecutorPayload,
       ExecutorPath, ExecutorCall, TypeOK, OtherPanic, Index, RunCaught,
       callVars, bufferVars, valueVars, exitVars
  <1>11. ScopedPath'
    BY <1>1, <1>2 DEF ScopedPath
  <1>12. ReturnsAllResultsInOrder'
    BY <1>1, <1>2 DEF IInv, ReturnsAllResultsInOrder, Control, Collected,
       ExecutorPath, ExecutorTask, ScopedPath, ScopedTask, Lives, LifeOf,
       Produced, TypeOK, RunCaught, callVars, bufferVars, valueVars, exitVars
  <1> QED
    BY <1>3, <1>4, <1>5, <1>6, <1>7, <1>8, <1>9, <1>10, <1>11, <1>12 DEF
       IInv

(* The value moves from the task to its slot of the buffer. *)
LEMMA WriteSlotInv ==
    ASSUME IInv, NEW i \in Task, WriteSlot(i)
    PROVE  IInv'
  <1>1. /\ TypeOK
        /\ Task \subseteq Index
        /\ Task' = Task
    BY TaskIndex DEF IInv, Task, WriteSlot, callVars
  <1>2. executor # Null /\ executor' = executor /\ pc = "execute"
    BY <1>1 DEF IInv, ScopedPath, ScopedTask, ExecutorPath, ExecutorTask,
       InFlight, WriteSlot, callVars
  <1>3. TypeOK'
    BY <1>1, <1>2, MaxChunksAssumption DEF TypeOK, WriteSlot, callVars,
       bufferVars, valueVars, exitVars, InFlight, Panicked, TaskState, Place,
       Terminal, OnExecutor, OnThreads, Working, OtherPanic
  <1>4. Untouched'
    BY <1>1, <1>2 DEF IInv, Untouched, TypeOK, WriteSlot, callVars,
       bufferVars, valueVars, exitVars
  <1>5. Lives'
    <2> SUFFICES ASSUME NEW j \in Task
                 PROVE  LifeOf(j)'
      BY <1>1, <1>2 DEF Lives
    <2> QED
      BY <1>1, <1>2 DEF IInv, Lives, LifeOf, Produced, TypeOK, WriteSlot,
         callVars, bufferVars, valueVars, exitVars, ExecutorPath, ExecutorTask
  <1>6. Fresh'
    BY <1>1, <1>2 DEF IInv, Fresh, WriteSlot, callVars, bufferVars,
       valueVars, exitVars
  <1>7. Control'
    BY <1>1, <1>2, MaxChunksAssumption DEF IInv, Control, TypeOK,
       OnExecutor, OnThreads, WriteSlot, callVars, bufferVars, valueVars,
       exitVars
  <1>8. Collected'
    BY <1>1, <1>2 DEF IInv, Collected, Control, TypeOK, WriteSlot, callVars,
       bufferVars, valueVars, exitVars
  <1>9. ExecutorPath'
    <2>1. ExecutorCall'
      BY <1>1, <1>2, PayloadAssumption DEF IInv, ExecutorPath, ExecutorCall,
         ExecutorTask, TypeOK, OnExecutor, OtherPanic, WriteSlot, callVars,
         bufferVars, valueVars, exitVars
    <2>2. ASSUME NEW j \in Task
          PROVE  ExecutorTask(j)'
      BY <1>1, <1>2, PayloadAssumption DEF IInv, ExecutorPath, ExecutorTask,
         ExecutorCall, TypeOK, InFlight, WriteSlot, callVars, bufferVars,
         valueVars, exitVars
    <2> QED
      BY <1>1, <1>2, <2>1, <2>2 DEF ExecutorPath
  <1>10. ExecutorPayload'
    BY <1>1, <1>2, PayloadAssumption DEF IInv, ExecutorPayload,
       ExecutorPath, ExecutorCall, TypeOK, OtherPanic, Index, WriteSlot,
       callVars, bufferVars, valueVars, exitVars
  <1>11. ScopedPath'
    BY <1>1, <1>2 DEF ScopedPath
  <1>12. ReturnsAllResultsInOrder'
    BY <1>1, <1>2 DEF IInv, ReturnsAllResultsInOrder, Control, Collected,
       ExecutorPath, ExecutorTask, ScopedPath, ScopedTask, Lives, LifeOf,
       Produced, TypeOK, WriteSlot, callVars, bufferVars, valueVars, exitVars
  <1> QED
    BY <1>3, <1>4, <1>5, <1>6, <1>7, <1>8, <1>9, <1>10, <1>11, <1>12 DEF
       IInv

(* The flag follows the write, so it marks an initialised slot. *)
LEMMA SetFlagInv ==
    ASSUME IInv, NEW i \in Task, SetFlag(i)
    PROVE  IInv'
  <1>1. /\ TypeOK
        /\ Task \subseteq Index
        /\ Task' = Task
    BY TaskIndex DEF IInv, Task, SetFlag, callVars
  <1>2. executor # Null /\ executor' = executor /\ pc = "execute"
    BY <1>1 DEF IInv, ScopedPath, ScopedTask, ExecutorPath, ExecutorTask,
       InFlight, SetFlag, callVars
  <1>3. TypeOK'
    BY <1>1, <1>2, MaxChunksAssumption DEF TypeOK, SetFlag, callVars,
       bufferVars, valueVars, exitVars, InFlight, Panicked, TaskState, Place,
       Terminal, OnExecutor, OnThreads, Working, OtherPanic
  <1>4. Untouched'
    BY <1>1, <1>2 DEF IInv, Untouched, TypeOK, SetFlag, callVars,
       bufferVars, valueVars, exitVars
  <1>5. Lives'
    <2> SUFFICES ASSUME NEW j \in Task
                 PROVE  LifeOf(j)'
      BY <1>1, <1>2 DEF Lives
    <2> QED
      BY <1>1, <1>2 DEF IInv, Lives, LifeOf, Produced, TypeOK, SetFlag,
         callVars, bufferVars, valueVars, exitVars, ExecutorPath, ExecutorTask
  <1>6. Fresh'
    BY <1>1, <1>2 DEF IInv, Fresh, SetFlag, callVars, bufferVars, valueVars,
       exitVars
  <1>7. Control'
    BY <1>1, <1>2, MaxChunksAssumption DEF IInv, Control, TypeOK,
       OnExecutor, OnThreads, SetFlag, callVars, bufferVars, valueVars,
       exitVars
  <1>8. Collected'
    BY <1>1, <1>2 DEF IInv, Collected, Control, TypeOK, SetFlag, callVars,
       bufferVars, valueVars, exitVars
  <1>9. ExecutorPath'
    <2>1. ExecutorCall'
      BY <1>1, <1>2, PayloadAssumption DEF IInv, ExecutorPath, ExecutorCall,
         ExecutorTask, TypeOK, OnExecutor, OtherPanic, SetFlag, callVars,
         bufferVars, valueVars, exitVars
    <2>2. ASSUME NEW j \in Task
          PROVE  ExecutorTask(j)'
      BY <1>1, <1>2, PayloadAssumption DEF IInv, ExecutorPath, ExecutorTask,
         ExecutorCall, TypeOK, InFlight, SetFlag, callVars, bufferVars,
         valueVars, exitVars
    <2> QED
      BY <1>1, <1>2, <2>1, <2>2 DEF ExecutorPath
  <1>10. ExecutorPayload'
    BY <1>1, <1>2, PayloadAssumption DEF IInv, ExecutorPayload,
       ExecutorPath, ExecutorCall, TypeOK, OtherPanic, Index, SetFlag,
       callVars, bufferVars, valueVars, exitVars
  <1>11. ScopedPath'
    BY <1>1, <1>2 DEF ScopedPath
  <1>12. ReturnsAllResultsInOrder'
    BY <1>1, <1>2 DEF IInv, ReturnsAllResultsInOrder, Control, Collected,
       ExecutorPath, ExecutorTask, ScopedPath, ScopedTask, Lives, LifeOf,
       Produced, TypeOK, SetFlag, callVars, bufferVars, valueVars, exitVars
  <1> QED
    BY <1>3, <1>4, <1>5, <1>6, <1>7, <1>8, <1>9, <1>10, <1>11, <1>12 DEF
       IInv

(* The first payload is stored under the panic mutex. *)
LEMMA RecordPanicInv ==
    ASSUME IInv, NEW i \in Task, RecordPanic(i)
    PROVE  IInv'
  <1>1. /\ TypeOK
        /\ Task \subseteq Index
        /\ Task' = Task
    BY TaskIndex DEF IInv, Task, RecordPanic, StoreFirst, callVars
  <1>2. executor # Null /\ executor' = executor /\ pc = "execute"
    BY <1>1 DEF IInv, ScopedPath, ScopedTask, ExecutorPath, ExecutorTask,
       InFlight, RecordPanic, StoreFirst, callVars
  <1>3. i \in Int /\ i # Null
    BY <1>1, TaskIndex, PayloadAssumption DEF IInv
  <1>4. TypeOK'
    BY <1>1, <1>2, <1>3, MaxChunksAssumption DEF TypeOK, RecordPanic,
       StoreFirst, callVars, bufferVars, valueVars, exitVars, InFlight,
       Panicked, TaskState, Place, Terminal, OnExecutor, OnThreads, Working,
       OtherPanic
  <1>5. Untouched'
    BY <1>1, <1>2, <1>3 DEF IInv, Untouched, TypeOK, RecordPanic,
       StoreFirst, callVars, bufferVars, valueVars, exitVars
  <1>6. Lives'
    <2> SUFFICES ASSUME NEW j \in Task
                 PROVE  LifeOf(j)'
      BY <1>1, <1>2, <1>3 DEF Lives
    <2> QED
      BY <1>1, <1>2, <1>3 DEF IInv, Lives, LifeOf, Produced, TypeOK,
         RecordPanic, StoreFirst, callVars, bufferVars, valueVars, exitVars,
         ExecutorPath, ExecutorTask
  <1>7. Fresh'
    BY <1>1, <1>2, <1>3 DEF IInv, Fresh, RecordPanic, StoreFirst, callVars,
       bufferVars, valueVars, exitVars
  <1>8. Control'
    BY <1>1, <1>2, <1>3, MaxChunksAssumption DEF IInv, Control, TypeOK,
       OnExecutor, OnThreads, RecordPanic, StoreFirst, callVars, bufferVars,
       valueVars, exitVars
  <1>9. Collected'
    BY <1>1, <1>2, <1>3 DEF IInv, Collected, Control, TypeOK, RecordPanic,
       StoreFirst, callVars, bufferVars, valueVars, exitVars
  <1>10. ExecutorPath'
    <2>1. ExecutorCall'
      BY <1>1, <1>2, <1>3, PayloadAssumption DEF IInv, ExecutorPath,
         ExecutorCall, ExecutorTask, TypeOK, OnExecutor, OtherPanic,
         RecordPanic, StoreFirst, callVars, bufferVars, valueVars, exitVars
    <2>2. ASSUME NEW j \in Task
          PROVE  ExecutorTask(j)'
      <3>1. CASE j = i
        BY <3>1, <1>1, <1>2, <1>3 DEF IInv, ExecutorPath, ExecutorTask,
           TypeOK, InFlight, RecordPanic, StoreFirst, callVars, bufferVars,
           valueVars, exitVars
      <3>2. CASE j # i
        BY <3>2, <1>1, <1>2, <1>3 DEF IInv, ExecutorPath, ExecutorTask,
           TypeOK, InFlight, RecordPanic, StoreFirst, callVars, bufferVars,
           valueVars, exitVars
      <3> QED
        BY <3>1, <3>2
    <2> QED
      BY <1>1, <1>2, <1>3, <2>1, <2>2 DEF ExecutorPath
  <1>11. ExecutorPayload'
    BY <1>1, <1>2, <1>3, PayloadAssumption DEF IInv, ExecutorPayload,
       ExecutorPath, ExecutorCall, TypeOK, OtherPanic, Index, RecordPanic,
       StoreFirst, callVars, bufferVars, valueVars, exitVars
  <1>12. ScopedPath'
    BY <1>1, <1>2, <1>3 DEF ScopedPath
  <1>13. ReturnsAllResultsInOrder'
    BY <1>1, <1>2, <1>3 DEF IInv, ReturnsAllResultsInOrder, Control,
       Collected, ExecutorPath, ExecutorTask, ScopedPath, ScopedTask, Lives,
       LifeOf, Produced, TypeOK, RecordPanic, StoreFirst, callVars, bufferVars,
       valueVars, exitVars
  <1> QED
    BY <1>4, <1>5, <1>6, <1>7, <1>8, <1>9, <1>10, <1>11, <1>12, <1>13 DEF
       IInv

(* run_indexed returned: without a payload all slots are initialised. *)
LEMMA ExecuteReturnsInv ==
    ASSUME IInv, ExecuteReturns
    PROVE  IInv'
  <1>1. /\ TypeOK
        /\ Task \subseteq Index
        /\ Task' = Task
    BY TaskIndex DEF IInv, Task, ExecuteReturns, AllInvoked, Quiescent,
       callVars
  <1>2. executor # Null /\ executor' = executor
    BY <1>1 DEF IInv, Control, OnExecutor, OnThreads, ExecuteReturns,
       AllInvoked, Quiescent, callVars
  <1>3. pc = "execute" /\ \A j \in Task : task[j] \notin InFlight /\ task[j] # "idle" /\ (panic_payload = Null => task[j] = "done" /\ home[j] = "slot" /\ drops[j] = 0)
    BY <1>1, <1>2 DEF IInv, ExecuteReturns, AllInvoked, Quiescent,
       ExecutorPath, ExecutorTask, InFlight, Lives, LifeOf, Produced, TypeOK,
       TaskState, Panicked
  <1>4. TypeOK'
    <2>1. CASE panic_payload # Null
      BY <1>1, <1>2, <1>3, <2>1 DEF TypeOK, ExecuteReturns, AllInvoked,
         Quiescent, callVars, Working, OnExecutor
    <2>2. CASE panic_payload = Null
      <3>1. results' = [k \in 1 .. num_chunks |-> k - 1]
        BY <1>1, <1>2, <1>3, <2>2, TaskIndex DEF ExecuteReturns
      <3>2. results' \in Seq(Index)
        BY <1>1, <1>2, <1>3, <3>1, TaskIndex, IndexSeq
      <3>3. home' \in [Index -> Place]
        BY <1>1, <1>2, <1>3, <2>2 DEF TypeOK, Place, ExecuteReturns
      <3> QED
        BY <1>1, <1>2, <1>3, <2>2, <3>2, <3>3 DEF TypeOK, ExecuteReturns,
           AllInvoked, Quiescent, callVars, Terminal
    <2> QED
      BY <2>1, <2>2
  <1>5. Untouched'
    BY <1>1, <1>2, <1>3 DEF IInv, Untouched, TypeOK, ExecuteReturns,
       AllInvoked, Quiescent, callVars, bufferVars, valueVars, exitVars
  <1>6. Lives'
    <2> SUFFICES ASSUME NEW j \in Task
                 PROVE  LifeOf(j)'
      BY <1>1, <1>2, <1>3 DEF Lives
    <2> QED
      BY <1>1, <1>2, <1>3 DEF IInv, Lives, LifeOf, Produced, TypeOK,
         ExecuteReturns
  <1>7. Fresh'
    BY <1>1, <1>2, <1>3 DEF IInv, Fresh, ExecuteReturns, AllInvoked,
       Quiescent, callVars, bufferVars, valueVars, exitVars
  <1>8. Control'
    BY <1>1, <1>2, <1>3, MaxChunksAssumption DEF IInv, Control, TypeOK,
       OnExecutor, OnThreads, ExecuteReturns, AllInvoked, Quiescent, callVars,
       bufferVars, valueVars, exitVars
  <1>9. Collected'
    BY <1>1, <1>2, <1>3 DEF IInv, Collected, Control, TypeOK,
       ExecuteReturns, AllInvoked, Quiescent, callVars, bufferVars, valueVars,
       exitVars
  <1>10. ExecutorPath'
    <2>1. ExecutorCall'
      BY <1>1, <1>2, <1>3, PayloadAssumption DEF IInv, ExecutorPath,
         ExecutorCall, ExecutorTask, TypeOK, OnExecutor, OtherPanic,
         ExecuteReturns, AllInvoked, Quiescent, callVars, bufferVars,
         valueVars, exitVars
    <2>2. ASSUME NEW j \in Task
          PROVE  ExecutorTask(j)'
      BY <1>1, <1>2, <1>3, TaskIndex DEF IInv, ExecutorPath, ExecutorTask,
         ExecutorCall, Control, TypeOK, InFlight, ExecuteReturns, AllInvoked,
         Quiescent, callVars
    <2> QED
      BY <1>1, <1>2, <1>3, <2>1, <2>2 DEF ExecutorPath
  <1>11. ExecutorPayload'
    BY <1>1, <1>2, <1>3, PayloadAssumption DEF IInv, ExecutorPayload,
       ExecutorPath, ExecutorCall, TypeOK, OtherPanic, Index, ExecuteReturns,
       AllInvoked, Quiescent, callVars, bufferVars, valueVars, exitVars
  <1>12. ScopedPath'
    BY <1>1, <1>2, <1>3 DEF ScopedPath
  <1>13. ReturnsAllResultsInOrder'
    <2>1. CASE panic_payload # Null
      BY <1>1, <1>2, <1>3, <2>1 DEF ReturnsAllResultsInOrder, ExecuteReturns
    <2>2. CASE panic_payload = Null
      <3>1. results' = [k \in 1 .. num_chunks |-> k - 1]
        BY <1>1, <1>2, <1>3, <2>2, TaskIndex DEF ExecuteReturns
      <3> QED
        BY <1>1, <1>2, <1>3, <2>2, <3>1 DEF ReturnsAllResultsInOrder,
           ExecuteReturns, callVars
    <2> QED
      BY <2>1, <2>2
  <1> QED
    BY <1>4, <1>5, <1>6, <1>7, <1>8, <1>9, <1>10, <1>11, <1>12, <1>13 DEF
       IInv

(* run_indexed unwound: the armed guard takes over. *)
LEMMA ExecuteUnwindsInv ==
    ASSUME IInv, ExecuteUnwinds
    PROVE  IInv'
  <1>1. /\ TypeOK
        /\ Task \subseteq Index
        /\ Task' = Task
    BY TaskIndex DEF IInv, Task, ExecuteUnwinds, Quiescent, callVars
  <1>2. executor # Null /\ executor' = executor
    BY <1>1 DEF IInv, Control, OnExecutor, OnThreads, ExecuteUnwinds,
       Quiescent, callVars
  <1>3. TypeOK'
    BY <1>1, <1>2, MaxChunksAssumption DEF TypeOK, ExecuteUnwinds,
       Quiescent, callVars, bufferVars, valueVars, exitVars, InFlight,
       Panicked, TaskState, Place, Terminal, OnExecutor, OnThreads, Working,
       OtherPanic
  <1>4. Untouched'
    BY <1>1, <1>2 DEF IInv, Untouched, TypeOK, ExecuteUnwinds, Quiescent,
       callVars, bufferVars, valueVars, exitVars
  <1>5. Lives'
    <2> SUFFICES ASSUME NEW j \in Task
                 PROVE  LifeOf(j)'
      BY <1>1, <1>2 DEF Lives
    <2> QED
      BY <1>1, <1>2 DEF IInv, Lives, LifeOf, Produced, TypeOK,
         ExecuteUnwinds, Quiescent, callVars, bufferVars, valueVars, exitVars,
         ExecutorPath, ExecutorTask
  <1>6. Fresh'
    BY <1>1, <1>2 DEF IInv, Fresh, ExecuteUnwinds, Quiescent, callVars,
       bufferVars, valueVars, exitVars
  <1>7. Control'
    BY <1>1, <1>2, MaxChunksAssumption DEF IInv, Control, TypeOK,
       OnExecutor, OnThreads, ExecuteUnwinds, Quiescent, callVars, bufferVars,
       valueVars, exitVars
  <1>8. Collected'
    BY <1>1, <1>2 DEF IInv, Collected, Control, TypeOK, ExecuteUnwinds,
       Quiescent, callVars, bufferVars, valueVars, exitVars
  <1>9. ExecutorPath'
    <2>1. ExecutorCall'
      BY <1>1, <1>2, PayloadAssumption DEF IInv, ExecutorPath, ExecutorCall,
         ExecutorTask, TypeOK, OnExecutor, OtherPanic, ExecuteUnwinds,
         Quiescent, callVars, bufferVars, valueVars, exitVars
    <2>2. ASSUME NEW j \in Task
          PROVE  ExecutorTask(j)'
      BY <1>1, <1>2, TaskIndex DEF IInv, ExecutorPath, ExecutorTask,
         Control, TypeOK, InFlight, ExecuteUnwinds, Quiescent, callVars,
         bufferVars, valueVars, exitVars
    <2> QED
      BY <1>1, <1>2, <2>1, <2>2 DEF ExecutorPath
  <1>10. ExecutorPayload'
    BY <1>1, <1>2, PayloadAssumption DEF IInv, ExecutorPayload,
       ExecutorPath, ExecutorCall, TypeOK, OtherPanic, Index, ExecuteUnwinds,
       Quiescent, callVars, bufferVars, valueVars, exitVars
  <1>11. ScopedPath'
    BY <1>1, <1>2 DEF ScopedPath
  <1>12. ReturnsAllResultsInOrder'
    BY <1>1, <1>2 DEF IInv, ReturnsAllResultsInOrder, Control, Collected,
       ExecutorPath, ExecutorTask, ScopedPath, ScopedTask, Lives, LifeOf,
       Produced, TypeOK, ExecuteUnwinds, Quiescent, callVars, bufferVars,
       valueVars, exitVars
  <1> QED
    BY <1>3, <1>4, <1>5, <1>6, <1>7, <1>8, <1>9, <1>10, <1>11, <1>12 DEF
       IInv

(* A turn of the loop that drops the flagged slots. *)
LEMMA DropSlotInv ==
    ASSUME IInv, DropSlot
    PROVE  IInv'
  <1>1. /\ TypeOK
        /\ Task \subseteq Index
        /\ Task' = Task
    BY TaskIndex DEF IInv, Task, DropSlot, Initialised, callVars
  <1>2. executor # Null /\ executor' = executor
    BY <1>1 DEF IInv, Control, OnExecutor, OnThreads, DropSlot, Initialised,
       callVars
  <1>3. cursor \in Task /\ cursor \in Index /\ num_chunks \in Nat /\ cursor \in Nat /\ cursor < num_chunks /\ drops[cursor] \in Nat
    BY <1>1, TaskIndex DEF IInv, Control, TypeOK, DropSlot
  <1>4. TypeOK'
    <2>1. drops' \in [Index -> Nat] /\ home' \in [Index -> Place]
      <3>1. "nowhere" \in Place /\ drops[cursor] + 1 \in Nat
        BY <1>3 DEF Place
      <3> QED
        BY <1>1, <1>3, <3>1 DEF TypeOK, DropSlot
    <2>2. cursor' \in 0 .. MaxChunks
      BY <1>1, <1>2, <1>3, MaxChunksAssumption DEF TypeOK, DropSlot
    <2> QED
      BY <1>1, <1>2, <1>3, <2>1, <2>2 DEF TypeOK, DropSlot, Initialised,
         callVars, bufferVars, valueVars, exitVars
  <1>5. Untouched'
    BY <1>1, <1>2, <1>3 DEF IInv, Untouched, TypeOK, DropSlot, Initialised,
       callVars, bufferVars, valueVars, exitVars
  <1>6. Lives'
    <2> SUFFICES ASSUME NEW j \in Task
                 PROVE  LifeOf(j)'
      BY <1>1, <1>2, <1>3 DEF Lives
    <2>1. CASE j = cursor
      <3>1. CASE successful[cursor]
        <4>1. task[j] = "done" /\ home[j] = "slot"
          BY <1>1, <1>2, <1>3, <2>1, <3>1 DEF IInv, ExecutorPath,
             ExecutorTask, DropSlot
        <4>2. drops[j] = 0
          BY <1>1, <1>2, <1>3, <4>1 DEF IInv, Lives, LifeOf
        <4> QED
          BY <1>1, <1>2, <1>3, <2>1, <3>1, <4>1, <4>2 DEF LifeOf, TypeOK,
             DropSlot, Initialised
      <3>2. CASE ~successful[cursor]
        BY <1>1, <1>2, <1>3, <2>1, <3>2 DEF IInv, Lives, LifeOf, Produced,
           DropSlot, Initialised
      <3> QED
        BY <3>1, <3>2
    <2>2. CASE j # cursor
      BY <1>1, <1>2, <1>3, <2>2 DEF IInv, Lives, LifeOf, Produced, TypeOK,
         DropSlot, Initialised
    <2> QED
      BY <2>1, <2>2
  <1>7. Fresh'
    BY <1>1, <1>2, <1>3 DEF IInv, Fresh, DropSlot, Initialised, callVars,
       bufferVars, valueVars, exitVars
  <1>8. Control'
    <2>1. cursor' = cursor + 1 /\ cursor + 1 <= num_chunks /\ pc' = pc /\
       num_chunks' = num_chunks
      BY <1>1, <1>2, <1>3 DEF DropSlot, Initialised, callVars, bufferVars,
         valueVars, exitVars
    <2>2. pc = "teardown" \/ pc = "guard"
      BY DEF DropSlot
    <2> QED
      BY <1>1, <1>2, <1>3, <2>1, <2>2 DEF IInv, Control, OnExecutor, OnThreads
  <1>9. Collected'
    BY <1>1, <1>2, <1>3 DEF IInv, Collected, Control, TypeOK, DropSlot,
       Initialised, callVars, bufferVars, valueVars, exitVars
  <1>10. ExecutorPath'
    <2>1. ExecutorCall'
      BY <1>1, <1>2, <1>3, PayloadAssumption DEF IInv, ExecutorPath,
         ExecutorCall, ExecutorTask, TypeOK, OnExecutor, OtherPanic, DropSlot,
         Initialised, callVars, bufferVars, valueVars, exitVars
    <2>2. ASSUME NEW j \in Task
          PROVE  ExecutorTask(j)'
      <3>1. /\ cursor' = cursor + 1 /\ pc' = pc /\ task' = task
            /\ successful' = successful /\ pc \in {"teardown", "guard"}
        BY DEF DropSlot, Initialised, callVars, bufferVars, valueVars, exitVars
      <3>2. ExecutorTask(j) /\ j \in Nat /\ j \in Index
        BY <1>1, <1>2, <1>3, TaskIndex DEF IInv, ExecutorPath
      <3>3. task[j] \notin InFlight
        BY <3>1, <3>2 DEF ExecutorTask
      <3>4. CASE j = cursor
        <4>1. successful[cursor] => home'[j] = "nowhere"
          BY <1>1, <1>2, <1>3, <3>4 DEF TypeOK, DropSlot, Initialised
        <4> QED
          BY <1>1, <1>2, <1>3, <3>1, <3>2, <3>3, <3>4, <4>1 DEF
             ExecutorTask, InFlight
      <3>5. CASE j # cursor
        <4>1. home'[j] = home[j]
          BY <1>1, <1>2, <1>3, <3>2, <3>5 DEF TypeOK, DropSlot, Initialised
        <4>2. j < cursor' <=> j < cursor
          BY <1>1, <1>2, <1>3, <3>1, <3>2, <3>5
        <4> QED
          BY <1>1, <1>2, <1>3, <3>1, <3>2, <3>3, <4>1, <4>2 DEF
             ExecutorTask, InFlight
      <3> QED
        BY <3>4, <3>5
    <2> QED
      BY <1>1, <1>2, <1>3, <2>1, <2>2 DEF ExecutorPath
  <1>11. ExecutorPayload'
    BY <1>1, <1>2, <1>3, PayloadAssumption DEF IInv, ExecutorPayload,
       ExecutorPath, ExecutorCall, TypeOK, OtherPanic, Index, DropSlot,
       Initialised, callVars, bufferVars, valueVars, exitVars
  <1>12. ScopedPath'
    BY <1>1, <1>2, <1>3 DEF ScopedPath
  <1>13. ReturnsAllResultsInOrder'
    BY <1>1, <1>2, <1>3 DEF IInv, ReturnsAllResultsInOrder, Control,
       Collected, ExecutorPath, ExecutorTask, ScopedPath, ScopedTask, Lives,
       LifeOf, Produced, TypeOK, DropSlot, Initialised, callVars, bufferVars,
       valueVars, exitVars
  <1> QED
    BY <1>4, <1>5, <1>6, <1>7, <1>8, <1>9, <1>10, <1>11, <1>12, <1>13 DEF
       IInv

(* A destructor panics in that loop. *)
LEMMA DropSlotPanicsInv ==
    ASSUME IInv, DropSlotPanics
    PROVE  IInv'
  <1>1. /\ TypeOK
        /\ Task \subseteq Index
        /\ Task' = Task
    BY TaskIndex DEF IInv, Task, DropSlotPanics, Initialised, callVars
  <1>2. executor # Null /\ executor' = executor
    BY <1>1 DEF IInv, Control, OnExecutor, OnThreads, DropSlotPanics,
       Initialised, callVars
  <1>3. cursor \in Task /\ cursor \in Index /\ num_chunks \in Nat /\ cursor \in Nat /\ cursor < num_chunks /\ drops[cursor] \in Nat
    BY <1>1, TaskIndex DEF IInv, Control, TypeOK, DropSlotPanics
  <1>4. task[cursor] = "done" /\ drops[cursor] = 0
    BY <1>1, <1>2, <1>3 DEF IInv, Lives, LifeOf, ExecutorPath, ExecutorTask,
       Initialised, DropSlotPanics
  <1>5. TypeOK'
    <2>1. drops' \in [Index -> Nat] /\ home' \in [Index -> Place]
      BY <1>1, <1>2, <1>3, <1>4 DEF TypeOK, Place, DropSlotPanics, Initialised
    <2> QED
      BY <1>1, <1>2, <1>3, <1>4, <2>1 DEF TypeOK, OtherPanic, Terminal,
         DropSlotPanics, Initialised, callVars, bufferVars, valueVars, exitVars
  <1>6. Untouched'
    BY <1>1, <1>2, <1>3, <1>4 DEF IInv, Untouched, TypeOK, DropSlotPanics,
       Initialised, callVars, bufferVars, valueVars, exitVars
  <1>7. Lives'
    <2> SUFFICES ASSUME NEW j \in Task
                 PROVE  LifeOf(j)'
      BY <1>1, <1>2, <1>3, <1>4 DEF Lives
    <2> QED
      BY <1>1, <1>2, <1>3, <1>4 DEF IInv, Lives, LifeOf, Produced, TypeOK,
         DropSlotPanics, Initialised, callVars, bufferVars, valueVars,
         exitVars, ExecutorPath, ExecutorTask
  <1>8. Fresh'
    BY <1>1, <1>2, <1>3, <1>4 DEF IInv, Fresh, DropSlotPanics, Initialised,
       callVars, bufferVars, valueVars, exitVars
  <1>9. Control'
    BY <1>1, <1>2, <1>3, <1>4, MaxChunksAssumption DEF IInv, Control,
       TypeOK, OnExecutor, OnThreads, DropSlotPanics, Initialised, callVars,
       bufferVars, valueVars, exitVars
  <1>10. Collected'
    BY <1>1, <1>2, <1>3, <1>4 DEF IInv, Collected, Control, TypeOK,
       DropSlotPanics, Initialised, callVars, bufferVars, valueVars, exitVars
  <1>11. ExecutorPath'
    <2>1. ExecutorCall'
      BY <1>1, <1>2, <1>3, <1>4, PayloadAssumption DEF IInv, ExecutorPath,
         ExecutorCall, ExecutorTask, TypeOK, OnExecutor, OtherPanic,
         DropSlotPanics, Initialised, callVars, bufferVars, valueVars, exitVars
    <2>2. ASSUME NEW j \in Task
          PROVE  ExecutorTask(j)'
      BY <1>1, <1>2, <1>3, <1>4, PayloadAssumption DEF IInv, ExecutorPath,
         ExecutorTask, ExecutorCall, TypeOK, InFlight, DropSlotPanics,
         Initialised, callVars, bufferVars, valueVars, exitVars
    <2> QED
      BY <1>1, <1>2, <1>3, <1>4, <2>1, <2>2 DEF ExecutorPath
  <1>12. ExecutorPayload'
    BY <1>1, <1>2, <1>3, <1>4, PayloadAssumption DEF IInv, ExecutorPayload,
       ExecutorPath, ExecutorCall, TypeOK, OtherPanic, Index, DropSlotPanics,
       Initialised, callVars, bufferVars, valueVars, exitVars
  <1>13. ScopedPath'
    BY <1>1, <1>2, <1>3, <1>4 DEF ScopedPath
  <1>14. ReturnsAllResultsInOrder'
    BY <1>1, <1>2, <1>3, <1>4 DEF IInv, ReturnsAllResultsInOrder, Control,
       Collected, ExecutorPath, ExecutorTask, ScopedPath, ScopedTask, Lives,
       LifeOf, Produced, TypeOK, DropSlotPanics, Initialised, callVars,
       bufferVars, valueVars, exitVars
  <1> QED
    BY <1>5, <1>6, <1>7, <1>8, <1>9, <1>10, <1>11, <1>12, <1>13, <1>14 DEF
       IInv

(* End of the teardown of drive: the recorded payload is raised. *)
LEMMA FreeBufferInv ==
    ASSUME IInv, FreeBuffer
    PROVE  IInv'
  <1>1. /\ TypeOK
        /\ Task \subseteq Index
        /\ Task' = Task
    BY TaskIndex DEF IInv, Task, FreeBuffer, callVars
  <1>2. executor # Null /\ executor' = executor
    BY <1>1 DEF IInv, Control, OnExecutor, OnThreads, FreeBuffer, callVars
  <1>3. num_chunks \in Nat /\ cursor \in Nat /\ \A j \in Task : j \in Nat /\ j < num_chunks
    BY <1>1, TaskIndex DEF IInv
  <1>4. TypeOK'
    BY <1>1, <1>2, <1>3, MaxChunksAssumption DEF TypeOK, FreeBuffer,
       callVars, bufferVars, valueVars, exitVars, InFlight, Panicked,
       TaskState, Place, Terminal, OnExecutor, OnThreads, Working, OtherPanic
  <1>5. Untouched'
    BY <1>1, <1>2, <1>3 DEF IInv, Untouched, TypeOK, FreeBuffer, callVars,
       bufferVars, valueVars, exitVars
  <1>6. Lives'
    <2> SUFFICES ASSUME NEW j \in Task
                 PROVE  LifeOf(j)'
      BY <1>1, <1>2, <1>3 DEF Lives
    <2> QED
      BY <1>1, <1>2, <1>3 DEF IInv, Lives, LifeOf, Produced, TypeOK,
         FreeBuffer, callVars, bufferVars, valueVars, exitVars, ExecutorPath,
         ExecutorTask
  <1>7. Fresh'
    BY <1>1, <1>2, <1>3 DEF IInv, Fresh, FreeBuffer, callVars, bufferVars,
       valueVars, exitVars
  <1>8. Control'
    BY <1>1, <1>2, <1>3, MaxChunksAssumption DEF IInv, Control, TypeOK,
       OnExecutor, OnThreads, FreeBuffer, callVars, bufferVars, valueVars,
       exitVars
  <1>9. Collected'
    BY <1>1, <1>2, <1>3 DEF IInv, Collected, Control, TypeOK, FreeBuffer,
       callVars, bufferVars, valueVars, exitVars
  <1>10. ExecutorPath'
    <2>1. ExecutorCall'
      BY <1>1, <1>2, <1>3, PayloadAssumption DEF IInv, ExecutorPath,
         ExecutorCall, ExecutorTask, TypeOK, OnExecutor, OtherPanic,
         FreeBuffer, callVars, bufferVars, valueVars, exitVars
    <2>2. ASSUME NEW j \in Task
          PROVE  ExecutorTask(j)'
      BY <1>1, <1>2, <1>3, PayloadAssumption DEF IInv, ExecutorPath,
         ExecutorTask, ExecutorCall, TypeOK, InFlight, OtherPanic, FreeBuffer,
         callVars, bufferVars, valueVars, exitVars
    <2> QED
      BY <1>1, <1>2, <1>3, <2>1, <2>2 DEF ExecutorPath
  <1>11. ExecutorPayload'
    BY <1>1, <1>2, <1>3, PayloadAssumption DEF IInv, ExecutorPayload,
       ExecutorPath, ExecutorCall, TypeOK, OtherPanic, Index, FreeBuffer,
       callVars, bufferVars, valueVars, exitVars
  <1>12. ScopedPath'
    BY <1>1, <1>2, <1>3 DEF ScopedPath
  <1>13. ReturnsAllResultsInOrder'
    BY <1>1, <1>2, <1>3 DEF IInv, ReturnsAllResultsInOrder, Control,
       Collected, ExecutorPath, ExecutorTask, ScopedPath, ScopedTask, Lives,
       LifeOf, Produced, TypeOK, FreeBuffer, callVars, bufferVars, valueVars,
       exitVars
  <1> QED
    BY <1>4, <1>5, <1>6, <1>7, <1>8, <1>9, <1>10, <1>11, <1>12, <1>13 DEF
       IInv

(* End of the guard's drop. *)
LEMMA GuardFreesBufferInv ==
    ASSUME IInv, GuardFreesBuffer
    PROVE  IInv'
  <1>1. /\ TypeOK
        /\ Task \subseteq Index
        /\ Task' = Task
    BY TaskIndex DEF IInv, Task, GuardFreesBuffer, callVars
  <1>2. executor # Null /\ executor' = executor
    BY <1>1 DEF IInv, Control, OnExecutor, OnThreads, GuardFreesBuffer,
       callVars
  <1>3. num_chunks \in Nat /\ cursor \in Nat /\ \A j \in Task : j \in Nat /\ j < num_chunks
    BY <1>1, TaskIndex DEF IInv
  <1>4. TypeOK'
    BY <1>1, <1>2, <1>3, MaxChunksAssumption DEF TypeOK, GuardFreesBuffer,
       callVars, bufferVars, valueVars, exitVars, InFlight, Panicked,
       TaskState, Place, Terminal, OnExecutor, OnThreads, Working, OtherPanic
  <1>5. Untouched'
    BY <1>1, <1>2, <1>3 DEF IInv, Untouched, TypeOK, GuardFreesBuffer,
       callVars, bufferVars, valueVars, exitVars
  <1>6. Lives'
    <2> SUFFICES ASSUME NEW j \in Task
                 PROVE  LifeOf(j)'
      BY <1>1, <1>2, <1>3 DEF Lives
    <2> QED
      BY <1>1, <1>2, <1>3 DEF IInv, Lives, LifeOf, Produced, TypeOK,
         GuardFreesBuffer, callVars, bufferVars, valueVars, exitVars,
         ExecutorPath, ExecutorTask
  <1>7. Fresh'
    BY <1>1, <1>2, <1>3 DEF IInv, Fresh, GuardFreesBuffer, callVars,
       bufferVars, valueVars, exitVars
  <1>8. Control'
    BY <1>1, <1>2, <1>3, MaxChunksAssumption DEF IInv, Control, TypeOK,
       OnExecutor, OnThreads, GuardFreesBuffer, callVars, bufferVars,
       valueVars, exitVars
  <1>9. Collected'
    BY <1>1, <1>2, <1>3 DEF IInv, Collected, Control, TypeOK,
       GuardFreesBuffer, callVars, bufferVars, valueVars, exitVars
  <1>10. ExecutorPath'
    <2>1. ExecutorCall'
      BY <1>1, <1>2, <1>3, PayloadAssumption DEF IInv, ExecutorPath,
         ExecutorCall, ExecutorTask, TypeOK, OnExecutor, OtherPanic,
         GuardFreesBuffer, callVars, bufferVars, valueVars, exitVars
    <2>2. ASSUME NEW j \in Task
          PROVE  ExecutorTask(j)'
      BY <1>1, <1>2, <1>3, PayloadAssumption DEF IInv, ExecutorPath,
         ExecutorTask, ExecutorCall, TypeOK, InFlight, OtherPanic,
         GuardFreesBuffer, callVars, bufferVars, valueVars, exitVars
    <2> QED
      BY <1>1, <1>2, <1>3, <2>1, <2>2 DEF ExecutorPath
  <1>11. ExecutorPayload'
    BY <1>1, <1>2, <1>3, PayloadAssumption DEF IInv, ExecutorPayload,
       ExecutorPath, ExecutorCall, TypeOK, OtherPanic, Index, GuardFreesBuffer,
       callVars, bufferVars, valueVars, exitVars
  <1>12. ScopedPath'
    BY <1>1, <1>2, <1>3 DEF ScopedPath
  <1>13. ReturnsAllResultsInOrder'
    BY <1>1, <1>2, <1>3 DEF IInv, ReturnsAllResultsInOrder, Control,
       Collected, ExecutorPath, ExecutorTask, ScopedPath, ScopedTask, Lives,
       LifeOf, Produced, TypeOK, GuardFreesBuffer, callVars, bufferVars,
       valueVars, exitVars
  <1> QED
    BY <1>4, <1>5, <1>6, <1>7, <1>8, <1>9, <1>10, <1>11, <1>12, <1>13 DEF
       IInv

(* The only chunk is run inline. *)
LEMMA SingleStartsInv ==
    ASSUME IInv, SingleStarts
    PROVE  IInv'
  <1>1. /\ TypeOK
        /\ Task \subseteq Index
        /\ Task' = Task
    BY TaskIndex DEF IInv, Task, SingleStarts, callVars
  <1>2. executor = Null /\ executor' = executor
    BY <1>1 DEF IInv, Control, OnExecutor, OnThreads, SingleStarts, callVars
  <1>3. num_chunks = 1
    BY <1>1 DEF IInv, Control, SingleStarts
  <1>4. 0 \in Task /\ 0 \in Index /\ \A j \in Task : j = 0
    BY <1>1, <1>3, TaskIndex DEF IInv
  <1>5. TypeOK'
    BY <1>1, <1>2, <1>3, <1>4, MaxChunksAssumption DEF TypeOK, SingleStarts,
       callVars, bufferVars, valueVars, exitVars, InFlight, Panicked,
       TaskState, Place, Terminal, OnExecutor, OnThreads, Working, OtherPanic
  <1>6. Untouched'
    BY <1>1, <1>2, <1>3, <1>4 DEF IInv, Untouched, TypeOK, SingleStarts,
       callVars, bufferVars, valueVars, exitVars
  <1>7. Lives'
    <2> SUFFICES ASSUME NEW j \in Task
                 PROVE  LifeOf(j)'
      BY <1>1, <1>2, <1>3, <1>4 DEF Lives
    <2> QED
      BY <1>1, <1>2, <1>3, <1>4 DEF IInv, Lives, LifeOf, Produced, TypeOK,
         SingleStarts, callVars, bufferVars, valueVars, exitVars, ScopedPath,
         ScopedTask
  <1>8. Fresh'
    BY <1>1, <1>2, <1>3, <1>4 DEF IInv, Fresh, SingleStarts, callVars,
       bufferVars, valueVars, exitVars
  <1>9. Control'
    BY <1>1, <1>2, <1>3, <1>4, MaxChunksAssumption DEF IInv, Control,
       TypeOK, OnExecutor, OnThreads, SingleStarts, callVars, bufferVars,
       valueVars, exitVars
  <1>10. Collected'
    BY <1>1, <1>2, <1>3, <1>4 DEF IInv, Collected, Control, TypeOK,
       SingleStarts, callVars, bufferVars, valueVars, exitVars
  <1>11. ExecutorPath'
    BY <1>1, <1>2, <1>3, <1>4 DEF ExecutorPath
  <1>12. ExecutorPayload'
    BY <1>1, <1>2, <1>3, <1>4 DEF ExecutorPayload
  <1>13. ScopedPath'
    <2>1. ScopedCall'
      BY <1>1, <1>2, <1>3, <1>4, PayloadAssumption DEF IInv, ScopedPath,
         ScopedCall, ScopedTask, Control, OnThreads, TypeOK, OtherPanic, Index,
         Task, SingleStarts, callVars, bufferVars, valueVars, exitVars
    <2>2. ASSUME NEW j \in Task
          PROVE  ScopedTask(j)'
      BY <1>1, <1>2, <1>3, <1>4 DEF IInv, ScopedPath, ScopedTask,
         ScopedCall, Lives, LifeOf, Produced, Control, TypeOK, SingleStarts,
         callVars, bufferVars, valueVars, exitVars
    <2> QED
      BY <1>1, <1>2, <1>3, <1>4, <2>1, <2>2 DEF ScopedPath
  <1>14. ReturnsAllResultsInOrder'
    BY <1>1, <1>2, <1>3, <1>4 DEF IInv, ReturnsAllResultsInOrder, Control,
       Collected, ExecutorPath, ExecutorTask, ScopedPath, ScopedTask, Lives,
       LifeOf, Produced, TypeOK, SingleStarts, callVars, bufferVars, valueVars,
       exitVars
  <1> QED
    BY <1>5, <1>6, <1>7, <1>8, <1>9, <1>10, <1>11, <1>12, <1>13, <1>14 DEF
       IInv

(* The inline run of the only chunk ends. *)
LEMMA SingleEndsInv ==
    ASSUME IInv, SingleEnds
    PROVE  IInv'
  <1>1. /\ TypeOK
        /\ Task \subseteq Index
        /\ Task' = Task
    BY TaskIndex DEF IInv, Task, SingleEnds, callVars
  <1>2. executor = Null /\ executor' = executor
    BY <1>1 DEF IInv, Control, OnExecutor, OnThreads, SingleEnds, callVars
  <1>3. num_chunks = 1
    BY <1>1 DEF IInv, Control, SingleEnds
  <1>4. 0 \in Task /\ 0 \in Index /\ \A j \in Task : j = 0
    BY <1>1, <1>3, TaskIndex DEF IInv
  <1>5. TypeOK'
    BY <1>1, <1>2, <1>3, <1>4, MaxChunksAssumption DEF TypeOK, SingleEnds,
       callVars, bufferVars, valueVars, exitVars, InFlight, Panicked,
       TaskState, Place, Terminal, OnExecutor, OnThreads, Working, OtherPanic
  <1>6. Untouched'
    BY <1>1, <1>2, <1>3, <1>4 DEF IInv, Untouched, TypeOK, SingleEnds,
       callVars, bufferVars, valueVars, exitVars
  <1>7. Lives'
    <2> SUFFICES ASSUME NEW j \in Task
                 PROVE  LifeOf(j)'
      BY <1>1, <1>2, <1>3, <1>4 DEF Lives
    <2> QED
      BY <1>1, <1>2, <1>3, <1>4 DEF IInv, Lives, LifeOf, Produced, TypeOK,
         SingleEnds, callVars, bufferVars, valueVars, exitVars, ScopedPath,
         ScopedTask
  <1>8. Fresh'
    BY <1>1, <1>2, <1>3, <1>4 DEF IInv, Fresh, SingleEnds, callVars,
       bufferVars, valueVars, exitVars
  <1>9. Control'
    BY <1>1, <1>2, <1>3, <1>4, MaxChunksAssumption DEF IInv, Control,
       TypeOK, OnExecutor, OnThreads, SingleEnds, callVars, bufferVars,
       valueVars, exitVars
  <1>10. Collected'
    BY <1>1, <1>2, <1>3, <1>4 DEF IInv, Collected, Control, TypeOK,
       SingleEnds, callVars, bufferVars, valueVars, exitVars
  <1>11. ExecutorPath'
    BY <1>1, <1>2, <1>3, <1>4 DEF ExecutorPath
  <1>12. ExecutorPayload'
    BY <1>1, <1>2, <1>3, <1>4 DEF ExecutorPayload
  <1>13. ScopedPath'
    <2>1. ScopedCall'
      BY <1>1, <1>2, <1>3, <1>4, PayloadAssumption DEF IInv, ScopedPath,
         ScopedCall, ScopedTask, Control, OnThreads, TypeOK, OtherPanic, Index,
         Task, SingleEnds, callVars, bufferVars, valueVars, exitVars
    <2>2. ASSUME NEW j \in Task
          PROVE  ScopedTask(j)'
      BY <1>1, <1>2, <1>3, <1>4 DEF IInv, ScopedPath, ScopedTask,
         ScopedCall, Lives, LifeOf, Produced, Control, TypeOK, SingleEnds,
         callVars, bufferVars, valueVars, exitVars
    <2> QED
      BY <1>1, <1>2, <1>3, <1>4, <2>1, <2>2 DEF ScopedPath
  <1>14. ReturnsAllResultsInOrder'
    BY <1>1, <1>2, <1>3, <1>4 DEF IInv, ReturnsAllResultsInOrder, Control,
       Collected, ExecutorPath, ExecutorTask, ScopedPath, ScopedTask, Lives,
       LifeOf, Produced, TypeOK, SingleEnds, callVars, bufferVars, valueVars,
       exitVars
  <1> QED
    BY <1>5, <1>6, <1>7, <1>8, <1>9, <1>10, <1>11, <1>12, <1>13, <1>14 DEF
       IInv

(* The single-chunk call returns or unwinds. *)
LEMMA SingleExitsInv ==
    ASSUME IInv, SingleExits
    PROVE  IInv'
  <1>1. /\ TypeOK
        /\ Task \subseteq Index
        /\ Task' = Task
    BY TaskIndex DEF IInv, Task, SingleExits, callVars
  <1>2. executor = Null /\ executor' = executor
    BY <1>1 DEF IInv, Control, OnExecutor, OnThreads, SingleExits, callVars
  <1>3. num_chunks = 1
    BY <1>1 DEF IInv, Control, SingleExits
  <1>4. 0 \in Task /\ 0 \in Index /\ \A j \in Task : j = 0
    BY <1>1, <1>3, TaskIndex DEF IInv
  <1>5. TypeOK'
    <2>1. <<0>> \in Seq(Index)
      BY <1>1, <1>2, <1>3, <1>4
    <2>2. home' \in [Index -> Place]
      BY <1>1, <1>2, <1>3, <1>4 DEF TypeOK, Place, SingleExits
    <2> QED
      BY <1>1, <1>2, <1>3, <1>4, <2>1, <2>2 DEF TypeOK, Terminal,
         SingleExits, callVars, bufferVars, valueVars, exitVars
  <1>6. Untouched'
    BY <1>1, <1>2, <1>3, <1>4 DEF IInv, Untouched, TypeOK, SingleExits,
       callVars, bufferVars, valueVars, exitVars
  <1>7. Lives'
    <2> SUFFICES ASSUME NEW j \in Task
                 PROVE  LifeOf(j)'
      BY <1>1, <1>2, <1>3, <1>4 DEF Lives
    <2> QED
      BY <1>1, <1>2, <1>3, <1>4 DEF IInv, Lives, LifeOf, Produced, TypeOK,
         SingleExits, callVars, bufferVars, valueVars, exitVars, ScopedPath,
         ScopedTask
  <1>8. Fresh'
    BY <1>1, <1>2, <1>3, <1>4 DEF IInv, Fresh, SingleExits, callVars,
       bufferVars, valueVars, exitVars
  <1>9. Control'
    BY <1>1, <1>2, <1>3, <1>4, MaxChunksAssumption DEF IInv, Control,
       TypeOK, OnExecutor, OnThreads, SingleExits, callVars, bufferVars,
       valueVars, exitVars
  <1>10. Collected'
    BY <1>1, <1>2, <1>3, <1>4 DEF IInv, Collected, Control, TypeOK,
       SingleExits, callVars, bufferVars, valueVars, exitVars
  <1>11. ExecutorPath'
    BY <1>1, <1>2, <1>3, <1>4 DEF ExecutorPath
  <1>12. ExecutorPayload'
    BY <1>1, <1>2, <1>3, <1>4 DEF ExecutorPayload
  <1>13. ScopedPath'
    <2>1. ScopedCall'
      <3>1. buffer' = "none" /\ num_chunks' = num_chunks /\ task' = task
        BY <1>1, <1>2, <1>3, <1>4 DEF IInv, ScopedPath, ScopedCall,
           SingleExits, callVars, bufferVars, valueVars, exitVars
      <3>2. 0 # Null
        BY PayloadAssumption
      <3>3. CASE pc' = "returned"
        BY <3>1, <3>3 DEF ScopedCall
      <3>4. CASE pc' = "raised" /\ raised' = 0 /\ task[0] = "panicked"
        BY <1>1, <1>2, <1>3, <1>4, <3>1, <3>2, <3>4 DEF ScopedCall
      <3> QED
        BY <3>3, <3>4 DEF SingleExits
    <2>2. ASSUME NEW j \in Task
          PROVE  ScopedTask(j)'
      BY <1>1, <1>2, <1>3, <1>4 DEF IInv, ScopedPath, ScopedTask,
         ScopedCall, Lives, LifeOf, Produced, Control, TypeOK, SingleExits,
         callVars, bufferVars, valueVars, exitVars
    <2> QED
      BY <1>1, <1>2, <1>3, <1>4, <2>1, <2>2 DEF ScopedPath
  <1>14. ReturnsAllResultsInOrder'
    <2>1. <<0>> = [k \in 1 .. 1 |-> k - 1]
      OBVIOUS
    <2> QED
      BY <1>1, <1>2, <1>3, <1>4, <2>1 DEF IInv, ReturnsAllResultsInOrder,
         Lives, LifeOf, ScopedPath, ScopedTask, SingleExits, callVars,
         bufferVars, valueVars, exitVars
  <1> QED
    BY <1>5, <1>6, <1>7, <1>8, <1>9, <1>10, <1>11, <1>12, <1>13, <1>14 DEF
       IInv

(* A worker is spawned for the next index. *)
LEMMA SpawnInv ==
    ASSUME IInv, Spawn
    PROVE  IInv'
  <1>1. /\ TypeOK
        /\ Task \subseteq Index
        /\ Task' = Task
    BY TaskIndex DEF IInv, Task, Spawn, callVars
  <1>2. executor = Null /\ executor' = executor
    BY <1>1 DEF IInv, Control, OnExecutor, OnThreads, Spawn, callVars
  <1>3. cursor \in Task /\ cursor \in Index /\ cursor # num_chunks - 1
    BY <1>1, TaskIndex DEF IInv, Control, Spawn
  <1>4. task[cursor] = "idle" /\ drops[cursor] = 0 /\ home[cursor] = "nowhere"
    BY <1>1, <1>2, <1>3, TaskIndex DEF IInv, ScopedPath, ScopedTask, Lives,
       LifeOf, Produced, Spawn
  <1>5. TypeOK'
    <2>1. task' \in [Index -> TaskState]
      BY <1>1, <1>2, <1>3, <1>4 DEF TypeOK, TaskState, InFlight, Spawn
    <2>2. cursor' \in 0 .. MaxChunks
      BY <1>1, <1>2, <1>3, <1>4, MaxChunksAssumption DEF TypeOK, Spawn
    <2> QED
      BY <1>1, <1>2, <1>3, <1>4, <2>1, <2>2 DEF TypeOK, Spawn, callVars,
         bufferVars, valueVars, exitVars
  <1>6. Untouched'
    BY <1>1, <1>2, <1>3, <1>4 DEF IInv, Untouched, TypeOK, Spawn, callVars,
       bufferVars, valueVars, exitVars
  <1>7. Lives'
    <2> SUFFICES ASSUME NEW j \in Task
                 PROVE  LifeOf(j)'
      BY <1>1, <1>2, <1>3, <1>4 DEF Lives
    <2> QED
      BY <1>1, <1>2, <1>3, <1>4 DEF IInv, Lives, LifeOf, Produced, TypeOK,
         Spawn, callVars, bufferVars, valueVars, exitVars, ScopedPath,
         ScopedTask
  <1>8. Fresh'
    BY <1>1, <1>2, <1>3, <1>4 DEF IInv, Fresh, Spawn, callVars, bufferVars,
       valueVars, exitVars
  <1>9. Control'
    BY <1>1, <1>2, <1>3, <1>4, MaxChunksAssumption DEF IInv, Control,
       TypeOK, OnExecutor, OnThreads, Spawn, callVars, bufferVars, valueVars,
       exitVars
  <1>10. Collected'
    BY <1>1, <1>2, <1>3, <1>4 DEF IInv, Collected, Control, TypeOK, Spawn,
       callVars, bufferVars, valueVars, exitVars
  <1>11. ExecutorPath'
    BY <1>1, <1>2, <1>3, <1>4 DEF ExecutorPath
  <1>12. ExecutorPayload'
    BY <1>1, <1>2, <1>3, <1>4 DEF ExecutorPayload
  <1>13. ScopedPath'
    <2>1. ScopedCall'
      BY <1>1, <1>2, <1>3, <1>4, PayloadAssumption DEF IInv, ScopedPath,
         ScopedCall, ScopedTask, Control, OnThreads, TypeOK, OtherPanic, Index,
         Task, Spawn, callVars, bufferVars, valueVars, exitVars
    <2>2. ASSUME NEW j \in Task
          PROVE  ScopedTask(j)'
      <3>1. /\ cursor' = cursor + 1 /\ cursor \in Nat /\ j \in Nat
            /\ pc = "spawn" /\ pc' = "spawn" /\ home' = home
            /\ ScopedTask(j)
        BY <1>1, <1>2, <1>3, <1>4, TaskIndex DEF IInv, ScopedPath, Spawn,
           callVars, bufferVars, valueVars, exitVars
      <3>2. CASE j = cursor
        BY <1>1, <1>2, <1>3, <1>4, <3>1, <3>2 DEF ScopedTask, TypeOK, Spawn
      <3>3. CASE j # cursor
        BY <1>1, <1>2, <1>3, <1>4, <3>1, <3>3 DEF ScopedTask, TypeOK, Spawn
      <3> QED
        BY <3>2, <3>3
    <2> QED
      BY <1>1, <1>2, <1>3, <1>4, <2>1, <2>2 DEF ScopedPath
  <1>14. ReturnsAllResultsInOrder'
    BY <1>1, <1>2, <1>3, <1>4 DEF IInv, ReturnsAllResultsInOrder, Control,
       Collected, ExecutorPath, ExecutorTask, ScopedPath, ScopedTask, Lives,
       LifeOf, Produced, TypeOK, Spawn, callVars, bufferVars, valueVars,
       exitVars
  <1> QED
    BY <1>5, <1>6, <1>7, <1>8, <1>9, <1>10, <1>11, <1>12, <1>13, <1>14 DEF
       IInv

(* scope.spawn panics before the last index is started. *)
LEMMA SpawnFailsInv ==
    ASSUME IInv, SpawnFails
    PROVE  IInv'
  <1>1. /\ TypeOK
        /\ Task \subseteq Index
        /\ Task' = Task
    BY TaskIndex DEF IInv, Task, SpawnFails, callVars
  <1>2. executor = Null /\ executor' = executor
    BY <1>1 DEF IInv, Control, OnExecutor, OnThreads, SpawnFails, callVars
  <1>3. num_chunks - 1 \in Task /\ ~(num_chunks - 1 < cursor)
    BY <1>1, TaskIndex DEF IInv, Control, SpawnFails
  <1>4. TypeOK'
    BY <1>1, <1>2, <1>3, MaxChunksAssumption DEF TypeOK, SpawnFails,
       callVars, bufferVars, valueVars, exitVars, InFlight, Panicked,
       TaskState, Place, Terminal, OnExecutor, OnThreads, Working, OtherPanic
  <1>5. Untouched'
    BY <1>1, <1>2, <1>3 DEF IInv, Untouched, TypeOK, SpawnFails, callVars,
       bufferVars, valueVars, exitVars
  <1>6. Lives'
    <2> SUFFICES ASSUME NEW j \in Task
                 PROVE  LifeOf(j)'
      BY <1>1, <1>2, <1>3 DEF Lives
    <2> QED
      BY <1>1, <1>2, <1>3 DEF IInv, Lives, LifeOf, Produced, TypeOK,
         SpawnFails, callVars, bufferVars, valueVars, exitVars, ScopedPath,
         ScopedTask
  <1>7. Fresh'
    BY <1>1, <1>2, <1>3 DEF IInv, Fresh, SpawnFails, callVars, bufferVars,
       valueVars, exitVars
  <1>8. Control'
    BY <1>1, <1>2, <1>3, MaxChunksAssumption DEF IInv, Control, TypeOK,
       OnExecutor, OnThreads, SpawnFails, callVars, bufferVars, valueVars,
       exitVars
  <1>9. Collected'
    BY <1>1, <1>2, <1>3 DEF IInv, Collected, Control, TypeOK, SpawnFails,
       callVars, bufferVars, valueVars, exitVars
  <1>10. ExecutorPath'
    BY <1>1, <1>2, <1>3 DEF ExecutorPath
  <1>11. ExecutorPayload'
    BY <1>1, <1>2, <1>3 DEF ExecutorPayload
  <1>12. ScopedPath'
    <2>1. ScopedCall'
      <3>1. raised' \notin Index /\ raised' # Null
        BY PayloadAssumption DEF SpawnFails, OtherPanic, Index
      <3>2. task[num_chunks - 1] # "running"
        BY <1>1, <1>2, <1>3 DEF IInv, ScopedPath, ScopedTask, SpawnFails
      <3> QED
        BY <1>1, <1>2, <1>3, <3>1, <3>2 DEF IInv, ScopedPath, ScopedCall,
           SpawnFails, callVars, bufferVars, valueVars, exitVars
    <2>2. ASSUME NEW j \in Task
          PROVE  ScopedTask(j)'
      BY <1>1, <1>2, <1>3 DEF IInv, ScopedPath, ScopedTask, ScopedCall,
         Lives, LifeOf, Produced, Control, TypeOK, SpawnFails, callVars,
         bufferVars, valueVars, exitVars
    <2> QED
      BY <1>1, <1>2, <1>3, <2>1, <2>2 DEF ScopedPath
  <1>13. ReturnsAllResultsInOrder'
    BY <1>1, <1>2, <1>3 DEF IInv, ReturnsAllResultsInOrder, Control,
       Collected, ExecutorPath, ExecutorTask, ScopedPath, ScopedTask, Lives,
       LifeOf, Produced, TypeOK, SpawnFails, callVars, bufferVars, valueVars,
       exitVars
  <1> QED
    BY <1>4, <1>5, <1>6, <1>7, <1>8, <1>9, <1>10, <1>11, <1>12, <1>13 DEF
       IInv

(* All workers spawned: the last index runs inline. *)
LEMMA StartLastInv ==
    ASSUME IInv, StartLast
    PROVE  IInv'
  <1>1. /\ TypeOK
        /\ Task \subseteq Index
        /\ Task' = Task
    BY TaskIndex DEF IInv, Task, StartLast, callVars
  <1>2. executor = Null /\ executor' = executor
    BY <1>1 DEF IInv, Control, OnExecutor, OnThreads, StartLast, callVars
  <1>3. /\ cursor \in Task /\ cursor \in Index
        /\ cursor \in Nat /\ cursor = num_chunks - 1
    BY <1>1, TaskIndex DEF IInv, Control, StartLast
  <1>4. TypeOK'
    BY <1>1, <1>2, <1>3, MaxChunksAssumption DEF TypeOK, StartLast,
       callVars, bufferVars, valueVars, exitVars, InFlight, Panicked,
       TaskState, Place, Terminal, OnExecutor, OnThreads, Working, OtherPanic
  <1>5. Untouched'
    BY <1>1, <1>2, <1>3 DEF IInv, Untouched, TypeOK, StartLast, callVars,
       bufferVars, valueVars, exitVars
  <1>6. Lives'
    <2> SUFFICES ASSUME NEW j \in Task
                 PROVE  LifeOf(j)'
      BY <1>1, <1>2, <1>3 DEF Lives
    <2> QED
      BY <1>1, <1>2, <1>3 DEF IInv, Lives, LifeOf, Produced, TypeOK,
         StartLast, callVars, bufferVars, valueVars, exitVars, ScopedPath,
         ScopedTask
  <1>7. Fresh'
    BY <1>1, <1>2, <1>3 DEF IInv, Fresh, StartLast, callVars, bufferVars,
       valueVars, exitVars
  <1>8. Control'
    BY <1>1, <1>2, <1>3, MaxChunksAssumption DEF IInv, Control, TypeOK,
       OnExecutor, OnThreads, StartLast, callVars, bufferVars, valueVars,
       exitVars
  <1>9. Collected'
    BY <1>1, <1>2, <1>3 DEF IInv, Collected, Control, TypeOK, StartLast,
       callVars, bufferVars, valueVars, exitVars
  <1>10. ExecutorPath'
    BY <1>1, <1>2, <1>3 DEF ExecutorPath
  <1>11. ExecutorPayload'
    BY <1>1, <1>2, <1>3 DEF ExecutorPayload
  <1>12. ScopedPath'
    <2>1. ScopedCall'
      BY <1>1, <1>2, <1>3, PayloadAssumption DEF IInv, ScopedPath,
         ScopedCall, ScopedTask, Control, OnThreads, TypeOK, OtherPanic, Index,
         Task, StartLast, callVars, bufferVars, valueVars, exitVars
    <2>2. ASSUME NEW j \in Task
          PROVE  ScopedTask(j)'
      <3>1. /\ cursor' = cursor /\ num_chunks' = num_chunks /\ j \in Nat
            /\ pc = "spawn" /\ pc' = "inline" /\ home' = home
            /\ ScopedTask(j)
        BY <1>1, <1>2, <1>3, TaskIndex DEF IInv, ScopedPath, StartLast,
           callVars, bufferVars, valueVars, exitVars
      <3>2. CASE j = cursor
        BY <1>1, <1>2, <1>3, <3>1, <3>2 DEF ScopedTask, TypeOK, StartLast
      <3>3. CASE j # cursor
        <4>1. j < cursor
          BY <1>1, <1>2, <1>3, <3>1, <3>3, TaskIndex
        <4> QED
          BY <1>1, <1>2, <1>3, <3>1, <3>3, <4>1 DEF ScopedTask, TypeOK,
             StartLast
      <3> QED
        BY <3>2, <3>3
    <2> QED
      BY <1>1, <1>2, <1>3, <2>1, <2>2 DEF ScopedPath
  <1>13. ReturnsAllResultsInOrder'
    BY <1>1, <1>2, <1>3 DEF IInv, ReturnsAllResultsInOrder, Control,
       Collected, ExecutorPath, ExecutorTask, ScopedPath, ScopedTask, Lives,
       LifeOf, Produced, TypeOK, StartLast, callVars, bufferVars, valueVars,
       exitVars
  <1> QED
    BY <1>4, <1>5, <1>6, <1>7, <1>8, <1>9, <1>10, <1>11, <1>12, <1>13 DEF
       IInv

(* A worker ends and leaves its outcome in its packet. *)
LEMMA WorkerEndsInv ==
    ASSUME IInv, NEW i \in Task, WorkerEnds(i)
    PROVE  IInv'
  <1>1. /\ TypeOK
        /\ Task \subseteq Index
        /\ Task' = Task
    BY TaskIndex DEF IInv, Task, WorkerEnds, callVars
  <1>2. executor = Null /\ executor' = executor
    BY <1>1 DEF IInv, Control, OnExecutor, OnThreads, WorkerEnds, callVars
  <1>3. i # num_chunks - 1 /\ i \in Nat /\ num_chunks > 1
    BY <1>1, TaskIndex DEF IInv, WorkerEnds
  <1>4. TypeOK'
    <2>1. task' \in [Index -> TaskState]
      BY <1>1, <1>2, <1>3 DEF TypeOK, TaskState, Panicked, WorkerEnds
    <2>2. home' \in [Index -> Place]
      BY <1>1, <1>2, <1>3 DEF TypeOK, Place, WorkerEnds
    <2> QED
      BY <1>1, <1>2, <1>3, <2>1, <2>2 DEF TypeOK, WorkerEnds, callVars,
         bufferVars, valueVars, exitVars
  <1>5. Untouched'
    BY <1>1, <1>2, <1>3 DEF IInv, Untouched, TypeOK, WorkerEnds, callVars,
       bufferVars, valueVars, exitVars
  <1>6. Lives'
    <2> SUFFICES ASSUME NEW j \in Task
                 PROVE  LifeOf(j)'
      BY <1>1, <1>2, <1>3 DEF Lives
    <2> QED
      BY <1>1, <1>2, <1>3 DEF IInv, Lives, LifeOf, Produced, TypeOK,
         WorkerEnds, callVars, bufferVars, valueVars, exitVars, ScopedPath,
         ScopedTask
  <1>7. Fresh'
    BY <1>1, <1>2, <1>3 DEF IInv, Fresh, WorkerEnds, callVars, bufferVars,
       valueVars, exitVars
  <1>8. Control'
    BY <1>1, <1>2, <1>3, MaxChunksAssumption DEF IInv, Control, TypeOK,
       OnExecutor, OnThreads, WorkerEnds, callVars, bufferVars, valueVars,
       exitVars
  <1>9. Collected'
    BY <1>1, <1>2, <1>3 DEF IInv, Collected, Control, TypeOK, WorkerEnds,
       callVars, bufferVars, valueVars, exitVars
  <1>10. ExecutorPath'
    BY <1>1, <1>2, <1>3 DEF ExecutorPath
  <1>11. ExecutorPayload'
    BY <1>1, <1>2, <1>3 DEF ExecutorPayload
  <1>12. ScopedPath'
    <2>1. ScopedCall'
      <3>1. \A k \in Index : task[k] # "running" => task'[k] = task[k]
        BY <1>1, <1>2, <1>3 DEF TypeOK, WorkerEnds
      <3>2. num_chunks - 1 \in Index /\ task'[num_chunks - 1] =
         task[num_chunks - 1]
        <4>1. num_chunks - 1 \in Index
          BY <1>1, <1>3, TaskIndex DEF TypeOK, WorkerEnds
        <4> QED
          BY <1>1, <1>3, <4>1 DEF TypeOK, WorkerEnds
      <3>3. \A k \in 0 .. raised - 1 : raised \in Task => k \in Index
        BY <1>1, <1>2, <1>3, TaskIndex DEF Index, Task, TypeOK
      <3> QED
        BY <1>1, <1>2, <1>3, <3>1, <3>2, <3>3 DEF IInv, ScopedPath,
           ScopedCall, WorkerEnds, callVars, bufferVars, valueVars, exitVars
    <2>2. ASSUME NEW j \in Task
          PROVE  ScopedTask(j)'
      <3>1. CASE j = i
        <4>1. ScopedTask(i) /\ task[i] = "running"
          BY <1>1, <1>2, <1>3 DEF IInv, ScopedPath, WorkerEnds
        <4>2. pc \notin {"single", "single run", "single end"}
          <5>1. num_chunks # 1
            BY <1>1, <1>2, <1>3, TaskIndex
          <5> QED
            BY <5>1 DEF IInv, Control
        <4>3. /\ pc \notin {"idle", "returned", "raised"}
              /\ pc = "join" => ~(i < cursor)
              /\ pc = "spawn" => i < cursor
          BY <4>1 DEF ScopedTask
        <4>4. /\ pc' = pc /\ cursor' = cursor /\ num_chunks' = num_chunks
              /\ \/ task'[i] = "done" /\ home'[i] = "packet"
                 \/ task'[i] = "panicked"
          BY <1>1, <1>2, <1>3 DEF TypeOK, WorkerEnds, callVars, bufferVars,
             valueVars, exitVars
        <4> QED
          BY <1>1, <1>2, <1>3, <3>1, <4>2, <4>3, <4>4 DEF ScopedTask
      <3>2. CASE j # i
        BY <3>2, <1>1, <1>2, <1>3 DEF IInv, ScopedPath, ScopedTask, TypeOK,
           WorkerEnds, callVars, bufferVars, valueVars, exitVars
      <3> QED
        BY <3>1, <3>2
    <2> QED
      BY <1>1, <1>2, <1>3, <2>1, <2>2 DEF ScopedPath
  <1>13. ReturnsAllResultsInOrder'
    BY <1>1, <1>2, <1>3 DEF IInv, ReturnsAllResultsInOrder, Control,
       Collected, ExecutorPath, ExecutorTask, ScopedPath, ScopedTask, Lives,
       LifeOf, Produced, TypeOK, WorkerEnds, callVars, bufferVars, valueVars,
       exitVars
  <1> QED
    BY <1>4, <1>5, <1>6, <1>7, <1>8, <1>9, <1>10, <1>11, <1>12, <1>13 DEF
       IInv

(* The inline run ends: joining starts, or the closure unwinds. *)
LEMMA LastEndsInv ==
    ASSUME IInv, LastEnds
    PROVE  IInv'
  <1>1. /\ TypeOK
        /\ Task \subseteq Index
        /\ Task' = Task
    BY TaskIndex DEF IInv, Task, LastEnds, callVars
  <1>2. executor = Null /\ executor' = executor
    BY <1>1 DEF IInv, Control, OnExecutor, OnThreads, LastEnds, callVars
  <1>3. /\ num_chunks \in Nat
        /\ num_chunks - 1 \in Task /\ num_chunks - 1 \in Index
    BY <1>1, TaskIndex DEF IInv, Control, LastEnds
  <1>4. drops[num_chunks - 1] = 0 /\ task[num_chunks - 1] = "running"
    BY <1>1, <1>2, <1>3 DEF IInv, LastEnds, ScopedPath, ScopedCall, Lives,
       LifeOf, Produced
  <1>5. TypeOK'
    <2>1. task' \in [Index -> TaskState]
      BY <1>1, <1>2, <1>3, <1>4 DEF TypeOK, TaskState, Panicked, LastEnds
    <2>2. home' \in [Index -> Place]
      BY <1>1, <1>2, <1>3, <1>4 DEF TypeOK, Place, LastEnds
    <2>3. cursor' \in 0 .. MaxChunks /\ raised' \in Index \cup OtherPanic
       \cup {Null}
      BY <1>1, <1>2, <1>3, <1>4, MaxChunksAssumption DEF TypeOK, LastEnds
    <2>4. pc' \in {"join", "unwind"}
      BY DEF LastEnds
    <2> QED
      BY <1>1, <1>2, <1>3, <1>4, <2>1, <2>2, <2>3, <2>4 DEF TypeOK, Working,
         OnThreads, LastEnds, callVars, bufferVars, valueVars, exitVars
  <1>6. Untouched'
    BY <1>1, <1>2, <1>3, <1>4 DEF IInv, Untouched, TypeOK, LastEnds,
       callVars, bufferVars, valueVars, exitVars
  <1>7. Lives'
    <2> SUFFICES ASSUME NEW j \in Task
                 PROVE  LifeOf(j)'
      BY <1>1, <1>2, <1>3, <1>4 DEF Lives
    <2>1. CASE j = num_chunks - 1
      <3>1. home[j] = "nowhere" /\ drops'[j] = 0
        BY <1>1, <1>2, <1>3, <1>4, <2>1 DEF IInv, Lives, LifeOf, Produced,
           LastEnds
      <3>2. \/ task'[j] = "done" /\ home'[j] = "local"
            \/ task'[j] = "panicked" /\ home'[j] = home[j]
        BY <1>1, <1>2, <1>3, <1>4, <2>1 DEF TypeOK, LastEnds
      <3> QED
        BY <3>1, <3>2 DEF LifeOf, Produced
    <2>2. CASE j # num_chunks - 1
      BY <1>1, <1>2, <1>3, <1>4, <2>2 DEF IInv, Lives, LifeOf, Produced,
         TypeOK, LastEnds, callVars, bufferVars, valueVars, exitVars
    <2> QED
      BY <2>1, <2>2
  <1>8. Fresh'
    BY <1>1, <1>2, <1>3, <1>4 DEF IInv, Fresh, LastEnds, callVars,
       bufferVars, valueVars, exitVars
  <1>9. Control'
    <2>0. num_chunks' = num_chunks /\ num_chunks >= 1
      BY <1>1, <1>2, <1>3, <1>4 DEF IInv, Control, LastEnds, callVars
    <2>1. CASE pc' = "join" /\ cursor' = 0
      BY <1>1, <1>2, <1>3, <1>4, <2>1, <2>0 DEF Control, OnExecutor, OnThreads
    <2>2. CASE pc' = "unwind"
      BY <1>1, <1>2, <1>3, <1>4, <2>2, <2>0 DEF Control, OnExecutor, OnThreads
    <2> QED
      BY <2>1, <2>2 DEF LastEnds
  <1>10. Collected'
    <2>1. CASE pc' = "join"
      <3>1. results' = << >> /\ cursor' = 0
        BY <2>1 DEF IInv, Collected, LastEnds
      <3>2. << >> = [k \in 1 .. 0 |-> k - 1]
        OBVIOUS
      <3> QED
        BY <2>1, <3>1, <3>2 DEF Collected
    <2>2. CASE pc' = "unwind"
      BY <2>2 DEF Collected
    <2> QED
      BY <2>1, <2>2 DEF LastEnds
  <1>11. ExecutorPath'
    BY <1>1, <1>2, <1>3, <1>4 DEF ExecutorPath
  <1>12. ExecutorPayload'
    BY <1>1, <1>2, <1>3, <1>4 DEF ExecutorPayload
  <1>13. ScopedPath'
    <2>1. ScopedCall'
      <3>1. \/ pc' = "join" /\ task'[num_chunks - 1] = "done"
            \/ /\ pc' = "unwind" /\ task'[num_chunks - 1] = "panicked"
               /\ raised' = num_chunks - 1
        BY <1>1, <1>2, <1>3, <1>4 DEF TypeOK, LastEnds
      <3>2. num_chunks - 1 # Null
        BY <1>1, <1>2, <1>3, <1>4, PayloadAssumption
      <3>3. buffer' = "none" /\ num_chunks' = num_chunks
        BY <1>1, <1>2, <1>3, <1>4 DEF IInv, ScopedPath, ScopedCall,
           LastEnds, callVars, bufferVars, valueVars, exitVars
      <3> QED
        BY <1>1, <1>2, <1>3, <1>4, <3>1, <3>2, <3>3 DEF ScopedCall
    <2>2. ASSUME NEW j \in Task
          PROVE  ScopedTask(j)'
      <3>1. /\ num_chunks' = num_chunks /\ j \in Nat
            /\ \/ pc' = "join" /\ cursor' = 0
               \/ pc' = "unwind" /\ home' = home
            /\ ScopedTask(j) /\ pc = "inline"
        BY <1>1, <1>2, <1>3, <1>4, TaskIndex DEF IInv, ScopedPath, LastEnds,
           callVars, bufferVars, valueVars, exitVars
      <3>2. CASE j = num_chunks - 1
        <4>1. \/ pc' = "join" /\ task'[j] = "done" /\ home'[j] = "local"
              \/ pc' = "unwind" /\ task'[j] = "panicked"
          BY <1>1, <1>2, <1>3, <1>4, <3>2 DEF TypeOK, LastEnds
        <4> QED
          BY <1>1, <1>2, <1>3, <1>4, <3>1, <3>2, <4>1 DEF ScopedTask
      <3>3. CASE j # num_chunks - 1
        <4>1. task'[j] = task[j] /\ home'[j] = home[j]
          BY <1>1, <1>2, <1>3, <1>4, <3>3 DEF TypeOK, LastEnds
        <4>2. ~(j < 0)
          BY <3>1
        <4>3. CASE pc' = "join" /\ cursor' = 0
          BY <3>1, <3>3, <4>1, <4>2, <4>3 DEF ScopedTask
        <4>4. CASE pc' = "unwind"
          BY <3>1, <4>1, <4>4 DEF ScopedTask
        <4> QED
          BY <3>1, <4>3, <4>4
      <3> QED
        BY <3>2, <3>3
    <2> QED
      BY <1>1, <1>2, <1>3, <1>4, <2>1, <2>2 DEF ScopedPath
  <1>14. ReturnsAllResultsInOrder'
    BY <1>1, <1>2, <1>3, <1>4 DEF IInv, ReturnsAllResultsInOrder, Control,
       Collected, ExecutorPath, ExecutorTask, ScopedPath, ScopedTask, Lives,
       LifeOf, Produced, TypeOK, LastEnds, callVars, bufferVars, valueVars,
       exitVars
  <1> QED
    BY <1>5, <1>6, <1>7, <1>8, <1>9, <1>10, <1>11, <1>12, <1>13, <1>14 DEF
       IInv

(* The handle of the next index is joined. *)
LEMMA JoinInv ==
    ASSUME IInv, Join
    PROVE  IInv'
  <1>1. /\ TypeOK
        /\ Task \subseteq Index
        /\ Task' = Task
    BY TaskIndex DEF IInv, Task, Join, NextHandle, callVars
  <1>2. executor = Null /\ executor' = executor
    BY <1>1 DEF IInv, Control, OnExecutor, OnThreads, Join, NextHandle,
       callVars
  <1>3. /\ cursor \in Task /\ cursor \in Index /\ cursor \in Nat
        /\ num_chunks \in Nat /\ cursor < num_chunks - 1
    BY <1>1, TaskIndex DEF IInv, Control, Join
  <1>4. TypeOK'
    <2>1. results' \in Seq(Index)
      <3>1. results \in Seq(Index) /\ Append(results, cursor) \in Seq(Index)
        BY <1>1, <1>2, <1>3 DEF TypeOK
      <3> QED
        BY <3>1 DEF Join, NextHandle
    <2>2. home' \in [Index -> Place]
      BY <1>1, <1>2, <1>3 DEF TypeOK, Place, Join, NextHandle
    <2>3. cursor' \in 0 .. MaxChunks /\ raised' \in Index \cup OtherPanic
       \cup {Null}
      BY <1>1, <1>2, <1>3, MaxChunksAssumption DEF TypeOK, Join, NextHandle
    <2>4. pc' \in {"join", "unwind"}
      BY DEF Join
    <2> QED
      BY <1>1, <1>2, <1>3, <2>1, <2>2, <2>3, <2>4 DEF TypeOK, Working,
         OnThreads, Join, NextHandle, callVars, bufferVars, valueVars, exitVars
  <1>5. Untouched'
    BY <1>1, <1>2, <1>3 DEF IInv, Untouched, TypeOK, Join, NextHandle,
       callVars, bufferVars, valueVars, exitVars
  <1>6. Lives'
    <2> SUFFICES ASSUME NEW j \in Task
                 PROVE  LifeOf(j)'
      BY <1>1, <1>2, <1>3 DEF Lives
    <2>1. CASE j = cursor
      <3>1. task[j] = "done" => home[j] = "packet" /\ drops[j] = 0
        BY <1>1, <1>2, <1>3, <2>1 DEF IInv, Lives, LifeOf, ScopedPath,
           ScopedTask, Join
      <3> QED
        BY <1>1, <1>2, <1>3, <2>1, <3>1 DEF IInv, Lives, LifeOf, Produced,
           TypeOK, Join, NextHandle, callVars, bufferVars, valueVars, exitVars
    <2>2. CASE j # cursor
      BY <1>1, <1>2, <1>3, <2>2 DEF IInv, Lives, LifeOf, Produced, TypeOK,
         Join, NextHandle, callVars, bufferVars, valueVars, exitVars
    <2> QED
      BY <2>1, <2>2
  <1>7. Fresh'
    BY <1>1, <1>2, <1>3 DEF IInv, Fresh, Join, NextHandle, callVars,
       bufferVars, valueVars, exitVars
  <1>8. Control'
    <2>0. num_chunks' = num_chunks /\ num_chunks >= 1
      BY <1>1, <1>2, <1>3 DEF IInv, Control, Join, callVars
    <2>1. CASE pc' = "join" /\ cursor' = cursor + 1
      BY <1>1, <1>2, <1>3, <2>1, <2>0 DEF Control, OnExecutor, OnThreads
    <2>2. CASE pc' = "unwind"
      BY <1>1, <1>2, <1>3, <2>2, <2>0 DEF Control, OnExecutor, OnThreads
    <2> QED
      BY <2>1, <2>2 DEF Join
  <1>9. Collected'
    <2>1. CASE pc' = "unwind"
      BY <2>1 DEF Collected
    <2>2. CASE pc' # "unwind"
      <3>1. /\ pc' = "join" /\ cursor' = cursor + 1
            /\ results' = Append(results, cursor)
        BY <2>2 DEF Join, NextHandle
      <3>2. results = [k \in 1 .. cursor |-> k - 1]
        BY DEF IInv, Collected, Join
      <3>3. Append(results, cursor) = [k \in 1 .. cursor + 1 |-> k - 1]
        BY <1>1, <1>2, <1>3, <3>2, AppendIndex
      <3> QED
        BY <3>1, <3>3 DEF Collected
    <2> QED
      BY <2>1, <2>2
  <1>10. ExecutorPath'
    BY <1>1, <1>2, <1>3 DEF ExecutorPath
  <1>11. ExecutorPayload'
    BY <1>1, <1>2, <1>3 DEF ExecutorPayload
  <1>12. ScopedPath'
    <2>1. ScopedCall'
      <3>1. task' = task /\ buffer' = buffer /\ num_chunks' = num_chunks
        BY DEF Join, NextHandle, callVars, bufferVars, valueVars, exitVars
      <3>2. buffer = "none" /\ task[num_chunks - 1] = "done"
        BY <1>1, <1>2, <1>3 DEF IInv, ScopedPath, ScopedCall, Join
      <3>3. CASE pc' = "unwind" /\ raised' = cursor /\ task[cursor] =
         "panicked"
        <4>1. \A k \in 0 .. cursor - 1 : task[k] = "done"
          BY <1>1, <1>2, <1>3, TaskIndex DEF IInv, ScopedPath, ScopedTask, Join
        <4>2. cursor # Null
          BY <1>1, <1>2, <1>3, PayloadAssumption
        <4> QED
          BY <1>1, <1>2, <1>3, <3>1, <3>2, <3>3, <4>1, <4>2 DEF ScopedCall
      <3>4. CASE pc' = "join"
        BY <1>1, <1>2, <1>3, <3>1, <3>2, <3>4 DEF ScopedCall
      <3> QED
        BY <3>3, <3>4 DEF Join, NextHandle
    <2>2. ASSUME NEW j \in Task
          PROVE  ScopedTask(j)'
      <3>1. /\ num_chunks' = num_chunks /\ task' = task /\ j \in Nat
            /\ ScopedTask(j) /\ pc = "join"
        BY <1>1, <1>2, <1>3, TaskIndex DEF IInv, ScopedPath, Join,
           NextHandle, callVars, bufferVars, valueVars, exitVars
      <3>2. CASE pc' = "unwind" /\ home' = home
        BY <1>1, <1>2, <1>3, <3>1, <3>2 DEF ScopedTask
      <3>3. CASE /\ pc' = "join" /\ task[cursor] = "done"
                 /\ cursor' = cursor + 1
                 /\ home' = [home EXCEPT ![cursor] = "local"]
        <4>1. CASE j = cursor
          BY <1>1, <1>2, <1>3, <3>1, <3>3, <4>1 DEF ScopedTask, TypeOK
        <4>2. CASE j # cursor
          BY <1>1, <1>2, <1>3, <3>1, <3>3, <4>2 DEF ScopedTask, TypeOK
        <4> QED
          BY <4>1, <4>2
      <3> QED
        BY <3>2, <3>3 DEF Join, NextHandle
    <2> QED
      BY <1>1, <1>2, <1>3, <2>1, <2>2 DEF ScopedPath
  <1>13. ReturnsAllResultsInOrder'
    BY <1>1, <1>2, <1>3 DEF IInv, ReturnsAllResultsInOrder, Control,
       Collected, ExecutorPath, ExecutorTask, ScopedPath, ScopedTask, Lives,
       LifeOf, Produced, TypeOK, Join, NextHandle, callVars, bufferVars,
       valueVars, exitVars
  <1> QED
    BY <1>4, <1>5, <1>6, <1>7, <1>8, <1>9, <1>10, <1>11, <1>12, <1>13 DEF
       IInv

(* All handles joined: the Vec is complete. *)
LEMMA ScopeReturnsInv ==
    ASSUME IInv, ScopeReturns
    PROVE  IInv'
  <1>1. /\ TypeOK
        /\ Task \subseteq Index
        /\ Task' = Task
    BY TaskIndex DEF IInv, Task, ScopeReturns, callVars
  <1>2. executor = Null /\ executor' = executor
    BY <1>1 DEF IInv, Control, OnExecutor, OnThreads, ScopeReturns, callVars
  <1>3. /\ cursor \in Task /\ cursor \in Index
        /\ cursor \in Nat /\ cursor = num_chunks - 1
    BY <1>1, TaskIndex DEF IInv, Control, ScopeReturns
  <1>4. \A j \in Task : task[j] = "done" /\ home[j] = "local" /\ drops[j] = 0
    BY <1>1, <1>2, <1>3, TaskIndex DEF IInv, ScopedPath, ScopedTask,
       ScopedCall, Lives, LifeOf, ScopeReturns
  <1>5. TypeOK'
    <2>1. results' \in Seq(Index)
      BY <1>1, <1>2, <1>3, <1>4 DEF TypeOK, ScopeReturns
    <2>2. home' \in [Index -> Place]
      BY <1>1, <1>2, <1>3, <1>4 DEF TypeOK, Place, ScopeReturns
    <2> QED
      BY <1>1, <1>2, <1>3, <1>4, <2>1, <2>2 DEF TypeOK, Terminal,
         ScopeReturns, callVars, bufferVars, valueVars, exitVars
  <1>6. Untouched'
    BY <1>1, <1>2, <1>3, <1>4 DEF IInv, Untouched, TypeOK, ScopeReturns,
       callVars, bufferVars, valueVars, exitVars
  <1>7. Lives'
    <2> SUFFICES ASSUME NEW j \in Task
                 PROVE  LifeOf(j)'
      BY <1>1, <1>2, <1>3, <1>4 DEF Lives
    <2> QED
      BY <1>1, <1>2, <1>3, <1>4 DEF IInv, Lives, LifeOf, Produced, TypeOK,
         ScopeReturns, callVars, bufferVars, valueVars, exitVars, ScopedPath,
         ScopedTask
  <1>8. Fresh'
    BY <1>1, <1>2, <1>3, <1>4 DEF IInv, Fresh, ScopeReturns, callVars,
       bufferVars, valueVars, exitVars
  <1>9. Control'
    BY <1>1, <1>2, <1>3, <1>4, MaxChunksAssumption DEF IInv, Control,
       TypeOK, OnExecutor, OnThreads, ScopeReturns, callVars, bufferVars,
       valueVars, exitVars
  <1>10. Collected'
    BY <1>1, <1>2, <1>3, <1>4 DEF IInv, Collected, Control, TypeOK,
       ScopeReturns, callVars, bufferVars, valueVars, exitVars
  <1>11. ExecutorPath'
    BY <1>1, <1>2, <1>3, <1>4 DEF ExecutorPath
  <1>12. ExecutorPayload'
    BY <1>1, <1>2, <1>3, <1>4 DEF ExecutorPayload
  <1>13. ScopedPath'
    <2>1. ScopedCall'
      BY <1>1, <1>2, <1>3, <1>4, PayloadAssumption DEF IInv, ScopedPath,
         ScopedCall, ScopedTask, Control, OnThreads, TypeOK, OtherPanic, Index,
         Task, ScopeReturns, callVars, bufferVars, valueVars, exitVars
    <2>2. ASSUME NEW j \in Task
          PROVE  ScopedTask(j)'
      <3>1. home'[j] = "caller" /\ task'[j] = "done" /\ pc' = "returned"
        BY <1>1, <1>2, <1>3, <1>4 DEF ScopeReturns
      <3> QED
        BY <1>1, <1>2, <1>3, <1>4, <3>1 DEF ScopedTask
    <2> QED
      BY <1>1, <1>2, <1>3, <1>4, <2>1, <2>2 DEF ScopedPath
  <1>14. ReturnsAllResultsInOrder'
    <2>1. results = [k \in 1 .. cursor |-> k - 1]
      BY DEF IInv, Collected, ScopeReturns
    <2>2. Append(results, cursor) = [k \in 1 .. num_chunks |-> k - 1]
      <3>1. cursor + 1 = num_chunks
        BY <1>1, <1>2, <1>3, <1>4, TaskIndex
      <3> QED
        BY <1>1, <1>2, <1>3, <1>4, <2>1, <3>1, AppendIndex
    <2> QED
      BY <1>1, <1>2, <1>3, <1>4, <2>2 DEF ReturnsAllResultsInOrder,
         ScopeReturns, callVars, bufferVars, valueVars, exitVars
  <1> QED
    BY <1>5, <1>6, <1>7, <1>8, <1>9, <1>10, <1>11, <1>12, <1>13, <1>14 DEF
       IInv

(* The closure unwinds and drops the results joined so far. *)
LEMMA UnwindLocalsInv ==
    ASSUME IInv, UnwindLocals
    PROVE  IInv'
  <1>1. /\ TypeOK
        /\ Task \subseteq Index
        /\ Task' = Task
    BY TaskIndex DEF IInv, Task, UnwindLocals, DropAll, callVars
  <1>2. executor = Null /\ executor' = executor
    BY <1>1 DEF IInv, Control, OnExecutor, OnThreads, UnwindLocals, DropAll,
       callVars
  <1>3. \A j \in Index :
          /\ drops'[j] = drops[j] + IF home[j] = "local" THEN 1 ELSE 0
          /\ home'[j] = IF home[j] = "local" THEN "nowhere" ELSE home[j]
    BY <1>1 DEF IInv, UnwindLocals, DropAll
  <1>4. TypeOK'
    <2>1. drops' \in [Index -> Nat]
      <3>1. drops' = [j \in Index |-> drops'[j]]
        BY DEF UnwindLocals, DropAll
      <3>2. ASSUME NEW j \in Index
            PROVE  drops'[j] \in Nat
        <4>1. drops[j] \in Nat
          BY <1>1 DEF TypeOK
        <4>2. drops'[j] = drops[j] + 1 \/ drops'[j] = drops[j] + 0
          BY <1>3
        <4> QED
          BY <4>1, <4>2
      <3> QED
        BY <3>1, <3>2
    <2>2. home' \in [Index -> Place]
      BY <1>1, <1>2, <1>3 DEF TypeOK, Place, UnwindLocals, DropAll
    <2>3. pc' \in Working \cup Terminal
      BY DEF UnwindLocals, Working, OnThreads, Terminal
    <2>4. results' \in Seq(Index)
      <3>1. << >> \in Seq(Index)
        OBVIOUS
      <3> QED
        BY <1>1, <3>1 DEF TypeOK, UnwindLocals, exitVars
    <2> QED
      BY <1>1, <1>2, <1>3, <2>1, <2>2, <2>3, <2>4 DEF TypeOK, UnwindLocals,
         callVars, bufferVars, valueVars, exitVars
  <1>5. Untouched'
    <2> SUFFICES ASSUME NEW j \in Index, j \notin Task
                 PROVE  task'[j] = "idle" /\ home'[j] = "nowhere" /\
                    drops'[j] = 0
      BY <1>1, <1>2, <1>3 DEF Untouched
    <2>1. task[j] = "idle" /\ home[j] = "nowhere" /\ drops[j] = 0
      BY DEF IInv, Untouched
    <2>2. home'[j] = "nowhere" /\ drops'[j] = drops[j] + 0
      BY <1>3, <2>1
    <2>3. task' = task
      BY DEF UnwindLocals
    <2> QED
      BY <2>1, <2>2, <2>3
  <1>6. Lives'
    <2> SUFFICES ASSUME NEW j \in Task
                 PROVE  LifeOf(j)'
      BY <1>1, <1>2, <1>3 DEF Lives
    <2>1. task' = task
      BY DEF UnwindLocals
    <2>2. drops[j] \in Nat /\ j \in Index
      BY <1>1, <1>2, <1>3 DEF TypeOK
    <2>3. CASE home[j] = "local"
      <3>1. task[j] = "done" /\ drops[j] = 0
        BY <1>1, <1>2, <1>3, <2>3 DEF IInv, Lives, LifeOf, Produced,
           ScopedPath, ScopedTask
      <3>2. home'[j] = "nowhere" /\ drops'[j] = 1
        BY <1>1, <1>2, <1>3, <2>2, <2>3, <3>1
      <3> QED
        BY <2>1, <3>1, <3>2 DEF LifeOf
    <2>4. CASE home[j] # "local"
      <3>1. home'[j] = home[j] /\ drops'[j] = drops[j]
        BY <1>1, <1>2, <1>3, <2>2, <2>4
      <3> QED
        BY <2>1, <3>1 DEF IInv, Lives, LifeOf, Produced
    <2> QED
      BY <2>3, <2>4
  <1>7. Fresh'
    BY <1>1, <1>2, <1>3 DEF IInv, Fresh, UnwindLocals, DropAll, callVars,
       bufferVars, valueVars, exitVars
  <1>8. Control'
      BY <1>1, <1>2, <1>3 DEF IInv, Control, OnExecutor, OnThreads,
         UnwindLocals, callVars, bufferVars, valueVars, exitVars
  <1>9. Collected'
      BY <1>1, <1>2, <1>3 DEF Collected, UnwindLocals
  <1>10. ExecutorPath'
    BY <1>1, <1>2, <1>3 DEF ExecutorPath
  <1>11. ExecutorPayload'
    BY <1>1, <1>2, <1>3 DEF ExecutorPayload
  <1>12. ScopedPath'
    <2>1. ScopedCall'
      BY <1>1, <1>2, <1>3 DEF IInv, ScopedPath, ScopedCall, UnwindLocals,
         callVars, bufferVars, valueVars, exitVars
    <2>2. ASSUME NEW j \in Task
          PROVE  ScopedTask(j)'
      <3>1. /\ num_chunks' = num_chunks /\ task' = task /\ cursor' = cursor
            /\ ScopedTask(j) /\ j \in Index
        BY <1>1, <1>2, <1>3 DEF IInv, ScopedPath, UnwindLocals, callVars,
           bufferVars, valueVars, exitVars
      <3> QED
        BY <1>1, <1>2, <1>3, <3>1 DEF ScopedTask, UnwindLocals, Quiescent,
           InFlight
    <2> QED
      BY <1>1, <1>2, <1>3, <2>1, <2>2 DEF ScopedPath
  <1>13. ReturnsAllResultsInOrder'
      BY <1>1, <1>2, <1>3 DEF ReturnsAllResultsInOrder, UnwindLocals
  <1> QED
    BY <1>4, <1>5, <1>6, <1>7, <1>8, <1>9, <1>10, <1>11, <1>12, <1>13 DEF
       IInv

(* The scope drops the unjoined packets and resumes the panic. *)
LEMMA ScopeRaisesInv ==
    ASSUME IInv, ScopeRaises
    PROVE  IInv'
  <1>1. /\ TypeOK
        /\ Task \subseteq Index
        /\ Task' = Task
    BY TaskIndex DEF IInv, Task, ScopeRaises, DropAll, callVars
  <1>2. executor = Null /\ executor' = executor
    BY <1>1 DEF IInv, Control, OnExecutor, OnThreads, ScopeRaises, DropAll,
       callVars
  <1>3. \A j \in Index :
          /\ drops'[j] = drops[j] + IF home[j] = "packet" THEN 1 ELSE 0
          /\ home'[j] = IF home[j] = "packet" THEN "nowhere" ELSE home[j]
    BY <1>1 DEF IInv, ScopeRaises, DropAll
  <1>4. TypeOK'
    <2>1. drops' \in [Index -> Nat]
      <3>1. drops' = [j \in Index |-> drops'[j]]
        BY DEF ScopeRaises, DropAll
      <3>2. ASSUME NEW j \in Index
            PROVE  drops'[j] \in Nat
        <4>1. drops[j] \in Nat
          BY <1>1 DEF TypeOK
        <4>2. drops'[j] = drops[j] + 1 \/ drops'[j] = drops[j] + 0
          BY <1>3
        <4> QED
          BY <4>1, <4>2
      <3> QED
        BY <3>1, <3>2
    <2>2. home' \in [Index -> Place]
      BY <1>1, <1>2, <1>3 DEF TypeOK, Place, ScopeRaises, DropAll
    <2>3. pc' \in Working \cup Terminal
      BY DEF ScopeRaises, Working, OnThreads, Terminal
    <2>4. results' \in Seq(Index)
      <3>1. << >> \in Seq(Index)
        OBVIOUS
      <3> QED
        BY <1>1, <3>1 DEF TypeOK, ScopeRaises, exitVars
    <2> QED
      BY <1>1, <1>2, <1>3, <2>1, <2>2, <2>3, <2>4 DEF TypeOK, ScopeRaises,
         callVars, bufferVars, valueVars, exitVars
  <1>5. Untouched'
    <2> SUFFICES ASSUME NEW j \in Index, j \notin Task
                 PROVE  task'[j] = "idle" /\ home'[j] = "nowhere" /\
                    drops'[j] = 0
      BY <1>1, <1>2, <1>3 DEF Untouched
    <2>1. task[j] = "idle" /\ home[j] = "nowhere" /\ drops[j] = 0
      BY DEF IInv, Untouched
    <2>2. home'[j] = "nowhere" /\ drops'[j] = drops[j] + 0
      BY <1>3, <2>1
    <2>3. task' = task
      BY DEF ScopeRaises
    <2> QED
      BY <2>1, <2>2, <2>3
  <1>6. Lives'
    <2> SUFFICES ASSUME NEW j \in Task
                 PROVE  LifeOf(j)'
      BY <1>1, <1>2, <1>3 DEF Lives
    <2>1. task' = task
      BY DEF ScopeRaises
    <2>2. drops[j] \in Nat /\ j \in Index
      BY <1>1, <1>2, <1>3 DEF TypeOK
    <2>3. CASE home[j] = "packet"
      <3>1. task[j] = "done" /\ drops[j] = 0
        BY <1>1, <1>2, <1>3, <2>3 DEF IInv, Lives, LifeOf, Produced,
           ScopedPath, ScopedTask
      <3>2. home'[j] = "nowhere" /\ drops'[j] = 1
        BY <1>1, <1>2, <1>3, <2>2, <2>3, <3>1
      <3> QED
        BY <2>1, <3>1, <3>2 DEF LifeOf
    <2>4. CASE home[j] # "packet"
      <3>1. home'[j] = home[j] /\ drops'[j] = drops[j]
        BY <1>1, <1>2, <1>3, <2>2, <2>4
      <3> QED
        BY <2>1, <3>1 DEF IInv, Lives, LifeOf, Produced
    <2> QED
      BY <2>3, <2>4
  <1>7. Fresh'
    BY <1>1, <1>2, <1>3 DEF IInv, Fresh, ScopeRaises, DropAll, callVars,
       bufferVars, valueVars, exitVars
  <1>8. Control'
      BY <1>1, <1>2, <1>3 DEF IInv, Control, OnExecutor, OnThreads,
         ScopeRaises, callVars, bufferVars, valueVars, exitVars
  <1>9. Collected'
      BY <1>1, <1>2, <1>3 DEF Collected, ScopeRaises
  <1>10. ExecutorPath'
    BY <1>1, <1>2, <1>3 DEF ExecutorPath
  <1>11. ExecutorPayload'
    BY <1>1, <1>2, <1>3 DEF ExecutorPayload
  <1>12. ScopedPath'
    <2>1. ScopedCall'
      BY <1>1, <1>2, <1>3 DEF IInv, ScopedPath, ScopedCall, ScopeRaises,
         callVars, bufferVars, valueVars, exitVars
    <2>2. ASSUME NEW j \in Task
          PROVE  ScopedTask(j)'
      <3>1. /\ num_chunks' = num_chunks /\ task' = task /\ cursor' = cursor
            /\ ScopedTask(j) /\ j \in Index
        BY <1>1, <1>2, <1>3 DEF IInv, ScopedPath, ScopeRaises, callVars,
           bufferVars, valueVars, exitVars
      <3> QED
        BY <1>1, <1>2, <1>3, <3>1 DEF ScopedTask, ScopeRaises, Quiescent,
           InFlight
    <2> QED
      BY <1>1, <1>2, <1>3, <2>1, <2>2 DEF ScopedPath
  <1>13. ReturnsAllResultsInOrder'
      BY <1>1, <1>2, <1>3 DEF ReturnsAllResultsInOrder, ScopeRaises
  <1> QED
    BY <1>4, <1>5, <1>6, <1>7, <1>8, <1>9, <1>10, <1>11, <1>12, <1>13 DEF
       IInv

-----------------------------------------------------------------------------
(* The other threads write the slot and nothing of the call.               *)
LEMMA SlotInv ==
    ASSUME IInv, PARALLEL_EXECUTOR' \in Executors \cup {Null},
           UNCHANGED <<bufferVars, valueVars, exitVars, pc, executor,
                       num_chunks, task, cursor>>
    PROVE  IInv'
  <1>1. TypeOK'
    BY DEF IInv, TypeOK, bufferVars, valueVars, exitVars
  <1>2. /\ Task' = Task
        /\ Untouched' /\ Lives' /\ Fresh' /\ Control' /\ Collected'
        /\ ReturnsAllResultsInOrder' /\ ExecutorPayload'
    BY DEF IInv, Task, Untouched, Lives, LifeOf, Produced, Fresh, Control,
       Collected, ReturnsAllResultsInOrder, ExecutorPayload, bufferVars,
       valueVars, exitVars
  <1>3. ExecutorPath'
    BY <1>2 DEF IInv, ExecutorPath, ExecutorCall, ExecutorTask, bufferVars,
       valueVars, exitVars
  <1>4. ScopedPath'
    <2>1. ScopedCall' <=> ScopedCall
      BY <1>2 DEF ScopedCall, bufferVars, valueVars, exitVars
    <2>2. \A i : ScopedTask(i)' <=> ScopedTask(i)
      BY <1>2 DEF ScopedTask, bufferVars, valueVars, exitVars
    <2> QED
      BY <1>2, <2>1, <2>2 DEF IInv, ScopedPath
  <1> QED
    BY <1>1, <1>2, <1>3, <1>4 DEF IInv

(* Entry of drive, with or without an executor in the slot.                *)
LEMMA DriveInv ==
    ASSUME IInv, NEW n \in 1 .. MaxChunks, drive(n)
    PROVE  IInv'
  <1>1. /\ pc = "idle" /\ num_chunks = 0 /\ cursor = 0 /\ executor = Null
        /\ buffer = "none" /\ results = << >>
    BY DEF IInv, Control, Collected, ScopedPath, ScopedCall, drive
  <1>2. \A j \in Index : /\ task[j] = "idle"
                         /\ home[j] = "nowhere"
                         /\ drops[j] = 0
    BY <1>1 DEF IInv, Untouched, Task
  <1>3. /\ num_chunks' = n /\ n \in Nat /\ n >= 1
        /\ task' = task /\ home' = home /\ drops' = drops /\ cursor' = 0
        /\ results' = << >> /\ raised' = raised
        /\ successful' = successful /\ panic_payload' = panic_payload
    BY <1>1, MaxChunksAssumption DEF drive, valueVars, exitVars
  <1>4. Task' \subseteq Index
    BY <1>3, MaxChunksAssumption DEF Task, Index
  <1>5. TypeOK'
    <2>1. num_chunks' \in 0 .. MaxChunks
      BY <1>3, MaxChunksAssumption
    <2>2. pc' \in {"execute", "single", "spawn"}
      BY DEF drive
    <2> QED
      BY <1>3, <2>1, <2>2
      DEF IInv, TypeOK, drive, valueVars, exitVars, Working, OnExecutor,
          OnThreads
  <1>6. Untouched' /\ Lives' /\ Fresh'
    BY <1>2, <1>3, <1>4 DEF Untouched, Lives, LifeOf, Produced, Fresh, drive
  <1>7. Control'
    <2>1. CASE pc' = "execute" /\ executor' # Null
      BY <1>3, <2>1 DEF Control, OnExecutor, OnThreads
    <2>2. CASE pc' = "single" /\ n = 1 /\ executor' = Null
      BY <1>3, <2>2 DEF Control, OnExecutor, OnThreads
    <2>3. CASE pc' = "spawn" /\ executor' = Null
      BY <1>3, <2>3 DEF Control, OnExecutor, OnThreads
    <2> QED
      BY <2>1, <2>2, <2>3 DEF drive
  <1>8. Collected'
    BY <1>3 DEF drive, Collected
  <1>9. ReturnsAllResultsInOrder' /\ ExecutorPayload'
    BY DEF drive, ReturnsAllResultsInOrder, ExecutorPayload
  <1>10. ExecutorPath'
    <2> SUFFICES ASSUME executor' # Null
                 PROVE  ExecutorCall' /\ \A j \in Task' : ExecutorTask(j)'
      BY DEF ExecutorPath
    <2>1. pc' = "execute" /\ buffer' = "live"
      BY DEF drive
    <2>2. raised = Null /\ panic_payload = Null
      BY <1>1 DEF IInv, Fresh
    <2>3. \A j \in Index : ~successful[j]
      BY <1>1 DEF IInv, Fresh
    <2> QED
      BY <1>2, <1>3, <1>4, <2>1, <2>2, <2>3
      DEF ExecutorCall, ExecutorTask, OnExecutor, InFlight
  <1>11. ScopedPath'
    <2> SUFFICES ASSUME executor' = Null
                 PROVE  ScopedCall' /\ \A j \in Task' : ScopedTask(j)'
      BY DEF ScopedPath
    <2>1. pc' \in {"single", "spawn"} /\ buffer' = "none"
      BY <1>1 DEF drive
    <2>2. \A j \in Task' : ~(j < 0)
      BY <1>3 DEF Task
    <2> QED
      BY <1>2, <1>3, <1>4, <2>1, <2>2 DEF ScopedCall, ScopedTask
  <1> QED
    BY <1>5, <1>6, <1>7, <1>8, <1>9, <1>10, <1>11 DEF IInv

(* Nothing exists before the call.                                         *)
LEMMA InitInv == Init => IInv
  <1> SUFFICES ASSUME Init
               PROVE  IInv
    OBVIOUS
  <1>1. TypeOK
    <2>1. << >> \in Seq(Index)
      OBVIOUS
    <2> QED
      BY <2>1, MaxChunksAssumption
      DEF Init, TypeOK, TaskState, InFlight, Place
  <1>2. Task = {}
    BY DEF Init, Task
  <1>3. Untouched /\ Lives /\ Fresh /\ Control /\ Collected
    BY <1>2
    DEF Init, Untouched, Lives, Fresh, Control, Collected, OnExecutor, OnThreads
  <1>4. ExecutorPath /\ ExecutorPayload /\ ScopedPath
    BY <1>2
    DEF Init, ExecutorPath, ExecutorPayload, ScopedPath, ScopedCall
  <1>5. ReturnsAllResultsInOrder
    BY DEF Init, ReturnsAllResultsInOrder
  <1> QED
    BY <1>1, <1>3, <1>4, <1>5 DEF IInv

(* A step that changes nothing preserves the invariant.                    *)
LEMMA StutterInv == IInv /\ UNCHANGED vars => IInv'
  <1> SUFFICES ASSUME IInv, UNCHANGED vars
               PROVE  IInv'
    OBVIOUS
  <1>1. PARALLEL_EXECUTOR' \in Executors \cup {Null}
    BY DEF IInv, TypeOK, vars, callVars
  <1> QED
    BY <1>1, SlotInv DEF vars, callVars

(* Every step of the calling thread, of a task, of another thread and of   *)
(* the failing environment preserves the invariant.                        *)
LEMMA NextInv == IInv /\ [Next]_vars => IInv'
  <1> SUFFICES ASSUME IInv, [Next]_vars
               PROVE  IInv'
    OBVIOUS
  <1>1. CASE \E e \in Executors : register_parallel_executor(e)
    BY <1>1, SlotInv DEF register_parallel_executor
  <1>2. CASE clear_parallel_executor
    BY <1>2, SlotInv DEF clear_parallel_executor
  <1>3. CASE \E n \in 1 .. MaxChunks : drive(n)
    BY <1>3, DriveInv
  <1>4. CASE \E i \in Task : TaskStep(i)
    BY <1>4, InvokeInv, RunCaughtInv, WriteSlotInv, SetFlagInv,
       RecordPanicInv, WorkerEndsInv
    DEF TaskStep
  <1>5. CASE CallerStep
    BY <1>5, ExecuteReturnsInv, DropSlotInv, FreeBufferInv,
       GuardFreesBufferInv, SingleStartsInv, SingleEndsInv, SingleExitsInv,
       SpawnInv, StartLastInv, LastEndsInv, JoinInv, ScopeReturnsInv,
       UnwindLocalsInv, ScopeRaisesInv
    DEF CallerStep
  <1>6. CASE EnvironmentFails
    BY <1>6, ExecuteUnwindsInv, DropSlotPanicsInv, SpawnFailsInv
    DEF EnvironmentFails
  <1>7. CASE UNCHANGED vars
    BY <1>7, StutterInv
  <1> QED
    BY <1>1, <1>2, <1>3, <1>4, <1>5, <1>6, <1>7 DEF Next

(* The invariant of drive: it holds initially and every step keeps it.     *)
THEOREM DriveInvariance == Spec => []IInv
  BY InitInv, NextInv, PTL DEF Spec

(* Every variable of the driver keeps its type: no slot, flag, handle or   *)
(* result index is ever out of the range of the call's chunks.             *)
THEOREM TypeCorrect == Spec => []TypeOK
  <1>1. IInv => TypeOK
    BY DEF IInv
  <1> QED
    BY <1>1, DriveInvariance, PTL

(* A call of drive that returns has one result per index, in index order,  *)
(* none of them uninitialised or dropped, for any number of chunks.        *)
THEOREM ResultsInOrder == Spec => []ReturnsAllResultsInOrder
  <1>1. IInv => ReturnsAllResultsInOrder
    BY DEF IInv
  <1> QED
    BY <1>1, DriveInvariance, PTL

(* At no moment of a call has a value been dropped twice, or dropped and   *)
(* still been owned, or dropped without having been produced.              *)
THEOREM DropsAtMostOnce == Spec => []NoDoubleDrop
  <1>1. IInv => NoDoubleDrop
    <2> SUFFICES ASSUME IInv, NEW i \in Index
                 PROVE  drops[i] + (IF home[i] = "nowhere" THEN 0 ELSE 1)
                            <= (IF Produced(i) THEN 1 ELSE 0)
      BY DEF NoDoubleDrop
    <2>1. CASE i \in Task
      <3>1. LifeOf(i)
        BY <2>1 DEF IInv, Lives
      <3> QED
        BY <3>1 DEF LifeOf, Produced
    <2>2. CASE i \notin Task
      BY <2>2 DEF IInv, Untouched, Produced
    <2> QED
      BY <2>1, <2>2
  <1> QED
    BY <1>1, DriveInvariance, PTL

(* A call that is over, and in which no destructor of a result panicked,   *)
(* has released its buffer and every result the caller did not get.        *)
THEOREM EverythingIsReleased == Spec => []ReleasesEverything
  <1>1. IInv => ReleasesEverything
    <2> SUFFICES ASSUME IInv, pc \in {"returned", "raised"},
                        raised # DropPanic
                 PROVE  /\ buffer # "live"
                        /\ \A i \in Task : Produced(i) =>
                              drops[i] + (IF home[i] = "caller" THEN 1 ELSE 0) = 1
      BY DEF ReleasesEverything
    <2>1. buffer # "live"
      BY DEF IInv, ExecutorPath, ExecutorCall, ScopedPath, ScopedCall
    <2>2. ASSUME NEW i \in Task, Produced(i)
          PROVE  drops[i] + (IF home[i] = "caller" THEN 1 ELSE 0) = 1
      <3>1. task[i] = "done"
        BY <2>2
        DEF IInv, Produced, ExecutorPath, ExecutorTask, InFlight, ScopedPath,
            ScopedTask
      <3>2. home[i] = IF pc = "returned" THEN "caller" ELSE "nowhere"
        BY <2>2, <3>1
        DEF IInv, ExecutorPath, ExecutorTask, ScopedPath, ScopedTask
      <3>3. LifeOf(i)
        BY <2>2 DEF IInv, Lives
      <3>4. CASE home[i] = "caller"
        BY <3>1, <3>3, <3>4 DEF LifeOf
      <3>5. CASE home[i] = "nowhere"
        BY <3>1, <3>3, <3>5 DEF LifeOf, Produced
      <3> QED
        BY <3>2, <3>4, <3>5
    <2> QED
      BY <2>1, <2>2
  <1> QED
    BY <1>1, DriveInvariance, PTL

(* A task in flight keeps the calling thread inside drive.                 *)
LEMMA EndsInside == IInv => NoTaskOutlivesTheCall
  <1> SUFFICES ASSUME IInv, NEW i \in Index, task[i] \in InFlight,
                      pc # "aborted"
               PROVE  /\ pc \in OnThreads \cup {"execute"}
                      /\ executor # Null => buffer = "live"
    BY DEF NoTaskOutlivesTheCall
  <1>1. i \in Task
    BY DEF IInv, Untouched, InFlight
  <1>2. CASE executor # Null
    BY <1>1, <1>2
    DEF IInv, ExecutorPath, ExecutorTask, ExecutorCall, OnExecutor
  <1>3. CASE executor = Null
    <2>1. task[i] = "running" /\ ScopedTask(i)
      BY <1>1, <1>3 DEF IInv, ScopedPath, ScopedTask, InFlight
    <2>2. pc \notin {"idle", "returned", "raised"} \cup OnExecutor
      BY <1>3, <2>1 DEF IInv, Control, ScopedTask
    <2> QED
      BY <1>3, <2>2 DEF IInv, TypeOK, Working, Terminal
  <1> QED
    BY <1>2, <1>3

(* While a task is in flight the calling thread is still inside drive, and *)
(* the buffer the task writes to is allocated: no task outlives the        *)
(* borrows whose lifetimes drive erases.                                   *)
THEOREM TasksEndInside == Spec => []NoTaskOutlivesTheCall
  BY EndsInside, DriveInvariance, PTL

(* The teardown loop and the guard drop exactly the initialised slots.     *)
THEOREM FlagsAreExact == Spec => []FlagsMatchSlots
  <1>1. IInv => FlagsMatchSlots
    <2> SUFFICES ASSUME IInv, pc \in {"teardown", "guard"},
                        NEW i \in Task, i >= cursor
                 PROVE  successful[i] <=> home[i] = "slot"
      BY DEF FlagsMatchSlots
    <2>1. executor # Null
      BY DEF IInv, Control, OnExecutor
    <2>2. ExecutorTask(i) /\ LifeOf(i)
      BY <2>1 DEF IInv, ExecutorPath, Lives
    <2>3. ~(i < cursor)
      BY TaskIndex DEF IInv
    <2>4. CASE task[i] = "done"
      BY <2>2, <2>3, <2>4 DEF ExecutorTask
    <2>5. CASE task[i] # "done"
      <3>1. home[i] = "nowhere" /\ ~successful[i]
        BY <2>2, <2>5 DEF ExecutorTask, LifeOf, Produced, InFlight
      <3> QED
        BY <3>1
    <2> QED
      BY <2>4, <2>5
  <1> QED
    BY <1>1, DriveInvariance, PTL

(* The payload a call raises is that of a panicked task, or foreign.       *)
LEMMA RaisesPanics == IInv => PanicsPropagate
  <1> SUFFICES ASSUME IInv
               PROVE  PanicsPropagate
    OBVIOUS
  <1>1. pc = "returned" => \A i \in Task : task[i] = "done"
    BY DEF IInv, ReturnsAllResultsInOrder
  <1>2. pc = "raised" /\ raised \notin OtherPanic =>
            raised \in Task /\ task[raised] = "panicked"
    <2>1. pc = "raised" => raised # Null
      BY DEF IInv, ExecutorPayload, ScopedPath, ScopedCall
    <2>2. raised \in Index \cup OtherPanic \cup {Null}
      BY DEF IInv, TypeOK
    <2> QED
      BY <2>1, <2>2 DEF IInv, ExecutorPayload, ScopedPath, ScopedCall
  <1> QED
    BY <1>1, <1>2 DEF PanicsPropagate, Panicked

(* No panic of a task is lost: a call with a panicked task never returns   *)
(* normally, and what it raises is a panic of its tasks or of the          *)
(* environment.                                                            *)
THEOREM PanicsAreRaised == Spec => []PanicsPropagate
  BY RaisesPanics, DriveInvariance, PTL

(* Without an executor the raised payload is a function of which tasks     *)
(* panicked, whatever the schedule.                                        *)
THEOREM ScopedPayload == Spec => []ScopedPayloadIsDeterministic
  <1>1. IInv => ScopedPayloadIsDeterministic
    BY DEF IInv, ScopedPayloadIsDeterministic, ScopedPath, ScopedCall
  <1> QED
    BY <1>1, DriveInvariance, PTL

(* The payload stored first under the panic mutex stays there until drive  *)
(* raises it or the guard discards it, whatever panics later.              *)
THEOREM FirstPayloadIsKept == Spec => FirstPayloadStays
  <1> DEFINE Kept == panic_payload # Null =>
                        \/ panic_payload' = panic_payload
                        \/ raised' = panic_payload
                        \/ pc = "guard"
  <1>1. [Next]_vars => [Kept]_vars
    <2> SUFFICES ASSUME Next
                 PROVE  Kept
      OBVIOUS
    <2> USE DEF bufferVars
    <2>1. CASE \/ \E e \in Executors : register_parallel_executor(e)
               \/ clear_parallel_executor
               \/ \E n \in 1 .. MaxChunks : drive(n)
      BY <2>1 DEF register_parallel_executor, clear_parallel_executor, drive
    <2>2. CASE \E i \in Task : TaskStep(i)
      BY <2>2 DEF TaskStep, Invoke, RunCaught, WriteSlot, SetFlag,
         RecordPanic, StoreFirst, WorkerEnds
    <2>3. CASE CallerStep
      BY <2>3 DEF CallerStep, ExecuteReturns, DropSlot, FreeBuffer,
         GuardFreesBuffer, SingleStarts, SingleEnds, SingleExits, Spawn,
         StartLast, LastEnds, Join, ScopeReturns, UnwindLocals, ScopeRaises
    <2>4. CASE EnvironmentFails
      BY <2>4 DEF EnvironmentFails, ExecuteUnwinds, DropSlotPanics, SpawnFails
    <2> QED
      BY <2>1, <2>2, <2>3, <2>4 DEF Next
  <1> QED
    BY <1>1, PTL DEF Spec, FirstPayloadStays

-----------------------------------------------------------------------------
(* drive implements PartitionCall: what a step of the driver is, seen from *)
(* outside, depends only on where it takes the calling thread and on the   *)
(* progress of the one task it touches.                                    *)

(* Inside the call nothing but the progress of the tasks shows.            *)
LEMMA InsideShows ==
    ASSUME pc \in Working
    PROVE  Status = "working" /\ Answer = Null
  BY DEF Working, OnExecutor, OnThreads, Terminal, Status, Answer

(* A step inside the call that neither starts nor ends a run(i).           *)
LEMMA SilentStep ==
    ASSUME pc \in Working, pc' \in Working, num_chunks' = num_chunks,
           \A i \in Index : Ran(task[i])' = Ran(task[i])
    PROVE  UNCHANGED Abstract!callVars
  <1>1. Status' = Status /\ Answer' = Answer
    BY InsideShows DEF Working, OnExecutor, OnThreads, Terminal, Status, Answer
  <1> QED
    BY <1>1 DEF Abstract!callVars

(* Task i, and no other, moves on: run(i) starts or ends, or what it gave  *)
(* is stored and recorded.                                                 *)
Becomes(i, states) == \E state \in states : task' = [task EXCEPT ![i] = state]
Starts(i) == task[i] = "idle" /\ Becomes(i, {"running"})
Ends(i) == task[i] = "running" /\ Becomes(i, {"ok", "done", "caught", "panicked"})
IsStored(i) ==
    \/ task[i] = "ok" /\ Becomes(i, {"written"})
    \/ task[i] = "written" /\ Becomes(i, {"done"})
    \/ task[i] = "caught" /\ Becomes(i, {"panicked", "escaped"})

(* A start or an end of run(i) is one of the abstract call.                *)
LEMMA TaskMoves ==
    ASSUME TypeOK, NEW i \in Task, Starts(i) \/ Ends(i),
           pc \in Working, pc' \in Working, num_chunks' = num_chunks
    PROVE  Abstract!Next
  <1>1. PICK state \in {"running", "ok", "done", "caught", "panicked"} :
            /\ task' = [task EXCEPT ![i] = state]
            /\ \/ task[i] = "idle" /\ state = "running"
               \/ task[i] = "running" /\ state # "running"
    BY DEF Starts, Ends, Becomes
  <1> DEFINE before == [j \in Index |-> Ran(task[j])]
             after == [j \in Index |-> Ran(task[j])']
  <1>2. i \in Index /\ i \in Abstract!Live
    BY TaskIndex DEF Task, Abstract!Live
  <1>3. /\ Status = "working" /\ Status' = "working"
        /\ Answer' = Answer
    BY DEF Working, OnExecutor, OnThreads, Terminal, Status, Answer
  <1>4. \A j \in Index : task'[j] = IF j = i THEN state ELSE task[j]
    BY <1>1, <1>2 DEF TypeOK
  <1>5. after = [before EXCEPT ![i] = Ran(state)]
    BY <1>2, <1>4 DEF Ran
  <1>6. CASE task[i] = "idle"
    <2>1. before[i] = "no" /\ Ran(state) = "running"
      BY <1>1, <1>2, <1>6 DEF Ran
    <2>2. Abstract!Begin(i)
      BY <1>2, <1>3, <1>5, <2>1 DEF Abstract!Begin
    <2> QED
      BY <1>2, <2>2 DEF Abstract!Next
  <1>7. CASE task[i] = "running"
    <2>1. before[i] = "running" /\ Ran(state) \in {"ok", "panic"}
      BY <1>1, <1>2, <1>7 DEF Ran
    <2>2. Abstract!End(i)
      BY <1>2, <1>3, <1>5, <2>1 DEF Abstract!End
    <2> QED
      BY <1>2, <2>2 DEF Abstract!Next
  <1> QED
    BY <1>1, <1>6, <1>7

(* The step that leaves the call: the results, the payload or the abort.   *)
LEMMA CallIsOver ==
    ASSUME IInv', pc \in Working, pc' \in Terminal,
           num_chunks' = num_chunks, task' = task
    PROVE  Abstract!Next
  <1> DEFINE before == [j \in Index |-> Ran(task[j])]
  <1>1. /\ Status = "working" /\ Status' = pc' /\ Answer = Null
        /\ Abstract!Live = Task
        /\ Task' = Task
        /\ before' = before
    BY DEF Working, OnExecutor, OnThreads, Terminal, Status, Answer, Task,
       Abstract!Live
  <1>2. Task \subseteq Index
    BY MaxChunksAssumption DEF IInv, TypeOK, Task, Index
  <1>3. NoTaskOutlivesTheCall' /\ PanicsPropagate'
    BY EndsInside, RaisesPanics, PTL
  <1>4. CASE pc' = "returned"
    <2>1. /\ results' = [k \in 1 .. num_chunks |-> k - 1]
          /\ \A i \in Task : task[i] = "done"
      BY <1>1, <1>4 DEF IInv, ReturnsAllResultsInOrder
    <2>2. \A i \in Task : before[i] = "ok"
      BY <1>2, <2>1 DEF Ran
    <2>3. Answer' = [k \in 1 .. num_chunks |-> k - 1]
      BY <1>4, <2>1 DEF Answer
    <2>4. Abstract!Return
      BY <1>1, <1>4, <2>2, <2>3 DEF Abstract!Return
    <2> QED
      BY <2>4 DEF Abstract!Next
  <1>5. CASE pc' = "raised"
    <2>1. \A i \in Task : before[i] # "running"
      <3>1. \A i \in Index : task[i] \notin InFlight
        BY <1>3, <1>5 DEF NoTaskOutlivesTheCall, OnThreads
      <3> QED
        BY <1>2, <3>1 DEF Ran, InFlight
    <2>2. \/ raised' \in OtherPanic
          \/ raised' \in Task /\ task[raised'] \in Panicked
      BY <1>1, <1>3, <1>5 DEF PanicsPropagate
    <2>3. Answer' = raised'
      BY <1>5 DEF Answer
    <2>4. \/ Answer' \in OtherPanic
          \/ \E i \in Task : before[i] = "panic" /\ Answer' = i
      BY <1>2, <2>2, <2>3 DEF Panicked, Ran
    <2>5. Abstract!Raise
      BY <1>1, <1>5, <2>1, <2>4 DEF Abstract!Raise, Abstract!NobodyRuns
    <2> QED
      BY <2>5 DEF Abstract!Next
  <1>6. CASE pc' = "aborted"
    <2>1. Answer' = Null
      BY <1>6 DEF Answer
    <2>2. Abstract!Abort
      BY <1>1, <1>6, <2>1 DEF Abstract!Abort
    <2> QED
      BY <2>2 DEF Abstract!Next
  <1> QED
    BY <1>4, <1>5, <1>6 DEF Terminal

(* Outside a call, and in a call that is over, no task can still move.     *)
LEMMA TaskStepIsInside ==
    ASSUME IInv, NEW i \in Task, TaskStep(i)
    PROVE  pc \in Working /\ pc' = pc /\ num_chunks' = num_chunks
  <1>1. task[i] \in InFlight => pc \in Working \cup {"aborted"}
    BY EndsInside, TaskIndex
    DEF IInv, NoTaskOutlivesTheCall, Working, OnExecutor
  <1>2. executor # Null /\ task[i] \in InFlight => pc = "execute"
    BY DEF IInv, ExecutorPath, ExecutorTask
  <1>3. executor = Null => task[i] \notin {"ok", "written", "caught"}
    BY DEF IInv, ScopedPath, ScopedTask
  <1> QED
    BY <1>1, <1>2, <1>3
    DEF TaskStep, Invoke, RunCaught, WriteSlot, SetFlag, RecordPanic,
        WorkerEnds, InFlight, Working, OnExecutor, callVars

(* Steps of the tasks: a start, an end, or bookkeeping nobody sees.        *)
LEMMA TaskRefines ==
    ASSUME IInv, NEW i \in Task, TaskStep(i)
    PROVE  Abstract!Next \/ UNCHANGED Abstract!callVars
  <1>1. TypeOK /\ i \in Index
    BY TaskIndex DEF IInv
  <1>2. pc \in Working /\ pc' \in Working /\ num_chunks' = num_chunks
    BY TaskStepIsInside
  <1>3. CASE Invoke(i) \/ RunCaught(i) \/ WorkerEnds(i)
    <2>1. Starts(i) \/ Ends(i)
      BY <1>3
      DEF Invoke, Invocable, RunCaught, WorkerEnds, Starts, Ends, Becomes
    <2> QED
      BY <1>1, <1>2, <2>1, TaskMoves
  <1>4. CASE WriteSlot(i) \/ SetFlag(i) \/ RecordPanic(i)
    <2>1. IsStored(i)
      BY <1>4 DEF WriteSlot, SetFlag, RecordPanic, IsStored, Becomes
    <2>2. \A j \in Index : Ran(task[j])' = Ran(task[j])
      BY <1>1, <2>1 DEF IsStored, Becomes, Ran, TypeOK
    <2> QED
      BY <1>2, <2>2, SilentStep
  <1> QED
    BY <1>3, <1>4 DEF TaskStep

(* Steps of the calling thread that run a task: inline or on a new thread. *)
LEMMA InlineMoves ==
    ASSUME IInv, SingleStarts \/ Spawn \/ StartLast \/ SingleEnds \/ LastEnds
    PROVE  /\ pc \in Working /\ pc' \in Working /\ num_chunks' = num_chunks
           /\ \E i \in Task : Starts(i) \/ Ends(i)
  <1> DEFINE i == IF pc \in {"single", "single run"} THEN 0
                  ELSE IF pc = "inline" THEN num_chunks - 1 ELSE cursor
  <1>1. TypeOK /\ pc \in OnThreads /\ executor = Null
    BY DEF IInv, Control, OnThreads, SingleStarts, Spawn, StartLast,
       SingleEnds, LastEnds
  <1>2. i \in Task
    <2>1. /\ num_chunks \in Nat /\ cursor \in Nat
          /\ num_chunks >= 1
          /\ pc = "spawn" => cursor < num_chunks
      BY <1>1, TaskIndex DEF IInv, Control, OnThreads
    <2>2. pc \in {"single", "single run", "inline", "spawn"}
      BY DEF SingleStarts, Spawn, StartLast, SingleEnds, LastEnds
    <2>3. i \in Nat /\ i < num_chunks
      <3>1. CASE pc \in {"single", "single run"}
        <4>1. i = 0
          BY <3>1
        <4> HIDE DEF i
        <4> QED
          BY <2>1, <4>1
      <3>2. CASE pc = "inline"
        <4>1. i = num_chunks - 1
          BY <3>2
        <4> HIDE DEF i
        <4> QED
          BY <2>1, <4>1
      <3>3. CASE pc = "spawn"
        <4>1. i = cursor
          BY <3>3
        <4> HIDE DEF i
        <4> QED
          BY <2>1, <3>3, <4>1
      <3> QED
        BY <2>2, <3>1, <3>2, <3>3
    <2> QED
      BY <1>1, <2>3, TaskIndex
  <1>3. pc \in Working /\ pc' \in Working /\ num_chunks' = num_chunks
    BY <1>1 DEF SingleStarts, Spawn, StartLast, SingleEnds, LastEnds,
       Working, OnThreads, callVars
  <1>4. ScopedCall /\ ScopedTask(i)
    BY <1>1, <1>2 DEF IInv, ScopedPath
  <1>5. Starts(i) \/ Ends(i)
    <2> USE DEF Starts, Ends, Becomes
    <2>1. CASE SingleStarts
      BY <2>1, <1>4 DEF SingleStarts, ScopedTask
    <2>2. CASE Spawn \/ StartLast
      <3>1. ~(cursor < cursor)
        BY <1>1 DEF TypeOK
      <3> QED
        BY <2>2, <3>1, <1>4 DEF Spawn, StartLast, ScopedTask
    <2>3. CASE SingleEnds
      BY <2>3, <1>4 DEF SingleEnds, ScopedTask
    <2>4. CASE LastEnds
      BY <2>4, <1>4 DEF LastEnds, ScopedCall
    <2> QED
      BY <2>1, <2>2, <2>3, <2>4
  <1> HIDE DEF i
  <1> QED
    BY <1>2, <1>3, <1>5

(* The other steps of the calling thread, and its failures, leave all      *)
(* tasks as they are.                                                      *)
Administers ==
    \/ ExecuteReturns \/ DropSlot \/ FreeBuffer \/ GuardFreesBuffer
    \/ SingleExits \/ Join \/ ScopeReturns \/ UnwindLocals
    \/ ScopeRaises \/ EnvironmentFails

(* The caller's administrative steps begin and end no task.                *)
LEMMA OthersMoveNothing ==
    ASSUME Administers
    PROVE  /\ pc \in Working /\ pc' \in Working \cup Terminal
           /\ num_chunks' = num_chunks /\ task' = task
  BY DEF Administers, ExecuteReturns, DropSlot, FreeBuffer, GuardFreesBuffer,
     SingleExits, Join, ScopeReturns, UnwindLocals, ScopeRaises,
     EnvironmentFails, ExecuteUnwinds, DropSlotPanics, SpawnFails, callVars,
     Working, OnExecutor, OnThreads, Terminal

(* A step of the calling thread runs a task, or stays in the call and      *)
(* shows nothing, or leaves it.                                            *)
LEMMA CallerRefines ==
    ASSUME IInv, IInv', CallerStep \/ EnvironmentFails
    PROVE  Abstract!Next \/ UNCHANGED Abstract!callVars
  <1>1. CASE SingleStarts \/ Spawn \/ StartLast \/ SingleEnds \/ LastEnds
    <2>1. TypeOK
      BY DEF IInv
    <2> QED
      BY <1>1, <2>1, InlineMoves, TaskMoves
  <1>2. CASE Administers
    <2>1. /\ pc \in Working /\ pc' \in Working \cup Terminal
          /\ num_chunks' = num_chunks /\ task' = task
      BY <1>2, OthersMoveNothing
    <2>2. CASE pc' \in Working
      BY <2>1, <2>2, SilentStep DEF Ran
    <2>3. CASE pc' \in Terminal
      BY <2>1, <2>3, CallIsOver
    <2> QED
      BY <2>1, <2>2, <2>3
  <1> QED
    BY <1>1, <1>2 DEF CallerStep, Administers

(* Every step of the driver is a step of the abstract call, or a stutter.  *)
LEMMA StepRefines ==
    ASSUME IInv, IInv', [Next]_vars
    PROVE  [Abstract!Next]_(Abstract!callVars)
  <1>1. ASSUME pc' = pc, num_chunks' = num_chunks, task' = task,
               results' = results, raised' = raised
        PROVE  UNCHANGED Abstract!callVars
    BY <1>1 DEF Abstract!callVars, Status, Answer, Ran
  <1>2. CASE \/ \E e \in Executors : register_parallel_executor(e)
             \/ clear_parallel_executor
             \/ UNCHANGED vars
    BY <1>1, <1>2
    DEF register_parallel_executor, clear_parallel_executor, exitVars, vars,
        callVars
  <1>3. CASE \E n \in 1 .. MaxChunks : drive(n)
    <2>1. PICK n \in 1 .. MaxChunks : drive(n)
      BY <1>3
    <2>2. /\ Status = "idle" /\ Status' = "working"
          /\ Answer' = Answer /\ num_chunks' = n /\ task' = task
      BY <2>1 DEF drive, Status, Answer, Terminal
    <2>3. Abstract!Call(n)
      BY <2>2 DEF Abstract!Call, Ran
    <2> QED
      BY <2>3 DEF Abstract!Next
  <1>4. CASE \E i \in Task : TaskStep(i)
    BY <1>4, TaskRefines
  <1>5. CASE CallerStep \/ EnvironmentFails
    BY <1>5, CallerRefines
  <1> QED
    BY <1>2, <1>3, <1>4, <1>5 DEF Next

(* drive implements PartitionCall, for any number of chunks: behind the    *)
(* executor, the threads, the buffer and the unwinding, a caller sees each *)
(* index run at most once and inside the call, and the call ends with all  *)
(* results in order, a task's panic, a panic of the environment, or an     *)
(* abort.                                                                  *)
THEOREM ImplementsTheCall == Spec => ImplementsPartitionCall
  <1>1. Init => Abstract!Init
    BY MaxChunksAssumption
    DEF Init, Abstract!Init, Status, Answer, Ran, Index, Abstract!Indices,
        Terminal
  <1>2. IInv /\ IInv' /\ [Next]_vars => [Abstract!Next]_(Abstract!callVars)
    BY StepRefines
  <1> QED
    BY <1>1, <1>2, DriveInvariance, PTL
    DEF Spec, ImplementsPartitionCall, Abstract!Spec
=============================================================================
