------------------------------- MODULE Drive -------------------------------
(***************************************************************************)
(* The engine behind every partition driver of melinoe:                    *)
(*                                                                         *)
(*   sync/scoped/partition/driver_core.rs   drive, task_wrapper, the       *)
(*                                          ExecutorDropGuard              *)
(*   sync/scoped/partition/executor.rs      the process-global executor    *)
(*                                          slot                           *)
(*                                                                         *)
(* One call of drive is followed from its load of the slot to its return,  *)
(* its panic or the abort of the process, while the tasks it started run   *)
(* concurrently and other threads register and clear executors at any      *)
(* moment.  Calls share nothing but the slot, so one call and a slot that  *)
(* changes at will stand for any number of calls.                          *)
(*                                                                         *)
(* The value that run(i) returns is identified with i, and so is the       *)
(* payload of a panic of run(i).  `home[i]' is the place that owns the     *)
(* value of task i, `drops[i]' counts how often its destructor ran.        *)
(***************************************************************************)
EXTENDS Integers, Sequences

CONSTANTS
    MaxChunks,            \* bound on num_chunks
    Executors,            \* the executors that can be registered
    Null,                 \* the null pointer of the slot / no payload
    ExecutorPanic,        \* payload of a panic that unwinds out of the executor
    SpawnPanic,           \* payload of a failed scope.spawn
    DropPanic,            \* payload of a panicking destructor
    ResultDropMayPanic,   \* may the destructor of a result R panic?
    PayloadDropMayPanic   \* may the destructor of a panic payload panic?

ASSUME MaxChunksAssumption == MaxChunks \in Nat \ {0}
OtherPanic == {ExecutorPanic, SpawnPanic, DropPanic}
ASSUME NullAssumption == Null \notin Executors
ASSUME PayloadAssumption ==
    /\ Null \notin OtherPanic \cup Int
    /\ OtherPanic \cap Int = {}
    /\ ExecutorPanic # SpawnPanic
    /\ ExecutorPanic # DropPanic
    /\ SpawnPanic # DropPanic
ASSUME DropAssumption ==
    ResultDropMayPanic \in BOOLEAN /\ PayloadDropMayPanic \in BOOLEAN

VARIABLES
    PARALLEL_EXECUTOR,  \* the process-global slot
    pc,                 \* where the calling thread is
    executor,           \* the executor this call loaded, or Null
    num_chunks,
    task,               \* progress of run(i)
    home,               \* who owns the value run(i) returned
    drops,              \* how often that value was dropped
    buffer,             \* the MaybeUninit out-buffer
    successful,         \* the flags of the executor path
    panic_payload,      \* contents of the panic mutex
    cursor,             \* loop index: spawn, join, teardown
    results,            \* the Vec<R> under construction or returned
    raised              \* the payload the call unwinds with

callVars == <<PARALLEL_EXECUTOR, executor, num_chunks>>
bufferVars == <<buffer, successful, panic_payload>>
valueVars == <<home, drops>>
exitVars == <<results, raised>>
vars == <<callVars, bufferVars, valueVars, exitVars, pc, task, cursor>>

(* What run(i), or an invocation of task_wrapper(i), is doing.             *)
(*   ok / written : value in hand / value stored, flag not yet set         *)
(*   caught       : payload in hand, not yet recorded                      *)
(*   escaped      : task_wrapper itself unwound into the executor          *)
InFlight == {"running", "ok", "written", "caught"}
Panicked == {"caught", "panicked", "escaped"}
TaskState == InFlight \cup Panicked \cup {"idle", "done"}

Index == 0 .. MaxChunks - 1
Task == 0 .. num_chunks - 1
Produced(i) == task[i] \in {"ok", "written", "done"}

Terminal == {"returned", "raised", "aborted"}
OnExecutor == {"execute", "guard", "teardown"}
OnThreads == {"single", "single run", "single end", "spawn", "inline", "join",
              "unwind", "scope wait"}
Working == OnExecutor \cup OnThreads

Init ==
    /\ PARALLEL_EXECUTOR = Null
    /\ pc = "idle"
    /\ executor = Null
    /\ num_chunks = 0
    /\ task = [i \in Index |-> "idle"]
    /\ home = [i \in Index |-> "nowhere"]
    /\ drops = [i \in Index |-> 0]
    /\ buffer = "none"
    /\ successful = [i \in Index |-> FALSE]
    /\ panic_payload = Null
    /\ cursor = 0
    /\ results = << >>
    /\ raised = Null

----------------------------------------------------------------------------
(* The slot: register_parallel_executor and clear_parallel_executor, by    *)
(* any thread at any time until the process aborts.                        *)

register_parallel_executor(e) ==
    /\ pc # "aborted"
    /\ PARALLEL_EXECUTOR' = e
    /\ UNCHANGED <<bufferVars, valueVars, exitVars, pc, executor,
                   num_chunks, task, cursor>>

clear_parallel_executor ==
    /\ pc # "aborted"
    /\ PARALLEL_EXECUTOR' = Null
    /\ UNCHANGED <<bufferVars, valueVars, exitVars, pc, executor,
                   num_chunks, task, cursor>>

(* The entry of drive: load the slot once and choose the path.  With an    *)
(* executor the out-buffer is allocated and the guard armed.               *)
drive(n) ==
    /\ pc = "idle"
    /\ num_chunks' = n
    /\ executor' = PARALLEL_EXECUTOR
    /\ \/ /\ PARALLEL_EXECUTOR # Null
          /\ pc' = "execute"
          /\ buffer' = "live"
       \/ /\ PARALLEL_EXECUTOR = Null
          /\ pc' = IF n = 1 THEN "single" ELSE "spawn"
          /\ UNCHANGED buffer
    /\ UNCHANGED <<valueVars, exitVars, PARALLEL_EXECUTOR, task,
                   successful, panic_payload, cursor>>

----------------------------------------------------------------------------
(* task_wrapper(i), invoked by the executor on any thread.                 *)

(* The executor's contract: it invokes an index at most once, and only     *)
(* while run_indexed has not returned.                                     *)
InvocableAgain(i) == task[i] \in {"idle", "panicked"}
Invocable(i) == task[i] = "idle"

Invoke(i) ==
    /\ pc = "execute"
    /\ Invocable(i)
    /\ task' = [task EXCEPT ![i] = "running"]
    /\ UNCHANGED <<callVars, bufferVars, valueVars, exitVars, pc, cursor>>

(* catch_unwind(run(i)) comes back with a value or with a payload.         *)
RunCaught(i) ==
    /\ pc = "execute"
    /\ task[i] = "running"
    /\ \/ /\ task' = [task EXCEPT ![i] = "ok"]
          /\ home' = [home EXCEPT ![i] = "task"]
       \/ /\ task' = [task EXCEPT ![i] = "caught"]
          /\ UNCHANGED home
    /\ UNCHANGED <<callVars, bufferVars, exitVars, pc, drops, cursor>>

WriteSlot(i) ==
    /\ task[i] = "ok"
    /\ home' = [home EXCEPT ![i] = "slot"]
    /\ task' = [task EXCEPT ![i] = "written"]
    /\ UNCHANGED <<callVars, bufferVars, exitVars, pc, drops, cursor>>

SetFlagMissing(i) ==
    /\ task[i] = "written"
    /\ task' = [task EXCEPT ![i] = "done"]
    /\ UNCHANGED <<callVars, bufferVars, valueVars, exitVars, pc, cursor>>

SetFlag(i) ==
    /\ task[i] = "written"
    /\ successful' = [successful EXCEPT ![i] = TRUE]
    /\ task' = [task EXCEPT ![i] = "done"]
    /\ UNCHANGED <<callVars, valueVars, exitVars, pc, buffer,
                   panic_payload, cursor>>

(* Under the panic mutex (poison is recovered): the first payload stays.   *)
StoreNothing(i) == panic_payload
StoreLatest(i) == i
StoreFirst(i) == IF panic_payload = Null THEN i ELSE panic_payload

(* A later payload is dropped after the lock is released, and a panic of   *)
(* its destructor unwinds out of task_wrapper.                             *)
RecordPanic(i) ==
    /\ task[i] = "caught"
    /\ panic_payload' = StoreFirst(i)
    /\ \/ task' = [task EXCEPT ![i] = "panicked"]
       \/ /\ PayloadDropMayPanic
          /\ panic_payload # Null
          /\ task' = [task EXCEPT ![i] = "escaped"]
    /\ UNCHANGED <<callVars, valueVars, exitVars, pc, buffer, successful, cursor>>

----------------------------------------------------------------------------
(* The calling thread on the executor path.                                *)

NotWaiting == TRUE
Quiescent == \A i \in Task : task[i] \notin InFlight

(* The other half of the contract: no index is skipped on a normal return. *)
SomeInvoked == \E i \in Task : task[i] # "idle"
AllSucceeded == \A i \in Task : task[i] = "done"
AllInvoked == \A i \in Task : task[i] # "idle"

(* execute returns: every index was invoked and none is still running.     *)
(* guard.active = false; without a payload the buffer becomes the Vec.     *)
ExecuteReturns ==
    /\ pc = "execute"
    /\ Quiescent
    /\ AllInvoked
    /\ \/ /\ panic_payload = Null
          /\ pc' = "returned"
          /\ results' = [k \in 1 .. num_chunks |->
                            IF home[k - 1] = "slot" THEN k - 1 ELSE -1]
          /\ home' = [i \in Index |->
                            IF i \in Task THEN "caller" ELSE home[i]]
          /\ buffer' = "caller"
          /\ UNCHANGED panic_payload
       \/ /\ panic_payload # Null
          /\ pc' = "teardown"
          /\ UNCHANGED <<results, home, buffer, panic_payload>>
    /\ UNCHANGED <<callVars, task, drops, successful, cursor, raised>>

(* execute unwinds, for a panic of its own or one that escaped a task.     *)
(* The contract lets it skip the indices it has not started, and still     *)
(* forbids an invocation that outlives the call.  The armed guard runs.    *)
ExecuteUnwinds ==
    /\ pc = "execute"
    /\ Quiescent
    /\ pc' = "guard"
    /\ raised' = ExecutorPanic
    /\ UNCHANGED <<callVars, bufferVars, valueVars, task, cursor, results>>

(* What the loops below take for an initialised slot.                      *)
AnySlot(k) == TRUE
SkipsFirstSlot(k) == successful[k] /\ k > 0
Initialised(k) == successful[k]

(* One turn of the loop that drops the flagged slots, in drive itself      *)
(* (teardown) and in ExecutorDropGuard::drop (guard).                      *)
DropSlot ==
    /\ pc \in {"teardown", "guard"}
    /\ cursor < num_chunks
    /\ cursor' = cursor + 1
    /\ IF Initialised(cursor)
       THEN /\ drops' = [drops EXCEPT ![cursor] = @ + 1]
            /\ home' = [home EXCEPT ![cursor] = "nowhere"]
       ELSE UNCHANGED <<drops, home>>
    /\ UNCHANGED <<callVars, bufferVars, exitVars, pc, task>>

(* The destructor of a flagged result panics.  In teardown the guard is    *)
(* no longer active: the call unwinds with the new panic, which drops the  *)
(* payload taken from the mutex, and neither the remaining slots nor the   *)
(* buffer are released.  The process aborts when the destructor of that    *)
(* payload panics too, and in the guard, where the thread unwinds already. *)
DropSlotPanics ==
    /\ ResultDropMayPanic
    /\ pc \in {"teardown", "guard"}
    /\ cursor < num_chunks
    /\ Initialised(cursor)
    /\ drops' = [drops EXCEPT ![cursor] = @ + 1]
    /\ home' = [home EXCEPT ![cursor] = "nowhere"]
    /\ \/ pc = "teardown" /\ pc' = "raised"
       \/ (pc = "guard" \/ PayloadDropMayPanic) /\ pc' = "aborted"
    /\ raised' = DropPanic
    /\ UNCHANGED <<callVars, bufferVars, task, cursor, results>>

(* All slots visited: the buffer is freed and the payload resumed.         *)
FreeBuffer ==
    /\ pc = "teardown"
    /\ cursor = num_chunks
    /\ buffer' = "freed"
    /\ raised' = panic_payload
    /\ panic_payload' = Null
    /\ pc' = "raised"
    /\ UNCHANGED <<callVars, valueVars, task, successful, cursor, results>>

(* In the guard the buffer is freed too; the panic mutex is dropped next,  *)
(* with the payload it may hold, and a destructor that panics there aborts *)
(* because the thread is unwinding.                                        *)
GuardFreesBuffer ==
    /\ pc = "guard"
    /\ cursor = num_chunks
    /\ buffer' = "freed"
    /\ panic_payload' = Null
    /\ \/ pc' = "raised"
       \/ /\ PayloadDropMayPanic
          /\ panic_payload # Null
          /\ pc' = "aborted"
    /\ UNCHANGED <<callVars, valueVars, exitVars, task, successful, cursor>>

----------------------------------------------------------------------------
(* One chunk and no executor: run(0) inline, return vec![..] or unwind.    *)
SingleStarts ==
    /\ pc = "single"
    /\ task' = [task EXCEPT ![0] = "running"]
    /\ pc' = "single run"
    /\ UNCHANGED <<callVars, bufferVars, valueVars, exitVars, cursor>>

SingleEnds ==
    /\ pc = "single run"
    /\ pc' = "single end"
    /\ \/ /\ task' = [task EXCEPT ![0] = "done"]
          /\ home' = [home EXCEPT ![0] = "local"]
       \/ /\ task' = [task EXCEPT ![0] = "panicked"]
          /\ UNCHANGED home
    /\ UNCHANGED <<callVars, bufferVars, exitVars, drops, cursor>>

SingleExits ==
    /\ pc = "single end"
    /\ \/ /\ task[0] = "done"
          /\ home' = [home EXCEPT ![0] = "caller"]
          /\ results' = <<0>>
          /\ pc' = "returned"
          /\ UNCHANGED raised
       \/ /\ task[0] = "panicked"
          /\ raised' = 0
          /\ pc' = "raised"
          /\ UNCHANGED <<home, results>>
    /\ UNCHANGED <<callVars, bufferVars, task, drops, cursor>>

----------------------------------------------------------------------------
(* The scoped-thread path.                                                 *)

(* scope.spawn for one index, in index order.                              *)
Spawn ==
    /\ pc = "spawn"
    /\ cursor < num_chunks - 1
    /\ task' = [task EXCEPT ![cursor] = "running"]
    /\ cursor' = cursor + 1
    /\ UNCHANGED <<callVars, bufferVars, valueVars, exitVars, pc>>

(* scope.spawn panics when the OS refuses a thread: the closure unwinds.   *)
SpawnFails ==
    /\ pc = "spawn"
    /\ cursor < num_chunks - 1
    /\ raised' = SpawnPanic
    /\ pc' = "unwind"
    /\ UNCHANGED <<callVars, bufferVars, valueVars, task, cursor, results>>

(* All workers spawned: the caller starts the last index itself.           *)
StartLast ==
    /\ pc = "spawn"
    /\ cursor = num_chunks - 1
    /\ task' = [task EXCEPT ![cursor] = "running"]
    /\ pc' = "inline"
    /\ UNCHANGED <<callVars, bufferVars, valueVars, exitVars, cursor>>

(* A worker's run(i) ends; the outcome stays in the thread's packet.       *)
WorkerEnds(i) ==
    /\ executor = Null
    /\ pc # "aborted"
    /\ i < num_chunks - 1
    /\ task[i] = "running"
    /\ \/ /\ task' = [task EXCEPT ![i] = "done"]
          /\ home' = [home EXCEPT ![i] = "packet"]
       \/ /\ task' = [task EXCEPT ![i] = "panicked"]
          /\ UNCHANGED home
    /\ UNCHANGED <<callVars, bufferVars, exitVars, pc, drops, cursor>>

(* The inline run(num_chunks - 1) ends.                                    *)
LastEnds ==
    LET last == num_chunks - 1 IN
    /\ pc = "inline"
    /\ \/ /\ task' = [task EXCEPT ![last] = "done"]
          /\ home' = [home EXCEPT ![last] = "local"]
          /\ pc' = "join"
          /\ cursor' = 0
          /\ UNCHANGED raised
       \/ /\ task' = [task EXCEPT ![last] = "panicked"]
          /\ raised' = last
          /\ pc' = "unwind"
          /\ UNCHANGED <<home, cursor>>
    /\ UNCHANGED <<callVars, bufferVars, drops, results>>

(* The handles are joined in the order in which they were pushed.          *)
LastHandleFirst == num_chunks - 2 - cursor
NextHandle == cursor

(* h.join() blocks until the worker has ended.  A payload is resumed at    *)
(* once.                                                                   *)
Join ==
    /\ pc = "join"
    /\ cursor < num_chunks - 1
    /\ \/ /\ task[NextHandle] = "done"
          /\ results' = Append(results, NextHandle)
          /\ home' = [home EXCEPT ![NextHandle] = "local"]
          /\ cursor' = cursor + 1
          /\ UNCHANGED <<pc, raised>>
       \/ /\ task[NextHandle] = "panicked"
          /\ raised' = NextHandle
          /\ pc' = "unwind"
          /\ UNCHANGED <<results, home, cursor>>
    /\ UNCHANGED <<callVars, bufferVars, task, drops>>

(* All joined: results.push(last) and the scope ends normally.             *)
ScopeReturns ==
    /\ pc = "join"
    /\ cursor = num_chunks - 1
    /\ results' = Append(results, cursor)
    /\ home' = [i \in Index |-> IF home[i] = "local" THEN "caller" ELSE home[i]]
    /\ pc' = "returned"
    /\ UNCHANGED <<callVars, bufferVars, task, drops, cursor, raised>>

(* Every value in place p is dropped.                                      *)
DropAll(p) ==
    /\ drops' = [i \in Index |-> drops[i] + IF home[i] = p THEN 1 ELSE 0]
    /\ home' = [i \in Index |-> IF home[i] = p THEN "nowhere" ELSE home[i]]

(* The closure unwinds: `results' and `last' are dropped; a destructor     *)
(* that panics now aborts.                                                 *)
UnwindLocals ==
    /\ pc = "unwind"
    /\ DropAll("local")
    /\ results' = << >>
    /\ \/ pc' = "scope wait"
       \/ /\ ResultDropMayPanic
          /\ \E i \in Task : home[i] = "local"
          /\ pc' = "aborted"
    /\ UNCHANGED <<callVars, bufferVars, task, cursor, raised>>

(* thread::scope waits for the workers that were spawned, whose unjoined   *)
(* packets are dropped, and resumes the panic of the closure.  A packet    *)
(* holds the result of its worker or the payload it panicked with: std     *)
(* aborts when the destructor of either panics.                            *)
ScopeRaises ==
    /\ pc = "scope wait"
    /\ Quiescent
    /\ DropAll("packet")
    /\ \/ pc' = "raised"
       \/ /\ \/ ResultDropMayPanic /\ \E i \in Task : home[i] = "packet"
             \/ PayloadDropMayPanic
                  /\ \E i \in Task \ {raised} : task[i] = "panicked"
          /\ pc' = "aborted"
    /\ UNCHANGED <<callVars, bufferVars, exitVars, task, cursor>>

----------------------------------------------------------------------------
TaskStep(i) ==
    \/ Invoke(i)
    \/ RunCaught(i)
    \/ WriteSlot(i)
    \/ SetFlag(i)
    \/ RecordPanic(i)
    \/ WorkerEnds(i)

EnvironmentFails ==
    \/ ExecuteUnwinds
    \/ DropSlotPanics
    \/ SpawnFails

CallerStep ==
    \/ ExecuteReturns
    \/ DropSlot
    \/ FreeBuffer
    \/ GuardFreesBuffer
    \/ SingleStarts
    \/ SingleEnds
    \/ SingleExits
    \/ Spawn
    \/ StartLast
    \/ LastEnds
    \/ Join
    \/ ScopeReturns
    \/ UnwindLocals
    \/ ScopeRaises

Next ==
    \/ \E e \in Executors : register_parallel_executor(e)
    \/ clear_parallel_executor
    \/ \E n \in 1 .. MaxChunks : drive(n)
    \/ \E i \in Task : TaskStep(i)
    \/ CallerStep
    \/ EnvironmentFails

Spec == Init /\ [][Next]_vars

(* The closure of a task ends, the executor invokes every index and        *)
(* returns (its contract), and the OS runs the calling thread and the      *)
(* workers it gave it.  Nothing forces the environment to fail.            *)
FairSpec ==
    /\ Spec
    /\ WF_vars(CallerStep)
    /\ \A i \in Index : WF_vars(i \in Task /\ TaskStep(i))
----------------------------------------------------------------------------
Place == {"nowhere", "task", "slot", "packet", "local", "caller"}

TypeOK ==
    /\ PARALLEL_EXECUTOR \in Executors \cup {Null}
    /\ pc \in {"idle"} \cup Working \cup Terminal
    /\ executor \in Executors \cup {Null}
    /\ num_chunks \in 0 .. MaxChunks
    /\ task \in [Index -> TaskState]
    /\ home \in [Index -> Place]
    /\ drops \in [Index -> Nat]
    /\ buffer \in {"none", "live", "freed", "caller"}
    /\ successful \in [Index -> BOOLEAN]
    /\ panic_payload \in Index \cup {Null}
    /\ cursor \in 0 .. MaxChunks
    /\ results \in Seq(Index)
    /\ raised \in Index \cup OtherPanic \cup {Null}

(* A call that returns normally hands over one initialised result per      *)
(* index, in index order: no slot of the Vec that from_raw_parts rebuilds  *)
(* is uninitialised, and the join order of the scoped path is the index    *)
(* order (drive, "collecting the results in index order").                 *)
ReturnsAllResultsInOrder ==
    pc = "returned" =>
        /\ results = [k \in 1 .. num_chunks |-> k - 1]
        /\ \A i \in Task : task[i] = "done" /\ drops[i] = 0

(* No destructor runs twice or on memory that no task initialised, at any  *)
(* moment, in the teardown loop, the guard, or the unwinding of a scope.   *)
NoDoubleDrop ==
    \A i \in Index : drops[i] + (IF home[i] = "nowhere" THEN 0 ELSE 1)
                        <= (IF Produced(i) THEN 1 ELSE 0)

(* When a call is over and the destructor of R did not panic, every result *)
(* is with the caller or was dropped exactly once, and the out-buffer has  *)
(* been freed or became the caller's Vec (the guard's "no leak or          *)
(* double-drop", drive's "nothing leaks").                                 *)
ReleasesEverything ==
    /\ pc \in {"returned", "raised"}
    /\ raised # DropPanic
    => /\ buffer # "live"
       /\ \A i \in Task : Produced(i) =>
              drops[i] + (IF home[i] = "caller" THEN 1 ELSE 0) = 1

(* The claim of drive's "Panics" section: the panic is re-raised "after    *)
(* dropping every successfully produced result so nothing leaks".          *)
NothingLeaks ==
    pc = "raised" =>
        /\ buffer # "live"
        /\ \A i \in Task : Produced(i) => drops[i] = 1

(* No task is running, or holds a pointer into the out-buffer or a borrow  *)
(* of the caller's region, once drive has given back control: what makes   *)
(* the lifetime erasure of the executor path and the borrows of the scoped *)
(* path sound.                                                             *)
NoTaskOutlivesTheCall ==
    (\E i \in Index : task[i] \in InFlight) /\ pc # "aborted" =>
        /\ pc \in OnThreads \cup {"execute"}
        /\ executor # Null => buffer = "live"

(* Whenever the flags are consulted (the guard and the teardown loop) they *)
(* mark exactly the slots that hold a result and were not visited yet.     *)
FlagsMatchSlots ==
    pc \in {"teardown", "guard"} =>
        \A i \in Task : i >= cursor => (successful[i] <=> home[i] = "slot")

(* A task panic is never swallowed: a call in which a task panicked does   *)
(* not return normally, and the payload it raises is the panic of one of   *)
(* its tasks unless the executor, scope.spawn or a destructor panicked.    *)
PanicsPropagate ==
    /\ pc = "returned" => \A i \in Task : task[i] \notin Panicked
    /\ pc = "raised" => \/ raised \in OtherPanic
                        \/ raised \in Task /\ task[raised] \in Panicked

(* On the scoped path the payload is that of the inline task if it         *)
(* panicked, else that of the lowest index: deterministic, whatever the    *)
(* order in which the workers panic.                                       *)
ScopedPayloadIsDeterministic ==
    /\ pc = "raised"
    /\ executor = Null
    /\ raised \in Index
    => IF task[num_chunks - 1] = "panicked"
       THEN raised = num_chunks - 1
       ELSE \A i \in 0 .. raised - 1 : task[i] = "done"

(* The first payload recorded under the panic mutex is the one the call    *)
(* raises: a later panic never replaces it before it is taken out.         *)
FirstPayloadStays ==
    [][panic_payload # Null =>
          \/ panic_payload' = panic_payload
          \/ raised' = panic_payload
          \/ pc = "guard"]_vars

(* Every call comes to an end, whatever is registered or cleared meanwhile *)
(* and whichever tasks panic.                                              *)
CallEnds == pc \in Working ~> pc \in Terminal
----------------------------------------------------------------------------
(* drive implements PartitionCall.                                         *)
Status == IF pc \in {"idle"} \cup Terminal THEN pc ELSE "working"
Ran(state) ==
    CASE state = "idle" -> "no"
      [] state = "running" -> "running"
      [] state \in {"ok", "written", "done"} -> "ok"
      [] OTHER -> "panic"
Answer == CASE pc = "returned" -> results
            [] pc = "raised" -> raised
            [] OTHER -> Null

Abstract == INSTANCE PartitionCall WITH
    EnvironmentPanic <- OtherPanic,
    Nothing <- Null,
    status <- Status,
    size <- num_chunks,
    ran <- [i \in Index |-> Ran(task[i])],
    answer <- Answer

(* Seen from outside, every step of the driver is a step of the abstract   *)
(* call or changes nothing: each index runs at most once, none runs after  *)
(* the call is over, a return means all results in order, a raise means a  *)
(* panic of a task or of the environment.                                  *)
ImplementsPartitionCall == Abstract!Spec
=============================================================================
