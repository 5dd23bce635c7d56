--------------------------- MODULE DriveInvariant ---------------------------
(***************************************************************************)
(* The inductive invariant of Drive, from which its safety properties      *)
(* follow (DriveProofs).                                                   *)
(***************************************************************************)
EXTENDS Drive

(* Nothing exists beyond num_chunks.                                       *)
Untouched ==
    \A i \in Index \ Task : /\ task[i] = "idle"
                            /\ home[i] = "nowhere"
                            /\ drops[i] = 0

(* A value exists exactly between its production and its drop.             *)
LifeOf(i) ==
    \/ ~Produced(i) /\ home[i] = "nowhere" /\ drops[i] = 0
    \/ Produced(i) /\ home[i] # "nowhere" /\ drops[i] = 0
    \/ task[i] = "done" /\ home[i] = "nowhere" /\ drops[i] = 1

Lives == \A i \in Task : LifeOf(i)

(* Before the call no flag is set and no payload is known.                 *)
Fresh ==
    pc = "idle" => /\ \A i \in Index : ~successful[i]
                   /\ panic_payload = Null
                   /\ raised = Null

(* Where the calling thread can be, and with which loop index.             *)
Control ==
    /\ pc = "idle" => num_chunks = 0 /\ executor = Null /\ cursor = 0
    /\ pc # "idle" => num_chunks >= 1
    /\ pc \in OnExecutor => executor # Null /\ cursor <= num_chunks
    /\ pc \in OnThreads => executor = Null
    /\ pc \in {"single", "single run", "single end"} => num_chunks = 1
    /\ pc = "execute" => cursor = 0
    /\ pc \in {"spawn", "inline", "join"} => cursor < num_chunks
    /\ pc = "inline" => cursor = num_chunks - 1

(* The Vec<R> of the scoped path holds the results joined so far.          *)
Collected ==
    /\ pc \in {"idle", "execute", "single", "spawn", "inline"} => results = << >>
    /\ pc = "join" => results = [k \in 1 .. cursor |-> k - 1]

(* The executor path: the buffer and the recorded payload ...              *)
ExecutorCall ==
    /\ pc \in OnExecutor => buffer = "live"
    /\ pc \in {"returned", "raised"} /\ raised # DropPanic => buffer # "live"
    /\ pc \in {"execute", "teardown"} => raised = Null
    /\ pc = "returned" => raised = Null
    /\ pc = "guard" => raised = ExecutorPanic
    /\ pc = "teardown" => panic_payload # Null
    /\ pc = "returned" => panic_payload = Null
    /\ pc \in {"execute", "teardown"} /\ panic_payload # Null =>
          panic_payload \in Task /\ task[panic_payload] = "panicked"

(* ... and the progress, the flag and the slot of one task.                *)
ExecutorTask(i) ==
    /\ task[i] \in InFlight => pc = "execute"
    /\ successful[i] <=> task[i] = "done"
    /\ task[i] = "ok" => home[i] = "task"
    /\ task[i] = "written" => home[i] = "slot"
    /\ task[i] = "done" =>
          /\ pc = "execute" => home[i] = "slot"
          /\ pc \in {"guard", "teardown"} =>
                home[i] = (IF i < cursor THEN "nowhere" ELSE "slot")
          /\ pc = "returned" => home[i] = "caller"
          /\ pc = "raised" /\ raised # DropPanic => home[i] = "nowhere"
    /\ pc = "returned" => task[i] = "done"
    /\ pc = "execute" /\ panic_payload = Null =>
          task[i] \notin {"panicked", "escaped"}

ExecutorPath ==
    executor # Null => ExecutorCall /\ \A i \in Task : ExecutorTask(i)

(* The scoped path: the task of the calling thread and the payload it      *)
(* unwinds with ...                                                        *)
ScopedCall ==
    LET last == num_chunks - 1 IN
    /\ buffer = "none"
    /\ pc = "inline" => task[last] = "running"
    /\ pc = "join" => task[last] = "done"
    /\ pc \in {"unwind", "scope wait", "raised"} =>
          /\ task[last] # "running"
          /\ raised # Null
          /\ raised \in Index =>
                /\ raised \in Task
                /\ task[raised] = "panicked"
                /\ \/ raised = last
                   \/ task[last] = "done" /\ \A i \in 0 .. raised - 1 : task[i] = "done"

(* ... and which workers exist, and who owns their values.                 *)
ScopedTask(i) ==
    /\ task[i] \in {"idle", "running", "done", "panicked"}
    /\ task[i] = "done" =>
          /\ pc \in {"spawn", "inline"} => home[i] = "packet"
          /\ pc = "join" => home[i] = (IF i < cursor \/ i = num_chunks - 1
                                       THEN "local" ELSE "packet")
          /\ pc = "single end" => home[i] = "local"
          /\ pc = "unwind" => home[i] \in {"local", "packet"}
          /\ pc = "scope wait" => home[i] \in {"nowhere", "packet"}
          /\ pc = "raised" => home[i] = "nowhere"
          /\ pc = "returned" => home[i] = "caller"
    /\ pc = "idle" => task[i] = "idle"
    /\ pc = "single" => task[i] = "idle"
    /\ pc = "single run" => task[i] = "running"
    /\ pc = "single end" => task[i] \in {"done", "panicked"}
    /\ pc = "spawn" => (i < cursor <=> task[i] # "idle")
    /\ pc \in {"inline", "join"} => task[i] # "idle"
    /\ pc = "join" /\ i < cursor => task[i] = "done"
    /\ pc = "returned" => task[i] = "done"
    /\ pc = "raised" => task[i] # "running"

ScopedPath ==
    executor = Null => ScopedCall /\ \A i \in Task : ScopedTask(i)

(* On the executor path a payload that is an index is that of a task.      *)
ExecutorPayload ==
    executor # Null /\ pc = "raised" =>
        /\ raised # Null
        /\ raised \in Index => raised \in Task /\ task[raised] = "panicked"

IInv ==
    /\ TypeOK
    /\ Untouched
    /\ Lives
    /\ Fresh
    /\ Control
    /\ Collected
    /\ ExecutorPath
    /\ ExecutorPayload
    /\ ScopedPath
    /\ ReturnsAllResultsInOrder
=============================================================================
