--------------------------- MODULE PartitionCall ---------------------------
(***************************************************************************)
(* What a partition call promises its caller, with the machinery of        *)
(* driver_core.rs left out: each index is run at most once and by nobody   *)
(* once the call is over; a normal return means that every index ran to    *)
(* completion and yields the results in index order; otherwise the call    *)
(* raises the panic of a task, or a panic of its environment (executor,    *)
(* thread creation, destructors).                                          *)
(***************************************************************************)
EXTENDS Integers, Sequences

CONSTANTS MaxChunks, EnvironmentPanic, Nothing

VARIABLES
    status,   \* of the call
    size,     \* number of tasks
    ran,      \* progress of each index
    answer    \* the results, the payload raised, or Nothing

callVars == <<status, size, ran, answer>>

Indices == 0 .. MaxChunks - 1
Live == 0 .. size - 1
NobodyRuns == \A i \in Live : ran[i] # "running"

Init ==
    /\ status = "idle"
    /\ size = 0
    /\ ran = [i \in Indices |-> "no"]
    /\ answer = Nothing

Call(n) ==
    /\ status = "idle"
    /\ status' = "working"
    /\ size' = n
    /\ UNCHANGED <<ran, answer>>

Begin(i) ==
    /\ status = "working"
    /\ ran[i] = "no"
    /\ ran' = [ran EXCEPT ![i] = "running"]
    /\ UNCHANGED <<status, size, answer>>

End(i) ==
    /\ status = "working"
    /\ ran[i] = "running"
    /\ \E outcome \in {"ok", "panic"} : ran' = [ran EXCEPT ![i] = outcome]
    /\ UNCHANGED <<status, size, answer>>

Return ==
    /\ status = "working"
    /\ \A i \in Live : ran[i] = "ok"
    /\ status' = "returned"
    /\ answer' = [k \in 1 .. size |-> k - 1]
    /\ UNCHANGED <<size, ran>>

Raise ==
    /\ status = "working"
    /\ NobodyRuns
    /\ status' = "raised"
    /\ \/ \E i \in Live : ran[i] = "panic" /\ answer' = i
       \/ answer' \in EnvironmentPanic
    /\ UNCHANGED <<size, ran>>

(* A destructor that panics during unwinding takes the process down.       *)
Abort ==
    /\ status = "working"
    /\ status' = "aborted"
    /\ UNCHANGED <<size, ran, answer>>

Next ==
    \/ \E n \in 1 .. MaxChunks : Call(n)
    \/ \E i \in Live : Begin(i) \/ End(i)
    \/ Return
    \/ Raise
    \/ Abort

Spec == Init /\ [][Next]_callVars
=============================================================================
