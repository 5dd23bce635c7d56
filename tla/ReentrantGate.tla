---------------------------- MODULE ReentrantGate ----------------------------
(***************************************************************************)
(* The re-entrancy gates of melinoe (reentrant/):                          *)
(*                                                                         *)
(*   reset.rs    the Reset guard on the `active' flag                      *)
(*   gate.rs     ReentrancyCell::enter                                     *)
(*   guarded.rs  GuardedCell::enter, enter_unguarded                       *)
(*                                                                         *)
(* The gates are not Sync, so one thread is followed through its nested    *)
(* calls.  A frame of `stack' is a closure running inside a gate and       *)
(* holding what the gate gives it: the &mut T of a GuardedCell or the      *)
(* exclusive token of a ReentrancyCell.  A closure may enter gates, read   *)
(* flags, return, panic, or catch a panic that comes out of a call it      *)
(* made.                                                                   *)
(***************************************************************************)
EXTENDS Integers, Sequences

CONSTANTS
    Gates      \* the gates in use

VARIABLES
    active,    \* active[g]: the flag of gate g
    stack,     \* the calls in progress, the innermost last
    unwinding, \* is a panic on its way out of the innermost call?
    refused    \* the gate whose last entry was refused, with Err(Reentered)

vars == <<active, stack, unwinding, refused>>

Frame == [gate : Gates, guarded : BOOLEAN]
Depth == Len(stack)
Inside(g) == \E k \in 1 .. Depth : stack[k].gate = g
Top == stack[Depth]

Init ==
    /\ active = [g \in Gates |-> FALSE]
    /\ stack = << >>
    /\ unwinding = FALSE
    /\ refused = {}

(* The contract of enter_unguarded: its closure does not come back to the  *)
(* gate, neither directly nor through the calls it makes.                  *)
Permitted(g) ==
    ~ \E k \in 1 .. Depth : stack[k].gate = g /\ ~stack[k].guarded

(* Reset::acquire succeeds: the flag is set and the closure runs.          *)
AcquireUnset(g) ==
    /\ ~active[g]
    /\ UNCHANGED active
acquire(g) ==
    /\ ~active[g]
    /\ active' = [active EXCEPT ![g] = TRUE]

enter(g) ==
    /\ ~unwinding
    /\ Permitted(g)
    /\ acquire(g)
    /\ stack' = Append(stack, [gate |-> g, guarded |-> TRUE])
    /\ refused' = {}
    /\ UNCHANGED unwinding

(* enter_unguarded only reads the flag.                                    *)
UncheckedFlag(g) == TRUE
FlagIsClear(g) == ~active[g]
enter_unguarded(g) ==
    /\ ~unwinding
    /\ Permitted(g)
    /\ FlagIsClear(g)
    /\ stack' = Append(stack, [gate |-> g, guarded |-> FALSE])
    /\ refused' = {}
    /\ UNCHANGED <<active, unwinding>>

(* Either entry finds the flag set: Err(Reentered), nothing changes.       *)
Refuse(g) ==
    /\ ~unwinding
    /\ Permitted(g)
    /\ active[g]
    /\ refused' = {g}
    /\ UNCHANGED <<active, stack, unwinding>>

(* Reset::drop, when the innermost call is left by a return or a panic.    *)
ResetOnReturnOnly ==
    active' = IF Top.guarded /\ ~unwinding
              THEN [active EXCEPT ![Top.gate] = FALSE] ELSE active
ResetDrop ==
    active' = IF Top.guarded
              THEN [active EXCEPT ![Top.gate] = FALSE] ELSE active

(* The innermost closure returns, or the panic unwinds out of its gate.    *)
Leave ==
    /\ Depth > 0
    /\ ResetDrop
    /\ stack' = SubSeq(stack, 1, Depth - 1)
    /\ refused' = {}
    /\ UNCHANGED unwinding

Panics ==
    /\ ~unwinding
    /\ Depth > 0
    /\ unwinding' = TRUE
    /\ UNCHANGED <<active, stack, refused>>

(* The code that made the call catches the panic; the bottom of the stack  *)
(* (a thread's main function or catch_unwind) always does.                 *)
Catches ==
    /\ unwinding
    /\ unwinding' = FALSE
    /\ UNCHANGED <<active, stack, refused>>

Next ==
    \/ \E g \in Gates : enter(g) \/ enter_unguarded(g) \/ Refuse(g)
    \/ Leave
    \/ Panics
    \/ Catches

Spec == Init /\ [][Next]_vars

----------------------------------------------------------------------------
TypeOK ==
    /\ active \in [Gates -> BOOLEAN]
    /\ stack \in Seq(Frame)
    /\ unwinding \in BOOLEAN
    /\ refused \in SUBSET Gates

(* At most one call holds the &mut T (or the token) of a gate, however     *)
(* calls of several gates nest and whichever of them panic.                *)
OneHolder ==
    \A j, k \in 1 .. Depth : j # k => stack[j].gate # stack[k].gate

(* The flag of a gate is set exactly while a guarded call is inside it:    *)
(* a panic never leaves a gate locked ("never poisoned") and no return     *)
(* opens a gate that is still in use.                                      *)
FlagMeansInside ==
    \A g \in Gates :
        active[g] <=> \E k \in 1 .. Depth : stack[k].gate = g /\ stack[k].guarded

(* Reentered is reported only from inside the very gate.                   *)
RefusedOnlyInside == \A g \in refused : Inside(g)
=============================================================================
