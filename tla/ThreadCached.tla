---------------------------- MODULE ThreadCached ----------------------------
(***************************************************************************)
(* What lives on one thread: the value cache that thread_cached! declares  *)
(* (thread_cached.rs) beside the re-entrancy gates (ReentrantGate).        *)
(*                                                                         *)
(* The initialiser given to get_or_init is a closure of the caller: it may *)
(* use the cache itself, enter gates, and panic, and a closure inside a    *)
(* gate may use the cache.  Initialisers and gates therefore nest in one   *)
(* stack of calls; `pending' says where the initialisers are in it.        *)
(***************************************************************************)
EXTENDS ReentrantGate

CONSTANTS
    Values,     \* the values of the cached type
    None,       \* Option::None
    MaxInits    \* bound on nested initialisers

ASSUME NoneAssumption == None \notin Values
ASSUME MaxInitsAssumption == MaxInits \in Nat

VARIABLES
    VALUE,      \* the thread-local Cell<Option<T>>
    pending,    \* pending[k]: how many gates were entered when init k was called
    answered    \* what code outside every initialiser was told last, since
                \* it last called clear

cacheVars == <<VALUE, pending, answered>>
threadVars == <<vars, cacheVars>>

ThreadInit ==
    /\ Init
    /\ VALUE = None
    /\ pending = << >>
    /\ answered = None

Outside == pending = << >>
InitIsInnermost == ~Outside /\ pending[Len(pending)] = Depth
GateIsInnermost == IF Outside THEN TRUE ELSE pending[Len(pending)] < Depth
Return == pending' = SubSeq(pending, 1, Len(pending) - 1)
Answer(v, outside) == answered' = IF outside THEN v ELSE answered

----------------------------------------------------------------------------
(* get_or_init finds a value ...                                           *)
Hit ==
    /\ ~unwinding
    /\ VALUE # None
    /\ Answer(VALUE, Outside)
    /\ UNCHANGED <<vars, VALUE, pending>>

(* ... or finds none and calls init.                                       *)
Miss ==
    /\ ~unwinding
    /\ VALUE = None
    /\ Len(pending) < MaxInits
    /\ pending' = Append(pending, Depth)
    /\ UNCHANGED <<vars, VALUE, answered>>

(* init returns: its value is stored over whatever is there by now, and    *)
(* returned.                                                               *)
KeepInner(v) == IF VALUE = None THEN v ELSE VALUE
Stored(v) == v
InitReturns(v) ==
    /\ ~unwinding
    /\ InitIsInnermost
    /\ VALUE' = Stored(v)
    /\ Return
    /\ Answer(v, Len(pending) = 1)
    /\ UNCHANGED vars

(* init panics: nothing is stored by this call.                            *)
InitPanics ==
    /\ ~unwinding
    /\ InitIsInnermost
    /\ unwinding' = TRUE
    /\ UNCHANGED <<active, stack, refused, cacheVars>>

InitUnwinds ==
    /\ unwinding
    /\ InitIsInnermost
    /\ Return
    /\ UNCHANGED <<vars, VALUE, answered>>

set(v) ==
    /\ ~unwinding
    /\ VALUE' = v
    /\ Answer(v, Outside)
    /\ UNCHANGED <<vars, pending>>

get ==
    /\ ~unwinding
    /\ Answer(VALUE, Outside)
    /\ UNCHANGED <<vars, VALUE, pending>>

clear ==
    /\ ~unwinding
    /\ VALUE' = None
    /\ Answer(None, Outside)
    /\ UNCHANGED <<vars, pending>>

(* A step of the gates; only the innermost call can return or panic.       *)
GateStep ==
    /\ \/ \E g \in Gates : enter(g) \/ enter_unguarded(g) \/ Refuse(g)
       \/ GateIsInnermost /\ Leave
       \/ GateIsInnermost /\ Panics
       \/ Catches
    /\ UNCHANGED cacheVars

ThreadNext ==
    \/ Hit
    \/ Miss
    \/ \E v \in Values : InitReturns(v)
    \/ InitPanics
    \/ InitUnwinds
    \/ \E v \in Values : set(v)
    \/ get
    \/ clear
    \/ GateStep

ThreadSpec == ThreadInit /\ [][ThreadNext]_threadVars

----------------------------------------------------------------------------
(* Outside every initialiser, what get_or_init, set or get told the thread *)
(* last is what the cache holds: an initialiser that itself called         *)
(* get_or_init, set or clear, or panicked and was caught anywhere on the   *)
(* way, never leaves the cache at odds with the answer it gave.            *)
AnswersAgree == Outside /\ answered # None => VALUE = answered
=============================================================================
