---------------------------- MODULE BrandedAtomic ----------------------------
(***************************************************************************)
(* BrandedAtomic (atomic/): atomics of one brand that are accessed plainly *)
(* under a write permit (the exclusive phase) and atomically under read    *)
(* permits (the shared phase), with an ordering given at run time or by a  *)
(* policy type.  A thread that has an atomic to itself needs no permit.    *)
(*                                                                         *)
(* The memory is that of the Rust abstract machine in its view-based form: *)
(* an atomic is the sequence of the stores made to it, a thread has a view *)
(* of how far it is in each of them, a store carries the view it           *)
(* publishes.  A load returns any store that is not older than the         *)
(* thread's view.  Stores are appended, so one modification order is       *)
(* followed, that of the behaviour.  SeqCst is as strong as AcqRel here,   *)
(* which leaves behaviours in and takes none out.                          *)
(***************************************************************************)
EXTENDS Integers, Sequences, FiniteSets

CONSTANTS
    Threads,
    Atomics,      \* the branded atomics
    Sources,      \* the ordering sources callers use
    Width,        \* bits of the value type
    MaxStores,    \* bound on the stores made in a behaviour
    Null

Orderings == {"Relaxed", "Acquire", "Release", "AcqRel", "SeqCst"}
Policies == {[policy |-> TRUE, order |-> o] : o \in {"Relaxed", "AcqRel", "SeqCst"}}
Runtime == {[policy |-> FALSE, order |-> o] : o \in Orderings}

ASSUME SourcesAssumption == Sources \subseteq Policies \cup Runtime
ASSUME WidthAssumption == Width \in Nat \ {0}
ASSUME StoresAssumption == MaxStores \in Nat
ASSUME NullAssumption == Null \notin Threads

VARIABLES
    mem,       \* mem[a]: the stores made to a, the value it was created with first
    view,      \* view[t][a]: the newest store to a that t knows of
    token,     \* the thread that has the owner token
    readers,   \* the threads that have a read permit
    plain,     \* the thread inside with_exclusive, or Null
    owner,     \* owner[a]: the thread that has a to itself, or Null while a is lent
    updating,  \* updating[t]: the fetch_update t is in, or Null
    last       \* what the last step did, for the properties

permitVars == <<token, readers, plain, owner>>
vars == <<mem, view, permitVars, updating, last>>

Value == 0 .. 2^Width - 1
Increment(v) == (v + 1) % 2^Width

----------------------------------------------------------------------------
(* Orderings.  A source is a policy type or an Ordering given at run time. *)

LOAD == [Relaxed |-> "Relaxed", AcqRel |-> "Acquire", SeqCst |-> "SeqCst"]
RelaxedStore == [Relaxed |-> "Relaxed", AcqRel |-> "Relaxed", SeqCst |-> "SeqCst"]
STORE == [Relaxed |-> "Relaxed", AcqRel |-> "Release", SeqCst |-> "SeqCst"]
RMW == [Relaxed |-> "Relaxed", AcqRel |-> "AcqRel", SeqCst |-> "SeqCst"]
RMWForFailure == [Relaxed |-> "Relaxed", AcqRel |-> "AcqRel", SeqCst |-> "SeqCst"]
FAILURE == [Relaxed |-> "Relaxed", AcqRel |-> "Acquire", SeqCst |-> "SeqCst"]

load_order(s) == IF s.policy THEN LOAD[s.order] ELSE s.order
store_order(s) == IF s.policy THEN STORE[s.order] ELSE s.order
rmw_order(s) == IF s.policy THEN RMW[s.order] ELSE s.order
failure_order(s) == IF s.policy THEN FAILURE[s.order] ELSE s.order

(* What core::sync::atomic accepts; it panics on the others.               *)
LoadAccepts(o) == o \notin {"Release", "AcqRel"}
StoreAccepts(o) == o \notin {"Acquire", "AcqRel"}

Acquires(o) == o \in {"Acquire", "AcqRel", "SeqCst"}
Releases(o) == o \in {"Release", "AcqRel", "SeqCst"}

(* The policies that are documented to order what surrounds them.          *)
Ordered(s) == s \in Policies /\ s.order # "Relaxed"

----------------------------------------------------------------------------
(* Views and stores.                                                       *)

Bottom == [a \in Atomics |-> 0]
Join(v, w) == [a \in Atomics |-> IF v[a] > w[a] THEN v[a] ELSE w[a]]
Newest(a) == Len(mem[a])
Holds(a) == mem[a][Newest(a)].val
Stores == UNION {{a} \X (2 .. Newest(a)) : a \in Atomics}

(* pub: what the writer knew, when it used an ordering policy; add: the    *)
(* store is an increment of what it replaced.                              *)
Msg(val, v, pub, add) == [val |-> val, view |-> v, pub |-> pub, add |-> add]

Init ==
    /\ mem = [a \in Atomics |-> <<Msg(0, Bottom, Null, FALSE)>>]
    /\ view = [t \in Threads |-> [a \in Atomics |-> 1]]
    /\ token \in Threads
    /\ readers = {}
    /\ plain = Null
    /\ owner = [a \in Atomics |-> token]
    /\ updating = [t \in Threads |-> Null]
    /\ last = [step |-> "none"]

(* Thread t reads the store n of a.                                        *)
ViewAfterRead(t, a, n, o) ==
    LET seen == [view[t] EXCEPT ![a] = IF n > @ THEN n ELSE @] IN
    IF Acquires(o) THEN Join(seen, mem[a][n].view) ELSE seen

ReadNote(t, a, n, s) ==
    IF Ordered(s) THEN [step |-> "read", thread |-> t, atomic |-> a, index |-> n]
                  ELSE [step |-> "none"]
Refused(s) == [step |-> "refused", source |-> s]

(* Thread t with view v stores val to a; a read-modify-write passes on the *)
(* view of the store it replaces.                                          *)
StoreWith(t, a, val, v, o, s, inherited, add) ==
    LET n == Newest(a) + 1
        mine == [v EXCEPT ![a] = n]
        published == IF Releases(o) THEN mine ELSE [Bottom EXCEPT ![a] = n] IN
    /\ Cardinality(Stores) < MaxStores
    /\ mem' = [mem EXCEPT ![a] = Append(@, Msg(val, Join(published, inherited),
                                               IF Ordered(s) THEN mine ELSE Null, add))]
    /\ view' = [view EXCEPT ![t] = mine]

----------------------------------------------------------------------------
(* The shared phase.  Every operation needs a read permit and a & of the   *)
(* atomic; as_atomic hands that & out for as long as the permit lasts.     *)
Reaches(t, a) == owner[a] \in {t, Null}
Permitted(t, a) == t \in readers /\ updating[t] = Null /\ Reaches(t, a)

load(t, a, s) ==
    /\ Permitted(t, a)
    /\ UNCHANGED <<mem, permitVars, updating>>
    /\ \/ /\ ~LoadAccepts(load_order(s))
          /\ last' = Refused(s)
          /\ UNCHANGED view
       \/ /\ LoadAccepts(load_order(s))
          /\ \E n \in view[t][a] .. Newest(a) :
                /\ view' = [view EXCEPT ![t] = ViewAfterRead(t, a, n, load_order(s))]
                /\ last' = ReadNote(t, a, n, s)

store(t, a, val, s) ==
    /\ Permitted(t, a)
    /\ UNCHANGED <<permitVars, updating>>
    /\ \/ /\ ~StoreAccepts(store_order(s))
          /\ last' = Refused(s)
          /\ UNCHANGED <<mem, view>>
       \/ /\ StoreAccepts(store_order(s))
          /\ StoreWith(t, a, val, view[t], store_order(s), s, Bottom, FALSE)
          /\ last' = [step |-> "none"]

(* A read-modify-write reads the newest store and replaces it.             *)
Replace(t, a, val, s, add) ==
    /\ StoreWith(t, a, val, ViewAfterRead(t, a, Newest(a), rmw_order(s)), rmw_order(s),
                 s, mem[a][Newest(a)].view, add)
    /\ last' = ReadNote(t, a, Newest(a), s)

swap(t, a, val, s) ==
    /\ Permitted(t, a)
    /\ Replace(t, a, val, s, FALSE)
    /\ UNCHANGED <<permitVars, updating>>

fetch_add(t, a, s) ==
    /\ Permitted(t, a)
    /\ Replace(t, a, Increment(Holds(a)), s, TRUE)
    /\ UNCHANGED <<permitVars, updating>>

(* fetch_sub, fetch_and, fetch_or, fetch_xor, fetch_nand, fetch_max and    *)
(* fetch_min, whatever the value they compute.                             *)
fetch_op(t, a, s) ==
    /\ Permitted(t, a)
    /\ \E val \in Value : Replace(t, a, val, s, FALSE)
    /\ UNCHANGED <<permitVars, updating>>

(* compare_exchange takes two orderings, its _with form one policy for     *)
(* both.  A failure is a load of a store with another value.               *)
OrderPairs == ((Sources \cap Runtime) \X (Sources \cap Runtime))
                 \cup {<<s, s>> : s \in Sources \cap Policies}

FailedRead(t, a, current, s) ==
    \E n \in view[t][a] .. Newest(a) :
        /\ mem[a][n].val # current
        /\ view' = [view EXCEPT ![t] = ViewAfterRead(t, a, n, failure_order(s))]
        /\ last' = ReadNote(t, a, n, s)
        /\ UNCHANGED mem

compare_exchange(t, a, current, new, success, failure) ==
    /\ Permitted(t, a)
    /\ UNCHANGED <<permitVars, updating>>
    /\ \/ /\ ~LoadAccepts(failure_order(failure))
          /\ last' = Refused(failure)
          /\ UNCHANGED <<mem, view>>
       \/ /\ LoadAccepts(failure_order(failure))
          /\ Holds(a) = current
          /\ Replace(t, a, new, success, FALSE)
       \/ /\ LoadAccepts(failure_order(failure))
          /\ FailedRead(t, a, current, failure)

(* fetch_update with an incrementing closure: a load, then a weak          *)
(* compare-exchange of what was read, again and again until it succeeds.   *)
fetch_update(t, a, set, fetch) ==
    /\ Permitted(t, a)
    /\ UNCHANGED <<mem, permitVars>>
    /\ \/ /\ ~LoadAccepts(failure_order(fetch))
          /\ last' = Refused(fetch)
          /\ UNCHANGED <<view, updating>>
       \/ /\ LoadAccepts(failure_order(fetch))
          /\ \E n \in view[t][a] .. Newest(a) :
                /\ view' = [view EXCEPT ![t] = ViewAfterRead(t, a, n, failure_order(fetch))]
                /\ updating' = [updating EXCEPT ![t] =
                      [atomic |-> a, prev |-> mem[a][n].val, set |-> set, fetch |-> fetch]]
                /\ last' = ReadNote(t, a, n, fetch)

AnyValue(u) == TRUE
StillThere(u) == Holds(u.atomic) = u.prev

TryUpdate(t) ==
    LET u == updating[t] IN
    /\ u # Null
    /\ UNCHANGED permitVars
    /\ \/ /\ StillThere(u)
          /\ Replace(t, u.atomic, Increment(u.prev), u.set, TRUE)
          /\ updating' = [updating EXCEPT ![t] = Null]
       \/ \E n \in view[t][u.atomic] .. Newest(u.atomic) :
             /\ view' = [view EXCEPT ![t] = ViewAfterRead(t, u.atomic, n, failure_order(u.fetch))]
             /\ updating' = [updating EXCEPT ![t].prev = mem[u.atomic][n].val]
             /\ last' = ReadNote(t, u.atomic, n, u.fetch)
             /\ UNCHANGED mem

(* The closure returns None: fetch_update gives up.                        *)
GiveUp(t) ==
    /\ updating[t] # Null
    /\ updating' = [updating EXCEPT ![t] = Null]
    /\ last' = [step |-> "none"]
    /\ UNCHANGED <<mem, view, permitVars>>

----------------------------------------------------------------------------
(* The exclusive phase: with_exclusive, load_exclusive, store_exclusive.   *)
(* The closure increments the value in place.                              *)
PlainStore(t, a) ==
    /\ StoreWith(t, a, Increment(mem[a][view[t][a]].val), view[t],
                 "Relaxed", [policy |-> FALSE, order |-> "Relaxed"], Bottom, TRUE)
    /\ last' = [step |-> "none"]
    /\ UNCHANGED <<permitVars, updating>>

Unchecked == plain = Null
Unshared == readers = {} /\ plain = Null

with_exclusive(t) ==
    /\ token = t
    /\ Unshared
    /\ plain' = t
    /\ last' = [step |-> "none"]
    /\ UNCHANGED <<mem, view, token, readers, owner, updating>>

PlainIncrement(a) == plain # Null /\ Reaches(plain, a) /\ PlainStore(plain, a)

ExclusiveEnds ==
    /\ plain # Null
    /\ plain' = Null
    /\ last' = [step |-> "none"]
    /\ UNCHANGED <<mem, view, token, readers, owner, updating>>

(* get_mut and as_atomic_mut: the owner's &mut of the atomic, no permit,   *)
(* while none of its own operations on the atomic is under way.            *)
get_mut(a) ==
    /\ owner[a] \notin {Null, plain}
    /\ updating[owner[a]] = Null
    /\ PlainStore(owner[a], a)

----------------------------------------------------------------------------
(* Tokens and permits change hands; who gives synchronises with who gets.  *)

share(t) ==
    /\ token = t
    /\ plain = Null
    /\ t \notin readers
    /\ readers' = readers \cup {t}
    /\ last' = [step |-> "none"]
    /\ UNCHANGED <<mem, view, token, plain, owner, updating>>

Give(t, u) == view' = [view EXCEPT ![u] = Join(@, view[t])]

CopyPermit(t, u) ==
    /\ t \in readers
    /\ u \notin readers
    /\ readers' = readers \cup {u}
    /\ Give(t, u)
    /\ last' = [step |-> "none"]
    /\ UNCHANGED <<mem, token, plain, owner, updating>>

DropPermit(t) ==
    /\ t \in readers
    /\ updating[t] = Null
    /\ readers' = readers \ {t}
    /\ Give(t, token)
    /\ last' = [step |-> "none"]
    /\ UNCHANGED <<mem, token, plain, owner, updating>>

MoveToken(t, u) ==
    /\ token = t
    /\ u # t
    /\ Unshared
    /\ token' = u
    /\ Give(t, u)
    /\ last' = [step |-> "none"]
    /\ UNCHANGED <<mem, readers, plain, owner, updating>>

(* The owner lends the atomic to all threads; the borrow ends on all of    *)
(* them, and one of them has the atomic to itself: it may also take it     *)
(* apart and brand it anew (into_atomic, from_mut).                        *)
Lend(a) ==
    /\ owner[a] # Null
    /\ owner' = [owner EXCEPT ![a] = Null]
    /\ view' = [t \in Threads |-> Join(view[t], view[owner[a]])]
    /\ last' = [step |-> "none"]
    /\ UNCHANGED <<mem, token, readers, plain, updating>>

Reclaim(a, t) ==
    /\ owner[a] = Null
    /\ \A u \in Threads : updating[u] # Null => updating[u].atomic # a
    /\ plain = Null
    /\ owner' = [owner EXCEPT ![a] = t]
    /\ view' = [view EXCEPT ![t] = [b \in Atomics |->
                   CHOOSE n \in {view[u][b] : u \in Threads} :
                      \A u \in Threads : view[u][b] <= n]]
    /\ last' = [step |-> "none"]
    /\ UNCHANGED <<mem, token, readers, plain, updating>>

----------------------------------------------------------------------------
SharedStep(t) ==
    \/ \E a \in Atomics, s \in Sources :
          \/ load(t, a, s)
          \/ \E val \in Value : store(t, a, val, s)
          \/ \E val \in Value : swap(t, a, val, s)
          \/ fetch_add(t, a, s)
          \/ fetch_op(t, a, s)
    \/ \E a \in Atomics, p \in OrderPairs :
          \/ \E current, new \in Value : compare_exchange(t, a, current, new, p[1], p[2])
          \/ fetch_update(t, a, p[1], p[2])
    \/ TryUpdate(t)
    \/ GiveUp(t)

Next ==
    \/ \E t \in Threads :
          \/ SharedStep(t)
          \/ with_exclusive(t)
          \/ share(t)
          \/ DropPermit(t)
          \/ \E u \in Threads : CopyPermit(t, u) \/ MoveToken(t, u)
    \/ \E a \in Atomics :
          \/ PlainIncrement(a)
          \/ get_mut(a)
          \/ Lend(a)
          \/ \E t \in Threads : Reclaim(a, t)
    \/ ExclusiveEnds

Spec == Init /\ [][Next]_vars

----------------------------------------------------------------------------
(* with_exclusive's &mut is unaliased and its plain accesses race with no  *)
(* atomic one: no permit is out, no operation is under way, and the thread *)
(* knows of every store made before.  So it is with the &mut of an owner,  *)
(* although permits may be out.                                            *)
PlainIsExclusive ==
    /\ plain # Null =>
          /\ readers = {}
          /\ \A t \in Threads : updating[t] = Null
          /\ \A a \in Atomics : Reaches(plain, a) => view[plain][a] = Newest(a)
    /\ \A a \in Atomics : owner[a] # Null => view[owner[a]][a] = Newest(a)

(* No increment is lost, whether it is made by fetch_add, by the loop of   *)
(* fetch_update or plainly in the exclusive phase, and whichever orderings *)
(* are used: it adds one to the value it replaces.                         *)
NoLostUpdate ==
    \A a \in Atomics : \A n \in 2 .. Newest(a) :
        mem[a][n].add => mem[a][n].val = Increment(mem[a][n - 1].val)

(* The policies AcqRel and SeqCst publish: whoever reads with such a       *)
(* policy, in a load, a read-modify-write or a failed compare-exchange,    *)
(* what was written with one, knows all that its writer knew.              *)
PoliciesPublish ==
    last.step = "read" =>
        LET m == mem[last.atomic][last.index] IN
        m.pub # Null => \A a \in Atomics : view[last.thread][a] >= m.pub[a]

(* No operation with a policy is refused by core::sync::atomic; the run-   *)
(* time orderings, which are passed on as they are, can be.                *)
PoliciesAreAccepted == last.step = "refused" => ~last.source.policy
=============================================================================
