------------------------- MODULE BrandedAtomicProofs -------------------------
(***************************************************************************)
(* Branded atomics, for any threads, atomics and ordering sources and any  *)
(* number of stores.                                                       *)
(*                                                                         *)
(* PlainIsExclusive is not inductive: with_exclusive needs to know that    *)
(* the owner token has seen every store, which it gets from the permits    *)
(* that come back.  The invariant says where the newest store of every     *)
(* atomic is known at every moment: by its owner or, while it is lent, by  *)
(* the token's thread or one that has a read permit.                       *)
(***************************************************************************)
EXTENDS BrandedAtomic, SequenceTheorems, TLAPS

Entries(s) == {s[k] : k \in 1 .. Len(s)}
IsSequence(s) == s \in Seq(Entries(s))
View == [Atomics -> Nat]

(* A store publishes no more than has been stored, and no less than what   *)
(* its writer knew when it used an ordering policy.                        *)
Published(m) ==
    /\ m.view \in View
    /\ \A b \in Atomics : m.view[b] <= Newest(b)
    /\ m.pub # Null => \A b \in Atomics : m.pub[b] \in Nat /\ m.pub[b] <= m.view[b]

MemoryInv ==
    /\ mem = [a \in Atomics |-> mem[a]]
    /\ \A a \in Atomics :
          /\ IsSequence(mem[a])
          /\ Newest(a) >= 1
          /\ \A n \in 1 .. Newest(a) : Published(mem[a][n])

ViewInv ==
    /\ view \in [Threads -> View]
    /\ \A t \in Threads, a \in Atomics : view[t][a] >= 1 /\ view[t][a] <= Newest(a)

(* with_exclusive holds the token, and no permit is out.                   *)
PermitInv ==
    /\ token \in Threads
    /\ readers \subseteq Threads
    /\ plain \in Threads \cup {Null}
    /\ owner \in [Atomics -> Threads \cup {Null}]
    /\ plain # Null => plain = token /\ readers = {}

(* An update under way keeps its permit and its reference to the atomic.   *)
UpdateInv ==
    /\ updating = [t \in Threads |-> updating[t]]
    /\ \A t \in Threads : updating[t] # Null =>
          /\ t \in readers
          /\ updating[t] = [atomic |-> updating[t].atomic, prev |-> updating[t].prev,
                            set |-> updating[t].set, fetch |-> updating[t].fetch]
          /\ updating[t].atomic \in Atomics
          /\ owner[updating[t].atomic] \in {t, Null}
          /\ updating[t].set \in Sources
          /\ updating[t].fetch \in Sources

(* Who knows of the newest store to an atomic.                             *)
KnownInv ==
    \A a \in Atomics :
        /\ owner[a] # Null => view[owner[a]][a] = Newest(a)
        /\ owner[a] = Null => \E u \in readers \cup {token} : view[u][a] = Newest(a)

Inv == MemoryInv /\ ViewInv /\ PermitInv /\ UpdateInv /\ KnownInv /\ NoLostUpdate

(* What the last step told, with the invariant.                            *)
Safe == Inv /\ PoliciesPublish /\ PoliciesAreAccepted

----------------------------------------------------------------------------
(* Orderings: an ordering policy acquires when it reads and releases when  *)
(* it writes, and no policy picks an ordering that core refuses.           *)
LEMMA PolicyOrders ==
    ASSUME NEW s \in Policies
    PROVE  /\ LoadAccepts(load_order(s))
           /\ StoreAccepts(store_order(s))
           /\ LoadAccepts(failure_order(s))
           /\ Ordered(s) => /\ Acquires(load_order(s))
                            /\ Releases(store_order(s))
                            /\ Acquires(rmw_order(s)) /\ Releases(rmw_order(s))
                            /\ Acquires(failure_order(s))
  <1>1. s.policy = TRUE /\ s.order \in {"Relaxed", "AcqRel", "SeqCst"}
    BY DEF Policies
  <1>2. /\ LOAD["Relaxed"] = "Relaxed" /\ LOAD["AcqRel"] = "Acquire"
        /\ LOAD["SeqCst"] = "SeqCst"
        /\ STORE["Relaxed"] = "Relaxed" /\ STORE["AcqRel"] = "Release"
        /\ STORE["SeqCst"] = "SeqCst"
        /\ RMW["Relaxed"] = "Relaxed" /\ RMW["AcqRel"] = "AcqRel"
        /\ RMW["SeqCst"] = "SeqCst"
        /\ FAILURE["Relaxed"] = "Relaxed" /\ FAILURE["AcqRel"] = "Acquire"
        /\ FAILURE["SeqCst"] = "SeqCst"
    BY DEF LOAD, STORE, RMW, FAILURE
  <1> QED
    BY <1>1, <1>2 DEF load_order, store_order, rmw_order, failure_order,
       LoadAccepts, StoreAccepts, Acquires, Releases, Ordered

(* A policy that orders acquires in its loads and failures, releases in    *)
(* its stores, and does both in its read-modify-writes.                    *)
LEMMA OrderedPolicies ==
    ASSUME NEW s, Ordered(s)
    PROVE  /\ s \in Policies
           /\ Acquires(load_order(s)) /\ Releases(store_order(s))
           /\ Acquires(rmw_order(s)) /\ Releases(rmw_order(s))
           /\ Acquires(failure_order(s))
  BY PolicyOrders DEF Ordered

----------------------------------------------------------------------------
(* Views.                                                                  *)

(* Joining views forgets nothing and invents nothing.                      *)
LEMMA JoinProperties ==
    ASSUME NEW v \in View, NEW w \in View
    PROVE  /\ Join(v, w) \in View
           /\ \A b \in Atomics : /\ v[b] <= Join(v, w)[b] /\ w[b] <= Join(v, w)[b]
                                 /\ Join(v, w)[b] \in {v[b], w[b]}
  BY DEF View, Join

(* The view of a thread that knows nothing.                                *)
LEMMA BottomIsView == Bottom \in View /\ \A b \in Atomics : Bottom[b] = 0
  BY DEF Bottom, View

(* Reading store n of a.                                                   *)
LEMMA ReadView ==
    ASSUME MemoryInv, ViewInv, NEW t \in Threads, NEW a \in Atomics,
           NEW n \in view[t][a] .. Newest(a), NEW o
    PROVE  LET v == ViewAfterRead(t, a, n, o) IN
           /\ n \in 1 .. Newest(a)
           /\ v \in View
           /\ \A b \in Atomics : view[t][b] <= v[b] /\ v[b] <= Newest(b)
           /\ Acquires(o) => \A b \in Atomics : mem[a][n].view[b] <= v[b]
  <1> DEFINE seen == [view[t] EXCEPT ![a] = IF n > @ THEN n ELSE @]
  <1>1. /\ view[t] \in View /\ n \in Nat /\ n >= 1 /\ n <= Newest(a)
        /\ \A b \in Atomics : Newest(b) \in Nat /\ view[t][b] \in Nat
                              /\ view[t][b] <= Newest(b)
    BY DEF MemoryInv, ViewInv, View, Newest, IsSequence
  <1>2. /\ seen \in View
        /\ \A b \in Atomics : view[t][b] <= seen[b] /\ seen[b] <= Newest(b)
    BY <1>1 DEF View
  <1>3. Published(mem[a][n])
    BY <1>1 DEF MemoryInv
  <1> DEFINE w == mem[a][n].view
  <1>4. w \in View /\ \A b \in Atomics : w[b] <= Newest(b)
    BY <1>3 DEF Published
  <1>5. ViewAfterRead(t, a, n, o) = IF Acquires(o) THEN Join(seen, w) ELSE seen
    BY DEF ViewAfterRead
  <1> HIDE DEF seen, w
  <1>6. CASE Acquires(o)
    <2>1. /\ Join(seen, w) \in View
          /\ \A b \in Atomics : /\ seen[b] <= Join(seen, w)[b] /\ w[b] <= Join(seen, w)[b]
                                /\ Join(seen, w)[b] \in {seen[b], w[b]}
      BY <1>2, <1>4, JoinProperties
    <2>2. \A b \in Atomics : seen[b] \in Nat /\ w[b] \in Nat /\ Join(seen, w)[b] \in Nat
      BY <1>2, <1>4, <2>1 DEF View
    <2>3. \A b \in Atomics : /\ view[t][b] <= Join(seen, w)[b]
                             /\ Join(seen, w)[b] <= Newest(b)
      BY <1>1, <1>2, <1>4, <2>1, <2>2
    <2> QED
      BY <1>1, <1>5, <1>6, <2>1, <2>3 DEF w
  <1>7. CASE ~Acquires(o)
    BY <1>1, <1>2, <1>5, <1>7
  <1> QED
    BY <1>6, <1>7

(* Steps that store nothing, after which no thread knows less.             *)
LEMMA ViewsGrow ==
    ASSUME Inv, mem' = mem, view' \in [Threads -> View],
           \A t \in Threads, b \in Atomics :
               view[t][b] <= view'[t][b] /\ view'[t][b] <= Newest(b)
    PROVE  /\ MemoryInv' /\ ViewInv' /\ NoLostUpdate'
           /\ \A b \in Atomics : Newest(b)' = Newest(b)
           /\ \A t \in Threads, b \in Atomics :
                 view[t][b] = Newest(b) => view'[t][b] = Newest(b)'
  <1>1. \A b \in Atomics : Newest(b)' = Newest(b) /\ Newest(b) \in Nat
    BY DEF Inv, MemoryInv, Newest, IsSequence
  <1>2. MemoryInv' /\ NoLostUpdate'
    BY <1>1 DEF Inv, MemoryInv, Published, NoLostUpdate, Newest, Increment
  <1>3. \A t \in Threads, b \in Atomics :
            view[t][b] \in Nat /\ view[t][b] >= 1 /\ view'[t][b] \in Nat
    BY DEF Inv, ViewInv, View
  <1>4. ViewInv'
    BY <1>1, <1>3 DEF ViewInv
  <1> QED
    BY <1>1, <1>2, <1>3, <1>4

(* The memory and the views after a store.                                 *)
LEMMA AppendEntry ==
    ASSUME NEW s, IsSequence(s), NEW m
    PROVE  /\ IsSequence(Append(s, m))
           /\ Len(s) \in Nat
           /\ Len(Append(s, m)) = Len(s) + 1
           /\ Append(s, m)[Len(s) + 1] = m
           /\ \A k \in 1 .. Len(s) : Append(s, m)[k] = s[k]
  <1> DEFINE S == Entries(s) \cup {m}
             u == Append(s, m)
  <1>1. s \in Seq(S) /\ m \in S /\ Len(s) \in Nat
    BY SeqMonotonic DEF IsSequence
  <1>2. /\ u \in Seq(S) /\ Len(u) = Len(s) + 1
        /\ u[Len(s) + 1] = m /\ \A k \in 1 .. Len(s) : u[k] = s[k]
    BY <1>1, AppendProperties
  <1> HIDE DEF u
  <1>3. ASSUME NEW x \in S
        PROVE  x \in Entries(u)
    <2>1. CASE x = m
      BY <1>1, <1>2, <2>1 DEF Entries
    <2>2. CASE x \in Entries(s)
      BY <1>1, <1>2, <2>2 DEF Entries
    <2> QED
      BY <2>1, <2>2
  <1>4. u \in Seq(Entries(u))
    BY <1>2, <1>3, SeqMonotonic
  <1> QED
    BY <1>1, <1>2, <1>4 DEF u, IsSequence

(* A thread that may store to a: its owner or, while it is lent, one that  *)
(* has a permit.                                                           *)
Writes(t, a) == owner[a] = t \/ (owner[a] = Null /\ t \in readers \cup {token})

(* Steps that leave permits and owners alone.                              *)
LEMMA SamePermits ==
    ASSUME Inv, UNCHANGED permitVars
    PROVE  PermitInv' /\ (updating' = updating => UpdateInv')
  BY DEF Inv, PermitInv, UpdateInv, permitVars

(* A store forgets nothing: the thread still knows of v, and the stores    *)
(* made before stay what they were.                                        *)
NothingForgotten(t, v) ==
    /\ \A b \in Atomics : v[b] <= view'[t][b]
    /\ \A b \in Atomics : \A k \in 1 .. Newest(b) : mem'[b][k] = mem[b][k]

(* A thread stores.                                                        *)
LEMMA StoreInv ==
    ASSUME Inv, NEW t \in Threads, NEW a \in Atomics, NEW val, NEW v \in View,
           \A b \in Atomics : view[t][b] <= v[b] /\ v[b] <= Newest(b),
           NEW o, NEW s, Ordered(s) => Releases(o),
           NEW inh \in View, \A b \in Atomics : inh[b] <= Newest(b),
           NEW add, add => val = Increment(Holds(a)),
           StoreWith(t, a, val, v, o, s, inh, add),
           Writes(t, a), UNCHANGED permitVars, UpdateInv'
    PROVE  Inv' /\ NothingForgotten(t, v)
  <1> DEFINE n == Newest(a) + 1
             mine == [v EXCEPT ![a] = n]
             published == IF Releases(o) THEN mine ELSE [Bottom EXCEPT ![a] = n]
             shown == Join(published, inh)
             m == Msg(val, shown, IF Ordered(s) THEN mine ELSE Null, add)
  <1>1. /\ mem' = [mem EXCEPT ![a] = Append(@, m)]
        /\ view' = [view EXCEPT ![t] = mine]
    BY DEF StoreWith
  <1>2. /\ mem = [b \in Atomics |-> mem[b]]
        /\ view \in [Threads -> View]
        /\ \A b \in Atomics : /\ IsSequence(mem[b])
                              /\ Newest(b) \in Nat /\ Newest(b) >= 1
    BY DEF Inv, MemoryInv, ViewInv, Newest, IsSequence
  <1>3. /\ mine \in View /\ mine[a] = n /\ \A b \in Atomics \ {a} : mine[b] = v[b]
        /\ published \in View
        /\ \A b \in Atomics : published[b] <= mine[b]
        /\ Releases(o) => published = mine
    BY <1>2, BottomIsView DEF View
  <1>4. mem'[a] = Append(mem[a], m) /\ \A b \in Atomics \ {a} : mem'[b] = mem[b]
    BY <1>1, <1>2
  <1>5. /\ IsSequence(mem'[a]) /\ Len(mem'[a]) = n /\ mem'[a][n] = m
        /\ \A k \in 1 .. Newest(a) : mem'[a][k] = mem[a][k]
    BY <1>2, <1>4, AppendEntry DEF Newest
  <1>6. Newest(a)' = n /\ \A b \in Atomics \ {a} : Newest(b)' = Newest(b)
    BY <1>4, <1>5 DEF Newest
  <1>7. \A b \in Atomics : v[b] \in Nat /\ mine[b] \in Nat /\ inh[b] \in Nat
                            /\ published[b] \in Nat
    <2> HIDE DEF mine, published
    <2> QED BY <1>3 DEF View
  <1>8. \A b \in Atomics : /\ v[b] <= mine[b] /\ mine[b] <= Newest(b)'
                           /\ Newest(b) <= Newest(b)' /\ Newest(b)' \in Nat
    <2>1. ASSUME NEW b \in Atomics, b # a
          PROVE  /\ v[b] <= mine[b] /\ mine[b] <= Newest(b)'
                 /\ Newest(b) <= Newest(b)' /\ Newest(b)' \in Nat
      <3>1. mine[b] = v[b] /\ Newest(b)' = Newest(b)
        BY <1>3, <1>6, <2>1
      <3> HIDE DEF mine
      <3> QED BY <1>2, <1>7, <3>1
    <2>2. v[a] <= mine[a] /\ mine[a] <= Newest(a)' /\ Newest(a) <= Newest(a)'
          /\ Newest(a)' \in Nat
      <3>1. mine[a] = n /\ Newest(a)' = n /\ v[a] <= Newest(a) /\ n = Newest(a) + 1
        BY <1>3, <1>6
      <3> HIDE DEF mine, n
      <3> QED BY <1>2, <1>7, <3>1
    <2> QED
      BY <2>1, <2>2
  <1>9. /\ m.view \in View
        /\ \A b \in Atomics : m.view[b] <= Newest(b)'
        /\ m.pub # Null => \A b \in Atomics : m.pub[b] \in Nat /\ m.pub[b] <= m.view[b]
    <2>1. /\ shown \in View
          /\ \A b \in Atomics : /\ published[b] <= shown[b]
                                /\ shown[b] \in {published[b], inh[b]}
      <3> HIDE DEF published
      <3> QED BY <1>3, JoinProperties
    <2>2. m.view = shown /\ m.pub = IF Ordered(s) THEN mine ELSE Null
      BY DEF Msg
    <2>3. ASSUME NEW b \in Atomics
          PROVE  shown[b] <= Newest(b)' /\ (Ordered(s) => mine[b] <= shown[b])
      <3>1. inh[b] <= Newest(b) /\ published[b] <= mine[b]
            /\ (Ordered(s) => published[b] = mine[b])
        BY <1>3
      <3>2. published[b] <= shown[b] /\ shown[b] \in {published[b], inh[b]}
        BY <2>1
      <3> HIDE DEF published, mine, shown
      <3> QED BY <1>2, <1>7, <1>8, <3>1, <3>2
    <2> HIDE DEF m, mine, shown
    <2> QED
      BY <1>7, <2>1, <2>2, <2>3
  <1> HIDE DEF m, mine, published, shown
  <1>10. \A b \in Atomics : \A k \in 1 .. Newest(b) : mem'[b][k] = mem[b][k]
    BY <1>4, <1>5
  <1>11. MemoryInv'
    <2>1. mem' = [b \in Atomics |-> mem'[b]]
      BY <1>1, <1>2
    <2>2. ASSUME NEW b \in Atomics
          PROVE  IsSequence(mem'[b]) /\ Newest(b)' >= 1
      <3>1. IsSequence(mem'[b])
        BY <1>2, <1>4, <1>5, Zenon
      <3>2. Newest(b)' >= 1
        BY <1>2, <1>8
      <3> QED
        BY <3>1, <3>2
    <2>3. ASSUME NEW b \in Atomics, NEW k \in 1 .. Newest(b)'
          PROVE  Published(mem[b][k])'
      <3>1. CASE k \in 1 .. Newest(b)
        <4> DEFINE w == mem[b][k]
        <4>1. /\ w.view \in View
              /\ \A c \in Atomics : w.view[c] <= Newest(c)
              /\ w.pub # Null => \A c \in Atomics : w.pub[c] \in Nat /\ w.pub[c] <= w.view[c]
          BY <3>1 DEF Inv, MemoryInv, Published
        <4> HIDE DEF w
        <4>2. \A c \in Atomics : w.view[c] \in Nat
          BY <4>1 DEF View
        <4>3. \A c \in Atomics : w.view[c] <= Newest(c)'
          BY <1>2, <1>8, <4>1, <4>2
        <4>4. mem'[b][k] = w
          BY <1>10, <3>1 DEF w
        <4> QED
          BY <4>1, <4>3, <4>4 DEF Published
      <3>2. CASE b = a /\ k = n
        BY <1>5, <1>9, <3>2 DEF Published
      <3> QED
        BY <1>2, <1>6, <3>1, <3>2
    <2> QED
      BY <2>1, <2>2, <2>3 DEF MemoryInv, IsSequence, Entries
  <1>12. \A u \in Threads, b \in Atomics :
            /\ view'[u][b] = IF u = t THEN mine[b] ELSE view[u][b]
            /\ view[u][b] \in Nat /\ view[u][b] >= 1 /\ view[u][b] <= Newest(b)
    BY <1>1, <1>2 DEF Inv, ViewInv, View
  <1>13. ViewInv'
    <2>1. view' \in [Threads -> View]
      BY <1>1, <1>2, <1>3
    <2>2. ASSUME NEW u \in Threads, NEW b \in Atomics
          PROVE  view'[u][b] >= 1 /\ view'[u][b] <= Newest(b)'
      <3>1. v[b] >= 1
        BY <1>7, <1>12
      <3> QED
        BY <1>2, <1>7, <1>8, <1>12, <3>1
    <2> QED
      BY <2>1, <2>2 DEF ViewInv
  <1>14. NoLostUpdate'
    <2> SUFFICES ASSUME NEW b \in Atomics, NEW k \in 2 .. Newest(b)', mem'[b][k].add
                 PROVE  mem'[b][k].val = Increment(mem'[b][k - 1].val)
      BY DEF NoLostUpdate, Increment
    <2>1. CASE k \in 2 .. Newest(b)
      <3>1. mem'[b][k] = mem[b][k] /\ mem'[b][k - 1] = mem[b][k - 1]
        BY <1>2, <1>10, <2>1
      <3> QED
        BY <2>1, <3>1 DEF Inv, NoLostUpdate
    <2>2. CASE b = a /\ k = n
      <3>1. mem'[b][k] = m /\ m.val = val /\ m.add = add
        BY <1>5, <2>2 DEF m, Msg
      <3>2. k - 1 = Newest(a) /\ mem'[a][Newest(a)] = mem[a][Newest(a)]
        BY <1>2, <1>10, <2>2
      <3> QED
        BY <2>2, <3>1, <3>2 DEF Holds
    <2> QED
      BY <1>2, <1>6, <2>1, <2>2
  <1>15. view'[t][a] = Newest(a)' /\ \A b \in Atomics : v[b] <= view'[t][b]
    BY <1>3, <1>6, <1>8, <1>12
  <1>16. ASSUME NEW u \in Threads, NEW b \in Atomics, b # a, view[u][b] = Newest(b)
         PROVE  view'[u][b] = Newest(b)'
    <2>1. Newest(b)' = Newest(b) /\ mine[b] = v[b]
      BY <1>3, <1>6, <1>16
    <2>2. u = t => v[b] = Newest(b)
      BY <1>2, <1>7, <1>16
    <2> QED
      BY <1>12, <1>16, <2>1, <2>2
  <1>17. KnownInv'
    <2> SUFFICES ASSUME NEW b \in Atomics
                 PROVE  /\ owner[b] # Null => view'[owner[b]][b] = Newest(b)'
                        /\ owner[b] = Null =>
                              \E u \in readers \cup {token} : view'[u][b] = Newest(b)'
      BY DEF KnownInv, permitVars
    <2>1. CASE b = a
      <3>1. view'[t][b] = Newest(b)'
        BY <1>15, <2>1, Zenon
      <3>2. owner[b] = t \/ (owner[b] = Null /\ t \in readers \cup {token})
        BY <2>1, Zenon DEF Writes
      <3> QED
        BY <3>1, <3>2, NullAssumption, Zenon
    <2>2. CASE b # a
      BY <1>16, <2>2 DEF Inv, KnownInv, PermitInv
    <2> QED
      BY <2>1, <2>2
  <1>18. Inv'
    BY <1>11, <1>13, <1>14, <1>17, SamePermits DEF Inv
  <1> QED
    BY <1>10, <1>15, <1>18 DEF NothingForgotten

----------------------------------------------------------------------------
(* Steps that tell nothing.                                                *)
LEMMA NothingTold ==
    ASSUME last' = [step |-> "none"]
    PROVE  PoliciesPublish' /\ PoliciesAreAccepted'
  BY DEF PoliciesPublish, PoliciesAreAccepted

(* A thread that holds a permit, or is inside fetch_update, may write the  *)
(* atomic it uses.                                                         *)
LEMMA SharedWriters ==
    ASSUME Inv, NEW t \in Threads, NEW a \in Atomics
    PROVE  /\ Permitted(t, a) => Writes(t, a)
           /\ updating[t] # Null => Writes(t, updating[t].atomic)
  BY DEF Inv, UpdateInv, Writes, Permitted, Reaches

(* A thread reads.                                                         *)
LEMMA ReadInv ==
    ASSUME Inv, NEW t \in Threads, NEW a \in Atomics,
           NEW n \in view[t][a] .. Newest(a), NEW o, NEW s, Ordered(s) => Acquires(o),
           mem' = mem, view' = [view EXCEPT ![t] = ViewAfterRead(t, a, n, o)],
           UNCHANGED permitVars, UpdateInv', last' = ReadNote(t, a, n, s)
    PROVE  Safe'
  <1> DEFINE v == ViewAfterRead(t, a, n, o)
  <1>1. /\ n \in 1 .. Newest(a) /\ v \in View
        /\ \A b \in Atomics : view[t][b] <= v[b] /\ v[b] <= Newest(b)
        /\ Acquires(o) => \A b \in Atomics : mem[a][n].view[b] <= v[b]
    BY ReadView DEF Inv
  <1> HIDE DEF v
  <1>2. /\ view \in [Threads -> View]
        /\ \A u \in Threads, b \in Atomics :
              view[u][b] \in Nat /\ view[u][b] <= Newest(b) /\ Newest(b) \in Nat
    BY DEF Inv, ViewInv, View, MemoryInv, Newest, IsSequence
  <1>3. /\ view' \in [Threads -> View] /\ view'[t] = v
        /\ \A u \in Threads \ {t} : view'[u] = view[u]
    BY <1>1, <1>2 DEF v
  <1>4. \A u \in Threads, b \in Atomics :
            view[u][b] <= view'[u][b] /\ view'[u][b] <= Newest(b)
    BY <1>1, <1>2, <1>3
  <1>5. /\ MemoryInv' /\ ViewInv' /\ NoLostUpdate'
        /\ \A u \in Threads, b \in Atomics :
              view[u][b] = Newest(b) => view'[u][b] = Newest(b)'
    BY <1>3, <1>4, ViewsGrow
  <1>6. KnownInv'
    BY <1>5 DEF Inv, KnownInv, PermitInv, permitVars
  <1>7. Inv'
    BY <1>5, <1>6, SamePermits DEF Inv
  <1>8. PoliciesAreAccepted'
    BY DEF PoliciesAreAccepted, ReadNote
  <1>9. PoliciesPublish'
    <2>1. CASE ~Ordered(s)
      BY <2>1, NothingTold DEF ReadNote
    <2>2. CASE Ordered(s)
      <3> DEFINE m == mem[a][n]
      <3>1. Published(m) /\ \A b \in Atomics : m.view[b] <= v[b]
        BY <1>1, <2>2 DEF Inv, MemoryInv
      <3>2. last' = [step |-> "read", thread |-> t, atomic |-> a, index |-> n]
        BY <2>2 DEF ReadNote
      <3>3. \A b \in Atomics : v[b] \in Nat /\ m.view[b] \in Nat
        BY <1>1, <3>1 DEF View, Published
      <3>4. m.pub # Null => \A b \in Atomics : v[b] >= m.pub[b]
        <4> HIDE DEF m
        <4> QED BY <3>1, <3>3 DEF Published
      <3> QED
        BY <1>3, <3>2, <3>4 DEF PoliciesPublish
    <2> QED
      BY <2>1, <2>2
  <1> QED
    BY <1>7, <1>8, <1>9 DEF Safe

(* A thread replaces the newest store.                                     *)
LEMMA ReplaceInv ==
    ASSUME Inv, NEW t \in Threads, NEW a \in Atomics, NEW val, NEW s, NEW add,
           add => val = Increment(Holds(a)), Replace(t, a, val, s, add),
           Writes(t, a), UNCHANGED permitVars, UpdateInv'
    PROVE  Safe'
  <1> DEFINE o == rmw_order(s)
             n == Newest(a)
             v == ViewAfterRead(t, a, n, o)
             m == mem[a][n]
  <1>1. n \in view[t][a] .. Newest(a)
    BY DEF Inv, ViewInv, View, MemoryInv, Newest, IsSequence
  <1>2. /\ n \in 1 .. Newest(a) /\ v \in View
        /\ \A b \in Atomics : view[t][b] <= v[b] /\ v[b] <= Newest(b)
        /\ Acquires(o) => \A b \in Atomics : m.view[b] <= v[b]
    BY <1>1, ReadView DEF Inv
  <1>3. Published(m)
    BY <1>2 DEF Inv, MemoryInv
  <1>4. m.view \in View /\ \A b \in Atomics : m.view[b] <= Newest(b)
    BY <1>3 DEF Published
  <1>5. Ordered(s) => Acquires(o) /\ Releases(o)
    BY OrderedPolicies
  <1>6. StoreWith(t, a, val, v, o, s, m.view, add) /\ last' = ReadNote(t, a, n, s)
    BY DEF Replace
  <1> HIDE DEF v, m, o
  <1>7. Inv' /\ NothingForgotten(t, v)
    BY <1>2, <1>4, <1>5, <1>6, StoreInv
  <1>8. /\ \A b \in Atomics : v[b] <= view'[t][b]
        /\ \A b \in Atomics : \A k \in 1 .. Newest(b) : mem'[b][k] = mem[b][k]
    BY <1>7 DEF NothingForgotten
  <1>9. PoliciesAreAccepted'
    BY <1>6 DEF PoliciesAreAccepted, ReadNote
  <1>10. PoliciesPublish'
    <2>1. CASE ~Ordered(s)
      BY <1>6, <2>1, NothingTold DEF ReadNote
    <2>2. CASE Ordered(s)
      <3>1. \A b \in Atomics : m.view[b] <= v[b]
        BY <1>2, <1>5, <2>2
      <3>2. last' = [step |-> "read", thread |-> t, atomic |-> a, index |-> n]
        BY <1>6, <2>2 DEF ReadNote
      <3>3. \A b \in Atomics : v[b] \in Nat /\ m.view[b] \in Nat /\ view'[t][b] \in Nat
        BY <1>2, <1>4, <1>7 DEF View, Inv, ViewInv
      <3>4. m.pub # Null => \A b \in Atomics : view'[t][b] >= m.pub[b]
        BY <1>3, <1>8, <3>1, <3>3 DEF Published
      <3>5. mem'[a][n] = m
        BY <1>2, <1>8 DEF m
      <3> QED
        BY <3>2, <3>4, <3>5 DEF PoliciesPublish
    <2> QED
      BY <2>1, <2>2
  <1> QED
    BY <1>7, <1>9, <1>10 DEF Safe

(* core refuses an ordering: nothing happens, and it was not a policy's.   *)
LEMMA RefusedInv ==
    ASSUME Inv, NEW s \in Sources, s \notin Policies, last' = Refused(s),
           UNCHANGED <<mem, view, permitVars, updating>>
    PROVE  Safe'
  <1>1. s.policy = FALSE
    BY SourcesAssumption DEF Runtime
  <1>2. PoliciesPublish' /\ PoliciesAreAccepted'
    BY <1>1 DEF PoliciesPublish, PoliciesAreAccepted, Refused
  <1>3. Inv'
    BY DEF Inv, MemoryInv, Published, ViewInv, PermitInv, UpdateInv, KnownInv, NoLostUpdate,
           Newest, permitVars
  <1> QED
    BY <1>2, <1>3 DEF Safe

----------------------------------------------------------------------------
(* The shared phase, one lemma for each operation.                         *)

(* load: the store it reads may be an old one.                             *)
LEMMA LoadStep ==
    ASSUME Inv, NEW t \in Threads, NEW a \in Atomics, NEW s \in Sources, load(t, a, s)
    PROVE  Safe'
  <1> USE DEF load
  <1>1. UpdateInv'
    BY SamePermits
  <1>2. CASE ~LoadAccepts(load_order(s)) /\ last' = Refused(s) /\ view' = view
    <2>1. s \notin Policies
      BY <1>2, PolicyOrders
    <2> QED
      BY <1>2, <2>1, RefusedInv
  <1>3. CASE \E n \in view[t][a] .. Newest(a) :
                /\ view' = [view EXCEPT ![t] = ViewAfterRead(t, a, n, load_order(s))]
                /\ last' = ReadNote(t, a, n, s)
    <2>1. Ordered(s) => Acquires(load_order(s))
      BY OrderedPolicies
    <2> QED
      BY <1>1, <1>3, <2>1, ReadInv
  <1> QED
    BY <1>2, <1>3

(* store: a new newest store, which only its thread knows.                 *)
LEMMA StoreStep ==
    ASSUME Inv, NEW t \in Threads, NEW a \in Atomics, NEW val, NEW s \in Sources,
           store(t, a, val, s)
    PROVE  Safe'
  <1>1. UpdateInv' /\ Writes(t, a) /\ UNCHANGED <<permitVars, updating>>
    BY SamePermits, SharedWriters DEF store
  <1>2. CASE /\ ~StoreAccepts(store_order(s)) /\ last' = Refused(s)
             /\ UNCHANGED <<mem, view>>
    <2>1. s \notin Policies
      BY <1>2, PolicyOrders
    <2> QED
      BY <1>1, <1>2, <2>1, RefusedInv
  <1>3. CASE /\ StoreWith(t, a, val, view[t], store_order(s), s, Bottom, FALSE)
             /\ last' = [step |-> "none"]
    <2>1. Ordered(s) => Releases(store_order(s))
      BY OrderedPolicies
    <2>2. /\ view[t] \in View /\ Bottom \in View
          /\ \A b \in Atomics : /\ view[t][b] <= view[t][b] /\ view[t][b] <= Newest(b)
                                /\ Bottom[b] <= Newest(b)
      BY BottomIsView DEF Inv, ViewInv, View, MemoryInv, Newest, IsSequence
    <2>3. Inv'
      BY <1>1, <1>3, <2>1, <2>2, StoreInv
    <2> QED
      BY <1>3, <2>3, NothingTold DEF Safe
  <1> QED
    BY <1>2, <1>3 DEF store

(* swap and the read-modify-writes.                                        *)
LEMMA SwapStep ==
    ASSUME Inv, NEW t \in Threads, NEW a \in Atomics, NEW val, NEW s,
           swap(t, a, val, s) \/ fetch_add(t, a, s) \/ fetch_op(t, a, s)
    PROVE  Safe'
  <1>1. UpdateInv' /\ Writes(t, a) /\ UNCHANGED permitVars
    BY SamePermits, SharedWriters DEF swap, fetch_add, fetch_op
  <1>2. ASSUME NEW w, Replace(t, a, w, s, FALSE)
        PROVE  Safe'
    BY <1>1, <1>2, ReplaceInv
  <1>3. ASSUME Replace(t, a, Increment(Holds(a)), s, TRUE)
        PROVE  Safe'
    BY <1>1, <1>3, ReplaceInv
  <1> QED
    BY <1>2, <1>3 DEF swap, fetch_add, fetch_op

(* compare_exchange, whether it succeeds or fails.                         *)
LEMMA CompareExchangeStep ==
    ASSUME Inv, NEW t \in Threads, NEW a \in Atomics, NEW current, NEW new,
           NEW success \in Sources, NEW failure \in Sources,
           compare_exchange(t, a, current, new, success, failure)
    PROVE  Safe'
  <1>1. UpdateInv' /\ Writes(t, a) /\ UNCHANGED <<permitVars, updating>>
    BY SamePermits, SharedWriters DEF compare_exchange
  <1>2. CASE /\ ~LoadAccepts(failure_order(failure)) /\ last' = Refused(failure)
             /\ UNCHANGED <<mem, view>>
    <2>1. failure \notin Policies
      BY <1>2, PolicyOrders
    <2> QED
      BY <1>1, <1>2, <2>1, RefusedInv
  <1>3. CASE Replace(t, a, new, success, FALSE)
    BY <1>1, <1>3, ReplaceInv
  <1>4. CASE FailedRead(t, a, current, failure)
    <2>1. Ordered(failure) => Acquires(failure_order(failure))
      BY OrderedPolicies
    <2> QED
      BY <1>1, <1>4, <2>1, ReadInv DEF FailedRead
  <1> QED
    BY <1>2, <1>3, <1>4 DEF compare_exchange

(* The load of fetch_update.                                               *)
LEMMA FetchUpdateStep ==
    ASSUME Inv, NEW t \in Threads, NEW a \in Atomics,
           NEW set \in Sources, NEW fetch \in Sources, fetch_update(t, a, set, fetch)
    PROVE  Safe'
  <1>1. Permitted(t, a) /\ UNCHANGED <<mem, permitVars>>
    BY DEF fetch_update
  <1>2. CASE /\ ~LoadAccepts(failure_order(fetch)) /\ last' = Refused(fetch)
             /\ UNCHANGED <<view, updating>>
    <2>1. fetch \notin Policies
      BY <1>2, PolicyOrders
    <2> QED
      BY <1>1, <1>2, <2>1, RefusedInv
  <1>3. ASSUME NEW n \in view[t][a] .. Newest(a),
               view' = [view EXCEPT ![t] = ViewAfterRead(t, a, n, failure_order(fetch))],
               updating' = [updating EXCEPT ![t] =
                   [atomic |-> a, prev |-> mem[a][n].val, set |-> set, fetch |-> fetch]],
               last' = ReadNote(t, a, n, fetch)
        PROVE  Safe'
    <2>1. Ordered(fetch) => Acquires(failure_order(fetch))
      BY OrderedPolicies
    <2>2. UpdateInv'
      BY <1>1, <1>3 DEF Inv, UpdateInv, Permitted, Reaches, permitVars
    <2> QED
      BY <1>1, <1>3, <2>1, <2>2, ReadInv
  <1> QED
    BY <1>2, <1>3 DEF fetch_update

(* The exchange of fetch_update, which may fail and load again.            *)
LEMMA TryUpdateStep ==
    ASSUME Inv, NEW t \in Threads, TryUpdate(t)
    PROVE  Safe'
  <1> DEFINE u == updating[t]
  <1>1. /\ u # Null /\ UNCHANGED permitVars /\ u.atomic \in Atomics
        /\ u.set \in Sources /\ u.fetch \in Sources /\ Writes(t, u.atomic)
    BY SharedWriters DEF TryUpdate, Inv, UpdateInv
  <1>2. CASE /\ StillThere(u) /\ Replace(t, u.atomic, Increment(u.prev), u.set, TRUE)
             /\ updating' = [updating EXCEPT ![t] = Null]
    <2>1. UpdateInv'
      BY <1>1, <1>2 DEF Inv, UpdateInv, permitVars
    <2>2. Increment(u.prev) = Increment(Holds(u.atomic))
      BY <1>2 DEF StillThere
    <2> HIDE DEF u
    <2> QED
      BY <1>1, <1>2, <2>1, <2>2, ReplaceInv
  <1>3. ASSUME NEW n \in view[t][u.atomic] .. Newest(u.atomic),
               view' = [view EXCEPT ![t] = ViewAfterRead(t, u.atomic, n, failure_order(u.fetch))],
               updating' = [updating EXCEPT ![t].prev = mem[u.atomic][n].val],
               last' = ReadNote(t, u.atomic, n, u.fetch),
               mem' = mem
        PROVE  Safe'
    <2>1. Ordered(u.fetch) => Acquires(failure_order(u.fetch))
      BY OrderedPolicies
    <2>2. UpdateInv'
      BY <1>1, <1>3 DEF Inv, UpdateInv, permitVars
    <2> HIDE DEF u
    <2> QED
      BY <1>1, <1>3, <2>1, <2>2, ReadInv
  <1> QED
    BY <1>2, <1>3 DEF TryUpdate

(* The closure of fetch_update returns None.                               *)
LEMMA GiveUpStep ==
    ASSUME Inv, NEW t \in Threads, GiveUp(t)
    PROVE  Safe'
  <1>1. UpdateInv'
    BY DEF GiveUp, Inv, UpdateInv, permitVars
  <1>2. MemoryInv' /\ ViewInv' /\ PermitInv' /\ KnownInv' /\ NoLostUpdate'
    BY DEF GiveUp, Inv, MemoryInv, Published, ViewInv, PermitInv, KnownInv, NoLostUpdate,
           Newest, permitVars
  <1> QED
    BY <1>1, <1>2, NothingTold DEF Safe, Inv, GiveUp

----------------------------------------------------------------------------
(* The exclusive phase.                                                    *)

(* A plain store by a thread that may write and knows the newest store.    *)
LEMMA PlainStoreStep ==
    ASSUME Inv, NEW t \in Threads, NEW a \in Atomics,
           Writes(t, a), view[t][a] = Newest(a), PlainStore(t, a)
    PROVE  Safe'
  <1> DEFINE s == [policy |-> FALSE, order |-> "Relaxed"]
  <1>1. UNCHANGED <<permitVars, updating>> /\ UpdateInv' /\ last' = [step |-> "none"]
    BY SamePermits DEF PlainStore
  <1>2. StoreWith(t, a, Increment(Holds(a)), view[t], "Relaxed", s, Bottom, TRUE)
    BY DEF PlainStore, Holds
  <1>3. ~Ordered(s)
    BY DEF Ordered, Policies
  <1>4. /\ view[t] \in View /\ Bottom \in View
        /\ \A b \in Atomics : /\ view[t][b] <= view[t][b] /\ view[t][b] <= Newest(b)
                              /\ Bottom[b] <= Newest(b)
    BY BottomIsView DEF Inv, ViewInv, View, MemoryInv, Newest, IsSequence
  <1> HIDE DEF s
  <1>5. Inv'
    BY <1>1, <1>2, <1>3, <1>4, StoreInv
  <1> QED
    BY <1>1, <1>5, NothingTold DEF Safe

(* Who is inside with_exclusive knows of every store it can reach.         *)
LEMMA PlainKnows ==
    ASSUME Inv, plain # Null, NEW a \in Atomics, Reaches(plain, a)
    PROVE  plain \in Threads /\ Writes(plain, a) /\ view[plain][a] = Newest(a)
  BY DEF Inv, PermitInv, KnownInv, Reaches, Writes

(* A plain increment in the exclusive phase.                               *)
LEMMA PlainIncrementStep ==
    ASSUME Inv, NEW a \in Atomics, PlainIncrement(a)
    PROVE  Safe'
  BY PlainKnows, PlainStoreStep DEF PlainIncrement

(* get_mut by the owner of the atomic.                                     *)
LEMMA GetMutStep ==
    ASSUME Inv, NEW a \in Atomics, get_mut(a)
    PROVE  Safe'
  <1>1. owner[a] \in Threads /\ Writes(owner[a], a) /\ view[owner[a]][a] = Newest(a)
    BY DEF get_mut, Inv, PermitInv, KnownInv, Writes
  <1> QED
    BY <1>1, PlainStoreStep DEF get_mut

(* with_exclusive begins and ends the plain phase.                         *)
LEMMA ExclusiveStep ==
    ASSUME Inv, ExclusiveEnds \/ \E t \in Threads : with_exclusive(t)
    PROVE  Safe'
  <1> USE DEF ExclusiveEnds, with_exclusive
  <1>1. /\ MemoryInv' /\ ViewInv' /\ NoLostUpdate'
        /\ UpdateInv' /\ KnownInv'
    <2>1. UNCHANGED <<mem, view, token, readers, updating, owner>>
      OBVIOUS
    <2>2. MemoryInv' /\ ViewInv' /\ NoLostUpdate'
      BY <2>1 DEF Inv, MemoryInv, Published, ViewInv, NoLostUpdate, Newest
    <2>3. UpdateInv' /\ KnownInv'
      BY <2>1 DEF Inv, UpdateInv, KnownInv, Newest
    <2> QED
      BY <2>2, <2>3
  <1>2. PermitInv'
    BY DEF Inv, PermitInv, Unshared
  <1> QED
    BY <1>1, <1>2, NothingTold DEF Safe, Inv

----------------------------------------------------------------------------
(* Tokens and permits change hands.                                        *)

(* share gives the token's thread a read permit.                           *)
LEMMA ShareStep ==
    ASSUME Inv, NEW t \in Threads, share(t)
    PROVE  Safe'
  <1>1. MemoryInv' /\ ViewInv' /\ UpdateInv' /\ KnownInv' /\ NoLostUpdate'
    BY DEF share, Inv, MemoryInv, Published, ViewInv, UpdateInv, KnownInv, NoLostUpdate, Newest
  <1>2. PermitInv'
    BY DEF Inv, PermitInv, share
  <1> QED
    BY <1>1, <1>2, NothingTold DEF Safe, Inv, share

(* Thread t tells some threads what it knows.                              *)
LEMMA Told ==
    ASSUME Inv, NEW t \in Threads, NEW S \in SUBSET Threads, mem' = mem,
           view' = [u \in Threads |-> IF u \in S THEN Join(view[u], view[t]) ELSE view[u]]
    PROVE  /\ MemoryInv' /\ ViewInv' /\ NoLostUpdate'
           /\ \A u \in Threads, b \in Atomics :
                 view[u][b] = Newest(b) => view'[u][b] = Newest(b)'
           /\ \A u \in S, b \in Atomics :
                 view[t][b] = Newest(b) => view'[u][b] = Newest(b)'
  <1>1. \A u \in Threads : view[u] \in View
    BY DEF Inv, ViewInv
  <1>2. \A u \in Threads, b \in Atomics :
            view[u][b] \in Nat /\ view[u][b] <= Newest(b) /\ Newest(b) \in Nat
    BY DEF Inv, ViewInv, View, MemoryInv, Newest, IsSequence
  <1>3. \A u \in Threads :
            /\ Join(view[u], view[t]) \in View
            /\ \A b \in Atomics : /\ view[u][b] <= Join(view[u], view[t])[b]
                                  /\ view[t][b] <= Join(view[u], view[t])[b]
                                  /\ Join(view[u], view[t])[b] \in {view[u][b], view[t][b]}
    BY <1>1, JoinProperties
  <1>4. view' \in [Threads -> View]
    BY <1>1, <1>3
  <1>5. \A u \in Threads, b \in Atomics :
            /\ view'[u][b] \in Nat
            /\ view[u][b] <= view'[u][b] /\ view'[u][b] <= Newest(b)
            /\ u \in S => view[t][b] <= view'[u][b]
    BY <1>2, <1>3
  <1>6. /\ MemoryInv' /\ ViewInv' /\ NoLostUpdate'
        /\ \A b \in Atomics : Newest(b)' = Newest(b)
        /\ \A u \in Threads, b \in Atomics :
              view[u][b] = Newest(b) => view'[u][b] = Newest(b)'
    BY <1>4, <1>5, ViewsGrow
  <1>7. ASSUME NEW u \in S, NEW b \in Atomics, view[t][b] = Newest(b)
        PROVE  view'[u][b] = Newest(b)'
    BY <1>2, <1>5, <1>6, <1>7
  <1> QED
    BY <1>6, <1>7

(* A hand-over between threads passes on what the giver knows.             *)
LEMMA Given ==
    ASSUME Inv, NEW t \in Threads, NEW u \in Threads, Give(t, u), mem' = mem
    PROVE  /\ MemoryInv' /\ ViewInv' /\ NoLostUpdate'
           /\ \A w \in Threads, b \in Atomics :
                 view[w][b] = Newest(b) => view'[w][b] = Newest(b)'
           /\ \A b \in Atomics : view[t][b] = Newest(b) => view'[u][b] = Newest(b)'
  <1> DEFINE S == {u}
  <1>1. view' = [w \in Threads |-> IF w \in S THEN Join(view[w], view[t]) ELSE view[w]]
    BY DEF Give, Inv, ViewInv
  <1>2. S \in SUBSET Threads /\ u \in S
    OBVIOUS
  <1> HIDE DEF S
  <1> QED
    BY <1>1, <1>2, Told

(* A read permit is copied to another thread.                              *)
LEMMA CopyPermitStep ==
    ASSUME Inv, NEW t \in Threads, NEW u \in Threads, CopyPermit(t, u)
    PROVE  Safe'
  <1>1. /\ MemoryInv' /\ ViewInv' /\ NoLostUpdate'
        /\ \A w \in Threads, b \in Atomics :
              view[w][b] = Newest(b) => view'[w][b] = Newest(b)'
    BY Given DEF CopyPermit
  <1>2. PermitInv' /\ UpdateInv'
    BY DEF CopyPermit, Inv, PermitInv, UpdateInv
  <1>3. KnownInv'
    BY <1>1 DEF CopyPermit, Inv, PermitInv, KnownInv
  <1> QED
    BY <1>1, <1>2, <1>3, NothingTold DEF Safe, Inv, CopyPermit

(* The token's thread learns what a permit that ends knew.                 *)
LEMMA DropPermitStep ==
    ASSUME Inv, NEW t \in Threads, DropPermit(t)
    PROVE  Safe'
  <1>1. token \in Threads
    BY DEF Inv, PermitInv
  <1>2. /\ MemoryInv' /\ ViewInv' /\ NoLostUpdate'
        /\ \A w \in Threads, b \in Atomics :
              view[w][b] = Newest(b) => view'[w][b] = Newest(b)'
        /\ \A b \in Atomics : view[t][b] = Newest(b) => view'[token][b] = Newest(b)'
    BY <1>1, Given DEF DropPermit
  <1>3. PermitInv' /\ UpdateInv'
    BY DEF DropPermit, Inv, PermitInv, UpdateInv
  <1>4. KnownInv'
    <2> SUFFICES ASSUME NEW b \in Atomics
                 PROVE  /\ owner[b] # Null => view'[owner[b]][b] = Newest(b)'
                        /\ owner[b] = Null =>
                              \E u \in (readers \ {t}) \cup {token} : view'[u][b] = Newest(b)'
      BY DEF KnownInv, DropPermit
    <2>1. CASE owner[b] # Null
      BY <1>2, <2>1 DEF Inv, KnownInv, PermitInv
    <2>2. CASE owner[b] = Null
      <3>1. PICK u \in readers \cup {token} : view[u][b] = Newest(b)
        BY <2>2 DEF Inv, KnownInv
      <3> QED
        BY <1>1, <1>2, <2>2, <3>1 DEF Inv, PermitInv
    <2> QED
      BY <2>1, <2>2
  <1> QED
    BY <1>2, <1>3, <1>4, NothingTold DEF Safe, Inv, DropPermit

(* The token moves to another thread.                                      *)
LEMMA MoveTokenStep ==
    ASSUME Inv, NEW t \in Threads, NEW u \in Threads, MoveToken(t, u)
    PROVE  Safe'
  <1>1. /\ MemoryInv' /\ ViewInv' /\ NoLostUpdate'
        /\ \A w \in Threads, b \in Atomics :
              view[w][b] = Newest(b) => view'[w][b] = Newest(b)'
        /\ \A b \in Atomics : view[t][b] = Newest(b) => view'[u][b] = Newest(b)'
    BY Given DEF MoveToken
  <1>2. PermitInv' /\ UpdateInv'
    BY DEF MoveToken, Inv, PermitInv, UpdateInv, Unshared
  <1>3. KnownInv'
    BY <1>1 DEF MoveToken, Inv, PermitInv, KnownInv, Unshared
  <1> QED
    BY <1>1, <1>2, <1>3, NothingTold DEF Safe, Inv, MoveToken

(* The owner lends the atomic to all threads.                              *)
LEMMA LendStep ==
    ASSUME Inv, NEW a \in Atomics, Lend(a)
    PROVE  Safe'
  <1> DEFINE t == owner[a]
  <1>1. t \in Threads /\ token \in Threads /\ view[t][a] = Newest(a)
    BY DEF Lend, Inv, PermitInv, KnownInv
  <1>2. view' = [u \in Threads |-> IF u \in Threads THEN Join(view[u], view[t]) ELSE view[u]]
    BY DEF Lend
  <1>3. mem' = mem
    BY DEF Lend
  <1> HIDE DEF t
  <1>4. /\ MemoryInv' /\ ViewInv' /\ NoLostUpdate'
        /\ \A w \in Threads, b \in Atomics :
              view[w][b] = Newest(b) => view'[w][b] = Newest(b)'
        /\ \A w \in Threads, b \in Atomics :
              view[t][b] = Newest(b) => view'[w][b] = Newest(b)'
    BY <1>1, <1>2, <1>3, Told
  <1>5. PermitInv' /\ UpdateInv'
    BY DEF Lend, Inv, PermitInv, UpdateInv
  <1>6. KnownInv'
    <2> SUFFICES ASSUME NEW b \in Atomics
                 PROVE  /\ owner'[b] # Null => view'[owner'[b]][b] = Newest(b)'
                        /\ owner'[b] = Null =>
                              \E u \in readers \cup {token} : view'[u][b] = Newest(b)'
      BY DEF KnownInv, Lend
    <2>1. CASE b = a
      <3>1. owner'[b] = Null
        BY <2>1 DEF Lend, Inv, PermitInv
      <3>2. view'[token][b] = Newest(b)'
        BY <1>1, <1>4, <2>1, Zenon
      <3> QED
        BY <3>1, <3>2
    <2>2. CASE b # a
      <3>1. owner'[b] = owner[b]
        BY <2>2 DEF Lend, Inv, PermitInv
      <3> QED
        BY <1>4, <3>1 DEF Inv, PermitInv, KnownInv
    <2> QED
      BY <2>1, <2>2
  <1> QED
    BY <1>4, <1>5, <1>6, NothingTold DEF Safe, Inv, Lend

(* Some thread knows of the newest store, so the thread that joins all     *)
(* views does afterwards.                                                  *)
LEMMA ReclaimStep ==
    ASSUME Inv, NEW a \in Atomics, NEW t \in Threads, Reclaim(a, t)
    PROVE  Safe'
  <1> DEFINE all == [b \in Atomics |-> CHOOSE n \in {view[u][b] : u \in Threads} :
                                           \A u \in Threads : view[u][b] <= n]
  <1>1. /\ view' = [view EXCEPT ![t] = all] /\ mem' = mem
        /\ owner' = [owner EXCEPT ![a] = t] /\ owner[a] = Null /\ plain = Null
        /\ UNCHANGED <<token, readers, plain, updating>> /\ last' = [step |-> "none"]
        /\ \A u \in Threads : updating[u] # Null => updating[u].atomic # a
    BY DEF Reclaim
  <1>2. /\ view \in [Threads -> View]
        /\ \A u \in Threads, b \in Atomics :
              view[u][b] \in Nat /\ view[u][b] <= Newest(b) /\ Newest(b) \in Nat
    BY DEF Inv, ViewInv, View, MemoryInv, Newest, IsSequence
  <1>3. ASSUME NEW b \in Atomics
        PROVE  all[b] = Newest(b)
    <2>1. PICK w \in Threads : view[w][b] = Newest(b)
      BY DEF Inv, KnownInv, PermitInv
    <2> DEFINE N == {view[u][b] : u \in Threads}
               IsTop(n) == \A u \in Threads : view[u][b] <= n
    <2>2. view[w][b] \in N /\ IsTop(view[w][b])
      BY <1>2, <2>1
    <2>3. all[b] \in N /\ IsTop(all[b])
      <3>1. all[b] = CHOOSE n \in N : IsTop(n)
        OBVIOUS
      <3> HIDE DEF all, N, IsTop
      <3> QED BY <2>2, <3>1
    <2>4. \E u \in Threads : all[b] = view[u][b]
      <3> HIDE DEF all
      <3> QED BY <2>3
    <2>5. view[w][b] <= all[b]
      <3> HIDE DEF all
      <3> QED BY <2>3
    <2> HIDE DEF all
    <2> QED
      BY <1>2, <2>1, <2>4, <2>5
  <1>4. DOMAIN all = Atomics
    OBVIOUS
  <1>5. all = [b \in Atomics |-> all[b]]
    OBVIOUS
  <1> HIDE DEF all
  <1>6. all \in View
    BY <1>2, <1>3, <1>5 DEF View
  <1>7. view' \in [Threads -> View] /\ view'[t] = all
        /\ \A u \in Threads \ {t} : view'[u] = view[u]
    BY <1>1, <1>2, <1>6
  <1>8. \A u \in Threads, b \in Atomics :
            view[u][b] <= view'[u][b] /\ view'[u][b] <= Newest(b)
    BY <1>2, <1>3, <1>7
  <1>9. /\ MemoryInv' /\ ViewInv' /\ NoLostUpdate'
        /\ \A b \in Atomics : Newest(b)' = Newest(b)
        /\ \A u \in Threads, b \in Atomics :
              view[u][b] = Newest(b) => view'[u][b] = Newest(b)'
    BY <1>1, <1>7, <1>8, ViewsGrow
  <1>10. PermitInv' /\ UpdateInv'
    BY <1>1 DEF Inv, PermitInv, UpdateInv
  <1>11. KnownInv'
    <2> SUFFICES ASSUME NEW b \in Atomics
                 PROVE  /\ owner'[b] # Null => view'[owner'[b]][b] = Newest(b)'
                        /\ owner'[b] = Null =>
                              \E u \in readers \cup {token} : view'[u][b] = Newest(b)'
      BY <1>1 DEF KnownInv
    <2>1. CASE b = a
      <3>1. owner'[b] = t
        BY <1>1, <2>1 DEF Inv, PermitInv
      <3>2. view'[t][b] = Newest(b)'
        BY <1>3, <1>7, <1>9
      <3> QED
        BY <3>1, <3>2, NullAssumption, Zenon
    <2>2. CASE b # a
      <3>1. owner'[b] = owner[b]
        BY <1>1, <2>2 DEF Inv, PermitInv
      <3> QED
        BY <1>9, <3>1 DEF Inv, PermitInv, KnownInv
    <2> QED
      BY <2>1, <2>2
  <1> QED
    BY <1>1, <1>9, <1>10, <1>11, NothingTold DEF Safe, Inv

----------------------------------------------------------------------------
(* The initial states.                                                     *)
LEMMA InitSafe == Init => Safe
  <1> SUFFICES ASSUME Init
               PROVE  Safe
    OBVIOUS
  <1> DEFINE m == Msg(0, Bottom, Null, FALSE)
  <1>1. \A a \in Atomics : mem[a] = <<m>>
    BY DEF Init
  <1>2. m.view = Bottom /\ m.pub = Null
    BY DEF Msg
  <1> HIDE DEF m
  <1>3. \A a \in Atomics : Newest(a) = 1 /\ mem[a][1] = m /\ IsSequence(mem[a])
    <2>1. Len(<<m>>) = 1 /\ <<m>>[1] = m /\ <<m>> \in Seq({m})
      OBVIOUS
    <2>2. Entries(<<m>>) = {m}
      BY <2>1 DEF Entries
    <2> QED
      BY <1>1, <2>1, <2>2 DEF Newest, IsSequence
  <1>4. MemoryInv
    <2>1. mem = [a \in Atomics |-> mem[a]]
      BY DEF Init
    <2>2. Published(m)
      BY <1>2, <1>3, BottomIsView DEF Published
    <2>3. \A a \in Atomics : \A n \in 1 .. Newest(a) : Published(mem[a][n])
      BY <1>3, <2>2
    <2> QED
      BY <1>3, <2>1, <2>3 DEF MemoryInv
  <1>5. ViewInv
    <2>1. view \in [Threads -> View]
      BY DEF Init, View
    <2>2. \A t \in Threads, a \in Atomics : view[t][a] = 1
      BY DEF Init
    <2> QED
      BY <1>3, <2>1, <2>2 DEF ViewInv
  <1>6. PermitInv
    BY DEF Init, PermitInv
  <1>7. UpdateInv
    BY DEF Init, UpdateInv
  <1>8. KnownInv
    BY <1>3, NullAssumption DEF Init, KnownInv
  <1>9. NoLostUpdate
    BY <1>3 DEF NoLostUpdate
  <1>10. PoliciesPublish /\ PoliciesAreAccepted
    BY DEF Init, PoliciesPublish, PoliciesAreAccepted
  <1> QED
    BY <1>4, <1>5, <1>6, <1>7, <1>8, <1>9, <1>10 DEF Safe, Inv

(* Every step, one case per operation.                                     *)
LEMMA NextSafe == Safe /\ [Next]_vars => Safe'
  <1> SUFFICES ASSUME Safe, [Next]_vars
               PROVE  Safe'
    OBVIOUS
  <1>1. Inv
    BY DEF Safe
  <1>2. ASSUME NEW t \in Threads, SharedStep(t)
        PROVE  Safe'
    <2>1. ASSUME NEW a \in Atomics, NEW s \in Sources, load(t, a, s)
          PROVE  Safe'
      BY <1>1, <2>1, LoadStep
    <2>2. ASSUME NEW a \in Atomics, NEW s \in Sources, NEW val \in Value,
                 store(t, a, val, s)
          PROVE  Safe'
      BY <1>1, <2>2, StoreStep
    <2>3. ASSUME NEW a \in Atomics, NEW s \in Sources, NEW val,
                 swap(t, a, val, s) \/ fetch_add(t, a, s) \/ fetch_op(t, a, s)
          PROVE  Safe'
      BY <1>1, <2>3, SwapStep
    <2>4. ASSUME NEW a \in Atomics, NEW p \in OrderPairs
          PROVE  /\ \A current, new \in Value :
                       compare_exchange(t, a, current, new, p[1], p[2]) => Safe'
                 /\ fetch_update(t, a, p[1], p[2]) => Safe'
      <3>1. p[1] \in Sources /\ p[2] \in Sources
        BY DEF OrderPairs
      <3> QED
        BY <1>1, <3>1, CompareExchangeStep, FetchUpdateStep
    <2>5. TryUpdate(t) => Safe'
      BY <1>1, TryUpdateStep
    <2>6. GiveUp(t) => Safe'
      BY <1>1, GiveUpStep
    <2> QED
      BY <1>2, <2>1, <2>2, <2>3, <2>4, <2>5, <2>6 DEF SharedStep
  <1>3. ASSUME NEW t \in Threads,
               \/ with_exclusive(t) \/ share(t) \/ DropPermit(t)
               \/ \E u \in Threads : CopyPermit(t, u) \/ MoveToken(t, u)
        PROVE  Safe'
    BY <1>1, <1>3, ExclusiveStep, ShareStep, DropPermitStep, CopyPermitStep, MoveTokenStep
  <1>4. ASSUME NEW a \in Atomics,
               \/ PlainIncrement(a) \/ get_mut(a) \/ Lend(a)
               \/ \E t \in Threads : Reclaim(a, t)
        PROVE  Safe'
    BY <1>1, <1>4, PlainIncrementStep, GetMutStep, LendStep, ReclaimStep
  <1>5. CASE ExclusiveEnds
    BY <1>1, <1>5, ExclusiveStep
  <1>6. CASE UNCHANGED vars
    <2>1. Inv'
      BY <1>1, <1>6 DEF vars, permitVars, Inv, MemoryInv, Published, ViewInv, PermitInv,
             UpdateInv, KnownInv, NoLostUpdate, Newest
    <2>2. PoliciesPublish' /\ PoliciesAreAccepted'
      BY <1>6 DEF vars, Safe, PoliciesPublish, PoliciesAreAccepted
    <2> QED
      BY <2>1, <2>2 DEF Safe
  <1> QED
    BY <1>2, <1>3, <1>4, <1>5, <1>6 DEF Next

(* At every moment the newest store to every atomic is known to who may    *)
(* write it next: its owner or, while it is lent, the token's thread or    *)
(* one that has a permit.                                                  *)
THEOREM NewestIsKnown == Spec => []Safe
  BY InitSafe, NextSafe, PTL DEF Spec

(* A thread in the plain phase that knows every store races with none.     *)
LEMMA KnownIsExclusive == Inv => PlainIsExclusive
  <1> SUFFICES ASSUME Inv
               PROVE  PlainIsExclusive
    OBVIOUS
  <1>1. ASSUME plain # Null
        PROVE  /\ readers = {}
               /\ \A t \in Threads : updating[t] = Null
               /\ \A a \in Atomics : Reaches(plain, a) => view[plain][a] = Newest(a)
    <2>1. readers = {}
      BY <1>1 DEF Inv, PermitInv
    <2>2. \A t \in Threads : updating[t] = Null
      BY <2>1 DEF Inv, UpdateInv
    <2> QED
      BY <1>1, <2>1, <2>2, PlainKnows
  <1> QED
    BY <1>1 DEF PlainIsExclusive, Inv, KnownInv

(* with_exclusive and get_mut hand out a plain &mut only when no atomic    *)
(* access is under way and every earlier store happened before: a plain    *)
(* access races with none.                                                 *)
THEOREM PlainAccessesRaceWithNothing == Spec => []PlainIsExclusive
  BY InitSafe, NextSafe, KnownIsExclusive, PTL DEF Spec, Safe

(* Increments made by fetch_add, by the loop of fetch_update and plainly   *)
(* in the exclusive phase are all kept, whatever orderings are used.       *)
THEOREM IncrementsAreKept == Spec => []NoLostUpdate
  BY InitSafe, NextSafe, PTL DEF Spec, Safe, Inv

(* Who reads with an ordering policy what was written with one knows all   *)
(* that its writer knew.                                                   *)
THEOREM OrderingPoliciesPublish == Spec => []PoliciesPublish
  BY InitSafe, NextSafe, PTL DEF Spec, Safe

(* core::sync::atomic panics on no ordering that a policy type picks.      *)
THEOREM NoPolicyIsRefused == Spec => []PoliciesAreAccepted
  BY InitSafe, NextSafe, PTL DEF Spec, Safe
=============================================================================
