---------------------------- MODULE PermitsProofs ----------------------------
(***************************************************************************)
(* Tokens, permits, cells and guards, for any threads, brands, cells and   *)
(* payloads and any number of guards, in programs that do not write        *)
(* through WriterShard::as_cells.                                          *)
(*                                                                         *)
(* None of the safety properties is inductive.  What a guard excludes      *)
(* depends on what it borrows (the bare cell, or the one shard that holds  *)
(* it), and that a thread knows of the last write depends on how it came   *)
(* to the cell and to the permit: the invariant says that one of the two   *)
(* sides knows, or that a guard still alive carries the knowledge.         *)
(***************************************************************************)
EXTENDS Permits, TLAPS

(* A brand that is not open has neither token, permit nor cell.            *)
Scopes ==
    /\ \A b \in Brands :
          IF stage[b] = "open"
          THEN token[b] \in Threads /\ caller[b] \in Threads /\ opener[b] \in Threads
          ELSE token[b] = Null /\ readers[b] = {}
    /\ \A c \in Cells :
          IF stage[BrandOf[c]] = "open"
          THEN keeper[c] \in Threads
          ELSE keeper[c] = Null /\ lent[c] = {}

(* Shards are disjoint; their cells have one owner and are lent to no one. *)
Shards ==
    /\ \A w \in writers :
          /\ w.cells # {}
          /\ \A c \in w.cells : lent[c] = {} /\ stage[BrandOf[c]] = "open"
          /\ \A c, d \in w.cells : keeper[c] = keeper[d]
    /\ \A w, v \in writers : w # v => w.cells \cap v.cells = {}

(* A guard keeps its cell, the shard it came from, and its permit alive.   *)
Borrows ==
    \A g \in guards :
        /\ stage[BrandOf[g.cell]] = "open"
        /\ g.parts # {}
        /\ g.via = Bare => ~Held(g.cell)
        /\ g.via # Bare => g.cell \in g.via /\ \E w \in writers : w.cells = g.via
        /\ g.mode = "view" => g.via # Bare
        /\ g.mode = "mut" => g.via = Bare /\ readers[BrandOf[g.cell]] = {}
        /\ g.mode = "own" /\ g.via = Bare => lent[g.cell] = {}

(* The guards of a cell are all shared, or they are the pieces of one      *)
(* exclusive guard.                                                        *)
Exclusion ==
    \A g, h \in guards : g # h /\ g.cell = h.cell =>
        \/ g.mode \in Shared /\ h.mode \in Shared
        \/ g.mode \notin Shared /\ g.mode = h.mode /\ g.parts \cap h.parts = {}

(* What is not Send stays on the thread of its scope, what is not Sync is  *)
(* not lent.                                                               *)
Homes ==
    /\ \A c \in Cells : stage[BrandOf[c]] = "open" =>
          /\ ~SendCell(c) => keeper[c] = opener[BrandOf[c]]
          /\ ~SyncCell(c) => lent[c] = {}
    /\ \A w \in writers : \A c \in w.cells :
          ~SendCell(c) => w.thread = opener[BrandOf[c]]
    /\ \A g \in guards :
          /\ ~SendCell(g.cell) /\ g.mode \notin Shared => g.thread = opener[BrandOf[g.cell]]
          /\ ~SyncAlone(g.cell) /\ g.mode \in Shared =>
                /\ g.via = Bare => g.thread = keeper[g.cell]
                /\ \A w \in writers : w.cells = g.via => g.thread = w.thread

(* The cell that is watched, the thread that has it, the threads that can  *)
(* name it, and those that have a permit of its brand.                     *)
TheCell == watched[1]
TheBrand == BrandOf[TheCell]
Root == IF Held(TheCell) THEN {w.thread : w \in {v \in writers : TheCell \in v.cells}}
                         ELSE {keeper[TheCell]}
Side == IF Held(TheCell) THEN Root ELSE {keeper[TheCell]} \cup lent[TheCell]
Permitted == readers[TheBrand] \cup {token[TheBrand]}

(* S knows enough: who has the cell and, besides, the permits or all who   *)
(* can name the cell.                                                      *)
Settled(root, permitted, side, S) == root \subseteq S /\ (permitted \subseteq S \/ side \subseteq S)

(* The last write is known, or carried by the exclusive guard that made    *)
(* it; the reads of r since then are known, or carried by a guard.         *)
WriteKnown ==
    \/ Settled(Root, Permitted, Side, knowW)
    \/ \E g \in guards : g.cell = TheCell /\ g.mode \notin Shared /\ g.thread \in knowW
ReadsKnown(r) ==
    \/ Settled(Root, {token[TheBrand]}, Side, knowR[r])
    \/ \E g \in guards : g.cell = TheCell /\ g.thread \in knowR[r]

Knowledge ==
    /\ stage[TheBrand] = "fresh" => knowW = Threads /\ \A r \in Threads : knowR[r] = Threads
    /\ stage[TheBrand] = "open" => WriteKnown /\ \A r \in Threads : ReadsKnown(r)

Inv == /\ TypeOK /\ Scopes /\ Shards /\ Borrows /\ Exclusion /\ Homes
       /\ Knowledge /\ NoDataRace

----------------------------------------------------------------------------
(* Guards as records.                                                      *)

(* The fields of a guard.                                                  *)
LEMMA Fields ==
    ASSUME NEW g \in Guard
    PROVE  /\ g.cell \in Cells /\ g.thread \in Threads
           /\ g.mode \in {"ref", "mut", "own", "view"}
           /\ g.via \in SUBSET Cells
           /\ g.parts \in SUBSET UNION {Parts[c] : c \in Cells}
  BY DEF Guard

(* A guard that goes to another thread is otherwise the same.              *)
LEMMA Moved ==
    ASSUME NEW g \in Guard, NEW u \in Threads
    PROVE  LET h == [g EXCEPT !.thread = u] IN
           /\ h \in Guard
           /\ h.cell = g.cell /\ h.mode = g.mode /\ h.via = g.via /\ h.parts = g.parts
           /\ h.thread = u
  BY DEF Guard

(* A guard that is projected to one component is otherwise the same.       *)
LEMMA Narrowed ==
    ASSUME NEW g \in Guard, NEW p \in g.parts
    PROVE  LET h == [g EXCEPT !.parts = {p}] IN
           /\ h \in Guard
           /\ h.cell = g.cell /\ h.mode = g.mode /\ h.via = g.via /\ h.thread = g.thread
           /\ h.parts = {p}
  BY DEF Guard

(* G has one guard for each of the cells in S, over the whole payload.     *)
AreWhole(G, S, x, t, m) ==
    /\ G \subseteq Guard
    /\ \A h \in G : /\ h.cell \in S /\ h.thread = t /\ h.mode = m
                    /\ h.via = x /\ h.parts = Parts[h.cell]
    /\ \A h, k \in G : h.cell = k.cell => h = k
    /\ \A c \in S : \E h \in G : h.cell = c

(* The guards that borrow or a slice view makes cover their cells          *)
(* entirely.                                                               *)
LEMMA Whole ==
    ASSUME NEW S \in SUBSET Cells, NEW x \in SUBSET Cells, NEW t \in Threads,
           NEW m \in {"ref", "mut", "own", "view"}
    PROVE  AreWhole(WholeGuards(S, x, t, m), S, x, t, m)
  <1> DEFINE G == WholeGuards(S, x, t, m)
             whole(c) == [cell |-> c, thread |-> t, mode |-> m, via |-> x, parts |-> Parts[c]]
  <1>1. G = {whole(c) : c \in S}
    BY DEF WholeGuards
  <1>2. \A c \in S : /\ whole(c).cell = c /\ whole(c).thread = t /\ whole(c).mode = m
                     /\ whole(c).via = x /\ whole(c).parts = Parts[c]
    OBVIOUS
  <1>3. \A c \in S : whole(c) \in Guard
    BY DEF Guard
  <1> HIDE DEF G, whole
  <1>4. \A h \in G : /\ h \in Guard /\ h.cell \in S /\ h.thread = t /\ h.mode = m
                     /\ h.via = x /\ h.parts = Parts[h.cell] /\ h = whole(h.cell)
    BY <1>1, <1>2, <1>3
  <1>5. \A c \in S : whole(c) \in G /\ whole(c).cell = c
    BY <1>1, <1>2
  <1> QED
    BY <1>4, <1>5 DEF G, AreWhole

(* What TypeOK says of one brand, one shard, one guard.                    *)
LEMMA Typed ==
    ASSUME TypeOK
    PROVE  /\ \A c \in Cells : BrandOf[c] \in Brands
           /\ \A w \in writers : w.cells \subseteq Cells /\ w.thread \in Threads
           /\ \A g \in guards : /\ g \in Guard /\ g.cell \in Cells /\ g.thread \in Threads
                                /\ BrandOf[g.cell] \in Brands
                                /\ g.mode \in {"ref", "mut", "own", "view"}
  BY BrandOfAssumption DEF TypeOK, Guard, Writer

(* The cell and the brand of the location whose accesses are recorded.     *)
LEMMA Watched ==
    ASSUME TypeOK
    PROVE  /\ TheCell \in Cells /\ TheBrand \in Brands
           /\ \A g : watched \in Covers(g) <=> g.cell = TheCell /\ watched[2] \in g.parts
  BY BrandOfAssumption DEF TypeOK, Location, TheCell, TheBrand, Covers

(* All guards of a cell borrow the same: the bare cell, or its shard.      *)
LEMMA OnePath ==
    ASSUME TypeOK, Shards, Borrows
    PROVE  /\ \A g \in guards : ~Held(g.cell) <=> g.via = Bare
           /\ \A w \in writers : \A g \in guards : g.cell \in w.cells => g.via = w.cells
           /\ \A g, h \in guards : g.cell = h.cell => g.via = h.via
           /\ \A t \in Threads, c \in Cells : \A x \in Paths(t) : \A g \in guards :
                 Reaches(t, c, x) /\ g.cell = c => g.via = x
  <1>1. \A g \in guards : ~Held(g.cell) <=> g.via = Bare
    BY DEF Borrows, Held
  <1>2. ASSUME NEW w \in writers, NEW g \in guards, g.cell \in w.cells
        PROVE  g.via = w.cells
    <2>1. g.via # Bare
      BY <1>1, <1>2 DEF Held
    <2>2. PICK v \in writers : v.cells = g.via /\ g.cell \in v.cells
      BY <2>1 DEF Borrows
    <2> QED
      BY <1>2, <2>2 DEF Shards
  <1>3. ASSUME NEW g \in guards, NEW h \in guards, g.cell = h.cell
        PROVE  g.via = h.via
    <2>1. CASE Held(g.cell)
      BY <1>2, <1>3, <2>1 DEF Held
    <2>2. CASE ~Held(g.cell)
      BY <1>1, <1>3, <2>2
    <2> QED
      BY <2>1, <2>2
  <1>4. ASSUME NEW t \in Threads, NEW c \in Cells, NEW x \in Paths(t), NEW g \in guards,
               Reaches(t, c, x), g.cell = c
        PROVE  g.via = x
    <2>1. CASE x = Bare
      BY <1>1, <1>4, <2>1 DEF Reaches
    <2>2. CASE x # Bare
      BY <1>2, <1>4, <2>2 DEF Reaches, Paths
    <2> QED
      BY <2>1, <2>2
  <1> QED
    BY <1>1, <1>2, <1>3, <1>4

----------------------------------------------------------------------------
(* Happens-before.  What u knows the threads in V know afterwards.         *)
Passes(u, V) ==
    /\ knowW' \subseteq Threads /\ knowR' \in [Threads -> SUBSET Threads]
    /\ knowW \subseteq knowW'
    /\ u \in knowW => V \subseteq knowW'
    /\ \A r \in Threads : /\ knowR[r] \subseteq knowR'[r]
                          /\ u \in knowR[r] => V \subseteq knowR'[r]

(* A hand-over passes on what its giver knows ...                          *)
LEMMA SyncPasses ==
    ASSUME TypeOK, NEW u, NEW V \in SUBSET Threads, Sync(u, V)
    PROVE  Passes(u, V)
  BY DEF TypeOK, Sync, Learn, Passes

(* ... and a step without one passes on nothing.                           *)
LEMMA NothingPasses ==
    ASSUME TypeOK, UNCHANGED knowVars
    PROVE  \A u : Passes(u, {})
  BY DEF TypeOK, knowVars, Passes

(* From one side of the cell to the next.                                  *)
Follows(old, new, u, V) == new \subseteq old \/ (u \in old /\ new \subseteq old \cup V)

(* The threads that come to hold something have been told of the accesses  *)
(* before, so what Knowledge demands is kept.                              *)
LEMMA KnowledgeFollows ==
    ASSUME TypeOK, Knowledge, NEW u, NEW V, Passes(u, V),
           stage[TheBrand] = "open",
           Follows(Root, Root', u, V), Follows(Side, Side', u, V),
           Follows(Permitted, Permitted', u, V),
           Follows({token[TheBrand]}, {token[TheBrand]}', u, V),
           TheCell' = TheCell,
           \A g \in guards : g.cell = TheCell =>
               \E h \in guards' : /\ h.cell = TheCell
                                  /\ g.mode \notin Shared => h.mode \notin Shared
                                  /\ h.thread = g.thread \/ (u = g.thread /\ h.thread \in V)
    PROVE  WriteKnown' /\ \A r \in Threads : ReadsKnown(r)'
  <1>1. WriteKnown'
    <2>1. CASE Settled(Root, Permitted, Side, knowW)
      BY <2>1 DEF Follows, Passes, Settled, WriteKnown
    <2>2. CASE \E g \in guards : g.cell = TheCell /\ g.mode \notin Shared /\ g.thread \in knowW
      BY <2>2 DEF Passes, WriteKnown
    <2> QED
      BY <2>1, <2>2 DEF Knowledge, WriteKnown
  <1>2. ASSUME NEW r \in Threads
        PROVE  ReadsKnown(r)'
    <2>1. CASE Settled(Root, {token[TheBrand]}, Side, knowR[r])
      BY <2>1 DEF Follows, Passes, Settled, ReadsKnown
    <2>2. CASE \E g \in guards : g.cell = TheCell /\ g.thread \in knowR[r]
      BY <2>2 DEF Passes, ReadsKnown
    <2> QED
      BY <2>1, <2>2 DEF Knowledge, ReadsKnown
  <1> QED
    BY <1>1, <1>2

(* A guard comes from one that covered no less, or its thread knows all    *)
(* that it needs.                                                          *)
LEMMA RaceFollows ==
    ASSUME TypeOK, NoDataRace, NEW u, NEW V, Passes(u, V), watched' = watched,
           \A h \in guards' : watched \in Covers(h) =>
               \/ \E g \in guards : /\ watched \in Covers(g)
                                    /\ h.mode \notin Shared => g.mode \notin Shared
                                    /\ h.thread = g.thread \/ (u = g.thread /\ h.thread \in V)
               \/ /\ h.thread \in knowW
                  /\ h.mode \notin Shared => \A r \in Threads : h.thread \in knowR[r]
    PROVE  NoDataRace'
  BY DEF NoDataRace, Passes, Covers

(* Steps that leave the watched cell where it is.                          *)
LEMMA SameSides ==
    ASSUME watched' = watched, writers' = writers,
           keeper'[TheCell] = keeper[TheCell], lent'[TheCell] = lent[TheCell]
    PROVE  /\ TheCell' = TheCell /\ TheBrand' = TheBrand
           /\ Root' = Root /\ Side' = Side
  BY DEF TheCell, TheBrand, Root, Side, Held

(* A set of threads that stays needs to be told nothing.                   *)
LEMMA SameFollows == \A S, u, V : Follows(S, S, u, V)
  BY DEF Follows

----------------------------------------------------------------------------
(* Scopes.                                                                 *)

(* A scope mints its token.                                                *)
LEMMA MintStep ==
    ASSUME Inv, NEW b \in Brands, NEW t \in Threads, NEW u \in Threads, Mint(b, t, u)
    PROVE  Inv'
  <1> USE DEF Inv
  <1>1. Passes(t, {u})
    BY SyncPasses DEF Mint
  <1>2. TypeOK'
    BY <1>1, BrandOfAssumption DEF TypeOK, Mint, Passes
  <1>3. Scopes'
    BY NoThread DEF TypeOK, Mint, Scopes
  <1>4. Shards'
    BY DEF TypeOK, Mint, Scopes, Shards, Writer
  <1>5. Borrows'
    BY Typed DEF TypeOK, Mint, Borrows, Held
  <1>6. Exclusion'
    BY DEF Mint, Exclusion
  <1>7. Homes'
    BY DEF TypeOK, Mint, Scopes, Shards, Borrows, Homes, SendCell, SyncCell, SyncAlone, Guard, Writer
  <1>8. NoDataRace'
    BY <1>1, RaceFollows DEF Mint
  <1>9. Knowledge'
    <2>1. CASE b = TheBrand
      <3>1. Threads \subseteq knowW' /\ \A r \in Threads : Threads \subseteq knowR'[r]
        BY <1>1, <2>1 DEF Mint, Knowledge, Passes
      <3>2. TheCell' = TheCell /\ TheBrand' = TheBrand /\ TheCell \in Cells
        BY Watched DEF Mint, TheCell, TheBrand
      <3>3. keeper'[TheCell] \in Threads /\ lent'[TheCell] \subseteq Threads
            /\ token'[TheBrand] \in Threads /\ readers'[TheBrand] \subseteq Threads
        BY <1>2, <2>1, <3>2 DEF TypeOK, Mint, TheBrand
      <3>4. \A w \in writers' : w.thread \in Threads
        BY <1>2 DEF TypeOK, Writer
      <3>5. Root' \subseteq Threads /\ Side' \subseteq Threads /\ Permitted' \subseteq Threads
        BY <3>2, <3>3, <3>4 DEF Root, Side, Permitted
      <3> QED
        BY <2>1, <3>1, <3>2, <3>3, <3>5
           DEF Mint, TypeOK, Knowledge, WriteKnown, ReadsKnown, Settled
    <2>2. CASE b # TheBrand
      <3>1. /\ keeper'[TheCell] = keeper[TheCell] /\ lent'[TheCell] = lent[TheCell]
            /\ token'[TheBrand] = token[TheBrand] /\ stage'[TheBrand] = stage[TheBrand]
            /\ readers' = readers /\ watched' = watched /\ writers' = writers
            /\ guards' = guards
        BY <2>2, Watched DEF Mint, TypeOK, TheBrand
      <3>2. TheCell' = TheCell /\ TheBrand' = TheBrand /\ Root' = Root /\ Side' = Side
        BY <3>1, SameSides
      <3>3. Permitted' = Permitted /\ {token[TheBrand]}' = {token[TheBrand]}
        BY <3>1, <3>2 DEF Permitted
      <3>4. stage[TheBrand] = "open" => WriteKnown' /\ \A r \in Threads : ReadsKnown(r)'
        BY <1>1, <3>1, <3>2, <3>3, SameFollows, KnowledgeFollows
      <3>5. stage[TheBrand] = "fresh" => knowW' = Threads /\ \A r \in Threads : knowR'[r] = Threads
        BY <1>1 DEF Knowledge, Passes
      <3> QED
        BY <3>1, <3>2, <3>4, <3>5 DEF Knowledge
    <2> QED
      BY <2>1, <2>2
  <1> QED
    BY <1>2, <1>3, <1>4, <1>5, <1>6, <1>7, <1>8, <1>9

(* A scope ends.                                                           *)
LEMMA EndStep ==
    ASSUME Inv, NEW b \in Brands, End(b)
    PROVE  Inv'
  <1> USE DEF Inv
  <1>1. Passes(opener[b], {caller[b]})
    BY SyncPasses DEF End, Scopes
  <1>2. TypeOK'
    BY <1>1 DEF TypeOK, End, Passes
  <1>3. Scopes'
    BY Typed DEF TypeOK, End, Scopes, TokenUnborrowed, Unborrowed, CellsOf
  <1>4. Shards'
    BY Typed DEF TypeOK, End, Shards, Unborrowed, CellsOf, Held
  <1>5. Borrows'
    BY Typed DEF TypeOK, End, Borrows, Held, Unborrowed, CellsOf, GuardsOf
  <1>6. Exclusion'
    BY DEF End, Exclusion
  <1>7. Homes'
    BY Typed DEF TypeOK, End, Homes, Unborrowed, CellsOf, GuardsOf, SendCell, SyncCell, SyncAlone
  <1>8. NoDataRace'
    BY <1>1, RaceFollows DEF End
  <1>9. Knowledge'
    <2>1. CASE b = TheBrand
      BY <2>1 DEF End, TypeOK, Knowledge, TheBrand, TheCell
    <2>2. CASE b # TheBrand
      <3>1. /\ keeper'[TheCell] = keeper[TheCell] /\ lent'[TheCell] = lent[TheCell]
            /\ token'[TheBrand] = token[TheBrand] /\ stage'[TheBrand] = stage[TheBrand]
            /\ readers' = readers /\ watched' = watched /\ writers' = writers
            /\ guards' = guards
        BY <2>2, Watched DEF End, TypeOK, TheBrand
      <3>2. TheCell' = TheCell /\ TheBrand' = TheBrand /\ Root' = Root /\ Side' = Side
        BY <3>1, SameSides
      <3>3. Permitted' = Permitted /\ {token[TheBrand]}' = {token[TheBrand]}
        BY <3>1, <3>2 DEF Permitted
      <3>4. stage[TheBrand] = "open" => WriteKnown' /\ \A r \in Threads : ReadsKnown(r)'
        BY <1>1, <3>1, <3>2, <3>3, SameFollows, KnowledgeFollows
      <3>5. stage[TheBrand] = "fresh" => knowW' = Threads /\ \A r \in Threads : knowR'[r] = Threads
        BY <1>1 DEF Knowledge, Passes
      <3> QED
        BY <3>1, <3>2, <3>4, <3>5 DEF Knowledge
    <2> QED
      BY <2>1, <2>2
  <1> QED
    BY <1>2, <1>3, <1>4, <1>5, <1>6, <1>7, <1>8, <1>9

----------------------------------------------------------------------------
(* Tokens and permits.                                                     *)

(* Such a step keeps the knowledge when the token and the permits of the   *)
(* watched brand follow what passes.                                       *)
LEMMA PermitsFollow ==
    ASSUME Inv, NEW u, NEW V, Passes(u, V),
           UNCHANGED <<scopeVars, cellVars, guards>>,
           Follows(Permitted, readers'[TheBrand] \cup {token'[TheBrand]}, u, V),
           Follows({token[TheBrand]}, {token'[TheBrand]}, u, V)
    PROVE  Knowledge' /\ NoDataRace'
  <1> USE DEF Inv
  <1>1. /\ TheCell' = TheCell /\ TheBrand' = TheBrand /\ Root' = Root /\ Side' = Side
    BY SameSides DEF scopeVars, cellVars
  <1>2. Permitted' = readers'[TheBrand] \cup {token'[TheBrand]}
        /\ {token[TheBrand]}' = {token'[TheBrand]}
    BY <1>1 DEF Permitted
  <1>3. stage[TheBrand] = "open" => WriteKnown' /\ \A r \in Threads : ReadsKnown(r)'
    BY <1>1, <1>2, SameFollows, KnowledgeFollows
  <1>4. stage[TheBrand] = "fresh" => knowW' = Threads /\ \A r \in Threads : knowR'[r] = Threads
    BY DEF Knowledge, Passes
  <1>5. Knowledge'
    BY <1>1, <1>3, <1>4 DEF Knowledge, scopeVars
  <1>6. NoDataRace'
    BY RaceFollows DEF scopeVars
  <1> QED
    BY <1>5, <1>6

(* The token moves to another thread.                                      *)
LEMMA MoveTokenStep ==
    ASSUME Inv, NEW b \in Brands, NEW t \in Threads, NEW u \in Threads, MoveToken(b, t, u)
    PROVE  Inv'
  <1> USE DEF Inv
  <1>1. Passes(t, {u})
    BY SyncPasses DEF MoveToken
  <1>2. TypeOK'
    BY <1>1 DEF TypeOK, MoveToken, Passes, scopeVars, cellVars
  <1>3. Scopes'
    BY Typed, NoThread DEF TypeOK, MoveToken, Scopes, scopeVars, cellVars
  <1>4. Shards' /\ Exclusion' /\ Homes'
    BY DEF MoveToken, Shards, Exclusion, Homes, SendCell, SyncCell, SyncAlone, scopeVars, cellVars
  <1>5. Borrows'
    BY DEF MoveToken, Borrows, Held, scopeVars, cellVars
  <1>6. Knowledge' /\ NoDataRace'
    <2>1. /\ Follows(Permitted, readers'[TheBrand] \cup {token'[TheBrand]}, t, {u})
          /\ Follows({token[TheBrand]}, {token'[TheBrand]}, t, {u})
      BY Watched DEF MoveToken, TypeOK, Follows, Permitted
    <2> QED
      BY <1>1, <2>1, PermitsFollow DEF MoveToken
  <1> QED
    BY <1>2, <1>3, <1>4, <1>5, <1>6

(* share makes the first read permit.                                      *)
LEMMA ShareStep ==
    ASSUME Inv, NEW b \in Brands, NEW t \in Threads, share(b, t)
    PROVE  Inv'
  <1> USE DEF Inv
  <1>1. Passes(t, {})
    BY NothingPasses DEF share
  <1>2. TypeOK'
    BY DEF TypeOK, share, scopeVars, cellVars, knowVars
  <1>3. Scopes'
    BY Typed, NoThread DEF TypeOK, share, Scopes, scopeVars, cellVars
  <1>4. Shards' /\ Exclusion' /\ Homes'
    BY DEF share, Shards, Exclusion, Homes, SendCell, SyncCell, SyncAlone, scopeVars, cellVars
  <1>5. Borrows'
    BY Typed DEF share, TypeOK, Borrows, Held, scopeVars, cellVars
  <1>6. Knowledge' /\ NoDataRace'
    <2>1. /\ Follows(Permitted, readers'[TheBrand] \cup {token'[TheBrand]}, t, {})
          /\ Follows({token[TheBrand]}, {token'[TheBrand]}, t, {})
      BY Watched DEF share, TypeOK, Follows, Permitted
    <2> QED
      BY <1>1, <2>1, PermitsFollow DEF share
  <1> QED
    BY <1>2, <1>3, <1>4, <1>5, <1>6

(* A read permit is copied.                                                *)
LEMMA CopyPermitStep ==
    ASSUME Inv, NEW b \in Brands, NEW t \in Threads, NEW u \in Threads, CopyPermit(b, t, u)
    PROVE  Inv'
  <1> USE DEF Inv
  <1>1. Passes(t, {u})
    BY SyncPasses DEF CopyPermit
  <1>2. TypeOK'
    BY <1>1 DEF TypeOK, CopyPermit, Passes, scopeVars, cellVars
  <1>3. Scopes'
    BY Typed DEF TypeOK, CopyPermit, Scopes, scopeVars, cellVars
  <1>4. Shards' /\ Exclusion' /\ Homes'
    BY DEF CopyPermit, Shards, Exclusion, Homes, SendCell, SyncCell, SyncAlone, scopeVars, cellVars
  <1>5. Borrows'
    BY Typed DEF CopyPermit, TypeOK, Borrows, Held, scopeVars, cellVars
  <1>6. Knowledge' /\ NoDataRace'
    <2>1. /\ Follows(Permitted, readers'[TheBrand] \cup {token'[TheBrand]}, t, {u})
          /\ Follows({token[TheBrand]}, {token'[TheBrand]}, t, {u})
      BY Watched DEF CopyPermit, TypeOK, Follows, Permitted
    <2> QED
      BY <1>1, <2>1, PermitsFollow DEF CopyPermit
  <1> QED
    BY <1>2, <1>3, <1>4, <1>5, <1>6

(* A thread's read permit ends.                                            *)
LEMMA DropPermitStep ==
    ASSUME Inv, NEW b \in Brands, NEW t \in Threads, DropPermit(b, t)
    PROVE  Inv'
  <1> USE DEF Inv
  <1>1. Passes(t, {token[b]})
    BY SyncPasses DEF DropPermit, Scopes
  <1>2. TypeOK'
    BY <1>1 DEF TypeOK, DropPermit, Passes, scopeVars, cellVars
  <1>3. Scopes'
    BY Typed DEF TypeOK, DropPermit, Scopes, scopeVars, cellVars
  <1>4. Shards' /\ Exclusion' /\ Homes'
    BY DEF DropPermit, Shards, Exclusion, Homes, SendCell, SyncCell, SyncAlone, scopeVars, cellVars
  <1>5. Borrows'
    BY Typed DEF DropPermit, TypeOK, Borrows, Held, scopeVars, cellVars
  <1>6. Knowledge' /\ NoDataRace'
    <2>1. /\ Follows(Permitted, readers'[TheBrand] \cup {token'[TheBrand]}, t, {token[b]})
          /\ Follows({token[TheBrand]}, {token'[TheBrand]}, t, {token[b]})
      BY Watched DEF DropPermit, TypeOK, Follows, Permitted
    <2> QED
      BY <1>1, <2>1, PermitsFollow DEF DropPermit
  <1> QED
    BY <1>2, <1>3, <1>4, <1>5, <1>6

----------------------------------------------------------------------------
(* Cells and shards.  Such a step keeps the knowledge when the threads     *)
(* that have the watched cell follow what passes.                          *)
LEMMA CellsFollow ==
    ASSUME Inv, NEW u, NEW V, Passes(u, V),
           UNCHANGED <<scopeVars, permitVars, guards>>,
           Follows(Root, Root', u, V), Follows(Side, Side', u, V)
    PROVE  Knowledge' /\ NoDataRace'
  <1> USE DEF Inv
  <1>1. TheCell' = TheCell /\ TheBrand' = TheBrand
    BY DEF TheCell, TheBrand, scopeVars
  <1>2. Permitted' = Permitted /\ {token[TheBrand]}' = {token[TheBrand]}
    BY <1>1 DEF Permitted, permitVars
  <1>3. stage[TheBrand] = "open" => WriteKnown' /\ \A r \in Threads : ReadsKnown(r)'
    BY <1>1, <1>2, SameFollows, KnowledgeFollows
  <1>4. stage[TheBrand] = "fresh" => knowW' = Threads /\ \A r \in Threads : knowR'[r] = Threads
    BY DEF Knowledge, Passes
  <1>5. Knowledge'
    BY <1>1, <1>3, <1>4 DEF Knowledge, scopeVars
  <1>6. NoDataRace'
    BY RaceFollows DEF scopeVars
  <1> QED
    BY <1>5, <1>6

(* A cell moves to another thread.                                         *)
LEMMA MoveCellStep ==
    ASSUME Inv, NEW c \in Cells, NEW t \in Threads, NEW u \in Threads, MoveCell(c, t, u)
    PROVE  Inv'
  <1> USE DEF Inv
  <1>1. Passes(t, {u})
    BY SyncPasses DEF MoveCell
  <1>2. TypeOK'
    BY <1>1 DEF TypeOK, MoveCell, Passes, scopeVars, permitVars
  <1>3. Scopes'
    BY Typed, NoThread DEF TypeOK, MoveCell, Scopes, scopeVars, permitVars
  <1>4. Shards'
    BY Typed DEF TypeOK, MoveCell, Shards, Unborrowed, Held, scopeVars
  <1>5. Exclusion' /\ Borrows'
    BY DEF MoveCell, Exclusion, Borrows, Held, scopeVars, permitVars
  <1>6. Homes'
    BY Typed DEF TypeOK, MoveCell, Homes, SendCell, SyncCell, SyncAlone, Unborrowed, GuardsOf,
       scopeVars
  <1>7. Knowledge' /\ NoDataRace'
    <2>1. Follows(Root, Root', t, {u}) /\ Follows(Side, Side', t, {u})
      <3>1. CASE c = TheCell
        BY <3>1 DEF MoveCell, TypeOK, Unborrowed, Held, Root, Side, TheCell, Follows, scopeVars
      <3>2. CASE c # TheCell
        BY <3>2, SameSides, SameFollows DEF MoveCell, TypeOK, scopeVars
      <3> QED
        BY <3>1, <3>2
    <2> QED
      BY <1>1, <2>1, CellsFollow DEF MoveCell
  <1> QED
    BY <1>2, <1>3, <1>4, <1>5, <1>6, <1>7

(* A reference to a cell is lent to another thread ...                     *)
LEMMA LendCellStep ==
    ASSUME Inv, NEW c \in Cells, NEW t \in Threads, NEW u \in Threads, LendCell(c, t, u)
    PROVE  Inv'
  <1> USE DEF Inv
  <1>1. Passes(t, {u})
    BY SyncPasses DEF LendCell
  <1>2. TypeOK'
    BY <1>1 DEF TypeOK, LendCell, Passes, scopeVars, permitVars
  <1>3. Scopes'
    BY Typed, NoThread DEF TypeOK, LendCell, Scopes, scopeVars, permitVars
  <1>4. Shards'
    BY Typed DEF TypeOK, LendCell, Shards, Held, scopeVars
  <1>5. Exclusion'
    BY DEF LendCell, Exclusion
  <1>6. Borrows'
    BY Typed DEF TypeOK, LendCell, Borrows, Held, Frozen, GuardsOf, scopeVars, permitVars
  <1>7. Homes'
    BY Typed DEF TypeOK, LendCell, Homes, SendCell, SyncCell, SyncAlone, scopeVars
  <1>8. Knowledge' /\ NoDataRace'
    <2>1. Follows(Root, Root', t, {u}) /\ Follows(Side, Side', t, {u})
      <3>1. CASE c = TheCell
        BY <3>1 DEF LendCell, TypeOK, Held, Root, Side, TheCell, Follows, scopeVars
      <3>2. CASE c # TheCell
        BY <3>2, SameSides, SameFollows DEF LendCell, TypeOK, scopeVars
      <3> QED
        BY <3>1, <3>2
    <2> QED
      BY <1>1, <2>1, CellsFollow DEF LendCell
  <1> QED
    BY <1>2, <1>3, <1>4, <1>5, <1>6, <1>7, <1>8

(* ... and comes back.                                                     *)
LEMMA ReturnCellStep ==
    ASSUME Inv, NEW c \in Cells, NEW u \in Threads, ReturnCell(c, u)
    PROVE  Inv'
  <1> USE DEF Inv
  <1>1. Passes(u, {keeper[c]})
    BY SyncPasses DEF ReturnCell, Scopes
  <1>2. TypeOK'
    BY <1>1 DEF TypeOK, ReturnCell, Passes, scopeVars, permitVars
  <1>3. Scopes'
    BY Typed, NoThread DEF TypeOK, ReturnCell, Scopes, scopeVars, permitVars
  <1>4. Shards'
    BY Typed DEF TypeOK, ReturnCell, Shards, Held, scopeVars
  <1>5. Exclusion'
    BY DEF ReturnCell, Exclusion
  <1>6. Borrows'
    BY Typed DEF TypeOK, ReturnCell, Borrows, Held, scopeVars, permitVars
  <1>7. Homes'
    BY Typed DEF TypeOK, ReturnCell, Homes, SendCell, SyncCell, SyncAlone, scopeVars
  <1>8. Knowledge' /\ NoDataRace'
    <2>1. Follows(Root, Root', u, {keeper[c]}) /\ Follows(Side, Side', u, {keeper[c]})
      <3>1. CASE c = TheCell
        BY <3>1 DEF ReturnCell, TypeOK, Held, Root, Side, TheCell, Follows, scopeVars
      <3>2. CASE c # TheCell
        BY <3>2, SameSides, SameFollows DEF ReturnCell, TypeOK, scopeVars
      <3> QED
        BY <3>1, <3>2
    <2> QED
      BY <1>1, <2>1, CellsFollow DEF ReturnCell
  <1> QED
    BY <1>2, <1>3, <1>4, <1>5, <1>6, <1>7, <1>8

(* WriterShard::new takes the cells away from every other path.            *)
LEMMA NewShardStep ==
    ASSUME Inv, NEW b \in Brands, NEW t \in Threads, NEW S \in Views(b), new_shard(S, t)
    PROVE  Inv'
  <1> USE DEF Inv
  <1> DEFINE w == [cells |-> S, thread |-> t]
  <1>1. Passes(t, {})
    BY NothingPasses DEF new_shard
  <1>2. /\ S \subseteq Cells /\ S # {} /\ \A c \in S : BrandOf[c] = b
        /\ w \in Writer /\ w.cells = S /\ w.thread = t /\ writers' = writers \cup {w}
    BY DEF Views, CellsOf, Writer, new_shard
  <1> HIDE DEF w
  <1>3. /\ \A c \in S : /\ keeper[c] = t /\ lent[c] = {} /\ ~Held(c)
                        /\ \A g \in guards : g.cell # c
        /\ UNCHANGED <<scopeVars, permitVars, keeper, lent, guards, knowVars>>
    BY DEF new_shard, Unborrowed, GuardsOf
  <1>4. TypeOK'
    BY <1>2, <1>3 DEF TypeOK, scopeVars, permitVars, knowVars
  <1>5. Scopes' /\ Exclusion'
    BY <1>3 DEF Scopes, Exclusion, scopeVars, permitVars
  <1>6. Shards'
    <2>1. \A c \in S : lent[c] = {} /\ stage[BrandOf[c]] = "open"
      BY <1>2, <1>3, Typed, NoThread DEF Scopes
    <2>2. \A v \in writers : v.cells \cap S = {}
      BY <1>3 DEF Held
    <2> QED
      BY <1>2, <1>3, <2>1, <2>2 DEF Shards, scopeVars
  <1>7. Borrows'
    BY <1>2, <1>3 DEF Borrows, Held, scopeVars, permitVars
  <1>8. Homes'
    <2>1. \A c \in S : ~SendCell(c) => t = opener[BrandOf[c]]
      BY <1>2, <1>3, Typed, NoThread DEF Homes, Scopes
    <2>2. \A g \in guards : g.via # S
      BY <1>2, <1>3 DEF Borrows, Bare
    <2> QED
      BY <1>2, <1>3, <2>1, <2>2 DEF Homes, SendCell, SyncCell, SyncAlone, scopeVars
  <1>9. Knowledge' /\ NoDataRace'
    <2>1. Follows(Root, Root', t, {}) /\ Follows(Side, Side', t, {})
      <3>1. CASE TheCell \in S
        BY <1>2, <1>3, <3>1 DEF Held, Root, Side, TheCell, Follows, scopeVars
      <3>2. CASE TheCell \notin S
        BY <1>2, <1>3, <3>2 DEF Held, Root, Side, TheCell, Follows, scopeVars
      <3> QED
        BY <3>1, <3>2
    <2> QED
      BY <1>1, <1>3, <2>1, CellsFollow
  <1> QED
    BY <1>4, <1>5, <1>6, <1>7, <1>8, <1>9

(* The shard that holds the watched cell has it alone.                     *)
LEMMA HeldRoot ==
    ASSUME Shards, NEW w \in writers, TheCell \in w.cells
    PROVE  Root = {w.thread} /\ Side = {w.thread}
  BY DEF Shards, Root, Side, Held

(* No guard borrows an idle shard, nor a cell of it.                       *)
LEMMA IdleShard ==
    ASSUME TypeOK, Shards, Borrows, NEW w \in writers, Idle(w)
    PROVE  \A g \in guards : g.cell \notin w.cells
  BY OnePath DEF Idle

(* split_at divides a shard.                                               *)
LEMMA SplitStep ==
    ASSUME Inv, NEW w \in writers, split_at(w)
    PROVE  Inv'
  <1> USE DEF Inv
  <1>1. /\ w \in Writer /\ w.cells \subseteq Cells /\ w.thread \in Threads
        /\ \A g \in guards : g.cell \notin w.cells /\ g.via # w.cells
        /\ writers' = (writers \ {w}) \cup Pieces(w)
        /\ UNCHANGED <<scopeVars, permitVars, keeper, lent, guards, knowVars>>
    BY Typed, IdleShard DEF split_at, TypeOK, Idle
  <1>2. /\ Pieces(w) \subseteq Writer
        /\ \A p \in Pieces(w) : p.thread = w.thread /\ \E c \in w.cells : p.cells = {c}
        /\ \A p, q \in Pieces(w) : p # q => p.cells \cap q.cells = {}
        /\ \A c \in w.cells : \E p \in Pieces(w) : p.cells = {c}
    <2> DEFINE piece(c) == [w EXCEPT !.cells = {c}]
    <2>1. \A c \in w.cells : /\ piece(c) \in Writer /\ piece(c).thread = w.thread
                             /\ piece(c).cells = {c}
      BY <1>1 DEF Writer
    <2>2. Pieces(w) = {piece(c) : c \in w.cells}
      BY DEF Pieces
    <2> HIDE DEF piece
    <2> QED
      BY <2>1, <2>2
  <1>3. \A c \in Cells : Held(c)' <=> Held(c)
    BY <1>1, <1>2 DEF Held
  <1>4. TypeOK'
    BY <1>1, <1>2 DEF TypeOK, scopeVars, permitVars, knowVars
  <1>5. Scopes' /\ Exclusion'
    BY <1>1 DEF Scopes, Exclusion, scopeVars, permitVars
  <1>6. Shards'
    <2>1. ASSUME NEW v \in writers'
          PROVE  /\ v.cells # {}
                 /\ \A c \in v.cells : lent'[c] = {} /\ stage'[BrandOf[c]] = "open"
                 /\ \A c, d \in v.cells : keeper'[c] = keeper'[d]
      BY <1>1, <1>2 DEF Shards, scopeVars
    <2>2. ASSUME NEW v \in writers', NEW x \in writers', v # x
          PROVE  v.cells \cap x.cells = {}
      <3>1. \A p \in Pieces(w) : p.cells \subseteq w.cells
        BY <1>2
      <3> QED
        BY <1>1, <1>2, <2>2, <3>1 DEF Shards
    <2> QED
      BY <2>1, <2>2 DEF Shards
  <1>7. Borrows'
    <2>1. \A g \in guards : Held(g.cell)' <=> Held(g.cell)
      BY <1>3, Typed
    <2>2. \A g \in guards : g.via # Bare => \E v \in writers' : v.cells = g.via
      BY <1>1 DEF Borrows
    <2> QED
      BY <1>1, <2>1, <2>2 DEF Borrows, scopeVars, permitVars
  <1>8. Homes'
    <2>1. \A v \in writers' : \A c \in v.cells : ~SendCell(c) => v.thread = opener[BrandOf[c]]
      BY <1>1, <1>2 DEF Homes
    <2>2. \A g \in guards : \A p \in Pieces(w) : p.cells # g.via
      BY <1>1, <1>2 DEF Borrows, Bare
    <2>3. \A g \in guards : ~SyncAlone(g.cell) /\ g.mode \in Shared =>
              \A v \in writers' : v.cells = g.via => g.thread = v.thread
      BY <1>1, <2>2 DEF Homes
    <2> QED
      BY <1>1, <2>1, <2>3 DEF Homes, SendCell, SyncCell, SyncAlone, scopeVars
  <1>9. Knowledge' /\ NoDataRace'
    <2>1. Root' = Root /\ Side' = Side
      <3>1. CASE TheCell \in w.cells
        <4>1. Root = {w.thread} /\ Side = {w.thread}
          BY <3>1, HeldRoot
        <4>2. PICK p \in Pieces(w) : p.cells = {TheCell}
          BY <1>2, <3>1
        <4>3. TheCell' = TheCell /\ p \in writers' /\ p.thread = w.thread
          BY <1>1, <1>2, <4>2 DEF TheCell, scopeVars
        <4>4. Root' = {w.thread} /\ Side' = {w.thread}
          BY <1>6, <4>2, <4>3 DEF Shards, Root, Side, Held
        <4> QED
          BY <4>1, <4>4
      <3>2. CASE TheCell \notin w.cells
        <4>1. \A p \in Pieces(w) : TheCell \notin p.cells
          BY <1>2, <3>2
        <4>2. {v \in writers' : TheCell \in v.cells} = {v \in writers : TheCell \in v.cells}
          BY <1>1, <3>2, <4>1
        <4>3. TheCell' = TheCell /\ keeper' = keeper /\ lent' = lent
          BY <1>1 DEF TheCell, scopeVars
        <4>4. Held(TheCell)' <=> Held(TheCell)
          BY <1>3, <4>3, Watched DEF Held
        <4> QED
          BY <4>2, <4>3, <4>4 DEF Root, Side
      <3> QED
        BY <3>1, <3>2
    <2>2. Passes(w.thread, {})
      BY <1>1, NothingPasses
    <2> QED
      BY <1>1, <2>1, <2>2, SameFollows, CellsFollow
  <1> QED
    BY <1>4, <1>5, <1>6, <1>7, <1>8, <1>9

(* A shard moves to another thread.                                        *)
LEMMA MoveShardStep ==
    ASSUME Inv, NEW w \in writers, NEW u \in Threads, MoveShard(w, u)
    PROVE  Inv'
  <1> USE DEF Inv
  <1> DEFINE m == [w EXCEPT !.thread = u]
  <1>1. /\ w \in Writer /\ w.cells \subseteq Cells /\ w.thread \in Threads
        /\ \A g \in guards : g.cell \notin w.cells /\ g.via # w.cells
        /\ \A c \in w.cells : SendCell(c)
        /\ writers' = (writers \ {w}) \cup {m}
        /\ UNCHANGED <<scopeVars, permitVars, keeper, lent, guards>>
    BY Typed, IdleShard DEF MoveShard, TypeOK, Idle
  <1>2. m \in Writer /\ m.thread = u /\ m.cells = w.cells
    BY <1>1 DEF Writer
  <1> HIDE DEF m
  <1>3. Passes(w.thread, {u})
    BY SyncPasses DEF MoveShard
  <1>4. \A c \in Cells : Held(c)' <=> Held(c)
    BY <1>1, <1>2 DEF Held
  <1>5. TypeOK'
    BY <1>1, <1>2, <1>3 DEF TypeOK, scopeVars, permitVars, Passes
  <1>6. Scopes' /\ Exclusion'
    BY <1>1 DEF Scopes, Exclusion, scopeVars, permitVars
  <1>7. Shards'
    BY <1>1, <1>2 DEF Shards, scopeVars
  <1>8. Borrows'
    <2>1. \A g \in guards : Held(g.cell)' <=> Held(g.cell)
      BY <1>4, Typed
    <2>2. \A g \in guards : g.via # Bare => \E v \in writers' : v.cells = g.via
      BY <1>1 DEF Borrows
    <2> QED
      BY <1>1, <2>1, <2>2 DEF Borrows, scopeVars, permitVars
  <1>9. Homes'
    BY <1>1, <1>2 DEF Homes, SendCell, SyncCell, SyncAlone, scopeVars
  <1>10. Knowledge' /\ NoDataRace'
    <2>1. Follows(Root, Root', w.thread, {u}) /\ Follows(Side, Side', w.thread, {u})
      <3>1. CASE TheCell \in w.cells
        <4>1. Root = {w.thread} /\ Side = {w.thread}
          BY <3>1, HeldRoot
        <4>2. TheCell' = TheCell /\ m \in writers' /\ m.thread = u
          BY <1>1, <1>2 DEF TheCell, scopeVars
        <4>3. Root' = {u} /\ Side' = {u}
          BY <1>2, <1>7, <3>1, <4>2 DEF Shards, Root, Side, Held
        <4> QED
          BY <4>1, <4>3 DEF Follows
      <3>2. CASE TheCell \notin w.cells
        <4>1. {v \in writers' : TheCell \in v.cells} = {v \in writers : TheCell \in v.cells}
          BY <1>1, <1>2, <3>2
        <4>2. TheCell' = TheCell /\ keeper' = keeper /\ lent' = lent
          BY <1>1 DEF TheCell, scopeVars
        <4>3. Held(TheCell)' <=> Held(TheCell)
          BY <1>4, <4>2, Watched DEF Held
        <4>4. Root' = Root /\ Side' = Side
          BY <4>1, <4>2, <4>3 DEF Root, Side
        <4> QED
          BY <4>4, SameFollows
      <3> QED
        BY <3>1, <3>2
    <2> QED
      BY <1>1, <1>3, <2>1, CellsFollow
  <1> QED
    BY <1>5, <1>6, <1>7, <1>8, <1>9, <1>10

(* The structure after a shard is consumed.                                *)
LEMMA ShardGone ==
    ASSUME Inv, NEW w \in writers, writers' = writers \ {w},
           UNCHANGED <<scopeVars, permitVars, keeper, lent>>
    PROVE  /\ writers' \subseteq Writer /\ Scopes' /\ Shards'
           /\ \A c \in Cells : Held(c)' <=> Held(c) /\ c \notin w.cells
           /\ TheCell' = TheCell /\ TheBrand' = TheBrand
           /\ TheCell \in w.cells => /\ Root' = {keeper[TheCell]}
                                     /\ Side' = {keeper[TheCell]}
           /\ TheCell \notin w.cells => Root' = Root /\ Side' = Side
  <1> USE DEF Inv
  <1>1. writers' \subseteq Writer /\ Scopes' /\ Shards'
    BY DEF TypeOK, Scopes, Shards, scopeVars, permitVars
  <1>2. \A c \in Cells : Held(c)' <=> Held(c) /\ c \notin w.cells
    BY DEF Held, Shards
  <1>3. TheCell' = TheCell /\ TheBrand' = TheBrand /\ TheCell \in Cells
    BY Watched DEF TheCell, TheBrand, scopeVars
  <1>4. Held(TheCell)' <=> Held(TheCell) /\ TheCell \notin w.cells
    BY <1>2, <1>3 DEF Held
  <1>5. TheCell \in w.cells => lent[TheCell] = {}
    BY DEF Shards
  <1>6. TheCell \in w.cells => Root' = {keeper[TheCell]} /\ Side' = {keeper[TheCell]}
    BY <1>3, <1>4, <1>5 DEF Root, Side
  <1>7. TheCell \notin w.cells => Root' = Root /\ Side' = Side
    BY <1>3, <1>4 DEF Root, Side
  <1> QED
    BY <1>1, <1>2, <1>3, <1>6, <1>7

(* into_cells gives the cells of a shard back.                             *)
LEMMA IntoCellsStep ==
    ASSUME Inv, NEW w \in writers, into_cells(w)
    PROVE  Inv'
  <1> USE DEF Inv
  <1> DEFINE first == CHOOSE c \in w.cells : TRUE
  <1>1. /\ w.cells \subseteq Cells /\ first \in w.cells
        /\ \A g \in guards : g.cell \notin w.cells /\ g.via # w.cells
        /\ writers' = writers \ {w} /\ Sync(w.thread, {keeper[first]})
        /\ UNCHANGED <<scopeVars, permitVars, keeper, lent, guards>>
    BY Typed, IdleShard DEF into_cells, Idle, Shards
  <1> HIDE DEF first
  <1>2. keeper[first] \in Threads /\ \A c \in w.cells : keeper[c] = keeper[first]
    BY <1>1 DEF Shards, Scopes
  <1>3. Passes(w.thread, {keeper[first]})
    BY <1>1, <1>2, SyncPasses
  <1>4. /\ writers' \subseteq Writer /\ Scopes' /\ Shards'
        /\ \A c \in Cells : Held(c)' <=> Held(c) /\ c \notin w.cells
        /\ TheCell \in w.cells => /\ Root' = {keeper[TheCell]}
                                  /\ Side' = {keeper[TheCell]}
        /\ TheCell \notin w.cells => Root' = Root /\ Side' = Side
    BY <1>1, ShardGone
  <1>5. TypeOK'
    BY <1>1, <1>3, <1>4 DEF TypeOK, scopeVars, permitVars, Passes
  <1>6. Exclusion'
    BY <1>1 DEF Exclusion
  <1>7. Borrows'
    <2>1. \A g \in guards : Held(g.cell)' <=> Held(g.cell)
      BY <1>1, <1>4, Typed
    <2>2. \A g \in guards : g.via # Bare => \E v \in writers' : v.cells = g.via
      BY <1>1 DEF Borrows
    <2> QED
      BY <1>1, <2>1, <2>2 DEF Borrows, scopeVars, permitVars
  <1>8. Homes'
    BY <1>1 DEF Homes, SendCell, SyncCell, SyncAlone, scopeVars
  <1>9. Knowledge' /\ NoDataRace'
    <2>1. /\ Follows(Root, Root', w.thread, {keeper[first]})
          /\ Follows(Side, Side', w.thread, {keeper[first]})
      <3>1. CASE TheCell \in w.cells
        BY <1>2, <1>4, <3>1, HeldRoot DEF Follows
      <3>2. CASE TheCell \notin w.cells
        BY <1>4, <3>2, SameFollows
      <3> QED
        BY <3>1, <3>2
    <2> QED
      BY <1>1, <1>3, <2>1, CellsFollow
  <1> QED
    BY <1>4, <1>5, <1>6, <1>7, <1>8, <1>9

----------------------------------------------------------------------------
(* New guards.                                                             *)

(* When no exclusive guard is out, who has the cell knows of the last      *)
(* write, and so does who can name it and has a permit; when none is out,  *)
(* they know of the reads too.                                             *)
LEMMA WriteIsKnown ==
    ASSUME Inv, stage[TheBrand] = "open",
           \A g \in guards : g.cell = TheCell => g.mode \in Shared
    PROVE  Root \subseteq knowW /\ Permitted \cap Side \subseteq knowW
  BY DEF Inv, Knowledge, WriteKnown, Settled

(* When no guard of the cell is alive, whoever may write it next knows of  *)
(* every read.                                                             *)
LEMMA ReadsAreKnown ==
    ASSUME Inv, stage[TheBrand] = "open", \A g \in guards : g.cell # TheCell, NEW r \in Threads
    PROVE  Root \subseteq knowR[r] /\ {token[TheBrand]} \cap Side \subseteq knowR[r]
  BY DEF Inv, Knowledge, ReadsKnown, Settled

(* What a program has to see to before it makes guards of mode m.          *)
MayBorrow(S, x, t, m) ==
    /\ S \subseteq Cells /\ x \subseteq Cells /\ t \in Threads
    /\ \A c \in S : stage[BrandOf[c]] = "open"
    /\ x # Bare => S \subseteq x /\ \E w \in writers : w.cells = x
    /\ m = "view" => x # Bare
    /\ m = "mut" => x = Bare /\ \A c \in S : readers[BrandOf[c]] = {}
    /\ m = "own" /\ x = Bare => \A c \in S : lent[c] = {}
    /\ \A g \in guards : g.cell \in S => m \in Shared /\ g.mode \in Shared
    /\ \A c \in S :
          /\ ~SendCell(c) /\ m \notin Shared => t = opener[BrandOf[c]]
          /\ ~SyncAlone(c) /\ m \in Shared =>
                (x = Bare => t = keeper[c]) /\ \A w \in writers : w.cells = x => t = w.thread
    /\ TheCell \in S =>
          t \in knowW /\ (m \notin Shared => \A r \in Threads : t \in knowR[r])

(* New guards, however they were made.                                     *)
LEMMA Borrowed ==
    ASSUME Inv, NEW S, NEW x, NEW t, NEW m \in {"ref", "mut", "own", "view"},
           MayBorrow(S, x, t, m), x = Bare => \A c \in S : ~Held(c),
           AddGuards(WholeGuards(S, x, t, m))
    PROVE  Inv'
  <1> USE DEF Inv
  <1> DEFINE G == WholeGuards(S, x, t, m)
  <1>1. /\ guards' = guards \cup G
        /\ UNCHANGED <<scopeVars, permitVars, cellVars, knowVars>>
    BY DEF AddGuards
  <1>2. /\ G \subseteq Guard
        /\ \A h \in G : /\ h.cell \in S /\ h.thread = t /\ h.mode = m
                        /\ h.via = x /\ h.parts = Parts[h.cell]
        /\ \A h, k \in G : h.cell = k.cell => h = k
    <2>1. S \in SUBSET Cells /\ x \in SUBSET Cells /\ t \in Threads
      BY DEF MayBorrow
    <2>2. AreWhole(G, S, x, t, m)
      BY <2>1, Whole
    <2> HIDE DEF G
    <2> QED
      BY <2>2 DEF AreWhole
  <1> HIDE DEF G
  <1>3. TypeOK' /\ Scopes' /\ Shards'
    BY <1>1, <1>2 DEF TypeOK, Scopes, Shards, scopeVars, permitVars, cellVars, knowVars
  <1>4. Borrows'
    <2>1. \A c : Held(c)' <=> Held(c)
      BY <1>1 DEF Held, cellVars
    <2>2. ASSUME NEW g \in G
          PROVE  /\ stage[BrandOf[g.cell]] = "open"
                 /\ g.parts # {}
                 /\ g.via = Bare => ~Held(g.cell)
                 /\ g.via # Bare => g.cell \in g.via /\ \E w \in writers : w.cells = g.via
                 /\ g.mode = "view" => g.via # Bare
                 /\ g.mode = "mut" => g.via = Bare /\ readers[BrandOf[g.cell]] = {}
                 /\ g.mode = "own" /\ g.via = Bare => lent[g.cell] = {}
      BY <1>2, PartsAssumption DEF MayBorrow
    <2> QED
      BY <1>1, <2>1, <2>2 DEF Borrows, scopeVars, permitVars, cellVars
  <1>5. Exclusion'
    <2>1. ASSUME NEW g \in guards', NEW h \in guards', g # h, g.cell = h.cell
          PROVE  \/ g.mode \in Shared /\ h.mode \in Shared
                 \/ g.mode \notin Shared /\ g.mode = h.mode /\ g.parts \cap h.parts = {}
      <3>1. CASE g \in guards /\ h \in guards
        BY <2>1, <3>1 DEF Exclusion
      <3>2. CASE g \in G \/ h \in G
        BY <1>1, <1>2, <2>1, <3>2 DEF MayBorrow
      <3> QED
        BY <1>1, <3>1, <3>2
    <2> QED
      BY <2>1 DEF Exclusion
  <1>6. Homes'
    BY <1>1, <1>2 DEF MayBorrow, Homes, SendCell, SyncCell, SyncAlone, scopeVars, cellVars
  <1>7. Passes(t, {})
    BY <1>1, NothingPasses
  <1>8. Knowledge'
    <2>1. TheCell' = TheCell /\ TheBrand' = TheBrand /\ Root' = Root /\ Side' = Side
      BY <1>1, SameSides DEF scopeVars, cellVars
    <2>2. Permitted' = Permitted /\ {token[TheBrand]}' = {token[TheBrand]}
      BY <1>1, <2>1 DEF Permitted, permitVars
    <2>3. stage[TheBrand] = "open" => WriteKnown' /\ \A r \in Threads : ReadsKnown(r)'
      BY <1>1, <1>7, <2>1, <2>2, SameFollows, KnowledgeFollows
    <2> QED
      BY <1>1, <2>1, <2>3 DEF Knowledge, scopeVars, knowVars
  <1>9. NoDataRace'
    BY <1>1, <1>2, <1>7, Watched, RaceFollows DEF MayBorrow, scopeVars
  <1> QED
    BY <1>3, <1>4, <1>5, <1>6, <1>8, <1>9

(* The thread that reaches a cell of its brand is on the cell's side.      *)
LEMMA ReachesSide ==
    ASSUME Inv, NEW t \in Threads, NEW x \in Paths(t), Reaches(t, TheCell, x)
    PROVE  t \in Side
  <1>1. CASE x = Bare
    BY <1>1 DEF Reaches, Side
  <1>2. CASE x # Bare
    <2>1. PICK w \in writers : w.thread = t /\ w.cells = x /\ TheCell \in w.cells
      BY <1>2 DEF Paths, Reaches
    <2> QED
      BY <2>1, HeldRoot DEF Inv
  <1> QED
    BY <1>1, <1>2

(* borrow, with a read permit or the token.                                *)
LEMMA BorrowStep ==
    ASSUME Inv, NEW b \in Brands, NEW t \in Threads, NEW S \in Views(b), NEW x \in Paths(t),
           borrow(b, S, x, t)
    PROVE  Inv'
  <1> USE DEF Inv
  <1>1. /\ S \subseteq Cells /\ \A c \in S : BrandOf[c] = b
        /\ t \in readers[b] /\ stage[b] = "open"
        /\ \A c \in S : Reaches(t, c, x) /\ ~Frozen(c, x)
        /\ AddGuards(WholeGuards(S, x, t, "ref"))
    BY DEF Views, CellsOf, borrow, Scopes
  <1>2. x \subseteq Cells /\ (x # Bare => \E w \in writers : w.thread = t /\ w.cells = x)
    BY Typed DEF Paths, Bare
  <1>3. x # Bare => S \subseteq x
    BY <1>1 DEF Reaches
  <1>4. x = Bare => \A c \in S : ~Held(c) /\ (t = keeper[c] \/ t \in lent[c])
    BY <1>1 DEF Reaches
  <1>5. ASSUME NEW g \in guards, g.cell \in S
        PROVE  g.mode \in Shared
    <2>1. g.via = x
      BY <1>1, <1>5, OnePath
    <2>2. g.mode # "own"
      BY <1>1, <1>5, <2>1 DEF Frozen, GuardsOf
    <2>3. g.mode # "mut"
      BY <1>1, <1>5 DEF Borrows
    <2> QED
      BY <2>2, <2>3, Typed DEF Shared
  <1>6. ASSUME NEW c \in S, ~SyncAlone(c)
        PROVE  (x = Bare => t = keeper[c]) /\ \A w \in writers : w.cells = x => t = w.thread
    <2>1. lent[c] = {}
      BY <1>1, <1>6 DEF Homes, SyncCell, SyncAlone
    <2>2. \A w \in writers : w.cells = x => t = w.thread
      BY <1>2 DEF Shards, Bare
    <2> QED
      BY <1>4, <2>1, <2>2
  <1>7. TheCell \in S => t \in knowW
    <2> SUFFICES ASSUME TheCell \in S
                 PROVE  t \in knowW
      OBVIOUS
    <2>1. t \in Permitted
      BY <1>1 DEF Permitted, TheBrand
    <2>2. t \in Side
      BY <1>1, ReachesSide
    <2>3. stage[TheBrand] = "open"
      BY <1>1 DEF TheBrand
    <2> QED
      BY <1>5, <2>1, <2>2, <2>3, WriteIsKnown
  <1>8. MayBorrow(S, x, t, "ref")
    BY <1>1, <1>2, <1>3, <1>5, <1>6, <1>7 DEF MayBorrow, Shared
  <1> QED
    BY <1>1, <1>4, <1>8, Borrowed

(* borrow_mut, with the token.                                             *)
LEMMA BorrowMutStep ==
    ASSUME ~ShardCellsWritten,
           Inv, NEW b \in Brands, NEW t \in Threads, NEW S \in Views(b), NEW x \in Paths(t),
           borrow_mut(b, S, x, t)
    PROVE  Inv'
  <1> USE DEF Inv
  <1>1. /\ S \subseteq Cells /\ \A c \in S : BrandOf[c] = b
        /\ token[b] = t /\ stage[b] = "open" /\ readers[b] = {} /\ x = Bare
        /\ \A c \in S : Reaches(t, c, x) /\ ~Frozen(c, x)
        /\ AddGuards(WholeGuards(S, x, t, "mut"))
    BY NoThread DEF Views, CellsOf, borrow_mut, Scopes, TokenUnborrowed
  <1>2. \A c \in S : ~Held(c) /\ (t = keeper[c] \/ t \in lent[c])
    BY <1>1 DEF Reaches
  <1>3. ASSUME NEW g \in guards
        PROVE  g.cell \notin S
    <2> SUFFICES ASSUME g.cell \in S
                 PROVE  FALSE
      OBVIOUS
    <2>1. g.via = Bare
      BY <1>1, OnePath
    <2>2. g.mode # "own"
      BY <1>1, <2>1 DEF Frozen, GuardsOf
    <2>3. g.mode # "view"
      BY <2>1 DEF Borrows
    <2>4. g.mode \in {"own", "view"}
      BY <1>1 DEF borrow_mut, TokenUnborrowed, Tokenless
    <2> QED
      BY <2>2, <2>3, <2>4
  <1>4. \A c \in S : ~SendCell(c) => t = opener[BrandOf[c]]
    BY <1>1, <1>2 DEF Homes, SendCell, SyncCell
  <1>5. TheCell \in S => t \in knowW /\ \A r \in Threads : t \in knowR[r]
    <2> SUFFICES ASSUME TheCell \in S
                 PROVE  t \in knowW /\ \A r \in Threads : t \in knowR[r]
      OBVIOUS
    <2>1. t = token[TheBrand] /\ t \in Permitted /\ stage[TheBrand] = "open"
      BY <1>1 DEF Permitted, TheBrand
    <2>2. t \in Side
      BY <1>1, ReachesSide
    <2> QED
      BY <1>3, <2>1, <2>2, WriteIsKnown, ReadsAreKnown
  <1>6. MayBorrow(S, x, t, "mut")
    BY <1>1, <1>3, <1>4, <1>5 DEF MayBorrow, Shared, Bare
  <1> QED
    BY <1>1, <1>2, <1>6, Borrowed

(* get_mut, with the cell to itself.                                       *)
LEMMA GetMutStep ==
    ASSUME Inv, NEW c \in Cells, NEW t \in Threads, get_mut(c, t)
    PROVE  Inv'
  <1> USE DEF Inv
  <1>1. /\ keeper[c] = t /\ lent[c] = {} /\ ~Held(c) /\ stage[BrandOf[c]] = "open"
        /\ \A g \in guards : g.cell # c
        /\ AddGuards(WholeGuards({c}, Bare, t, "own"))
    BY NoThread DEF get_mut, Unborrowed, GuardsOf, Scopes
  <1>2. ~SendCell(c) => t = opener[BrandOf[c]]
    BY <1>1 DEF Homes
  <1>3. TheCell = c => t \in knowW /\ \A r \in Threads : t \in knowR[r]
    <2> SUFFICES ASSUME TheCell = c
                 PROVE  t \in knowW /\ \A r \in Threads : t \in knowR[r]
      OBVIOUS
    <2>1. t \in Root /\ stage[TheBrand] = "open"
      BY <1>1 DEF Root, TheBrand
    <2> QED
      BY <1>1, <2>1, WriteIsKnown, ReadsAreKnown
  <1>4. MayBorrow({c}, Bare, t, "own")
    BY <1>1, <1>2, <1>3 DEF MayBorrow, Shared, Bare
  <1> QED
    BY <1>1, <1>4, Borrowed

(* as_slice of a shard.                                                    *)
LEMMA AsSliceStep ==
    ASSUME Inv, NEW w \in writers, as_slice(w)
    PROVE  Inv'
  <1> USE DEF Inv
  <1> DEFINE S == w.cells
             t == w.thread
  <1>1. /\ S \subseteq Cells /\ t \in Threads /\ S # Bare
        /\ \A c \in S : stage[BrandOf[c]] = "open" /\ ~Frozen(c, S)
        /\ AddGuards(WholeGuards(S, S, t, "view"))
    BY Typed DEF as_slice, Shards, Bare
  <1>2. ASSUME NEW g \in guards, g.cell \in S
        PROVE  g.mode \in Shared
    <2>1. g.via = S
      BY <1>2, OnePath
    <2>2. g.mode # "own"
      BY <1>1, <1>2, <2>1 DEF Frozen, GuardsOf
    <2>3. g.mode # "mut"
      BY <1>1, <2>1 DEF Borrows
    <2> QED
      BY <2>2, <2>3, Typed DEF Shared
  <1>3. \A v \in writers : v.cells = S => t = v.thread
    BY DEF Shards
  <1>4. TheCell \in S => t \in knowW
    <2> SUFFICES ASSUME TheCell \in S
                 PROVE  t \in knowW
      OBVIOUS
    <2>1. t \in Root /\ stage[TheBrand] = "open"
      BY <1>1, HeldRoot DEF TheBrand
    <2> QED
      BY <1>2, <2>1, WriteIsKnown
  <1> HIDE DEF S, t
  <1>5. MayBorrow(S, S, t, "view")
    BY <1>1, <1>2, <1>3, <1>4 DEF MayBorrow, Shared, S
  <1> QED
    BY <1>1, <1>5, Borrowed

(* A thread that has an idle shard may take exclusive guards.              *)
LEMMA IdleMayBorrow ==
    ASSUME Inv, NEW w \in writers, Idle(w)
    PROVE  /\ MayBorrow(w.cells, w.cells, w.thread, "own")
           /\ w.cells # Bare /\ w.cells \subseteq Cells /\ w.thread \in Threads
           /\ \A g \in guards : g.cell \notin w.cells /\ g.via # w.cells
           /\ TheCell \in w.cells =>
                 w.thread \in knowW /\ \A r \in Threads : w.thread \in knowR[r]
  <1> USE DEF Inv
  <1> DEFINE S == w.cells
             t == w.thread
  <1>1. /\ S \subseteq Cells /\ t \in Threads /\ S # Bare
        /\ \A c \in S : stage[BrandOf[c]] = "open"
        /\ \A g \in guards : g.cell \notin S /\ g.via # S
    BY Typed, IdleShard DEF Shards, Bare, Idle
  <1>2. \A c \in S : ~SendCell(c) => t = opener[BrandOf[c]]
    BY DEF Homes
  <1>3. TheCell \in S => t \in knowW /\ \A r \in Threads : t \in knowR[r]
    <2> SUFFICES ASSUME TheCell \in S
                 PROVE  t \in knowW /\ \A r \in Threads : t \in knowR[r]
      OBVIOUS
    <2>1. t \in Root /\ stage[TheBrand] = "open"
      BY <1>1, HeldRoot DEF TheBrand
    <2> QED
      BY <1>1, <2>1, WriteIsKnown, ReadsAreKnown
  <1>4. MayBorrow(S, S, t, "own")
    BY <1>1, <1>2, <1>3 DEF MayBorrow, Shared
  <1> QED
    BY <1>1, <1>3, <1>4

(* as_mut_slice of a shard.                                                *)
LEMMA AsMutSliceStep ==
    ASSUME Inv, NEW w \in writers, as_mut_slice(w)
    PROVE  Inv'
  BY IdleMayBorrow, Borrowed DEF as_mut_slice

(* The guards of into_mut_slice borrow the bare cells: the shard is gone.  *)
LEMMA IntoMutSliceStep ==
    ASSUME Inv, NEW w \in writers, into_mut_slice(w)
    PROVE  Inv'
  <1> USE DEF Inv
  <1> DEFINE S == w.cells
             t == w.thread
             G == WholeGuards(S, Bare, t, "own")
  <1>1. /\ guards' = guards \cup G /\ writers' = writers \ {w} /\ Idle(w)
        /\ UNCHANGED <<scopeVars, permitVars, keeper, lent, knowVars>>
    BY DEF into_mut_slice
  <1>2. /\ MayBorrow(S, S, t, "own")
        /\ S # Bare /\ S \in SUBSET Cells /\ t \in Threads
        /\ \A g \in guards : g.cell \notin S /\ g.via # S
        /\ TheCell \in S => t \in knowW /\ \A r \in Threads : t \in knowR[r]
    BY <1>1, IdleMayBorrow
  <1>3. /\ G \subseteq Guard
        /\ \A h \in G : /\ h.cell \in S /\ h.thread = t /\ h.mode = "own"
                        /\ h.via = Bare /\ h.parts = Parts[h.cell]
        /\ \A h, k \in G : h.cell = k.cell => h = k
        /\ \A c \in S : \E h \in G : h.cell = c
    <2>1. Bare \in SUBSET Cells
      BY DEF Bare
    <2> HIDE DEF S, t
    <2>2. AreWhole(G, S, Bare, t, "own")
      BY <1>2, <2>1, Whole
    <2> HIDE DEF G
    <2> QED
      BY <2>2 DEF AreWhole
  <1>4. /\ writers' \subseteq Writer /\ Scopes' /\ Shards'
        /\ \A c \in Cells : Held(c)' <=> Held(c) /\ c \notin S
        /\ TheCell' = TheCell /\ TheBrand' = TheBrand
        /\ TheCell \notin S => Root' = Root /\ Side' = Side
    BY <1>1, ShardGone
  <1>5. \A c \in S : lent[c] = {} /\ stage[BrandOf[c]] = "open"
    BY DEF Shards
  <1> HIDE DEF G, S, t
  <1>6. TypeOK'
    BY <1>1, <1>3, <1>4 DEF TypeOK, scopeVars, permitVars, knowVars
  <1>7. Borrows'
    <2>1. ASSUME NEW g \in guards
          PROVE  /\ g.via = Bare => ~Held(g.cell)'
                 /\ g.via # Bare => g.cell \in g.via /\ \E v \in writers' : v.cells = g.via
      BY <1>1, <1>2, <1>4, Typed DEF Borrows, S
    <2>2. ASSUME NEW g \in G
          PROVE  /\ stage[BrandOf[g.cell]] = "open"
                 /\ g.parts # {} /\ ~Held(g.cell)' /\ lent[g.cell] = {}
      BY <1>2, <1>3, <1>4, <1>5, PartsAssumption
    <2> QED
      BY <1>1, <1>3, <2>1, <2>2 DEF Borrows, scopeVars, permitVars
  <1>8. Exclusion'
    <2>1. ASSUME NEW g \in guards', NEW h \in guards', g # h, g.cell = h.cell
          PROVE  \/ g.mode \in Shared /\ h.mode \in Shared
                 \/ g.mode \notin Shared /\ g.mode = h.mode /\ g.parts \cap h.parts = {}
      <3>1. CASE g \in guards /\ h \in guards
        BY <2>1, <3>1 DEF Exclusion
      <3>2. CASE g \in G \/ h \in G
        BY <1>1, <1>2, <1>3, <2>1, <3>2
      <3> QED
        BY <1>1, <3>1, <3>2
    <2> QED
      BY <2>1 DEF Exclusion
  <1>9. Homes'
    <2>1. \A g \in G : /\ g.mode \notin Shared
                       /\ ~SendCell(g.cell) => g.thread = opener[BrandOf[g.cell]]
      BY <1>2, <1>3 DEF MayBorrow, Shared
    <2> QED
      BY <1>1, <2>1 DEF Homes, SendCell, SyncCell, SyncAlone, scopeVars
  <1>10. Passes(t, {})
    BY <1>1, NothingPasses
  <1>11. NoDataRace'
    BY <1>1, <1>2, <1>3, <1>10, Watched, RaceFollows DEF scopeVars
  <1>12. Knowledge'
    <2>1. Permitted' = Permitted /\ {token[TheBrand]}' = {token[TheBrand]}
      BY <1>1, <1>4 DEF Permitted, permitVars
    <2>2. CASE TheCell \notin S
      <3>1. stage[TheBrand] = "open" => WriteKnown' /\ \A r \in Threads : ReadsKnown(r)'
        BY <1>1, <1>4, <1>10, <2>1, <2>2, SameFollows, KnowledgeFollows
      <3> QED
        BY <1>1, <1>4, <3>1 DEF Knowledge, scopeVars, knowVars
    <2>3. CASE TheCell \in S
      <3>1. PICK h \in G : h.cell = TheCell
        BY <1>3, <2>3
      <3>2. h \in guards' /\ h.mode \notin Shared /\ h.thread = t
        BY <1>1, <1>3 DEF Shared
      <3>3. t \in knowW' /\ \A r \in Threads : t \in knowR'[r]
        BY <1>1, <1>2, <2>3 DEF knowVars
      <3>4. WriteKnown' /\ \A r \in Threads : ReadsKnown(r)'
        BY <1>4, <3>1, <3>2, <3>3 DEF WriteKnown, ReadsKnown
      <3>5. stage[TheBrand] = "open"
        BY <1>5, <2>3 DEF TheBrand
      <3> QED
        BY <1>1, <1>4, <3>4, <3>5 DEF Knowledge, scopeVars
    <2> QED
      BY <2>2, <2>3
  <1> QED
    BY <1>4, <1>6, <1>7, <1>8, <1>9, <1>11, <1>12

----------------------------------------------------------------------------
(* Guards change.  A guard is replaced by pieces of itself, which may go   *)
(* to another thread when the payload may.                                 *)
Replaces(H, g, V) ==
    /\ H \subseteq Guard /\ H # {}
    /\ \A h \in H : /\ h.cell = g.cell /\ h.mode = g.mode /\ h.via = g.via
                    /\ h.parts \subseteq g.parts /\ h.parts # {}
                    /\ \/ h.thread = g.thread
                       \/ /\ h.thread \in V
                          /\ g.mode \in Shared => SyncAlone(g.cell)
                          /\ g.mode \notin Shared => SendCell(g.cell)
    /\ \A h, k \in H : h # k => h.parts \cap k.parts = {}

(* A guard replaced by guards that cover no more than it did.              *)
LEMMA Replaced ==
    ASSUME Inv, NEW g \in guards, NEW H, NEW V, Passes(g.thread, V),
           guards' = (guards \ {g}) \cup H,
           UNCHANGED <<scopeVars, permitVars, cellVars>>,
           Replaces(H, g, V)
    PROVE  Inv'
  <1> USE DEF Inv, Replaces
  <1>1. TypeOK' /\ Scopes' /\ Shards'
    BY DEF TypeOK, Scopes, Shards, scopeVars, permitVars, cellVars, Passes
  <1>2. Borrows'
    <2>1. \A c : Held(c)' <=> Held(c)
      BY DEF Held, cellVars
    <2> QED
      BY <2>1 DEF Borrows, scopeVars, permitVars, cellVars
  <1>3. Exclusion'
    <2>1. ASSUME NEW h \in guards', NEW k \in guards', h # k, h.cell = k.cell
          PROVE  \/ h.mode \in Shared /\ k.mode \in Shared
                 \/ h.mode \notin Shared /\ h.mode = k.mode /\ h.parts \cap k.parts = {}
      <3>1. CASE h \in guards \ {g} /\ k \in guards \ {g}
        BY <2>1, <3>1 DEF Exclusion
      <3>2. CASE h \in H /\ k \in H
        BY <2>1, <3>2
      <3>3. CASE h \in H /\ k \in guards \ {g}
        BY <2>1, <3>3 DEF Exclusion
      <3>4. CASE k \in H /\ h \in guards \ {g}
        BY <2>1, <3>4 DEF Exclusion
      <3> QED
        BY <3>1, <3>2, <3>3, <3>4
    <2> QED
      BY <2>1 DEF Exclusion
  <1>4. Homes'
    <2>1. ASSUME NEW h \in H
          PROVE  /\ ~SendCell(h.cell) /\ h.mode \notin Shared => h.thread = opener[BrandOf[h.cell]]
                 /\ ~SyncAlone(h.cell) /\ h.mode \in Shared =>
                       /\ h.via = Bare => h.thread = keeper[h.cell]
                       /\ \A w \in writers : w.cells = h.via => h.thread = w.thread
      BY DEF Homes
    <2> QED
      BY <2>1 DEF Homes, SendCell, SyncCell, SyncAlone, scopeVars, cellVars
  <1>5. Knowledge'
    <2>1. TheCell' = TheCell /\ TheBrand' = TheBrand /\ Root' = Root /\ Side' = Side
      BY SameSides DEF scopeVars, cellVars
    <2>2. Permitted' = Permitted /\ {token[TheBrand]}' = {token[TheBrand]}
      BY <2>1 DEF Permitted, permitVars
    <2>3. \A k \in guards : k.cell = TheCell =>
              \E h \in guards' : /\ h.cell = TheCell
                                 /\ k.mode \notin Shared => h.mode \notin Shared
                                 /\ h.thread = k.thread \/ (g.thread = k.thread /\ h.thread \in V)
      OBVIOUS
    <2>4. stage[TheBrand] = "open" => WriteKnown' /\ \A r \in Threads : ReadsKnown(r)'
      <3>1. TypeOK /\ Knowledge
        OBVIOUS
      <3> HIDE DEF Inv, Replaces
      <3>2. /\ Follows(Root, Root', g.thread, V) /\ Follows(Side, Side', g.thread, V)
            /\ Follows(Permitted, Permitted', g.thread, V)
            /\ Follows({token[TheBrand]}, {token[TheBrand]}', g.thread, V)
        BY <2>1, <2>2, SameFollows
      <3> QED
        BY <2>1, <2>3, <3>1, <3>2, KnowledgeFollows, ZenonT(30)
    <2>5. stage[TheBrand] = "fresh" => knowW' = Threads /\ \A r \in Threads : knowR'[r] = Threads
      <3>1. Knowledge
        OBVIOUS
      <3> HIDE DEF Inv, Replaces
      <3>2. /\ knowW \subseteq knowW' /\ knowW' \subseteq Threads
            /\ \A r \in Threads : knowR[r] \subseteq knowR'[r] /\ knowR'[r] \subseteq Threads
        BY DEF Passes
      <3> QED
        BY <3>1, <3>2 DEF Knowledge
    <2> QED
      BY <2>1, <2>4, <2>5 DEF Knowledge, scopeVars
  <1>6. NoDataRace'
    BY Watched, RaceFollows DEF scopeVars
  <1> QED
    BY <1>1, <1>2, <1>3, <1>4, <1>5, <1>6

(* map projects a guard.                                                   *)
LEMMA MapStep ==
    ASSUME Inv, NEW g \in guards, NEW p \in g.parts, map(g, p)
    PROVE  Inv'
  <1> DEFINE h == [g EXCEPT !.parts = {p}]
             H == {h}
  <1>1. /\ h \in Guard /\ h.cell = g.cell /\ h.mode = g.mode /\ h.via = g.via
        /\ h.thread = g.thread /\ h.parts = {p}
    BY Typed, Narrowed DEF Inv
  <1>2. guards' = (guards \ {g}) \cup H /\ UNCHANGED <<scopeVars, permitVars, cellVars>>
    BY DEF map
  <1>3. Passes(g.thread, {})
    BY NothingPasses DEF Inv, map
  <1> HIDE DEF h
  <1>4. H \in SUBSET Guard /\ H # {} /\ \A k \in H : k = h
    BY <1>1
  <1> HIDE DEF H
  <1>5. Replaces(H, g, {})
    BY <1>1, <1>4 DEF Replaces
  <1> QED
    BY <1>2, <1>3, <1>5, Replaced

(* map_split divides a guard.                                              *)
LEMMA MapSplitStep ==
    ASSUME Inv, NEW g \in guards, map_split(g)
    PROVE  Inv'
  <1> DEFINE half(p) == [g EXCEPT !.parts = {p}]
             H == {half(p) : p \in g.parts}
  <1>1. \A p \in g.parts :
            /\ half(p) \in Guard /\ half(p).cell = g.cell /\ half(p).mode = g.mode
            /\ half(p).via = g.via /\ half(p).thread = g.thread /\ half(p).parts = {p}
    BY Typed, Narrowed DEF Inv
  <1>2. guards' = (guards \ {g}) \cup H /\ UNCHANGED <<scopeVars, permitVars, cellVars>>
    BY DEF map_split, Halves
  <1>3. Passes(g.thread, {})
    BY NothingPasses DEF Inv, map_split
  <1>4. g.parts # {}
    BY DEF Inv, Borrows
  <1> HIDE DEF half
  <1>5. H \in SUBSET Guard /\ H # {} /\ \A k \in H : \E p \in g.parts : k = half(p)
    BY <1>1, <1>4
  <1> HIDE DEF H
  <1>6. Replaces(H, g, {})
    BY <1>1, <1>5 DEF Replaces
  <1> QED
    BY <1>2, <1>3, <1>6, Replaced

(* A guard moves to another thread.                                        *)
LEMMA MoveGuardStep ==
    ASSUME Inv, NEW g \in guards, NEW u \in Threads, MoveGuard(g, u)
    PROVE  Inv'
  <1> DEFINE h == [g EXCEPT !.thread = u]
             H == {h}
  <1>1. /\ h \in Guard /\ h.cell = g.cell /\ h.mode = g.mode /\ h.via = g.via
        /\ h.thread = u /\ h.parts = g.parts
    BY Typed, Moved DEF Inv
  <1>2. guards' = (guards \ {g}) \cup H /\ UNCHANGED <<scopeVars, permitVars, cellVars>>
    BY DEF MoveGuard
  <1>3. Passes(g.thread, {u})
    BY SyncPasses DEF Inv, MoveGuard
  <1>4. /\ g.mode \in Shared => SyncAlone(g.cell)
        /\ g.mode \notin Shared => SendCell(g.cell)
    BY DEF MoveGuard, SyncAlone, SendCell
  <1>5. g.parts # {}
    BY DEF Inv, Borrows
  <1> HIDE DEF h
  <1>6. H \in SUBSET Guard /\ H # {} /\ \A k \in H : k = h
    BY <1>1
  <1> HIDE DEF H
  <1>7. Replaces(H, g, {u})
    BY <1>1, <1>4, <1>5, <1>6 DEF Replaces
  <1> QED
    BY <1>2, <1>3, <1>7, Replaced

(* Reads and writes: the guard carries them.                               *)
LEMMA DerefStep ==
    ASSUME Inv, NEW g \in guards, deref(g)
    PROVE  Inv'
  <1> USE DEF Inv
  <1>1. /\ knowR' = [knowR EXCEPT ![g.thread] = {g.thread}] /\ watched \in Covers(g)
        /\ UNCHANGED <<scopeVars, permitVars, cellVars, guards, knowW>>
    BY DEF deref
  <1>2. g.thread \in Threads /\ g.cell = TheCell /\ watched[2] \in g.parts
    BY <1>1, Typed, Watched
  <1>3. TypeOK'
    BY <1>1, <1>2 DEF TypeOK, scopeVars, permitVars, cellVars
  <1>4. Scopes' /\ Shards' /\ Exclusion'
    BY <1>1 DEF Scopes, Shards, Exclusion, scopeVars, permitVars, cellVars
  <1>5. Borrows' /\ Homes'
    BY <1>1 DEF Borrows, Held, Homes, SendCell, SyncCell, SyncAlone,
       scopeVars, permitVars, cellVars
  <1>6. /\ TheCell' = TheCell /\ TheBrand' = TheBrand /\ Root' = Root /\ Side' = Side
        /\ Permitted' = Permitted
    BY <1>1, SameSides DEF scopeVars, permitVars, cellVars, Permitted, TheBrand, TheCell
  <1>7. stage[TheBrand] = "open"
    BY <1>2 DEF Borrows, TheBrand
  <1>8. WriteKnown'
    BY <1>1, <1>6, <1>7 DEF Knowledge, WriteKnown, Settled
  <1>9. ASSUME NEW r \in Threads
        PROVE  ReadsKnown(r)'
    <2>1. CASE r = g.thread
      BY <1>1, <1>2, <1>6, <2>1 DEF TypeOK, ReadsKnown
    <2>2. CASE r # g.thread
      <3>1. knowR'[r] = knowR[r]
        BY <1>1, <2>2 DEF TypeOK
      <3> QED
        BY <1>1, <1>6, <1>7, <3>1 DEF Knowledge, ReadsKnown, Settled, permitVars
    <2> QED
      BY <2>1, <2>2
  <1>10. Knowledge'
    BY <1>1, <1>6, <1>7, <1>8, <1>9 DEF Knowledge, scopeVars
  <1>11. NoDataRace'
    <2>1. ASSUME NEW h \in guards, watched \in Covers(h), h.mode \notin Shared,
                 NEW r \in Threads
          PROVE  h.thread \in knowR'[r]
      <3>1. h.cell = TheCell /\ watched[2] \in h.parts
        BY <2>1, Watched
      <3>2. h = g
        BY <1>2, <2>1, <3>1 DEF Exclusion
      <3>3. h.thread \in knowR[r]
        BY <2>1 DEF NoDataRace
      <3> QED
        BY <1>1, <3>2, <3>3 DEF TypeOK
    <2> QED
      BY <1>1, <2>1 DEF NoDataRace, Covers, scopeVars
  <1> QED
    BY <1>3, <1>4, <1>5, <1>10, <1>11

(* An access through a guard.                                              *)
LEMMA DerefMutStep ==
    ASSUME Inv, NEW g \in guards, deref_mut(g)
    PROVE  Inv'
  <1> USE DEF Inv
  <1>1. /\ knowW' = {g.thread} /\ knowR' = [r \in Threads |-> Threads]
        /\ watched \in Covers(g) /\ g.mode \notin Shared
        /\ UNCHANGED <<scopeVars, permitVars, cellVars, guards>>
    BY DEF deref_mut
  <1>2. g.thread \in Threads /\ g.cell = TheCell /\ watched[2] \in g.parts
    BY <1>1, Typed, Watched
  <1>3. TypeOK'
    BY <1>1, <1>2 DEF TypeOK, scopeVars, permitVars, cellVars
  <1>4. Scopes' /\ Shards' /\ Exclusion'
    BY <1>1 DEF Scopes, Shards, Exclusion, scopeVars, permitVars, cellVars
  <1>5. Borrows' /\ Homes'
    BY <1>1 DEF Borrows, Held, Homes, SendCell, SyncCell, SyncAlone,
       scopeVars, permitVars, cellVars
  <1>6. TheCell' = TheCell /\ TheBrand' = TheBrand
    BY <1>1 DEF scopeVars, TheBrand, TheCell
  <1>7. stage[TheBrand] = "open"
    BY <1>2 DEF Borrows, TheBrand
  <1>8. WriteKnown' /\ \A r \in Threads : ReadsKnown(r)'
    BY <1>1, <1>2, <1>6 DEF WriteKnown, ReadsKnown
  <1>9. Knowledge'
    BY <1>1, <1>6, <1>7, <1>8 DEF Knowledge, scopeVars
  <1>10. NoDataRace'
    <2>1. ASSUME NEW h \in guards, watched \in Covers(h)
          PROVE  h = g
      <3>1. h.cell = TheCell /\ watched[2] \in h.parts
        BY <2>1, Watched
      <3> QED
        BY <1>1, <1>2, <3>1 DEF Exclusion
    <2> QED
      BY <1>1, <1>2, <2>1 DEF NoDataRace, Covers, scopeVars
  <1> QED
    BY <1>3, <1>4, <1>5, <1>9, <1>10

(* What a guard kept borrowed is all that has to know of its accesses.     *)
LEMMA LendersSuffice ==
    ASSUME Inv, NEW g \in guards
    PROVE  /\ Lenders(g) \subseteq Threads
           /\ g.cell = TheCell =>
                 /\ Root \subseteq Lenders(g)
                 /\ g.mode \notin Shared => Permitted \subseteq Lenders(g) \/ Side \subseteq Lenders(g)
                 /\ {token[TheBrand]} \subseteq Lenders(g) \/ Side \subseteq Lenders(g)
  <1> USE DEF Inv
  <1> DEFINE b == BrandOf[g.cell]
             shards == {w.thread : w \in {v \in writers : v.cells = g.via}}
  <1>1. /\ b \in Brands /\ stage[b] = "open" /\ token[b] \in Threads
        /\ g.cell \in Cells /\ keeper[g.cell] \in Threads
        /\ g.mode \in {"ref", "mut", "own", "view"}
    BY Typed DEF Borrows, Scopes
  <1>2. shards \subseteq Threads
    BY Typed
  <1>3. Lenders(g) = (IF g.mode \in {"own", "view"} THEN {} ELSE {token[b]})
                        \cup (IF g.via = Bare THEN {keeper[g.cell]} ELSE shards)
    BY DEF Lenders, Tokenless
  <1>4. Lenders(g) \subseteq Threads
    BY <1>1, <1>2, <1>3
  <1>5. ASSUME g.cell = TheCell, g.via = Bare
        PROVE  /\ Root \subseteq Lenders(g)
               /\ g.mode \notin Shared => Permitted \subseteq Lenders(g) \/ Side \subseteq Lenders(g)
               /\ {token[TheBrand]} \subseteq Lenders(g) \/ Side \subseteq Lenders(g)
    <2>1. ~Held(TheCell) /\ g.mode # "view" /\ TheBrand = b
          /\ (g.mode = "mut" => readers[b] = {}) /\ (g.mode = "own" => lent[TheCell] = {})
      BY <1>5 DEF Borrows, TheBrand
    <2>2. Root = {keeper[TheCell]} /\ Side = {keeper[TheCell]} \cup lent[TheCell]
      BY <2>1 DEF Root, Side
    <2> HIDE DEF b
    <2> QED
      BY <1>1, <1>3, <1>5, <2>1, <2>2 DEF Permitted, Shared
  <1>6. ASSUME g.cell = TheCell, g.via # Bare
        PROVE  Root \subseteq Lenders(g) /\ Side \subseteq Lenders(g)
    <2>1. PICK w \in writers : w.cells = g.via /\ TheCell \in w.cells
      BY <1>6 DEF Borrows
    <2>2. Root = {w.thread} /\ Side = {w.thread}
      BY <2>1, HeldRoot
    <2>3. w.thread \in shards
      BY <2>1
    <2> QED
      BY <1>3, <1>6, <2>2, <2>3
  <1> QED
    BY <1>4, <1>5, <1>6

(* A guard is dropped.                                                     *)
LEMMA DropGuardStep ==
    ASSUME Inv, NEW g \in guards, DropGuard(g)
    PROVE  Inv'
  <1> USE DEF Inv
  <1>1. /\ guards' = guards \ {g} /\ UNCHANGED <<scopeVars, permitVars, cellVars>>
    BY DEF DropGuard
  <1>2. Passes(g.thread, Lenders(g))
    BY LendersSuffice, SyncPasses DEF DropGuard
  <1>3. TypeOK'
    BY <1>1, <1>2 DEF TypeOK, scopeVars, permitVars, cellVars, Passes
  <1>4. Scopes' /\ Shards' /\ Exclusion'
    BY <1>1 DEF Scopes, Shards, Exclusion, scopeVars, permitVars, cellVars
  <1>5. Borrows' /\ Homes'
    BY <1>1 DEF Borrows, Held, Homes, SendCell, SyncCell, SyncAlone,
       scopeVars, permitVars, cellVars
  <1>6. NoDataRace'
    BY <1>1, <1>2, RaceFollows DEF scopeVars
  <1>7. /\ TheCell' = TheCell /\ TheBrand' = TheBrand /\ Root' = Root /\ Side' = Side
        /\ Permitted' = Permitted /\ {token[TheBrand]}' = {token[TheBrand]}
    BY <1>1, SameSides DEF scopeVars, permitVars, cellVars, Permitted, TheBrand, TheCell
  <1>8. CASE g.cell # TheCell
    <2>1. stage[TheBrand] = "open" => WriteKnown' /\ \A r \in Threads : ReadsKnown(r)'
      BY <1>1, <1>2, <1>7, <1>8, SameFollows, KnowledgeFollows
    <2>2. stage[TheBrand] = "fresh" => knowW' = Threads /\ \A r \in Threads : knowR'[r] = Threads
      BY <1>2 DEF Knowledge, Passes
    <2> QED
      BY <1>1, <1>3, <1>4, <1>5, <1>6, <1>7, <2>1, <2>2 DEF Knowledge, scopeVars
  <1>9. CASE g.cell = TheCell
    <2>1. /\ Root \subseteq Lenders(g)
          /\ g.mode \notin Shared => Permitted \subseteq Lenders(g) \/ Side \subseteq Lenders(g)
          /\ {token[TheBrand]} \subseteq Lenders(g) \/ Side \subseteq Lenders(g)
      BY <1>9, LendersSuffice
    <2>2. stage[TheBrand] = "open"
      BY <1>9 DEF Borrows, TheBrand
    <2>3. WriteKnown'
      <3>1. CASE Settled(Root, Permitted, Side, knowW)
        BY <1>2, <1>7, <3>1 DEF WriteKnown, Settled, Passes
      <3>2. ASSUME NEW k \in guards, k.cell = TheCell, k.mode \notin Shared, k.thread \in knowW
            PROVE  WriteKnown'
        <4>1. CASE k = g
          BY <1>2, <1>7, <2>1, <3>2, <4>1 DEF WriteKnown, Settled, Passes
        <4>2. CASE k # g
          BY <1>1, <1>2, <1>7, <3>2, <4>2 DEF WriteKnown, Passes
        <4> QED
          BY <4>1, <4>2
      <3> QED
        BY <2>2, <3>1, <3>2 DEF Knowledge, WriteKnown
    <2>4. ASSUME NEW r \in Threads
          PROVE  ReadsKnown(r)'
      <3>1. CASE Settled(Root, {token[TheBrand]}, Side, knowR[r])
        BY <1>2, <1>7, <3>1 DEF ReadsKnown, Settled, Passes
      <3>2. ASSUME NEW k \in guards, k.cell = TheCell, k.thread \in knowR[r]
            PROVE  ReadsKnown(r)'
        <4>1. CASE k = g
          BY <1>2, <1>7, <2>1, <3>2, <4>1 DEF ReadsKnown, Settled, Passes
        <4>2. CASE k # g
          BY <1>1, <1>2, <1>7, <3>2, <4>2 DEF ReadsKnown, Passes
        <4> QED
          BY <4>1, <4>2
      <3> QED
        BY <2>2, <3>1, <3>2 DEF Knowledge, ReadsKnown
    <2> QED
      BY <1>1, <1>3, <1>4, <1>5, <1>6, <1>7, <2>2, <2>3, <2>4 DEF Knowledge, scopeVars
  <1> QED
    BY <1>8, <1>9

----------------------------------------------------------------------------
(* The initial states.                                                     *)
LEMMA InitInv == Init => Inv
  <1> SUFFICES ASSUME Init
               PROVE  Inv
    OBVIOUS
  <1> USE DEF Init
  <1>1. TypeOK
    BY PayloadAssumption DEF TypeOK
  <1>2. Scopes /\ Shards /\ Borrows /\ Exclusion
    BY BrandOfAssumption DEF Scopes, Shards, Borrows, Exclusion
  <1>3. Homes /\ NoDataRace
    BY BrandOfAssumption DEF Homes, NoDataRace
  <1>4. Knowledge
    BY <1>1, Watched DEF Knowledge
  <1> QED
    BY <1>1, <1>2, <1>3, <1>4 DEF Inv

(* Every step, one case per operation.                                     *)
LEMMA NextInv ==
    ASSUME ~ShardCellsWritten
    PROVE  Inv /\ [Next]_vars => Inv'
  <1> SUFFICES ASSUME Inv, [Next]_vars
               PROVE  Inv'
    OBVIOUS
  <1>1. ASSUME NEW b \in Brands, NEW t \in Threads,
               \/ brand_scope(b, t)
               \/ \E u \in Threads : scope_exclusive(b, t, u)
               \/ \E u \in Threads : MoveToken(b, t, u)
               \/ share(b, t)
               \/ \E u \in Threads : CopyPermit(b, t, u)
               \/ DropPermit(b, t)
        PROVE  Inv'
    BY <1>1, MintStep, MoveTokenStep, ShareStep, CopyPermitStep, DropPermitStep
       DEF brand_scope, scope_exclusive
  <1>2. ASSUME NEW b \in Brands, NEW t \in Threads, NEW S \in Views(b), NEW x \in Paths(t),
               borrow(b, S, x, t) \/ borrow_mut(b, S, x, t)
        PROVE  Inv'
    BY <1>2, BorrowStep, BorrowMutStep
  <1>3. ASSUME NEW b \in Brands, NEW t \in Threads, NEW S \in Views(b), new_shard(S, t)
        PROVE  Inv'
    BY <1>3, NewShardStep
  <1>4. ASSUME NEW b \in Brands, End(b)
        PROVE  Inv'
    BY <1>4, EndStep
  <1>5. ASSUME NEW c \in Cells, NEW t \in Threads,
               \/ \E u \in Threads : MoveCell(c, t, u)
               \/ \E u \in Threads : LendCell(c, t, u)
               \/ ReturnCell(c, t)
               \/ get_mut(c, t)
        PROVE  Inv'
    BY <1>5, MoveCellStep, LendCellStep, ReturnCellStep, GetMutStep
  <1>6. ASSUME NEW w \in writers, ShardStep(w)
        PROVE  Inv'
    BY <1>6, SplitStep, MoveShardStep, AsSliceStep, AsMutSliceStep, IntoMutSliceStep,
       IntoCellsStep DEF ShardStep
  <1>7. ASSUME NEW g \in guards, GuardStep(g)
        PROVE  Inv'
    BY <1>7, MapStep, MapSplitStep, MoveGuardStep, DerefStep, DerefMutStep, DropGuardStep
       DEF GuardStep
  <1>8. CASE UNCHANGED vars
    <2> USE <1>8 DEF vars, scopeVars, permitVars, cellVars, knowVars, Inv
    <2>1. TypeOK' /\ Scopes' /\ Shards'
      BY DEF TypeOK, Scopes, Shards
    <2>2. Borrows' /\ Exclusion' /\ Homes'
      BY DEF Borrows, Held, Exclusion, Homes, SendCell, SyncCell, SyncAlone
    <2>3. Knowledge' /\ NoDataRace'
      BY DEF Knowledge, WriteKnown, ReadsKnown, Settled, TheBrand, TheCell, Root, Side, Held,
         Permitted, NoDataRace, Covers
    <2> QED
      BY <2>1, <2>2, <2>3
  <1> QED
    BY <1>1, <1>2, <1>3, <1>4, <1>5, <1>6, <1>7, <1>8 DEF Next

(* The invariant holds of every program that the borrow checker accepts    *)
(* and that does not write through WriterShard::as_cells.                  *)
THEOREM PermitsInvariance ==
    ASSUME ~ShardCellsWritten
    PROVE  Spec => []Inv
  <1>1. Inv /\ [Next]_vars => Inv'
    BY NextInv
  <1> QED
    BY <1>1, InitInv, PTL DEF Spec

(* Tokens, permits and guards stay what they are typed to be.              *)
THEOREM TypeCorrect ==
    ASSUME ~ShardCellsWritten
    PROVE  Spec => []TypeOK
  <1>1. Spec => []Inv
    BY PermitsInvariance
  <1>2. Inv => TypeOK
    BY DEF Inv
  <1> QED
    BY <1>1, <1>2, PTL

(* A live &mut of a component of a payload excludes every other reference  *)
(* to it, whichever way the two were made and on whichever thread.         *)
THEOREM MutIsUnaliased ==
    ASSUME ~ShardCellsWritten
    PROVE  Spec => []NoAliasedMut
  <1>1. Spec => []Inv
    BY PermitsInvariance
  <1>2. Inv => NoAliasedMut
    BY DEF Inv, Exclusion, NoAliasedMut
  <1> QED
    BY <1>1, <1>2, PTL

(* A thread that may read a payload knows of the last write to it, one     *)
(* that may write knows of all reads since: no access races.               *)
THEOREM AccessesAreOrdered ==
    ASSUME ~ShardCellsWritten
    PROVE  Spec => []NoDataRace
  <1>1. Spec => []Inv
    BY PermitsInvariance
  <1>2. Inv => NoDataRace
    BY DEF Inv
  <1> QED
    BY <1>1, <1>2, PTL

(* Where cells, shards and guards may be is where their payloads may be.   *)
LEMMA HomesSuffice == Inv => PayloadStaysWhereItMay
  <1> SUFFICES ASSUME Inv
               PROVE  PayloadStaysWhereItMay
    OBVIOUS
  <1> USE DEF Inv
  <1>1. \A g \in guards : "Send" \notin payload[g.cell] /\ g.mode \notin Shared =>
            g.thread = opener[BrandOf[g.cell]]
    BY DEF Homes, SendCell
  <1>2. ASSUME NEW g \in guards, NEW h \in guards, g.cell = h.cell, g.thread # h.thread,
               g.mode \in Shared, h.mode \in Shared, "Sync" \notin payload[g.cell]
        PROVE  FALSE
    <2>1. g.via = h.via
      BY <1>2, OnePath
    <2>2. CASE g.via = Bare
      <3>1. ~SyncAlone(g.cell) /\ ~SyncAlone(h.cell) /\ h.via = Bare
        BY <1>2, <2>1, <2>2, Zenon DEF SyncAlone
      <3>2. g.thread = keeper[g.cell] /\ h.thread = keeper[h.cell]
        BY <1>2, <2>2, <3>1 DEF Homes
      <3> QED
        BY <1>2, <3>2, Zenon
    <2>3. CASE g.via # Bare
      BY <1>2, <2>1, <2>3 DEF Homes, SyncAlone, Borrows
    <2> QED
      BY <2>2, <2>3
  <1> QED
    BY <1>1, <1>2 DEF PayloadStaysWhereItMay

(* The Send and Sync impls of MelinoeCell are as strict as they have to    *)
(* be, whatever is lent, moved, split or sharded.                          *)
THEOREM PayloadsStay ==
    ASSUME ~ShardCellsWritten
    PROVE  Spec => []PayloadStaysWhereItMay
  <1>1. Spec => []Inv
    BY PermitsInvariance
  <1>2. Inv => PayloadStaysWhereItMay
    BY HomesSuffice
  <1> QED
    BY <1>1, <1>2, PTL
=============================================================================
