------------------------------ MODULE Permits ------------------------------
(***************************************************************************)
(* Brands, tokens, permits, cells and borrow guards:                       *)
(*                                                                         *)
(*   token/           brand_scope, the owner tokens, share, the permits    *)
(*   sync/tokens/     thread_local_scope, sync_region_scope                *)
(*   sync/scoped/     scope_exclusive                                      *)
(*   cell/            MelinoeCell, CellSliceExt, MelinoeRef, MelinoeMut    *)
(*   region/shard.rs  WriterShard                                          *)
(*                                                                         *)
(* Tokens are zero-sized, the discipline is that of the types: who may be  *)
(* given what (auto traits), and what a value keeps borrowed (lifetimes).  *)
(* A behaviour is a run of a program the borrow checker accepts.  Its      *)
(* rules are guards: a value is moved or borrowed mutably only when        *)
(* nothing that carries a borrow of it is alive; handing a value to        *)
(* another thread, or getting it back from there, synchronises the two     *)
(* threads (spawn, join, channel).                                         *)
(*                                                                         *)
(* Accesses of one component of one payload, chosen at the start, are      *)
(* followed by the happens-before relation: which threads know of its last *)
(* write, and which know of the reads of each thread since then.           *)
(***************************************************************************)
EXTENDS Integers, FiniteSets

CONSTANTS
    Threads,
    Brands,
    Cells,
    BrandOf,     \* BrandOf[c]: the brand cell c is typed with
    Family,      \* Family[b]: the token family of the scope that mints b
    Payloads,    \* the assignments of auto traits to the payloads of the cells
    Parts,       \* Parts[c]: the components of the payload of c a program tells apart
    ShardCellsWritten, \* do programs write through WriterShard::as_cells?
    MaxGuards,   \* bound on the borrow guards alive at once
    Null

ASSUME BrandOfAssumption == BrandOf \in [Cells -> Brands]
ASSUME FamilyAssumption == Family \in [Brands -> {"exclusive", "region", "local"}]
ASSUME PayloadAssumption == Payloads \subseteq [Cells -> SUBSET {"Send", "Sync"}]
ASSUME PartsAssumption == \A c \in Cells : Parts[c] # {}
ASSUME ShardCellsAssumption == ShardCellsWritten \in BOOLEAN
ASSUME NoThread == Null \notin Threads

VARIABLES
    payload,   \* payload[c]: the auto traits of the type in c, fixed from the start
    stage,     \* stage[b]: "fresh", "open" or "over"
    caller,    \* the thread that called the scope function of b
    opener,    \* the thread that runs the scope's closure
    token,     \* token[b]: the thread that has the owner token of b
    readers,   \* readers[b]: the threads with a & of the token or a SharedReadToken
    keeper,    \* keeper[c]: the thread that owns cell c
    lent,      \* lent[c]: the other threads that have a & of the cell
    writers,   \* the WriterShards alive: their cells and the thread that has them
    guards,    \* the borrow guards alive
    watched,   \* the location, a component of a payload, whose accesses are followed
    knowW,     \* the threads that know of its last write
    knowR      \* knowR[r]: the threads that know of the reads of r since then

scopeVars == <<payload, watched, stage, caller, opener>>
permitVars == <<token, readers>>
cellVars == <<keeper, lent, writers>>
knowVars == <<knowW, knowR>>
vars == <<scopeVars, permitVars, cellVars, guards, knowVars>>

(* A guard covers components of the payload of a cell.                     *)
(* "ref": MelinoeRef; "mut": MelinoeMut; "own": the &mut T of get_mut or   *)
(* of a shard's as_mut_slice; "view": the & T of a shard's as_slice.       *)
(* `via' is what it borrows: the shard over these cells, or the bare cell. *)
Guard == [cell : Cells, thread : Threads, mode : {"ref", "mut", "own", "view"},
          via : SUBSET Cells,
          parts : SUBSET UNION {Parts[c] : c \in Cells}]
Writer == [cells : SUBSET Cells, thread : Threads]
Location == UNION {{c} \X Parts[c] : c \in Cells}

CellsOf(b) == {c \in Cells : BrandOf[c] = b}
GuardsOf(c) == {g \in guards : g.cell = c}
Held(c) == \E w \in writers : c \in w.cells
Frozen(c, x) == \E g \in GuardsOf(c) : g.via = x /\ g.mode = "own"

Init ==
    /\ payload \in Payloads
    /\ stage = [b \in Brands |-> "fresh"]
    /\ caller = [b \in Brands |-> Null]
    /\ opener = [b \in Brands |-> Null]
    /\ token = [b \in Brands |-> Null]
    /\ readers = [b \in Brands |-> {}]
    /\ keeper = [c \in Cells |-> Null]
    /\ lent = [c \in Cells |-> {}]
    /\ writers = {}
    /\ guards = {}
    /\ watched \in Location
    /\ knowW = Threads
    /\ knowR = [r \in Threads |-> Threads]

----------------------------------------------------------------------------
(* Happens-before.                                                         *)

(* What S becomes when u synchronises with the threads in V.               *)
Learn(S, u, V) == IF u \in S THEN S \cup V ELSE S

Sync(u, V) ==
    /\ knowW' = Learn(knowW, u, V)
    /\ knowR' = [r \in Threads |-> Learn(knowR[r], u, V)]

(* scope_exclusive blocks its caller until the worker is joined.           *)
Runs(t) == \A b \in Brands : stage[b] = "open" /\ caller[b] = t => opener[b] = t

----------------------------------------------------------------------------
(* Scopes.                                                                 *)

(* Mint the one token of a fresh brand on thread u.  brand_scope,          *)
(* sync_region_scope and thread_local_scope run on their caller;           *)
(* scope_exclusive spawns a worker and mints a region token there.         *)
Mint(b, t, u) ==
    /\ stage[b] = "fresh"
    /\ Runs(t)
    /\ Runs(u)
    /\ stage' = [stage EXCEPT ![b] = "open"]
    /\ caller' = [caller EXCEPT ![b] = t]
    /\ opener' = [opener EXCEPT ![b] = u]
    /\ token' = [token EXCEPT ![b] = u]
    /\ keeper' = [c \in Cells |-> IF BrandOf[c] = b THEN u ELSE keeper[c]]
    /\ Sync(t, {u})
    /\ UNCHANGED <<payload, watched, readers, lent, writers, guards>>

brand_scope(b, t) == Mint(b, t, t)
scope_exclusive(b, t, u) == u # t /\ Family[b] = "region" /\ Mint(b, t, u)

(* Everything that carries a borrow of the token of b is gone: its &       *)
(* borrows, the SharedReadTokens, and the guards made with a permit, which *)
(* keep its borrow for as long as they live (the bound P: 'a).             *)
Tokenless == {"own", "view"}
GuardsOnly(b) == \A g \in guards : BrandOf[g.cell] = b => g.mode \in Tokenless
TokenUnborrowed(b) ==
    readers[b] = {} /\ \A g \in guards : BrandOf[g.cell] = b => g.mode \in Tokenless

(* Nothing that carries a borrow of the cell itself is alive.              *)
Unborrowed(c) == lent[c] = {} /\ GuardsOf(c) = {} /\ ~Held(c)

(* The closure of the scope returns or unwinds; token and cells are gone.  *)
(* scope_exclusive joins the worker and returns or resumes its panic.      *)
End(b) ==
    /\ stage[b] = "open"
    /\ Runs(opener[b])
    /\ TokenUnborrowed(b)
    /\ \A c \in CellsOf(b) : Unborrowed(c)
    /\ stage' = [stage EXCEPT ![b] = "over"]
    /\ token' = [token EXCEPT ![b] = Null]
    /\ keeper' = [c \in Cells |-> IF BrandOf[c] = b THEN Null ELSE keeper[c]]
    /\ Sync(opener[b], {caller[b]})
    /\ UNCHANGED <<payload, watched, caller, opener, readers, lent, writers, guards>>

----------------------------------------------------------------------------
(* Tokens and permits.                                                     *)

(* ThreadLocalToken carries a *const () and is neither Send nor Sync.      *)
SendToken(b) == Family[b] # "local"

MoveToken(b, t, u) ==
    /\ token[b] = t
    /\ Runs(t)
    /\ Runs(u)
    /\ u # t
    /\ SendToken(b)
    /\ TokenUnborrowed(b)
    /\ token' = [token EXCEPT ![b] = u]
    /\ Sync(t, {u})
    /\ UNCHANGED <<scopeVars, readers, cellVars, guards>>

(* A read permit: &token, or share() for the families that have it.        *)
share(b, t) ==
    /\ token[b] = t
    /\ Runs(t)
    /\ t \notin readers[b]
    /\ \A g \in guards : BrandOf[g.cell] = b => g.mode # "mut"
    /\ readers' = [readers EXCEPT ![b] = @ \cup {t}]
    /\ UNCHANGED <<scopeVars, token, cellVars, guards, knowVars>>

(* The permit is copied to another thread.                                 *)
CopyPermit(b, t, u) ==
    /\ t \in readers[b]
    /\ Runs(t)
    /\ Runs(u)
    /\ u \notin readers[b]
    /\ SendToken(b)
    /\ readers' = [readers EXCEPT ![b] = @ \cup {u}]
    /\ Sync(t, {u})
    /\ UNCHANGED <<scopeVars, token, cellVars, guards>>

DropPermit(b, t) ==
    /\ t \in readers[b]
    /\ Runs(t)
    /\ readers' = [readers EXCEPT ![b] = @ \ {t}]
    /\ Sync(t, {token[b]})
    /\ UNCHANGED <<scopeVars, token, cellVars, guards>>

----------------------------------------------------------------------------
(* Cells.                                                                  *)

(* A thread can name a cell it owns or has a & of.  While a shard holds    *)
(* the &mut of the cell, only the shard can, by as_cells.                  *)
Bare == {}
Paths(t) == {Bare} \cup {w.cells : w \in {v \in writers : v.thread = t}}
Reaches(t, c, x) ==
    IF x = Bare THEN ~Held(c) /\ (t = keeper[c] \/ t \in lent[c]) ELSE c \in x

SendCell(c) == "Send" \in payload[c]
SyncAlone(c) == "Sync" \in payload[c]
SyncCell(c) == {"Send", "Sync"} \subseteq payload[c]

MoveCell(c, t, u) ==
    /\ keeper[c] = t
    /\ Runs(t)
    /\ Runs(u)
    /\ u # t
    /\ SendCell(c)
    /\ Unborrowed(c)
    /\ keeper' = [keeper EXCEPT ![c] = u]
    /\ Sync(t, {u})
    /\ UNCHANGED <<scopeVars, permitVars, lent, writers, guards>>

(* A & of the cell goes to another thread, and comes back.                 *)
LendCell(c, t, u) ==
    /\ keeper[c] = t
    /\ Runs(t)
    /\ Runs(u)
    /\ u # t
    /\ u \notin lent[c]
    /\ SyncCell(c)
    /\ ~Frozen(c, Bare)
    /\ ~Held(c)
    /\ lent' = [lent EXCEPT ![c] = @ \cup {u}]
    /\ Sync(t, {u})
    /\ UNCHANGED <<scopeVars, permitVars, keeper, writers, guards>>

ReturnCell(c, u) ==
    /\ u \in lent[c]
    /\ Runs(u)
    /\ lent' = [lent EXCEPT ![c] = @ \ {u}]
    /\ Sync(u, {keeper[c]})
    /\ UNCHANGED <<scopeVars, permitVars, keeper, writers, guards>>

----------------------------------------------------------------------------
(* Guards.                                                                 *)

Shared == {"ref", "view"}
WholeGuards(S, x, t, m) ==
    {[cell |-> c, thread |-> t, mode |-> m, via |-> x, parts |-> Parts[c]] : c \in S}

AddGuards(G) ==
    /\ guards' = guards \cup G
    /\ Cardinality(guards') <= MaxGuards
    /\ UNCHANGED <<scopeVars, permitVars, cellVars, knowVars>>

(* MelinoeCell::borrow for one cell, borrow_slice for several.             *)
borrow(b, S, x, t) ==
    /\ t \in readers[b]
    /\ Runs(t)
    /\ \A c \in S : Reaches(t, c, x) /\ ~Frozen(c, x)
    /\ AddGuards(WholeGuards(S, x, t, "ref"))

(* borrow_mut and borrow_slice_mut, with a &mut of the token and a & of    *)
(* the cells; as_cells is documented for reads, and yet gives that &.      *)
borrow_mut(b, S, x, t) ==
    /\ token[b] = t
    /\ Runs(t)
    /\ TokenUnborrowed(b)
    /\ x # Bare => ShardCellsWritten
    /\ \A c \in S : Reaches(t, c, x) /\ ~Frozen(c, x)
    /\ AddGuards(WholeGuards(S, x, t, "mut"))

(* get_mut: a &mut of the cell itself, no token.                           *)
get_mut(c, t) ==
    /\ keeper[c] = t
    /\ Runs(t)
    /\ Unborrowed(c)
    /\ AddGuards(WholeGuards({c}, Bare, t, "own"))

(* map consumes the guard and keeps one component of it ...                *)
map(g, p) ==
    /\ Cardinality(g.parts) > 1
    /\ guards' = (guards \ {g}) \cup {[g EXCEPT !.parts = {p}]}
    /\ UNCHANGED <<scopeVars, permitVars, cellVars, knowVars>>

(* ... map_split makes two guards over disjoint components.                *)
Halves(g) == (guards \ {g}) \cup {[g EXCEPT !.parts = {p}] : p \in g.parts}
map_split(g) ==
    /\ Cardinality(g.parts) = 2
    /\ guards' = Halves(g)
    /\ Cardinality(guards') <= MaxGuards
    /\ UNCHANGED <<scopeVars, permitVars, cellVars, knowVars>>

(* A guard is a reference: it may travel where &T or &mut T may.           *)
MoveGuard(g, u) ==
    /\ u # g.thread
    /\ Runs(u)
    /\ (IF g.mode \in Shared THEN "Sync" ELSE "Send") \in payload[g.cell]
    /\ guards' = (guards \ {g}) \cup {[g EXCEPT !.thread = u]}
    /\ Sync(g.thread, {u})
    /\ UNCHANGED <<scopeVars, permitVars, cellVars>>

(* The payload is read ...                                                 *)
Covers(g) == {g.cell} \X g.parts

deref(g) ==
    /\ watched \in Covers(g)
    /\ knowR' = [knowR EXCEPT ![g.thread] = {g.thread}]
    /\ UNCHANGED <<scopeVars, permitVars, cellVars, guards, knowW>>

(* ... or written.                                                         *)
deref_mut(g) ==
    /\ watched \in Covers(g)
    /\ g.mode \notin Shared
    /\ knowW' = {g.thread}
    /\ knowR' = [r \in Threads |-> Threads]
    /\ UNCHANGED <<scopeVars, permitVars, cellVars, guards>>

(* The last use of a guard happens before whatever it kept borrowed is     *)
(* used again: the token of its permit, and the shard or the cell.         *)
Lenders(g) ==
    (IF g.mode \in Tokenless THEN {} ELSE {token[BrandOf[g.cell]]})
        \cup (IF g.via = Bare THEN {keeper[g.cell]}
                              ELSE {w.thread : w \in {v \in writers : v.cells = g.via}})

DropGuard(g) ==
    /\ guards' = guards \ {g}
    /\ Sync(g.thread, Lenders(g))
    /\ UNCHANGED <<scopeVars, permitVars, cellVars>>

GuardStep(g) ==
    /\ Runs(g.thread)
    /\ \/ \E p \in g.parts : map(g, p)
       \/ map_split(g)
       \/ \E u \in Threads : MoveGuard(g, u)
       \/ deref(g)
       \/ deref_mut(g)
       \/ DropGuard(g)

----------------------------------------------------------------------------
(* WriterShard: a move-only &mut of some cells.                            *)

Idle(w) == \A g \in guards : g.via # w.cells

(* WriterShard::new, from a &mut of cells the thread owns.                 *)
new_shard(S, t) ==
    /\ Runs(t)
    /\ \A c \in S : keeper[c] = t /\ Unborrowed(c)
    /\ writers' = writers \cup {[cells |-> S, thread |-> t]}
    /\ UNCHANGED <<scopeVars, permitVars, keeper, lent, guards, knowVars>>

(* split_at consumes the shard; one half has the first of the cells.       *)
Overlapping(w) == {[w EXCEPT !.cells = {c}] : c \in w.cells} \cup {w}
Pieces(w) == {[w EXCEPT !.cells = {c}] : c \in w.cells}
split_at(w) ==
    /\ Cardinality(w.cells) = 2
    /\ Idle(w)
    /\ writers' = (writers \ {w}) \cup Pieces(w)
    /\ UNCHANGED <<scopeVars, permitVars, keeper, lent, guards, knowVars>>

(* The shard is Send when its cells are.                                   *)
MoveShard(w, u) ==
    /\ u # w.thread
    /\ Runs(u)
    /\ \A c \in w.cells : SendCell(c)
    /\ Idle(w)
    /\ writers' = (writers \ {w}) \cup {[w EXCEPT !.thread = u]}
    /\ Sync(w.thread, {u})
    /\ UNCHANGED <<scopeVars, permitVars, keeper, lent, guards>>

(* as_slice, get and iter: & T by a & of the shard, without a permit.      *)
as_slice(w) ==
    /\ \A c \in w.cells : ~Frozen(c, w.cells)
    /\ AddGuards(WholeGuards(w.cells, w.cells, w.thread, "view"))

(* as_mut_slice, get_mut and iter_mut: &mut T by a &mut of the shard.      *)
as_mut_slice(w) ==
    /\ Idle(w)
    /\ AddGuards(WholeGuards(w.cells, w.cells, w.thread, "own"))

(* into_mut_slice consumes the shard: the &mut T outlives it ...           *)
into_mut_slice(w) ==
    /\ Idle(w)
    /\ guards' = guards \cup WholeGuards(w.cells, Bare, w.thread, "own")
    /\ Cardinality(guards') <= MaxGuards
    /\ writers' = writers \ {w}
    /\ UNCHANGED <<scopeVars, permitVars, keeper, lent, knowVars>>

(* ... into_cells gives the cells back.                                    *)
into_cells(w) ==
    /\ Idle(w)
    /\ writers' = writers \ {w}
    /\ LET c == CHOOSE c \in w.cells : TRUE IN Sync(w.thread, {keeper[c]})
    /\ UNCHANGED <<scopeVars, permitVars, keeper, lent, guards>>

ShardStep(w) ==
    /\ Runs(w.thread)
    /\ \/ split_at(w)
       \/ \E u \in Threads : MoveShard(w, u)
       \/ as_slice(w)
       \/ as_mut_slice(w)
       \/ into_mut_slice(w)
       \/ into_cells(w)

----------------------------------------------------------------------------
(* One cell, or several of one payload type as a slice.                    *)
Views(b) == {S \in SUBSET CellsOf(b) :
                S # {} /\ \A c, d \in S : payload[c] = payload[d]}

Next ==
    \/ \E b \in Brands, t \in Threads :
          \/ brand_scope(b, t)
          \/ \E u \in Threads : scope_exclusive(b, t, u)
          \/ \E u \in Threads : MoveToken(b, t, u)
          \/ share(b, t)
          \/ \E u \in Threads : CopyPermit(b, t, u)
          \/ DropPermit(b, t)
          \/ \E S \in Views(b), x \in Paths(t) : borrow(b, S, x, t)
          \/ \E S \in Views(b), x \in Paths(t) : borrow_mut(b, S, x, t)
          \/ \E S \in Views(b) : new_shard(S, t)
    \/ \E b \in Brands : End(b)
    \/ \E c \in Cells, t \in Threads :
          \/ \E u \in Threads : MoveCell(c, t, u)
          \/ \E u \in Threads : LendCell(c, t, u)
          \/ ReturnCell(c, t)
          \/ get_mut(c, t)
    \/ \E w \in writers : ShardStep(w)
    \/ \E g \in guards : GuardStep(g)

Spec == Init /\ [][Next]_vars

----------------------------------------------------------------------------
TypeOK ==
    /\ payload \in [Cells -> SUBSET {"Send", "Sync"}]
    /\ stage \in [Brands -> {"fresh", "open", "over"}]
    /\ caller \in [Brands -> Threads \cup {Null}]
    /\ opener \in [Brands -> Threads \cup {Null}]
    /\ token \in [Brands -> Threads \cup {Null}]
    /\ readers \in [Brands -> SUBSET Threads]
    /\ keeper \in [Cells -> Threads \cup {Null}]
    /\ lent \in [Cells -> SUBSET Threads]
    /\ writers \subseteq Writer
    /\ guards \subseteq Guard
    /\ watched \in Location
    /\ knowW \subseteq Threads
    /\ knowR \in [Threads -> SUBSET Threads]

(* MelinoeCell's promise: a live &mut of a component excludes every other  *)
(* reference to it, through whichever token, permit copy, split, slice,    *)
(* shard or owner, and on whichever thread it was made.                    *)
NoAliasedMut ==
    \A g, h \in guards :
        g # h /\ g.cell = h.cell /\ g.parts \cap h.parts # {} =>
            g.mode \in Shared /\ h.mode \in Shared

(* The claim of the safety comment in WriterShard::as_slice: "no `&mut T`  *)
(* to these cells exists while the `&[T]` lives".                          *)
SliceExcludesMut ==
    \A g, h \in guards :
        g.mode = "view" /\ h.mode \notin Shared => Covers(g) \cap Covers(h) = {}

(* Handing tokens, permits, cells and guards around is all the             *)
(* synchronisation there is, and it is enough: a thread that may read a    *)
(* payload knows of the last write, one that may write knows of all reads. *)
NoDataRace ==
    \A g \in guards : watched \in Covers(g) =>
        /\ g.thread \in knowW
        /\ g.mode \notin Shared => \A r \in Threads : g.thread \in knowR[r]

(* The Send and Sync impls of MelinoeCell: a payload that is not Send is   *)
(* written on the thread of its scope only, and one that is not Sync is    *)
(* never read by two threads at once.                                      *)
PayloadStaysWhereItMay ==
    \A g \in guards :
        /\ "Send" \notin payload[g.cell] /\ g.mode \notin Shared =>
              g.thread = opener[BrandOf[g.cell]]
        /\ \A h \in guards :
              g.cell = h.cell /\ g.thread # h.thread /\ {g.mode, h.mode} \subseteq Shared
                  => "Sync" \in payload[g.cell]

(* "neither it nor any cell it governs can be moved to another thread":    *)
(* the documentation of thread_local_scope.                                *)
LocalCellsStay ==
    \A c \in Cells : Family[BrandOf[c]] = "local" => keeper[c] \in {Null, opener[BrandOf[c]]}
=============================================================================
