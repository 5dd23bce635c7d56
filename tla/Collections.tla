----------------------------- MODULE Collections -----------------------------
(***************************************************************************)
(* BrandedVec and BrandedVecDeque (collections/) and the copy-on-write     *)
(* views of their cells (cell/cow.rs), used by one thread.                 *)
(*                                                                         *)
(* A collection is a pair of storage segments, sequences of values.  Only  *)
(* a deque has a second one, and where its storage wraps after an          *)
(* operation is not this crate's choice: every place is possible.          *)
(*                                                                         *)
(* A value is a number, and content[v] what is in it.  `self' is the       *)
(* collection under test, `other' a second one of the same brand, `plain'  *)
(* a Vec or VecDeque without brand.  A value that is moved out to the      *)
(* caller or dropped is released.  Borrows are guards: a Cow::Borrowed     *)
(* keeps the collection and a read permit borrowed, a drain keeps the      *)
(* collection borrowed mutably.                                            *)
(***************************************************************************)
EXTENDS Integers, Sequences, SequencesExt, FiniteSets

CONSTANTS
    MaxValues    \* bound on the values created

ASSUME MaxValuesAssumption == MaxValues \in Nat \ {0}

VARIABLES
    kind,        \* "vec" or "deque"
    self, other, plain,
    created,     \* how many values there have been
    content,     \* content[v]: what is in value v
    released,    \* released[v]: how often v was moved out or dropped
    leaked,      \* the values a forgotten drain left behind
    drain,       \* the drain in progress
    view         \* the Cow alive

heap == <<created, content, released, leaked>>
vars == <<kind, self, other, plain, heap, drain, view>>

Value == 1 .. MaxValues
NoDrain == [open |-> FALSE, firsts |-> << >>, rest |-> << >>, lasts |-> << >>,
            tail |-> << >>, before |-> << >>]
NoView == [kind |-> "None", values |-> << >>, then |-> << >>]
Empty == [front |-> << >>, back |-> << >>]
All(q) == q.front \o q.back
Contents(s) == [k \in 1 .. Len(s) |-> content[s[k]]]

(* The layouts of a collection that holds the sequence s: a Vec has one    *)
(* segment, and as_slices of a VecDeque leaves the first one empty only    *)
(* when both are.                                                          *)
Layouts(s) ==
    LET cut(k) == [front |-> SubSeq(s, 1, k), back |-> SubSeq(s, k + 1, Len(s))]
    IN IF kind = "vec" \/ s = << >>
       THEN {cut(Len(s))}
       ELSE {cut(k) : k \in 1 .. Len(s)}

Init ==
    /\ kind \in {"vec", "deque"}
    /\ self = Empty
    /\ other = Empty
    /\ plain = Empty
    /\ created = 0
    /\ content = [v \in Value |-> 0]
    /\ released = [v \in Value |-> 0]
    /\ leaked = {}
    /\ drain = NoDrain
    /\ view = NoView

----------------------------------------------------------------------------
(* A & of the collection can be had, and a &mut of it.                     *)
Shareable == ~drain.open
Exclusive == ~drain.open /\ view.kind # "Borrowed"

(* n new values.                                                           *)
New(n) == [k \in 1 .. n |-> created + k]
Create(n) == created + n <= MaxValues /\ created' = created + n
Release(S) ==
    released' = [v \in Value |-> released[v] + IF v \in S THEN 1 ELSE 0]

(* An operation on a &mut of the collection that leaves it with s, having  *)
(* given up the values in S.                                               *)
Leaves(s, S) ==
    /\ Exclusive
    /\ self' \in Layouts(s)
    /\ Release(S)
    /\ UNCHANGED <<kind, leaked, drain, view>>

SmallOp(s, S) == Leaves(s, S) /\ UNCHANGED <<other, plain, created, content>>

Cells == All(self)
Places == 1 .. Len(Cells)

(* One value is put in ...                                                 *)
PutAt(k) ==
    /\ Create(1)
    /\ Leaves(InsertAt(Cells, k, created + 1), {})
    /\ UNCHANGED <<other, plain, content>>

push == kind = "vec" /\ PutAt(Len(Cells) + 1)
insert(k) == kind = "vec" /\ PutAt(k)
push_back == kind = "deque" /\ PutAt(Len(Cells) + 1)
push_front == kind = "deque" /\ PutAt(1)

(* ... extend and resize_with of several: the caller's closure or iterator *)
(* may panic after any number of them, and those before it stay.           *)
extend(n) ==
    /\ Create(n)
    /\ Leaves(Cells \o New(n), {})
    /\ UNCHANGED <<other, plain, content>>

(* One value is moved out to the caller; swap_remove fills the hole with   *)
(* the last.                                                               *)
TakeAt(k) == k \in Places /\ SmallOp(RemoveAt(Cells, k), {Cells[k]})
Exchanged(a, b) == [Cells EXCEPT ![a] = Cells[b], ![b] = Cells[a]]

pop == kind = "vec" /\ TakeAt(Len(Cells))
remove(k) == kind = "vec" /\ TakeAt(k)
swap_remove(k) ==
    kind = "vec" /\ SmallOp(Front(Exchanged(k, Len(Cells))), {Cells[k]})
pop_back == kind = "deque" /\ TakeAt(Len(Cells))
pop_front == kind = "deque" /\ TakeAt(1)

swap(a, b) == SmallOp(Exchanged(a, b), {})

(* clear is truncate(0); resize_with to a smaller length truncates.        *)
truncate(n) == SmallOp(SubSeq(Cells, 1, n), ToSet(SubSeq(Cells, n + 1, Len(Cells))))

(* reserve and shrink_to_fit may move the cells.                           *)
Reallocate == SmallOp(Cells, {})

(* A sequence of values that are in the collection, in its order.          *)
InOrder(s) ==
    \A j, k \in 1 .. Len(s) : j < k =>
        \E a, b \in Places : a < b /\ Cells[a] = s[j] /\ Cells[b] = s[k]

(* retain_mut: the closure decides on the first n values and panics at the *)
(* next, if there is one; it may write what it sees.  A panicking closure  *)
(* leaves a Vec without the values rejected so far, and a VecDeque with    *)
(* all of them in some order (alloc's implementation).                     *)
retain_mut(n, Kept, Written) ==
    LET decided == ToSet(SubSeq(Cells, 1, n))
        seen == IF n < Len(Cells) THEN decided \cup {Cells[n + 1]} ELSE decided
        rejected == decided \ Kept
    IN /\ Kept \subseteq decided
       /\ Written \subseteq seen
       /\ content' = [v \in Value |-> IF v \in Written THEN 1 - content[v] ELSE content[v]]
       /\ \/ /\ kind = "vec" \/ n = Len(Cells)
             /\ \E s \in SetToSeqs(ToSet(Cells) \ rejected) :
                   InOrder(s) /\ Leaves(s, rejected)
          \/ /\ kind = "deque"
             /\ n < Len(Cells)
             /\ \E s \in SetToSeqs(ToSet(Cells)) : Leaves(s, {})
       /\ UNCHANGED <<other, plain, created>>

(* A value is written through get_mut, as_mut_slice or as_mut_slices, with *)
(* a write permit and a & of the collection.                               *)
write(k) ==
    /\ Exclusive
    /\ content' = [content EXCEPT ![Cells[k]] = 1 - @]
    /\ UNCHANGED <<kind, self, other, plain, created, released, leaked, drain, view>>

----------------------------------------------------------------------------
(* Between collections.                                                    *)

split_off(n) ==
    /\ other = Empty
    /\ Leaves(SubSeq(Cells, 1, n), {})
    /\ other' \in Layouts(SubSeq(Cells, n + 1, Len(Cells)))
    /\ UNCHANGED <<plain, created, content>>

append ==
    /\ Leaves(Cells \o All(other), {})
    /\ other' = Empty
    /\ UNCHANGED <<plain, created, content>>

(* from_fn, from_iter and with_generated build a collection value by       *)
(* value; when the caller's closure panics the unfinished one is dropped.  *)
from_fn(n, panics) ==
    /\ other = Empty
    /\ Create(n)
    /\ other' \in IF panics THEN {Empty} ELSE Layouts(New(n))
    /\ Release(IF panics THEN ToSet(New(n)) ELSE {})
    /\ UNCHANGED <<kind, self, plain, content, leaked, drain, view>>

(* clone_with clones both segments in order, with a read permit; when a    *)
(* clone panics, those before it are dropped.                              *)
clone_with(n) ==
    /\ Shareable
    /\ other = Empty
    /\ Create(n)
    /\ content' = [v \in Value |-> IF v \in created + 1 .. created + n
                      THEN content[Cells[v - created]] ELSE content[v]]
    /\ IF n = Len(Cells)
       THEN other' \in Layouts(New(n)) /\ UNCHANGED released
       ELSE UNCHANGED other /\ Release(ToSet(New(n)))
    /\ UNCHANGED <<kind, self, plain, leaked, drain, view>>

(* The source of a conversion is put into ManuallyDrop: it is not dropped. *)
DropsSource(q) == ToSet(All(q))
ManuallyDrop(q) == {}

(* The storage is taken over as it is, read as values ...                  *)
IntoPlain ==
    /\ Exclusive
    /\ plain = Empty
    /\ plain' = self
    /\ self' = Empty
    /\ Release(ManuallyDrop(self))
    /\ UNCHANGED <<kind, other, created, content, leaked, drain, view>>

into_vec == kind = "vec" /\ IntoPlain
into_vec_deque == kind = "deque" /\ IntoPlain

(* ... or read as cells.                                                   *)
FromPlain ==
    /\ Exclusive
    /\ Cells = << >>
    /\ self' = plain
    /\ plain' = Empty
    /\ Release(ManuallyDrop(plain))
    /\ UNCHANGED <<kind, other, created, content, leaked, drain, view>>

from_vec == kind = "vec" /\ FromPlain
from_vec_deque == kind = "deque" /\ FromPlain

(* into_iter, into_boxed_cells, or the collection is dropped: its values   *)
(* are the caller's, or gone.                                              *)
Consume == SmallOp(<< >>, ToSet(Cells))
ConsumeOther ==
    /\ other' = Empty
    /\ plain' = Empty
    /\ Release(ToSet(All(other)) \cup ToSet(All(plain)))
    /\ UNCHANGED <<kind, self, created, content, leaked, drain, view>>

----------------------------------------------------------------------------
(* The draining iterators.                                                 *)

(* drain(from .. to): the collection is cut down to what comes before, the *)
(* values after the range wait to be moved back.  `firsts' and `lasts' are *)
(* the values handed out at either end, `before' all there were.           *)
drain_range(from, to) ==
    /\ Exclusive
    /\ from <= to + 1
    /\ self' \in Layouts(SubSeq(Cells, 1, from - 1))
    /\ drain' = [open |-> TRUE, firsts |-> << >>, rest |-> SubSeq(Cells, from, to), lasts |-> << >>,
                 tail |-> SubSeq(Cells, to + 1, Len(Cells)),
                 before |-> Cells]
    /\ UNCHANGED <<kind, other, plain, heap, view>>

Yield(v, d) ==
    /\ drain' = d
    /\ Release({v})
    /\ UNCHANGED <<kind, self, other, plain, created, content, leaked, view>>

next ==
    /\ drain.open
    /\ drain.rest # << >>
    /\ Yield(Head(drain.rest), [drain EXCEPT !.firsts = Append(@, Head(drain.rest)),
                                             !.rest = Tail(@)])

TakesFirst == [drain EXCEPT !.lasts = <<Head(drain.rest)>> \o @, !.rest = Tail(@)]
TakesLast == [drain EXCEPT !.lasts = <<Last(drain.rest)>> \o @, !.rest = Front(@)]
next_back ==
    /\ drain.open
    /\ drain.rest # << >>
    /\ Yield(Head(TakesLast.lasts), TakesLast)

(* The drain is dropped, the values not handed out with it, and the tail   *)
(* moved back (alloc's Drop); or it is forgotten, with what it still has.  *)
EndDrain ==
    /\ drain.open
    /\ drain' = NoDrain
    /\ \/ /\ self' \in Layouts(Cells \o drain.tail)
          /\ Release(ToSet(drain.rest))
          /\ UNCHANGED leaked
       \/ /\ leaked' = leaked \cup ToSet(drain.rest) \cup ToSet(drain.tail)
          /\ UNCHANGED <<self, released>>
    /\ UNCHANGED <<kind, other, plain, created, content, view>>

----------------------------------------------------------------------------
(* Copy-on-write views.  A borrowed one is the first segment itself; `then'*)
(* is what the collection held when the view was made.                     *)

BorrowedCow == [kind |-> "Borrowed", values |-> << >>, then |-> Contents(Cells)]
Owned(values) == [kind |-> "Owned", values |-> values, then |-> Contents(Cells)]
cow(policy, first) ==
    IF policy = "Borrowed" THEN BorrowedCow ELSE Owned(Contents(first))

(* CellCowExt, for the one slice of a BrandedVec ...                       *)
borrow_cow_with(policy) == cow(policy, self.front)

(* ... and for a queue, which may lie in two.                              *)
PolicyAlone(first, second, policy) == cow(policy, first)
cow_from_segments(first, second, policy) ==
    IF second = << >> THEN cow(policy, first) ELSE Owned(Contents(first \o second))

MakeView(v) ==
    /\ Shareable
    /\ view = NoView
    /\ view' = v
    /\ UNCHANGED <<kind, self, other, plain, heap, drain>>

(* borrow_cow, retain_cow, cow_if and cow_with, which choose the policy.   *)
VecCow(policy) == kind = "vec" /\ MakeView(borrow_cow_with(policy))
DequeCow(policy) ==
    kind = "deque" /\ MakeView(cow_from_segments(self.front, self.back, policy))

DropView ==
    /\ view # NoView
    /\ view' = NoView
    /\ UNCHANGED <<kind, self, other, plain, heap, drain>>

Next ==
    \/ push \/ push_back \/ push_front
    \/ \E k \in 1 .. Len(Cells) + 1 : insert(k)
    \/ \E n \in 0 .. MaxValues : extend(n)
    \/ pop \/ pop_back \/ pop_front
    \/ \E k \in Places : remove(k) \/ swap_remove(k) \/ write(k)
    \/ \E a, b \in Places : swap(a, b)
    \/ \E n \in 0 .. Len(Cells) : truncate(n) \/ split_off(n) \/ clone_with(n)
    \/ Reallocate
    \/ \E n \in 0 .. Len(Cells), K, W \in SUBSET ToSet(Cells) : retain_mut(n, K, W)
    \/ append
    \/ \E n \in 0 .. MaxValues, panics \in BOOLEAN : from_fn(n, panics)
    \/ into_vec \/ into_vec_deque
    \/ from_vec \/ from_vec_deque
    \/ Consume
    \/ ConsumeOther
    \/ \E from \in 1 .. Len(Cells) + 1, to \in 0 .. Len(Cells) : drain_range(from, to)
    \/ next
    \/ next_back
    \/ EndDrain
    \/ \E policy \in {"Borrowed", "Retained"} : VecCow(policy) \/ DequeCow(policy)
    \/ DropView

Spec == Init /\ [][Next]_vars

----------------------------------------------------------------------------
(* Every value is owned exactly once, from its creation on: it is in one   *)
(* place of one collection or drain, or was moved out or dropped once, or  *)
(* leaked with a forgotten drain; conversions neither lose nor double it   *)
(* ("transfers its ownership once"), and no panicking closure does.        *)
Owners == All(self) \o All(other) \o All(plain)
             \o drain.rest \o drain.tail
EachValueOwnedOnce ==
    \A v \in Value :
        Cardinality({k \in DOMAIN Owners : Owners[k] = v}) + released[v]
            + (IF v \in leaked THEN 1 ELSE 0) = (IF v <= created THEN 1 ELSE 0)

(* A Cow shows the whole queue in its order as it was when the view was    *)
(* made, wrapped storage or not: a borrowed one for as long as it lives,   *)
(* an owned one also after values were written, moved or dropped.          *)
Shown == IF view.kind = "Borrowed" THEN Contents(self.front) ELSE view.values
CowsShowTheQueue == view # NoView => Shown = view.then

(* However next and next_back alternate, a drain hands out each value of   *)
(* its range at its end and in its order, and what it leaves alone stays.  *)
DrainGivesBothEnds ==
    drain.open => All(self) \o drain.firsts \o drain.rest \o drain.lasts \o drain.tail
                    = drain.before
=============================================================================
