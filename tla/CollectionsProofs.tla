-------------------------- MODULE CollectionsProofs --------------------------
(***************************************************************************)
(* Every value of a BrandedVec or BrandedVecDeque has one owner, however   *)
(* many values there are, wherever the storage wraps and whichever closure *)
(* panics; a drain hands out its range from both ends; and a Cow shows the *)
(* queue of the moment it was made.                                        *)
(*                                                                         *)
(* EachValueOwnedOnce counts places.  The proof counts owners instead:     *)
(* each owner is a sequence without repetition (Piece), so a value is with *)
(* it once or not at all, and Held(v) adds up seven zeros and ones.  Every *)
(* operation moves values between owners or creates new ones.              *)
(***************************************************************************)
EXTENDS Collections, FiniteSetTheorems, SequenceTheorems, TLAPS

(* A sequence of distinct values, and what it adds to the owners of v.     *)
Piece(s) ==
    /\ s \in Seq(Value)
    /\ \A i, j \in 1 .. Len(s) : s[i] = s[j] => i = j
In(v, S) == IF v \in S THEN 1 ELSE 0

(* A collection: two segments, of which a Vec has only the first.          *)
IsCollection(k, q) ==
    /\ q \in [front : Seq(Value), back : Seq(Value)]
    /\ Piece(All(q))
    /\ k = "vec" => q.back = << >>

(* The owners, besides the caller and the leak, and how many v has.        *)
Kept == ToSet(All(self))
KeptByOther == ToSet(All(other))
KeptByPlain == ToSet(All(plain))
Rest == ToSet(drain.rest)
After == ToSet(drain.tail)

Held(v) ==
    In(v, Kept) + In(v, KeptByOther) + In(v, KeptByPlain)
        + In(v, Rest) + In(v, After) + In(v, leaked) + released[v]

Types ==
    /\ kind \in {"vec", "deque"}
    /\ created \in 0 .. MaxValues
    /\ released \in [Value -> Nat]
    /\ leaked \subseteq Value

Pieces ==
    /\ IsCollection(kind, self)
    /\ IsCollection(kind, other)
    /\ IsCollection(kind, plain)
    /\ Piece(drain.rest)
    /\ Piece(drain.tail)

OneOwner == \A v \in Value : Held(v) = IF v <= created THEN 1 ELSE 0

Owning == Types /\ Pieces /\ OneOwner

(* A drain borrows the collection mutably: no borrowed Cow lives with it.  *)
Draining ==
    /\ drain \in [open : BOOLEAN, firsts : Seq(Value), rest : Seq(Value),
                  lasts : Seq(Value), tail : Seq(Value), before : Seq(Value)]
    /\ ~drain.open => drain = NoDrain
    /\ drain.open => view.kind # "Borrowed"
    /\ DrainGivesBothEnds

Viewing ==
    /\ view.kind = "None" => view = NoView
    /\ CowsShowTheQueue

Inv == Owning /\ Draining /\ Viewing

----------------------------------------------------------------------------
(* Sequences of distinct values.                                           *)

(* What is in a sequence.                                                  *)
LEMMA Members ==
    ASSUME NEW s \in Seq(Value)
    PROVE  /\ Len(s) \in Nat
           /\ ToSet(s) \subseteq Value
           /\ \A v : v \in ToSet(s) <=> \E i \in 1 .. Len(s) : s[i] = v
           /\ \A i \in 1 .. Len(s) : s[i] \in ToSet(s) /\ s[i] \in Value
  BY DEF ToSet

(* The empty sequence.                                                     *)
LEMMA EmptyPiece == Piece(<< >>) /\ ToSet(<< >>) = {}
  BY DEF Piece, ToSet

(* A concatenation holds what its parts hold.                              *)
LEMMA UnionOf ==
    ASSUME NEW s \in Seq(Value), NEW t \in Seq(Value)
    PROVE  /\ s \o t \in Seq(Value)
           /\ ToSet(s \o t) = ToSet(s) \cup ToSet(t)
<1>1. /\ s \o t \in Seq(Value)
      /\ Len(s \o t) = Len(s) + Len(t)
      /\ \A i \in 1 .. Len(s) + Len(t) :
             (s \o t)[i] = IF i <= Len(s) THEN s[i] ELSE t[i - Len(s)]
  BY ConcatProperties
<1>2. ToSet(s \o t) \subseteq ToSet(s) \cup ToSet(t)
  <2> SUFFICES ASSUME NEW v \in ToSet(s \o t)
               PROVE  v \in ToSet(s) \cup ToSet(t)
    OBVIOUS
  <2>3. PICK i \in 1 .. Len(s) + Len(t) : (s \o t)[i] = v
    <3>1. \E i \in 1 .. Len(s \o t) : (s \o t)[i] = v
      BY <1>1, Members
    <3> QED BY <3>1, <1>1
  <2>1. CASE i <= Len(s)
    <3>1. i \in 1 .. Len(s) /\ (s \o t)[i] = s[i]
      BY <2>1, <1>1, Members
    <3> QED BY <3>1, <2>3, Members
  <2>2. CASE ~(i <= Len(s))
    <3>1. i - Len(s) \in 1 .. Len(t) /\ (s \o t)[i] = t[i - Len(s)]
      BY <2>2, <1>1, Members
    <3> QED BY <3>1, <2>3, Members
  <2> QED BY <2>1, <2>2
<1>3. ToSet(s) \subseteq ToSet(s \o t)
  <2> SUFFICES ASSUME NEW i \in 1 .. Len(s)
               PROVE  s[i] \in ToSet(s \o t)
    BY Members
  <2>1. i \in 1 .. Len(s \o t) /\ (s \o t)[i] = s[i]
    BY <1>1, Members
  <2> QED BY <2>1, <1>1, Members
<1>4. ToSet(t) \subseteq ToSet(s \o t)
  <2> SUFFICES ASSUME NEW i \in 1 .. Len(t)
               PROVE  t[i] \in ToSet(s \o t)
    BY Members
  <2>1. /\ i + Len(s) \in 1 .. Len(s) + Len(t)
        /\ ~(i + Len(s) <= Len(s))
        /\ (i + Len(s)) - Len(s) = i
    BY Members
  <2>2. (s \o t)[i + Len(s)] = t[i]
    BY <2>1, <1>1
  <2> QED BY <2>1, <2>2, <1>1, Members
<1> QED BY <1>1, <1>2, <1>3, <1>4

(* Sequences with nothing in common make a sequence of distinct values.    *)
LEMMA Joins ==
    ASSUME NEW s, NEW t, Piece(s), Piece(t), ToSet(s) \cap ToSet(t) = {}
    PROVE  /\ Piece(s \o t)
           /\ ToSet(s \o t) = ToSet(s) \cup ToSet(t)
<1>1. s \in Seq(Value) /\ t \in Seq(Value) /\ Len(s) \in Nat /\ Len(t) \in Nat
  BY DEF Piece
<1>2. /\ s \o t \in Seq(Value)
      /\ Len(s \o t) = Len(s) + Len(t)
      /\ \A i \in 1 .. Len(s) + Len(t) :
             (s \o t)[i] = IF i <= Len(s) THEN s[i] ELSE t[i - Len(s)]
  BY <1>1, ConcatProperties
<1>3. ASSUME NEW i \in 1 .. Len(s) + Len(t), NEW j \in 1 .. Len(s) + Len(t),
             (s \o t)[i] = (s \o t)[j]
      PROVE  i = j
  <2>1. CASE i <= Len(s) /\ j <= Len(s)
    <3>1. i \in 1 .. Len(s) /\ j \in 1 .. Len(s) /\ s[i] = s[j]
      BY <2>1, <1>1, <1>2, <1>3
    <3> QED BY <3>1 DEF Piece
  <2>2. CASE ~(i <= Len(s)) /\ ~(j <= Len(s))
    <3>1. /\ i - Len(s) \in 1 .. Len(t) /\ j - Len(s) \in 1 .. Len(t)
          /\ t[i - Len(s)] = t[j - Len(s)]
      BY <2>2, <1>1, <1>2, <1>3
    <3>2. i - Len(s) = j - Len(s)
      BY <3>1 DEF Piece
    <3> QED BY <3>2, <1>1
  <2>3. CASE i <= Len(s) /\ ~(j <= Len(s))
    <3>1. i \in 1 .. Len(s) /\ j - Len(s) \in 1 .. Len(t) /\ s[i] = t[j - Len(s)]
      BY <2>3, <1>1, <1>2, <1>3
    <3> QED BY <3>1, <1>1, Members
  <2>4. CASE ~(i <= Len(s)) /\ j <= Len(s)
    <3>1. j \in 1 .. Len(s) /\ i - Len(s) \in 1 .. Len(t) /\ s[j] = t[i - Len(s)]
      BY <2>4, <1>1, <1>2, <1>3
    <3> QED BY <3>1, <1>1, Members
  <2> QED BY <2>1, <2>2, <2>3, <2>4
<1> QED BY <1>1, <1>2, <1>3, UnionOf DEF Piece

(* And the parts of one have nothing in common.                            *)
LEMMA Parts ==
    ASSUME NEW s \in Seq(Value), NEW t \in Seq(Value), Piece(s \o t)
    PROVE  /\ Piece(s)
           /\ Piece(t)
           /\ ToSet(s) \cap ToSet(t) = {}
           /\ ToSet(s \o t) = ToSet(s) \cup ToSet(t)
<1>1. /\ Len(s) \in Nat /\ Len(t) \in Nat
      /\ Len(s \o t) = Len(s) + Len(t)
      /\ \A i \in 1 .. Len(s) + Len(t) :
             (s \o t)[i] = IF i <= Len(s) THEN s[i] ELSE t[i - Len(s)]
  BY ConcatProperties
<1>2. \A i \in 1 .. Len(s) : i \in 1 .. Len(s \o t) /\ (s \o t)[i] = s[i]
  BY <1>1
<1>3. ASSUME NEW i \in 1 .. Len(t)
      PROVE  i + Len(s) \in 1 .. Len(s \o t) /\ (s \o t)[i + Len(s)] = t[i]
  <2>1. /\ i + Len(s) \in 1 .. Len(s) + Len(t)
        /\ ~(i + Len(s) <= Len(s))
        /\ (i + Len(s)) - Len(s) = i
    BY <1>1
  <2> QED BY <2>1, <1>1
<1>4. Piece(s)
  BY <1>2 DEF Piece
<1>5. Piece(t)
  <2> SUFFICES ASSUME NEW i \in 1 .. Len(t), NEW j \in 1 .. Len(t), t[i] = t[j]
               PROVE  i = j
    BY DEF Piece
  <2>1. i + Len(s) = j + Len(s)
    BY <1>3 DEF Piece
  <2> QED BY <2>1, <1>1
<1>6. ASSUME NEW v, v \in ToSet(s), v \in ToSet(t)
      PROVE  FALSE
  <2>1. PICK i \in 1 .. Len(s) : s[i] = v
    BY <1>6, Members
  <2>2. PICK j \in 1 .. Len(t) : t[j] = v
    BY <1>6, Members
  <2>3. i = j + Len(s)
    BY <2>1, <2>2, <1>2, <1>3 DEF Piece
  <2> QED BY <2>3, <1>1
<1> QED BY <1>4, <1>5, <1>6, UnionOf

(* A cut of a sequence.                                                    *)
LEMMA Cut ==
    ASSUME NEW s \in Seq(Value), NEW k \in 0 .. Len(s)
    PROVE  /\ SubSeq(s, 1, k) \in Seq(Value)
           /\ SubSeq(s, k + 1, Len(s)) \in Seq(Value)
           /\ SubSeq(s, 1, k) \o SubSeq(s, k + 1, Len(s)) = s
           /\ Len(SubSeq(s, 1, k)) = k
           /\ Len(SubSeq(s, k + 1, Len(s))) = Len(s) - k
           /\ k = Len(s) => SubSeq(s, 1, k) = s /\ SubSeq(s, k + 1, Len(s)) = << >>
<1>1. Len(s) \in Nat /\ \A i \in 1 .. Len(s) : s[i] \in Value
  BY Members
<1>2. SubSeq(s, 1, k) \in Seq(Value) /\ Len(SubSeq(s, 1, k)) = k
  <2>1. \A i \in 1 .. k : s[i] \in Value
    BY <1>1
  <2>2. /\ SubSeq(s, 1, k) \in Seq(Value)
        /\ Len(SubSeq(s, 1, k)) = IF 1 <= k THEN k - 1 + 1 ELSE 0
    BY <2>1, <1>1, SubSeqProperties
  <2> QED BY <2>2, <1>1
<1>3. SubSeq(s, k + 1, Len(s)) \in Seq(Value) /\ Len(SubSeq(s, k + 1, Len(s))) = Len(s) - k
  <2>1. k + 1 \in Int /\ Len(s) \in Int /\ \A i \in k + 1 .. Len(s) : s[i] \in Value
    BY <1>1
  <2>2. /\ SubSeq(s, k + 1, Len(s)) \in Seq(Value)
        /\ Len(SubSeq(s, k + 1, Len(s))) =
              IF k + 1 <= Len(s) THEN Len(s) - (k + 1) + 1 ELSE 0
    BY <2>1, SubSeqProperties
  <2> QED BY <2>2, <1>1
<1>4. SubSeq(s, 1, k) \o SubSeq(s, k + 1, Len(s)) = SubSeq(s, 1, Len(s))
  <2>1. 1 \in 1 .. Len(s) + 1 /\ k \in 1 - 1 .. Len(s) /\ Len(s) \in k .. Len(s)
    BY <1>1
  <2> QED BY <2>1, ConcatAdjacentSubSeq
<1>5. SubSeq(s, 1, Len(s)) = s
  BY SubSeqFull
<1>6. k = Len(s) => SubSeq(s, k + 1, Len(s)) = << >>
  BY <1>3, EmptySeq
<1> QED BY <1>2, <1>3, <1>4, <1>5, <1>6

(* The parts of a cut.                                                     *)
LEMMA CutParts ==
    ASSUME NEW s, Piece(s), NEW k \in 0 .. Len(s)
    PROVE  /\ Piece(SubSeq(s, 1, k))
           /\ Piece(SubSeq(s, k + 1, Len(s)))
           /\ ToSet(SubSeq(s, 1, k)) \cap ToSet(SubSeq(s, k + 1, Len(s))) = {}
           /\ ToSet(SubSeq(s, 1, k)) \cup ToSet(SubSeq(s, k + 1, Len(s))) = ToSet(s)
<1>1. s \in Seq(Value)
  BY DEF Piece
<1> DEFINE a == SubSeq(s, 1, k)
           b == SubSeq(s, k + 1, Len(s))
<1>2. a \in Seq(Value) /\ b \in Seq(Value) /\ a \o b = s
  BY <1>1, Cut
<1> HIDE DEF a, b
<1>3. Piece(a) /\ Piece(b) /\ ToSet(a) \cap ToSet(b) = {} /\ ToSet(a) \cup ToSet(b) = ToSet(s)
  BY <1>2, Parts
<1> QED BY <1>3 DEF a, b

(* A value put into a sequence.                                            *)
LEMMA Inserted ==
    ASSUME NEW s, Piece(s), NEW k \in 1 .. Len(s) + 1, NEW e \in Value, e \notin ToSet(s)
    PROVE  /\ Piece(InsertAt(s, k, e))
           /\ ToSet(InsertAt(s, k, e)) = ToSet(s) \cup {e}
<1> DEFINE a == SubSeq(s, 1, k - 1)
           b == SubSeq(s, k, Len(s))
<1>1. s \in Seq(Value) /\ Len(s) \in Nat
  BY DEF Piece
<1>2. k - 1 \in 0 .. Len(s) /\ (k - 1) + 1 = k
  BY <1>1
<1>3. /\ Piece(a) /\ Piece(b)
      /\ ToSet(a) \cap ToSet(b) = {} /\ ToSet(a) \cup ToSet(b) = ToSet(s)
  BY <1>2, CutParts
<1>4. InsertAt(s, k, e) = (a \o <<e>>) \o b
  BY DEF InsertAt
<1> HIDE DEF a, b
<1>5. Piece(<<e>>) /\ ToSet(<<e>>) = {e}
  BY DEF Piece, ToSet
<1>6. Piece(a \o <<e>>) /\ ToSet(a \o <<e>>) = ToSet(a) \cup {e}
  <2>1. ToSet(a) \cap ToSet(<<e>>) = {}
    BY <1>3, <1>5
  <2> QED BY <1>3, <1>5, <2>1, Joins
<1>7. ToSet(a \o <<e>>) \cap ToSet(b) = {}
  BY <1>3, <1>6
<1>8. /\ Piece((a \o <<e>>) \o b)
      /\ ToSet((a \o <<e>>) \o b) = ToSet(a \o <<e>>) \cup ToSet(b)
  BY <1>3, <1>6, <1>7, Joins
<1> QED BY <1>3, <1>4, <1>6, <1>8

(* The first of a sequence, and the last.                                  *)
LEMMA FirstOf ==
    ASSUME NEW s, Piece(s), s # << >>
    PROVE  /\ Head(s) \in Value /\ Piece(Tail(s)) /\ s = <<Head(s)>> \o Tail(s)
           /\ Head(s) \in ToSet(s) /\ ToSet(Tail(s)) = ToSet(s) \ {Head(s)}
<1>1. s \in Seq(Value) /\ Len(s) \in Nat
  BY DEF Piece
<1>2. Head(s) \in Value /\ Tail(s) \in Seq(Value) /\ s = <<Head(s)>> \o Tail(s)
  BY <1>1
<1> DEFINE h == Head(s)
           t == Tail(s)
<1>3. h \in Value /\ <<h>> \in Seq(Value) /\ t \in Seq(Value) /\ s = <<h>> \o t /\ ToSet(<<h>>) = {h}
  BY <1>2 DEF ToSet
<1> HIDE DEF h, t
<1>4. Piece(t) /\ {h} \cap ToSet(t) = {} /\ ToSet(s) = {h} \cup ToSet(t)
  BY <1>3, Parts
<1>5. Piece(t) /\ h \in ToSet(s) /\ ToSet(t) = ToSet(s) \ {h}
  BY <1>4
<1> QED BY <1>2, <1>5 DEF h, t

(* The last of a sequence.                                                 *)
LEMMA LastOf ==
    ASSUME NEW s, Piece(s), s # << >>
    PROVE  /\ Last(s) \in Value /\ Piece(Front(s)) /\ s = Front(s) \o <<Last(s)>>
           /\ Last(s) \in ToSet(s) /\ ToSet(Front(s)) = ToSet(s) \ {Last(s)}
<1>1. s \in Seq(Value) /\ Len(s) \in Nat \ {0}
  BY EmptySeq DEF Piece
<1>2. Last(s) \in Value
  BY <1>1 DEF Last
<1>3. Front(s) \in Seq(Value) /\ s = Front(s) \o <<Last(s)>>
  <2>1. 1 \in 1 .. Len(s) /\ Len(s) \in 1 .. Len(s) /\ Len(s) - 1 \in 0 .. Len(s)
    BY <1>1
  <2>2. SubSeq(s, 1, Len(s)) = SubSeq(s, 1, Len(s) - 1) \o << s[Len(s)] >>
    BY <1>1, <2>1, SubSeqRecursiveSecond
  <2>3. SubSeq(s, 1, Len(s) - 1) \in Seq(Value)
    BY <1>1, <2>1, Cut
  <2> QED BY <1>1, <2>2, <2>3, SubSeqFull DEF Front, Last
<1> DEFINE h == Last(s)
           t == Front(s)
<1>4. h \in Value /\ <<h>> \in Seq(Value) /\ t \in Seq(Value) /\ s = t \o <<h>> /\ ToSet(<<h>>) = {h}
  BY <1>2, <1>3 DEF ToSet
<1> HIDE DEF h, t
<1>5. Piece(t) /\ {h} \cap ToSet(t) = {} /\ ToSet(s) = {h} \cup ToSet(t)
  BY <1>4, Parts
<1>6. Piece(t) /\ h \in ToSet(s) /\ ToSet(t) = ToSet(s) \ {h}
  BY <1>5
<1> QED BY <1>2, <1>3, <1>6 DEF h, t

(* A value taken out of a sequence.                                        *)
LEMMA Removed ==
    ASSUME NEW s, Piece(s), NEW k \in 1 .. Len(s)
    PROVE  /\ Piece(RemoveAt(s, k))
           /\ s[k] \in ToSet(s)
           /\ ToSet(RemoveAt(s, k)) = ToSet(s) \ {s[k]}
<1> DEFINE a == SubSeq(s, 1, k - 1)
           b == SubSeq(s, k, Len(s))
           c == SubSeq(s, k + 1, Len(s))
<1>1. s \in Seq(Value) /\ Len(s) \in Nat
  BY DEF Piece
<1>2. k - 1 \in 0 .. Len(s) /\ (k - 1) + 1 = k /\ Len(s) \in k .. Len(s)
  BY <1>1
<1>3. /\ Piece(a) /\ Piece(b)
      /\ ToSet(a) \cap ToSet(b) = {} /\ ToSet(a) \cup ToSet(b) = ToSet(s)
  BY <1>2, CutParts
<1>4. b = <<s[k]>> \o c
  BY <1>1, <1>2, SubSeqRecursiveFirst
<1>5. s[k] \in Value /\ <<s[k]>> \in Seq(Value) /\ c \in Seq(Value) /\ ToSet(<<s[k]>>) = {s[k]}
  BY <1>1, Cut DEF ToSet
<1>6. RemoveAt(s, k) = a \o c
  BY DEF RemoveAt
<1> HIDE DEF a, b, c
<1>7. Piece(c) /\ {s[k]} \cap ToSet(c) = {} /\ ToSet(b) = {s[k]} \cup ToSet(c)
  <2>1. Piece(<<s[k]>> \o c)
    BY <1>3, <1>4
  <2> QED
    BY <1>4, <1>5, <2>1, Parts
<1>8. ToSet(a) \cap ToSet(c) = {}
  BY <1>3, <1>7
<1>9. Piece(a \o c) /\ ToSet(a \o c) = ToSet(a) \cup ToSet(c)
  BY <1>3, <1>7, <1>8, Joins
<1> QED BY <1>3, <1>6, <1>7, <1>9

(* Two values exchanged.                                                   *)
LEMMA Exchange ==
    ASSUME Piece(Cells), NEW a \in Places, NEW b \in Places
    PROVE  /\ Piece(Exchanged(a, b))
           /\ ToSet(Exchanged(a, b)) = ToSet(Cells)
           /\ Len(Exchanged(a, b)) = Len(Cells)
           /\ Exchanged(a, b)[b] = Cells[a]
<1> DEFINE s == Cells
           x == Exchanged(a, b)
<1>1. s \in Seq(Value) /\ Len(s) \in Nat /\ a \in 1 .. Len(s) /\ b \in 1 .. Len(s) /\ Piece(s)
  BY DEF Piece, Places
<1>2. x = [s EXCEPT ![a] = s[b], ![b] = s[a]]
  BY DEF Exchanged
<1> HIDE DEF s, x
<1>3. /\ x \in Seq(Value)
      /\ Len(x) = Len(s)
      /\ \A i \in 1 .. Len(s) : x[i] = IF i = b THEN s[a] ELSE IF i = a THEN s[b] ELSE s[i]
  BY <1>1, <1>2
<1>4. Piece(x)
  BY <1>1, <1>3 DEF Piece
<1>5. \A v : v \in ToSet(x) <=> v \in ToSet(s)
  <2> TAKE v
  <2>1. v \in ToSet(x) <=> \E i \in 1 .. Len(x) : x[i] = v
    BY <1>3, Members
  <2>2. v \in ToSet(s) <=> \E i \in 1 .. Len(s) : s[i] = v
    BY <1>1, Members
  <2>3. (\E i \in 1 .. Len(s) : x[i] = v) <=> (\E i \in 1 .. Len(s) : s[i] = v)
    BY <1>1, <1>3
  <2> QED BY <1>3, <2>1, <2>2, <2>3
<1>6. Piece(x) /\ ToSet(x) = ToSet(s) /\ Len(x) = Len(s) /\ x[b] = s[a]
  BY <1>1, <1>3, <1>4, <1>5
<1> QED BY <1>6 DEF s, x

(* The orders of a set of values: each of them holds all of the set, since *)
(* an injection between sets of the same size misses nothing.              *)
LEMMA Orders ==
    ASSUME NEW S, S \subseteq Value, NEW s \in SetToSeqs(S)
    PROVE  Piece(s) /\ ToSet(s) = S
<1>1. IsFiniteSet(S)
  <2>1. IsFiniteSet(Value)
    BY MaxValuesAssumption, FS_Interval DEF Value
  <2> QED BY <2>1, FS_Subset
<1>2. Cardinality(S) \in Nat
  BY <1>1, FS_CardinalityType
<1> DEFINE n == Cardinality(S)
<1>3. s \in [1 .. n -> S] /\ \A i, j \in 1 .. n : i # j => s[i] # s[j]
  BY DEF SetToSeqs
<1>4. IsFiniteSet(1 .. n) /\ Cardinality(1 .. n) = n
  BY <1>2, FS_Interval
<1>5. s \in Injection(1 .. n, S)
  BY <1>3 DEF Injection, IsInjective
<1>6. s \in Surjection(1 .. n, S)
  BY <1>1, <1>4, <1>5, FS_Injection
<1>7. s \in Seq(Value) /\ Len(s) = n
  <2>1. n \in Nat /\ s \in [1 .. n -> Value]
    BY <1>2, <1>3
  <2> HIDE DEF n
  <2> QED BY <2>1
<1> HIDE DEF n
<1>8. ToSet(s) = S
  BY <1>3, <1>6 DEF Surjection, ToSet
<1> QED BY <1>3, <1>7, <1>8 DEF Piece

(* The layouts of a sequence hold it.                                      *)
LEMMA LayoutsHold ==
    ASSUME Types, NEW s, Piece(s), NEW q \in Layouts(s)
    PROVE  IsCollection(kind, q) /\ All(q) = s
<1>1. s \in Seq(Value) /\ Len(s) \in Nat
  BY DEF Piece
<1>2. PICK k \in 0 .. Len(s) :
         /\ q = [front |-> SubSeq(s, 1, k), back |-> SubSeq(s, k + 1, Len(s))]
         /\ kind = "vec" => k = Len(s)
  <2>1. CASE kind = "vec" \/ s = << >>
    <3>1. q = [front |-> SubSeq(s, 1, Len(s)), back |-> SubSeq(s, Len(s) + 1, Len(s))]
      BY <2>1 DEF Layouts
    <3>2. Len(s) \in 0 .. Len(s)
      BY <1>1
    <3> QED BY <3>1, <3>2
  <2>2. CASE ~(kind = "vec" \/ s = << >>)
    <3>1. PICK k \in 1 .. Len(s) :
             q = [front |-> SubSeq(s, 1, k), back |-> SubSeq(s, k + 1, Len(s))]
      BY <2>2 DEF Layouts
    <3>2. k \in 0 .. Len(s)
      BY <1>1
    <3> QED BY <2>2, <3>1, <3>2
  <2> QED BY <2>1, <2>2
<1> DEFINE f == SubSeq(s, 1, k)
           b == SubSeq(s, k + 1, Len(s))
<1>3. f \in Seq(Value) /\ b \in Seq(Value) /\ f \o b = s /\ (kind = "vec" => b = << >>)
  BY <1>1, <1>2, Cut
<1>4. q = [front |-> f, back |-> b]
  BY <1>2
<1> HIDE DEF f, b
<1>5. All(q) = s
  BY <1>3, <1>4 DEF All
<1> QED BY <1>3, <1>4, <1>5 DEF IsCollection

(* The values an operation creates are new ones.                           *)
LEMMA NewValues ==
    ASSUME Types, NEW n \in Nat, created + n <= MaxValues
    PROVE  /\ Piece(New(n))
           /\ ToSet(New(n)) = created + 1 .. created + n
           /\ Len(New(n)) = n
<1>1. created \in Nat /\ MaxValues \in Nat
  BY MaxValuesAssumption DEF Types
<1>2. \A k \in 1 .. n : created + k \in Value
  BY <1>1 DEF Value
<1>3. /\ New(n) \in Seq(Value) /\ Len(New(n)) = n
      /\ \A k \in 1 .. n : New(n)[k] = created + k
  BY <1>2 DEF New
<1>4. Piece(New(n))
  BY <1>1, <1>3 DEF Piece
<1>5. \A v : v \in ToSet(New(n)) <=> v \in created + 1 .. created + n
  <2> TAKE v
  <2>1. v \in ToSet(New(n)) <=> \E k \in 1 .. n : created + k = v
    BY <1>3, Members
  <2>2. v \in created + 1 .. created + n => v - created \in 1 .. n /\ created + (v - created) = v
    BY <1>1
  <2>3. (\E k \in 1 .. n : created + k = v) => v \in created + 1 .. created + n
    BY <1>1
  <2> QED BY <2>1, <2>2, <2>3
<1> QED BY <1>3, <1>4, <1>5

----------------------------------------------------------------------------
(* Owners.                                                                 *)

(* Values that are in no two places at once, and do not exist too early.   *)
LEMMA Apart ==
    ASSUME Owning
    PROVE  /\ Kept \cap KeptByOther = {} /\ Kept \cap KeptByPlain = {}
           /\ Kept \cap After = {} /\ KeptByOther \cap KeptByPlain = {}
           /\ Rest \cap After = {} /\ leaked \cap Rest = {} /\ leaked \cap After = {}
           /\ \A v \in Value : v > created =>
                 v \notin Kept /\ v \notin KeptByOther /\ v \notin KeptByPlain
<1>1. Kept \subseteq Value
  BY Members DEF Owning, Pieces, IsCollection, Piece, Kept
<1>2. \A v \in Value : released[v] \in Nat /\ Held(v) <= 1 /\ (v > created => Held(v) = 0)
  BY MaxValuesAssumption DEF Owning, OneOwner, Types, Value
<1>3. Rest \subseteq Value
  BY Members DEF Owning, Pieces, Piece, Rest
<1>4. KeptByOther \subseteq Value /\ leaked \subseteq Value
  BY Members DEF Owning, Types, Pieces, IsCollection, Piece, KeptByOther
<1> QED BY <1>1, <1>2, <1>3, <1>4 DEF Held, In, Kept, KeptByOther, KeptByPlain, Rest, After

(* The account of a step: the values it created have got an owner, and no  *)
(* other value has got or lost one.                                        *)
Balanced ==
    \A v \in Value : Held(v)' = Held(v) + In(v, created + 1 .. created')

(* A balanced step leaves every value with one owner.                      *)
LEMMA Account ==
    ASSUME Owning, Types', Pieces', created' >= created, Balanced
    PROVE  Owning'
<1> SUFFICES ASSUME NEW v \in Value
             PROVE  Held(v)' = IF v <= created' THEN 1 ELSE 0
  BY DEF Owning, OneOwner
<1>1. v \in Nat \ {0} /\ created \in Nat /\ created' \in Nat
  BY MaxValuesAssumption DEF Value, Owning, Types
<1>2. Held(v) = IF v <= created THEN 1 ELSE 0
  BY DEF Owning, OneOwner
<1>3. Held(v)' = Held(v) + In(v, created + 1 .. created')
  BY DEF Balanced
<1> QED BY <1>1, <1>2, <1>3 DEF In

(* While no drain is open, an operation does not disturb one; nor a view   *)
(* that is not of the cells themselves.                                    *)
LEMMA NoDrainIsDisturbed ==
    ASSUME Draining, ~drain.open, drain' = drain
    PROVE  Draining'
  BY DEF Draining, DrainGivesBothEnds

(* A drain sees nothing of a step that leaves the collection alone.        *)
LEMMA DrainGoesOn ==
    ASSUME Draining, UNCHANGED <<self, drain>>, view' = view \/ view' = NoView
    PROVE  Draining'
  BY DEF Draining, DrainGivesBothEnds, NoView

(* A borrowed Cow shows the same as long as its cells hold the same.       *)
LEMMA NoViewIsDisturbed ==
    ASSUME Viewing, view' = view,
           view.kind = "Borrowed" => Contents(self.front)' = Contents(self.front)
    PROVE  Viewing'
  BY DEF Viewing, CowsShowTheQueue, Shown

(* An operation on a &mut of the collection: what it leaves and what it    *)
(* gives up are what there was and what it made.                           *)
LEMMA LeavesKeepsInv ==
    ASSUME Inv, NEW s, NEW S, Leaves(s, S), other' = other, plain' = plain,
           created' \in 0 .. MaxValues, created' >= created,
           Piece(s), ToSet(s) \cap S = {}, ToSet(s) \cup S = Kept \cup (created + 1 .. created')
    PROVE  Inv'
<1>1. ~drain.open /\ view.kind # "Borrowed" /\ UNCHANGED <<kind, leaked, drain, view>>
  BY DEF Leaves, Exclusive
<1>2. IsCollection(kind, self') /\ All(self') = s
  BY LayoutsHold DEF Leaves, Inv, Owning
<1>3. released' = [v \in Value |-> released[v] + In(v, S)]
  BY DEF Leaves, Release, In
<1>4. Types'
  BY <1>1, <1>3 DEF Inv, Owning, Types, In
<1>5. Pieces'
  BY <1>1, <1>2 DEF Inv, Owning, Pieces
<1>6. Balanced
  <2> SUFFICES ASSUME NEW v \in Value
               PROVE  Held(v)' = Held(v) + In(v, created + 1 .. created')
    BY DEF Balanced
  <2>1. /\ Kept' = ToSet(s) /\ KeptByOther' = KeptByOther /\ KeptByPlain' = KeptByPlain
        /\ Rest' = Rest /\ After' = After
    BY <1>1, <1>2 DEF Kept, KeptByOther, KeptByPlain, Rest, After
  <2>2. released'[v] = released[v] + In(v, S) /\ released[v] \in Nat
    BY <1>3 DEF Inv, Owning, Types
  <2>3. v \in created + 1 .. created' => v \notin Kept
    <3>1. created \in Nat /\ created' \in Nat
      BY MaxValuesAssumption DEF Inv, Owning, Types
    <3> QED BY <3>1, Apart DEF Inv, Value
  <2>4. In(v, ToSet(s)) + In(v, S) = In(v, Kept) + In(v, created + 1 .. created')
    BY <2>3 DEF In
  <2> QED BY <1>1, <2>1, <2>2, <2>4 DEF Held, In
<1>7. Draining' /\ Viewing'
  BY <1>1, NoDrainIsDisturbed, NoViewIsDisturbed DEF Inv
<1> QED BY <1>4, <1>5, <1>6, <1>7, Account DEF Inv

(* The same, when no value is made.                                        *)
LEMMA SmallOpKeepsInv ==
    ASSUME Inv, NEW s, NEW S, SmallOp(s, S),
           Piece(s), ToSet(s) \cap S = {}, ToSet(s) \cup S = Kept
    PROVE  Inv'
<1>1. /\ Leaves(s, S) /\ other' = other /\ plain' = plain
      /\ created' \in 0 .. MaxValues /\ created' >= created
      /\ ToSet(s) \cup S = Kept \cup (created + 1 .. created')
  BY MaxValuesAssumption DEF SmallOp, Inv, Owning, Types
<1> QED BY <1>1, LeavesKeepsInv

(* What an operation finds in the collection.                              *)
LEMMA CellsArePieces ==
    ASSUME Inv
    PROVE  /\ Piece(Cells) /\ ToSet(Cells) = Kept /\ Len(Cells) \in Nat /\ Kept \subseteq Value
           /\ created \in Nat /\ MaxValues \in Nat
<1>1. Piece(Cells) /\ ToSet(Cells) = Kept
  BY DEF Inv, Owning, Pieces, IsCollection, Cells, Kept
<1>2. Cells \in Seq(Value)
  BY <1>1 DEF Piece
<1>3. Len(Cells) \in Nat /\ Kept \subseteq Value
  BY <1>1, <1>2, Members
<1>4. created \in Nat /\ MaxValues \in Nat
  BY MaxValuesAssumption DEF Inv, Owning, Types
<1> QED BY <1>1, <1>3, <1>4

----------------------------------------------------------------------------
(* The operations.                                                         *)

(* push, insert, push_back, push_front.                                    *)
LEMMA PutKeepsInv ==
    ASSUME Inv, NEW k \in 1 .. Len(Cells) + 1, PutAt(k)
    PROVE  Inv'
<1>1. created + 1 \in Value /\ created' = created + 1 /\ created' \in 0 .. MaxValues
  BY CellsArePieces DEF PutAt, Create, Value
<1>2. created + 1 \notin Kept
  BY <1>1, Apart, CellsArePieces DEF Inv
<1> DEFINE s == InsertAt(Cells, k, created + 1)
<1>3. Piece(s) /\ ToSet(s) = Kept \cup {created + 1}
  BY <1>1, <1>2, Inserted, CellsArePieces
<1>4. Leaves(s, {}) /\ other' = other /\ plain' = plain
  BY DEF PutAt
<1> HIDE DEF s
<1>5. {created + 1} = created + 1 .. created'
  BY <1>1, CellsArePieces
<1>6. ToSet(s) \cap {} = {} /\ ToSet(s) \cup {} = Kept \cup (created + 1 .. created')
  BY <1>3, <1>5
<1>7. created' >= created
  BY <1>1, CellsArePieces
<1> QED BY <1>1, <1>3, <1>4, <1>6, <1>7, LeavesKeepsInv

(* extend: the new values come after the others.                           *)
LEMMA ExtendKeepsInv ==
    ASSUME Inv, NEW n \in 0 .. MaxValues, extend(n)
    PROVE  Inv'
<1>1. n \in Nat /\ created + n <= MaxValues /\ created' = created + n
      /\ created' \in 0 .. MaxValues /\ created' >= created
  BY CellsArePieces DEF extend, Create
<1>2. Piece(New(n)) /\ ToSet(New(n)) = created + 1 .. created'
  BY <1>1, NewValues DEF Inv, Owning
<1>3. ToSet(Cells) \cap ToSet(New(n)) = {}
  <2>1. \A v \in created + 1 .. created' : v \in Value /\ v > created
    BY <1>1, CellsArePieces DEF Value
  <2> QED BY <1>2, <2>1, Apart, CellsArePieces DEF Inv
<1> DEFINE s == Cells \o New(n)
<1>4. Piece(s) /\ ToSet(s) = Kept \cup (created + 1 .. created')
  BY <1>2, <1>3, Joins, CellsArePieces
<1>5. Leaves(s, {}) /\ other' = other /\ plain' = plain
  BY DEF extend
<1> HIDE DEF s
<1>6. ToSet(s) \cap {} = {} /\ ToSet(s) \cup {} = Kept \cup (created + 1 .. created')
  BY <1>4
<1> QED BY <1>1, <1>4, <1>5, <1>6, LeavesKeepsInv

(* pop, remove, pop_back, pop_front.                                       *)
LEMMA TakeKeepsInv ==
    ASSUME Inv, NEW k, TakeAt(k)
    PROVE  Inv'
<1>1. k \in 1 .. Len(Cells) /\ SmallOp(RemoveAt(Cells, k), {Cells[k]})
  BY DEF TakeAt, Places
<1> DEFINE s == RemoveAt(Cells, k)
           S == {Cells[k]}
<1>2. Piece(s) /\ ToSet(s) \cap S = {} /\ ToSet(s) \cup S = Kept
  BY <1>1, Removed, CellsArePieces
<1>3. SmallOp(s, S)
  BY <1>1
<1> HIDE DEF s, S
<1> QED BY <1>2, <1>3, SmallOpKeepsInv

(* swap_remove: the last value fills the hole.                             *)
LEMMA SwapRemoveKeepsInv ==
    ASSUME Inv, NEW k \in Places, swap_remove(k)
    PROVE  Inv'
<1>1. Piece(Cells) /\ Len(Cells) \in Nat \ {0} /\ Len(Cells) \in Places
  BY CellsArePieces DEF Places
<1> DEFINE x == Exchanged(k, Len(Cells))
<1>3. SmallOp(Front(x), {Cells[k]})
  BY DEF swap_remove
<1>4. Piece(x) /\ ToSet(x) = Kept /\ Len(x) = Len(Cells) /\ x[Len(Cells)] = Cells[k]
  BY <1>1, Exchange, CellsArePieces
<1> HIDE DEF x
<1>5. x # << >> /\ Last(x) = Cells[k]
  BY <1>1, <1>4, EmptySeq DEF Last
<1>6. Piece(Front(x)) /\ Cells[k] \in Kept /\ ToSet(Front(x)) = Kept \ {Cells[k]}
  BY <1>4, <1>5, LastOf
<1>7. ToSet(Front(x)) \cap {Cells[k]} = {} /\ ToSet(Front(x)) \cup {Cells[k]} = Kept
  BY <1>6
<1> QED BY <1>3, <1>6, <1>7, SmallOpKeepsInv

(* swap.                                                                   *)
LEMMA SwapKeepsInv ==
    ASSUME Inv, NEW a \in Places, NEW b \in Places, swap(a, b)
    PROVE  Inv'
<1> DEFINE x == Exchanged(a, b)
<1>1. SmallOp(x, {})
  BY DEF swap
<1>2. Piece(x) /\ ToSet(x) = Kept
  BY Exchange, CellsArePieces
<1> HIDE DEF x
<1>3. ToSet(x) \cap {} = {} /\ ToSet(x) \cup {} = Kept
  BY <1>2
<1> QED BY <1>1, <1>2, <1>3, SmallOpKeepsInv

(* truncate drops what comes after the new length.                         *)
LEMMA TruncateKeepsInv ==
    ASSUME Inv, NEW n \in 0 .. Len(Cells), truncate(n)
    PROVE  Inv'
<1> DEFINE s == SubSeq(Cells, 1, n)
           S == ToSet(SubSeq(Cells, n + 1, Len(Cells)))
<1>1. SmallOp(s, S)
  BY DEF truncate
<1>2. Piece(s) /\ ToSet(s) \cap S = {} /\ ToSet(s) \cup S = Kept
  BY CutParts, CellsArePieces
<1> HIDE DEF s, S
<1> QED BY <1>1, <1>2, SmallOpKeepsInv

(* reserve and shrink_to_fit.                                              *)
LEMMA ReallocateKeepsInv ==
    ASSUME Inv, Reallocate
    PROVE  Inv'
<1>1. SmallOp(Cells, {}) /\ ToSet(Cells) \cap {} = {} /\ ToSet(Cells) \cup {} = Kept
  BY CellsArePieces DEF Reallocate
<1> QED BY <1>1, CellsArePieces, SmallOpKeepsInv

(* The collection is dropped or given to the caller value by value.        *)
LEMMA ConsumeKeepsInv ==
    ASSUME Inv, Consume
    PROVE  Inv'
<1>1. ToSet(<< >>) \cap ToSet(Cells) = {} /\ ToSet(<< >>) \cup ToSet(Cells) = Kept
  BY CellsArePieces, EmptyPiece
<1>2. SmallOp(<< >>, ToSet(Cells))
  BY DEF Consume
<1> QED BY <1>1, <1>2, EmptyPiece, SmallOpKeepsInv

(* retain_mut: whichever values the closure has rejected when it panics,   *)
(* they and the others are those there were.                               *)
LEMMA RetainKeepsInv ==
    ASSUME Inv, NEW n \in 0 .. Len(Cells), NEW K, NEW W, retain_mut(n, K, W)
    PROVE  Inv'
<1> DEFINE decided == ToSet(SubSeq(Cells, 1, n))
           rejected == decided \ K
<1>1. other' = other /\ plain' = plain /\ created' = created
  BY DEF retain_mut
<1>2. created' \in 0 .. MaxValues /\ created' >= created /\ created + 1 .. created' = {}
  BY <1>1, CellsArePieces DEF Inv, Owning, Types
<1>3. decided \subseteq Kept
  BY CutParts, CellsArePieces
<1>4. \/ \E s \in SetToSeqs(ToSet(Cells) \ rejected) : Leaves(s, rejected)
      \/ \E s \in SetToSeqs(ToSet(Cells)) : Leaves(s, {})
  BY DEF retain_mut
<1> HIDE DEF decided
<1>5. rejected \subseteq Kept
  BY <1>3
<1> HIDE DEF rejected
<1>6. ASSUME NEW S, S \subseteq Kept,
             NEW s \in SetToSeqs(ToSet(Cells) \ S), Leaves(s, S)
      PROVE  Inv'
  <2>1. Piece(s) /\ ToSet(s) = Kept \ S
    BY <1>6, Orders, CellsArePieces
  <2>2. ToSet(s) \cap S = {} /\ ToSet(s) \cup S = Kept \cup (created + 1 .. created')
    BY <2>1, <1>2, <1>6
  <2> QED BY <1>1, <1>2, <1>6, <2>1, <2>2, LeavesKeepsInv
<1>7. CASE \E s \in SetToSeqs(ToSet(Cells) \ rejected) : Leaves(s, rejected)
  BY <1>5, <1>6, <1>7
<1>8. CASE \E s \in SetToSeqs(ToSet(Cells)) : Leaves(s, {})
  <2>1. ToSet(Cells) \ {} = ToSet(Cells) /\ {} \subseteq Kept
    OBVIOUS
  <2> QED BY <2>1, <1>6, <1>8
<1> QED BY <1>4, <1>7, <1>8

(* A write is to a value of the collection, when no Cow borrows it.        *)
LEMMA WriteKeepsInv ==
    ASSUME Inv, NEW k \in Places, write(k)
    PROVE  Inv'
<1>1. ~drain.open /\ view.kind # "Borrowed"
      /\ UNCHANGED <<kind, self, other, plain, created, released, leaked, drain, view>>
  BY DEF write, Exclusive
<1>2. Owning'
  BY <1>1 DEF Inv, Owning, Types, Pieces, OneOwner, Held, Kept, KeptByOther, KeptByPlain, Rest, After
<1> QED BY <1>1, <1>2, NoDrainIsDisturbed, NoViewIsDisturbed DEF Inv

(* The empty collection.                                                   *)
LEMMA EmptyCollection ==
    ASSUME NEW k
    PROVE  IsCollection(k, Empty) /\ All(Empty) = << >> /\ ToSet(All(Empty)) = {}
  BY EmptyPiece DEF IsCollection, Empty, All

(* split_off moves the values after the cut to the other collection.       *)
LEMMA SplitOffKeepsInv ==
    ASSUME Inv, NEW n \in 0 .. Len(Cells), split_off(n)
    PROVE  Inv'
<1> DEFINE a == SubSeq(Cells, 1, n)
           b == SubSeq(Cells, n + 1, Len(Cells))
<1>1. Piece(a) /\ Piece(b) /\ ToSet(a) \cap ToSet(b) = {} /\ ToSet(a) \cup ToSet(b) = Kept
  BY CutParts, CellsArePieces
<1>2. /\ ~drain.open /\ view.kind # "Borrowed"
      /\ UNCHANGED <<kind, leaked, drain, view, plain, created>>
      /\ self' \in Layouts(a) /\ other' \in Layouts(b) /\ other = Empty
      /\ released' = [v \in Value |-> released[v] + IF v \in {} THEN 1 ELSE 0]
  BY DEF split_off, Leaves, Exclusive, Release
<1> HIDE DEF a, b
<1>3. /\ IsCollection(kind, self') /\ All(self') = a
      /\ IsCollection(kind, other') /\ All(other') = b
  BY <1>1, <1>2, LayoutsHold DEF Inv, Owning
<1>4. \A v \in Value : released'[v] = released[v] /\ released[v] \in Nat
  BY <1>2 DEF Inv, Owning, Types
<1>5. Types'
  BY <1>2, <1>4 DEF Inv, Owning, Types
<1>6. Pieces'
  BY <1>2, <1>3 DEF Inv, Owning, Pieces
<1>7. Balanced
  <2> SUFFICES ASSUME NEW v \in Value
               PROVE  Held(v)' = Held(v) + In(v, created + 1 .. created')
    BY DEF Balanced
  <2>1. /\ Kept' = ToSet(a) /\ KeptByOther' = ToSet(b) /\ KeptByOther = {}
        /\ KeptByPlain' = KeptByPlain /\ Rest' = Rest /\ After' = After /\ leaked' = leaked
    BY <1>2, <1>3, EmptyCollection DEF Kept, KeptByOther, KeptByPlain, Rest, After
  <2>2. created + 1 .. created' = {}
    BY <1>2, CellsArePieces
  <2> QED BY <1>1, <1>4, <2>1, <2>2 DEF Held, In
<1>8. created' >= created
  BY <1>2, CellsArePieces
<1> QED BY <1>2, <1>5, <1>6, <1>7, <1>8, Account, NoDrainIsDisturbed, NoViewIsDisturbed DEF Inv

(* append moves the values of the other collection behind the others.      *)
LEMMA AppendKeepsInv ==
    ASSUME Inv, append
    PROVE  Inv'
<1> DEFINE b == All(other)
           s == Cells \o b
<1>1. Piece(b) /\ ToSet(b) = KeptByOther
  BY DEF Inv, Owning, Pieces, IsCollection, KeptByOther
<1>2. /\ ~drain.open /\ view.kind # "Borrowed"
      /\ UNCHANGED <<kind, leaked, drain, view, plain, created>>
      /\ self' \in Layouts(s) /\ other' = Empty
      /\ released' = [v \in Value |-> released[v] + IF v \in {} THEN 1 ELSE 0]
  BY DEF append, Leaves, Exclusive, Release
<1> HIDE DEF b
<1>3. Kept \cap KeptByOther = {}
  BY Apart DEF Inv
<1>4. Piece(s) /\ ToSet(s) = Kept \cup KeptByOther
  BY <1>1, <1>3, Joins, CellsArePieces
<1> HIDE DEF s
<1>5. IsCollection(kind, self') /\ All(self') = s
  BY <1>2, <1>4, LayoutsHold DEF Inv, Owning
<1>6. \A v \in Value : released'[v] = released[v] /\ released[v] \in Nat
  BY <1>2 DEF Inv, Owning, Types
<1>7. Types'
  BY <1>2, <1>6 DEF Inv, Owning, Types
<1>8. Pieces'
  BY <1>2, <1>5, EmptyCollection DEF Inv, Owning, Pieces
<1>9. Balanced
  <2> SUFFICES ASSUME NEW v \in Value
               PROVE  Held(v)' = Held(v) + In(v, created + 1 .. created')
    BY DEF Balanced
  <2>1. /\ Kept' = Kept \cup KeptByOther /\ KeptByOther' = {}
        /\ KeptByPlain' = KeptByPlain /\ Rest' = Rest /\ After' = After /\ leaked' = leaked
    BY <1>2, <1>4, <1>5, EmptyCollection DEF Kept, KeptByOther, KeptByPlain, Rest, After
  <2>2. created + 1 .. created' = {}
    BY <1>2, CellsArePieces
  <2> QED BY <1>3, <1>6, <2>1, <2>2 DEF Held, In
<1>10. created' >= created
  BY <1>2, CellsArePieces
<1> QED BY <1>2, <1>7, <1>8, <1>9, <1>10, Account, NoDrainIsDisturbed, NoViewIsDisturbed DEF Inv

(* from_fn: the new values are in the new collection, or dropped when the  *)
(* closure panics.                                                         *)
LEMMA FromFnKeepsInv ==
    ASSUME Inv, NEW n \in 0 .. MaxValues, NEW panics \in BOOLEAN, from_fn(n, panics)
    PROVE  Inv'
<1>1. /\ n \in Nat /\ created + n <= MaxValues /\ created' = created + n
      /\ created' \in 0 .. MaxValues /\ created' >= created
  BY CellsArePieces DEF from_fn, Create
<1>2. Piece(New(n)) /\ ToSet(New(n)) = created + 1 .. created'
  BY <1>1, NewValues DEF Inv, Owning
<1> DEFINE N == created + 1 .. created'
           S == IF panics THEN N ELSE {}
<1>3. /\ UNCHANGED <<kind, self, plain, content, leaked, drain, view>> /\ other = Empty
      /\ released' = [v \in Value |-> released[v] + In(v, S)]
  BY <1>2 DEF from_fn, Release, In
<1>4. IsCollection(kind, other') /\ ToSet(All(other')) = N \ S
  <2>1. CASE panics
    <3>1. other' = Empty
      BY <2>1 DEF from_fn
    <3> QED BY <2>1, <3>1, EmptyCollection
  <2>2. CASE ~panics
    <3>1. other' \in Layouts(New(n))
      BY <2>2 DEF from_fn
    <3>2. IsCollection(kind, other') /\ All(other') = New(n)
      BY <1>2, <3>1, LayoutsHold DEF Inv, Owning
    <3> QED BY <1>2, <2>2, <3>2
  <2> QED BY <2>1, <2>2
<1>5. S \subseteq N
  OBVIOUS
<1> HIDE DEF S
<1>6. Types'
  BY <1>1, <1>3 DEF Inv, Owning, Types, In
<1>7. Pieces'
  BY <1>3, <1>4 DEF Inv, Owning, Pieces
<1>8. Balanced
  <2> SUFFICES ASSUME NEW v \in Value
               PROVE  Held(v)' = Held(v) + In(v, N)
    BY DEF Balanced
  <2> HIDE DEF N
  <2>1. /\ KeptByOther' = N \ S /\ KeptByOther = {} /\ Kept' = Kept
        /\ KeptByPlain' = KeptByPlain /\ Rest' = Rest /\ After' = After /\ leaked' = leaked
    BY <1>3, <1>4, EmptyCollection DEF Kept, KeptByOther, KeptByPlain, Rest, After
  <2>2. released'[v] = released[v] + In(v, S) /\ released[v] \in Nat
    BY <1>3 DEF Inv, Owning, Types
  <2> QED BY <1>5, <2>1, <2>2 DEF Held, In
<1>9. Contents(self.front)' = Contents(self.front)
  BY <1>3 DEF Contents
<1> QED BY <1>1, <1>3, <1>6, <1>7, <1>8, <1>9, Account, DrainGoesOn, NoViewIsDisturbed DEF Inv

(* clone_with writes the new values only, which a borrowed Cow does not    *)
(* show.                                                                   *)
LEMMA CloneKeepsInv ==
    ASSUME Inv, NEW n \in 0 .. Len(Cells), clone_with(n)
    PROVE  Inv'
<1>1. /\ n \in Nat /\ created + n <= MaxValues /\ created' = created + n
      /\ created' \in 0 .. MaxValues /\ created' >= created
  BY CellsArePieces DEF clone_with, Create
<1>2. Piece(New(n)) /\ ToSet(New(n)) = created + 1 .. created'
  BY <1>1, NewValues DEF Inv, Owning
<1> DEFINE N == created + 1 .. created'
           S == IF n = Len(Cells) THEN {} ELSE N
<1>3. /\ UNCHANGED <<kind, self, plain, leaked, drain, view>> /\ other = Empty
      /\ content' = [v \in Value |-> IF v \in N THEN content[Cells[v - created]] ELSE content[v]]
  BY <1>1 DEF clone_with
<1>4. /\ IsCollection(kind, other') /\ ToSet(All(other')) = N \ S
      /\ \A v \in Value : released'[v] = released[v] + In(v, S)
      /\ released' \in [Value -> Nat]
  <2>1. CASE n = Len(Cells)
    <3>1. other' \in Layouts(New(n)) /\ released' = released
      BY <2>1 DEF clone_with
    <3>2. IsCollection(kind, other') /\ All(other') = New(n)
      BY <1>2, <3>1, LayoutsHold DEF Inv, Owning
    <3>3. released \in [Value -> Nat]
      BY DEF Inv, Owning, Types
    <3>4. ToSet(All(other')) = N \ S
      BY <1>2, <2>1, <3>2
    <3> QED BY <2>1, <3>1, <3>2, <3>3, <3>4 DEF In
  <2>2. CASE n # Len(Cells)
    <3>1. other' = Empty /\ released' = [v \in Value |-> released[v] + In(v, N)]
      BY <1>2, <1>3, <2>2 DEF clone_with, Release, In
    <3>2. released \in [Value -> Nat]
      BY DEF Inv, Owning, Types
    <3>3. released' \in [Value -> Nat]
      BY <3>1, <3>2 DEF In
    <3> QED BY <2>2, <3>1, <3>3, EmptyCollection
  <2> QED BY <2>1, <2>2
<1>5. S \subseteq N
  OBVIOUS
<1> HIDE DEF S
<1>6. Types'
  BY <1>1, <1>3, <1>4 DEF Inv, Owning, Types
<1>7. Pieces'
  BY <1>3, <1>4 DEF Inv, Owning, Pieces
<1>8. Balanced
  <2> SUFFICES ASSUME NEW v \in Value
               PROVE  Held(v)' = Held(v) + In(v, N)
    BY DEF Balanced
  <2> HIDE DEF N
  <2>1. /\ KeptByOther' = N \ S /\ KeptByOther = {} /\ Kept' = Kept
        /\ KeptByPlain' = KeptByPlain /\ Rest' = Rest /\ After' = After /\ leaked' = leaked
    BY <1>3, <1>4, EmptyCollection DEF Kept, KeptByOther, KeptByPlain, Rest, After
  <2>2. released'[v] = released[v] + In(v, S) /\ released[v] \in Nat
    BY <1>4 DEF Inv, Owning, Types
  <2> QED BY <1>5, <2>1, <2>2 DEF Held, In
<1>9. Contents(self.front)' = Contents(self.front)
  <2>1. self.front \in Seq(Value) /\ self.back \in Seq(Value) /\ Cells = self.front \o self.back
    BY DEF Inv, Owning, Pieces, IsCollection, Cells, All
  <2>2. ToSet(self.front) \subseteq Kept
    BY <2>1, UnionOf, CellsArePieces
  <2>3. ASSUME NEW k \in 1 .. Len(self.front)
        PROVE  content'[self.front[k]] = content[self.front[k]]
    <3>1. self.front[k] \in Value /\ self.front[k] \in Kept
      BY <2>1, <2>2, Members
    <3>2. ~(self.front[k] > created)
      BY <3>1, Apart DEF Inv
    <3>3. self.front[k] \notin N
      BY <1>1, <3>1, <3>2, CellsArePieces DEF Value
    <3> HIDE DEF N
    <3> QED BY <1>3, <3>1, <3>3
  <2> QED BY <1>3, <2>3 DEF Contents
<1> QED BY <1>1, <1>3, <1>6, <1>7, <1>8, <1>9, Account, DrainGoesOn, NoViewIsDisturbed DEF Inv

(* The conversions move all values from one collection to another: their   *)
(* source is not dropped.                                                  *)
LEMMA ConversionKeepsInv ==
    ASSUME Inv, IntoPlain \/ FromPlain
    PROVE  Inv'
<1>1. /\ ~drain.open /\ view.kind # "Borrowed"
      /\ UNCHANGED <<kind, other, created, content, leaked, drain, view>>
      /\ released' = [v \in Value |-> released[v] + IF v \in {} THEN 1 ELSE 0]
  BY DEF IntoPlain, FromPlain, Release, ManuallyDrop, Exclusive
<1>2. \A v \in Value : released'[v] = released[v] /\ released[v] \in Nat
  BY <1>1 DEF Inv, Owning, Types
<1>3. Types'
  BY <1>1, <1>2 DEF Inv, Owning, Types
<1>4. Pieces' /\ Kept' \cup KeptByPlain' = Kept \cup KeptByPlain
      /\ Kept' \cap KeptByPlain' = {} /\ Kept \cap KeptByPlain = {}
  <2>1. IsCollection(kind, self) /\ IsCollection(kind, plain) /\ Kept \cap KeptByPlain = {}
    BY Apart DEF Inv, Owning, Pieces
  <2>2. CASE IntoPlain
    <3>1. plain = Empty /\ plain' = self /\ self' = Empty
      BY <2>2 DEF IntoPlain
    <3>2. Kept' = {} /\ KeptByPlain' = Kept /\ KeptByPlain = {}
      BY <3>1, EmptyCollection DEF Kept, KeptByPlain
    <3> QED BY <1>1, <2>1, <3>1, <3>2, EmptyCollection DEF Inv, Owning, Pieces
  <2>3. CASE FromPlain
    <3>1. Cells = << >> /\ self' = plain /\ plain' = Empty
      BY <2>3 DEF FromPlain
    <3>2. Kept = {} /\ Kept' = KeptByPlain /\ KeptByPlain' = {}
      BY <3>1, EmptyCollection, EmptyPiece, CellsArePieces DEF Kept, KeptByPlain
    <3> QED BY <1>1, <2>1, <3>1, <3>2, EmptyCollection DEF Inv, Owning, Pieces
  <2> QED BY <2>2, <2>3
<1>5. Balanced
  <2> SUFFICES ASSUME NEW v \in Value
               PROVE  Held(v)' = Held(v) + In(v, created + 1 .. created')
    BY DEF Balanced
  <2>1. KeptByOther' = KeptByOther /\ Rest' = Rest /\ After' = After /\ leaked' = leaked
    BY <1>1 DEF KeptByOther, Rest, After
  <2>2. created + 1 .. created' = {}
    BY <1>1, CellsArePieces
  <2>3. In(v, Kept') + In(v, KeptByPlain') = In(v, Kept) + In(v, KeptByPlain)
    BY <1>4 DEF In
  <2> QED BY <1>2, <2>1, <2>2, <2>3 DEF Held, In
<1>6. created' >= created
  BY <1>1, CellsArePieces
<1> QED BY <1>1, <1>3, <1>4, <1>5, <1>6, Account, NoDrainIsDisturbed, NoViewIsDisturbed DEF Inv

(* The other collections are dropped.                                      *)
LEMMA ConsumeOtherKeepsInv ==
    ASSUME Inv, ConsumeOther
    PROVE  Inv'
<1> DEFINE S == KeptByOther \cup KeptByPlain
<1>1. /\ UNCHANGED <<kind, self, created, content, leaked, drain, view>>
      /\ other' = Empty /\ plain' = Empty
      /\ released' = [v \in Value |-> released[v] + In(v, S)]
  BY DEF ConsumeOther, Release, KeptByOther, KeptByPlain, In
<1>2. Types'
  BY <1>1 DEF Inv, Owning, Types, In
<1>3. Pieces'
  BY <1>1, EmptyCollection DEF Inv, Owning, Pieces
<1>4. KeptByOther \cap KeptByPlain = {}
  BY Apart DEF Inv
<1>5. Balanced
  <2> SUFFICES ASSUME NEW v \in Value
               PROVE  Held(v)' = Held(v) + In(v, created + 1 .. created')
    BY DEF Balanced
  <2>1. /\ KeptByOther' = {} /\ KeptByPlain' = {}
        /\ Kept' = Kept /\ Rest' = Rest /\ After' = After /\ leaked' = leaked
    BY <1>1, EmptyCollection DEF Kept, KeptByOther, KeptByPlain, Rest, After
  <2>2. created + 1 .. created' = {}
    BY <1>1, CellsArePieces
  <2>3. released'[v] = released[v] + In(v, S) /\ released[v] \in Nat
    BY <1>1 DEF Inv, Owning, Types
  <2> QED BY <1>4, <2>1, <2>2, <2>3 DEF Held, In
<1>6. Contents(self.front)' = Contents(self.front) /\ created' >= created
  BY <1>1, CellsArePieces DEF Contents
<1> QED BY <1>1, <1>2, <1>3, <1>5, <1>6, Account, DrainGoesOn, NoViewIsDisturbed DEF Inv

----------------------------------------------------------------------------
(* The draining iterators.                                                 *)

(* A sequence cut in three.                                                *)
LEMMA ThreeParts ==
    ASSUME NEW s, Piece(s), NEW from \in 1 .. Len(s) + 1, NEW to \in 0 .. Len(s), from <= to + 1
    PROVE  LET a == SubSeq(s, 1, from - 1)
               b == SubSeq(s, from, to)
               c == SubSeq(s, to + 1, Len(s))
           IN /\ Piece(a) /\ Piece(b) /\ Piece(c)
              /\ (a \o b) \o c = s
              /\ ToSet(a) \cap ToSet(b) = {}
              /\ (ToSet(a) \cup ToSet(b)) \cap ToSet(c) = {}
              /\ ToSet(a) \cup ToSet(b) \cup ToSet(c) = ToSet(s)
<1> DEFINE a == SubSeq(s, 1, from - 1)
           b == SubSeq(s, from, to)
           c == SubSeq(s, to + 1, Len(s))
<1>1. s \in Seq(Value) /\ Len(s) \in Nat /\ \A i \in 1 .. Len(s) : s[i] \in Value
  BY Members DEF Piece
<1>2. from - 1 \in 0 .. Len(s) /\ from - 1 \in 1 - 1 .. Len(s) /\ (from - 1) + 1 = from
      /\ to \in from - 1 .. Len(s) /\ 1 \in 1 .. Len(s) + 1
  BY <1>1
<1>3. a \o b = SubSeq(s, 1, to)
  <2>1. SubSeq(s, 1, from - 1) \o SubSeq(s, (from - 1) + 1, to) = SubSeq(s, 1, to)
    BY <1>1, <1>2, ConcatAdjacentSubSeq
  <2> QED BY <1>2, <2>1
<1>4. a \in Seq(Value) /\ c \in Seq(Value) /\ SubSeq(s, 1, to) \o c = s
  BY <1>1, <1>2, Cut
<1>5. b \in Seq(Value)
  <2>1. from \in Int /\ to \in Int /\ \A i \in from .. to : s[i] \in Value
    BY <1>1
  <2> QED BY <2>1, SubSeqProperties
<1> HIDE DEF a, b, c
<1>6. (a \o b) \o c = s /\ a \o b \in Seq(Value)
  BY <1>3, <1>4, <1>5, ConcatProperties
<1>7. Piece(a \o b) /\ Piece(c) /\ ToSet(a \o b) \cap ToSet(c) = {}
      /\ ToSet(s) = ToSet(a \o b) \cup ToSet(c)
  BY <1>4, <1>6, Parts
<1>8. Piece(a) /\ Piece(b) /\ ToSet(a) \cap ToSet(b) = {} /\ ToSet(a \o b) = ToSet(a) \cup ToSet(b)
  BY <1>4, <1>5, <1>7, Parts
<1>9. /\ (ToSet(a) \cup ToSet(b)) \cap ToSet(c) = {}
      /\ ToSet(a) \cup ToSet(b) \cup ToSet(c) = ToSet(s)
  BY <1>7, <1>8
<1> QED BY <1>6, <1>7, <1>8, <1>9 DEF a, b, c

(* drain divides the collection between itself, the range and the tail.    *)
LEMMA DrainKeepsInv ==
    ASSUME Inv, NEW from \in 1 .. Len(Cells) + 1, NEW to \in 0 .. Len(Cells),
           drain_range(from, to)
    PROVE  Inv'
<1> DEFINE a == SubSeq(Cells, 1, from - 1)
           b == SubSeq(Cells, from, to)
           c == SubSeq(Cells, to + 1, Len(Cells))
           s == Cells
<1>1. /\ ~drain.open /\ view.kind # "Borrowed" /\ from <= to + 1
      /\ UNCHANGED <<kind, other, plain, created, content, released, leaked, view>>
      /\ self' \in Layouts(a)
      /\ drain' = [open |-> TRUE, firsts |-> << >>, rest |-> b, lasts |-> << >>,
                   tail |-> c, before |-> s]
  BY DEF drain_range, Exclusive, heap
<1>2. /\ Piece(a) /\ Piece(b) /\ Piece(c) /\ s \in Seq(Value)
      /\ (a \o b) \o c = s
      /\ ToSet(a) \cap ToSet(b) = {}
      /\ (ToSet(a) \cup ToSet(b)) \cap ToSet(c) = {}
      /\ ToSet(a) \cup ToSet(b) \cup ToSet(c) = Kept
  BY <1>1, ThreeParts, CellsArePieces DEF Piece
<1> HIDE DEF a, b, c, s
<1>3. IsCollection(kind, self') /\ All(self') = a
  BY <1>1, <1>2, LayoutsHold DEF Inv, Owning
<1>4. Rest = {} /\ After = {}
  BY <1>1, EmptyPiece DEF Inv, Draining, NoDrain, Rest, After
<1>5. Types' /\ created' >= created /\ created + 1 .. created' = {}
  BY <1>1, CellsArePieces DEF Inv, Owning, Types
<1>6. Pieces'
  BY <1>1, <1>2, <1>3 DEF Inv, Owning, Pieces
<1>7. Balanced
  <2> SUFFICES ASSUME NEW v \in Value
               PROVE  Held(v)' = Held(v) + In(v, created + 1 .. created')
    BY DEF Balanced
  <2>1. /\ Kept' = ToSet(a) /\ Rest' = ToSet(b) /\ After' = ToSet(c)
        /\ KeptByOther' = KeptByOther /\ KeptByPlain' = KeptByPlain /\ leaked' = leaked
    BY <1>1, <1>3 DEF Kept, KeptByOther, KeptByPlain, Rest, After
  <2>2. released'[v] = released[v] /\ released[v] \in Nat
    BY <1>1 DEF Inv, Owning, Types
  <2>3. In(v, ToSet(a)) + In(v, ToSet(b)) + In(v, ToSet(c)) = In(v, Kept)
    BY <1>2 DEF In
  <2> QED BY <1>4, <1>5, <2>1, <2>2, <2>3 DEF Held, In
<1>8. Draining'
  <2>1. drain'.open /\ drain' \in [open : BOOLEAN, firsts : Seq(Value), rest : Seq(Value),
                  lasts : Seq(Value), tail : Seq(Value), before : Seq(Value)]
    BY <1>1, <1>2, EmptySeq DEF Piece
  <2>2. a \o << >> = a /\ (a \o b) \o << >> = a \o b
    BY <1>2, ConcatEmptySeq, ConcatProperties DEF Piece
  <2>3. DrainGivesBothEnds'
    BY <1>1, <1>2, <1>3, <2>2 DEF DrainGivesBothEnds
  <2> QED BY <1>1, <2>1, <2>3 DEF Draining
<1> QED BY <1>1, <1>5, <1>6, <1>7, <1>8, Account, NoViewIsDisturbed DEF Inv

(* A drain that hands out the value h and goes on as d.                    *)
LEMMA YieldKeepsInv ==
    ASSUME Inv, drain.open, NEW h, NEW d, Yield(h, d),
           d \in [open : BOOLEAN, firsts : Seq(Value), rest : Seq(Value),
                  lasts : Seq(Value), tail : Seq(Value), before : Seq(Value)],
           d.open, d.tail = drain.tail, d.before = drain.before,
           Piece(d.rest), h \in Rest, ToSet(d.rest) = Rest \ {h},
           ((All(self) \o d.firsts) \o d.rest) \o d.lasts
              = ((All(self) \o drain.firsts) \o drain.rest) \o drain.lasts
    PROVE  Inv'
<1>1. /\ UNCHANGED <<kind, self, other, plain, created, content, leaked, view>> /\ drain' = d
      /\ released' = [v \in Value |-> released[v] + In(v, {h})]
  BY DEF Yield, Release, In
<1>2. Types' /\ created' >= created /\ created + 1 .. created' = {}
  BY <1>1, CellsArePieces DEF Inv, Owning, Types, In
<1>3. Pieces'
  BY <1>1 DEF Inv, Owning, Pieces
<1>4. Balanced
  <2> SUFFICES ASSUME NEW v \in Value
               PROVE  Held(v)' = Held(v) + In(v, created + 1 .. created')
    BY DEF Balanced
  <2>1. /\ Rest' = Rest \ {h} /\ After' = After /\ Kept' = Kept
        /\ KeptByOther' = KeptByOther /\ KeptByPlain' = KeptByPlain /\ leaked' = leaked
    BY <1>1 DEF Kept, KeptByOther, KeptByPlain, Rest, After
  <2>2. released'[v] = released[v] + In(v, {h}) /\ released[v] \in Nat
    BY <1>1 DEF Inv, Owning, Types
  <2>3. In(v, Rest \ {h}) + In(v, {h}) = In(v, Rest)
    BY DEF In
  <2>4. In(v, created + 1 .. created') = 0
    BY <1>2 DEF In
  <2> QED BY <2>1, <2>2, <2>3, <2>4 DEF Held, In
<1>5. Draining'
  <2>1. view.kind # "Borrowed"
    BY DEF Inv, Draining
  <2>2. DrainGivesBothEnds'
    BY <1>1 DEF Inv, Draining, DrainGivesBothEnds
  <2> QED BY <1>1, <2>1, <2>2 DEF Draining
<1>6. Contents(self.front)' = Contents(self.front)
  BY <1>1 DEF Contents
<1> QED BY <1>1, <1>2, <1>3, <1>4, <1>5, <1>6, Account, NoViewIsDisturbed DEF Inv

(* next takes the first value of the rest.                                 *)
LEMMA NextKeepsInv ==
    ASSUME Inv, next
    PROVE  Inv'
<1> DEFINE a == All(self)
           f == drain.firsts
           r == drain.rest
           h == Head(drain.rest)
           t == Tail(drain.rest)
           d == [drain EXCEPT !.firsts = Append(@, Head(drain.rest)), !.rest = Tail(@)]
<1>1. /\ drain.open /\ Yield(h, d) /\ r # << >>
      /\ drain \in [open : BOOLEAN, firsts : Seq(Value), rest : Seq(Value),
                    lasts : Seq(Value), tail : Seq(Value), before : Seq(Value)]
  BY DEF next, Inv, Draining
<1>2. /\ h \in Value /\ Piece(t) /\ r = <<h>> \o t
      /\ h \in Rest /\ ToSet(t) = Rest \ {h}
  BY <1>1, FirstOf DEF Inv, Owning, Pieces, Rest
<1>3. d = [drain EXCEPT !.firsts = Append(f, h), !.rest = t]
  BY <1>1
<1>4. a \in Seq(Value) /\ f \in Seq(Value) /\ <<h>> \in Seq(Value) /\ t \in Seq(Value)
  BY <1>1, <1>2 DEF Inv, Owning, Pieces, IsCollection, Piece
<1> HIDE DEF a, f, r, h, t, d
<1>5. (a \o Append(f, h)) \o t = (a \o f) \o r
  <2>1. Append(f, h) = f \o <<h>>
    BY <1>2, <1>4, AppendIsConcat
  <2>2. a \o (f \o <<h>>) = (a \o f) \o <<h>>
    BY <1>4, ConcatAssociative
  <2>3. ((a \o f) \o <<h>>) \o t = (a \o f) \o (<<h>> \o t)
    BY <1>4, ConcatAssociative, ConcatProperties
  <2> QED BY <1>2, <2>1, <2>2, <2>3
<1>6. Append(f, h) \in Seq(Value)
  BY <1>2, <1>4, AppendProperties
<1>7. /\ d \in [open : BOOLEAN, firsts : Seq(Value), rest : Seq(Value),
                lasts : Seq(Value), tail : Seq(Value), before : Seq(Value)]
      /\ d.open /\ d.tail = drain.tail /\ d.before = drain.before
      /\ d.firsts = Append(f, h) /\ d.rest = t /\ d.lasts = drain.lasts
  BY <1>1, <1>3, <1>4, <1>6
<1>8. ((All(self) \o d.firsts) \o d.rest) \o d.lasts
         = ((All(self) \o drain.firsts) \o drain.rest) \o drain.lasts
  BY <1>5, <1>7 DEF a, f, r
<1> QED BY <1>1, <1>2, <1>7, <1>8, YieldKeepsInv

(* What next_back takes from the end of the rest it puts before the lasts. *)
Regroups(p, t, e, l) == (p \o t) \o (e \o l) = (p \o (t \o e)) \o l

(* It does not matter for the whole, concatenation being associative.      *)
LEMMA Regrouped ==
    ASSUME NEW p \in Seq(Value), NEW t \in Seq(Value),
           NEW e \in Seq(Value), NEW l \in Seq(Value)
    PROVE  Regroups(p, t, e, l)
<1>1. p \o t \in Seq(Value)
  BY ConcatProperties
<1>2. (p \o t) \o e = p \o (t \o e)
  BY ConcatAssociative, SMTT(30)
<1>3. \A q \in Seq(Value) : (q \o e) \o l = q \o (e \o l)
  BY ConcatAssociative, SMTT(30)
<1>4. ((p \o t) \o e) \o l = (p \o t) \o (e \o l)
  BY <1>1, <1>3, Zenon
<1> QED BY <1>2, <1>4 DEF Regroups

(* next_back takes the last value of the rest.                             *)
LEMMA NextBackKeepsInv ==
    ASSUME Inv, next_back
    PROVE  Inv'
<1> DEFINE a == All(self)
           f == drain.firsts
           r == drain.rest
           l == drain.lasts
           h == Last(drain.rest)
           t == Front(drain.rest)
           d == TakesLast
<1>1. /\ drain.open /\ Yield(Head(d.lasts), d) /\ r # << >>
      /\ drain \in [open : BOOLEAN, firsts : Seq(Value), rest : Seq(Value),
                    lasts : Seq(Value), tail : Seq(Value), before : Seq(Value)]
  BY DEF next_back, Inv, Draining
<1>2. /\ h \in Value /\ Piece(t) /\ r = t \o <<h>>
      /\ h \in Rest /\ ToSet(t) = Rest \ {h}
  BY <1>1, LastOf DEF Inv, Owning, Pieces, Rest
<1>3. d = [drain EXCEPT !.lasts = <<h>> \o l, !.rest = t]
  BY <1>1 DEF TakesLast
<1>4. /\ a \in Seq(Value) /\ f \in Seq(Value) /\ <<h>> \in Seq(Value)
      /\ t \in Seq(Value) /\ l \in Seq(Value)
  BY <1>1, <1>2 DEF Inv, Owning, Pieces, IsCollection, Piece
<1> HIDE DEF a, f, r, l, h, t, d
<1>5. ((a \o f) \o t) \o (<<h>> \o l) = ((a \o f) \o r) \o l
  <2> DEFINE p == a \o f
             e == <<h>>
  <2>1. p \in Seq(Value) /\ t \in Seq(Value) /\ e \in Seq(Value) /\ l \in Seq(Value)
    BY <1>2, <1>4, ConcatProperties
  <2>2. r = t \o e
    BY <1>2
  <2> HIDE DEF p, e
  <2>3. Regroups(p, t, e, l)
    BY <2>1, Regrouped
  <2>4. (p \o t) \o (e \o l) = (p \o r) \o l
    BY <2>3, <2>2 DEF Regroups
  <2> QED BY <2>4 DEF p, e
<1>6. <<h>> \o l \in Seq(Value) /\ Head(<<h>> \o l) = h
  BY <1>2, <1>4
<1>7. /\ d \in [open : BOOLEAN, firsts : Seq(Value), rest : Seq(Value),
                lasts : Seq(Value), tail : Seq(Value), before : Seq(Value)]
      /\ d.open /\ d.tail = drain.tail /\ d.before = drain.before
      /\ d.firsts = f /\ d.rest = t /\ d.lasts = <<h>> \o l
  BY <1>1, <1>3, <1>4, <1>6 DEF f
<1>8. ((All(self) \o d.firsts) \o d.rest) \o d.lasts
         = ((All(self) \o drain.firsts) \o drain.rest) \o drain.lasts
  BY <1>5, <1>7 DEF a, f, r, l
<1>9. Yield(h, d)
  BY <1>1, <1>6, <1>7
<1> QED BY <1>1, <1>2, <1>7, <1>8, <1>9, YieldKeepsInv

(* A drain is dropped and puts its tail back, or is forgotten and leaks.   *)
LEMMA EndDrainKeepsInv ==
    ASSUME Inv, EndDrain
    PROVE  Inv'
<1>1. /\ drain.open /\ view.kind # "Borrowed" /\ drain' = NoDrain
      /\ UNCHANGED <<kind, other, plain, created, content, view>>
  BY DEF EndDrain, Inv, Draining
<1>2. Piece(drain.tail) /\ Rest' = {} /\ After' = {} /\ Piece(drain'.rest) /\ Piece(drain'.tail)
  BY <1>1, EmptyPiece DEF Inv, Owning, Pieces, NoDrain, Rest, After
<1>3. Kept \cap After = {} /\ Rest \cap After = {} /\ leaked \cap Rest = {} /\ leaked \cap After = {}
  BY Apart DEF Inv
<1>4. created' >= created /\ created + 1 .. created' = {} /\ KeptByOther' = KeptByOther
      /\ KeptByPlain' = KeptByPlain
  BY <1>1, CellsArePieces DEF KeptByOther, KeptByPlain
<1>5. Draining'
  BY <1>1, EmptySeq DEF Draining, NoDrain, DrainGivesBothEnds
<1>6. Viewing'
  BY <1>1, NoViewIsDisturbed DEF Inv
<1>7. Owning'
  <2>1. CASE /\ self' \in Layouts(Cells \o drain.tail)
             /\ Release(ToSet(drain.rest))
             /\ UNCHANGED leaked
    <3> DEFINE s == Cells \o drain.tail
    <3>1. Piece(s) /\ ToSet(s) = Kept \cup After
      BY <1>2, <1>3, Joins, CellsArePieces DEF After
    <3>2. released' = [v \in Value |-> released[v] + In(v, Rest)]
      BY <2>1 DEF Release, Rest, In
    <3>3. IsCollection(kind, self') /\ All(self') = s
      BY <2>1, <3>1, LayoutsHold DEF Inv, Owning
    <3>4. Types'
      BY <1>1, <2>1, <3>2 DEF Inv, Owning, Types, In
    <3>5. Pieces'
      BY <1>1, <1>2, <3>3 DEF Inv, Owning, Pieces
    <3>6. Balanced
      <4> SUFFICES ASSUME NEW v \in Value
                   PROVE  Held(v)' = Held(v) + In(v, created + 1 .. created')
        BY DEF Balanced
      <4>1. Kept' = Kept \cup After /\ leaked' = leaked
        BY <2>1, <3>1, <3>3 DEF Kept
      <4>2. released'[v] = released[v] + In(v, Rest) /\ released[v] \in Nat
        BY <3>2 DEF Inv, Owning, Types
      <4> QED BY <1>2, <1>3, <1>4, <4>1, <4>2 DEF Held, In
    <3> QED BY <1>4, <3>4, <3>5, <3>6, Account DEF Inv
  <2>2. CASE /\ leaked' = leaked \cup ToSet(drain.rest) \cup ToSet(drain.tail)
             /\ UNCHANGED <<self, released>>
    <3>1. leaked' = leaked \cup Rest \cup After /\ Kept' = Kept
      BY <2>2 DEF Rest, After, Kept
    <3>2. Rest \subseteq Value /\ After \subseteq Value
      BY Members DEF Inv, Owning, Pieces, Piece, Rest, After
    <3>3. Types'
      BY <1>1, <2>2, <3>1, <3>2 DEF Inv, Owning, Types
    <3>4. Pieces'
      BY <1>1, <1>2, <2>2 DEF Inv, Owning, Pieces
    <3>5. Balanced
      <4> SUFFICES ASSUME NEW v \in Value
                   PROVE  Held(v)' = Held(v) + In(v, created + 1 .. created')
        BY DEF Balanced
      <4>1. released'[v] = released[v] /\ released[v] \in Nat
        BY <2>2 DEF Inv, Owning, Types
      <4> QED BY <1>2, <1>3, <1>4, <3>1, <4>1 DEF Held, In
    <3> QED BY <1>4, <3>3, <3>4, <3>5, Account DEF Inv
  <2> QED BY <2>1, <2>2 DEF EndDrain
<1> QED BY <1>5, <1>6, <1>7 DEF Inv

----------------------------------------------------------------------------
(* Copy-on-write views.                                                    *)

(* A view is made of the whole queue, whichever policy was chosen: a queue *)
(* in two segments is always copied.                                       *)
LEMMA ViewShowsTheQueue ==
    ASSUME Inv, NEW policy, NEW v,
           \/ kind = "vec" /\ v = borrow_cow_with(policy)
           \/ kind = "deque" /\ v = cow_from_segments(self.front, self.back, policy)
    PROVE  \/ /\ v.kind = "Borrowed"
              /\ Contents(self.front) = v.then
           \/ /\ v.kind = "Owned"
              /\ v.values = v.then
<1>1. self.front \in Seq(Value) /\ Cells = self.front \o self.back /\ (kind = "vec" => self.back = << >>)
  BY DEF Inv, Owning, Pieces, IsCollection, Cells, All
<1>2. self.back = << >> => Cells = self.front
  BY <1>1, ConcatEmptySeq
<1>3. CASE self.back = << >>
  <2>1. v = cow(policy, self.front)
    BY <1>3 DEF borrow_cow_with, cow_from_segments
  <2>2. \/ v = [kind |-> "Borrowed", values |-> << >>, then |-> Contents(self.front)]
        \/ v = [kind |-> "Owned", values |-> Contents(self.front), then |-> Contents(self.front)]
    BY <1>2, <1>3, <2>1 DEF cow, BorrowedCow, Owned
  <2> QED BY <2>2
<1>4. CASE self.back # << >>
  <2>1. v = [kind |-> "Owned", values |-> Contents(self.front \o self.back),
             then |-> Contents(Cells)]
    BY <1>1, <1>4 DEF cow_from_segments, Owned
  <2> QED BY <1>1, <2>1
<1> QED BY <1>3, <1>4

(* borrow_cow, retain_cow, cow_if and cow_with.                            *)
LEMMA MakeViewKeepsInv ==
    ASSUME Inv, NEW policy, VecCow(policy) \/ DequeCow(policy)
    PROVE  Inv'
<1>1. /\ ~drain.open
      /\ UNCHANGED <<kind, self, other, plain, created, content, released, leaked, drain>>
  BY DEF VecCow, DequeCow, MakeView, Shareable, heap
<1>2. \/ kind = "vec" /\ view' = borrow_cow_with(policy)
      \/ kind = "deque" /\ view' = cow_from_segments(self.front, self.back, policy)
  BY DEF VecCow, DequeCow, MakeView
<1>3. \/ view'.kind = "Borrowed" /\ Contents(self.front) = view'.then
      \/ view'.kind = "Owned" /\ view'.values = view'.then
  BY <1>2, ViewShowsTheQueue
<1>4. Contents(self.front)' = Contents(self.front)
  BY <1>1 DEF Contents
<1>5. Viewing'
  BY <1>3, <1>4 DEF Viewing, CowsShowTheQueue, Shown
<1>6. Owning'
  BY <1>1 DEF Inv, Owning, Types, Pieces, OneOwner, Held, Kept, KeptByOther, KeptByPlain, Rest, After
<1> QED BY <1>1, <1>5, <1>6, NoDrainIsDisturbed DEF Inv

(* The Cow is dropped.                                                     *)
LEMMA DropViewKeepsInv ==
    ASSUME Inv, DropView
    PROVE  Inv'
<1>1. /\ view' = NoView
      /\ UNCHANGED <<kind, self, other, plain, created, content, released, leaked, drain>>
  BY DEF DropView, heap
<1>2. Owning'
  BY <1>1 DEF Inv, Owning, Types, Pieces, OneOwner, Held, Kept, KeptByOther, KeptByPlain, Rest, After
<1>3. Viewing'
  BY <1>1 DEF Viewing, CowsShowTheQueue, NoView
<1> QED BY <1>1, <1>2, <1>3, DrainGoesOn DEF Inv

----------------------------------------------------------------------------
(* The invariant.                                                          *)

(* The initial states.                                                     *)
LEMMA InitInv == Init => Inv
<1> SUFFICES ASSUME Init
             PROVE  Inv
  OBVIOUS
<1>1. Types
  BY MaxValuesAssumption DEF Init, Types
<1>2. Pieces
  BY EmptyCollection, EmptyPiece DEF Init, Pieces, NoDrain
<1>3. OneOwner
  <2>1. Kept = {} /\ KeptByOther = {} /\ KeptByPlain = {} /\ Rest = {} /\ After = {} /\ leaked = {}
    BY EmptyCollection, EmptyPiece DEF Init, NoDrain, Kept, KeptByOther, KeptByPlain, Rest, After
  <2>2. \A v \in Value : released[v] = 0 /\ ~(v <= created)
    BY DEF Init, Value
  <2> QED BY <2>1, <2>2 DEF OneOwner, Held, In
<1>4. Draining
  BY EmptySeq DEF Init, Draining, NoDrain, NoView, DrainGivesBothEnds
<1>5. Viewing
  BY DEF Init, Viewing, CowsShowTheQueue
<1> QED BY <1>1, <1>2, <1>3, <1>4, <1>5 DEF Inv, Owning

(* Every step, one case per operation.                                     *)
LEMMA NextInv == Inv /\ [Next]_vars => Inv'
<1> SUFFICES ASSUME Inv, [Next]_vars
             PROVE  Inv'
  OBVIOUS
<1>1. Len(Cells) \in Nat
  BY CellsArePieces
<1>2. CASE push \/ push_back \/ push_front \/ \E k \in 1 .. Len(Cells) + 1 : insert(k)
  <2>1. \E k \in 1 .. Len(Cells) + 1 : PutAt(k)
    BY <1>1, <1>2 DEF push, push_back, push_front, insert
  <2> QED BY <2>1, PutKeepsInv
<1>3. CASE \E n \in 0 .. MaxValues : extend(n)
  BY <1>3, ExtendKeepsInv
<1>4. CASE pop \/ pop_back \/ pop_front \/ \E k \in Places : remove(k)
  BY <1>4, TakeKeepsInv DEF pop, pop_back, pop_front, remove
<1>5. CASE \E k \in Places : swap_remove(k) \/ write(k)
  BY <1>5, SwapRemoveKeepsInv, WriteKeepsInv
<1>6. CASE \E a, b \in Places : swap(a, b)
  BY <1>6, SwapKeepsInv
<1>7. CASE \E n \in 0 .. Len(Cells) : truncate(n) \/ split_off(n) \/ clone_with(n)
  BY <1>7, TruncateKeepsInv, SplitOffKeepsInv, CloneKeepsInv
<1>8. CASE \E n \in 0 .. Len(Cells), K, W \in SUBSET ToSet(Cells) : retain_mut(n, K, W)
  BY <1>8, RetainKeepsInv
<1>9. CASE \E n \in 0 .. MaxValues, panics \in BOOLEAN : from_fn(n, panics)
  BY <1>9, FromFnKeepsInv
<1>10. CASE into_vec \/ into_vec_deque \/ from_vec \/ from_vec_deque
  BY <1>10, ConversionKeepsInv DEF into_vec, into_vec_deque, from_vec, from_vec_deque
<1>11. CASE Reallocate \/ append \/ Consume \/ ConsumeOther
  BY <1>11, ReallocateKeepsInv, AppendKeepsInv, ConsumeKeepsInv, ConsumeOtherKeepsInv
<1>12. CASE \E from \in 1 .. Len(Cells) + 1, to \in 0 .. Len(Cells) : drain_range(from, to)
  BY <1>12, DrainKeepsInv
<1>13. CASE next \/ next_back \/ EndDrain
  BY <1>13, NextKeepsInv, NextBackKeepsInv, EndDrainKeepsInv
<1>14. CASE \E policy \in {"Borrowed", "Retained"} : VecCow(policy) \/ DequeCow(policy)
  BY <1>14, MakeViewKeepsInv
<1>15. CASE DropView
  BY <1>15, DropViewKeepsInv
<1>16. CASE UNCHANGED vars
  <2>1. UNCHANGED <<kind, self, other, plain, created, content, released, leaked, drain, view>>
    BY <1>16 DEF vars, heap
  <2>2. Owning'
    BY <2>1 DEF Inv, Owning, Types, Pieces, OneOwner, Held, Kept, KeptByOther, KeptByPlain, Rest, After
  <2>3. Contents(self.front)' = Contents(self.front)
    BY <2>1 DEF Contents
  <2> QED BY <2>1, <2>2, <2>3, DrainGoesOn, NoViewIsDisturbed DEF Inv
<1> QED BY <1>2, <1>3, <1>4, <1>5, <1>6, <1>7, <1>8, <1>9, <1>10, <1>11, <1>12, <1>13,
            <1>14, <1>15, <1>16 DEF Next

(* In every reachable state the values have one owner each, drains and     *)
(* views are what they should be: whatever the program calls in which      *)
(* order, and whichever of its closures panics.                            *)
THEOREM CollectionsInvariance == Spec => []Inv
  BY InitInv, NextInv, PTL DEF Spec

(* How often a value is in a sequence of distinct values.                  *)
LEMMA Counted ==
    ASSUME NEW s, Piece(s), NEW v
    PROVE  Cardinality({k \in DOMAIN s : s[k] = v}) = In(v, ToSet(s))
<1>1. s \in Seq(Value) /\ DOMAIN s = 1 .. Len(s)
  BY DEF Piece
<1>2. CASE v \notin ToSet(s)
  <2>1. {k \in DOMAIN s : s[k] = v} = {}
    BY <1>1, <1>2, Members
  <2> QED BY <1>2, <2>1, FS_EmptySet DEF In
<1>3. CASE v \in ToSet(s)
  <2>1. PICK i \in 1 .. Len(s) : s[i] = v
    BY <1>1, <1>3, Members
  <2>2. {k \in DOMAIN s : s[k] = v} = {i}
    BY <1>1, <2>1 DEF Piece
  <2> QED BY <1>3, <2>2, FS_Singleton DEF In
<1> QED BY <1>2, <1>3

(* The owners one after the other: no value occurs twice.                  *)
LEMMA OwnersAreDistinct ==
    ASSUME Inv
    PROVE  /\ Piece(Owners)
           /\ \A v \in Value : In(v, ToSet(Owners)) =
                 In(v, Kept) + In(v, KeptByOther) + In(v, KeptByPlain) + In(v, Rest) + In(v, After)
<1> DEFINE a == All(self)
           b == All(other)
           c == All(plain)
           r == drain.rest
           t == drain.tail
<1>1. Piece(a) /\ Piece(b) /\ Piece(c) /\ Piece(r) /\ Piece(t)
  BY DEF Inv, Owning, Pieces, IsCollection
<1>2. /\ ToSet(a) = Kept /\ ToSet(b) = KeptByOther /\ ToSet(c) = KeptByPlain
      /\ ToSet(r) = Rest /\ ToSet(t) = After
  BY DEF Kept, KeptByOther, KeptByPlain, Rest, After
<1>3. Owners = (((a \o b) \o c) \o r) \o t
  BY DEF Owners
<1> HIDE DEF a, b, c, r, t
<1>4. \A v \in Value : released[v] \in Nat /\ Held(v) <= 1
  BY DEF Inv, Owning, OneOwner, Types
<1>5. /\ Kept \subseteq Value /\ KeptByOther \subseteq Value /\ KeptByPlain \subseteq Value
      /\ Rest \subseteq Value /\ After \subseteq Value
  BY <1>1, <1>2, Members DEF Piece
<1>6. /\ Kept \cap KeptByOther = {}
      /\ (Kept \cup KeptByOther) \cap KeptByPlain = {}
      /\ (Kept \cup KeptByOther \cup KeptByPlain) \cap Rest = {}
      /\ (Kept \cup KeptByOther \cup KeptByPlain \cup Rest) \cap After = {}
  BY <1>4, <1>5 DEF Held, In
<1>7. Piece(a \o b) /\ ToSet(a \o b) = Kept \cup KeptByOther
  BY <1>1, <1>2, <1>6, Joins
<1> DEFINE ab == a \o b
           abc == ab \o c
           abcr == abc \o r
<1>8. Piece(abc) /\ ToSet(abc) = Kept \cup KeptByOther \cup KeptByPlain
  <2> HIDE DEF ab
  <2>1. Piece(ab) /\ ToSet(ab) \cap ToSet(c) = {} /\ ToSet(ab) = Kept \cup KeptByOther
    BY <1>2, <1>6, <1>7 DEF ab
  <2> QED BY <1>1, <1>2, <2>1, Joins
<1> HIDE DEF abc
<1>9. Piece(abcr) /\ ToSet(abcr) = Kept \cup KeptByOther \cup KeptByPlain \cup Rest
  <2>1. ToSet(abc) \cap ToSet(r) = {}
    BY <1>2, <1>6, <1>8
  <2> QED BY <1>1, <1>2, <1>8, <2>1, Joins
<1> HIDE DEF abcr
<1>10. /\ Piece(abcr \o t)
       /\ ToSet(abcr \o t) = Kept \cup KeptByOther \cup KeptByPlain \cup Rest \cup After
  <2>1. ToSet(abcr) \cap ToSet(t) = {}
    BY <1>2, <1>6, <1>9
  <2> QED BY <1>1, <1>2, <1>9, <2>1, Joins
<1>11. Owners = abcr \o t
  BY <1>3 DEF abcr, abc, ab
<1> QED BY <1>6, <1>10, <1>11 DEF In

(* Every value has exactly one owner from its creation on, whichever calls *)
(* are made and whichever closure panics in them: BrandedVec and           *)
(* BrandedVecDeque neither lose a value nor give or drop it twice.         *)
THEOREM ValuesHaveOneOwner == Spec => []EachValueOwnedOnce
<1>1. Inv => EachValueOwnedOnce
  <2> SUFFICES ASSUME Inv, NEW v \in Value
               PROVE  Cardinality({k \in DOMAIN Owners : Owners[k] = v}) + released[v]
                         + (IF v \in leaked THEN 1 ELSE 0) = (IF v <= created THEN 1 ELSE 0)
    BY DEF EachValueOwnedOnce
  <2>1. Cardinality({k \in DOMAIN Owners : Owners[k] = v}) =
           In(v, Kept) + In(v, KeptByOther) + In(v, KeptByPlain) + In(v, Rest) + In(v, After)
    BY OwnersAreDistinct, Counted
  <2>2. Held(v) = (IF v <= created THEN 1 ELSE 0) /\ released[v] \in Nat
    BY DEF Inv, Owning, OneOwner, Types
  <2> HIDE DEF Owners
  <2> QED BY <2>1, <2>2 DEF Held, In
<1> QED BY <1>1, CollectionsInvariance, PTL

(* A Cow shows the queue as it was when the Cow was made, for as long as   *)
(* it lives: cow_from_segments copies a queue in two segments, and a       *)
(* borrowed one sees no write.                                             *)
THEOREM CowsAreFaithful == Spec => []CowsShowTheQueue
<1>1. Inv => CowsShowTheQueue
  BY DEF Inv, Viewing
<1> QED BY <1>1, CollectionsInvariance, PTL

(* However next and next_back alternate, a drain gives each value of its   *)
(* range once, those from the back in reverse, and keeps the rest.         *)
THEOREM DrainsGiveBothEnds == Spec => []DrainGivesBothEnds
<1>1. Inv => DrainGivesBothEnds
  BY DEF Inv, Draining
<1> QED BY <1>1, CollectionsInvariance, PTL
=============================================================================
