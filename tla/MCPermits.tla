----------------------------- MODULE MCPermits -----------------------------
(* A region brand with two cells, of which the first has a payload of two  *)
(* components; or a thread-local brand next to an exclusive one.           *)
EXTENDS Permits, TLC

CONSTANTS b1, b2, c1, c2, left, right, value

OneBrand == [c \in Cells |-> b1]
RegionFamily == [b \in Brands |-> "region"]

TwoBrands == (c1 :> b1) @@ (c2 :> b2)
TwoFamilies == (b1 :> "local") @@ (b2 :> "exclusive")

PairAndValue == [c \in Cells |-> IF c = c1 THEN {left, right} ELSE {value}]
Values == [c \in Cells |-> {value}]

(* One type of payload throughout, or a different one in each cell.        *)
OnlyOne(traits) == [c \in Cells |-> traits]
AnyPayloads == {OnlyOne({"Send"}), OnlyOne({"Sync"}), OnlyOne({"Send", "Sync"}),
                (c1 :> {"Sync"}) @@ (c2 :> {"Send"})}
PlainPayloads == {OnlyOne({"Send", "Sync"})}

(* Threads are alike, and so are the two components of the pair.           *)
Symmetry == Permutations(Threads) \cup Permutations({left, right})
=============================================================================
