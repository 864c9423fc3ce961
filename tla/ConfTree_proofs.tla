--------------------------- MODULE ConfTree_proofs ---------------------------
(***************************************************************************)
(* Theorems about ConfTree, for any keys, strings and files, and any       *)
(* number of blocks and calls.                                             *)
(***************************************************************************)
EXTENDS ConfTree, TLAPS, SequenceTheorems, FiniteSetTheorems, NaturalsInduction

LEMMA Least ==
  ASSUME NEW S \in SUBSET Nat, S # {}
  PROVE  \E x \in S : \A y \in S : x <= y
  <1> DEFINE Less == {p \in Nat \X Nat : p[1] < p[2]}
  <1>1. IsWellFoundedOn(Less, Nat)
    BY NatLessThanWellFounded DEF OpToRel
  <1> HIDE DEF Less
  <1>2. PICK x \in S : \A y \in S : ~(<<y, x>> \in Less)
    BY <1>1, WFMin
  <1>3. ASSUME NEW y \in S PROVE x <= y
    <2>1. x \in Nat /\ y \in Nat /\ ~(<<y, x>> \in Less)
      BY <1>2, <1>3
    <2> QED BY <2>1 DEF Less
  <1> QED BY <1>2, <1>3

(* Induction from the end of a range to its start, about a set instead of  *)
(* a predicate, so that the lemma can be used as it stands.                *)
LEMMA Downward ==
  ASSUME NEW m \in Nat, NEW S,
         \A n \in 1 .. m : (\A k \in n + 1 .. m : k \in S) => n \in S
  PROVE  \A n \in 1 .. m : n \in S
  <1> DEFINE Far == {j \in 0 .. m - 1 : m - j \notin S}
  <1> SUFFICES ASSUME Far # {} PROVE FALSE
    <2> SUFFICES ASSUME NEW n \in 1 .. m, Far = {} PROVE n \in S
      OBVIOUS
    <2>1. m - n \in 0 .. m - 1 /\ m - (m - n) = n
      OBVIOUS
    <2> QED BY <2>1
  <1>1. Far \in SUBSET Nat
    OBVIOUS
  <1> HIDE DEF Far
  <1>2. PICK j \in Far : \A i \in Far : j <= i
    BY <1>1, Least
  <1>3. j \in 0 .. m - 1 /\ m - j \notin S
    BY DEF Far
  <1>4. ASSUME NEW k \in m - j + 1 .. m PROVE k \in S
    <2>1. m - k \in 0 .. m - 1 /\ m - k < j /\ m - (m - k) = k
      BY <1>3
    <2>2. m - k \notin Far
      BY <1>1, <1>2, <1>3, <2>1
    <2> QED BY <2>1, <2>2 DEF Far
  <1>5. m - j \in 1 .. m
    BY <1>3
  <1> QED BY <1>3, <1>4, <1>5

-----------------------------------------------------------------------------
(* The heaps that calls can make: sequences of blocks in which a child     *)
(* comes after its parent and has no second place.                         *)
Heaps == Seq(Blocks \cup {NULL})

Down(h) ==
    \A a \in Live(h) : \A c \in Children(h, a) : c \in Live(h) /\ a < c

Once(h) ==
    \A a, b \in Live(h) : \A m \in BlockItems(h, a), n \in BlockItems(h, b) :
        h[a].items[m].value = h[b].items[n].value => a = b /\ m = n

IsForest(h) == h \in Heaps /\ Down(h) /\ Once(h)

Hung(h, c) == \E a \in Live(h) : c \in Children(h, a)

LEMMA BlockTypes ==
  ASSUME NEW block \in Blocks
  PROVE  /\ block # NULL
         /\ block.parent \in Nat /\ block.name \in Seq(STRING) /\ block.items \in Seq(Items)
         /\ Len(block.items) \in Nat /\ DOMAIN block.items = 1 .. Len(block.items)
         /\ \A n \in DOMAIN block.items : block.items[n] \in Items
  <1>1. block # NULL
    BY StringsAssumption
  <1> QED BY <1>1 DEF Blocks

LEMMA ItemTypes ==
  ASSUME NEW item \in Items
  PROVE  /\ item = Item(item.type, item.key, item.value)
         /\ item.key \in Keys \cup {NULL}
         /\ item.type \in {"block", "value", "comment"}
         /\ item.type = "block" => item.value \in Nat
         /\ item.type = "value" => item.value \in Seq(STRING)
         /\ item.type = "comment" => item.value \in STRING
  BY DEF Items, Item

LEMMA NewItemTypes ==
  ASSUME NEW key \in Keys \cup {NULL}
  PROVE  /\ \A n \in Nat : Item("block", key, n) \in Items
         /\ \A list \in Seq(STRING) : Item("value", key, list) \in Items
         /\ \A text \in STRING : Item("comment", key, text) \in Items
  BY DEF Items, Item

LEMMA HeapTypes ==
  ASSUME NEW h \in Heaps
  PROVE  /\ Len(h) \in Nat /\ DOMAIN h = 1 .. Len(h)
         /\ Live(h) \subseteq 1 .. Len(h)
         /\ \A a \in Live(h) : h[a] \in Blocks /\ a \in Nat /\ a > 0
  BY DEF Heaps, Live

LEMMA ChildrenAre ==
  ASSUME NEW h, NEW a, NEW c
  PROVE  c \in Children(h, a) <=> \E n \in BlockItems(h, a) : h[a].items[n].value = c
  BY DEF Children

-----------------------------------------------------------------------------
(* Below is what its definition says.                                      *)
BelowBody(h, f, a) == {a} \cup UNION {f[c] : c \in Children(h, a)}

LEMMA BelowExists ==
  ASSUME NEW h, IsForest(h)
  PROVE  \E g : g = [a \in Live(h) |-> BelowBody(h, g, a)]
  <1> DEFINE From(k) == {a \in Live(h) : a >= k}
             Partly(k) == \E g : g = [a \in From(k) |-> BelowBody(h, g, a)]
             S == {k \in 1 .. Len(h) + 1 : Partly(k)}
  <1>1. h \in Heaps /\ Len(h) \in Nat /\ Live(h) \subseteq 1 .. Len(h)
    BY HeapTypes DEF IsForest
  <1>2. ASSUME NEW n \in 1 .. Len(h) + 1, \A k \in n + 1 .. Len(h) + 1 : k \in S
        PROVE  n \in S
    <2>1. PICK f : f = [a \in From(n + 1) |-> BelowBody(h, f, a)]
      <3>1. CASE n = Len(h) + 1
        <4> DEFINE f == [a \in From(n + 1) |-> {}]
        <4>1. From(n + 1) = {}
          BY <1>1, <3>1
        <4>2. f = [a \in From(n + 1) |-> BelowBody(h, f, a)]
          BY <4>1
        <4> QED BY <4>2
      <3>2. CASE n # Len(h) + 1
        <4>1. n + 1 \in S
          <5> HIDE DEF S
          <5> QED BY <1>1, <1>2, <3>2
        <4>2. Partly(n + 1)
          BY <4>1
        <4> HIDE DEF From
        <4> QED BY <4>2
      <3> QED BY <3>1, <3>2
    <2> DEFINE g == [a \in From(n) |-> BelowBody(h, f, a)]
    <2>2. ASSUME NEW a \in From(n) PROVE BelowBody(h, g, a) = BelowBody(h, f, a)
      <3>1. ASSUME NEW c \in Children(h, a) PROVE g[c] = f[c]
        <4>1. c \in From(n + 1) /\ c \in From(n)
          BY <1>1, <2>2, <3>1 DEF IsForest, Down
        <4>2. f[c] = BelowBody(h, f, c) /\ g[c] = BelowBody(h, f, c)
          BY <2>1, <4>1
        <4> QED BY <4>2
      <3> HIDE DEF g
      <3>2. {g[c] : c \in Children(h, a)} = {f[c] : c \in Children(h, a)}
        BY <3>1
      <3> QED BY <3>2 DEF BelowBody
    <2>3. g = [a \in From(n) |-> BelowBody(h, g, a)]
      <3>1. g = [a \in From(n) |-> BelowBody(h, f, a)]
        OBVIOUS
      <3> HIDE DEF g
      <3> QED BY <2>2, <3>1
    <2> QED BY <2>3
  <1>3. 1 \in S
    <2> HIDE DEF S
    <2>1. Len(h) + 1 \in Nat
      BY <1>1
    <2>2. \A n \in 1 .. Len(h) + 1 : n \in S
      BY <2>1, <1>2, Downward
    <2> QED BY <1>1, <2>2
  <1>4. From(1) = Live(h)
    BY <1>1
  <1> QED BY <1>3, <1>4

LEMMA BelowUnfolds ==
  ASSUME NEW h, IsForest(h), NEW b \in Live(h)
  PROVE  Below(h, b) = {b} \cup UNION {Below(h, c) : c \in Children(h, b)}
  <1> DEFINE f == CHOOSE g : g = [a \in Live(h) |-> BelowBody(h, g, a)]
  <1>1. \A a : Below(h, a) = f[a]
    BY DEF Below, BelowBody
  <1>2. f = [a \in Live(h) |-> BelowBody(h, f, a)]
    BY BelowExists
  <1> HIDE DEF f
  <1>3. f[b] = BelowBody(h, f, b)
    BY <1>2
  <1>4. {Below(h, c) : c \in Children(h, b)} = {f[c] : c \in Children(h, b)}
    BY <1>1
  <1> QED BY <1>1, <1>3, <1>4 DEF BelowBody

(* What hangs below a block comes after it and is still there.             *)
LEMMA BelowIsLive ==
  ASSUME NEW h, IsForest(h), NEW b \in Live(h)
  PROVE  b \in Below(h, b) /\ \A a \in Below(h, b) : a \in Live(h) /\ b <= a
  <1> DEFINE S == {k \in 1 .. Len(h) : k \in Live(h) => \A a \in Below(h, k) : a \in Live(h) /\ k <= a}
  <1>1. h \in Heaps /\ Len(h) \in Nat /\ Live(h) \subseteq 1 .. Len(h)
    BY HeapTypes DEF IsForest
  <1>2. ASSUME NEW n \in 1 .. Len(h), \A k \in n + 1 .. Len(h) : k \in S
        PROVE  n \in S
    <2> SUFFICES ASSUME n \in Live(h), NEW a \in Below(h, n), a # n
                 PROVE  a \in Live(h) /\ n <= a
      BY <1>1, <1>2
    <2>1. PICK c \in Children(h, n) : a \in Below(h, c)
      BY BelowUnfolds
    <2>2. c \in Live(h) /\ n < c
      BY DEF IsForest, Down
    <2>3. c \in S
      BY <1>1, <1>2, <2>2
    <2> QED BY <1>1, <2>1, <2>2, <2>3
  <1>3. \A n \in 1 .. Len(h) : n \in S
    <2> HIDE DEF S
    <2> QED BY <1>1, <1>2, Downward
  <1>4. b \in S
    BY <1>1, <1>3
  <1> QED BY <1>4, BelowUnfolds

(* It is whole: with a block there is what hangs from it.                  *)
LEMMA BelowIsWhole ==
  ASSUME NEW h, IsForest(h), NEW b \in Live(h), NEW a \in Below(h, b), NEW c \in Children(h, a)
  PROVE  c \in Below(h, b)
  <1> DEFINE Whole(k) == \A x \in Below(h, k) : \A y \in Children(h, x) : y \in Below(h, k)
             S == {k \in 1 .. Len(h) : k \in Live(h) => Whole(k)}
  <1>1. h \in Heaps /\ Len(h) \in Nat /\ Live(h) \subseteq 1 .. Len(h)
    BY HeapTypes DEF IsForest
  <1>2. ASSUME NEW n \in 1 .. Len(h), \A k \in n + 1 .. Len(h) : k \in S
        PROVE  n \in S
    <2> SUFFICES ASSUME n \in Live(h), NEW x \in Below(h, n), NEW y \in Children(h, x)
                 PROVE  y \in Below(h, n)
      BY <1>1, <1>2
    <2>1. CASE x = n
      <3>1. y \in Live(h)
        BY <2>1 DEF IsForest, Down
      <3>2. y \in Below(h, y)
        BY <3>1, BelowIsLive
      <3> QED BY <2>1, <3>2, BelowUnfolds
    <2>2. CASE x # n
      <3>1. PICK k \in Children(h, n) : x \in Below(h, k)
        BY <2>2, BelowUnfolds
      <3>2. k \in Live(h) /\ n < k
        BY DEF IsForest, Down
      <3>3. k \in S
        BY <1>1, <1>2, <3>2
      <3>4. y \in Below(h, k)
        BY <3>1, <3>2, <3>3
      <3> QED BY <3>4, BelowUnfolds
    <2> QED BY <2>1, <2>2
  <1>3. \A n \in 1 .. Len(h) : n \in S
    <2> HIDE DEF S
    <2> QED BY <1>1, <1>2, Downward
  <1>4. b \in S
    BY <1>1, <1>3
  <1> QED BY <1>4

(* And there is no more: all but the block itself hang in it.              *)
LEMMA BelowHangs ==
  ASSUME NEW h, IsForest(h), NEW b \in Live(h), NEW a \in Below(h, b), a # b
  PROVE  \E c \in Below(h, b) : a \in Children(h, c)
  <1> DEFINE Tied(k) == \A x \in Below(h, k) : x = k \/ \E c \in Below(h, k) : x \in Children(h, c)
             S == {k \in 1 .. Len(h) : k \in Live(h) => Tied(k)}
  <1>1. h \in Heaps /\ Len(h) \in Nat /\ Live(h) \subseteq 1 .. Len(h)
    BY HeapTypes DEF IsForest
  <1>2. ASSUME NEW n \in 1 .. Len(h), \A k \in n + 1 .. Len(h) : k \in S
        PROVE  n \in S
    <2> SUFFICES ASSUME n \in Live(h), NEW x \in Below(h, n), x # n
                 PROVE  \E c \in Below(h, n) : x \in Children(h, c)
      BY <1>1, <1>2
    <2>1. PICK k \in Children(h, n) : x \in Below(h, k)
      BY BelowUnfolds
    <2>2. k \in Live(h) /\ n < k
      BY DEF IsForest, Down
    <2>3. k \in S
      BY <1>1, <1>2, <2>2
    <2>4. CASE x = k
      BY <2>1, <2>4, BelowIsLive
    <2>5. CASE x # k
      <3>1. PICK c \in Below(h, k) : x \in Children(h, c)
        BY <2>1, <2>2, <2>3, <2>5
      <3> QED BY <3>1, <2>1, BelowUnfolds
    <2> QED BY <2>4, <2>5
  <1>3. \A n \in 1 .. Len(h) : n \in S
    <2> HIDE DEF S
    <2> QED BY <1>1, <1>2, Downward
  <1>4. b \in S
    BY <1>1, <1>3
  <1> QED BY <1>4

-----------------------------------------------------------------------------
(* The ranks of a finite set of numbers are 1, 2, 3 and so on.             *)
LEMMA RanksAre ==
  ASSUME NEW m \in Nat, NEW S \in SUBSET (1 .. m)
  PROVE  /\ Cardinality(S) \in Nat
         /\ \A a \in S : Rank(S, a) \in 1 .. Cardinality(S)
         /\ \A a, c \in S : a < c => Rank(S, a) < Rank(S, c)
         /\ \A k \in 1 .. Cardinality(S) : \E a \in S : Rank(S, a) = k
  <1> DEFINE UpTo(a) == {c \in S : c <= a}
  <1>1. IsFiniteSet(S) /\ Cardinality(S) \in Nat
    <2>1. IsFiniteSet(1 .. m)
      BY FS_Interval
    <2>2. IsFiniteSet(S)
      BY <2>1, FS_Subset
    <2> QED BY <2>2, FS_CardinalityType
  <1>2. ASSUME NEW a \in S
        PROVE  IsFiniteSet(UpTo(a)) /\ Rank(S, a) = Cardinality(UpTo(a)) /\ Rank(S, a) \in 1 .. Cardinality(S)
    <2>1. UpTo(a) \in SUBSET S /\ a \in UpTo(a)
      OBVIOUS
    <2>2. Rank(S, a) = Cardinality(UpTo(a))
      BY DEF Rank
    <2> HIDE DEF UpTo
    <2>3. IsFiniteSet(UpTo(a)) /\ Cardinality(UpTo(a)) <= Cardinality(S)
      BY <1>1, <2>1, FS_Subset
    <2>4. Cardinality(UpTo(a)) \in Nat /\ Cardinality(UpTo(a)) # 0
      BY <2>1, <2>3, FS_CardinalityType, FS_EmptySet
    <2> QED BY <1>1, <2>2, <2>3, <2>4
  <1>3. ASSUME NEW a \in S, NEW c \in S, a < c PROVE Rank(S, a) < Rank(S, c)
    <2>1. UpTo(a) \in SUBSET UpTo(c) /\ UpTo(a) # UpTo(c)
      <3>1. a \in 1 .. m /\ c \in 1 .. m
        OBVIOUS
      <3>2. c \in UpTo(c) /\ c \notin UpTo(a)
        BY <1>3, <3>1
      <3>3. ASSUME NEW x \in UpTo(a) PROVE x \in UpTo(c)
        <4>1. x \in S /\ x \in 1 .. m /\ x <= a
          BY <3>3
        <4> QED BY <1>3, <3>1, <4>1
      <3> QED BY <3>2, <3>3
    <2> HIDE DEF UpTo
    <2>2. Cardinality(UpTo(a)) <= Cardinality(UpTo(c)) /\ Cardinality(UpTo(a)) # Cardinality(UpTo(c))
      BY <1>2, <2>1, FS_Subset
    <2>3. Rank(S, a) \in Nat /\ Rank(S, c) \in Nat
      BY <1>2
    <2> QED BY <1>2, <2>2, <2>3
  <1>4. ASSUME NEW a \in S, NEW c \in S, Rank(S, a) = Rank(S, c) PROVE a = c
    <2>1. a \in Int /\ c \in Int
      OBVIOUS
    <2>2. Rank(S, a) \in 1 .. Cardinality(S)
      BY <1>2
    <2>3. Rank(S, a) \in Int
      BY <2>2
    <2>4. ~(a < c) /\ ~(c < a)
      BY <1>3, <1>4, <2>3
    <2> QED BY <2>1, <2>4
  <1>5. ASSUME NEW k \in 1 .. Cardinality(S) PROVE \E a \in S : Rank(S, a) = k
    <2> DEFINE T == 1 .. Cardinality(S)
               f == [a \in S |-> Rank(S, a)]
    <2>1. f \in [S -> T]
      BY <1>2
    <2>2. \A a, c \in S : f[a] = f[c] => a = c
      BY <1>4
    <2> HIDE DEF f
    <2>3. f \in Injection(S, T)
      BY <2>1, <2>2 DEF Injection, IsInjective
    <2>4. IsFiniteSet(T) /\ Cardinality(T) = Cardinality(S)
      BY <1>1, FS_Interval
    <2> HIDE DEF T
    <2>5. f \in Surjection(S, T)
      BY <2>3, <2>4, FS_Injection
    <2>6. \E a \in S : f[a] = k
      BY <2>5 DEF Surjection, T
    <2> QED BY <2>6 DEF f
  <1> QED BY <1>1, <1>2, <1>3, <1>5

(* The places of the copies: behind all blocks, in the order of what they  *)
(* are copies of, that of the block itself first.                          *)
LEMMA CopiesAre ==
  ASSUME NEW h, IsForest(h), NEW b \in Live(h)
  PROVE  /\ Cardinality(Below(h, b)) \in Nat /\ Cardinality(Below(h, b)) > 0
         /\ \A a \in Below(h, b) : CopyAt(h, b)[a] \in Len(h) + 1 .. Len(h) + Cardinality(Below(h, b))
         /\ \A a, c \in Below(h, b) : a < c => CopyAt(h, b)[a] < CopyAt(h, b)[c]
         /\ \A k \in 1 .. Cardinality(Below(h, b)) : \E a \in Below(h, b) : CopyAt(h, b)[a] = Len(h) + k
         /\ CopyAt(h, b)[b] = Len(h) + 1
  <1> DEFINE S == Below(h, b)
             N == Cardinality(S)
  <1>1. Len(h) \in Nat /\ Live(h) \subseteq 1 .. Len(h)
    BY HeapTypes DEF IsForest
  <1>2. S \in SUBSET (1 .. Len(h)) /\ b \in S /\ \A a \in S : b <= a
    BY <1>1, BelowIsLive
  <1>3. \A a \in S : CopyAt(h, b)[a] = Len(h) + Rank(S, a)
    BY DEF CopyAt
  <1> HIDE DEF S
  <1>4. /\ N \in Nat
        /\ \A a \in S : Rank(S, a) \in 1 .. N
        /\ \A a, c \in S : a < c => Rank(S, a) < Rank(S, c)
        /\ \A k \in 1 .. N : \E a \in S : Rank(S, a) = k
    BY <1>1, <1>2, RanksAre
  <1> HIDE DEF N
  <1>5. N > 0
    BY <1>2, <1>4
  <1>6. PICK a \in S : Rank(S, a) = 1
    BY <1>4, <1>5
  <1>7. a = b
    <2> SUFFICES ASSUME a # b PROVE FALSE
      OBVIOUS
    <2>1. b < a
      BY <1>1, <1>2
    <2>2. Rank(S, b) < 1 /\ Rank(S, b) \in 1 .. N
      BY <1>2, <1>4, <1>6, <2>1
    <2> QED BY <1>4, <2>2
  <1>8. \A x \in S : CopyAt(h, b)[x] \in Len(h) + 1 .. Len(h) + N
    BY <1>1, <1>3, <1>4
  <1>9. \A x, c \in S : x < c => CopyAt(h, b)[x] < CopyAt(h, b)[c]
    <2> SUFFICES ASSUME NEW x \in S, NEW c \in S, x < c PROVE CopyAt(h, b)[x] < CopyAt(h, b)[c]
      OBVIOUS
    <2>1. Rank(S, x) \in Int /\ Rank(S, c) \in Int /\ Rank(S, x) < Rank(S, c)
      BY <1>4
    <2> QED BY <1>1, <1>3, <2>1
  <1>10. \A k \in 1 .. N : \E x \in S : CopyAt(h, b)[x] = Len(h) + k
    BY <1>3, <1>4
  <1>11. CopyAt(h, b)[b] = Len(h) + 1
    BY <1>2, <1>3, <1>6, <1>7
  <1> QED BY <1>4, <1>5, <1>8, <1>9, <1>10, <1>11 DEF S, N

-----------------------------------------------------------------------------
(* The place n of block a is that of c.  What the calls do to the places   *)
(* of a heap is all that matters for its shape.                            *)
Hangs(h, a, n, c) ==
    a \in Live(h) /\ n \in BlockItems(h, a) /\ h[a].items[n].value = c

LEMMA ForestIs ==
  ASSUME NEW h \in Heaps
  PROVE  IsForest(h) <=> /\ \A a, n, c : Hangs(h, a, n, c) => c \in Live(h) /\ a < c
                         /\ \A a, m, b, n, c : Hangs(h, a, m, c) /\ Hangs(h, b, n, c) => a = b /\ m = n
  <1>1. Down(h) <=> \A a, n, c : Hangs(h, a, n, c) => c \in Live(h) /\ a < c
    BY DEF Down, Hangs, Children
  <1>2. Once(h) <=> \A a, m, b, n, c : Hangs(h, a, m, c) /\ Hangs(h, b, n, c) => a = b /\ m = n
    BY DEF Once, Hangs
  <1> QED BY <1>1, <1>2 DEF IsForest

LEMMA HungIs ==
  ASSUME NEW h, NEW c
  PROVE  /\ Hung(h, c) <=> \E a, n : Hangs(h, a, n, c)
         /\ \A a \in Live(h) : c \in Children(h, a) <=> \E n : Hangs(h, a, n, c)
  BY DEF Hung, Hangs, Children

(* A block is replaced.                                                    *)
LEMMA Replaced ==
  ASSUME NEW h \in Heaps, NEW b \in Live(h), NEW new \in Blocks
  PROVE  LET g == [h EXCEPT ![b] = new]
         IN  /\ g \in Heaps /\ Len(g) = Len(h) /\ DOMAIN g = DOMAIN h
             /\ Live(g) = Live(h)
             /\ g[b] = new
             /\ \A a \in DOMAIN h : a # b => g[a] = h[a]
  <1> DEFINE g == [h EXCEPT ![b] = new]
  <1>1. b \in DOMAIN h /\ b \in 1 .. Len(h)
    BY HeapTypes
  <1>2. g \in Heaps /\ Len(g) = Len(h) /\ DOMAIN g = DOMAIN h
    BY <1>1 DEF Heaps
  <1>3. g[b] = new /\ \A a \in DOMAIN h : a # b => g[a] = h[a]
    BY <1>1
  <1> HIDE DEF g
  <1>4. Live(g) = Live(h)
    BY <1>1, <1>2, <1>3, BlockTypes DEF Live
  <1> QED BY <1>2, <1>3, <1>4 DEF g

(* A block gets one more item.                                             *)
LEMMA Longer ==
  ASSUME NEW block \in Blocks, NEW item \in Items
  PROVE  LET new == [block EXCEPT !.items = Append(block.items, item)]
             last == Len(block.items) + 1
         IN  /\ new \in Blocks /\ new.parent = block.parent /\ new.name = block.name
             /\ DOMAIN new.items = DOMAIN block.items \cup {last}
             /\ last \notin DOMAIN block.items
             /\ Len(new.items) = last
             /\ new.items[last] = item
             /\ \A n \in DOMAIN block.items : new.items[n] = block.items[n]
  <1> DEFINE list == Append(block.items, item)
             new == [block EXCEPT !.items = list]
             last == Len(block.items) + 1
  <1>1. /\ block.items \in Seq(Items) /\ Len(block.items) \in Nat
        /\ DOMAIN block.items = 1 .. Len(block.items)
    BY BlockTypes
  <1>2. /\ list \in Seq(Items) /\ Len(list) = last /\ list[last] = item
        /\ \A n \in DOMAIN block.items : list[n] = block.items[n]
    BY <1>1, AppendProperties
  <1>3. DOMAIN list = DOMAIN block.items \cup {last} /\ last \notin DOMAIN block.items
    BY <1>1, <1>2
  <1> HIDE DEF list
  <1>4. new \in Blocks /\ new.parent = block.parent /\ new.name = block.name /\ new.items = list
    BY <1>2 DEF Blocks
  <1> QED BY <1>2, <1>3, <1>4 DEF list

LEMMA ItemAdded ==
  ASSUME NEW h \in Heaps, NEW b \in Live(h), NEW item \in Items
  PROVE  LET g == LinkItem(h, b, item)
             last == Len(h[b].items) + 1
         IN  /\ g \in Heaps /\ Len(g) = Len(h) /\ DOMAIN g = DOMAIN h
             /\ Live(g) = Live(h)
             /\ \A a \in DOMAIN h : a # b => g[a] = h[a]
             /\ g[b].parent = h[b].parent /\ g[b].name = h[b].name
             /\ Len(g[b].items) = last
             /\ \A n \in DOMAIN h[b].items : g[b].items[n] = h[b].items[n]
             /\ \A a, n, c : Hangs(g, a, n, c) <=>
                    \/ Hangs(h, a, n, c)
                    \/ a = b /\ n = last /\ item.type = "block" /\ item.value = c
  <1> DEFINE new == [h[b] EXCEPT !.items = Append(h[b].items, item)]
             g == [h EXCEPT ![b] = new]
             last == Len(h[b].items) + 1
  <1>1. h[b] \in Blocks
    BY HeapTypes
  <1>2. g = LinkItem(h, b, item)
    BY DEF LinkItem
  <1>3. /\ new \in Blocks /\ new.parent = h[b].parent /\ new.name = h[b].name
        /\ DOMAIN new.items = DOMAIN h[b].items \cup {last} /\ last \notin DOMAIN h[b].items
        /\ Len(new.items) = last /\ new.items[last] = item
        /\ \A n \in DOMAIN h[b].items : new.items[n] = h[b].items[n]
    BY <1>1, Longer
  <1> HIDE DEF new, last
  <1>4. /\ g \in Heaps /\ Len(g) = Len(h) /\ DOMAIN g = DOMAIN h
        /\ Live(g) = Live(h) /\ g[b] = new
        /\ \A a \in DOMAIN h : a # b => g[a] = h[a]
    BY <1>3, Replaced
  <1> HIDE DEF g
  <1>5. ASSUME NEW a, NEW n, NEW c
        PROVE  Hangs(g, a, n, c) <=>
                    \/ Hangs(h, a, n, c)
                    \/ a = b /\ n = last /\ item.type = "block" /\ item.value = c
    <2>1. CASE a = b
      BY <2>1, <1>3, <1>4 DEF Hangs, BlockItems
    <2>2. CASE a # b
      <3>1. a \in Live(h) => g[a] = h[a]
        BY <2>2, <1>4, HeapTypes
      <3> QED BY <2>2, <3>1, <1>4 DEF Hangs, BlockItems
    <2> QED BY <2>1, <2>2
  <1> QED BY <1>2, <1>3, <1>4, <1>5 DEF last

(* An item is added for a block that hangs nowhere yet.                    *)
LEMMA AfterLinked ==
  ASSUME NEW h \in Heaps, NEW b \in Live(h), NEW c \in Live(h), b # c, NEW key \in Keys
  PROVE  LET g == Linked(h, b, key, c)
             last == Len(h[b].items) + 1
         IN  /\ g \in Heaps /\ Len(g) = Len(h) /\ DOMAIN g = DOMAIN h
             /\ Live(g) = Live(h)
             /\ \A a \in DOMAIN h : a # b /\ a # c => g[a] = h[a]
             /\ g[b].parent = h[b].parent /\ g[b].name = h[b].name
             /\ Len(g[b].items) = last
             /\ \A n \in DOMAIN h[b].items : g[b].items[n] = h[b].items[n]
             /\ g[c].parent = b /\ g[c].name = h[c].name /\ g[c].items = h[c].items
             /\ \A a, n, d : Hangs(g, a, n, d) <=> Hangs(h, a, n, d) \/ (a = b /\ n = last /\ d = c)
  <1> DEFINE new == [h[c] EXCEPT !.parent = b]
             k == [h EXCEPT ![c] = new]
             item == Item("block", key, c)
             g == LinkItem(k, b, item)
             last == Len(h[b].items) + 1
  <1>1. h[c] \in Blocks /\ b \in Nat /\ c \in Nat
    BY HeapTypes
  <1>2. new \in Blocks /\ new.parent = b /\ new.name = h[c].name /\ new.items = h[c].items
    BY <1>1 DEF Blocks
  <1>3. item \in Items /\ item.type = "block" /\ item.value = c
    BY <1>1, NewItemTypes DEF Item
  <1>4. Linked(h, b, key, c) = g
    BY DEF Linked
  <1> HIDE DEF new, item
  <1>5. /\ k \in Heaps /\ Len(k) = Len(h) /\ DOMAIN k = DOMAIN h
        /\ Live(k) = Live(h) /\ k[c] = new
        /\ \A a \in DOMAIN h : a # c => k[a] = h[a]
    BY <1>2, Replaced
  <1> HIDE DEF k
  <1>6. k[b] = h[b] /\ b \in DOMAIN h /\ c \in DOMAIN h
    BY <1>5, HeapTypes
  <1>7. /\ g \in Heaps /\ Len(g) = Len(k) /\ DOMAIN g = DOMAIN k /\ Live(g) = Live(k)
        /\ \A a \in DOMAIN k : a # b => g[a] = k[a]
        /\ g[b].parent = k[b].parent /\ g[b].name = k[b].name
        /\ Len(g[b].items) = Len(k[b].items) + 1
        /\ \A n \in DOMAIN k[b].items : g[b].items[n] = k[b].items[n]
        /\ \A a, n, d : Hangs(g, a, n, d) <=>
                \/ Hangs(k, a, n, d)
                \/ a = b /\ n = Len(k[b].items) + 1 /\ item.type = "block" /\ item.value = d
    BY <1>3, <1>5, ItemAdded
  <1>8. \A a, n, d : Hangs(k, a, n, d) <=> Hangs(h, a, n, d)
    <2> SUFFICES ASSUME NEW a, NEW n, NEW d PROVE Hangs(k, a, n, d) <=> Hangs(h, a, n, d)
      OBVIOUS
    <2>1. a \in Live(h) => k[a].items = h[a].items
      BY <1>2, <1>5, HeapTypes
    <2> QED BY <2>1, <1>5 DEF Hangs, BlockItems
  <1> HIDE DEF g
  <1> QED BY <1>2, <1>3, <1>4, <1>5, <1>6, <1>7, <1>8

(* A block without items is allocated.                                     *)
LEMMA AfterNew ==
  ASSUME NEW h \in Heaps, NEW name \in Seq(STRING)
  PROVE  LET g == Append(h, Block(0, name))
         IN  /\ g \in Heaps /\ Len(g) = Len(h) + 1
             /\ Live(g) = Live(h) \cup {Len(h) + 1}
             /\ g[Len(h) + 1] = Block(0, name)
             /\ \A a \in DOMAIN h : g[a] = h[a]
             /\ \A a, n, c : Hangs(g, a, n, c) <=> Hangs(h, a, n, c)
  <1> DEFINE new == Block(0, name)
             g == Append(h, new)
  <1>1. new \in Blocks /\ new.items = <<>>
    <2>1. <<>> \in Seq(Items)
      OBVIOUS
    <2> QED BY <2>1 DEF Block, Blocks
  <1> HIDE DEF new
  <1>2. Len(h) \in Nat /\ DOMAIN h = 1 .. Len(h) /\ Live(h) \subseteq 1 .. Len(h)
    BY HeapTypes
  <1>3. /\ g \in Heaps /\ Len(g) = Len(h) + 1 /\ g[Len(h) + 1] = new
        /\ \A a \in DOMAIN h : g[a] = h[a]
    BY <1>1, <1>2, AppendProperties DEF Heaps
  <1>4. DOMAIN g = DOMAIN h \cup {Len(h) + 1}
    BY <1>2, <1>3 DEF Heaps
  <1> HIDE DEF g
  <1>5. Live(g) = Live(h) \cup {Len(h) + 1}
    BY <1>1, <1>3, <1>4, BlockTypes DEF Live
  <1>6. ASSUME NEW a, NEW n, NEW c PROVE Hangs(g, a, n, c) <=> Hangs(h, a, n, c)
    <2>1. CASE a = Len(h) + 1
      <3>1. BlockItems(g, a) = {} /\ a \notin Live(h)
        BY <1>1, <1>2, <1>3, <2>1 DEF BlockItems
      <3> QED BY <3>1 DEF Hangs
    <2>2. CASE a # Len(h) + 1
      <3>1. a \in Live(h) <=> a \in Live(g)
        BY <1>5, <2>2
      <3>2. a \in Live(h) => g[a] = h[a]
        BY <1>2, <1>3
      <3> QED BY <3>1, <3>2 DEF Hangs, BlockItems
    <2> QED BY <2>1, <2>2
  <1> QED BY <1>3, <1>5, <1>6 DEF g, new

LEMMA CopyTypes ==
  ASSUME NEW h, IsForest(h), NEW b \in Live(h), NEW s \in Below(h, b)
  PROVE  LET copy == CopyBlock(h, s, CopyAt(h, b))
         IN  /\ copy \in Blocks /\ copy.parent = 0 /\ copy.name = h[s].name
             /\ DOMAIN copy.items = DOMAIN h[s].items
             /\ \A n \in DOMAIN h[s].items : copy.items[n] = CopyItem(h[s].items[n], CopyAt(h, b))
             /\ BlockItems(h, s) = {n \in DOMAIN copy.items : copy.items[n].type = "block"}
             /\ \A n \in BlockItems(h, s) : /\ h[s].items[n].value \in Below(h, b)
                                            /\ copy.items[n].value = CopyAt(h, b)[h[s].items[n].value]
  <1> DEFINE to == CopyAt(h, b)
             list == [n \in DOMAIN h[s].items |-> CopyItem(h[s].items[n], to)]
             copy == CopyBlock(h, s, to)
  <1>1. s \in Live(h) /\ h[s] \in Blocks /\ Len(h) \in Nat
    BY BelowIsLive, HeapTypes DEF IsForest
  <1>2. /\ h[s].name \in Seq(STRING) /\ h[s].items \in Seq(Items)
        /\ Len(h[s].items) \in Nat /\ DOMAIN h[s].items = 1 .. Len(h[s].items)
        /\ \A n \in DOMAIN h[s].items : h[s].items[n] \in Items
    BY <1>1, BlockTypes
  <1>3. ASSUME NEW n \in BlockItems(h, s)
        PROVE  h[s].items[n].value \in Below(h, b) /\ to[h[s].items[n].value] \in Nat
    <2>1. h[s].items[n].value \in Children(h, s)
      BY DEF Children
    <2>2. h[s].items[n].value \in Below(h, b)
      BY <2>1, BelowIsWhole
    <2>3. to[h[s].items[n].value] \in Len(h) + 1 .. Len(h) + Cardinality(Below(h, b))
      BY <2>2, CopiesAre
    <2> QED BY <1>1, <2>2, <2>3
  <1> HIDE DEF to
  <1>4. ASSUME NEW n \in DOMAIN h[s].items
        PROVE  /\ CopyItem(h[s].items[n], to) \in Items
               /\ CopyItem(h[s].items[n], to).type = h[s].items[n].type
               /\ h[s].items[n].type = "block" =>
                    CopyItem(h[s].items[n], to).value = to[h[s].items[n].value]
    <2>1. CASE h[s].items[n].type = "block"
      <3>1. n \in BlockItems(h, s)
        BY <2>1 DEF BlockItems
      <3>2. to[h[s].items[n].value] \in Nat /\ h[s].items[n].key \in Keys \cup {NULL}
        BY <1>2, <1>3, <3>1, ItemTypes
      <3>3. CopyItem(h[s].items[n], to) = Item("block", h[s].items[n].key, to[h[s].items[n].value])
        BY <2>1 DEF CopyItem
      <3>4. CopyItem(h[s].items[n], to) \in Items
        BY <3>2, <3>3, NewItemTypes
      <3> QED BY <2>1, <3>3, <3>4 DEF Item
    <2>2. CASE h[s].items[n].type # "block"
      BY <1>2, <2>2 DEF CopyItem
    <2> QED BY <2>1, <2>2
  <1>5. list \in Seq(Items) /\ DOMAIN list = DOMAIN h[s].items
    BY <1>2, <1>4
  <1>6. /\ copy.parent = 0 /\ copy.name = h[s].name /\ copy.items = list
        /\ copy = [parent |-> 0, name |-> h[s].name, items |-> list]
    BY DEF CopyBlock
  <1>7. \A n \in DOMAIN h[s].items : list[n] = CopyItem(h[s].items[n], to)
    OBVIOUS
  <1> HIDE DEF list
  <1>8. copy \in Blocks
    BY <1>2, <1>5, <1>6 DEF Blocks
  <1> HIDE DEF copy
  <1>9. BlockItems(h, s) = {n \in DOMAIN copy.items : copy.items[n].type = "block"}
    BY <1>4, <1>5, <1>6, <1>7 DEF BlockItems
  <1>10. \A n \in BlockItems(h, s) : copy.items[n].value = to[h[s].items[n].value]
    BY <1>4, <1>6, <1>7 DEF BlockItems
  <1> QED BY <1>3, <1>5, <1>6, <1>7, <1>8, <1>9, <1>10 DEF copy, to

(* A block is copied.                                                      *)
LEMMA AfterCopy ==
  ASSUME NEW h, IsForest(h), NEW b \in Live(h)
  PROVE  LET g == Copy(h, b)
             to == CopyAt(h, b)
             N == Cardinality(Below(h, b))
         IN  /\ g \in Heaps /\ Len(g) = Len(h) + N
             /\ Live(g) = Live(h) \cup (Len(h) + 1 .. Len(h) + N)
             /\ \A a \in DOMAIN h : g[a] = h[a]
             /\ \A s \in Below(h, b) : g[to[s]] = CopyBlock(h, s, to)
             /\ \A a, n, c : Hangs(g, a, n, c) <=>
                    \/ Hangs(h, a, n, c)
                    \/ \E s, d \in Below(h, b) : a = to[s] /\ c = to[d] /\ Hangs(h, s, n, d)
  <1> DEFINE to == CopyAt(h, b)
             N == Cardinality(Below(h, b))
             Source(k) == CHOOSE a \in Below(h, b) : to[a] = Len(h) + k
             tail == [k \in 1 .. N |-> CopyBlock(h, Source(k), to)]
             g == Copy(h, b)
  <1>1. h \in Heaps /\ Len(h) \in Nat /\ DOMAIN h = 1 .. Len(h) /\ Live(h) \subseteq 1 .. Len(h)
    BY HeapTypes DEF IsForest
  <1>2. g = h \o tail
    BY DEF Copy, Copied
  <1>3. /\ N \in Nat
        /\ \A a \in Below(h, b) : to[a] \in Len(h) + 1 .. Len(h) + N
        /\ \A a, c \in Below(h, b) : a < c => to[a] < to[c]
        /\ \A k \in 1 .. N : \E a \in Below(h, b) : to[a] = Len(h) + k
    BY CopiesAre
  <1>4. Below(h, b) \subseteq Live(h)
    BY BelowIsLive
  <1> HIDE DEF to, N
  <1>5. ASSUME NEW k \in 1 .. N PROVE Source(k) \in Below(h, b) /\ to[Source(k)] = Len(h) + k
    BY <1>3
  <1>6. ASSUME NEW a \in Below(h, b), NEW c \in Below(h, b), to[a] = to[c] PROVE a = c
    <2>1. a \in Int /\ c \in Int /\ to[a] \in Int /\ to[c] \in Int
      BY <1>1, <1>3, <1>4
    <2>2. ~(a < c) /\ ~(c < a)
      BY <1>3, <1>6, <2>1
    <2> QED BY <2>1, <2>2
  <1>7. ASSUME NEW s \in Below(h, b)
        PROVE  to[s] - Len(h) \in 1 .. N /\ Source(to[s] - Len(h)) = s
    <2> DEFINE k == to[s] - Len(h)
    <2>1. k \in 1 .. N /\ Len(h) + k = to[s]
      BY <1>1, <1>3
    <2> HIDE DEF k
    <2>2. Source(k) \in Below(h, b) /\ to[Source(k)] = to[s]
      BY <1>5, <2>1
    <2>3. Source(k) = s
      BY <1>6, <2>2
    <2> QED BY <2>1, <2>3 DEF k
  <1> HIDE DEF Source
  <1>8. \A s \in Below(h, b) : CopyBlock(h, s, to) \in Blocks
    BY CopyTypes DEF to
  <1>9. tail \in Seq(Blocks \cup {NULL}) /\ Len(tail) = N
    BY <1>3, <1>5, <1>8
  <1>10. \A k \in 1 .. N : tail[k] = CopyBlock(h, Source(k), to)
    OBVIOUS
  <1> HIDE DEF tail
  <1>11. /\ g \in Heaps /\ Len(g) = Len(h) + N
         /\ \A a \in DOMAIN h : g[a] = h[a]
         /\ \A k \in 1 .. N : g[Len(h) + k] = CopyBlock(h, Source(k), to)
    <2>1. h \in Seq(Blocks \cup {NULL})
      BY <1>1 DEF Heaps
    <2>2. /\ g \in Seq(Blocks \cup {NULL}) /\ Len(g) = Len(h) + Len(tail)
          /\ \A a \in 1 .. Len(g) : g[a] = IF a <= Len(h) THEN h[a] ELSE tail[a - Len(h)]
      BY <1>2, <1>9, <2>1, ConcatProperties
    <2>3. g \in Heaps /\ Len(g) = Len(h) + N
      BY <1>9, <2>2 DEF Heaps
    <2>4. ASSUME NEW a \in DOMAIN h PROVE g[a] = h[a]
      BY <1>1, <1>3, <2>2, <2>3
    <2>5. ASSUME NEW k \in 1 .. N PROVE g[Len(h) + k] = CopyBlock(h, Source(k), to)
      <3>1. Len(h) + k \in 1 .. Len(g) /\ ~(Len(h) + k <= Len(h)) /\ Len(h) + k - Len(h) = k
        BY <1>1, <1>3, <2>3
      <3>2. g[Len(h) + k] = tail[Len(h) + k - Len(h)]
        BY <2>2, <3>1
      <3>3. g[Len(h) + k] = tail[k]
        BY <3>1, <3>2
      <3> QED BY <1>10, <3>3
    <2> QED BY <2>3, <2>4, <2>5
  <1> HIDE DEF g
  <1>12. ASSUME NEW s \in Below(h, b) PROVE g[to[s]] = CopyBlock(h, s, to)
    <2>1. Len(h) + (to[s] - Len(h)) = to[s]
      BY <1>1, <1>3
    <2> QED BY <1>7, <1>11, <2>1
  <1>13. Live(g) = Live(h) \cup (Len(h) + 1 .. Len(h) + N)
    <2>1. DOMAIN g = 1 .. Len(h) + N
      BY <1>11, HeapTypes
    <2>2. ASSUME NEW a \in Len(h) + 1 .. Len(h) + N PROVE g[a] # NULL
      <3>1. a - Len(h) \in 1 .. N /\ Len(h) + (a - Len(h)) = a
        BY <1>1, <1>3
      <3>2. PICK s \in Below(h, b) : to[s] = a
        BY <1>3, <3>1
      <3> QED BY <1>8, <1>12, <3>2, BlockTypes
    <2>3. ASSUME NEW a \in 1 .. Len(h) PROVE a \in Live(g) <=> a \in Live(h)
      <3>1. a \in DOMAIN h /\ a \in DOMAIN g /\ g[a] = h[a]
        BY <1>1, <1>3, <1>11, <2>1
      <3> QED BY <3>1 DEF Live
    <2>4. \A a \in DOMAIN g : a \in 1 .. Len(h) \/ a \in Len(h) + 1 .. Len(h) + N
      BY <1>1, <1>3, <2>1
    <2>5. Len(h) + 1 .. Len(h) + N \subseteq DOMAIN g
      BY <1>1, <1>3, <2>1
    <2>6. Live(g) \subseteq DOMAIN g
      BY DEF Live
    <2>7. \A a \in Len(h) + 1 .. Len(h) + N : a \in Live(g)
      BY <2>2, <2>5 DEF Live
    <2> QED BY <1>1, <2>3, <2>4, <2>6, <2>7
  <1>14. ASSUME NEW a, NEW n, NEW c
         PROVE  Hangs(g, a, n, c) <=>
                    \/ Hangs(h, a, n, c)
                    \/ \E s, d \in Below(h, b) : a = to[s] /\ c = to[d] /\ Hangs(h, s, n, d)
    <2>1. CASE a \in 1 .. Len(h)
      <3>1. a \in Live(g) <=> a \in Live(h)
        BY <1>1, <1>3, <1>13, <2>1
      <3>2. g[a] = h[a]
        BY <1>1, <1>11, <2>1
      <3>3. Hangs(g, a, n, c) <=> Hangs(h, a, n, c)
        BY <3>1, <3>2 DEF Hangs, BlockItems
      <3>4. \A s \in Below(h, b) : a # to[s]
        BY <1>1, <1>3, <2>1
      <3> QED BY <3>3, <3>4
    <2>2. CASE a \notin 1 .. Len(h)
      <3>1. ~Hangs(h, a, n, c)
        BY <1>1, <2>2 DEF Hangs
      <3>2. ASSUME NEW s \in Below(h, b), NEW d \in Below(h, b), a = to[s], c = to[d], Hangs(h, s, n, d)
            PROVE  Hangs(g, a, n, c)
        <4>1. a \in Live(g)
          BY <1>3, <1>13, <3>2
        <4>2. n \in BlockItems(h, s) /\ h[s].items[n].value = d
          BY <3>2 DEF Hangs
        <4>3. /\ BlockItems(h, s) = {m \in DOMAIN g[a].items : g[a].items[m].type = "block"}
              /\ \A m \in BlockItems(h, s) : g[a].items[m].value = to[h[s].items[m].value]
          BY <1>12, <3>2, CopyTypes DEF to
        <4> QED BY <3>2, <4>1, <4>2, <4>3 DEF Hangs, BlockItems
      <3>3. ASSUME Hangs(g, a, n, c)
            PROVE  \E s, d \in Below(h, b) : a = to[s] /\ c = to[d] /\ Hangs(h, s, n, d)
        <4>1. a \in Len(h) + 1 .. Len(h) + N
          BY <1>1, <1>13, <2>2, <3>3 DEF Hangs
        <4>2. a - Len(h) \in 1 .. N /\ Len(h) + (a - Len(h)) = a
          BY <1>1, <1>3, <4>1
        <4>3. PICK s \in Below(h, b) : to[s] = a
          BY <1>3, <4>2
        <4>4. /\ BlockItems(h, s) = {m \in DOMAIN g[a].items : g[a].items[m].type = "block"}
              /\ \A m \in BlockItems(h, s) : /\ h[s].items[m].value \in Below(h, b)
                                             /\ g[a].items[m].value = to[h[s].items[m].value]
          BY <1>12, <4>3, CopyTypes DEF to
        <4>5. n \in BlockItems(h, s) /\ g[a].items[n].value = c
          BY <3>3, <4>4 DEF Hangs, BlockItems
        <4>6. s \in Live(h)
          BY <1>4
        <4>7. Hangs(h, s, n, h[s].items[n].value) /\ h[s].items[n].value \in Below(h, b)
          BY <4>4, <4>5, <4>6 DEF Hangs
        <4> QED BY <4>3, <4>4, <4>5, <4>7
      <3> QED BY <3>1, <3>2, <3>3
    <2> QED BY <2>1, <2>2
  <1> QED BY <1>11, <1>12, <1>13, <1>14 DEF g, to, N

(* A block is freed with all that is below it.                             *)
LEMMA AfterDestroy ==
  ASSUME NEW h, IsForest(h), NEW b \in Live(h)
  PROVE  LET g == Destroy(h, b)
         IN  /\ g \in Heaps /\ Len(g) = Len(h) /\ DOMAIN g = DOMAIN h
             /\ Live(g) = Live(h) \ Below(h, b)
             /\ \A a \in Live(g) : g[a] = h[a]
             /\ \A a, n, c : Hangs(g, a, n, c) <=> Hangs(h, a, n, c) /\ a \notin Below(h, b)
  <1> DEFINE g == Destroy(h, b)
             S == Below(h, b)
  <1>1. h \in Seq(Blocks \cup {NULL}) /\ Len(h) \in Nat /\ DOMAIN h = 1 .. Len(h)
    BY HeapTypes DEF IsForest, Heaps
  <1>2. g = [a \in DOMAIN h |-> IF a \in S THEN NULL ELSE h[a]]
    BY DEF Destroy
  <1> HIDE DEF g, S
  <1>3. \A a \in DOMAIN h : g[a] = (IF a \in S THEN NULL ELSE h[a]) /\ g[a] \in Blocks \cup {NULL}
    BY <1>1, <1>2
  <1>4. g \in Heaps /\ Len(g) = Len(h) /\ DOMAIN g = DOMAIN h
    BY <1>1, <1>2, <1>3 DEF Heaps
  <1>5. Live(g) = Live(h) \ S /\ \A a \in Live(g) : g[a] = h[a]
    BY <1>3, <1>4 DEF Live
  <1>6. \A a, n, c : Hangs(g, a, n, c) <=> Hangs(h, a, n, c) /\ a \notin S
    BY <1>5 DEF Hangs, BlockItems
  <1> QED BY <1>4, <1>5, <1>6 DEF g, S

LEMMA LongerList ==
  ASSUME NEW s \in Seq(STRING), NEW t \in Seq(STRING)
  PROVE  s \o t \in Seq(STRING) /\ IsPrefix(s, s \o t)
  <1>1. s \o t \in Seq(STRING) /\ Len(s \o t) = Len(s) + Len(t) /\ Len(s) \in Nat /\ Len(t) \in Nat
    OBVIOUS
  <1>2. SubSeq(s, 1, Len(s)) = SubSeq(s \o t, 1, Len(s))
    BY <1>1
  <1> QED BY <1>1, <1>2 DEF IsPrefix

LEMMA SameIsLonger ==
  ASSUME NEW old \in Seq(Items), NEW new \in Seq(Items), Len(old) <= Len(new),
         \A n \in DOMAIN old : new[n] = old[n]
  PROVE  IsLonger(old, new)
  BY DEF IsLonger

(* A list is put: a new option, or more values for the first one that has  *)
(* the key.  No block changes its place.                                   *)
LEMMA AfterValue ==
  ASSUME NEW h \in Heaps, NEW b \in Live(h), NEW key \in Keys, NEW list \in Seq(STRING)
  PROVE  LET g == AddValue(h, b, key, list)
         IN  /\ g \in Heaps /\ Len(g) = Len(h) /\ DOMAIN g = DOMAIN h
             /\ Live(g) = Live(h)
             /\ \A a \in DOMAIN h : a # b => g[a] = h[a]
             /\ g[b].parent = h[b].parent /\ g[b].name = h[b].name
             /\ IsLonger(h[b].items, g[b].items)
             /\ \A a, n, c : Hangs(g, a, n, c) <=> Hangs(h, a, n, c)
  <1> DEFINE g == AddValue(h, b, key, list)
             same == {n \in DOMAIN h[b].items : IsValue(h[b].items[n], key)}
             first == CHOOSE n \in same : \A m \in same : n <= m
  <1>1. /\ h[b] \in Blocks /\ b \in DOMAIN h
        /\ h[b].items \in Seq(Items) /\ Len(h[b].items) \in Nat
        /\ DOMAIN h[b].items = 1 .. Len(h[b].items)
        /\ \A n \in DOMAIN h[b].items : h[b].items[n] \in Items
    BY HeapTypes, BlockTypes
  <1>2. CASE same = {}
    <2> DEFINE item == Item("value", key, list)
    <2>1. g = LinkItem(h, b, item)
      BY <1>2 DEF AddValue
    <2>2. item \in Items /\ item.type = "value"
      BY NewItemTypes DEF Item
    <2> HIDE DEF item, same, g
    <2>3. /\ g \in Heaps /\ Len(g) = Len(h) /\ DOMAIN g = DOMAIN h
          /\ Live(g) = Live(h)
          /\ \A a \in DOMAIN h : a # b => g[a] = h[a]
          /\ g[b].parent = h[b].parent /\ g[b].name = h[b].name
          /\ Len(g[b].items) = Len(h[b].items) + 1
          /\ \A n \in DOMAIN h[b].items : g[b].items[n] = h[b].items[n]
          /\ \A a, n, c : Hangs(g, a, n, c) <=> Hangs(h, a, n, c)
      BY <2>1, <2>2, ItemAdded
    <2>4. g[b] \in Blocks
      BY <2>3, HeapTypes
    <2>5. IsLonger(h[b].items, g[b].items)
      <3>1. g[b].items \in Seq(Items)
        BY <2>4, BlockTypes
      <3>2. Len(h[b].items) <= Len(g[b].items)
        BY <1>1, <2>3
      <3> QED BY <1>1, <2>3, <3>1, <3>2, SameIsLonger
    <2> QED BY <2>3, <2>5 DEF g
  <1>3. CASE same # {}
    <2> DEFINE old == h[b].items[first]
               item == [old EXCEPT !.value = old.value \o list]
               items == [h[b].items EXCEPT ![first] = item]
               new == [h[b] EXCEPT !.items = items]
    <2>1. g = [h EXCEPT ![b] = new]
      BY <1>3 DEF AddValue
    <2>2. first \in same
      <3>1. same \in SUBSET Nat
        BY <1>1
      <3> HIDE DEF same
      <3>2. \E n \in same : \A m \in same : n <= m
        BY <1>3, <3>1, Least
      <3> QED BY <3>2
    <2>3. first \in DOMAIN h[b].items /\ old.type = "value"
      BY <2>2 DEF IsValue
    <2> HIDE DEF first, same, g
    <2>4. old \in Items /\ old.value \in Seq(STRING)
      BY <1>1, <2>3, ItemTypes
    <2> HIDE DEF old
    <2>5. old.value \o list \in Seq(STRING) /\ IsPrefix(old.value, old.value \o list)
      BY <2>4, LongerList
    <2>6. /\ item \in Items /\ item.type = old.type /\ item.key = old.key
          /\ item.value = old.value \o list
      <3>1. old \in [type : {"value"}, key : Keys \cup {NULL}, value : Seq(STRING)]
        BY <2>3, <2>4 DEF Items, old
      <3> QED BY <2>5, <3>1 DEF Items
    <2> HIDE DEF item
    <2>7. /\ items \in Seq(Items) /\ Len(items) = Len(h[b].items) /\ DOMAIN items = DOMAIN h[b].items
          /\ items[first] = item /\ \A n \in DOMAIN items : n # first => items[n] = h[b].items[n]
      BY <1>1, <2>3, <2>6
    <2> HIDE DEF items
    <2>8. new \in Blocks /\ new.parent = h[b].parent /\ new.name = h[b].name /\ new.items = items
      BY <1>1, <2>7 DEF Blocks
    <2> HIDE DEF new
    <2>9. /\ g \in Heaps /\ Len(g) = Len(h) /\ DOMAIN g = DOMAIN h
          /\ Live(g) = Live(h) /\ g[b] = new
          /\ \A a \in DOMAIN h : a # b => g[a] = h[a]
      <3> DEFINE k == [h EXCEPT ![b] = new]
      <3>1. /\ k \in Heaps /\ Len(k) = Len(h) /\ DOMAIN k = DOMAIN h
            /\ Live(k) = Live(h) /\ k[b] = new
            /\ \A a \in DOMAIN h : a # b => k[a] = h[a]
        BY <2>8, Replaced
      <3> HIDE DEF k
      <3>2. g = k
        BY <2>1 DEF k
      <3> QED BY <3>1, <3>2
    <2>10. IsLonger(h[b].items, g[b].items)
      <3>1. ASSUME NEW n \in DOMAIN h[b].items
            PROVE  /\ items[n].type = h[b].items[n].type /\ items[n].key = h[b].items[n].key
                   /\ \/ items[n].value = h[b].items[n].value
                      \/ h[b].items[n].type = "value" /\ IsPrefix(h[b].items[n].value, items[n].value)
        <4>1. CASE n = first
          <5>1. items[n] = item /\ h[b].items[n] = old
            BY <2>7, <4>1 DEF old
          <5> QED BY <2>3, <2>5, <2>6, <5>1
        <4>2. CASE n # first
          BY <2>7, <4>2
        <4> QED BY <4>1, <4>2
      <3>2. Len(h[b].items) <= Len(items)
        BY <1>1, <2>7
      <3> QED BY <2>8, <2>9, <3>1, <3>2 DEF IsLonger
    <2>11. ASSUME NEW a, NEW n, NEW c PROVE Hangs(g, a, n, c) <=> Hangs(h, a, n, c)
      <3>1. CASE a = b
        <4>1. ASSUME NEW m PROVE m \in BlockItems(g, b) <=> m \in BlockItems(h, b)
          <5>1. CASE m = first
            BY <5>1, <2>3, <2>6, <2>7, <2>8, <2>9 DEF BlockItems, old
          <5>2. CASE m # first
            BY <5>2, <2>7, <2>8, <2>9 DEF BlockItems
          <5> QED BY <5>1, <5>2
        <4>2. \A m \in BlockItems(h, b) : m # first
          BY <2>3 DEF BlockItems, old
        <4>3. \A m \in BlockItems(h, b) : g[b].items[m] = h[b].items[m]
          BY <4>2, <2>7, <2>8, <2>9 DEF BlockItems
        <4> QED BY <3>1, <4>1, <4>3, <2>9 DEF Hangs
      <3>2. CASE a # b
        <4>1. a \in Live(h) => g[a] = h[a]
          BY <3>2, <2>9, HeapTypes
        <4> QED BY <4>1, <2>9 DEF Hangs, BlockItems
      <3> QED BY <3>1, <3>2
    <2> QED BY <2>8, <2>9, <2>10, <2>11 DEF g
  <1> QED BY <1>2, <1>3

(* A second parse puts one option in place of all the items of the root.   *)
LEMMA AfterCut ==
  ASSUME NEW h \in Heaps, 1 \in Live(h), NEW key \in Keys, NEW list \in Seq(STRING)
  PROVE  LET g == [h EXCEPT ![1].items = <<Item("value", key, list)>>]
         IN  /\ g \in Heaps /\ Len(g) = Len(h) /\ DOMAIN g = DOMAIN h
             /\ Live(g) = Live(h)
             /\ \A a \in DOMAIN h : g[a].parent = h[a].parent
             /\ \A a, n, c : Hangs(g, a, n, c) <=> Hangs(h, a, n, c) /\ a # 1
  <1> DEFINE items == <<Item("value", key, list)>>
             new == [h[1] EXCEPT !.items = items]
             g == [h EXCEPT ![1] = new]
  <1>1. h[1] \in Blocks
    BY HeapTypes
  <1>2. items \in Seq(Items) /\ \A n \in DOMAIN items : items[n].type # "block"
    <2>1. Item("value", key, list) \in Items
      BY NewItemTypes
    <2> QED BY <2>1 DEF Item
  <1> HIDE DEF items
  <1>3. new \in Blocks /\ new.parent = h[1].parent /\ new.items = items
    BY <1>1, <1>2 DEF Blocks
  <1>4. g = [h EXCEPT ![1].items = items]
    OBVIOUS
  <1> HIDE DEF new
  <1>5. /\ g \in Heaps /\ Len(g) = Len(h) /\ DOMAIN g = DOMAIN h
        /\ Live(g) = Live(h) /\ g[1] = new
        /\ \A a \in DOMAIN h : a # 1 => g[a] = h[a]
    BY <1>3, Replaced
  <1> HIDE DEF g
  <1>6. ASSUME NEW a, NEW n, NEW c PROVE Hangs(g, a, n, c) <=> Hangs(h, a, n, c) /\ a # 1
    <2>1. CASE a = 1
      BY <1>2, <1>3, <1>5, <2>1 DEF Hangs, BlockItems
    <2>2. CASE a # 1
      <3>1. a \in Live(h) => g[a] = h[a]
        BY <1>5, <2>2, HeapTypes
      <3> QED BY <1>5, <2>2, <3>1 DEF Hangs, BlockItems
    <2> QED BY <2>1, <2>2
  <1> QED BY <1>3, <1>4, <1>5, <1>6 DEF items

-----------------------------------------------------------------------------
(* What the calls keep: own are the blocks that belong to the caller, cut  *)
(* those that a second parse has cut off.  A block that hangs belongs to   *)
(* nobody else, and one that does not hang to somebody.                    *)
Kept(h, own, cut) ==
    /\ IsForest(h)
    /\ 1 \in DOMAIN h
    /\ own \subseteq Live(h) /\ cut \subseteq DOMAIN h
    /\ 1 \notin own /\ 1 \notin cut /\ own \cap cut = {}
    /\ \A c \in own : ~Hung(h, c)
    /\ \A c \in Live(h) : Hung(h, c) \/ c = 1 \/ c \in own \/ c \in cut
    /\ \A c \in Live(h) :
        c \in cut \/ h[c].parent = 0 \/ \E n : Hangs(h, h[c].parent, n, c)

LEMMA SamePlacesKept ==
  ASSUME NEW h, NEW own, NEW cut, Kept(h, own, cut), NEW g \in Heaps,
         DOMAIN g = DOMAIN h, Live(g) = Live(h),
         \A a \in DOMAIN h : g[a].parent = h[a].parent,
         \A a, n, c : Hangs(g, a, n, c) <=> Hangs(h, a, n, c)
  PROVE  Kept(g, own, cut)
  <1>1. h \in Heaps /\ IsForest(h)
    BY DEF Kept, IsForest
  <1>2. IsForest(g)
    BY <1>1, ForestIs
  <1>3. \A c : Hung(g, c) <=> Hung(h, c)
    BY HungIs
  <1>4. \A c \in Live(g) : c \in cut \/ g[c].parent = 0 \/ \E n : Hangs(g, g[c].parent, n, c)
    <2> SUFFICES ASSUME NEW c \in Live(h)
                 PROVE  c \in cut \/ g[c].parent = 0 \/ \E n : Hangs(g, g[c].parent, n, c)
      OBVIOUS
    <2>1. g[c].parent = h[c].parent
      BY <1>1, HeapTypes
    <2> QED BY <2>1 DEF Kept
  <1> QED BY <1>2, <1>3, <1>4 DEF Kept

(* A new block belongs to the caller, until it is linked.                  *)
LEMMA NewKept ==
  ASSUME NEW h, NEW own, NEW cut, Kept(h, own, cut), NEW name \in Seq(STRING)
  PROVE  Kept(Append(h, Block(0, name)), own \cup {Len(h) + 1}, cut)
  <1> DEFINE g == Append(h, Block(0, name))
             new == Len(h) + 1
  <1>1. /\ h \in Heaps /\ IsForest(h) /\ Len(h) \in Nat /\ DOMAIN h = 1 .. Len(h)
        /\ Live(h) \subseteq 1 .. Len(h)
    BY HeapTypes DEF Kept, IsForest
  <1>2. /\ g \in Heaps /\ Len(g) = new
        /\ Live(g) = Live(h) \cup {new}
        /\ g[new] = Block(0, name)
        /\ \A a \in DOMAIN h : g[a] = h[a]
        /\ \A a, n, c : Hangs(g, a, n, c) <=> Hangs(h, a, n, c)
    BY <1>1, AfterNew
  <1>3. DOMAIN g = 1 .. new
    BY <1>2, HeapTypes
  <1> HIDE DEF g
  <1>4. IsForest(g)
    BY <1>1, <1>2, ForestIs
  <1>5. \A c : Hung(g, c) <=> Hung(h, c)
    BY <1>2, HungIs
  <1>6. ~Hung(h, new)
    <2>1. \A a, n, c : Hangs(h, a, n, c) => c \in Live(h)
      BY <1>1, ForestIs
    <2> QED BY <1>1, <2>1, HungIs
  <1>7. new \notin DOMAIN h /\ new # 1 /\ DOMAIN h \subseteq DOMAIN g
    BY <1>1, <1>3 DEF Kept
  <1>8. \A c \in Live(g) : c \in cut \/ g[c].parent = 0 \/ \E n : Hangs(g, g[c].parent, n, c)
    <2> SUFFICES ASSUME NEW c \in Live(g)
                 PROVE  c \in cut \/ g[c].parent = 0 \/ \E n : Hangs(g, g[c].parent, n, c)
      OBVIOUS
    <2>1. CASE c = new
      BY <1>2, <2>1 DEF Block
    <2>2. CASE c # new
      <3>1. c \in Live(h) /\ g[c] = h[c]
        BY <1>1, <1>2, <2>2
      <3> QED BY <1>2, <3>1 DEF Kept
    <2> QED BY <2>1, <2>2
  <1> HIDE DEF new
  <1> QED BY <1>1, <1>2, <1>4, <1>5, <1>6, <1>7, <1>8 DEF Kept, g, new

(* A copy belongs to the caller; what hangs from it does not.              *)
LEMMA CopyKept ==
  ASSUME NEW h, NEW own, NEW cut, Kept(h, own, cut), NEW b \in Live(h)
  PROVE  Kept(Copy(h, b), own \cup {Len(h) + 1}, cut)
  <1> DEFINE g == Copy(h, b)
             to == CopyAt(h, b)
             S == Below(h, b)
             N == Cardinality(S)
             new == Len(h) + 1
  <1>1. /\ h \in Heaps /\ IsForest(h) /\ Len(h) \in Nat /\ DOMAIN h = 1 .. Len(h)
        /\ Live(h) \subseteq 1 .. Len(h)
    BY HeapTypes DEF Kept, IsForest
  <1>2. /\ g \in Heaps /\ Len(g) = Len(h) + N
        /\ Live(g) = Live(h) \cup (Len(h) + 1 .. Len(h) + N)
        /\ \A a \in DOMAIN h : g[a] = h[a]
        /\ \A s \in S : g[to[s]] = CopyBlock(h, s, to)
        /\ \A a, n, c : Hangs(g, a, n, c) <=>
               \/ Hangs(h, a, n, c)
               \/ \E s, d \in S : a = to[s] /\ c = to[d] /\ Hangs(h, s, n, d)
    BY <1>1, AfterCopy
  <1>3. /\ N \in Nat /\ N > 0
        /\ \A a \in S : to[a] \in Len(h) + 1 .. Len(h) + N
        /\ \A a, c \in S : a < c => to[a] < to[c]
        /\ \A k \in 1 .. N : \E a \in S : to[a] = Len(h) + k
        /\ to[b] = Len(h) + 1
    BY <1>1, CopiesAre
  <1>4. S \subseteq Live(h) /\ b \in S
    BY <1>1, BelowIsLive
  <1>5. \A a \in S : a # b => \E c \in S : \E n : Hangs(h, c, n, a)
    <2> SUFFICES ASSUME NEW a \in S, a # b PROVE \E c \in S : \E n : Hangs(h, c, n, a)
      OBVIOUS
    <2>1. PICK c \in S : a \in Children(h, c)
      BY <1>1, BelowHangs
    <2> QED BY <1>4, <2>1, HungIs
  <1>6. \A a, n, c : Hangs(h, a, n, c) => a \in Live(h) /\ c \in Live(h) /\ a < c
    <2>1. \A a, n, c : Hangs(h, a, n, c) => a \in Live(h)
      BY DEF Hangs
    <2> QED BY <1>1, <2>1, ForestIs
  <1>7. \A a, m, c, n, d : Hangs(h, a, m, d) /\ Hangs(h, c, n, d) => a = c /\ m = n
    BY <1>1, ForestIs
  <1>8. \A c \in S : c \in 1 .. Len(h) /\ b <= c
    BY <1>1, <1>4, BelowIsLive
  <1>9. \A a, c \in S : to[a] = to[c] => a = c
    <2> SUFFICES ASSUME NEW a \in S, NEW c \in S, to[a] = to[c] PROVE a = c
      OBVIOUS
    <2>1. a \in Int /\ c \in Int /\ to[a] \in Int /\ to[c] \in Int
      BY <1>1, <1>3, <1>8
    <2>2. ~(a < c) /\ ~(c < a)
      BY <1>3, <2>1
    <2> QED BY <2>1, <2>2
  <1>10. DOMAIN g = 1 .. Len(h) + N
    BY <1>2, HeapTypes
  <1> HIDE DEF g, to, S, N
  <1>11. IsForest(g)
    <2>1. ASSUME NEW a, NEW n, NEW c, Hangs(g, a, n, c) PROVE c \in Live(g) /\ a < c
      <3>1. CASE Hangs(h, a, n, c)
        BY <1>2, <1>6, <3>1
      <3>2. CASE \E s, d \in S : a = to[s] /\ c = to[d] /\ Hangs(h, s, n, d)
        <4>1. PICK s \in S, d \in S : a = to[s] /\ c = to[d] /\ Hangs(h, s, n, d)
          BY <3>2
        <4>2. s < d
          BY <1>6, <4>1
        <4> QED BY <1>2, <1>3, <4>1, <4>2
      <3> QED BY <1>2, <2>1, <3>1, <3>2
    <2>2. ASSUME NEW a, NEW m, NEW c, NEW n, NEW d, Hangs(g, a, m, d), Hangs(g, c, n, d)
          PROVE  a = c /\ m = n
      <3>1. d \in 1 .. Len(h) \/ d \notin 1 .. Len(h)
        OBVIOUS
      <3>2. CASE d \in 1 .. Len(h)
        <4>1. \A x \in S : d # to[x]
          BY <1>1, <1>3, <3>2
        <4> QED BY <1>2, <1>7, <2>2, <4>1
      <3>3. CASE d \notin 1 .. Len(h)
        <4>1. ~Hangs(h, a, m, d) /\ ~Hangs(h, c, n, d)
          BY <1>1, <1>6, <3>3
        <4>2. PICK s \in S, x \in S : a = to[s] /\ d = to[x] /\ Hangs(h, s, m, x)
          BY <1>2, <2>2, <4>1
        <4>3. PICK t \in S, y \in S : c = to[t] /\ d = to[y] /\ Hangs(h, t, n, y)
          BY <1>2, <2>2, <4>1
        <4>4. x = y
          BY <1>9, <4>2, <4>3
        <4> QED BY <1>7, <4>2, <4>3, <4>4
      <3> QED BY <3>2, <3>3
    <2> QED BY <1>2, <2>1, <2>2, ForestIs
  <1>12. ASSUME NEW c \in 1 .. Len(h) PROVE Hung(g, c) <=> Hung(h, c)
    <2>1. \A x \in S : c # to[x]
      BY <1>1, <1>3, <1>12
    <2>2. \A a, n : Hangs(g, a, n, c) <=> Hangs(h, a, n, c)
      BY <1>2, <2>1
    <2> QED BY <2>2, HungIs
  <1>13. ~Hung(g, new)
    <2> SUFFICES ASSUME NEW a, NEW n, Hangs(g, a, n, new) PROVE FALSE
      BY HungIs
    <2>1. ~Hangs(h, a, n, new)
      BY <1>1, <1>6
    <2>2. PICK s \in S, d \in S : a = to[s] /\ new = to[d] /\ Hangs(h, s, n, d)
      BY <1>2, <2>1
    <2>3. d = b
      BY <1>3, <1>4, <1>9, <2>2
    <2>4. s < b
      BY <1>6, <2>2, <2>3
    <2> QED BY <1>8, <1>4, <2>4
  <1>14. ASSUME NEW c \in Len(h) + 1 .. Len(h) + N, c # new PROVE Hung(g, c)
    <2>1. c - Len(h) \in 1 .. N /\ Len(h) + (c - Len(h)) = c
      BY <1>1, <1>3
    <2>2. PICK d \in S : to[d] = c
      BY <1>3, <2>1
    <2>3. d # b
      BY <1>3, <1>14, <2>2
    <2>4. PICK s \in S : \E n : Hangs(h, s, n, d)
      BY <1>5, <2>3
    <2>5. PICK n : Hangs(h, s, n, d)
      BY <2>4
    <2>6. Hangs(g, to[s], n, c)
      BY <1>2, <2>2, <2>5
    <2> QED BY <2>6, HungIs
  <1>15. \A c \in Live(g) : c \in cut \/ g[c].parent = 0 \/ \E n : Hangs(g, g[c].parent, n, c)
    <2> SUFFICES ASSUME NEW c \in Live(g)
                 PROVE  c \in cut \/ g[c].parent = 0 \/ \E n : Hangs(g, g[c].parent, n, c)
      OBVIOUS
    <2>1. CASE c \in Live(h)
      <3>1. g[c] = h[c]
        BY <1>1, <1>2, <2>1
      <3>2. c \in cut \/ h[c].parent = 0 \/ \E n : Hangs(h, h[c].parent, n, c)
        BY <2>1 DEF Kept
      <3> QED BY <1>2, <3>1, <3>2
    <2>2. CASE c \notin Live(h)
      <3>1. c \in Len(h) + 1 .. Len(h) + N
        BY <1>2, <2>2
      <3>2. c - Len(h) \in 1 .. N /\ Len(h) + (c - Len(h)) = c
        BY <1>1, <1>3, <3>1
      <3>3. PICK d \in S : to[d] = c
        BY <1>3, <3>2
      <3>4. g[c] = CopyBlock(h, d, to)
        BY <1>2, <3>3
      <3> QED BY <3>4 DEF CopyBlock
    <2> QED BY <2>1, <2>2
  <1>16. new \in Live(g) /\ new \notin DOMAIN h /\ new # 1 /\ DOMAIN h \subseteq DOMAIN g
    BY <1>1, <1>2, <1>3, <1>10 DEF Kept
  <1>17. \A c \in Live(g) : c \in Live(h) \/ c = new \/ Hung(g, c)
    BY <1>2, <1>14
  <1> HIDE DEF new
  <1>18. /\ own \cup {new} \subseteq Live(g) /\ cut \subseteq DOMAIN g
         /\ 1 \in DOMAIN g /\ 1 \notin own \cup {new} /\ 1 \notin cut
         /\ (own \cup {new}) \cap cut = {}
    BY <1>2, <1>16 DEF Kept
  <1>19. \A c \in own \cup {new} : ~Hung(g, c)
    BY <1>1, <1>12, <1>13 DEF Kept
  <1>20. \A c \in Live(g) : Hung(g, c) \/ c = 1 \/ c \in own \cup {new} \/ c \in cut
    <2> SUFFICES ASSUME NEW c \in Live(h)
                 PROVE  Hung(g, c) \/ c = 1 \/ c \in own \cup {new} \/ c \in cut
      BY <1>17
    <2>1. Hung(g, c) <=> Hung(h, c)
      BY <1>1, <1>12
    <2> QED BY <2>1 DEF Kept
  <1>21. Kept(g, own \cup {new}, cut)
    BY <1>11, <1>15, <1>18, <1>19, <1>20 DEF Kept
  <1> QED BY <1>21 DEF g, new

(* The caller gives a block away by linking it.                            *)
LEMMA LinkKept ==
  ASSUME NEW h, NEW own, NEW cut, Kept(h, own, cut), NEW b \in Live(h), NEW c \in own, b < c,
         NEW key \in Keys
  PROVE  Kept(Linked(h, b, key, c), own \ {c}, cut)
  <1> DEFINE g == Linked(h, b, key, c)
             last == Len(h[b].items) + 1
  <1>1. h \in Heaps /\ IsForest(h) /\ c \in Live(h) /\ b \in Nat /\ c \in Nat /\ b # c
    BY HeapTypes DEF Kept, IsForest
  <1>2. /\ g \in Heaps /\ DOMAIN g = DOMAIN h /\ Live(g) = Live(h)
        /\ \A a \in DOMAIN h : a # b /\ a # c => g[a] = h[a]
        /\ g[b].parent = h[b].parent /\ g[c].parent = b
        /\ \A a, n, d : Hangs(g, a, n, d) <=> Hangs(h, a, n, d) \/ (a = b /\ n = last /\ d = c)
    BY <1>1, AfterLinked
  <1> HIDE DEF g, last
  <1>3. \A a, n : ~Hangs(h, a, n, c)
    BY HungIs DEF Kept
  <1>4. IsForest(g)
    <2>1. ASSUME NEW a, NEW n, NEW d, Hangs(g, a, n, d) PROVE d \in Live(g) /\ a < d
      BY <1>1, <1>2, <2>1, ForestIs
    <2>2. ASSUME NEW a, NEW m, NEW x, NEW n, NEW d, Hangs(g, a, m, d), Hangs(g, x, n, d)
          PROVE  a = x /\ m = n
      <3>1. CASE d = c
        BY <1>2, <1>3, <2>2, <3>1
      <3>2. CASE d # c
        BY <1>1, <1>2, <2>2, <3>2, ForestIs
      <3> QED BY <3>1, <3>2
    <2> QED BY <1>2, <2>1, <2>2, ForestIs
  <1>5. \A d : Hung(g, d) <=> Hung(h, d) \/ d = c
    <2> SUFFICES ASSUME NEW d PROVE Hung(g, d) <=> Hung(h, d) \/ d = c
      OBVIOUS
    <2>1. (\E a, n : Hangs(g, a, n, d)) <=> (\E a, n : Hangs(h, a, n, d)) \/ d = c
      BY <1>2
    <2> QED BY <2>1, HungIs
  <1>6. \A d \in Live(g) : d \in cut \/ g[d].parent = 0 \/ \E n : Hangs(g, g[d].parent, n, d)
    <2> SUFFICES ASSUME NEW d \in Live(h)
                 PROVE  d \in cut \/ g[d].parent = 0 \/ \E n : Hangs(g, g[d].parent, n, d)
      BY <1>2
    <2>1. CASE d = c
      BY <1>2, <2>1
    <2>2. CASE d # c
      <3>1. g[d].parent = h[d].parent
        BY <1>1, <1>2, <2>2, HeapTypes
      <3>2. d \in cut \/ h[d].parent = 0 \/ \E n : Hangs(h, h[d].parent, n, d)
        BY DEF Kept
      <3> QED BY <1>2, <3>1, <3>2
    <2> QED BY <2>1, <2>2
  <1>7. Kept(g, own \ {c}, cut)
    BY <1>2, <1>4, <1>5, <1>6 DEF Kept
  <1> QED BY <1>7 DEF g

(* The caller gives up a copy, or the context its root.                    *)
LEMMA DestroyKept ==
  ASSUME NEW h, NEW own, NEW cut, Kept(h, own, cut), NEW b \in Live(h), b = 1 \/ b \in own
  PROVE  Kept(Destroy(h, b), own \ {b}, cut)
  <1> DEFINE g == Destroy(h, b)
             S == Below(h, b)
  <1>1. h \in Heaps /\ IsForest(h)
    BY DEF Kept, IsForest
  <1>2. /\ g \in Heaps /\ DOMAIN g = DOMAIN h
        /\ Live(g) = Live(h) \ S
        /\ \A a \in Live(g) : g[a] = h[a]
        /\ \A a, n, c : Hangs(g, a, n, c) <=> Hangs(h, a, n, c) /\ a \notin S
    BY <1>1, AfterDestroy
  <1>3. \A a, n, c : Hangs(h, a, n, c) /\ a \in S => c \in S
    <2> SUFFICES ASSUME NEW a, NEW n, NEW c, Hangs(h, a, n, c), a \in S PROVE c \in S
      OBVIOUS
    <2>1. c \in Children(h, a)
      BY DEF Hangs, Children
    <2> QED BY <1>1, <2>1, BelowIsWhole
  <1>4. \A a \in S : a # b => Hung(h, a)
    <2> SUFFICES ASSUME NEW a \in S, a # b PROVE Hung(h, a)
      OBVIOUS
    <2>1. PICK c \in S : a \in Children(h, c)
      BY <1>1, BelowHangs
    <2>2. c \in Live(h)
      BY <1>1, BelowIsLive
    <2> QED BY <2>1, <2>2 DEF Hung
  <1> HIDE DEF g, S
  <1>5. \A c : Hung(g, c) => Hung(h, c)
    BY <1>2, HungIs
  <1>6. \A c \in Live(g) : Hung(h, c) => Hung(g, c)
    <2> SUFFICES ASSUME NEW c \in Live(g), NEW a, NEW n, Hangs(h, a, n, c) PROVE Hung(g, c)
      BY HungIs
    <2>1. a \notin S
      BY <1>2, <1>3
    <2> QED BY <1>2, <2>1, HungIs
  <1>7. own \ {b} \subseteq Live(g)
    BY <1>2, <1>4 DEF Kept
  <1>8. IsForest(g)
    <2>1. ASSUME NEW a, NEW n, NEW c, Hangs(g, a, n, c) PROVE c \in Live(g) /\ a < c
      <3>1. Hangs(h, a, n, c) /\ a \notin S
        BY <1>2, <2>1
      <3>2. c \in Live(h) /\ a < c
        BY <1>1, <3>1, ForestIs
      <3>3. c \notin S
        <4> SUFFICES ASSUME c \in S PROVE FALSE
          OBVIOUS
        <4>1. c # b
          <5>1. Hung(h, c)
            BY <3>1, HungIs
          <5>2. ~Hung(h, b)
            <6>1. CASE b = 1
              <7> SUFFICES ASSUME NEW x, NEW m, Hangs(h, x, m, 1) PROVE FALSE
                BY <6>1, HungIs
              <7>1. x \in Live(h) /\ x < 1
                BY <1>1, ForestIs DEF Hangs
              <7> QED BY <1>1, <7>1, HeapTypes
            <6>2. CASE b \in own
              BY <6>2 DEF Kept
            <6> QED BY <6>1, <6>2
          <5> QED BY <5>1, <5>2
        <4>2. PICK x \in S : c \in Children(h, x)
          BY <1>1, <4>1, BelowHangs DEF S
        <4>3. x \in Live(h)
          BY <1>1, BelowIsLive DEF S
        <4>4. PICK m : Hangs(h, x, m, c)
          BY <4>2, <4>3, HungIs
        <4>5. x = a
          BY <1>1, <3>1, <4>4, ForestIs
        <4> QED BY <3>1, <4>5
      <3> QED BY <1>2, <3>2, <3>3
    <2>2. ASSUME NEW a, NEW m, NEW x, NEW n, NEW c, Hangs(g, a, m, c), Hangs(g, x, n, c)
          PROVE  a = x /\ m = n
      BY <1>1, <1>2, <2>2, ForestIs
    <2> QED BY <1>2, <2>1, <2>2, ForestIs
  <1>9. \A c \in Live(g) : c \in cut \/ g[c].parent = 0 \/ \E n : Hangs(g, g[c].parent, n, c)
    <2> SUFFICES ASSUME NEW c \in Live(g)
                 PROVE  c \in cut \/ g[c].parent = 0 \/ \E n : Hangs(g, g[c].parent, n, c)
      OBVIOUS
    <2>1. c \in Live(h) /\ c \notin S /\ g[c] = h[c]
      BY <1>2
    <2>2. c \in cut \/ h[c].parent = 0 \/ \E n : Hangs(h, h[c].parent, n, c)
      BY <2>1 DEF Kept
    <2>3. \A n : Hangs(h, h[c].parent, n, c) => Hangs(g, h[c].parent, n, c)
      BY <1>2, <1>3, <2>1
    <2> QED BY <2>1, <2>2, <2>3
  <1>10. \A c \in Live(g) : Hung(g, c) \/ c = 1 \/ c \in own \ {b} \/ c \in cut
    <2> SUFFICES ASSUME NEW c \in Live(g)
                 PROVE  Hung(g, c) \/ c = 1 \/ c \in own \ {b} \/ c \in cut
      OBVIOUS
    <2>1. c \in Live(h) /\ c # b
      BY <1>1, <1>2, BelowIsLive DEF S
    <2>2. Hung(h, c) \/ c = 1 \/ c \in own \/ c \in cut
      BY <2>1 DEF Kept
    <2> QED BY <1>6, <2>1, <2>2
  <1>11. Kept(g, own \ {b}, cut)
    BY <1>2, <1>5, <1>7, <1>8, <1>9, <1>10 DEF Kept
  <1> QED BY <1>11 DEF g

(* What a second parse cuts off belongs to nobody from then on.            *)
LEMMA CutKept ==
  ASSUME NEW h, NEW own, NEW cut, Kept(h, own, cut), 1 \in Live(h),
         NEW key \in Keys, NEW list \in Seq(STRING)
  PROVE  Kept([h EXCEPT ![1].items = <<Item("value", key, list)>>], own,
              cut \cup (Below(h, 1) \ {1}))
  <1> DEFINE g == [h EXCEPT ![1].items = <<Item("value", key, list)>>]
             S == Below(h, 1)
             off == S \ {1}
  <1>1. h \in Heaps /\ IsForest(h)
    BY DEF Kept, IsForest
  <1>2. /\ g \in Heaps /\ DOMAIN g = DOMAIN h /\ Live(g) = Live(h)
        /\ \A a \in DOMAIN h : g[a].parent = h[a].parent
        /\ \A a, n, c : Hangs(g, a, n, c) <=> Hangs(h, a, n, c) /\ a # 1
    BY <1>1, AfterCut
  <1>3. \A c \in off : c \in Live(h) /\ Hung(h, c)
    <2> SUFFICES ASSUME NEW c \in off PROVE c \in Live(h) /\ Hung(h, c)
      OBVIOUS
    <2>1. PICK a \in S : c \in Children(h, a)
      BY <1>1, BelowHangs
    <2>2. a \in Live(h) /\ c \in Live(h)
      BY <1>1, BelowIsLive
    <2> QED BY <2>1, <2>2 DEF Hung
  <1>4. \A n, c : Hangs(h, 1, n, c) => c \in off
    <2> SUFFICES ASSUME NEW n, NEW c, Hangs(h, 1, n, c) PROVE c \in off
      OBVIOUS
    <2>1. c \in Children(h, 1) /\ 1 \in S
      BY <1>1, BelowIsLive DEF Hangs, Children
    <2>2. c \in S
      BY <1>1, <2>1, BelowIsWhole
    <2>3. 1 < c
      BY <1>1, ForestIs
    <2> QED BY <2>2, <2>3
  <1> HIDE DEF g, S, off
  <1>5. IsForest(g)
    BY <1>1, <1>2, ForestIs
  <1>6. \A c : Hung(g, c) => Hung(h, c)
    BY <1>2, HungIs
  <1>7. \A c : Hung(h, c) => Hung(g, c) \/ c \in off
    <2> SUFFICES ASSUME NEW c, NEW a, NEW n, Hangs(h, a, n, c) PROVE Hung(g, c) \/ c \in off
      BY HungIs
    <2>1. CASE a = 1
      BY <1>4, <2>1
    <2>2. CASE a # 1
      BY <1>2, <2>2, HungIs
    <2> QED BY <2>1, <2>2
  <1>8. 1 \notin off /\ own \cap off = {} /\ off \subseteq DOMAIN h
    BY <1>3 DEF Kept, Live, off
  <1>9. \A c \in Live(g) : c \in cut \cup off \/ g[c].parent = 0 \/ \E n : Hangs(g, g[c].parent, n, c)
    <2> SUFFICES ASSUME NEW c \in Live(h)
                 PROVE  c \in cut \cup off \/ g[c].parent = 0 \/ \E n : Hangs(g, g[c].parent, n, c)
      BY <1>2
    <2>1. g[c].parent = h[c].parent
      BY <1>1, <1>2, HeapTypes
    <2>2. c \in cut \/ h[c].parent = 0 \/ \E n : Hangs(h, h[c].parent, n, c)
      BY DEF Kept
    <2>3. h[c].parent = 1 => \A n : Hangs(h, h[c].parent, n, c) => c \in off
      BY <1>4
    <2> QED BY <1>2, <2>1, <2>2, <2>3
  <1>10. Kept(g, own, cut \cup off)
    BY <1>2, <1>5, <1>6, <1>7, <1>8, <1>9 DEF Kept
  <1> QED BY <1>10 DEF g, S, off

-----------------------------------------------------------------------------
TreeInv ==
    /\ Kept(heap, owned, lost)
    /\ Len(heap) <= MaxBlocks
    /\ calls \in 0 .. MaxCalls

LEMMA PlacesIs ==
  ASSUME NEW h, NEW c
  PROVE  /\ \A p \in Places(h, c) : \E a, n : p = <<a, n>> /\ Hangs(h, a, n, c)
         /\ \A a, n : Hangs(h, a, n, c) => <<a, n>> \in Places(h, c)
  <1>1. ASSUME NEW p \in Places(h, c) PROVE \E a, n : p = <<a, n>> /\ Hangs(h, a, n, c)
    <2>1. PICK a \in Live(h) : p \in {<<a, n>> : n \in {m \in BlockItems(h, a) : h[a].items[m].value = c}}
      BY DEF Places
    <2>2. PICK n \in {m \in BlockItems(h, a) : h[a].items[m].value = c} : p = <<a, n>>
      BY <2>1
    <2> QED BY <2>2 DEF Hangs
  <1>2. ASSUME NEW a, NEW n, Hangs(h, a, n, c) PROVE <<a, n>> \in Places(h, c)
    <2>1. a \in Live(h) /\ n \in {m \in BlockItems(h, a) : h[a].items[m].value = c}
      BY <1>2 DEF Hangs
    <2>2. <<a, n>> \in {<<a, k>> : k \in {m \in BlockItems(h, a) : h[a].items[m].value = c}}
      BY <2>1
    <2> QED BY <2>1, <2>2 DEF Places
  <1> QED BY <1>1, <1>2

LEMMA InitTree == TreeInit => TreeInv
  <1> SUFFICES ASSUME TreeInit PROVE TreeInv
    OBVIOUS
  <1>1. heap \in Files /\ owned = {} /\ lost = {} /\ calls = 0
    BY DEF TreeInit
  <1>2. /\ heap \in Seq(Blocks) /\ Len(heap) \in 1 .. MaxBlocks /\ heap[1].parent = 0
        /\ \A a \in DOMAIN heap : Children(heap, a) \subseteq a + 1 .. Len(heap)
        /\ \A b \in 2 .. Len(heap) :
            /\ heap[b].parent \in DOMAIN heap
            /\ \E n \in BlockItems(heap, heap[b].parent) : Places(heap, b) = {<<heap[b].parent, n>>}
    BY <1>1, FilesAssumption
  <1>3. /\ heap \in Heaps /\ Len(heap) \in Nat /\ DOMAIN heap = 1 .. Len(heap)
        /\ \A a \in DOMAIN heap : heap[a] \in Blocks
    <2>1. heap \in Seq(Blocks \cup {NULL})
      BY <1>2, SeqMonotonic
    <2> QED BY <1>2, <2>1 DEF Heaps
  <1>4. Live(heap) = 1 .. Len(heap)
    BY <1>3, BlockTypes DEF Live
  <1>5. \A a, n, c : Hangs(heap, a, n, c) => c \in 2 .. Len(heap) /\ a < c
    <2> SUFFICES ASSUME NEW a, NEW n, NEW c, Hangs(heap, a, n, c) PROVE c \in 2 .. Len(heap) /\ a < c
      OBVIOUS
    <2>1. a \in 1 .. Len(heap) /\ c \in Children(heap, a)
      BY <1>4 DEF Hangs, Children
    <2>2. c \in a + 1 .. Len(heap)
      BY <1>2, <1>3, <2>1
    <2> QED BY <1>3, <2>1, <2>2
  <1>6. ASSUME NEW c \in 2 .. Len(heap)
        PROVE  /\ \E n : Hangs(heap, heap[c].parent, n, c)
               /\ \A a, m, b, n : Hangs(heap, a, m, c) /\ Hangs(heap, b, n, c) => a = b /\ m = n
    <2>1. PICK n \in BlockItems(heap, heap[c].parent) : Places(heap, c) = {<<heap[c].parent, n>>}
      BY <1>2
    <2>2. \A a, m : Hangs(heap, a, m, c) => <<a, m>> = <<heap[c].parent, n>>
      BY <2>1, PlacesIs
    <2>3. \E a, m : <<heap[c].parent, n>> = <<a, m>> /\ Hangs(heap, a, m, c)
      BY <2>1, PlacesIs
    <2>4. Hangs(heap, heap[c].parent, n, c)
      BY <2>3
    <2> QED BY <2>2, <2>4
  <1>7. IsForest(heap)
    BY <1>3, <1>4, <1>5, <1>6, ForestIs
  <1>8. \A c \in Live(heap) : Hung(heap, c) \/ c = 1
    BY <1>3, <1>4, <1>6, HungIs
  <1>9. \A c \in Live(heap) : heap[c].parent = 0 \/ \E n : Hangs(heap, heap[c].parent, n, c)
    BY <1>2, <1>3, <1>4, <1>6
  <1> QED BY <1>1, <1>2, <1>3, <1>7, <1>8, <1>9, BoundsAssumption DEF Kept, TreeInv

LEMMA CallCounts ==
  ASSUME TreeInv, Call
  PROVE  calls' \in 0 .. MaxCalls
  BY BoundsAssumption DEF TreeInv, Call

LEMMA OneElement ==
  ASSUME NEW S, NEW e \in S
  PROVE  <<e>> \in Seq(S)
  OBVIOUS

LEMMA ListsAre ==
  ASSUME NEW value \in Values
  PROVE  <<value>> \in Seq(STRING)
  <1>1. value \in STRING
    BY StringsAssumption
  <1> QED BY <1>1, OneElement

LEMMA InvFacts ==
  ASSUME TreeInv
  PROVE  /\ heap \in Heaps /\ IsForest(heap) /\ Kept(heap, owned, lost)
         /\ Len(heap) \in Nat /\ DOMAIN heap = 1 .. Len(heap) /\ Live(heap) \subseteq 1 .. Len(heap)
         /\ Usable \subseteq Live(heap)
         /\ 1 \in DOMAIN heap /\ (heap[1] # NULL => 1 \in Live(heap))
         /\ Len(heap) + 1 \notin owned
  <1>1. heap \in Heaps /\ IsForest(heap) /\ Kept(heap, owned, lost)
    BY DEF TreeInv, Kept, IsForest
  <1>2. Len(heap) \in Nat /\ DOMAIN heap = 1 .. Len(heap) /\ Live(heap) \subseteq 1 .. Len(heap)
    BY <1>1, HeapTypes
  <1>3. 1 \in DOMAIN heap /\ owned \subseteq Live(heap)
    BY <1>1 DEF Kept
  <1>4. Len(heap) + 1 \notin owned
    BY <1>2, <1>3
  <1>5. Usable \subseteq Live(heap)
    BY DEF Usable
  <1>6. heap[1] # NULL => 1 \in Live(heap)
    BY <1>3 DEF Live
  <1> QED BY <1>1, <1>2, <1>3, <1>4, <1>5, <1>6

LEMMA ValueStep ==
  ASSUME TreeInv, NEW b \in Live(heap), NEW key \in Keys, NEW value \in Values,
         heap' = AddValue(heap, b, key, <<value>>), UNCHANGED <<owned, lost>>
  PROVE  Kept(heap, owned, lost)' /\ Len(heap') = Len(heap)
  <1> DEFINE g == AddValue(heap, b, key, <<value>>)
  <1>1. <<value>> \in Seq(STRING)
    BY ListsAre
  <1>2. heap \in Heaps /\ Kept(heap, owned, lost) /\ b \in DOMAIN heap
    BY InvFacts
  <1>3. /\ g \in Heaps /\ Len(g) = Len(heap) /\ DOMAIN g = DOMAIN heap
        /\ Live(g) = Live(heap)
        /\ \A a \in DOMAIN heap : a # b => g[a] = heap[a]
        /\ g[b].parent = heap[b].parent
        /\ \A a, n, c : Hangs(g, a, n, c) <=> Hangs(heap, a, n, c)
    BY <1>1, <1>2, AfterValue
  <1> HIDE DEF g
  <1>4. \A a \in DOMAIN heap : g[a].parent = heap[a].parent
    BY <1>3
  <1>5. Kept(g, owned, lost)
    BY <1>2, <1>3, <1>4, SamePlacesKept
  <1>6. heap' = g /\ owned' = owned /\ lost' = lost
    BY DEF g
  <1>7. Kept(heap', owned', lost')
    BY <1>5, <1>6
  <1> QED BY <1>3, <1>6, <1>7

LEMMA CommentStep ==
  ASSUME TreeInv, NEW b \in Usable, AddComment(b)
  PROVE  TreeInv'
  <1> DEFINE item == Item("comment", NULL, "text")
             g == LinkItem(heap, b, item)
  <1>1. item \in Items /\ item.type = "comment"
    <2>1. "text" \in STRING /\ NULL \in Keys \cup {NULL}
      BY StringsAssumption
    <2>2. item \in Items
      BY <2>1, NewItemTypes
    <2> QED BY <2>2 DEF Item
  <1> HIDE DEF item
  <1>2. heap \in Heaps /\ Kept(heap, owned, lost) /\ b \in Live(heap) /\ b \in DOMAIN heap
    BY InvFacts
  <1>3. /\ g \in Heaps /\ Len(g) = Len(heap) /\ DOMAIN g = DOMAIN heap
        /\ Live(g) = Live(heap)
        /\ \A a \in DOMAIN heap : a # b => g[a] = heap[a]
        /\ g[b].parent = heap[b].parent
        /\ \A a, n, c : Hangs(g, a, n, c) <=> Hangs(heap, a, n, c)
    BY <1>1, <1>2, ItemAdded
  <1> HIDE DEF g
  <1>4. \A a \in DOMAIN heap : g[a].parent = heap[a].parent
    BY <1>3
  <1>5. Kept(g, owned, lost)
    BY <1>2, <1>3, <1>4, SamePlacesKept
  <1>6. heap' = g /\ owned' = owned /\ lost' = lost /\ Call
    BY DEF AddComment, g, item
  <1>7. Kept(heap', owned', lost') /\ Len(heap') <= MaxBlocks
    BY <1>3, <1>5, <1>6 DEF TreeInv
  <1> QED BY <1>6, <1>7, CallCounts DEF TreeInv

LEMMA AddBlockStep ==
  ASSUME TreeInv, NEW b \in Usable, NEW key \in Keys, NEW source \in Usable, AddBlock(b, key, source)
  PROVE  TreeInv'
  <1> DEFINE new == Len(heap) + 1
             N == Cardinality(Below(heap, source))
             k == Copy(heap, source)
             g == Linked(k, b, key, new)
  <1>1. /\ Kept(heap, owned, lost) /\ b \in Live(heap) /\ source \in Live(heap) /\ IsForest(heap)
        /\ Len(heap) \in Nat /\ b \in 1 .. Len(heap) /\ new \notin owned
    BY InvFacts
  <1>2. Kept(k, owned \cup {new}, lost)
    BY <1>1, CopyKept
  <1>3. k \in Heaps /\ Len(k) = Len(heap) + N /\ b \in Live(k)
    BY <1>1, AfterCopy
  <1> HIDE DEF k
  <1>4. b < new /\ new \in owned \cup {new} /\ (owned \cup {new}) \ {new} = owned
    BY <1>1
  <1> HIDE DEF new
  <1>5. Kept(g, owned, lost)
    <2>1. Kept(g, (owned \cup {new}) \ {new}, lost)
      BY <1>2, <1>3, <1>4, LinkKept
    <2> QED BY <1>4, <2>1
  <1>6. Len(g) = Len(k)
    <2>1. new \in Live(k) /\ b # new
      BY <1>1, <1>2, <1>4 DEF Kept
    <2> QED BY <1>3, <2>1, AfterLinked
  <1> HIDE DEF g
  <1>7. heap' = g /\ owned' = owned /\ lost' = lost /\ Call /\ Len(heap) + N <= MaxBlocks
    BY DEF AddBlock, AddCopy, g, k, new
  <1>8. Kept(heap', owned', lost') /\ Len(heap') <= MaxBlocks
    BY <1>3, <1>5, <1>6, <1>7
  <1> QED BY <1>7, <1>8, CallCounts DEF TreeInv

LEMMA NewBlockStep ==
  ASSUME TreeInv, NEW b \in Usable, NEW key \in Keys,
         NEW name \in {<<>>} \cup {<<v>> : v \in Values}, nfcconf_block_add(b, key, name)
  PROVE  TreeInv'
  <1> DEFINE new == Len(heap) + 1
             names == IF name = <<>> THEN <<"">> ELSE name
             k == Append(heap, Block(0, names))
             g == Linked(k, b, key, new)
  <1>1. /\ Kept(heap, owned, lost) /\ b \in Live(heap) /\ heap \in Heaps
        /\ Len(heap) \in Nat /\ b \in 1 .. Len(heap) /\ new \notin owned
    BY InvFacts
  <1>2. names \in Seq(STRING)
    <2>1. <<"">> \in Seq(STRING)
      <3>1. "" \in STRING
        BY StringsAssumption
      <3> QED BY <3>1, OneElement
    <2>2. \A v \in Values : <<v>> \in Seq(STRING)
      BY ListsAre
    <2> QED BY <2>1, <2>2
  <1>3. heap' = g /\ owned' = owned /\ lost' = lost /\ Call /\ Len(heap) < MaxBlocks
    BY DEF nfcconf_block_add, AddNewBlock
  <1> HIDE DEF names
  <1>4. Kept(k, owned \cup {new}, lost)
    BY <1>1, <1>2, NewKept
  <1>5. k \in Heaps /\ Len(k) = new /\ b \in Live(k)
    BY <1>1, <1>2, AfterNew
  <1> HIDE DEF k
  <1>6. b < new /\ new \in owned \cup {new} /\ (owned \cup {new}) \ {new} = owned
    BY <1>1
  <1>7. new <= MaxBlocks
    BY <1>1, <1>3, BoundsAssumption
  <1> HIDE DEF new
  <1>8. Kept(g, owned, lost)
    <2>1. Kept(g, (owned \cup {new}) \ {new}, lost)
      BY <1>4, <1>5, <1>6, LinkKept
    <2> QED BY <1>6, <2>1
  <1>9. Len(g) = Len(k)
    <2>1. new \in Live(k) /\ b # new
      BY <1>1, <1>4, <1>6 DEF Kept
    <2> QED BY <1>5, <2>1, AfterLinked
  <1> HIDE DEF g
  <1>10. Kept(heap', owned', lost') /\ Len(heap') <= MaxBlocks
    BY <1>3, <1>5, <1>7, <1>8, <1>9
  <1> QED BY <1>3, <1>10, CallCounts DEF TreeInv

LEMMA CopyStep ==
  ASSUME TreeInv, NEW b \in Usable, nfcconf_block_copy(b)
  PROVE  TreeInv'
  <1> DEFINE g == Copy(heap, b)
             new == Len(heap) + 1
             N == Cardinality(Below(heap, b))
  <1>1. Kept(heap, owned, lost) /\ b \in Live(heap) /\ IsForest(heap)
    BY InvFacts
  <1>2. Kept(g, owned \cup {new}, lost)
    BY <1>1, CopyKept
  <1>3. Len(g) = Len(heap) + N
    BY <1>1, AfterCopy
  <1> HIDE DEF g
  <1>4. heap' = g /\ owned' = owned \cup {new} /\ lost' = lost /\ Call /\ Len(heap) + N <= MaxBlocks
    BY DEF nfcconf_block_copy, g
  <1>5. Kept(heap', owned', lost') /\ Len(heap') <= MaxBlocks
    BY <1>2, <1>3, <1>4
  <1> QED BY <1>4, <1>5, CallCounts DEF TreeInv

LEMMA DestroyStep ==
  ASSUME TreeInv, NEW b \in Live(heap), b = 1 \/ b \in owned,
         Call, heap' = Destroy(heap, b), owned' = owned \ {b}, lost' = lost
  PROVE  TreeInv'
  <1> DEFINE g == Destroy(heap, b)
  <1>1. Kept(heap, owned, lost) /\ IsForest(heap)
    BY InvFacts
  <1>2. Kept(g, owned \ {b}, lost)
    BY <1>1, DestroyKept
  <1>3. Len(g) = Len(heap)
    BY <1>1, AfterDestroy
  <1> HIDE DEF g
  <1>4. heap' = g
    BY DEF g
  <1>5. Kept(heap', owned', lost') /\ Len(heap') <= MaxBlocks
    BY <1>2, <1>3, <1>4 DEF TreeInv
  <1> QED BY <1>5, CallCounts DEF TreeInv

LEMMA CutStep ==
  ASSUME TreeInv, NEW key \in Keys, NEW value \in Values, ParseNewKey(key, value)
  PROVE  TreeInv'
  <1> DEFINE g == [heap EXCEPT ![1].items = <<Item("value", key, <<value>>)>>]
             off == Below(heap, 1) \ {1}
  <1>1. heap' = g /\ owned' = owned /\ lost' = lost \cup off /\ Call /\ heap[1] # NULL
    BY DEF ParseNewKey
  <1>2. heap \in Heaps /\ Kept(heap, owned, lost) /\ 1 \in Live(heap) /\ <<value>> \in Seq(STRING)
    BY <1>1, InvFacts, ListsAre
  <1>3. Kept(g, owned, lost \cup off)
    BY <1>2, CutKept
  <1>4. Len(g) = Len(heap)
    BY <1>2, AfterCut
  <1> HIDE DEF g, off
  <1>5. Kept(heap', owned', lost') /\ Len(heap') <= MaxBlocks
    BY <1>1, <1>3, <1>4 DEF TreeInv
  <1> QED BY <1>1, <1>5, CallCounts DEF TreeInv

(* The calls, each with what it is called for.                             *)
LEMMA Calls ==
  ASSUME TreeNext
  PROVE  \/ \E b \in Usable, key \in Keys, value \in Values : nfcconf_put_str(b, key, value)
         \/ \E b \in Usable, key \in Keys, source \in Usable : AddBlock(b, key, source)
         \/ \E b \in Usable, key \in Keys, name \in {<<>>} \cup {<<v>> : v \in Values} :
                nfcconf_block_add(b, key, name)
         \/ \E b \in Usable : AddComment(b) \/ nfcconf_block_copy(b) \/ nfcconf_block_destroy(b)
         \/ nfcconf_free
         \/ \E key \in Keys, value \in Values : ParseKnownKey(key, value) \/ ParseNewKey(key, value)
  BY DEF TreeNext

LEMMA StepKeepsTree ==
  ASSUME TreeInv, [TreeNext]_treevars
  PROVE  TreeInv'
  <1>1. ASSUME NEW b \in Usable, NEW key \in Keys, NEW value \in Values, nfcconf_put_str(b, key, value)
        PROVE  TreeInv'
    <2>1. b \in Live(heap)
      BY InvFacts
    <2>2. heap' = AddValue(heap, b, key, <<value>>) /\ UNCHANGED <<owned, lost>> /\ Call
      BY <1>1 DEF nfcconf_put_str
    <2>3. Kept(heap, owned, lost)' /\ Len(heap') = Len(heap)
      BY <2>1, <2>2, ValueStep
    <2> QED BY <2>2, <2>3, CallCounts DEF TreeInv
  <1>2. ASSUME NEW key \in Keys, NEW value \in Values, ParseKnownKey(key, value) PROVE TreeInv'
    <2>1. heap' = AddValue(heap, 1, key, <<value>>) /\ UNCHANGED <<owned, lost>> /\ Call /\ heap[1] # NULL
      BY <1>2 DEF ParseKnownKey
    <2>2. 1 \in Live(heap)
      BY <2>1, InvFacts
    <2>3. Kept(heap, owned, lost)' /\ Len(heap') = Len(heap)
      BY <2>1, <2>2, ValueStep
    <2> QED BY <2>1, <2>3, CallCounts DEF TreeInv
  <1>3. ASSUME NEW b \in Usable, nfcconf_block_destroy(b) PROVE TreeInv'
    <2>1. b \in Live(heap)
      BY InvFacts
    <2> QED BY <1>3, <2>1, DestroyStep DEF nfcconf_block_destroy
  <1>4. CASE nfcconf_free
    <2>1. Call /\ heap[1] # NULL /\ heap' = Destroy(heap, 1) /\ owned' = owned /\ lost' = lost
      BY <1>4 DEF nfcconf_free
    <2>2. 1 \in Live(heap) /\ 1 \notin owned
      BY <2>1, InvFacts DEF Kept
    <2>3. owned' = owned \ {1}
      BY <2>1, <2>2
    <2> QED BY <2>1, <2>2, <2>3, DestroyStep
  <1>5. CASE UNCHANGED treevars
    <2>1. heap' = heap /\ owned' = owned /\ lost' = lost /\ calls' = calls
      BY <1>5 DEF treevars
    <2> QED BY <2>1 DEF TreeInv
  <1> QED
    BY <1>1, <1>2, <1>3, <1>4, <1>5, Calls, AddBlockStep, NewBlockStep, CommentStep, CopyStep, CutStep

THEOREM TreeInvHolds == TreeSpec => []TreeInv
  <1>1. TreeInv /\ [TreeNext]_treevars => TreeInv'
    BY StepKeepsTree
  <1> QED BY <1>1, InitTree, PTL DEF TreeSpec

(* No call leaves a pointer to a freed block, or a parent that does not    *)
(* have its child, in any order of calls on any trees and copies.          *)
THEOREM TypeCorrect == TreeSpec => []TreeTypeOK
  <1>1. TreeInv => TreeTypeOK
    <2> SUFFICES ASSUME TreeInv PROVE TreeTypeOK
      OBVIOUS
    <2>1. heap \in Heaps /\ IsForest(heap) /\ Kept(heap, owned, lost)
      BY InvFacts
    <2>2. ASSUME NEW b \in Live(heap)
          PROVE  /\ Children(heap, b) \subseteq Live(heap)
                 /\ \/ b \in lost \/ heap[b].parent = 0
                    \/ heap[b].parent \in Live(heap) /\ b \in Children(heap, heap[b].parent)
      <3>1. Children(heap, b) \subseteq Live(heap)
        BY <2>1 DEF IsForest, Down
      <3>2. b \in lost \/ heap[b].parent = 0 \/ \E n : Hangs(heap, heap[b].parent, n, b)
        BY <2>1 DEF Kept
      <3>3. \A n : Hangs(heap, heap[b].parent, n, b) =>
                heap[b].parent \in Live(heap) /\ b \in Children(heap, heap[b].parent)
        BY DEF Hangs, Children
      <3> QED BY <3>1, <3>2, <3>3
    <2>3. owned \subseteq Live(heap) /\ lost \subseteq DOMAIN heap
      BY <2>1 DEF Kept
    <2> QED BY <2>1, <2>2, <2>3 DEF TreeTypeOK, TreeInv, Heaps
  <1> QED BY <1>1, TreeInvHolds, PTL

(* Each block is freed by one only, and none but those cut off by a second *)
(* parse is forgotten: it hangs in one place, or is the root, or a copy in *)
(* the hands of the caller.                                                *)
THEOREM OneOwnerEach == TreeSpec => []OneOwner
  <1>1. TreeInv => OneOwner
    <2> SUFFICES ASSUME TreeInv, NEW b \in Live(heap)
                 PROVE  Cardinality(Places(heap, b)) + Cardinality({b} \cap owned)
                            + (IF b = 1 THEN 1 ELSE 0)
                            + (IF b \in lost /\ Places(heap, b) = {} THEN 1 ELSE 0) = 1
      BY DEF OneOwner
    <2>1. heap \in Heaps /\ IsForest(heap) /\ Kept(heap, owned, lost)
      BY InvFacts
    <2>2. 1 \notin owned /\ 1 \notin lost /\ owned \cap lost = {}
      BY <2>1 DEF Kept
    <2>3. Cardinality({b} \cap owned) = IF b \in owned THEN 1 ELSE 0
      <3>1. CASE b \in owned
        <4>1. {b} \cap owned = {b}
          BY <3>1
        <4> QED BY <3>1, <4>1, FS_Singleton
      <3>2. CASE b \notin owned
        <4>1. {b} \cap owned = {}
          BY <3>2
        <4> QED BY <3>2, <4>1, FS_EmptySet
      <3> QED BY <3>1, <3>2
    <2>4. CASE Hung(heap, b)
      <3>1. PICK a, n : Hangs(heap, a, n, b)
        BY <2>4, HungIs
      <3>2. \A p \in Places(heap, b) : p = <<a, n>>
        <4> SUFFICES ASSUME NEW p \in Places(heap, b) PROVE p = <<a, n>>
          OBVIOUS
        <4>1. PICK c, m : p = <<c, m>> /\ Hangs(heap, c, m, b)
          BY PlacesIs
        <4>2. c = a /\ m = n
          BY <2>1, <3>1, <4>1, ForestIs
        <4> QED BY <4>1, <4>2
      <3>3. <<a, n>> \in Places(heap, b)
        BY <3>1, PlacesIs
      <3>4. Places(heap, b) = {<<a, n>>}
        BY <3>2, <3>3
      <3>5. Cardinality(Places(heap, b)) = 1 /\ Places(heap, b) # {}
        BY <3>4, FS_Singleton
      <3>6. b # 1 /\ b \notin owned
        <4>1. a \in Live(heap) /\ a < b
          BY <2>1, <3>1, ForestIs DEF Hangs
        <4>2. a \in Nat /\ a > 0 /\ b \in Nat
          BY <2>1, <4>1, HeapTypes
        <4> QED BY <2>1, <2>4, <4>1, <4>2 DEF Kept
      <3> QED BY <2>3, <3>5, <3>6
    <2>5. CASE ~Hung(heap, b)
      <3>1. Places(heap, b) = {}
        BY <2>5, HungIs, PlacesIs
      <3>2. Cardinality(Places(heap, b)) = 0
        BY <3>1, FS_EmptySet
      <3>3. b = 1 \/ b \in owned \/ b \in lost
        BY <2>1, <2>5 DEF Kept
      <3> QED BY <2>2, <2>3, <3>1, <3>2, <3>3
    <2> QED BY <2>4, <2>5
  <1> QED BY <1>1, TreeInvHolds, PTL

-----------------------------------------------------------------------------
(* OneBlockGrows of a step from h to g.                                    *)
GrowsOnly(h, g, own) ==
    LET gone == Live(h) \ Live(g)
        changed == {b \in Live(h) \ gone : g[b] # h[b]}
    IN  /\ Cardinality(changed) <= 1
        /\ \A b \in changed :
            /\ g[b].parent = h[b].parent /\ g[b].name = h[b].name
            /\ IsLonger(h[b].items, g[b].items)
        /\ gone = {} \/ \E b \in Live(h) \cap (own \cup {1}) : gone = Below(h, b)

LEMMA OneChanged ==
  ASSUME NEW h, NEW g, NEW own, NEW b, Live(h) \subseteq Live(g),
         \A a \in Live(h) : a # b => g[a] = h[a],
         g[b].parent = h[b].parent, g[b].name = h[b].name, IsLonger(h[b].items, g[b].items)
  PROVE  GrowsOnly(h, g, own)
  <1> DEFINE gone == Live(h) \ Live(g)
             changed == {a \in Live(h) \ gone : g[a] # h[a]}
  <1>1. gone = {}
    OBVIOUS
  <1>2. changed \in SUBSET {b}
    OBVIOUS
  <1> HIDE DEF changed
  <1>3. Cardinality(changed) <= 1
    <2>1. IsFiniteSet({b}) /\ Cardinality({b}) = 1
      BY FS_Singleton
    <2> QED BY <1>2, <2>1, FS_Subset
  <1>4. \A a \in changed : a = b
    BY <1>2
  <1> QED BY <1>1, <1>3, <1>4 DEF GrowsOnly, changed

LEMMA NoneChanged ==
  ASSUME NEW h, NEW g, NEW own,
         \A a \in Live(h) \cap Live(g) : g[a] = h[a],
         Live(h) \subseteq Live(g) \/ \E b \in Live(h) \cap (own \cup {1}) : Live(h) \ Live(g) = Below(h, b)
  PROVE  GrowsOnly(h, g, own)
  <1> DEFINE gone == Live(h) \ Live(g)
             changed == {a \in Live(h) \ gone : g[a] # h[a]}
  <1>1. changed = {}
    OBVIOUS
  <1>2. Cardinality(changed) <= 1
    BY <1>1, FS_EmptySet
  <1>3. gone = {} \/ \E b \in Live(h) \cap (own \cup {1}) : gone = Below(h, b)
    OBVIOUS
  <1> HIDE DEF changed
  <1> QED BY <1>1, <1>2, <1>3 DEF GrowsOnly, changed

LEMMA ValueGrows ==
  ASSUME TreeInv, NEW b \in Live(heap), NEW key \in Keys, NEW value \in Values
  PROVE  GrowsOnly(heap, AddValue(heap, b, key, <<value>>), owned)
  <1> DEFINE g == AddValue(heap, b, key, <<value>>)
  <1>1. heap \in Heaps /\ <<value>> \in Seq(STRING)
    BY InvFacts, ListsAre
  <1>2. /\ Live(g) = Live(heap)
        /\ \A a \in DOMAIN heap : a # b => g[a] = heap[a]
        /\ g[b].parent = heap[b].parent /\ g[b].name = heap[b].name
        /\ IsLonger(heap[b].items, g[b].items)
    BY <1>1, AfterValue
  <1> HIDE DEF g
  <1>3. \A a \in Live(heap) : a # b => g[a] = heap[a]
    BY <1>2, InvFacts
  <1>4. GrowsOnly(heap, g, owned)
    BY <1>2, <1>3, OneChanged
  <1> QED BY <1>4 DEF g

(* More blocks behind the old ones, and one of them linked.                *)
LEMMA LinkGrows ==
  ASSUME NEW h \in Heaps, NEW k \in Heaps, NEW own, NEW b \in Live(h), NEW key \in Keys,
         Live(h) \subseteq Live(k), Len(h) + 1 \in Live(k), \A a \in DOMAIN h : k[a] = h[a]
  PROVE  GrowsOnly(h, Linked(k, b, key, Len(h) + 1), own)
  <1> DEFINE new == Len(h) + 1
             g == Linked(k, b, key, new)
  <1>1. Len(h) \in Nat /\ DOMAIN h = 1 .. Len(h) /\ Live(h) \subseteq 1 .. Len(h) /\ h[b] \in Blocks
    BY HeapTypes
  <1>2. new \notin DOMAIN h /\ b # new /\ b \in Live(k) /\ new \in Live(k) /\ k[b] = h[b]
    BY <1>1
  <1>3. \A a \in Live(h) : a \in DOMAIN k /\ k[a] = h[a] /\ a # new
    BY <1>1, <1>2, HeapTypes
  <1> HIDE DEF new
  <1>4. /\ g \in Heaps /\ Live(g) = Live(k)
        /\ \A a \in DOMAIN k : a # b /\ a # new => g[a] = k[a]
        /\ g[b].parent = k[b].parent /\ g[b].name = k[b].name
        /\ Len(g[b].items) = Len(k[b].items) + 1
        /\ \A n \in DOMAIN k[b].items : g[b].items[n] = k[b].items[n]
    <2> SUFFICES ASSUME NEW c \in Live(k), c # b
                 PROVE  LET f == Linked(k, b, key, c)
                        IN  /\ f \in Heaps /\ Live(f) = Live(k)
                            /\ \A a \in DOMAIN k : a # b /\ a # c => f[a] = k[a]
                            /\ f[b].parent = k[b].parent /\ f[b].name = k[b].name
                            /\ Len(f[b].items) = Len(k[b].items) + 1
                            /\ \A n \in DOMAIN k[b].items : f[b].items[n] = k[b].items[n]
      BY <1>2
    <2>1. b \in Live(k)
      BY <1>2
    <2> QED BY <2>1, AfterLinked
  <1> HIDE DEF g
  <1>5. IsLonger(h[b].items, g[b].items)
    <2>1. h[b].items \in Seq(Items) /\ Len(h[b].items) \in Nat
      BY <1>1, BlockTypes
    <2>2. g[b] \in Blocks
      BY <1>2, <1>4, HeapTypes
    <2>3. g[b].items \in Seq(Items)
      BY <2>2, BlockTypes
    <2>4. Len(h[b].items) <= Len(g[b].items)
      BY <1>2, <1>4, <2>1
    <2> QED BY <1>2, <1>4, <2>1, <2>3, <2>4, SameIsLonger
  <1>6. GrowsOnly(h, g, own)
    BY <1>2, <1>3, <1>4, <1>5, OneChanged
  <1> QED BY <1>6 DEF g, new

LEMMA StepGrows ==
  ASSUME TreeInv, [TreeNext]_treevars, \A key \in Keys, value \in Values : ~ParseNewKey(key, value)
  PROVE  GrowsOnly(heap, heap', owned)
  <1>0. heap \in Heaps /\ IsForest(heap) /\ Kept(heap, owned, lost) /\ Usable \subseteq Live(heap)
    BY InvFacts
  <1>1. ASSUME NEW b \in Usable, NEW key \in Keys, NEW value \in Values, nfcconf_put_str(b, key, value)
        PROVE  GrowsOnly(heap, heap', owned)
    BY <1>0, <1>1, ValueGrows DEF nfcconf_put_str
  <1>2. ASSUME NEW key \in Keys, NEW value \in Values, ParseKnownKey(key, value)
        PROVE  GrowsOnly(heap, heap', owned)
    <2>1. 1 \in Live(heap)
      BY <1>2, InvFacts DEF ParseKnownKey
    <2> QED BY <1>2, <2>1, ValueGrows DEF ParseKnownKey
  <1>3. ASSUME NEW b \in Usable, NEW key \in Keys, NEW source \in Usable, AddBlock(b, key, source)
        PROVE  GrowsOnly(heap, heap', owned)
    <2> DEFINE k == Copy(heap, source)
    <2>1. b \in Live(heap) /\ source \in Live(heap) /\ Len(heap) \in Nat
      BY <1>0, HeapTypes
    <2>2. /\ k \in Heaps
          /\ Live(k) = Live(heap) \cup (Len(heap) + 1 .. Len(heap) + Cardinality(Below(heap, source)))
          /\ \A a \in DOMAIN heap : k[a] = heap[a]
      BY <1>0, <2>1, AfterCopy
    <2>3. Cardinality(Below(heap, source)) \in Nat /\ Cardinality(Below(heap, source)) > 0
      BY <1>0, <2>1, CopiesAre
    <2> HIDE DEF k
    <2>4. Len(heap) + 1 \in Live(k) /\ Live(heap) \subseteq Live(k)
      BY <2>1, <2>2, <2>3
    <2>5. GrowsOnly(heap, Linked(k, b, key, Len(heap) + 1), owned)
      BY <1>0, <2>1, <2>2, <2>4, LinkGrows
    <2> QED BY <1>3, <2>5 DEF AddBlock, AddCopy, k
  <1>4. ASSUME NEW b \in Usable, NEW key \in Keys, NEW name \in {<<>>} \cup {<<v>> : v \in Values},
               nfcconf_block_add(b, key, name)
        PROVE  GrowsOnly(heap, heap', owned)
    <2> DEFINE names == IF name = <<>> THEN <<"">> ELSE name
               k == Append(heap, Block(0, names))
    <2>1. names \in Seq(STRING)
      <3>1. <<"">> \in Seq(STRING)
        BY StringsAssumption, OneElement
      <3>2. \A v \in Values : <<v>> \in Seq(STRING)
        BY ListsAre
      <3> QED BY <3>1, <3>2
    <2>2. heap' = Linked(k, b, key, Len(heap) + 1)
      BY <1>4 DEF nfcconf_block_add, AddNewBlock
    <2> HIDE DEF names
    <2>3. /\ k \in Heaps /\ Live(k) = Live(heap) \cup {Len(heap) + 1}
          /\ \A a \in DOMAIN heap : k[a] = heap[a]
      BY <1>0, <2>1, AfterNew
    <2> HIDE DEF k
    <2>4. GrowsOnly(heap, Linked(k, b, key, Len(heap) + 1), owned)
      BY <1>0, <2>3, LinkGrows
    <2> QED BY <2>2, <2>4
  <1>5. ASSUME NEW b \in Usable, AddComment(b) PROVE GrowsOnly(heap, heap', owned)
    <2> DEFINE item == Item("comment", NULL, "text")
               g == LinkItem(heap, b, item)
    <2>1. item \in Items
      <3>1. "text" \in STRING /\ NULL \in Keys \cup {NULL}
        BY StringsAssumption
      <3> QED BY <3>1, NewItemTypes
    <2>2. heap' = g
      BY <1>5 DEF AddComment
    <2> HIDE DEF item
    <2>3. b \in Live(heap) /\ heap[b] \in Blocks
      BY <1>0, HeapTypes
    <2>4. /\ g \in Heaps /\ Live(g) = Live(heap)
          /\ \A a \in DOMAIN heap : a # b => g[a] = heap[a]
          /\ g[b].parent = heap[b].parent /\ g[b].name = heap[b].name
          /\ Len(g[b].items) = Len(heap[b].items) + 1
          /\ \A n \in DOMAIN heap[b].items : g[b].items[n] = heap[b].items[n]
      BY <1>0, <2>1, <2>3, ItemAdded
    <2> HIDE DEF g
    <2>5. IsLonger(heap[b].items, g[b].items)
      <3>1. heap[b].items \in Seq(Items) /\ Len(heap[b].items) \in Nat
        BY <2>3, BlockTypes
      <3>2. g[b] \in Blocks
        BY <2>3, <2>4, HeapTypes
      <3>3. g[b].items \in Seq(Items)
        BY <3>2, BlockTypes
      <3>4. Len(heap[b].items) <= Len(g[b].items)
        BY <2>4, <3>1
      <3> QED BY <2>4, <3>1, <3>3, <3>4, SameIsLonger
    <2>6. \A a \in Live(heap) : a # b => g[a] = heap[a]
      BY <2>4, InvFacts
    <2>7. GrowsOnly(heap, g, owned)
      BY <2>4, <2>5, <2>6, OneChanged
    <2> QED BY <2>2, <2>7
  <1>6. ASSUME NEW b \in Usable, nfcconf_block_copy(b) PROVE GrowsOnly(heap, heap', owned)
    <2> DEFINE g == Copy(heap, b)
    <2>1. Live(heap) \subseteq Live(g) /\ \A a \in DOMAIN heap : g[a] = heap[a]
      BY <1>0, AfterCopy
    <2> HIDE DEF g
    <2>2. \A a \in Live(heap) : g[a] = heap[a]
      BY <2>1, InvFacts
    <2>3. GrowsOnly(heap, g, owned)
      BY <2>1, <2>2, NoneChanged
    <2> QED BY <1>6, <2>3 DEF nfcconf_block_copy, g
  <1>7. ASSUME NEW b \in Live(heap), b = 1 \/ b \in owned, heap' = Destroy(heap, b)
        PROVE  GrowsOnly(heap, heap', owned)
    <2> DEFINE g == Destroy(heap, b)
    <2>1. Live(g) = Live(heap) \ Below(heap, b) /\ \A a \in Live(g) : g[a] = heap[a]
      BY <1>0, AfterDestroy
    <2>2. Below(heap, b) \subseteq Live(heap)
      BY <1>0, BelowIsLive
    <2> HIDE DEF g
    <2>3. b \in Live(heap) \cap (owned \cup {1}) /\ Live(heap) \ Live(g) = Below(heap, b)
      BY <1>7, <2>1, <2>2
    <2>4. GrowsOnly(heap, g, owned)
      BY <2>1, <2>3, NoneChanged
    <2> QED BY <1>7, <2>4 DEF g
  <1>8. ASSUME NEW b \in Usable, nfcconf_block_destroy(b) PROVE GrowsOnly(heap, heap', owned)
    BY <1>0, <1>7, <1>8 DEF nfcconf_block_destroy
  <1>9. CASE nfcconf_free
    <2>1. 1 \in Live(heap)
      BY <1>9, InvFacts DEF nfcconf_free
    <2> QED BY <1>7, <1>9, <2>1 DEF nfcconf_free
  <1>10. CASE UNCHANGED treevars
    <2>1. heap' = heap
      BY <1>10 DEF treevars
    <2> QED BY <2>1, NoneChanged
  <1> QED BY <1>1, <1>2, <1>3, <1>4, <1>5, <1>6, <1>8, <1>9, <1>10, Calls

(* A call frees one tree as a whole or nothing, and changes one block at   *)
(* most, behind what was there; only a second parse cuts off more.         *)
THEOREM OneGrows == TreeSpec => OneBlockGrows
  <1> DEFINE Grows ==
        (\A key \in Keys, value \in Values : ~ParseNewKey(key, value)) =>
            LET gone == Live(heap) \ Live(heap')
                changed == {b \in Live(heap) \ gone : heap'[b] # heap[b]}
            IN  /\ Cardinality(changed) <= 1
                /\ \A b \in changed :
                    /\ heap'[b].parent = heap[b].parent /\ heap'[b].name = heap[b].name
                    /\ IsLonger(heap[b].items, heap'[b].items)
                /\ gone = {} \/ \E b \in Live(heap) \cap (owned \cup {1}) : gone = Below(heap, b)
  <1>1. TreeInv /\ [TreeNext]_treevars => Grows
    BY StepGrows DEF GrowsOnly
  <1>2. (TreeInv /\ TreeInv' /\ [TreeNext]_treevars) => [Grows]_treevars
    BY <1>1
  <1> QED BY <1>2, TreeInvHolds, PTL DEF TreeSpec, OneBlockGrows

-----------------------------------------------------------------------------
(* Text is what its definition says.                                       *)
TextBody(h, f, a) ==
    [name |-> h[a].name, items |-> [n \in DOMAIN h[a].items |-> CopyItem(h[a].items[n], f)]]

Texts(h) == [a \in Live(h) |-> Text(h, a)]

LEMMA TextExists ==
  ASSUME NEW h, IsForest(h)
  PROVE  \E g : g = [a \in Live(h) |-> TextBody(h, g, a)]
  <1> DEFINE From(k) == {a \in Live(h) : a >= k}
             Partly(k) == \E g : g = [a \in From(k) |-> TextBody(h, g, a)]
             S == {k \in 1 .. Len(h) + 1 : Partly(k)}
  <1>1. h \in Heaps /\ Len(h) \in Nat /\ Live(h) \subseteq 1 .. Len(h)
    BY HeapTypes DEF IsForest
  <1>2. ASSUME NEW n \in 1 .. Len(h) + 1, \A k \in n + 1 .. Len(h) + 1 : k \in S
        PROVE  n \in S
    <2>1. PICK f : f = [a \in From(n + 1) |-> TextBody(h, f, a)]
      <3>1. CASE n = Len(h) + 1
        <4> DEFINE f == [a \in From(n + 1) |-> {}]
        <4>1. From(n + 1) = {}
          BY <1>1, <3>1
        <4>2. f = [a \in From(n + 1) |-> TextBody(h, f, a)]
          BY <4>1
        <4> QED BY <4>2
      <3>2. CASE n # Len(h) + 1
        <4>1. n + 1 \in S
          <5> HIDE DEF S
          <5> QED BY <1>1, <1>2, <3>2
        <4>2. Partly(n + 1)
          BY <4>1
        <4> HIDE DEF From
        <4> QED BY <4>2
      <3> QED BY <3>1, <3>2
    <2> DEFINE g == [a \in From(n) |-> TextBody(h, f, a)]
    <2>2. ASSUME NEW a \in From(n) PROVE TextBody(h, g, a) = TextBody(h, f, a)
      <3>1. ASSUME NEW m \in DOMAIN h[a].items
            PROVE  CopyItem(h[a].items[m], g) = CopyItem(h[a].items[m], f)
        <4>1. CASE h[a].items[m].type = "block"
          <5> DEFINE c == h[a].items[m].value
          <5>1. c \in Children(h, a)
            BY <4>1 DEF Children, BlockItems
          <5> HIDE DEF c
          <5>2. c \in From(n + 1) /\ c \in From(n)
            BY <1>1, <2>2, <5>1 DEF IsForest, Down
          <5>3. f[c] = TextBody(h, f, c) /\ g[c] = TextBody(h, f, c)
            BY <2>1, <5>2
          <5> HIDE DEF g
          <5> QED BY <4>1, <5>3 DEF CopyItem, c
        <4>2. CASE h[a].items[m].type # "block"
          BY <4>2 DEF CopyItem
        <4> QED BY <4>1, <4>2
      <3> HIDE DEF g
      <3> QED BY <3>1 DEF TextBody
    <2>3. g = [a \in From(n) |-> TextBody(h, g, a)]
      <3>1. g = [a \in From(n) |-> TextBody(h, f, a)]
        OBVIOUS
      <3> HIDE DEF g
      <3> QED BY <2>2, <3>1
    <2> QED BY <2>3
  <1>3. 1 \in S
    <2> HIDE DEF S
    <2>1. Len(h) + 1 \in Nat
      BY <1>1
    <2>2. \A n \in 1 .. Len(h) + 1 : n \in S
      BY <2>1, <1>2, Downward
    <2> QED BY <1>1, <2>2
  <1>4. From(1) = Live(h)
    BY <1>1
  <1> QED BY <1>3, <1>4

LEMMA TextUnfolds ==
  ASSUME NEW h, IsForest(h), NEW b \in Live(h)
  PROVE  Text(h, b) = TextBody(h, Texts(h), b)
  <1> DEFINE f == CHOOSE g : g = [a \in Live(h) |-> TextBody(h, g, a)]
  <1>1. \A a : Text(h, a) = f[a]
    BY DEF Text, TextBody, CopyItem
  <1>2. f = [a \in Live(h) |-> TextBody(h, f, a)]
    BY TextExists
  <1> HIDE DEF f
  <1>3. Texts(h) = f
    BY <1>1, <1>2 DEF Texts
  <1>4. f[b] = TextBody(h, f, b)
    BY <1>2
  <1> QED BY <1>1, <1>3, <1>4

(* Blocks that are named as others, and whose items point to the copies of *)
(* what theirs point to, say the same.                                     *)
LEMMA SameText ==
  ASSUME NEW h, IsForest(h), NEW g, IsForest(g), NEW b \in Live(h),
         \A s \in Below(h, b) :
            /\ CopyAt(h, b)[s] \in Live(g)
            /\ g[CopyAt(h, b)[s]].name = h[s].name
            /\ g[CopyAt(h, b)[s]].items = CopyBlock(h, s, CopyAt(h, b)).items
  PROVE  Text(g, CopyAt(h, b)[b]) = Text(h, b)
  <1> DEFINE to == CopyAt(h, b)
             S == {k \in 1 .. Len(h) : k \in Below(h, b) => Text(g, to[k]) = Text(h, k)}
  <1>1. h \in Heaps /\ Len(h) \in Nat /\ Live(h) \subseteq 1 .. Len(h)
    BY HeapTypes DEF IsForest
  <1>2. Below(h, b) \subseteq Live(h) /\ b \in Below(h, b)
    BY BelowIsLive
  <1>3. ASSUME NEW n \in 1 .. Len(h), \A k \in n + 1 .. Len(h) : k \in S
        PROVE  n \in S
    <2> SUFFICES ASSUME n \in Below(h, b) PROVE Text(g, to[n]) = Text(h, n)
      OBVIOUS
    <2> DEFINE old == h[n].items
               new == g[to[n]].items
    <2>1. /\ new = CopyBlock(h, n, to).items
          /\ g[to[n]].name = h[n].name
          /\ to[n] \in Live(g) /\ n \in Live(h)
      BY <1>2
    <2>2. /\ DOMAIN new = DOMAIN old
          /\ \A m \in DOMAIN old : new[m] = CopyItem(old[m], to)
          /\ \A m \in BlockItems(h, n) : old[m].value \in Below(h, b)
      <3> DEFINE copy == CopyBlock(h, n, CopyAt(h, b))
      <3>1. /\ DOMAIN copy.items = DOMAIN h[n].items
            /\ \A m \in DOMAIN h[n].items : copy.items[m] = CopyItem(h[n].items[m], CopyAt(h, b))
            /\ \A m \in BlockItems(h, n) : h[n].items[m].value \in Below(h, b)
        BY CopyTypes
      <3> QED BY <2>1, <3>1
    <2>3. ASSUME NEW m \in DOMAIN old
          PROVE  CopyItem(new[m], Texts(g)) = CopyItem(old[m], Texts(h))
      <3>1. CASE old[m].type = "block"
        <4> DEFINE c == old[m].value
        <4>1. m \in BlockItems(h, n) /\ c \in Children(h, n)
          BY <3>1 DEF BlockItems, Children
        <4>2. c \in Below(h, b)
          BY <2>2, <4>1
        <4> HIDE DEF c
        <4>3. c \in n + 1 .. Len(h) /\ c \in Live(h)
          BY <1>1, <1>2, <2>1, <4>1, <4>2 DEF IsForest, Down
        <4>4. Text(g, to[c]) = Text(h, c)
          BY <1>3, <4>2, <4>3
        <4>5. Texts(g)[to[c]] = Text(g, to[c]) /\ Texts(h)[c] = Text(h, c)
          BY <4>2, <4>3 DEF Texts
        <4>6. new[m] = Item("block", old[m].key, to[c])
          BY <2>2, <3>1 DEF CopyItem, c
        <4> HIDE DEF new, to
        <4>7. new[m].type = "block" /\ new[m].key = old[m].key /\ new[m].value = to[c]
          BY <4>6 DEF Item
        <4>8. CopyItem(new[m], Texts(g)) = Item("block", old[m].key, Text(g, to[c]))
          BY <4>5, <4>7 DEF CopyItem
        <4>9. CopyItem(old[m], Texts(h)) = Item("block", old[m].key, Text(h, c))
          BY <3>1, <4>5 DEF CopyItem, c
        <4> QED BY <4>4, <4>8, <4>9
      <3>2. CASE old[m].type # "block"
        BY <2>2, <3>2 DEF CopyItem
      <3> QED BY <3>1, <3>2
    <2>4. TextBody(g, Texts(g), to[n]) = TextBody(h, Texts(h), n)
      <3> HIDE DEF to
      <3> QED BY <2>1, <2>2, <2>3 DEF TextBody
    <2> QED BY <2>1, <2>4, TextUnfolds
  <1>4. \A n \in 1 .. Len(h) : n \in S
    <2> HIDE DEF S
    <2> QED BY <1>1, <1>3, Downward
  <1>5. b \in S
    BY <1>1, <1>4
  <1> QED BY <1>2, <1>5

LEMMA CopyTells ==
  ASSUME TreeInv, TreeInv', NEW b \in Usable, nfcconf_block_copy(b)
  PROVE  Text(heap', Len(heap) + 1) = Text(heap, b)
  <1>1. IsForest(heap) /\ b \in Live(heap) /\ IsForest(heap')
    <2>1. IsForest(heap')
      BY DEF TreeInv, Kept
    <2> QED BY <2>1, InvFacts
  <1>2. heap' = Copy(heap, b)
    BY DEF nfcconf_block_copy
  <1>3. ASSUME NEW s \in Below(heap, b)
        PROVE  /\ CopyAt(heap, b)[s] \in Live(heap')
               /\ heap'[CopyAt(heap, b)[s]] = CopyBlock(heap, s, CopyAt(heap, b))
    BY <1>1, <1>2, AfterCopy, CopiesAre
  <1>4. \A s \in Below(heap, b) : CopyBlock(heap, s, CopyAt(heap, b)).name = heap[s].name
    BY DEF CopyBlock
  <1>5. Text(heap', CopyAt(heap, b)[b]) = Text(heap, b)
    BY <1>1, <1>3, <1>4, SameText
  <1> QED BY <1>1, <1>5, CopiesAre

LEMMA AddTells ==
  ASSUME TreeInv, TreeInv', NEW a \in Usable, NEW key \in Keys, NEW b \in Usable, AddBlock(a, key, b)
  PROVE  Text(heap', Len(heap) + 1) = Text(heap, b)
  <1> DEFINE k == Copy(heap, b)
             to == CopyAt(heap, b)
             new == Len(heap) + 1
  <1>1. IsForest(heap) /\ a \in Live(heap) /\ b \in Live(heap) /\ IsForest(heap')
    <2>1. IsForest(heap')
      BY DEF TreeInv, Kept
    <2> QED BY <2>1, InvFacts
  <1>2. Len(heap) \in Nat /\ a \in 1 .. Len(heap)
    BY <1>1, HeapTypes DEF IsForest
  <1>3. heap' = Linked(k, a, key, new)
    BY DEF AddBlock, AddCopy
  <1>4. /\ k \in Heaps
        /\ Live(k) = Live(heap) \cup (Len(heap) + 1 .. Len(heap) + Cardinality(Below(heap, b)))
        /\ \A s \in Below(heap, b) : k[to[s]] = CopyBlock(heap, s, to)
    BY <1>1, AfterCopy
  <1>5. /\ Cardinality(Below(heap, b)) \in Nat /\ Cardinality(Below(heap, b)) > 0
        /\ \A s \in Below(heap, b) : to[s] \in Len(heap) + 1 .. Len(heap) + Cardinality(Below(heap, b))
        /\ to[b] = new
    BY <1>1, CopiesAre
  <1> HIDE DEF k, to
  <1>6. new \in Live(k) /\ a \in Live(k) /\ a # new
    BY <1>1, <1>2, <1>4, <1>5
  <1>7. \A s \in Below(heap, b) : to[s] \in Live(k) /\ to[s] # a
    BY <1>2, <1>4, <1>5
  <1> HIDE DEF new
  <1>8. /\ Live(heap') = Live(k)
        /\ \A x \in DOMAIN k : x # a /\ x # new => heap'[x] = k[x]
        /\ heap'[new].name = k[new].name /\ heap'[new].items = k[new].items
    <2> SUFFICES ASSUME NEW g, g = Linked(k, a, key, new)
                 PROVE  /\ Live(g) = Live(k)
                        /\ \A x \in DOMAIN k : x # a /\ x # new => g[x] = k[x]
                        /\ g[new].name = k[new].name /\ g[new].items = k[new].items
      BY <1>3
    <2> QED BY <1>4, <1>6, AfterLinked
  <1>9. ASSUME NEW s \in Below(heap, b)
        PROVE  /\ to[s] \in Live(heap')
               /\ heap'[to[s]].name = heap[s].name
               /\ heap'[to[s]].items = CopyBlock(heap, s, to).items
    <2>1. to[s] \in DOMAIN k /\ to[s] \in Live(heap') /\ to[s] # a
      BY <1>7, <1>8 DEF Live
    <2>2. heap'[to[s]].name = k[to[s]].name /\ heap'[to[s]].items = k[to[s]].items
      BY <1>8, <2>1
    <2>3. k[to[s]].name = heap[s].name
      <3>1. k[to[s]] = CopyBlock(heap, s, to)
        BY <1>4
      <3>2. CopyBlock(heap, s, to).name = heap[s].name
        BY DEF CopyBlock
      <3> QED BY <3>1, <3>2
    <2> QED BY <1>4, <2>1, <2>2, <2>3
  <1>10. Text(heap', to[b]) = Text(heap, b)
    BY <1>1, <1>9, SameText DEF to
  <1> QED BY <1>5, <1>10 DEF new

(* A copy says what its source said, also one that is linked into its own  *)
(* source.                                                                 *)
THEOREM CopiesEqual == TreeSpec => CopyIsEqual
  <1> DEFINE Equal ==
        Len(heap') > Len(heap) => \A b \in Usable :
            /\ nfcconf_block_copy(b) => Text(heap', Len(heap) + 1) = Text(heap, b)
            /\ \A a \in Usable, key \in Keys :
                AddBlock(a, key, b) => Text(heap', Len(heap) + 1) = Text(heap, b)
  <1>1. (TreeInv /\ TreeInv' /\ [TreeNext]_treevars) => [Equal]_treevars
    BY CopyTells, AddTells
  <1> QED BY <1>1, TreeInvHolds, PTL DEF TreeSpec, CopyIsEqual

=============================================================================
