--------------------------- MODULE ConfFile_proofs ---------------------------
(***************************************************************************)
(* Theorems about ConfParser, for files of any tokens and any length, and  *)
(* about ConfFile, for files of any length that follow the grammar, over   *)
(* any strings.                                                            *)
(***************************************************************************)
EXTENDS ConfFile, TLAPS, SequenceTheorems, NaturalsInduction, WellFoundedInduction

(* What the tree is made of.                                               *)
ItemRecords ==
    [type : {"block", "value", "comment"}, key : Strings \cup {NULL},
     value : Nat \cup {NULL, "text"} \cup Seq(Strings)]
Blocks == [parent : Nat, name : Seq(Strings \cup {EmptyString}), items : Seq(ItemRecords)]

(* TypeOK and the types of the records in the tree.                        *)
ParserInv ==
    /\ TypeOK
    /\ tree \in Seq(Blocks)
    /\ \A b \in DOMAIN tree : \A n \in DOMAIN tree[b].items :
           tree[b].items[n].type = "value" => tree[b].items[n].value \in Seq(Strings)
    /\ name \in Seq(Strings)
    /\ current_item \in (Nat \X Nat) \cup {NULL}

-----------------------------------------------------------------------------
(* Four things happen to the tree: nothing, a comment or an option is      *)
(* linked, a block is linked and opened, a value is added to an option.    *)

Linked(item) ==
    /\ item \in ItemRecords
    /\ item.type \in {"comment", "value"}
    /\ item.type = "value" => item.value = <<>>
    /\ tree' = [tree EXCEPT ![block].items = Append(tree[block].items, item)]

Opened(names) ==
    /\ names \in Seq(Strings \cup {EmptyString})
    /\ tree' = Append([tree EXCEPT ![block].items =
                           Append(tree[block].items, Item("block", key, Len(tree) + 1))],
                      Block(block, names))

Valued(b, n, s) ==
    /\ b \in DOMAIN tree /\ n \in DOMAIN tree[b].items
    /\ tree[b].items[n].type = "value"
    /\ s \in Strings
    /\ tree' = [tree EXCEPT ![b].items[n].value = Append(@, s)]

(* Block by block, as far as invariants speak of it.                       *)
LEMMA BlockTypes ==
    ASSUME ParserInv, NEW b \in DOMAIN tree
    PROVE  /\ b \in Nat /\ Len(tree) \in Nat /\ b <= Len(tree) /\ b >= 1
           /\ tree[b] \in Blocks
           /\ tree[b].parent \in Nat
           /\ tree[b].items \in Seq(ItemRecords)
           /\ Len(tree[b].items) \in Nat
           /\ DOMAIN tree[b].items = 1 .. Len(tree[b].items)
<1>1. tree \in Seq(Blocks)
  BY DEF ParserInv
<1>2. b \in Nat /\ Len(tree) \in Nat /\ b <= Len(tree) /\ b >= 1 /\ tree[b] \in Blocks
  BY <1>1
<1>3. tree[b].parent \in Nat /\ tree[b].items \in Seq(ItemRecords)
  BY <1>2 DEF Blocks
<1> QED
  BY <1>2, <1>3

LEMMA HereIsBlock ==
    ASSUME ParserInv
    PROVE  /\ block \in DOMAIN tree
           /\ SubSeq(tree[block].items, 1, last_item) = tree[block].items
           /\ last_item = Len(tree[block].items)
           /\ \A item : LinkedItems(item) = Append(tree[block].items, item)
<1>1. block \in DOMAIN tree /\ last_item = Len(tree[block].items)
  BY DEF ParserInv, TypeOK, Items
<1>2. tree[block].items \in Seq(ItemRecords)
  BY <1>1, BlockTypes
<1>3. SubSeq(tree[block].items, 1, last_item) = tree[block].items
  BY <1>1, <1>2
<1> QED
  BY <1>1, <1>3 DEF LinkedItems, Items

LEMMA AfterLinked ==
    ASSUME ParserInv, NEW item, Linked(item)
    PROVE  /\ tree' \in Seq(Blocks)
           /\ Len(tree') = Len(tree)
           /\ \A b \in DOMAIN tree :
                  /\ tree'[b].parent = tree[b].parent /\ tree'[b].name = tree[b].name
                  /\ b # block => tree'[b] = tree[b]
           /\ tree'[block].items = Append(tree[block].items, item)
<1> DEFINE new == [tree[block] EXCEPT !.items = Append(tree[block].items, item)]
<1>1. block \in DOMAIN tree
  BY HereIsBlock
<1>2. tree[block] \in Blocks /\ tree[block].items \in Seq(ItemRecords)
  BY <1>1, BlockTypes
<1>3. Append(tree[block].items, item) \in Seq(ItemRecords)
  BY <1>2 DEF Linked
<1>4. /\ new \in Blocks /\ new.items = Append(tree[block].items, item)
      /\ new.parent = tree[block].parent /\ new.name = tree[block].name
  BY <1>2, <1>3 DEF Blocks
<1>5. tree' = [tree EXCEPT ![block] = new]
  BY DEF Linked
<1> HIDE DEF new
<1>6. tree \in Seq(Blocks)
  BY DEF ParserInv
<1> QED
  BY <1>1, <1>4, <1>5, <1>6

LEMMA AfterOpened ==
    ASSUME ParserInv, NEW names, Opened(names)
    PROVE  /\ tree' \in Seq(Blocks)
           /\ Len(tree') = Len(tree) + 1
           /\ \A b \in DOMAIN tree :
                  /\ tree'[b].parent = tree[b].parent /\ tree'[b].name = tree[b].name
                  /\ b # block => tree'[b] = tree[b]
           /\ tree'[block].items = Append(tree[block].items, Item("block", key, Len(tree) + 1))
           /\ tree'[Len(tree) + 1] = Block(block, names)
<1> DEFINE item == Item("block", key, Len(tree) + 1)
           new == [tree[block] EXCEPT !.items = Append(tree[block].items, item)]
           part == [tree EXCEPT ![block] = new]
<1>1. block \in DOMAIN tree
  BY HereIsBlock
<1>2. tree[block] \in Blocks /\ tree[block].items \in Seq(ItemRecords) /\ block \in Nat
      /\ Len(tree) \in Nat /\ tree \in Seq(Blocks)
  BY <1>1, BlockTypes DEF ParserInv
<1>3. item \in ItemRecords
  BY <1>2 DEF ParserInv, TypeOK, Item, ItemRecords
<1> HIDE DEF item
<1>a. Append(tree[block].items, item) \in Seq(ItemRecords)
  BY <1>2, <1>3
<1>4. /\ new \in Blocks /\ new.items = Append(tree[block].items, item)
      /\ new.parent = tree[block].parent /\ new.name = tree[block].name
  BY <1>2, <1>a DEF Blocks
<1>5. tree' = Append(part, Block(block, names))
  BY DEF Opened, item
<1>6. Block(block, names) \in Blocks
  <2>1. <<>> \in Seq(ItemRecords)
    OBVIOUS
  <2> HIDE DEF new, part
  <2> QED
    BY <1>2, <2>1 DEF Opened, Block, Blocks
<1> HIDE DEF new
<1>7. /\ part \in Seq(Blocks) /\ Len(part) = Len(tree)
      /\ part[block] = new /\ \A b \in DOMAIN tree : b # block => part[b] = tree[b]
  BY <1>1, <1>2, <1>4
<1> HIDE DEF part
<1>8. /\ tree' \in Seq(Blocks) /\ Len(tree') = Len(tree) + 1
      /\ \A b \in DOMAIN tree : tree'[b] = part[b]
      /\ tree'[Len(tree) + 1] = Block(block, names)
  BY <1>2, <1>5, <1>6, <1>7
<1> QED
  BY <1>1, <1>4, <1>7, <1>8 DEF item

LEMMA AfterValued ==
    ASSUME ParserInv, NEW b, NEW n, NEW s, Valued(b, n, s)
    PROVE  /\ tree' \in Seq(Blocks)
           /\ Len(tree') = Len(tree)
           /\ \A a \in DOMAIN tree :
                  /\ tree'[a].parent = tree[a].parent /\ tree'[a].name = tree[a].name
                  /\ a # b => tree'[a] = tree[a]
           /\ Len(tree'[b].items) = Len(tree[b].items)
           /\ \A m \in DOMAIN tree[b].items :
                  /\ tree'[b].items[m].type = tree[b].items[m].type
                  /\ tree'[b].items[m].key = tree[b].items[m].key
                  /\ m # n => tree'[b].items[m] = tree[b].items[m]
           /\ tree'[b].items[n].value = Append(tree[b].items[n].value, s)
           /\ tree[b].items[n].value \in Seq(Strings)
<1> DEFINE old == tree[b].items[n]
           item == [old EXCEPT !.value = Append(old.value, s)]
           items == [tree[b].items EXCEPT ![n] = item]
           new == [tree[b] EXCEPT !.items = items]
<1>1. b \in DOMAIN tree /\ n \in DOMAIN tree[b].items
  BY DEF Valued
<1>2. /\ tree[b] \in Blocks /\ tree[b].items \in Seq(ItemRecords)
      /\ tree \in Seq(Blocks) /\ old \in ItemRecords
  BY <1>1, BlockTypes DEF ParserInv
<1>3. old.value \in Seq(Strings)
  BY <1>1 DEF Valued, ParserInv
<1>4. Append(old.value, s) \in Seq(Strings)
  BY <1>3 DEF Valued
<1>5. /\ item \in ItemRecords /\ item.type = old.type /\ item.key = old.key
      /\ item.value = Append(old.value, s)
  BY <1>2, <1>4 DEF ItemRecords
<1>6. tree' = [tree EXCEPT ![b] = new]
  BY <1>1, <1>2 DEF Valued
<1> HIDE DEF item
<1>7. /\ items \in Seq(ItemRecords) /\ Len(items) = Len(tree[b].items) /\ items[n] = item
      /\ \A m \in DOMAIN tree[b].items : m # n => items[m] = tree[b].items[m]
  BY <1>1, <1>2, <1>5
<1> HIDE DEF items
<1>8. /\ new \in Blocks /\ new.items = items
      /\ new.parent = tree[b].parent /\ new.name = tree[b].name
  BY <1>2, <1>7 DEF Blocks
<1> HIDE DEF new
<1>9. /\ tree' \in Seq(Blocks) /\ Len(tree') = Len(tree) /\ tree'[b] = new
      /\ \A a \in DOMAIN tree : a # b => tree'[a] = tree[a]
  BY <1>1, <1>2, <1>6, <1>8
<1> QED
  BY <1>1, <1>3, <1>5, <1>7, <1>8, <1>9

-----------------------------------------------------------------------------
(* Nothing else happens to the tree, and an option is linked only if the   *)
(* block has none with the key.                                            *)
LEMMA TreeSteps ==
    ASSUME ParserInv, [Next]_vars
    PROVE  \/ tree' = tree
           \/ \E item : Linked(item) /\ (item.type = "value" => item.key = key /\ Found = {})
           \/ \E names : Opened(names)
           \/ \E b, n, s : Valued(b, n, s)
<1> DEFINE Shape ==
        \/ tree' = tree
        \/ \E item : Linked(item) /\ (item.type = "value" => item.key = key /\ Found = {})
        \/ \E names : Opened(names)
        \/ \E b, n, s : Valued(b, n, s)
<1>1. ASSUME NEW text \in {NULL, "text"}, AddComment(text) PROVE Shape
  <2>1. Item("comment", key, text) \in ItemRecords
    BY DEF ParserInv, TypeOK, Item, ItemRecords
  <2>2. Linked(Item("comment", key, text))
    BY <1>1, <2>1, HereIsBlock DEF AddComment, NewItem, Linked, Item
  <2> QED
    BY <2>2 DEF Item
<1>2. CASE AssignNew
  <2>1. <<>> \in Seq(Strings)
    OBVIOUS
  <2>2. Item("value", key, <<>>) \in ItemRecords
    BY <2>1 DEF ParserInv, TypeOK, Item, ItemRecords
  <2>3. Linked(Item("value", key, <<>>))
    BY <1>2, <2>2, HereIsBlock DEF AssignNew, NewItem, Linked, Item
  <2> QED
    BY <1>2, <2>3 DEF Item, AssignNew
<1>3. CASE OpenBlock
  <2> DEFINE names == IF name = <<>> THEN <<EmptyString>> ELSE name
  <2>1. names \in Seq(Strings \cup {EmptyString})
    <3>1. name \in Seq(Strings)
      BY DEF ParserInv
    <3>2. name \in Seq(Strings \cup {EmptyString})
      BY <3>1, SeqMonotonic
    <3>3. <<EmptyString>> \in Seq({EmptyString})
      OBVIOUS
    <3>4. <<EmptyString>> \in Seq(Strings \cup {EmptyString})
      BY <3>3, SeqMonotonic
    <3> QED
      BY <3>2, <3>4
  <2>2. Opened(names)
    BY <1>3, <2>1, HereIsBlock DEF OpenBlock, Opened
  <2> QED
    BY <2>2
<1>4. ASSUME NEW s \in Strings, ReadValue(s) PROVE Shape
  <2>1. current_item # NULL
    BY <1>4 DEF ReadValue, ParserInv, TypeOK
  <2>2. Valued(current_item[1], current_item[2], s)
    BY <1>4, <2>1 DEF ReadValue, ParserInv, TypeOK, Valued, Current
  <2> QED
    BY <2>2
<1>5. CASE UNCHANGED vars
  BY <1>5 DEF vars
<1>6. ASSUME NEW s \in Strings,
             ReadKey(s) \/ ReadName(s) \/ ReadValueIntoComment(s) \/ SecondName(s)
      PROVE  Shape
  BY <1>6 DEF ReadKey, ReadName, ReadValueIntoComment, SecondName, Wild, Fail
<1>7. ASSUME \/ Newline \/ OpenNothing \/ CloseBlock \/ CloseNothing \/ Comma \/ AssignAgain
             \/ AssignFollowsNull \/ AssignNothing \/ Semicolon \/ EndOfFile
      PROVE  Shape
  BY <1>7 DEF Newline, OpenNothing, CloseBlock, CloseNothing, Comma, AssignAgain,
     AssignFollowsNull, AssignNothing, Semicolon, EndOfFile, Wild, Fail
<1>8. CASE EmptyLine \/ Comment
  BY <1>1, <1>8 DEF EmptyLine, Comment
<1> QED
  BY <1>2, <1>3, <1>4, <1>5, <1>6, <1>7, <1>8 DEF Next, NextToken

(* Blocks stay, under the same parent, and so do their items: only the     *)
(* list of an option changes, and only by growing.                         *)
Kept(b) ==
    /\ b \in DOMAIN tree'
    /\ tree'[b].parent = tree[b].parent
    /\ \A n \in DOMAIN tree[b].items :
        /\ n \in DOMAIN tree'[b].items
        /\ tree'[b].items[n].type = tree[b].items[n].type
        /\ tree'[b].items[n].key = tree[b].items[n].key
        /\ \/ tree'[b].items[n].value = tree[b].items[n].value
           \/ /\ tree[b].items[n].type = "value"
              /\ tree[b].items[n].value \in Seq(Strings)
              /\ \E s \in Strings :
                     tree'[b].items[n].value = Append(tree[b].items[n].value, s)

LEMMA AllKept ==
    ASSUME ParserInv, [Next]_vars, NEW b \in DOMAIN tree
    PROVE  Kept(b)
<1>0. /\ b \in 1 .. Len(tree) /\ Len(tree) \in Nat /\ tree \in Seq(Blocks)
      /\ tree[b].items \in Seq(ItemRecords)
  BY BlockTypes DEF ParserInv
<1>1. CASE tree' = tree
  BY <1>1 DEF Kept
<1>2. ASSUME NEW item, Linked(item) PROVE Kept(b)
  <2>1. /\ tree' \in Seq(Blocks) /\ Len(tree') = Len(tree)
        /\ tree'[b].parent = tree[b].parent /\ (b # block => tree'[b] = tree[b])
        /\ tree'[block].items = Append(tree[block].items, item)
    BY <1>2, AfterLinked
  <2>2. b \in DOMAIN tree'
    BY <1>0, <2>1
  <2>3. CASE b = block
    <3>0. tree'[b].items = Append(tree[b].items, item) /\ item \in ItemRecords
      BY <1>2, <2>1, <2>3 DEF Linked
    <3>1. \A n \in DOMAIN tree[b].items :
              n \in DOMAIN tree'[b].items /\ tree'[b].items[n] = tree[b].items[n]
      BY <1>0, <3>0, AppendProperties
    <3> QED
      BY <2>1, <2>2, <3>1 DEF Kept
  <2> QED
    BY <2>1, <2>2, <2>3 DEF Kept
<1>3. ASSUME NEW names, Opened(names) PROVE Kept(b)
  <2> DEFINE item == Item("block", key, Len(tree) + 1)
  <2>1. /\ tree' \in Seq(Blocks) /\ Len(tree') = Len(tree) + 1
        /\ tree'[b].parent = tree[b].parent /\ (b # block => tree'[b] = tree[b])
        /\ tree'[block].items = Append(tree[block].items, item)
    BY <1>3, AfterOpened
  <2>2. b \in DOMAIN tree'
    BY <1>0, <2>1
  <2>4. item \in ItemRecords
    BY <1>0 DEF ParserInv, TypeOK, Item, ItemRecords
  <2> HIDE DEF item
  <2>3. CASE b = block
    <3>0. tree'[b].items = Append(tree[b].items, item)
      BY <2>1, <2>3
    <3>1. \A n \in DOMAIN tree[b].items :
              n \in DOMAIN tree'[b].items /\ tree'[b].items[n] = tree[b].items[n]
      BY <1>0, <2>4, <3>0, AppendProperties
    <3> QED
      BY <2>1, <2>2, <3>1 DEF Kept
  <2> QED
    BY <2>1, <2>2, <2>3 DEF Kept
<1>4. ASSUME NEW a, NEW n, NEW s, Valued(a, n, s) PROVE Kept(b)
  <2>1. /\ tree' \in Seq(Blocks) /\ Len(tree') = Len(tree)
        /\ tree'[b].parent = tree[b].parent /\ (b # a => tree'[b] = tree[b])
    BY <1>4, AfterValued
  <2>2. b \in DOMAIN tree'
    BY <1>0, <2>1
  <2>3. CASE b = a
    <3>1. /\ Len(tree'[b].items) = Len(tree[b].items)
          /\ \A m \in DOMAIN tree[b].items :
                 /\ tree'[b].items[m].type = tree[b].items[m].type
                 /\ tree'[b].items[m].key = tree[b].items[m].key
                 /\ m # n => tree'[b].items[m] = tree[b].items[m]
          /\ tree'[b].items[n].value = Append(tree[b].items[n].value, s)
          /\ tree[b].items[n].value \in Seq(Strings)
      BY <1>4, <2>3, AfterValued
    <3>0. tree'[b] \in Blocks
      BY <2>1, <2>2
    <3>2. tree'[b].items \in Seq(ItemRecords)
      BY <3>0 DEF Blocks
    <3>3. DOMAIN tree'[b].items = DOMAIN tree[b].items
      BY <1>0, <3>1, <3>2
    <3>4. tree[b].items[n].type = "value" /\ s \in Strings
      BY <1>4, <2>3 DEF Valued
    <3> QED
      BY <2>1, <2>2, <3>1, <3>3, <3>4 DEF Kept
  <2> QED
    BY <2>1, <2>2, <2>3 DEF Kept
<1> QED
  BY <1>1, <1>2, <1>3, <1>4, TreeSteps

(* The part of ParserInv that is about the tree.                           *)
TreeTyped ==
    /\ tree \in Seq(Blocks)
    /\ \A b \in DOMAIN tree :
        /\ tree[b].parent \in 0 .. b - 1
        /\ \A n \in DOMAIN tree[b].items :
            /\ tree[b].items[n].type \in {"block", "value", "comment"}
            /\ tree[b].items[n].type = "value" => tree[b].items[n].value \in Seq(Strings)

LEMMA TreeStaysTyped ==
    ASSUME ParserInv, [Next]_vars
    PROVE  TreeTyped'
<1>0. TreeTyped
  BY DEF ParserInv, TypeOK, TreeTyped
<1>1. CASE tree' = tree
  BY <1>0, <1>1 DEF TreeTyped
<1>a. /\ block \in DOMAIN tree /\ block \in 1 .. Len(tree) /\ Len(tree) \in Nat
      /\ tree[block].items \in Seq(ItemRecords)
  BY HereIsBlock, BlockTypes
<1>2. ASSUME NEW item, Linked(item) PROVE TreeTyped'
  <2>1. /\ tree' \in Seq(Blocks) /\ Len(tree') = Len(tree)
        /\ tree'[block].items = Append(tree[block].items, item)
    BY <1>2, AfterLinked
  <2>2. \A b \in DOMAIN tree :
            tree'[b].parent = tree[b].parent /\ (b # block => tree'[b] = tree[b])
    BY <1>2, AfterLinked
  <2>3. DOMAIN tree' = DOMAIN tree
    BY <1>0, <2>1 DEF TreeTyped
  <2>4. /\ item \in ItemRecords /\ item.type \in {"block", "value", "comment"}
        /\ item.type = "value" => item.value \in Seq(Strings)
    <3>1. <<>> \in Seq(Strings)
      OBVIOUS
    <3>2. /\ item \in ItemRecords /\ item.type \in {"comment", "value"}
          /\ item.type = "value" => item.value = <<>>
      BY <1>2 DEF Linked
    <3>3. item.type = "value" => item.value \in Seq(Strings)
      BY <3>1, <3>2
    <3> QED
      BY <3>2, <3>3
  <2>5. \A n \in DOMAIN tree'[block].items :
            \/ tree'[block].items[n] = item
            \/ n \in DOMAIN tree[block].items /\ tree'[block].items[n] = tree[block].items[n]
    BY <1>a, <2>1, <2>4, AppendProperties
  <2>6. ASSUME NEW b \in DOMAIN tree', NEW n \in DOMAIN tree'[b].items
        PROVE  /\ tree'[b].items[n].type \in {"block", "value", "comment"}
               /\ tree'[b].items[n].type = "value" => tree'[b].items[n].value \in Seq(Strings)
    <3>1. CASE b = block
      BY <1>0, <1>a, <2>4, <2>5, <2>6, <3>1 DEF TreeTyped
    <3>2. CASE b # block
      BY <1>0, <2>2, <2>3, <2>6, <3>2 DEF TreeTyped
    <3> QED
      BY <3>1, <3>2
  <2> QED
    BY <1>0, <2>1, <2>2, <2>3, <2>6 DEF TreeTyped
<1>3. ASSUME NEW names, Opened(names) PROVE TreeTyped'
  <2> DEFINE item == Item("block", key, Len(tree) + 1)
  <2>1. /\ tree' \in Seq(Blocks) /\ Len(tree') = Len(tree) + 1
        /\ tree'[block].items = Append(tree[block].items, item)
        /\ tree'[Len(tree) + 1] = Block(block, names)
    BY <1>3, AfterOpened
  <2>2. \A b \in DOMAIN tree :
            tree'[b].parent = tree[b].parent /\ (b # block => tree'[b] = tree[b])
    BY <1>3, AfterOpened
  <2>3. DOMAIN tree' = DOMAIN tree \cup {Len(tree) + 1}
    BY <1>0, <1>a, <2>1 DEF TreeTyped
  <2>4. item \in ItemRecords /\ item.type = "block"
    BY <1>a DEF ParserInv, TypeOK, Item, ItemRecords
  <2> HIDE DEF item
  <2>5. \A n \in DOMAIN tree'[block].items :
            \/ tree'[block].items[n] = item
            \/ n \in DOMAIN tree[block].items /\ tree'[block].items[n] = tree[block].items[n]
    BY <1>a, <2>1, <2>4, AppendProperties
  <2>6. ASSUME NEW b \in DOMAIN tree', NEW n \in DOMAIN tree'[b].items
        PROVE  /\ tree'[b].items[n].type \in {"block", "value", "comment"}
               /\ tree'[b].items[n].type = "value" => tree'[b].items[n].value \in Seq(Strings)
    <3>1. CASE b = block
      BY <1>0, <1>a, <2>4, <2>5, <2>6, <3>1 DEF TreeTyped
    <3>2. CASE b \in DOMAIN tree /\ b # block
      BY <1>0, <2>2, <2>6, <3>2 DEF TreeTyped
    <3>3. CASE b = Len(tree) + 1
      BY <2>1, <2>6, <3>3 DEF Block
    <3> QED
      BY <2>3, <3>1, <3>2, <3>3
  <2>7. ASSUME NEW b \in DOMAIN tree' PROVE tree'[b].parent \in 0 .. b - 1
    <3>1. CASE b \in DOMAIN tree
      BY <1>0, <2>2, <3>1 DEF TreeTyped
    <3>2. CASE b = Len(tree) + 1
      BY <1>a, <2>1, <3>2 DEF Block
    <3> QED
      BY <2>3, <3>1, <3>2
  <2> QED
    BY <2>1, <2>6, <2>7 DEF TreeTyped
<1>4. ASSUME NEW a, NEW m, NEW s, Valued(a, m, s) PROVE TreeTyped'
  <2>1. /\ tree' \in Seq(Blocks) /\ Len(tree') = Len(tree)
        /\ Len(tree'[a].items) = Len(tree[a].items)
        /\ tree'[a].items[m].value = Append(tree[a].items[m].value, s)
        /\ tree[a].items[m].value \in Seq(Strings)
        /\ \A n \in DOMAIN tree[a].items :
               /\ tree'[a].items[n].type = tree[a].items[n].type
               /\ n # m => tree'[a].items[n] = tree[a].items[n]
    BY <1>4, AfterValued
  <2>2. \A b \in DOMAIN tree :
            tree'[b].parent = tree[b].parent /\ (b # a => tree'[b] = tree[b])
    BY <1>4, AfterValued
  <2>3. DOMAIN tree' = DOMAIN tree
    BY <1>0, <2>1 DEF TreeTyped
  <2>4. /\ a \in DOMAIN tree /\ s \in Strings
        /\ DOMAIN tree'[a].items = DOMAIN tree[a].items
    <3>1. a \in DOMAIN tree /\ s \in Strings
      BY <1>4 DEF Valued
    <3>2. tree'[a] \in Blocks
      BY <2>1, <2>3, <3>1
    <3>3. tree'[a].items \in Seq(ItemRecords) /\ tree[a].items \in Seq(ItemRecords)
      BY <3>1, <3>2, BlockTypes DEF Blocks
    <3> QED
      BY <2>1, <3>1, <3>3
  <2>5. tree'[a].items[m].value \in Seq(Strings)
    BY <2>1, <2>4
  <2>6. ASSUME NEW b \in DOMAIN tree', NEW n \in DOMAIN tree'[b].items
        PROVE  /\ tree'[b].items[n].type \in {"block", "value", "comment"}
               /\ tree'[b].items[n].type = "value" => tree'[b].items[n].value \in Seq(Strings)
    <3>1. CASE b = a
      BY <1>0, <2>1, <2>4, <2>5, <2>6, <3>1 DEF TreeTyped
    <3>2. CASE b # a
      BY <1>0, <2>2, <2>3, <2>6, <3>2 DEF TreeTyped
    <3> QED
      BY <3>1, <3>2
  <2> QED
    BY <1>0, <2>1, <2>2, <2>3, <2>6 DEF TreeTyped
<1> QED
  BY <1>1, <1>2, <1>3, <1>4, TreeSteps

-----------------------------------------------------------------------------
(* The pointers and the flags, action by action.                           *)
Pointers ==
    /\ block \in DOMAIN tree
    /\ last_item = Len(tree[block].items)
    /\ current_item \in (Nat \X Nat) \cup {NULL}
    /\ current_item # NULL =>
        current_item[1] \in DOMAIN tree /\ current_item[2] \in DOMAIN tree[current_item[1]].items

Readings ==
    /\ key \in Strings \cup {NULL}
    /\ name \in Seq(Strings)
    /\ state \in {"none", "name", "value"} /\ set \in BOOLEAN
    /\ state = "none" => key = NULL /\ name = <<>> /\ ~set
    /\ state = "value" => current_item # NULL

Counts ==
    /\ error \in BOOLEAN /\ wild \in BOOLEAN
    /\ tokens \in 0 .. MaxTokens
    /\ result \in {"none", "ok", "error"}

LEMMA InvParts ==
    ParserInv <=> TreeTyped /\ Pointers /\ Readings /\ Counts
BY DEF ParserInv, TypeOK, TreeTyped, Pointers, Readings, Counts, Items

LEMMA InvPartsNext ==
    ASSUME TreeTyped', Pointers', Readings', Counts'
    PROVE  ParserInv'
BY DEF ParserInv, TypeOK, TreeTyped, Pointers, Readings, Counts, Items

(* Where nothing is linked, the current item stays an item.                *)
LEMMA PointersStay ==
    ASSUME ParserInv, [Next]_vars, UNCHANGED <<block, current_item, last_item>>,
           block \in DOMAIN tree' => Len(tree'[block].items) = Len(tree[block].items)
    PROVE  Pointers'
<1>1. block \in DOMAIN tree' /\ last_item' = Len(tree'[block'].items)
  BY HereIsBlock, AllKept DEF Kept
<1>2. ASSUME current_item # NULL
      PROVE  /\ current_item[1] \in DOMAIN tree'
             /\ current_item[2] \in DOMAIN tree'[current_item[1]].items
  <2>1. current_item[1] \in DOMAIN tree /\ current_item[2] \in DOMAIN tree[current_item[1]].items
    BY <1>2, InvParts DEF Pointers
  <2>2. Kept(current_item[1])
    BY <2>1, AllKept
  <2> QED
    BY <2>1, <2>2 DEF Kept
<1> QED
  BY <1>1, <1>2, InvParts DEF Pointers

(* Where an item is linked, it becomes the last and the current one.       *)
LEMMA PointersToNew ==
    ASSUME ParserInv, NEW item, item \in ItemRecords, NewItem(item), block' = block, Linked(item)
    PROVE  Pointers'
<1>1. /\ block \in DOMAIN tree /\ last_item = Len(tree[block].items)
      /\ tree[block].items \in Seq(ItemRecords) /\ block \in Nat /\ Len(tree) \in Nat
      /\ tree \in Seq(Blocks)
  BY HereIsBlock, BlockTypes DEF ParserInv
<1>2. /\ tree' \in Seq(Blocks) /\ Len(tree') = Len(tree)
      /\ tree'[block].items = Append(tree[block].items, item)
  BY AfterLinked
<1>3. /\ Len(tree'[block].items) = last_item + 1 /\ last_item \in Nat
      /\ DOMAIN tree'[block].items = 1 .. last_item + 1
  BY <1>1, <1>2, AppendProperties
<1>4. block \in DOMAIN tree'
  BY <1>1, <1>2
<1>5. last_item' = last_item + 1 /\ current_item' = <<block, last_item + 1>>
  BY DEF NewItem
<1> QED
  BY <1>1, <1>3, <1>4, <1>5 DEF Pointers

(* nfcconf_item_find() returns the first of the items it looks for.        *)
LEMMA LeastIn ==
    ASSUME NEW S \in SUBSET Nat, S # {}
    PROVE  \E n \in S : \A m \in S : n <= m
<1> DEFINE Less == {p \in Nat \X Nat : p[1] < p[2]}
<1>1. IsWellFoundedOn(Less, Nat)
  BY NatLessThanWellFounded DEF OpToRel
<1> HIDE DEF Less
<1>2. PICK n \in S : \A m \in S : ~(<<m, n>> \in Less)
  BY <1>1, WFMin
<1>3. ASSUME NEW m \in S PROVE n <= m
  <2>1. n \in Nat /\ m \in Nat /\ ~(<<m, n>> \in Less)
    BY <1>2, <1>3
  <2> QED
    BY <2>1 DEF Less
<1> QED
  BY <1>2, <1>3

LEMMA StepKeepsPointers ==
    ASSUME ParserInv, [Next]_vars
    PROVE  Pointers'
<1>1. CASE UNCHANGED <<tree, block, current_item, last_item>>
  BY <1>1, PointersStay
<1>2. ASSUME NEW text \in {NULL, "text"}, AddComment(text) PROVE Pointers'
  <2>1. Item("comment", key, text) \in ItemRecords
    BY InvParts DEF Readings, Item, ItemRecords
  <2>2. Linked(Item("comment", key, text))
    BY <1>2, <2>1, HereIsBlock DEF AddComment, NewItem, Linked, Item
  <2>3. NewItem(Item("comment", key, text)) /\ block' = block
    BY <1>2 DEF AddComment
  <2> QED
    BY <2>1, <2>2, <2>3, PointersToNew
<1>3. CASE AssignNew
  <2>1. <<>> \in Seq(Strings)
    OBVIOUS
  <2>2. Item("value", key, <<>>) \in ItemRecords
    BY <2>1, InvParts DEF Readings, Item, ItemRecords
  <2>3. NewItem(Item("value", key, <<>>)) /\ block' = block
    BY <1>3 DEF AssignNew, AssignStarts
  <2>4. Linked(Item("value", key, <<>>))
    BY <2>2, <2>3, HereIsBlock DEF NewItem, Linked, Item
  <2> QED
    BY <2>2, <2>3, <2>4, PointersToNew
<1>4. CASE OpenBlock
  <2>1. PICK names : Opened(names)
    <3>1. tree' # tree /\ (\A item : ~Linked(item)) /\ (\A b, n, s : ~Valued(b, n, s))
      <4>1. Len(tree') = Len(tree) + 1 /\ Len(tree) \in Nat
        <5>1. /\ tree \in Seq(Blocks) /\ Len(tree) \in Nat
          BY HereIsBlock, BlockTypes DEF ParserInv
        <5>2. Opened(IF name = <<>> THEN <<EmptyString>> ELSE name)
          <6>1. <<EmptyString>> \in Seq({EmptyString}) /\ name \in Seq(Strings)
            BY InvParts DEF Readings
          <6>2. <<EmptyString>> \in Seq(Strings \cup {EmptyString}) /\ name \in Seq(Strings \cup {EmptyString})
            BY <6>1, SeqMonotonic
          <6> QED
            BY <1>4, <6>2, HereIsBlock DEF OpenBlock, Opened
        <5> QED
          BY <5>1, <5>2, AfterOpened
      <4> QED
        BY <4>1, AfterLinked, AfterValued
    <3> QED
      BY <3>1, TreeSteps
  <2> DEFINE item == Item("block", key, Len(tree) + 1)
  <2>2. /\ tree' \in Seq(Blocks) /\ Len(tree') = Len(tree) + 1
        /\ tree'[block].items = Append(tree[block].items, item)
        /\ tree'[Len(tree) + 1] = Block(block, names)
    BY <2>1, AfterOpened
  <2>3. /\ block \in DOMAIN tree /\ last_item = Len(tree[block].items)
        /\ tree[block].items \in Seq(ItemRecords) /\ block \in Nat /\ Len(tree) \in Nat
        /\ tree \in Seq(Blocks)
    BY HereIsBlock, BlockTypes DEF ParserInv
  <2>4. item \in ItemRecords
    BY <2>3, InvParts DEF Readings, Item, ItemRecords
  <2> HIDE DEF item
  <2>5. DOMAIN tree'[block].items = 1 .. last_item + 1 /\ last_item \in Nat
    BY <2>2, <2>3, <2>4, AppendProperties
  <2>6. block' = Len(tree) + 1 /\ last_item' = 0 /\ current_item' = <<block, last_item + 1>>
    BY <1>4 DEF OpenBlock
  <2>7. block \in DOMAIN tree' /\ block' \in DOMAIN tree'
    BY <2>2, <2>3, <2>6
  <2>8. last_item' = Len(tree'[block'].items)
    BY <2>2, <2>6 DEF Block
  <2> QED
    BY <2>3, <2>5, <2>6, <2>7, <2>8 DEF Pointers
<1>5. ASSUME NEW s \in Strings, ReadValue(s) PROVE Pointers'
  <2>1. current_item # NULL
    BY <1>5, InvParts DEF ReadValue, Readings
  <2>2. Valued(current_item[1], current_item[2], s)
    BY <1>5, <2>1, InvParts DEF ReadValue, Pointers, Valued, Current
  <2>3. \A b \in DOMAIN tree : Len(tree'[b].items) = Len(tree[b].items)
    BY <2>2, AfterValued
  <2>4. UNCHANGED <<block, current_item, last_item>>
    BY <1>5 DEF ReadValue
  <2> QED
    BY <2>3, <2>4, HereIsBlock, PointersStay
<1>6. CASE CloseBlock
  <2>1. /\ block' = tree[block].parent /\ tree' = tree /\ current_item' = current_item
        /\ last_item' = Len(tree[tree[block].parent].items)
        /\ tree[block].parent # 0
    BY <1>6 DEF CloseBlock, MayClose
  <2>2. tree[block].parent \in 0 .. block - 1 /\ block \in 1 .. Len(tree) /\ Len(tree) \in Nat
        /\ tree \in Seq(Blocks)
    BY HereIsBlock, BlockTypes, InvParts DEF TreeTyped
  <2>3. block' \in DOMAIN tree
    BY <2>1, <2>2
  <2> QED
    BY <2>1, <2>3, InvParts DEF Pointers
<1>7. CASE AssignAgain
  <2>1. /\ tree' = tree /\ block' = block /\ last_item' = last_item
        /\ current_item' = <<block, First(Found)>> /\ Found # {}
    BY <1>7 DEF AssignAgain, AssignStarts
  <2>2. /\ block \in DOMAIN tree /\ block \in Nat /\ Len(tree[block].items) \in Nat
        /\ DOMAIN tree[block].items = 1 .. Len(tree[block].items)
    BY HereIsBlock, BlockTypes
  <2>3. First(Found) \in DOMAIN tree[block].items
    <3>1. Found \subseteq 1 .. Len(tree[block].items) /\ Found \subseteq Nat
      BY <2>2 DEF Found, Items
    <3>2. \E n \in Found : \A m \in Found : n <= m
      BY <2>1, <3>1, LeastIn
    <3> QED
      BY <2>2, <3>1, <3>2 DEF First
  <2> QED
    BY <2>1, <2>2, <2>3, InvParts DEF Pointers
<1>8. CASE UNCHANGED vars
  BY <1>1, <1>8 DEF vars
<1>9. ASSUME NEW s \in Strings,
             ReadKey(s) \/ ReadName(s) \/ ReadValueIntoComment(s) \/ SecondName(s)
      PROVE  Pointers'
  BY <1>1, <1>9 DEF ReadKey, ReadName, ReadValueIntoComment, SecondName, Wild, Fail
<1>10. ASSUME \/ Newline \/ OpenNothing \/ CloseNothing \/ Comma
              \/ AssignFollowsNull \/ AssignNothing \/ Semicolon \/ EndOfFile
       PROVE  Pointers'
  BY <1>1, <1>10 DEF Newline, OpenNothing, CloseNothing, Comma,
     AssignFollowsNull, AssignNothing, Semicolon, EndOfFile, Wild, Fail
<1>11. CASE EmptyLine \/ Comment
  BY <1>2, <1>11 DEF EmptyLine, Comment
<1> QED
  BY <1>3, <1>4, <1>5, <1>6, <1>7, <1>8, <1>9, <1>10, <1>11 DEF Next, NextToken

LEMMA StepKeepsReadings ==
    ASSUME ParserInv, [Next]_vars
    PROVE  Readings' /\ Counts'
<1>0. Readings /\ Counts /\ Pointers /\ NULL \notin Strings
  BY InvParts, StringsAssumption
<1>a. <<>> \in Seq(Strings)
  OBVIOUS
<1>b. ASSUME NEW type, Token(type)
      PROVE  tokens' \in 0 .. MaxTokens /\ result' \in {"none", "ok", "error"}
  BY <1>0, <1>b, MaxTokensAssumption DEF Token, Counts
<1>c. block \in Nat /\ \A n \in Nat : <<block, n>> # NULL
  BY HereIsBlock, BlockTypes, StringsAssumption
<1>d. last_item \in Nat
  BY HereIsBlock, BlockTypes
<1>e. ASSUME ResetState PROVE Readings'
  BY <1>a, <1>e DEF ResetState, Readings
<1>f. ASSUME UNCHANGED <<key, name, state, set, current_item>> PROVE Readings'
  BY <1>0, <1>f DEF Readings
<1>1. ASSUME NEW text, AddComment(text), \E type : Token(type) PROVE Readings' /\ Counts'
  <2>1. current_item' # NULL
    BY <1>1, <1>c, <1>d DEF AddComment, NewItem
  <2> QED
    BY <1>0, <1>1, <1>b, <2>1 DEF AddComment, Readings, Counts
<1>2. CASE AssignNew \/ AssignAgain
  <2>1. current_item' # NULL
    <3>1. CASE AssignNew
      BY <3>1, <1>c, <1>d DEF AssignNew, NewItem
    <3>2. CASE AssignAgain
      <4>1. /\ DOMAIN tree[block].items = 1 .. Len(tree[block].items)
            /\ Len(tree[block].items) \in Nat
        BY HereIsBlock, BlockTypes
      <4>2. Found # {} /\ Found \subseteq Nat
        BY <3>2, <4>1 DEF AssignAgain, Found, Items
      <4>3. First(Found) \in Nat
        BY <4>2, LeastIn DEF First
      <4> QED
        BY <3>2, <4>3, <1>c DEF AssignAgain
    <3> QED
      BY <1>2, <3>1, <3>2
  <2>2. AssignStarts
    BY <1>2 DEF AssignNew, AssignAgain
  <2> QED
    BY <1>0, <1>b, <2>1, <2>2 DEF AssignStarts, Readings, Counts
<1>3. CASE OpenBlock
  BY <1>0, <1>3, <1>b, <1>e DEF OpenBlock, Counts
<1>4. ASSUME NEW s \in Strings, ReadKey(s) PROVE Readings' /\ Counts'
  BY <1>0, <1>4, <1>a, <1>b DEF ReadKey, Readings, Counts
<1>5. ASSUME NEW s \in Strings, ReadName(s) PROVE Readings' /\ Counts'
  <2>1. Append(name, s) \in Seq(Strings)
    BY <1>0 DEF Readings
  <2> QED
    BY <1>0, <1>5, <1>b, <2>1 DEF ReadName, Readings, Counts
<1>6. ASSUME NEW s \in Strings, ReadValue(s) PROVE Readings' /\ Counts'
  BY <1>0, <1>6, <1>b DEF ReadValue, Readings, Counts
<1>7. ASSUME NEW s \in Strings, ReadValueIntoComment(s) \/ SecondName(s)
      PROVE  Readings' /\ Counts'
  BY <1>0, <1>7, <1>b, <1>f DEF ReadValueIntoComment, SecondName, Wild, Fail, Counts, reading
<1>8. CASE CloseBlock \/ CloseNothing
  BY <1>0, <1>8, <1>b, <1>e, <1>f DEF CloseBlock, CloseNothing, Counts, reading
<1>9. CASE Comma
  BY <1>0, <1>9, <1>b DEF Comma, Readings, Counts
<1>10. CASE Semicolon
  BY <1>0, <1>10, <1>b, <1>e DEF Semicolon, Counts
<1>11. CASE EndOfFile
  BY <1>0, <1>11, <1>f DEF EndOfFile, Counts, reading
<1>12. CASE Newline \/ OpenNothing \/ AssignFollowsNull \/ AssignNothing
  BY <1>0, <1>12, <1>b, <1>f DEF Newline, OpenNothing, AssignFollowsNull, AssignNothing,
     Wild, Fail, Counts, reading
<1>13. CASE EmptyLine \/ Comment
  BY <1>1, <1>13 DEF EmptyLine, Comment
<1>14. CASE UNCHANGED vars
  BY <1>0, <1>14, <1>f DEF vars, Counts, reading
<1> QED
  BY <1>2, <1>3, <1>4, <1>5, <1>6, <1>7, <1>8, <1>9, <1>10, <1>11, <1>12, <1>13, <1>14 DEF Next, NextToken

-----------------------------------------------------------------------------
LEMMA InitIsTyped ==
    Init => ParserInv
<1> SUFFICES ASSUME Init PROVE ParserInv
  OBVIOUS
<1>1. <<>> \in Seq(ItemRecords) /\ <<>> \in Seq(Strings)
  OBVIOUS
<1>2. <<>> \in Seq(Strings \cup {EmptyString})
  OBVIOUS
<1>3. Root \in Blocks /\ Root.items = <<>> /\ Root.parent = 0
  BY <1>1, <1>2 DEF Root, Block, Blocks
<1>4. /\ tree \in Seq(Blocks) /\ DOMAIN tree = {1} /\ tree[1] = Root
  BY <1>3 DEF Init
<1>5. TreeTyped
  BY <1>3, <1>4 DEF TreeTyped
<1>6. Pointers
  BY <1>3, <1>4 DEF Init, Pointers
<1>7. Readings
  BY <1>1 DEF Init, Readings
<1>8. Counts
  <2>1. tokens \in 0 .. MaxTokens
    BY MaxTokensAssumption DEF Init
  <2>2. error \in BOOLEAN /\ wild \in BOOLEAN
    BY DEF Init
  <2> QED
    BY <2>1, <2>2 DEF Init, Counts
<1> QED
  BY <1>5, <1>6, <1>7, <1>8, InvParts

LEMMA StepKeepsTypes ==
    ASSUME ParserInv, [Next]_vars
    PROVE  ParserInv'
BY TreeStaysTyped, StepKeepsPointers, StepKeepsReadings, InvPartsNext

(* ParserInv holds in every state.                                         *)
THEOREM ParserInvHolds ==
    Spec => []ParserInv
<1>1. ParserInv /\ [Next]_vars => ParserInv'
  BY StepKeepsTypes
<1> QED
  BY <1>1, InitIsTyped, PTL DEF Spec

(* The pointers of nfcconf_parse_token() always lead into the tree, and    *)
(* last_item is the last item of the block, whatever the tokens are.       *)
THEOREM TypeCorrect ==
    Spec => []TypeOK
<1>1. ParserInv => TypeOK
  BY DEF ParserInv
<1> QED
  BY <1>1, ParserInvHolds, PTL

(* Linking behind last_item never cuts the chain: no token takes an item   *)
(* away or changes it, except that an option gets another value.           *)
Survive ==
    tokens' > tokens => \A b \in DOMAIN tree :
        /\ b \in DOMAIN tree' /\ tree'[b].parent = tree[b].parent
        /\ \A n \in DOMAIN tree[b].items :
            LET old == tree[b].items[n]
                new == tree'[b].items[n]
            IN  /\ n \in DOMAIN tree'[b].items
                /\ new.type = old.type /\ new.key = old.key
                /\ \/ new.value = old.value
                   \/ /\ old.type = "value"
                      /\ SubSeq(new.value, 1, Len(old.value)) = old.value

LEMMA StepKeepsItems ==
    ASSUME ParserInv, [Next]_vars
    PROVE  Survive
<1> SUFFICES ASSUME NEW b \in DOMAIN tree
             PROVE  /\ b \in DOMAIN tree' /\ tree'[b].parent = tree[b].parent
                    /\ \A n \in DOMAIN tree[b].items :
                        LET old == tree[b].items[n]
                            new == tree'[b].items[n]
                        IN  /\ n \in DOMAIN tree'[b].items
                            /\ new.type = old.type /\ new.key = old.key
                            /\ \/ new.value = old.value
                               \/ /\ old.type = "value"
                                  /\ SubSeq(new.value, 1, Len(old.value)) = old.value
  BY DEF Survive
<1>1. Kept(b)
  BY AllKept
<1>2. \A q \in Seq(Strings), s \in Strings : SubSeq(Append(q, s), 1, Len(q)) = q
  OBVIOUS
<1> QED
  BY <1>1, <1>2 DEF Kept

(* Of a file of any tokens.                                                *)
THEOREM NothingIsCut ==
    Spec => ItemsSurvive
<1>1. ParserInv /\ [Next]_vars => Survive
  BY StepKeepsItems
<1>2. Spec => [][Survive]_vars
  BY <1>1, ParserInvHolds, PTL DEF Spec
<1> QED
  BY <1>2 DEF ItemsSurvive, Survive

(* An option is linked only into a block that has none with its key, so    *)
(* that a key has one item, which nfcconf_find_list() finds.               *)
LEMMA StepKeepsKeys ==
    ASSUME ParserInv, OneItemPerKey, [Next]_vars
    PROVE  OneItemPerKey'
<1>a. /\ block \in DOMAIN tree /\ block \in 1 .. Len(tree) /\ Len(tree) \in Nat
      /\ tree[block].items \in Seq(ItemRecords) /\ tree \in Seq(Blocks)
      /\ Len(tree[block].items) \in Nat
  BY HereIsBlock, BlockTypes DEF ParserInv
<1>1. CASE tree' = tree
  BY <1>1 DEF OneItemPerKey
<1>2. ASSUME NEW item, Linked(item), item.type = "value" => item.key = key /\ Found = {}
      PROVE  OneItemPerKey'
  <2> SUFFICES ASSUME NEW b \in DOMAIN tree', NEW n \in DOMAIN tree'[b].items,
                      NEW m \in DOMAIN tree'[b].items,
                      tree'[b].items[n].type = "value", tree'[b].items[m].type = "value",
                      tree'[b].items[n].key = tree'[b].items[m].key
               PROVE  n = m
    BY DEF OneItemPerKey
  <2>1. /\ Len(tree') = Len(tree) /\ tree' \in Seq(Blocks)
        /\ tree'[block].items = Append(tree[block].items, item)
        /\ item \in ItemRecords
    BY <1>2, AfterLinked DEF Linked
  <2>2. b \in DOMAIN tree
    BY <1>a, <2>1
  <2>3. b # block => tree'[b] = tree[b]
    BY <1>2, <2>2, AfterLinked
  <2>4. CASE b # block
    BY <2>2, <2>3, <2>4 DEF OneItemPerKey
  <2>5. CASE b = block
    <3> DEFINE last == Len(tree[block].items) + 1
    <3>1. \A i \in DOMAIN tree'[block].items :
              \/ i = last /\ tree'[block].items[i] = item
              \/ i \in DOMAIN tree[block].items /\ tree'[block].items[i] = tree[block].items[i]
      BY <1>a, <2>1, AppendProperties
    <3> HIDE DEF last
    <3>2. item.type = "value" =>
              \A i \in DOMAIN tree[block].items :
                  tree[block].items[i].type = "value" => tree[block].items[i].key # item.key
      BY <1>2 DEF Found, Items
    <3> QED
      BY <1>a, <2>5, <3>1, <3>2 DEF OneItemPerKey
  <2> QED
    BY <2>4, <2>5
<1>3. ASSUME NEW names, Opened(names) PROVE OneItemPerKey'
  <2> DEFINE item == Item("block", key, Len(tree) + 1)
  <2> SUFFICES ASSUME NEW b \in DOMAIN tree', NEW n \in DOMAIN tree'[b].items,
                      NEW m \in DOMAIN tree'[b].items,
                      tree'[b].items[n].type = "value", tree'[b].items[m].type = "value",
                      tree'[b].items[n].key = tree'[b].items[m].key
               PROVE  n = m
    BY DEF OneItemPerKey
  <2>1. /\ Len(tree') = Len(tree) + 1 /\ tree' \in Seq(Blocks)
        /\ tree'[block].items = Append(tree[block].items, item)
        /\ tree'[Len(tree) + 1].items = <<>>
    <3>1. tree'[Len(tree) + 1] = Block(block, names)
      BY <1>3, AfterOpened
    <3>2. /\ Len(tree') = Len(tree) + 1 /\ tree' \in Seq(Blocks)
          /\ tree'[block].items = Append(tree[block].items, item)
      BY <1>3, AfterOpened
    <3> QED
      BY <3>1, <3>2 DEF Block
  <2>2. item \in ItemRecords /\ item.type = "block"
    BY <1>a, InvParts DEF Readings, Item, ItemRecords
  <2> HIDE DEF item
  <2>3. b \in DOMAIN tree
    BY <1>a, <2>1
  <2>4. b # block => tree'[b] = tree[b]
    BY <1>3, <2>3, AfterOpened
  <2>5. CASE b # block
    BY <2>3, <2>4, <2>5 DEF OneItemPerKey
  <2>6. CASE b = block
    <3>1. \A i \in DOMAIN tree'[block].items :
              \/ tree'[block].items[i] = item
              \/ i \in DOMAIN tree[block].items /\ tree'[block].items[i] = tree[block].items[i]
      BY <1>a, <2>1, <2>2, AppendProperties
    <3> QED
      BY <1>a, <2>2, <2>6, <3>1 DEF OneItemPerKey
  <2> QED
    BY <2>5, <2>6
<1>4. ASSUME NEW a, NEW i, NEW s, Valued(a, i, s) PROVE OneItemPerKey'
  <2>1. /\ Len(tree') = Len(tree) /\ tree' \in Seq(Blocks)
        /\ Len(tree'[a].items) = Len(tree[a].items)
    BY <1>4, AfterValued
  <2>2. DOMAIN tree' = DOMAIN tree
    BY <1>a, <2>1
  <2>3. ASSUME NEW b \in DOMAIN tree
        PROVE  DOMAIN tree'[b].items = DOMAIN tree[b].items
    <3>1. CASE b # a
      BY <1>4, <3>1, AfterValued
    <3>2. CASE b = a
      <4>1. tree'[b] \in Blocks /\ tree[b] \in Blocks
        BY <1>a, <2>1, <2>2
      <4>2. tree'[b].items \in Seq(ItemRecords) /\ tree[b].items \in Seq(ItemRecords)
        BY <4>1 DEF Blocks
      <4> QED
        BY <2>1, <3>2, <4>2
    <3> QED
      BY <3>1, <3>2
  <2>4. ASSUME NEW b \in DOMAIN tree, NEW n \in DOMAIN tree[b].items
        PROVE  /\ tree'[b].items[n].type = tree[b].items[n].type
               /\ tree'[b].items[n].key = tree[b].items[n].key
    BY AllKept DEF Kept
  <2> QED
    BY <2>2, <2>3, <2>4 DEF OneItemPerKey
<1> QED
  BY <1>1, <1>2, <1>3, <1>4, TreeSteps

(* Whatever the tokens are, a block has at most one value item per key.    *)
THEOREM KeysUnique ==
    Spec => []OneItemPerKey
<1>1. Init => OneItemPerKey
  BY DEF Init, OneItemPerKey, Root, Block
<1>2. ParserInv /\ OneItemPerKey /\ [Next]_vars => OneItemPerKey'
  BY StepKeepsKeys
<1> QED
  BY <1>1, <1>2, ParserInvHolds, PTL DEF Spec

-----------------------------------------------------------------------------
(* What a step does to the places where blocks hang: nothing, or a new     *)
(* block is hung behind the last item of the one that is open.             *)
SamePlaces ==
    /\ Len(tree') = Len(tree)
    /\ \A q \in DOMAIN tree :
        /\ tree'[q].parent = tree[q].parent
        /\ \A m \in DOMAIN tree[q].items : m \in DOMAIN tree'[q].items
        /\ \A m \in DOMAIN tree'[q].items :
            /\ m \notin DOMAIN tree[q].items => tree'[q].items[m].type # "block"
            /\ m \in DOMAIN tree[q].items =>
                /\ tree'[q].items[m].type = tree[q].items[m].type
                /\ tree'[q].items[m].type = "block" =>
                    tree'[q].items[m].value = tree[q].items[m].value

NewPlace ==
    LET b == Len(tree) + 1
        n == Len(tree[block].items) + 1
    IN  /\ Len(tree') = b
        /\ tree'[b].parent = block /\ DOMAIN tree'[b].items = {}
        /\ n \in DOMAIN tree'[block].items
        /\ tree'[block].items[n].type = "block" /\ tree'[block].items[n].value = b
        /\ \A q \in DOMAIN tree :
            /\ tree'[q].parent = tree[q].parent
            /\ \A m \in DOMAIN tree[q].items : m \in DOMAIN tree'[q].items
            /\ \A m \in DOMAIN tree'[q].items :
                \/ q = block /\ m = n
                \/ m \in DOMAIN tree[q].items /\ tree'[q].items[m] = tree[q].items[m]

LEMMA PlacesStep ==
    ASSUME ParserInv, [Next]_vars
    PROVE  SamePlaces \/ NewPlace
<1>a. /\ block \in DOMAIN tree /\ block \in 1 .. Len(tree) /\ Len(tree) \in Nat
      /\ tree[block].items \in Seq(ItemRecords) /\ tree \in Seq(Blocks)
      /\ Len(tree[block].items) \in Nat
  BY HereIsBlock, BlockTypes DEF ParserInv
<1>b. ASSUME NEW q \in DOMAIN tree, NEW m \in DOMAIN tree[q].items
      PROVE  m \in DOMAIN tree'[q].items
  BY AllKept DEF Kept
<1>1. CASE tree' = tree
  BY <1>1 DEF SamePlaces
<1>2. ASSUME NEW item, Linked(item) PROVE SamePlaces
  <2>1. /\ Len(tree') = Len(tree)
        /\ tree'[block].items = Append(tree[block].items, item)
        /\ item \in ItemRecords /\ item.type # "block"
    BY <1>2, AfterLinked DEF Linked
  <2>2. \A q \in DOMAIN tree :
            tree'[q].parent = tree[q].parent /\ (q # block => tree'[q] = tree[q])
    BY <1>2, AfterLinked
  <2>3. \A m \in DOMAIN tree'[block].items :
            \/ m \notin DOMAIN tree[block].items /\ tree'[block].items[m] = item
            \/ m \in DOMAIN tree[block].items /\ tree'[block].items[m] = tree[block].items[m]
    BY <1>a, <2>1, AppendProperties
  <2> QED
    BY <1>b, <2>1, <2>2, <2>3 DEF SamePlaces
<1>3. ASSUME NEW names, Opened(names) PROVE NewPlace
  <2> DEFINE item == Item("block", key, Len(tree) + 1)
             n == Len(tree[block].items) + 1
  <2>1. /\ Len(tree') = Len(tree) + 1
        /\ tree'[block].items = Append(tree[block].items, item)
        /\ tree'[Len(tree) + 1] = Block(block, names)
    BY <1>3, AfterOpened
  <2>2. \A q \in DOMAIN tree :
            tree'[q].parent = tree[q].parent /\ (q # block => tree'[q] = tree[q])
    BY <1>3, AfterOpened
  <2>3. item \in ItemRecords /\ item.type = "block" /\ item.value = Len(tree) + 1
    BY <1>a, InvParts DEF Readings, Item, ItemRecords
  <2>4. tree'[Len(tree) + 1].parent = block /\ DOMAIN tree'[Len(tree) + 1].items = {}
    BY <2>1 DEF Block
  <2> HIDE DEF item
  <2>5. /\ n \in DOMAIN tree'[block].items /\ tree'[block].items[n] = item
        /\ \A m \in DOMAIN tree'[block].items :
               \/ m = n
               \/ m \in DOMAIN tree[block].items /\ tree'[block].items[m] = tree[block].items[m]
    BY <1>a, <2>1, <2>3, AppendProperties
  <2> QED
    BY <1>b, <2>1, <2>2, <2>3, <2>4, <2>5 DEF NewPlace
<1>4. ASSUME NEW b, NEW i, NEW s, Valued(b, i, s) PROVE SamePlaces
  <2>1. /\ Len(tree') = Len(tree) /\ tree' \in Seq(Blocks)
        /\ Len(tree'[b].items) = Len(tree[b].items)
        /\ \A m \in DOMAIN tree[b].items :
               /\ tree'[b].items[m].type = tree[b].items[m].type
               /\ m # i => tree'[b].items[m] = tree[b].items[m]
    BY <1>4, AfterValued
  <2>2. b \in DOMAIN tree /\ i \in DOMAIN tree[b].items /\ tree[b].items[i].type = "value"
    BY <1>4 DEF Valued
  <2>3. \A q \in DOMAIN tree :
            tree'[q].parent = tree[q].parent /\ (q # b => tree'[q] = tree[q])
    BY <1>4, AfterValued
  <2>4. DOMAIN tree'[b].items = DOMAIN tree[b].items
    <3>1. b \in DOMAIN tree'
      BY <1>a, <2>1, <2>2
    <3>2. tree'[b] \in Blocks /\ tree[b] \in Blocks
      BY <1>a, <2>1, <2>2, <3>1
    <3>3. tree'[b].items \in Seq(ItemRecords) /\ tree[b].items \in Seq(ItemRecords)
      BY <3>2 DEF Blocks
    <3> QED
      BY <2>1, <3>3
  <2>5. \A m \in DOMAIN tree'[b].items :
            /\ tree'[b].items[m].type = tree[b].items[m].type
            /\ tree'[b].items[m].type = "block" => tree'[b].items[m] = tree[b].items[m]
    BY <2>1, <2>4, <2>2
  <2> QED
    BY <2>1, <2>3, <2>4, <2>5, <2>2 DEF SamePlaces
<1> QED
  BY <1>1, <1>2, <1>3, <1>4, TreeSteps

LEMMA StepKeepsShape ==
    ASSUME ParserInv, TreeShape, [Next]_vars
    PROVE  TreeShape'
<1>a. /\ Len(tree) \in Nat /\ tree \in Seq(Blocks) /\ DOMAIN tree = 1 .. Len(tree)
      /\ block \in 1 .. Len(tree)
  BY HereIsBlock, BlockTypes DEF ParserInv
<1>b. tree' \in Seq(Blocks)
  BY TreeStaysTyped DEF TreeTyped
<1>1. CASE SamePlaces
  <2>1. DOMAIN tree' = DOMAIN tree /\ Len(tree') = Len(tree)
    BY <1>a, <1>b, <1>1 DEF SamePlaces
  <2>2. ASSUME NEW q \in DOMAIN tree, NEW m \in DOMAIN tree'[q].items, NEW b
        PROVE  Hangs(b, q, m)' <=> m \in DOMAIN tree[q].items /\ Hangs(b, q, m)
    BY <1>1 DEF SamePlaces, Hangs
  <2>3. ASSUME NEW b \in 2 .. Len(tree')
        PROVE  /\ tree'[b].parent \in DOMAIN tree'
               /\ \E n \in DOMAIN tree'[tree'[b].parent].items :
                     \A q \in DOMAIN tree' : \A m \in DOMAIN tree'[q].items :
                         Hangs(b, q, m)' <=> q = tree'[b].parent /\ m = n
    <3>1. b \in 2 .. Len(tree) /\ b \in DOMAIN tree
      BY <1>a, <2>1, <2>3
    <3>2. tree'[b].parent = tree[b].parent
      BY <1>1, <3>1 DEF SamePlaces
    <3>3. PICK n \in DOMAIN tree[tree[b].parent].items :
              \A q \in DOMAIN tree : \A m \in DOMAIN tree[q].items :
                  Hangs(b, q, m) <=> q = tree[b].parent /\ m = n
      BY <3>1 DEF TreeShape
    <3>4. tree[b].parent \in DOMAIN tree
      BY <3>1 DEF TreeShape
    <3>5. n \in DOMAIN tree'[tree[b].parent].items
      BY <1>1, <3>4 DEF SamePlaces
    <3>6. \A q \in DOMAIN tree : \A m \in DOMAIN tree'[q].items :
              Hangs(b, q, m)' <=> q = tree[b].parent /\ m = n
      BY <2>2, <3>3, <3>4
    <3> QED
      BY <2>1, <3>2, <3>4, <3>5, <3>6
  <2>4. ASSUME NEW q \in DOMAIN tree', NEW n \in DOMAIN tree'[q].items,
               tree'[q].items[n].type = "block"
        PROVE  tree'[q].items[n].value \in 2 .. Len(tree')
    BY <1>1, <2>1, <2>4 DEF SamePlaces, TreeShape
  <2> QED
    BY <2>3, <2>4 DEF TreeShape
<1>2. CASE NewPlace
  <2> DEFINE new == Len(tree) + 1
             last == Len(tree[block].items) + 1
  <2>1. /\ Len(tree') = new /\ DOMAIN tree' = DOMAIN tree \cup {new} /\ new \notin DOMAIN tree
        /\ tree'[new].parent = block /\ DOMAIN tree'[new].items = {}
        /\ last \in DOMAIN tree'[block].items
        /\ tree'[block].items[last].type = "block" /\ tree'[block].items[last].value = new
    BY <1>a, <1>b, <1>2 DEF NewPlace
  <2>2. \A q \in DOMAIN tree :
            /\ tree'[q].parent = tree[q].parent
            /\ \A m \in DOMAIN tree[q].items : m \in DOMAIN tree'[q].items
            /\ \A m \in DOMAIN tree'[q].items :
                \/ q = block /\ m = last
                \/ m \in DOMAIN tree[q].items /\ tree'[q].items[m] = tree[q].items[m]
    BY <1>2 DEF NewPlace
  <2>3. last \notin DOMAIN tree[block].items
    BY HereIsBlock, BlockTypes
  <2> HIDE DEF last
  <2>4. ASSUME NEW q \in DOMAIN tree, NEW m \in DOMAIN tree'[q].items, NEW b
        PROVE  Hangs(b, q, m)' <=> IF q = block /\ m = last THEN b = new
                                   ELSE m \in DOMAIN tree[q].items /\ Hangs(b, q, m)
    BY <2>1, <2>2, <2>3 DEF Hangs
  <2>5. ASSUME NEW q \in DOMAIN tree, NEW m \in DOMAIN tree[q].items PROVE ~Hangs(new, q, m)
    <3>1. Hangs(new, q, m) => new \in 2 .. Len(tree)
      BY DEF TreeShape, Hangs
    <3> QED
      BY <1>a, <3>1
  <2>6. ASSUME NEW b \in 2 .. Len(tree')
        PROVE  /\ tree'[b].parent \in DOMAIN tree'
               /\ \E n \in DOMAIN tree'[tree'[b].parent].items :
                     \A q \in DOMAIN tree' : \A m \in DOMAIN tree'[q].items :
                         Hangs(b, q, m)' <=> q = tree'[b].parent /\ m = n
    <3>1. CASE b = new
      <4>1. \A q \in DOMAIN tree : \A m \in DOMAIN tree'[q].items :
                Hangs(b, q, m)' <=> q = block /\ m = last
        BY <2>4, <2>5, <3>1
      <4> QED
        BY <1>a, <2>1, <3>1, <4>1
    <3>2. CASE b # new
      <4>1. b \in 2 .. Len(tree) /\ b \in DOMAIN tree
        BY <1>a, <2>1, <2>6, <3>2
      <4>2. tree'[b].parent = tree[b].parent /\ tree[b].parent \in DOMAIN tree
        BY <2>2, <4>1 DEF TreeShape
      <4>3. PICK n \in DOMAIN tree[tree[b].parent].items :
                \A q \in DOMAIN tree : \A m \in DOMAIN tree[q].items :
                    Hangs(b, q, m) <=> q = tree[b].parent /\ m = n
        BY <4>1 DEF TreeShape
      <4>4. \A q \in DOMAIN tree : \A m \in DOMAIN tree'[q].items :
                Hangs(b, q, m)' <=> q = tree[b].parent /\ m = n
        BY <2>3, <2>4, <3>2, <4>2, <4>3
      <4>5. n \in DOMAIN tree'[tree[b].parent].items
        BY <2>2, <4>2
      <4> QED
        BY <2>1, <4>2, <4>4, <4>5
    <3> QED
      BY <3>1, <3>2
  <2>7. ASSUME NEW q \in DOMAIN tree', NEW n \in DOMAIN tree'[q].items,
               tree'[q].items[n].type = "block"
        PROVE  tree'[q].items[n].value \in 2 .. Len(tree')
    <3>1. q \in DOMAIN tree
      BY <2>1, <2>7
    <3>2. CASE q = block /\ n = last
      BY <1>a, <2>1, <3>2
    <3>3. CASE ~(q = block /\ n = last)
      <4>1. n \in DOMAIN tree[q].items /\ tree'[q].items[n] = tree[q].items[n]
        BY <2>2, <3>1, <3>3
      <4>2. tree[q].items[n].value \in 2 .. Len(tree)
        BY <2>7, <3>1, <4>1 DEF TreeShape
      <4> QED
        BY <1>a, <2>1, <4>1, <4>2
    <3> QED
      BY <3>2, <3>3
  <2> QED
    BY <2>6, <2>7 DEF TreeShape
<1> QED
  BY <1>1, <1>2, PlacesStep

(* Every block but the root hangs in exactly one place, under its parent,  *)
(* so that nfcconf_block_destroy() reaches each block of a file once.      *)
THEOREM OnePlaceEach ==
    Spec => []TreeShape
<1>1. Init => TreeShape
  BY DEF Init, TreeShape, Root, Block
<1>2. ParserInv /\ TreeShape /\ [Next]_vars => TreeShape'
  BY StepKeepsShape
<1> QED
  BY <1>1, <1>2, ParserInvHolds, PTL DEF Spec

-----------------------------------------------------------------------------
(* What a file leaves behind besides the types: blocks are numbered in the *)
(* order of their heads in the file, so that the blocks of a block have    *)
(* increasing numbers, and what lies between a block and one of its blocks *)
(* lies inside it.                                                         *)
Named ==
    /\ tree[1].name = <<>>
    /\ \A b \in DOMAIN tree : b # 1 => tree[b].name # <<>>
    /\ \A b \in DOMAIN tree : \A n \in DOMAIN tree[b].items :
        tree[b].items[n].type = "comment" => tree[b].items[n].value \in {NULL, "text"}

InOrder ==
    \A b \in DOMAIN tree : \A m, n \in DOMAIN tree[b].items :
        m < n /\ tree[b].items[m].type = "block" /\ tree[b].items[n].type = "block" =>
            tree[b].items[m].value < tree[b].items[n].value

Nested ==
    /\ \A x, y \in DOMAIN tree : x < y /\ tree[y].parent < x => tree[x].parent >= tree[y].parent
    /\ \A x \in DOMAIN tree : x > block => tree[x].parent >= block

Numbered == Named /\ InOrder /\ Nested

(* The first parse.  What its steps do to the tree and to the block that   *)
(* is open.                                                                *)
LEMMA ParseSteps ==
    ASSUME ParserInv, [Next]_vars
    PROVE  \/ tree' = tree /\ (block' = block \/ (block' = tree[block].parent /\ block' # 0))
           \/ \E item : /\ Linked(item) /\ block' = block
                        /\ item.type = "comment" => item.value \in {NULL, "text"}
           \/ \E names : Opened(names) /\ names # <<>> /\ block' = Len(tree) + 1
           \/ \E b, n, s : Valued(b, n, s) /\ block' = block
<1> DEFINE Shape ==
        \/ tree' = tree /\ (block' = block \/ (block' = tree[block].parent /\ block' # 0))
        \/ \E item : /\ Linked(item) /\ block' = block
                     /\ item.type = "comment" => item.value \in {NULL, "text"}
        \/ \E names : Opened(names) /\ names # <<>> /\ block' = Len(tree) + 1
        \/ \E b, n, s : Valued(b, n, s) /\ block' = block
<1>1. ASSUME NEW text \in {NULL, "text"}, AddComment(text) PROVE Shape
  <2>1. Item("comment", key, text) \in ItemRecords
    BY DEF ParserInv, TypeOK, Item, ItemRecords
  <2>2. Linked(Item("comment", key, text))
    BY <1>1, <2>1, HereIsBlock DEF AddComment, NewItem, Linked, Item
  <2> QED
    BY <1>1, <2>2 DEF Item, AddComment
<1>2. CASE AssignNew
  <2>1. <<>> \in Seq(Strings)
    OBVIOUS
  <2>2. Item("value", key, <<>>) \in ItemRecords
    BY <2>1 DEF ParserInv, TypeOK, Item, ItemRecords
  <2>3. Linked(Item("value", key, <<>>))
    BY <1>2, <2>2, HereIsBlock DEF AssignNew, NewItem, Linked, Item
  <2> QED
    BY <1>2, <2>3 DEF Item, AssignNew, AssignStarts
<1>3. CASE OpenBlock
  <2> DEFINE names == IF name = <<>> THEN <<EmptyString>> ELSE name
  <2>1. names \in Seq(Strings \cup {EmptyString}) /\ names # <<>>
    <3>1. name \in Seq(Strings)
      BY DEF ParserInv
    <3>2. name \in Seq(Strings \cup {EmptyString})
      BY <3>1, SeqMonotonic
    <3>3. <<EmptyString>> \in Seq({EmptyString}) /\ <<EmptyString>> # <<>>
      OBVIOUS
    <3>4. <<EmptyString>> \in Seq(Strings \cup {EmptyString})
      BY <3>3, SeqMonotonic
    <3> QED
      BY <3>2, <3>3, <3>4
  <2>2. Opened(names)
    BY <1>3, <2>1, HereIsBlock DEF OpenBlock, Opened
  <2>3. block' = Len(tree) + 1
    BY <1>3 DEF OpenBlock
  <2> HIDE DEF names
  <2> QED
    BY <2>1, <2>2, <2>3
<1>4. ASSUME NEW s \in Strings, ReadValue(s) PROVE Shape
  <2>1. current_item # NULL
    BY <1>4 DEF ReadValue, ParserInv, TypeOK
  <2>2. Valued(current_item[1], current_item[2], s)
    BY <1>4, <2>1 DEF ReadValue, ParserInv, TypeOK, Valued, Current
  <2> QED
    BY <1>4, <2>2 DEF ReadValue
<1>5. CASE UNCHANGED vars
  BY <1>5 DEF vars
<1>6. ASSUME NEW s \in Strings,
             ReadKey(s) \/ ReadName(s) \/ ReadValueIntoComment(s) \/ SecondName(s)
      PROVE  Shape
  BY <1>6 DEF ReadKey, ReadName, ReadValueIntoComment, SecondName, Wild, Fail
<1>7. ASSUME \/ Newline \/ OpenNothing \/ CloseBlock \/ CloseNothing \/ Comma \/ AssignAgain
             \/ AssignFollowsNull \/ AssignNothing \/ Semicolon \/ EndOfFile
      PROVE  Shape
  BY <1>7 DEF Newline, OpenNothing, CloseBlock, MayClose, CloseNothing, Comma, AssignAgain,
     AssignStarts, AssignFollowsNull, AssignNothing, Semicolon, EndOfFile, Wild, Fail
<1>8. CASE EmptyLine \/ Comment
  BY <1>1, <1>8 DEF EmptyLine, Comment
<1> QED
  BY <1>2, <1>3, <1>4, <1>5, <1>6, <1>7, <1>8 DEF Next, NextToken

LEMMA ItemsAppended ==
    ASSUME NEW items \in Seq(ItemRecords), NEW item \in ItemRecords, NEW new, new = Append(items, item)
    PROVE  \A n \in DOMAIN new : new[n] = item \/ (n \in DOMAIN items /\ new[n] = items[n])
<1>1. /\ Len(new) = Len(items) + 1 /\ Len(items) \in Nat
      /\ DOMAIN new = 1 .. Len(items) + 1
      /\ DOMAIN items = 1 .. Len(items)
      /\ \A i \in 1 .. Len(items) : new[i] = items[i]
      /\ new[Len(items) + 1] = item
  BY AppendProperties
<1> QED
  BY <1>1

LEMMA StepKeepsNames ==
    ASSUME ParserInv, Named, [Next]_vars
    PROVE  Named'
<1>0. /\ block \in DOMAIN tree /\ Len(tree) \in Nat /\ Len(tree) >= 1 /\ DOMAIN tree = 1 .. Len(tree)
      /\ tree \in Seq(Blocks) /\ tree' \in Seq(Blocks)
  BY HereIsBlock, BlockTypes, TreeStaysTyped DEF ParserInv, TreeTyped
<1>1. CASE tree' = tree
  BY <1>1 DEF Named
<1>2. ASSUME NEW item, Linked(item), item.type = "comment" => item.value \in {NULL, "text"}
      PROVE  Named'
  <2>1. /\ Len(tree') = Len(tree)
        /\ \A b \in DOMAIN tree : tree'[b].name = tree[b].name /\ (b # block => tree'[b] = tree[b])
        /\ tree'[block].items = Append(tree[block].items, item)
    BY <1>2, AfterLinked
  <2>2. DOMAIN tree' = DOMAIN tree
    BY <1>0, <2>1
  <2>3. tree[block].items \in Seq(ItemRecords) /\ item \in ItemRecords
    BY <1>0, <1>2, BlockTypes DEF Linked
  <2>4. \A n \in DOMAIN tree'[block].items :
            \/ tree'[block].items[n] = item
            \/ n \in DOMAIN tree[block].items /\ tree'[block].items[n] = tree[block].items[n]
    BY <2>1, <2>3, ItemsAppended
  <2>5. ASSUME NEW b \in DOMAIN tree, NEW n \in DOMAIN tree'[b].items, tree'[b].items[n].type = "comment"
        PROVE  tree'[b].items[n].value \in {NULL, "text"}
    BY <1>2, <2>1, <2>4, <2>5 DEF Named
  <2> QED
    BY <1>0, <2>1, <2>2, <2>5 DEF Named
<1>3. ASSUME NEW names, Opened(names), names # <<>> PROVE Named'
  <2> DEFINE c == Len(tree) + 1
             item == Item("block", key, c)
  <2>1. /\ Len(tree') = c
        /\ \A b \in DOMAIN tree : tree'[b].name = tree[b].name /\ (b # block => tree'[b] = tree[b])
        /\ tree'[block].items = Append(tree[block].items, item)
        /\ tree'[c] = Block(block, names)
    BY <1>3, AfterOpened
  <2>2. tree[block].items \in Seq(ItemRecords) /\ item.type = "block" /\ item \in ItemRecords
    <3>1. tree[block].items \in Seq(ItemRecords)
      BY <1>0, BlockTypes
    <3>2. key \in Strings \cup {NULL} /\ c \in Nat
      BY <1>0 DEF ParserInv, TypeOK
    <3> HIDE DEF c
    <3> QED
      BY <3>1, <3>2 DEF Item, ItemRecords
  <2>3. tree'[c].name = names /\ DOMAIN tree'[c].items = {}
    BY <2>1 DEF Block
  <2>a. c \in Nat /\ c # 1 /\ c \notin DOMAIN tree
    BY <1>0
  <2> HIDE DEF c, item
  <2>4. DOMAIN tree' = DOMAIN tree \cup {c}
    <3>1. DOMAIN tree' = 1 .. c
      BY <1>0, <2>1
    <3> QED
      BY <1>0, <3>1 DEF c
  <2>5. \A n \in DOMAIN tree'[block].items :
            \/ tree'[block].items[n] = item
            \/ n \in DOMAIN tree[block].items /\ tree'[block].items[n] = tree[block].items[n]
    BY <2>1, <2>2, ItemsAppended
  <2>6. ASSUME NEW b \in DOMAIN tree, NEW n \in DOMAIN tree'[b].items, tree'[b].items[n].type = "comment"
        PROVE  tree'[b].items[n].value \in {NULL, "text"}
    BY <2>1, <2>2, <2>5, <2>6 DEF Named
  <2> QED
    BY <1>0, <1>3, <2>1, <2>3, <2>a, <2>4, <2>6 DEF Named
<1>4. ASSUME NEW b, NEW n, NEW s, Valued(b, n, s) PROVE Named'
  <2>1. /\ Len(tree') = Len(tree)
        /\ \A a \in DOMAIN tree : tree'[a].name = tree[a].name /\ (a # b => tree'[a] = tree[a])
        /\ Len(tree'[b].items) = Len(tree[b].items)
        /\ \A m \in DOMAIN tree[b].items :
               /\ tree'[b].items[m].type = tree[b].items[m].type
               /\ m # n => tree'[b].items[m] = tree[b].items[m]
    BY <1>4, AfterValued
  <2>2. DOMAIN tree' = DOMAIN tree
    BY <1>0, <2>1
  <2>3. b \in DOMAIN tree /\ n \in DOMAIN tree[b].items /\ tree[b].items[n].type = "value"
    BY <1>4 DEF Valued
  <2>4. DOMAIN tree'[b].items = DOMAIN tree[b].items
    <3>1. DOMAIN tree[b].items = 1 .. Len(tree[b].items)
      BY <2>3, BlockTypes
    <3>2. tree'[b] \in Blocks
      BY <1>0, <2>2, <2>3
    <3>3. DOMAIN tree'[b].items = 1 .. Len(tree'[b].items)
      <4>1. tree'[b].items \in Seq(ItemRecords)
        BY <3>2 DEF Blocks
      <4> QED
        BY <4>1
    <3> QED
      BY <2>1, <3>1, <3>3
  <2>5. ASSUME NEW a \in DOMAIN tree, NEW m \in DOMAIN tree'[a].items, tree'[a].items[m].type = "comment"
        PROVE  tree'[a].items[m].value \in {NULL, "text"}
    BY <2>1, <2>3, <2>4, <2>5 DEF Named
  <2> QED
    BY <1>0, <2>1, <2>2, <2>5 DEF Named
<1> QED
  BY <1>1, <1>2, <1>3, <1>4, ParseSteps

LEMMA StepKeepsOrder ==
    ASSUME ParserInv, TreeShape, InOrder, [Next]_vars
    PROVE  InOrder'
<1>0. /\ block \in DOMAIN tree /\ Len(tree) \in Nat /\ DOMAIN tree = 1 .. Len(tree)
      /\ tree' \in Seq(Blocks) /\ DOMAIN tree' = 1 .. Len(tree')
      /\ Len(tree[block].items) \in Nat /\ DOMAIN tree[block].items = 1 .. Len(tree[block].items)
  BY HereIsBlock, BlockTypes, TreeStaysTyped DEF ParserInv, TreeTyped
<1> SUFFICES ASSUME NEW b \in DOMAIN tree', NEW m \in DOMAIN tree'[b].items, NEW n \in DOMAIN tree'[b].items,
                    m < n, tree'[b].items[m].type = "block", tree'[b].items[n].type = "block"
             PROVE  tree'[b].items[m].value < tree'[b].items[n].value
  BY DEF InOrder
<1>1. CASE SamePlaces
  <2>1. b \in DOMAIN tree
    BY <1>0, <1>1 DEF SamePlaces
  <2>2. m \in DOMAIN tree[b].items /\ n \in DOMAIN tree[b].items
    BY <1>1, <2>1 DEF SamePlaces
  <2> QED
    BY <1>1, <2>1, <2>2 DEF SamePlaces, InOrder
<1>2. CASE NewPlace
  <2> DEFINE c == Len(tree) + 1
             k == Len(tree[block].items) + 1
  <2>1. b # c
    BY <1>2 DEF NewPlace
  <2>2. b \in DOMAIN tree
    BY <1>0, <1>2, <2>1 DEF NewPlace
  <2>3. ASSUME NEW i \in DOMAIN tree'[b].items
        PROVE  \/ b = block /\ i = k
               \/ i \in DOMAIN tree[b].items /\ tree'[b].items[i] = tree[b].items[i]
    BY <1>2, <2>2 DEF NewPlace
  <2>4. ASSUME NEW i \in DOMAIN tree[b].items, tree[b].items[i].type = "block"
        PROVE  tree[b].items[i].value \in 2 .. Len(tree)
    BY <2>2, <2>4 DEF TreeShape
  <2>5. tree'[block].items[k].value = c
    BY <1>2 DEF NewPlace
  <2>6. CASE n \in DOMAIN tree[b].items /\ tree'[b].items[n] = tree[b].items[n]
    <3>1. ~(b = block /\ m = k)
      BY <1>0, <2>6
    <3>2. m \in DOMAIN tree[b].items /\ tree'[b].items[m] = tree[b].items[m]
      BY <2>3, <3>1
    <3> QED
      BY <2>2, <2>6, <3>2 DEF InOrder
  <2>7. CASE b = block /\ n = k
    <3>1. m # k
      <4>1. n \in Nat
        BY <1>0, <2>7
      <4> QED
        BY <2>7, <4>1
    <3>2. m \in DOMAIN tree[b].items /\ tree'[b].items[m] = tree[b].items[m]
      BY <2>3, <3>1
    <3>3. tree'[b].items[m].value \in 2 .. Len(tree)
      BY <2>4, <3>2
    <3> QED
      BY <1>0, <2>5, <2>7, <3>3
  <2> QED
    BY <2>3, <2>6, <2>7
<1> QED
  BY <1>1, <1>2, PlacesStep

LEMMA StepKeepsNesting ==
    ASSUME ParserInv, TreeShape, Nested, [Next]_vars
    PROVE  Nested'
<1>0. /\ block \in DOMAIN tree /\ Len(tree) \in Nat /\ DOMAIN tree = 1 .. Len(tree)
      /\ tree' \in Seq(Blocks) /\ DOMAIN tree' = 1 .. Len(tree')
      /\ \A x \in DOMAIN tree : tree[x].parent \in Nat /\ x \in Nat /\ tree[x].parent < x
  BY HereIsBlock, BlockTypes, TreeStaysTyped DEF ParserInv, TreeTyped, TypeOK
<1>1. \/ /\ Len(tree') = Len(tree)
         /\ block' = block \/ (block' = tree[block].parent /\ block' # 0)
      \/ Len(tree') = Len(tree) + 1 /\ block' = Len(tree) + 1 /\ tree'[Len(tree) + 1].parent = block
  <2>1. CASE tree' = tree /\ (block' = block \/ (block' = tree[block].parent /\ block' # 0))
    BY <2>1
  <2>2. ASSUME NEW item, Linked(item), block' = block PROVE Len(tree') = Len(tree)
    BY <2>2, AfterLinked
  <2>3. ASSUME NEW names, Opened(names)
        PROVE  Len(tree') = Len(tree) + 1 /\ tree'[Len(tree) + 1].parent = block
    <3>1. Len(tree') = Len(tree) + 1 /\ tree'[Len(tree) + 1] = Block(block, names)
      BY <2>3, AfterOpened
    <3> QED
      BY <3>1 DEF Block
  <2>4. ASSUME NEW b, NEW n, NEW s, Valued(b, n, s) PROVE Len(tree') = Len(tree)
    BY <2>4, AfterValued
  <2> QED
    BY <2>1, <2>2, <2>3, <2>4, ParseSteps
<1>2. ASSUME NEW x \in DOMAIN tree PROVE tree'[x].parent = tree[x].parent
  <2>1. CASE SamePlaces
    BY <1>2, <2>1 DEF SamePlaces
  <2>2. CASE NewPlace
    BY <1>2, <2>2 DEF NewPlace
  <2> QED
    BY <2>1, <2>2, PlacesStep
<1>3. CASE Len(tree') = Len(tree)
  <2>1. DOMAIN tree' = DOMAIN tree
    BY <1>0, <1>3
  <2>2. block' = block \/ (block' = tree[block].parent /\ block' # 0)
    <3>1. Len(tree) \in Nat
      BY <1>0
    <3> QED
      BY <1>1, <1>3, <3>1
  <2>3. ASSUME NEW x \in DOMAIN tree, x > block' PROVE tree[x].parent >= block'
    <3>1. CASE block' = block
      BY <2>3, <3>1 DEF Nested
    <3>2. CASE block' = tree[block].parent
      <4>1. CASE x = block
        BY <1>0, <3>2, <4>1
      <4>2. CASE x > block
        <5>1. tree[x].parent >= block
          BY <4>2 DEF Nested
        <5> QED
          BY <1>0, <3>2, <5>1
      <4>3. CASE x < block
        BY <1>0, <2>3, <3>2, <4>3 DEF Nested
      <4> QED
        BY <1>0, <4>1, <4>2, <4>3
    <3> QED
      BY <2>2, <3>1, <3>2
  <2> QED
    BY <1>2, <2>1, <2>3 DEF Nested
<1>4. CASE Len(tree') = Len(tree) + 1
  <2> DEFINE c == Len(tree) + 1
  <2>1. block' = c /\ tree'[c].parent = block /\ c \in Nat
    <3>1. Len(tree) \in Nat
      BY <1>0
    <3> QED
      BY <1>1, <1>4, <3>1
  <2>2. ASSUME NEW x \in DOMAIN tree' PROVE x \in DOMAIN tree \/ x = c
    BY <1>0, <1>4
  <2>3. ASSUME NEW x \in DOMAIN tree', NEW y \in DOMAIN tree', x < y, tree'[y].parent < x
        PROVE  tree'[x].parent >= tree'[y].parent
    <3>1. x \in DOMAIN tree
      BY <1>0, <1>4, <2>2, <2>3
    <3>2. CASE y \in DOMAIN tree
      BY <1>2, <2>3, <3>1, <3>2 DEF Nested
    <3>3. CASE y = c
      <4>1. block < x
        BY <2>1, <2>3, <3>3
      <4>2. tree[x].parent >= block
        BY <1>0, <3>1, <4>1 DEF Nested
      <4> QED
        BY <1>2, <2>1, <3>1, <3>3, <4>2
    <3> QED
      BY <2>2, <3>2, <3>3
  <2>4. ASSUME NEW x \in DOMAIN tree' PROVE ~(x > block')
    BY <1>0, <1>4, <2>1
  <2> QED
    BY <2>3, <2>4 DEF Nested
<1> QED
  BY <1>1, <1>3, <1>4

LEMMA StepKeepsNumbers ==
    ASSUME ParserInv, TreeShape, Numbered, [Next]_vars
    PROVE  Numbered'
BY StepKeepsNames, StepKeepsOrder, StepKeepsNesting DEF Numbered

LEMMA InitIsNumbered ==
    Init => Numbered
<1> SUFFICES ASSUME Init PROVE Numbered
  OBVIOUS
<1>1. /\ tree = <<Root>> /\ DOMAIN tree = {1} /\ tree[1] = Root /\ block = 1
      /\ Root.name = <<>> /\ Root.items = <<>> /\ DOMAIN Root.items = {} /\ Root.parent = 0
  BY DEF Init, Root, Block
<1> QED
  BY <1>1 DEF Numbered, Named, InOrder, Nested

(* The blocks of a tree are numbered as their heads come in the file: under *)
(* any block in the order of the list, and with nothing between the head    *)
(* of a block and that of a block inside it but what is inside it too.      *)
(* Every block but the root has a name.                                     *)
THEOREM BlocksAreNumbered ==
    Spec => []Numbered
<1>1. ParserInv /\ TreeShape /\ Numbered /\ [Next]_vars => Numbered'
  BY StepKeepsNumbers
<1> QED
  BY <1>1, InitIsNumbered, ParserInvHolds, OnePlaceEach, PTL DEF Spec

-----------------------------------------------------------------------------
(* The writer's side.                                                      *)
Places == {"item", "key", "name", "name,", "=", "value", "value,"}
Heads == [parent : Nat, key : Strings, names : Seq(Strings)]
Tables == [Strings -> Seq(Strings)]

WriterTypes ==
    /\ at \in Places
    /\ at # "item" => wkey \in Strings
    /\ wnames \in Seq(Strings)
    /\ opened \in Seq(Heads) /\ Len(tree) = Len(opened) + 1
    /\ written \in Seq(Tables) /\ Len(written) = Len(tree)

(* Each open block is a block of the tree, in the one before it, and the   *)
(* outermost is the root.                                                  *)
OpenChain ==
    /\ open \in Seq(Nat) /\ Len(open) >= 1 /\ open[1] = 1
    /\ \A i \in 1 .. Len(open) : open[i] \in DOMAIN tree
    /\ \A i \in 2 .. Len(open) : tree[open[i]].parent = open[i - 1]

(* The values that are read go to the option whose key was written.        *)
OptionAtHand ==
    state = "value" =>
        /\ current_item # NULL
        /\ current_item[1] = block /\ current_item[2] \in DOMAIN tree[block].items
        /\ Current.type = "value" /\ Current.key = wkey

(* The block items of the tree and the blocks the writer has opened are    *)
(* the same, item by item, and are in the order of their opening.          *)
HeadsMatch ==
    \A m \in DOMAIN opened :
        /\ tree[m + 1].parent = opened[m].parent
        /\ tree[m + 1].name = IF opened[m].names = <<>> THEN <<EmptyString>> ELSE opened[m].names

BlocksMatch ==
    /\ \A b \in DOMAIN tree : \A n \in DOMAIN tree[b].items :
        tree[b].items[n].type = "block" =>
            \E m \in DOMAIN opened :
                /\ tree[b].items[n].value = m + 1
                /\ opened[m].parent = b /\ opened[m].key = tree[b].items[n].key
    /\ \A m \in DOMAIN opened :
        /\ opened[m].parent \in DOMAIN tree
        /\ \E n \in DOMAIN tree[opened[m].parent].items :
            /\ tree[opened[m].parent].items[n].type = "block"
            /\ tree[opened[m].parent].items[n].value = m + 1

(* The option of a key has the values given to it, and where there is no   *)
(* option none were given.                                                 *)
ListsMatch ==
    \A b \in DOMAIN tree :
        /\ \A n \in DOMAIN tree[b].items :
            tree[b].items[n].type = "value" =>
                tree[b].items[n].value = written[b][tree[b].items[n].key]
        /\ \A k \in Strings :
            written[b][k] # <<>> =>
                \E n \in DOMAIN tree[b].items :
                    tree[b].items[n].type = "value" /\ tree[b].items[n].key = k

FileInv ==
    /\ ParserInv /\ OneItemPerKey
    /\ WriterTypes /\ OpenChain /\ InStep /\ OptionAtHand
    /\ ItemShape /\ HeadsMatch /\ BlocksMatch /\ ListsMatch

-----------------------------------------------------------------------------
(* Every step of writer and parser is a step of the parser.                *)
LEMMA FileSteps ==
    ASSUME [FileNext]_allvars
    PROVE  [Next]_vars
<1>1. CASE UNCHANGED allvars
  BY <1>1 DEF allvars
<1>2. CASE FileNext
  <2>1. ASSUME NEW s \in Strings, ReadString(s) PROVE Next
    BY <2>1 DEF ReadString, Next, NextToken
  <2> QED
    BY <1>2, <2>1 DEF FileNext, WriteLineEnd, WriteComment, WriteKey, WriteName, WriteValue,
       WriteComma, WriteOpen, WriteClose, WriteAssign, WriteSemicolon, WriteEnd, Next, NextToken
<1> QED
  BY <1>1, <1>2

(* What the parser knows at each place of a statement, place by place.     *)
LEMMA StateAt ==
    ASSUME WriterTypes
    PROVE  InStep <=>
             /\ ~error /\ ~wild /\ block = Here
             /\ at = "item" => state = "none"
             /\ at \in {"key", "name", "name,"} => state = "name"
             /\ at \in {"=", "value", "value,"} => state = "value"
             /\ set <=> at \in {"name", "value"}
             /\ state = "name" => key = wkey /\ name = wnames
BY DEF InStep, WriterTypes, Places

LEMMA StateAtNext ==
    ASSUME at' \in Places
    PROVE  InStep' <=>
             /\ ~error' /\ ~wild' /\ block' = Here'
             /\ at' = "item" => state' = "none"
             /\ at' \in {"key", "name", "name,"} => state' = "name"
             /\ at' \in {"=", "value", "value,"} => state' = "value"
             /\ set' <=> at' \in {"name", "value"}
             /\ state' = "name" => key' = wkey' /\ name' = wnames'
BY DEF InStep, Places

(* No key that is compared is a null pointer.                              *)
LEMMA NothingFollowed ==
    ASSUME FileInv, state = "name"
    PROVE  ~FindIsWild /\ key \in Strings /\ key # NULL
<1>1. key = wkey /\ at # "item"
  BY StateAt DEF FileInv
<1>2. key \in Strings /\ key # NULL
  BY <1>1, StringsAssumption DEF FileInv, WriterTypes
<1>3. block \in DOMAIN tree
  BY HereIsBlock DEF FileInv
<1>4. \A n \in DOMAIN Items : Items[n].type = "value" => Items[n].key # NULL
  BY <1>3 DEF FileInv, ItemShape, Items
<1> QED
  BY <1>2, <1>4 DEF FindIsWild

(* At each place the parser does with a token what the writer means.       *)
LEMMA WhatIsRead ==
    ASSUME FileInv, ~bare'
    PROVE  /\ WriteLineEnd => Newline \/ (EmptyLine /\ state = "none")
           /\ WriteComment => Comment /\ state = "none"
           /\ WriteOpen => OpenBlock
           /\ WriteClose => CloseBlock /\ tree[block].parent = open[Len(open) - 1]
           /\ WriteAssign => AssignAgain \/ AssignNew
           /\ \A s \in Strings :
                /\ WriteKey(s) => ReadKey(s) /\ state = "none"
                /\ WriteName(s) => ReadName(s)
                /\ WriteValue(s) => ReadValue(s)
<1>1. /\ at = "item" => state = "none" /\ ~set
      /\ at \in {"key", "name", "name,"} => state = "name"
      /\ at \in {"=", "value", "value,"} => state = "value"
      /\ at \in {"key", "name,", "=", "value,"} => ~set
  BY StateAt DEF FileInv
<1>b. block = Here
  BY DEF FileInv, InStep
<1>2. WriteLineEnd => Newline \/ (EmptyLine /\ state = "none")
  BY <1>1 DEF WriteLineEnd, EmptyLine
<1>3. WriteComment => Comment /\ state = "none"
  BY <1>1 DEF WriteComment
<1>4. WriteOpen => OpenBlock
  BY <1>1 DEF WriteOpen, OpenNothing
<1>5. WriteClose => CloseBlock /\ tree[block].parent = open[Len(open) - 1]
  <2>1. ASSUME WriteClose PROVE tree[block].parent = open[Len(open) - 1] /\ open[Len(open) - 1] # 0
    <3>1. Len(open) > 1 /\ Len(open) \in Nat
      BY <2>1 DEF WriteClose, FileInv, OpenChain
    <3>2. Len(open) \in 2 .. Len(open) /\ Len(open) - 1 \in 1 .. Len(open)
      BY <3>1
    <3>3. open[Len(open) - 1] \in DOMAIN tree
      BY <3>2 DEF FileInv, OpenChain
    <3>4. open[Len(open) - 1] \in Nat /\ open[Len(open) - 1] >= 1
      BY <3>3, BlockTypes DEF FileInv
    <3>5. tree[open[Len(open)]].parent = open[Len(open) - 1]
      BY <3>2 DEF FileInv, OpenChain
    <3> QED
      BY <1>b, <3>4, <3>5 DEF Here
  <2> QED
    BY <1>1, <2>1 DEF WriteClose, CloseNothing, MayClose, StartsStatement
<1>6. WriteAssign => AssignAgain \/ AssignNew
  BY <1>1, NothingFollowed DEF WriteAssign, AssignFollowsNull, AssignNothing
<1>7. ASSUME NEW s \in Strings
      PROVE  /\ WriteKey(s) => ReadKey(s) /\ state = "none"
             /\ WriteName(s) => ReadName(s)
             /\ WriteValue(s) => ReadValue(s)
  <2>1. WriteKey(s) => ReadKey(s) /\ state = "none"
    BY <1>1 DEF WriteKey, ReadString, ReadName, ReadValue, ReadValueIntoComment, SecondName
  <2>2. WriteName(s) => ReadName(s)
    BY <1>1 DEF WriteName, ReadString, ReadKey, StartsStatement, ReadValue,
       ReadValueIntoComment, SecondName
  <2>3. WriteValue(s) => ReadValue(s)
    <3>1. state = "value" => Current.type = "value"
      BY DEF FileInv, OptionAtHand
    <3> QED
      BY <1>1, <3>1 DEF WriteValue, ReadString, ReadKey, StartsStatement, ReadName,
         ReadValueIntoComment, SecondName
  <2> QED
    BY <2>1, <2>2, <2>3
<1> QED
  BY <1>2, <1>3, <1>4, <1>5, <1>6, <1>7

(* What a token does to the tree, and to the two histories with it.        *)
HeadRead == [parent |-> block, key |-> key, names |-> name]

Untouched == UNCHANGED <<tree, opened, written>>

Noted ==
    /\ UNCHANGED <<opened, written>>
    /\ \E item : Linked(item) /\ item.type = "comment" /\ item.key = NULL

Started ==
    /\ UNCHANGED <<opened, written>>
    /\ key \in Strings /\ Found = {}
    /\ Linked(Item("value", key, <<>>))

Entered ==
    /\ key \in Strings
    /\ Opened(IF name = <<>> THEN <<EmptyString>> ELSE name)
    /\ opened' = Append(opened, HeadRead)
    /\ written' = Append(written, NoValues)

Given(n, s) ==
    /\ Valued(block, n, s)
    /\ opened' = opened
    /\ tree[block].items[n].key \in Strings
    /\ written' = [written EXCEPT ![block][tree[block].items[n].key] = Append(@, s)]

LEMMA NamesOfBlock ==
    ASSUME ParserInv
    PROVE  (IF name = <<>> THEN <<EmptyString>> ELSE name) \in Seq(Strings \cup {EmptyString})
<1>1. <<EmptyString>> \in Seq({EmptyString}) /\ name \in Seq(Strings)
  BY DEF ParserInv
<1>2. <<EmptyString>> \in Seq(Strings \cup {EmptyString}) /\ name \in Seq(Strings \cup {EmptyString})
  BY <1>1, SeqMonotonic
<1> QED
  BY <1>2

LEMMA Effects ==
    ASSUME FileInv, [FileNext]_allvars, ~bare'
    PROVE  Untouched \/ Noted \/ Started \/ Entered \/ \E n, s : Given(n, s)
<1>0. ParserInv /\ (state = "none" => key = NULL) /\ block = Here
  BY StateAt, InvParts DEF FileInv, Readings
<1>1. ASSUME NEW text \in {NULL, "text"}, AddComment(text), state = "none",
             UNCHANGED <<opened, written>>
      PROVE  Noted
  <2> DEFINE item == Item("comment", key, text)
  <2>1. item \in ItemRecords /\ item.type = "comment" /\ item.key = NULL
    BY <1>0, <1>1, InvParts DEF Readings, Item, ItemRecords
  <2>2. tree' = [tree EXCEPT ![block].items = Append(tree[block].items, item)]
    BY <1>0, <1>1, HereIsBlock DEF AddComment, NewItem
  <2> HIDE DEF item
  <2>3. Linked(item)
    BY <2>1, <2>2 DEF Linked
  <2> QED
    BY <1>1, <2>1, <2>3 DEF Noted
<1>2. CASE WriteLineEnd
  BY <1>1, <1>2, WhatIsRead DEF WriteLineEnd, writer, Newline, EmptyLine, Untouched
<1>3. CASE WriteComment
  BY <1>1, <1>3, WhatIsRead DEF WriteComment, writer, Comment
<1>4. ASSUME NEW s \in Strings, WriteKey(s) \/ WriteName(s) PROVE Untouched
  BY <1>4, WhatIsRead DEF WriteKey, WriteName, ReadKey, ReadName, Untouched
<1>5. ASSUME NEW s \in Strings, WriteValue(s) PROVE \E n : Given(n, s)
  <2>1. ReadValue(s) /\ state = "value" /\ at # "item"
    BY <1>5, WhatIsRead DEF ReadValue, WriteValue
  <2>2. /\ current_item[1] = block /\ current_item[2] \in DOMAIN tree[block].items
        /\ tree[block].items[current_item[2]].type = "value"
        /\ tree[block].items[current_item[2]].key = wkey
    BY <2>1 DEF FileInv, OptionAtHand, Current
  <2>3. tree' = [tree EXCEPT ![block].items[current_item[2]].value = Append(@, s)]
    BY <2>1, <2>2 DEF ReadValue
  <2>4. Valued(block, current_item[2], s)
    BY <1>0, <2>2, <2>3, HereIsBlock DEF Valued
  <2>5. wkey \in Strings
    BY <2>1 DEF FileInv, WriterTypes
  <2>6. /\ opened' = opened
        /\ written' = [written EXCEPT ![block][wkey] = Append(@, s)]
    BY <1>0, <1>5 DEF WriteValue
  <2> QED
    BY <2>2, <2>4, <2>5, <2>6 DEF Given
<1>6. CASE WriteComma \/ WriteSemicolon \/ WriteEnd
  BY <1>6 DEF WriteComma, WriteSemicolon, WriteEnd, Comma, Semicolon, EndOfFile, writer, Untouched
<1>7. CASE WriteOpen
  <2>1. OpenBlock /\ state = "name"
    BY <1>7, WhatIsRead DEF OpenBlock
  <2>2. key = wkey /\ name = wnames /\ key \in Strings
    BY <1>7, <2>1, StateAt, NothingFollowed DEF FileInv
  <2>3. Opened(IF name = <<>> THEN <<EmptyString>> ELSE name)
    BY <1>0, <2>1, HereIsBlock, NamesOfBlock DEF OpenBlock, Opened
  <2> QED
    BY <1>0, <1>7, <2>2, <2>3 DEF WriteOpen, Entered, HeadRead
<1>8. CASE WriteClose
  BY <1>8, WhatIsRead DEF WriteClose, CloseBlock, Untouched
<1>9. CASE WriteAssign
  <2>1. CASE AssignAgain
    BY <1>9, <2>1 DEF WriteAssign, AssignAgain, Untouched
  <2>2. CASE AssignNew
    <3>1. state = "name" /\ Found = {} /\ NewItem(Item("value", key, <<>>))
      BY <2>2 DEF AssignNew, AssignStarts
    <3>2. key \in Strings
      BY <3>1, NothingFollowed
    <3>3. <<>> \in Seq(Strings)
      OBVIOUS
    <3>4. Item("value", key, <<>>) \in ItemRecords
      BY <3>2, <3>3 DEF Item, ItemRecords
    <3>5. Linked(Item("value", key, <<>>))
      BY <1>0, <3>1, <3>4, HereIsBlock DEF NewItem, Linked, Item
    <3> QED
      BY <1>9, <3>1, <3>2, <3>5 DEF WriteAssign, Started
  <2> QED
    BY <1>9, <2>1, <2>2, WhatIsRead
<1>10. CASE UNCHANGED allvars
  BY <1>10 DEF allvars, vars, writer, Untouched
<1> QED
  BY <1>2, <1>3, <1>4, <1>5, <1>6, <1>7, <1>8, <1>9, <1>10 DEF FileNext

-----------------------------------------------------------------------------
(* The two sides stay at the same place, action by action.                 *)
LEMMA StepKeepsWriter ==
    ASSUME FileInv, [FileNext]_allvars, ~bare'
    PROVE  WriterTypes'
<1>0. /\ ParserInv /\ WriterTypes /\ key \in Strings \cup {NULL} /\ name \in Seq(Strings)
      /\ block \in Nat /\ block \in DOMAIN tree /\ Len(tree) \in Nat /\ tree \in Seq(Blocks)
      /\ DOMAIN tree = 1 .. Len(tree)
  BY InvParts, HereIsBlock, BlockTypes DEF FileInv, Readings, ParserInv
<1>1. /\ at' \in Places
      /\ at' # "item" => wkey' \in Strings
      /\ wnames' \in Seq(Strings)
  <2>1. ASSUME NEW s \in Strings, WriteKey(s) \/ WriteName(s) \/ WriteValue(s)
        PROVE  /\ at' \in Places /\ (at' # "item" => wkey' \in Strings)
               /\ wnames' \in Seq(Strings)
    <3>1. <<>> \in Seq(Strings) /\ Append(wnames, s) \in Seq(Strings)
      BY <1>0 DEF WriterTypes
    <3> QED
      BY <1>0, <2>1, <3>1 DEF WriteKey, WriteName, WriteValue, WriterTypes, Places
  <2>2. CASE \/ WriteLineEnd \/ WriteComment \/ WriteComma \/ WriteOpen \/ WriteClose
             \/ WriteAssign \/ WriteSemicolon \/ WriteEnd \/ UNCHANGED allvars
    BY <1>0, <2>2 DEF WriteLineEnd, WriteComment, WriteComma, WriteOpen, WriteClose,
       WriteAssign, WriteSemicolon, WriteEnd, allvars, writer, WriterTypes, Places
  <2> QED
    BY <2>1, <2>2 DEF FileNext
<1>2. /\ opened' \in Seq(Heads) /\ Len(tree') = Len(opened') + 1
      /\ written' \in Seq(Tables) /\ Len(written') = Len(tree')
  <2>1. CASE Untouched
    BY <1>0, <2>1 DEF Untouched, WriterTypes
  <2>2. CASE Noted \/ Started
    <3>1. Len(tree') = Len(tree) /\ UNCHANGED <<opened, written>>
      BY <1>0, <2>2, AfterLinked DEF Noted, Started
    <3> QED
      BY <1>0, <3>1 DEF WriterTypes
  <2>3. CASE Entered
    <3>1. Len(tree') = Len(tree) + 1
      BY <1>0, <2>3, AfterOpened DEF Entered
    <3>2. HeadRead \in Heads /\ NoValues \in Tables
      <4>1. <<>> \in Seq(Strings)
        OBVIOUS
      <4> QED
        BY <1>0, <2>3, <4>1 DEF Entered, HeadRead, Heads, NoValues, Tables
    <3>3. opened' = Append(opened, HeadRead) /\ written' = Append(written, NoValues)
      BY <2>3 DEF Entered
    <3>4. /\ opened \in Seq(Heads) /\ written \in Seq(Tables)
          /\ Len(tree) = Len(opened) + 1 /\ Len(written) = Len(tree)
      BY <1>0 DEF WriterTypes
    <3>5. opened' \in Seq(Heads) /\ Len(opened') = Len(opened) + 1
      BY <3>2, <3>3, <3>4
    <3>6. written' \in Seq(Tables) /\ Len(written') = Len(written) + 1
      BY <3>2, <3>3, <3>4
    <3> QED
      BY <1>0, <3>1, <3>4, <3>5, <3>6
  <2>4. ASSUME NEW n, NEW s, Given(n, s)
        PROVE  /\ opened' \in Seq(Heads) /\ Len(tree') = Len(opened') + 1
               /\ written' \in Seq(Tables) /\ Len(written') = Len(tree')
    <3> DEFINE k == tree[block].items[n].key
               table == [written[block] EXCEPT ![k] = Append(@, s)]
    <3>1. Len(tree') = Len(tree) /\ opened' = opened /\ s \in Strings /\ k \in Strings
      BY <1>0, <2>4, AfterValued DEF Given, Valued
    <3>2. block \in DOMAIN written /\ written[block] \in Tables
      BY <1>0 DEF WriterTypes
    <3>3. table \in Tables
      BY <3>1, <3>2 DEF Tables
    <3>4. written' = [written EXCEPT ![block] = table]
      BY <2>4, <3>1 DEF Given
    <3> HIDE DEF table
    <3> QED
      BY <1>0, <3>1, <3>2, <3>3, <3>4 DEF WriterTypes
  <2> QED
    BY <2>1, <2>2, <2>3, <2>4, Effects
<1> QED
  BY <1>1, <1>2 DEF WriterTypes

LEMMA StepKeepsChain ==
    ASSUME FileInv, [FileNext]_allvars, ~bare'
    PROVE  OpenChain'
<1>0. /\ ParserInv /\ tree \in Seq(Blocks) /\ Len(tree) \in Nat
      /\ block \in Nat /\ block \in DOMAIN tree
  BY HereIsBlock, BlockTypes DEF FileInv, ParserInv
<1>b. block = open[Len(open)] /\ Len(tree) = Len(opened) + 1
  BY DEF FileInv, InStep, Here, WriterTypes
<1>c. /\ open \in Seq(Nat) /\ Len(open) \in Nat /\ Len(open) >= 1 /\ open[1] = 1
      /\ \A i \in 1 .. Len(open) : open[i] \in Nat /\ open[i] \in DOMAIN tree
      /\ \A i \in 2 .. Len(open) : tree[open[i]].parent = open[i - 1]
  BY DEF FileInv, OpenChain
<1>a. \A b \in DOMAIN tree : b \in DOMAIN tree' /\ tree'[b].parent = tree[b].parent
  BY <1>0, FileSteps, AllKept DEF Kept
<1>1. CASE open' = open
  <2>1. /\ open' \in Seq(Nat) /\ Len(open') >= 1 /\ open'[1] = 1
    BY <1>1, <1>c
  <2>2. \A i \in 1 .. Len(open') : open'[i] \in DOMAIN tree'
    BY <1>1, <1>a, <1>c
  <2>3. \A i \in 2 .. Len(open') : tree'[open'[i]].parent = open'[i - 1]
    <3>1. \A i \in 2 .. Len(open) : i \in 1 .. Len(open)
      BY <1>c
    <3> QED
      BY <1>1, <1>a, <1>c, <3>1
  <2> QED
    BY <2>1, <2>2, <2>3 DEF OpenChain
<1>2. CASE WriteOpen
  <2>1. open' = Append(open, Len(tree) + 1)
    <3>1. Len(opened) + 2 = Len(tree) + 1
      BY <1>0, <1>b DEF FileInv, WriterTypes
    <3> QED
      BY <1>2, <3>1 DEF WriteOpen
  <2>2. PICK names : Opened(names)
    <3>1. OpenBlock
      BY <1>2, WhatIsRead
    <3> QED
      BY <1>0, <3>1, HereIsBlock, NamesOfBlock DEF OpenBlock, Opened
  <2>3. Len(tree') = Len(tree) + 1 /\ tree'[Len(tree) + 1].parent = block /\ tree' \in Seq(Blocks)
    <3>1. tree'[Len(tree) + 1] = Block(block, names)
      BY <1>0, <2>2, AfterOpened
    <3>2. Len(tree') = Len(tree) + 1 /\ tree' \in Seq(Blocks)
      BY <1>0, <2>2, AfterOpened
    <3> QED
      BY <3>1, <3>2 DEF Block
  <2>4. Len(tree) + 1 \in DOMAIN tree'
    BY <1>0, <2>3
  <2>5. /\ open' \in Seq(Nat) /\ Len(open') = Len(open) + 1
        /\ \A i \in 1 .. Len(open) : open'[i] = open[i]
        /\ open'[Len(open) + 1] = Len(tree) + 1
    BY <1>0, <1>c, <2>1, AppendProperties
  <2>6. ASSUME NEW i \in 1 .. Len(open') PROVE open'[i] \in DOMAIN tree'
    <3>1. i = Len(open) + 1 \/ i \in 1 .. Len(open)
      BY <1>c, <2>5, <2>6
    <3> QED
      BY <1>a, <1>c, <2>4, <2>5, <3>1
  <2>7. ASSUME NEW i \in 2 .. Len(open') PROVE tree'[open'[i]].parent = open'[i - 1]
    <3>1. CASE i = Len(open) + 1
      <4>1. open'[i - 1] = open[Len(open)]
        BY <1>c, <2>5, <3>1
      <4> QED
        BY <1>b, <2>3, <2>5, <3>1, <4>1
    <3>2. CASE i \in 2 .. Len(open)
      <4>1. i - 1 \in 1 .. Len(open) /\ i \in 1 .. Len(open)
        BY <1>c, <3>2
      <4>2. open[i] \in DOMAIN tree /\ tree[open[i]].parent = open[i - 1]
        BY <1>c, <3>2, <4>1
      <4> QED
        BY <1>a, <2>5, <4>1, <4>2
    <3> QED
      BY <1>c, <2>5, <2>7, <3>1, <3>2
  <2>8. Len(open') >= 1 /\ open'[1] = 1
    BY <1>c, <2>5
  <2> QED
    BY <2>5, <2>6, <2>7, <2>8 DEF OpenChain
<1>3. CASE WriteClose
  <2>1. /\ open' = SubSeq(open, 1, Len(open) - 1) /\ Len(open) > 1
    BY <1>3 DEF WriteClose
  <2>2. /\ open' \in Seq(Nat) /\ Len(open') = Len(open) - 1
        /\ \A i \in 1 .. Len(open) - 1 : open'[i] = open[i]
    BY <1>c, <2>1
  <2>3. \A i \in 1 .. Len(open') : open'[i] \in DOMAIN tree'
    <3>1. \A i \in 1 .. Len(open') : i \in 1 .. Len(open) - 1 /\ i \in 1 .. Len(open)
      BY <1>c, <2>2
    <3> QED
      BY <1>a, <1>c, <2>2, <3>1
  <2>4. \A i \in 2 .. Len(open') : tree'[open'[i]].parent = open'[i - 1]
    <3>1. \A i \in 2 .. Len(open') :
              /\ i \in 2 .. Len(open) /\ i \in 1 .. Len(open) - 1 /\ i - 1 \in 1 .. Len(open) - 1
              /\ i \in 1 .. Len(open)
      BY <1>c, <2>2
    <3> QED
      BY <1>a, <1>c, <2>2, <3>1
  <2> QED
    BY <1>c, <2>1, <2>2, <2>3, <2>4 DEF OpenChain
<1>4. ASSUME NEW s \in Strings, WriteKey(s) \/ WriteName(s) \/ WriteValue(s) PROVE open' = open
  BY <1>4 DEF WriteKey, WriteName, WriteValue
<1> QED
  BY <1>1, <1>2, <1>3, <1>4 DEF FileNext, WriteLineEnd, WriteComment, WriteComma, WriteAssign,
     WriteSemicolon, WriteEnd, allvars, writer

LEMMA StepKeepsPlace ==
    ASSUME FileInv, [FileNext]_allvars, ~bare'
    PROVE  InStep'
<1>0. /\ ParserInv /\ WriterTypes /\ at' \in Places
  BY StepKeepsWriter DEF FileInv, WriterTypes
<1>1. /\ ~error /\ ~wild /\ block = Here
      /\ at = "item" => state = "none"
      /\ at \in {"key", "name", "name,"} => state = "name"
      /\ at \in {"=", "value", "value,"} => state = "value"
      /\ set <=> at \in {"name", "value"}
      /\ state = "name" => key = wkey /\ name = wnames
  BY <1>0, StateAt DEF FileInv
<1>2. state = "none" => name = <<>>
  BY InvParts DEF FileInv, Readings
<1>3. CASE WriteLineEnd \/ WriteComment
  <2>1. UNCHANGED <<error, wild, block, open, at, wkey, wnames, state, set, name>>
    BY <1>3 DEF WriteLineEnd, WriteComment, Newline, EmptyLine, Comment, AddComment, NewItem,
       reading, writer
  <2>2. state = "name" => key' = key
    BY <1>3, WhatIsRead DEF Newline, reading
  <2> QED
    BY <1>0, <1>1, <2>1, <2>2, StateAtNext DEF Here
<1>4. ASSUME NEW s \in Strings, WriteKey(s) PROVE InStep'
  <2>1. /\ UNCHANGED <<error, wild, block, open>>
        /\ at' = "key" /\ state' = "name" /\ ~set'
        /\ key' = s /\ wkey' = s /\ name' = <<>> /\ wnames' = <<>>
    BY <1>2, <1>4, WhatIsRead DEF WriteKey, ReadKey
  <2> QED
    BY <1>0, <1>1, <2>1, StateAtNext DEF Here
<1>5. ASSUME NEW s \in Strings, WriteName(s) PROVE InStep'
  <2>1. /\ UNCHANGED <<error, wild, block, open, state, key, wkey>>
        /\ at' = "name" /\ state = "name" /\ set'
        /\ name' = Append(name, s) /\ wnames' = Append(wnames, s)
    BY <1>5, WhatIsRead DEF WriteName, ReadName
  <2> QED
    BY <1>0, <1>1, <2>1, StateAtNext DEF Here
<1>6. ASSUME NEW s \in Strings, WriteValue(s) PROVE InStep'
  <2>1. /\ UNCHANGED <<error, wild, block, open, state>>
        /\ at' = "value" /\ state = "value" /\ set'
    BY <1>6, WhatIsRead DEF WriteValue, ReadValue
  <2> QED
    BY <1>0, <1>1, <2>1, StateAtNext DEF Here
<1>7. CASE WriteComma
  <2>1. /\ UNCHANGED <<wild, block, open, state, key, wkey, name, wnames>>
        /\ at' = IF at = "value" THEN "value," ELSE "name,"
        /\ at \in {"key", "name", "value"}
        /\ ~set' /\ ~error'
    BY <1>1, <1>7 DEF WriteComma, Comma
  <2> QED
    BY <1>0, <1>1, <2>1, StateAtNext DEF Here
<1>8. CASE WriteOpen
  <2>1. /\ UNCHANGED <<error, wild>>
        /\ at' = "item" /\ state' = "none" /\ ~set'
        /\ block' = Len(tree) + 1 /\ open' = Append(open, Len(opened) + 2)
    BY <1>8, WhatIsRead DEF WriteOpen, OpenBlock, ResetState
  <2>2. /\ Len(tree) = Len(opened) + 1 /\ Len(opened) \in Nat
        /\ open \in Seq(Nat)
    BY DEF FileInv, OpenChain, WriterTypes
  <2>3. block' = Here'
    BY <2>1, <2>2, AppendProperties DEF Here
  <2> QED
    BY <1>0, <1>1, <2>1, <2>3, StateAtNext
<1>9. CASE WriteClose
  <2>1. /\ UNCHANGED <<error, wild, at>> /\ at = "item" /\ Len(open) > 1
        /\ block' = tree[block].parent /\ open' = SubSeq(open, 1, Len(open) - 1)
        /\ tree[block].parent = open[Len(open) - 1]
    BY <1>9, WhatIsRead DEF WriteClose, CloseBlock
  <2>2. state' = "none" /\ ~set'
    BY <1>1, <1>9, WhatIsRead DEF WriteClose, CloseBlock, ResetState, reading
  <2>3. open \in Seq(Nat)
    BY DEF FileInv, OpenChain
  <2>4. block' = Here'
    BY <2>1, <2>3 DEF Here
  <2> QED
    BY <1>0, <1>1, <2>1, <2>2, <2>4, StateAtNext
<1>10. CASE WriteAssign
  <2>1. /\ UNCHANGED <<error, wild, block, open>>
        /\ at' = "=" /\ state' = "value" /\ ~set'
    BY <1>10, WhatIsRead DEF WriteAssign, AssignAgain, AssignNew, AssignStarts
  <2> QED
    BY <1>0, <1>1, <2>1, StateAtNext DEF Here
<1>11. CASE WriteSemicolon
  <2>1. /\ UNCHANGED <<error, wild, block, open>>
        /\ at' = "item" /\ state' = "none" /\ ~set'
    BY <1>11 DEF WriteSemicolon, Semicolon, ResetState
  <2> QED
    BY <1>0, <1>1, <2>1, StateAtNext DEF Here
<1>12. CASE WriteEnd \/ UNCHANGED allvars
  <2>1. UNCHANGED <<error, wild, block, open, at, state, set, key, wkey, name, wnames>>
    BY <1>12 DEF WriteEnd, EndOfFile, allvars, vars, reading, writer
  <2> QED
    BY <1>0, <1>1, <2>1, StateAtNext DEF Here
<1> QED
  BY <1>3, <1>4, <1>5, <1>6, <1>7, <1>8, <1>9, <1>10, <1>11, <1>12 DEF FileNext

LEMMA StepKeepsOption ==
    ASSUME FileInv, [FileNext]_allvars, ~bare'
    PROVE  OptionAtHand'
<1>0. ParserInv /\ [Next]_vars /\ NULL \notin Nat \X Nat
  BY FileSteps, StringsAssumption DEF FileInv
<1>1. ASSUME state' = "value", state = "value", UNCHANGED <<block, current_item, wkey>>
      PROVE  OptionAtHand'
  <2>1. /\ current_item # NULL
        /\ current_item[1] = block /\ current_item[2] \in DOMAIN tree[block].items
        /\ tree[block].items[current_item[2]].type = "value"
        /\ tree[block].items[current_item[2]].key = wkey
    BY <1>1 DEF FileInv, OptionAtHand, Current
  <2>2. Kept(block)
    BY <1>0, HereIsBlock, AllKept
  <2>3. /\ current_item[2] \in DOMAIN tree'[block].items
        /\ tree'[block].items[current_item[2]].type = "value"
        /\ tree'[block].items[current_item[2]].key = wkey
    BY <2>1, <2>2 DEF Kept
  <2> QED
    BY <1>1, <2>1, <2>3 DEF OptionAtHand, Current
<1>2. CASE WriteAssign
  <2>1. state = "name" /\ key = wkey /\ wkey' = wkey /\ block' = block
    BY <1>2, WhatIsRead, StateAt DEF WriteAssign, AssignAgain, AssignNew, AssignStarts, FileInv
  <2>2. /\ block \in DOMAIN tree /\ block \in Nat /\ Len(tree[block].items) \in Nat
        /\ DOMAIN tree[block].items = 1 .. Len(tree[block].items)
        /\ tree[block].items \in Seq(ItemRecords)
    BY <1>0, HereIsBlock, BlockTypes
  <2>3. CASE AssignAgain
    <3>1. /\ tree' = tree /\ current_item' = <<block, First(Found)>> /\ Found # {}
      BY <2>3 DEF AssignAgain
    <3>2. First(Found) \in Found
      <4>1. Found \subseteq 1 .. Len(tree[block].items) /\ Found \subseteq Nat
        BY <2>2 DEF Found, Items
      <4>2. \E n \in Found : \A m \in Found : n <= m
        BY <3>1, <4>1, LeastIn
      <4> QED
        BY <4>2 DEF First
    <3>3. First(Found) \in Nat
      BY <2>2, <3>2 DEF Found, Items
    <3> QED
      BY <1>0, <2>1, <2>2, <3>1, <3>2, <3>3 DEF OptionAtHand, Current, Found, Items
  <2>4. CASE AssignNew
    <3> DEFINE item == Item("value", key, <<>>)
               n == Len(tree[block].items) + 1
    <3>1. key \in Strings /\ item.type = "value" /\ item.key = key
      BY <2>1, NothingFollowed DEF Item
    <3>2. item \in ItemRecords
      <4>1. <<>> \in Seq(Strings)
        OBVIOUS
      <4> QED
        BY <3>1, <4>1 DEF Item, ItemRecords
    <3> HIDE DEF item
    <3>3. /\ tree' = [tree EXCEPT ![block].items = Append(tree[block].items, item)]
          /\ current_item' = <<block, n>>
      BY <1>0, <2>4, HereIsBlock DEF AssignNew, NewItem, item
    <3>4. Linked(item)
      <4>1. item.value = <<>>
        BY DEF item, Item
      <4> QED
        BY <3>1, <3>2, <3>3, <4>1 DEF Linked
    <3>5. tree'[block].items = Append(tree[block].items, item)
      BY <1>0, <3>4, AfterLinked
    <3>6. n \in DOMAIN tree'[block].items /\ tree'[block].items[n] = item
      BY <2>2, <3>2, <3>5, AppendProperties
    <3> QED
      BY <1>0, <2>1, <2>2, <3>1, <3>3, <3>6 DEF OptionAtHand, Current
  <2> QED
    BY <1>2, <2>3, <2>4, WhatIsRead
<1>3. CASE WriteLineEnd \/ WriteComment
  <2>1. CASE state = "none"
    <3>1. state' = state
      BY <1>3 DEF WriteLineEnd, WriteComment, Newline, EmptyLine, Comment, AddComment, reading
    <3> QED
      BY <2>1, <3>1 DEF OptionAtHand
  <2>2. CASE state # "none"
    <3>1. UNCHANGED <<state, block, current_item, wkey>>
      BY <1>3, <2>2, WhatIsRead DEF WriteLineEnd, WriteComment, Newline, reading, writer
    <3> QED
      BY <1>1, <3>1 DEF OptionAtHand
  <2> QED
    BY <2>1, <2>2
<1>4. ASSUME NEW s \in Strings, WriteKey(s) \/ WriteName(s) PROVE OptionAtHand'
  <2>1. state' = "name"
    BY <1>4, WhatIsRead DEF ReadKey, ReadName
  <2> QED
    BY <2>1 DEF OptionAtHand
<1>5. ASSUME NEW s \in Strings, WriteValue(s) PROVE OptionAtHand'
  <2>1. state = "value" /\ UNCHANGED <<state, block, current_item, wkey>>
    BY <1>5, WhatIsRead DEF WriteValue, ReadValue
  <2> QED
    BY <1>1, <2>1
<1>6. CASE WriteComma \/ WriteEnd \/ UNCHANGED allvars
  <2>1. UNCHANGED <<state, block, current_item, wkey>>
    BY <1>6 DEF WriteComma, Comma, WriteEnd, EndOfFile, allvars, vars, reading, writer
  <2> QED
    BY <1>1, <2>1 DEF OptionAtHand
<1>7. CASE WriteOpen \/ WriteClose \/ WriteSemicolon
  <2>1. state' = "none"
    BY <1>7, WhatIsRead DEF WriteSemicolon, OpenBlock, CloseBlock, Semicolon, ResetState, reading
  <2> QED
    BY <2>1 DEF OptionAtHand
<1> QED
  BY <1>2, <1>3, <1>4, <1>5, <1>6, <1>7 DEF FileNext

-----------------------------------------------------------------------------
(* A sequence with an element more, position by position.                  *)
LEMMA AppendView ==
    ASSUME NEW S, NEW q \in Seq(S), NEW e \in S
    PROVE  /\ DOMAIN Append(q, e) = DOMAIN q \cup {Len(q) + 1}
           /\ Append(q, e)[Len(q) + 1] = e
           /\ \A m \in DOMAIN q : Append(q, e)[m] = q[m]
           /\ Len(q) + 1 \notin DOMAIN q
<1>1. DOMAIN q = 1 .. Len(q) /\ Len(q) \in Nat
  OBVIOUS
<1>2. Append(q, e) \in Seq(S) /\ Len(Append(q, e)) = Len(q) + 1
  OBVIOUS
<1>3. DOMAIN Append(q, e) = 1 .. Len(q) + 1
  BY <1>1, <1>2
<1> QED
  BY <1>1, <1>3, AppendProperties

(* The three changes of the tree, item by item.                            *)
LEMMA LinkedView ==
    ASSUME ParserInv, NEW item, Linked(item)
    PROVE  LET n == Len(tree[block].items) + 1
           IN  /\ DOMAIN tree' = DOMAIN tree /\ block \in DOMAIN tree
               /\ \A b \in DOMAIN tree :
                      /\ tree'[b].parent = tree[b].parent /\ tree'[b].name = tree[b].name
                      /\ b # block => tree'[b] = tree[b]
               /\ DOMAIN tree'[block].items = DOMAIN tree[block].items \cup {n}
               /\ tree'[block].items[n] = item
               /\ \A m \in DOMAIN tree[block].items :
                      m \in Nat /\ m < n /\ tree'[block].items[m] = tree[block].items[m]
<1>1. /\ block \in DOMAIN tree /\ tree \in Seq(Blocks)
      /\ tree[block].items \in Seq(ItemRecords) /\ Len(tree[block].items) \in Nat
      /\ DOMAIN tree[block].items = 1 .. Len(tree[block].items)
  BY HereIsBlock, BlockTypes DEF ParserInv
<1>2. /\ tree' \in Seq(Blocks) /\ Len(tree') = Len(tree)
      /\ tree'[block].items = Append(tree[block].items, item) /\ item \in ItemRecords
  BY AfterLinked DEF Linked
<1>3. DOMAIN tree' = DOMAIN tree
  BY <1>1, <1>2
<1>4. LET n == Len(tree[block].items) + 1
      IN  /\ DOMAIN tree'[block].items = DOMAIN tree[block].items \cup {n}
          /\ tree'[block].items[n] = item
          /\ \A m \in DOMAIN tree[block].items :
                 m \in Nat /\ m < n /\ tree'[block].items[m] = tree[block].items[m]
  BY <1>1, <1>2, AppendProperties
<1> QED
  BY <1>1, <1>3, <1>4, AfterLinked

LEMMA OpenedView ==
    ASSUME ParserInv, NEW names, Opened(names)
    PROVE  LET n == Len(tree[block].items) + 1
               new == Len(tree) + 1
           IN  /\ DOMAIN tree' = DOMAIN tree \cup {new} /\ block \in DOMAIN tree
               /\ \A b \in DOMAIN tree :
                      /\ b \in Nat /\ b < new
                      /\ tree'[b].parent = tree[b].parent /\ tree'[b].name = tree[b].name
                      /\ b # block => tree'[b] = tree[b]
               /\ tree'[new].parent = block /\ tree'[new].name = names
               /\ DOMAIN tree'[new].items = {}
               /\ DOMAIN tree'[block].items = DOMAIN tree[block].items \cup {n}
               /\ tree'[block].items[n].type = "block" /\ tree'[block].items[n].key = key
               /\ tree'[block].items[n].value = new
               /\ \A m \in DOMAIN tree[block].items :
                      m \in Nat /\ m < n /\ tree'[block].items[m] = tree[block].items[m]
<1> DEFINE item == Item("block", key, Len(tree) + 1)
           n == Len(tree[block].items) + 1
           new == Len(tree) + 1
<1>1. /\ block \in DOMAIN tree /\ tree \in Seq(Blocks) /\ Len(tree) \in Nat
      /\ tree[block].items \in Seq(ItemRecords) /\ Len(tree[block].items) \in Nat
      /\ DOMAIN tree[block].items = 1 .. Len(tree[block].items)
  BY HereIsBlock, BlockTypes DEF ParserInv
<1>2. /\ item \in ItemRecords /\ item.type = "block" /\ item.key = key /\ item.value = new
  BY <1>1, InvParts DEF Readings, Item, ItemRecords
<1>3. /\ tree' \in Seq(Blocks) /\ Len(tree') = new
      /\ tree'[block].items = Append(tree[block].items, item)
      /\ tree'[new] = Block(block, names)
  BY AfterOpened
<1> HIDE DEF item
<1>4. DOMAIN tree' = DOMAIN tree \cup {new} /\ \A b \in DOMAIN tree : b \in Nat /\ b < new
  BY <1>1, <1>3
<1>5. /\ DOMAIN tree'[block].items = DOMAIN tree[block].items \cup {n}
      /\ tree'[block].items[n] = item
      /\ \A m \in DOMAIN tree[block].items :
             m \in Nat /\ m < n /\ tree'[block].items[m] = tree[block].items[m]
  BY <1>1, <1>2, <1>3, AppendProperties
<1>6. tree'[new].parent = block /\ tree'[new].name = names /\ DOMAIN tree'[new].items = {}
  BY <1>3 DEF Block
<1> QED
  BY <1>1, <1>2, <1>4, <1>5, <1>6, AfterOpened

LEMMA ValuedView ==
    ASSUME ParserInv, NEW a, NEW n, NEW s, Valued(a, n, s)
    PROVE  /\ DOMAIN tree' = DOMAIN tree /\ a \in DOMAIN tree
           /\ \A b \in DOMAIN tree :
                  /\ tree'[b].parent = tree[b].parent /\ tree'[b].name = tree[b].name
                  /\ DOMAIN tree'[b].items = DOMAIN tree[b].items
                  /\ \A m \in DOMAIN tree[b].items :
                         /\ tree'[b].items[m].type = tree[b].items[m].type
                         /\ tree'[b].items[m].key = tree[b].items[m].key
                         /\ b # a \/ m # n => tree'[b].items[m].value = tree[b].items[m].value
           /\ n \in DOMAIN tree[a].items /\ tree[a].items[n].type = "value" /\ s \in Strings
           /\ tree'[a].items[n].value = Append(tree[a].items[n].value, s)
<1>1. /\ tree \in Seq(Blocks) /\ tree' \in Seq(Blocks) /\ Len(tree') = Len(tree)
      /\ Len(tree'[a].items) = Len(tree[a].items)
  BY AfterValued DEF ParserInv
<1>2. DOMAIN tree' = DOMAIN tree
  BY <1>1
<1>3. /\ a \in DOMAIN tree /\ n \in DOMAIN tree[a].items /\ s \in Strings
      /\ tree[a].items[n].type = "value"
  BY DEF Valued
<1>4. DOMAIN tree'[a].items = DOMAIN tree[a].items
  <2>1. tree'[a] \in Blocks /\ tree[a] \in Blocks
    BY <1>1, <1>2, <1>3
  <2>2. tree'[a].items \in Seq(ItemRecords) /\ tree[a].items \in Seq(ItemRecords)
    BY <2>1 DEF Blocks
  <2> QED
    BY <1>1, <2>2
<1>5. \A b \in DOMAIN tree : DOMAIN tree'[b].items = DOMAIN tree[b].items
  BY <1>4, AfterValued
<1> QED
  BY <1>2, <1>3, <1>5, AfterValued

(* Only comments are without a key, also where a comma has been left out:  *)
(* a comment or an empty line stands between two items, where no key is at *)
(* hand.                                                                   *)
KeyInv ==
    /\ ParserInv
    /\ ItemShape
    /\ state = "name" => key \in Strings
    /\ at = "item" /\ ~error => state = "none"

Keyed ==
    \/ tree' = tree
    \/ \E item : Linked(item) /\ ((item.type = "comment") <=> (item.key = NULL))
    \/ key \in Strings /\ \E names : Opened(names)
    \/ \E b, n, s : Valued(b, n, s)

LEMMA KeyedEffects ==
    ASSUME KeyInv, [FileNext]_allvars
    PROVE  Keyed
<1>0. ParserInv /\ NULL \notin Strings /\ (state = "none" => key = NULL)
  BY StringsAssumption, InvParts DEF KeyInv, Readings
<1>1. ASSUME NEW text \in {NULL, "text"}, AddComment(text), state = "none" PROVE Keyed
  <2> DEFINE item == Item("comment", key, text)
  <2>1. item \in ItemRecords /\ item.type = "comment" /\ item.key = NULL
    BY <1>0, <1>1, InvParts DEF Readings, Item, ItemRecords
  <2>2. tree' = [tree EXCEPT ![block].items = Append(tree[block].items, item)]
    BY <1>0, <1>1, HereIsBlock DEF AddComment, NewItem
  <2> HIDE DEF item
  <2>3. Linked(item)
    BY <2>1, <2>2 DEF Linked
  <2> QED
    BY <2>1, <2>3 DEF Keyed
<1>2. CASE WriteLineEnd \/ WriteComment
  <2>1. Newline \/ (EmptyLine /\ state = "none") \/ (Comment /\ state = "none")
    BY <1>2 DEF WriteLineEnd, WriteComment, EmptyLine, Comment, Token, KeyInv
  <2>2. CASE Newline
    BY <2>2 DEF Newline, Keyed
  <2> QED
    BY <1>1, <2>1, <2>2 DEF EmptyLine, Comment
<1>3. ASSUME NEW s \in Strings, ReadString(s) PROVE Keyed
  <2>1. CASE ReadValue(s)
    <3>1. current_item # NULL
      BY <1>0, <2>1 DEF ReadValue, ParserInv, TypeOK
    <3>2. Valued(current_item[1], current_item[2], s)
      BY <1>0, <2>1, <3>1 DEF ReadValue, ParserInv, TypeOK, Valued, Current
    <3> QED
      BY <3>2 DEF Keyed
  <2> QED
    BY <1>3, <2>1 DEF ReadString, ReadKey, ReadName, ReadValueIntoComment, SecondName, Wild,
       Fail, Keyed
<1>4. CASE WriteOpen
  <2>1. CASE OpenBlock
    <3>1. key \in Strings
      BY <2>1 DEF OpenBlock, KeyInv
    <3>2. Opened(IF name = <<>> THEN <<EmptyString>> ELSE name)
      BY <1>0, <2>1, HereIsBlock, NamesOfBlock DEF OpenBlock, Opened
    <3> QED
      BY <3>1, <3>2 DEF Keyed
  <2>2. CASE OpenNothing
    BY <2>2 DEF OpenNothing, Fail, Keyed
  <2> QED
    BY <1>4, <2>1, <2>2 DEF WriteOpen
<1>5. CASE WriteAssign
  <2>1. CASE AssignNew
    <3> DEFINE item == Item("value", key, <<>>)
    <3>1. key \in Strings /\ NewItem(item)
      BY <2>1 DEF AssignNew, AssignStarts, KeyInv
    <3>2. item.type = "value" /\ item.key = key /\ item.value = <<>>
      BY DEF Item
    <3>3. item \in ItemRecords
      <4>1. <<>> \in Seq(Strings)
        OBVIOUS
      <4> QED
        BY <3>1, <4>1 DEF Item, ItemRecords
    <3>4. tree' = [tree EXCEPT ![block].items = Append(tree[block].items, item)]
      BY <1>0, <3>1, HereIsBlock DEF NewItem
    <3> HIDE DEF item
    <3>5. Linked(item)
      BY <3>2, <3>3, <3>4 DEF Linked
    <3> QED
      BY <1>0, <3>1, <3>2, <3>5 DEF Keyed
  <2> QED
    BY <1>5, <2>1 DEF WriteAssign, AssignAgain, AssignFollowsNull, AssignNothing, Wild, Fail, Keyed
<1>6. CASE WriteComma \/ WriteClose \/ WriteSemicolon \/ WriteEnd \/ UNCHANGED allvars
  BY <1>6 DEF WriteComma, Comma, WriteClose, CloseBlock, CloseNothing, WriteSemicolon, Semicolon,
     WriteEnd, EndOfFile, allvars, vars, Keyed
<1> QED
  BY <1>2, <1>3, <1>4, <1>5, <1>6 DEF FileNext, WriteKey, WriteName, WriteValue

LEMMA KeyedShape ==
    ASSUME ParserInv, ItemShape, Keyed
    PROVE  ItemShape'
<1>0. NULL \notin Strings
  BY StringsAssumption
<1>1. ASSUME NEW item, Linked(item), (item.type = "comment") <=> (item.key = NULL)
      PROVE  ItemShape'
  <2>1. ASSUME NEW b \in DOMAIN tree', NEW n \in DOMAIN tree'[b].items
        PROVE  (tree'[b].items[n].type = "comment") <=> (tree'[b].items[n].key = NULL)
    BY <1>1, <2>1, LinkedView DEF ItemShape
  <2> QED
    BY <2>1 DEF ItemShape
<1>2. ASSUME key \in Strings, NEW names, Opened(names)
      PROVE  ItemShape'
  <2>1. ASSUME NEW b \in DOMAIN tree', NEW n \in DOMAIN tree'[b].items
        PROVE  (tree'[b].items[n].type = "comment") <=> (tree'[b].items[n].key = NULL)
    <3>1. CASE b \in DOMAIN tree /\ n \in DOMAIN tree[b].items
      <4>1. tree'[b].items[n] = tree[b].items[n]
        BY <1>2, <3>1, OpenedView
      <4> QED
        BY <3>1, <4>1 DEF ItemShape
    <3>2. CASE ~(b \in DOMAIN tree /\ n \in DOMAIN tree[b].items)
      <4>1. tree'[b].items[n].type = "block" /\ tree'[b].items[n].key = key
        BY <1>2, <2>1, <3>2, OpenedView
      <4> QED
        BY <1>0, <1>2, <4>1
    <3> QED
      BY <3>1, <3>2
  <2> QED
    BY <2>1 DEF ItemShape
<1>3. ASSUME NEW b, NEW n, NEW s, Valued(b, n, s) PROVE ItemShape'
  BY <1>3, ValuedView DEF ItemShape
<1>4. CASE tree' = tree
  BY <1>4 DEF ItemShape
<1> QED
  BY <1>1, <1>2, <1>3, <1>4 DEF Keyed

LEMMA StepKeepsKeyed ==
    ASSUME KeyInv, [FileNext]_allvars
    PROVE  KeyInv'
<1>1. ParserInv' /\ ItemShape'
  BY FileSteps, StepKeepsTypes, KeyedEffects, KeyedShape DEF KeyInv
<1>2. CASE WriteLineEnd \/ WriteComment
  <2>1. UNCHANGED <<state, error, at>> /\ (state = "name" => key' = key)
    BY <1>2 DEF WriteLineEnd, WriteComment, Newline, EmptyLine, Comment, AddComment, Token,
       reading, writer, KeyInv
  <2> QED
    BY <1>1, <2>1 DEF KeyInv
<1>3. ASSUME NEW s \in Strings, WriteKey(s) \/ WriteName(s) \/ WriteValue(s) PROVE KeyInv'
  <2>1. ReadString(s) /\ at' # "item"
    BY <1>3 DEF WriteKey, WriteName, WriteValue
  <2>2. state' = "name" => key' \in Strings
    BY <2>1 DEF ReadString, ReadKey, ReadName, ReadValue, ReadValueIntoComment, SecondName, Wild,
       Fail, reading, KeyInv
  <2> QED
    BY <1>1, <2>1, <2>2 DEF KeyInv
<1>4. CASE WriteOpen
  <2>1. state' = "none" \/ (error' /\ UNCHANGED <<key, state>>)
    BY <1>4 DEF WriteOpen, OpenBlock, OpenNothing, ResetState, Fail, reading
  <2> QED
    BY <1>1, <2>1 DEF KeyInv
<1>5. CASE WriteClose
  <2>1. state' = "none" \/ (error' /\ UNCHANGED <<key, state>>)
    BY <1>5 DEF WriteClose, CloseBlock, CloseNothing, ResetState, reading
  <2> QED
    BY <1>1, <2>1 DEF KeyInv
<1>6. CASE WriteAssign
  <2>1. at' # "item" /\ (state' = "value" \/ UNCHANGED <<key, state>>)
    BY <1>6 DEF WriteAssign, AssignAgain, AssignNew, AssignStarts, AssignFollowsNull,
       AssignNothing, Wild, Fail, reading
  <2> QED
    BY <1>1, <2>1 DEF KeyInv
<1>7. CASE WriteComma
  <2>1. at' # "item" /\ UNCHANGED <<key, state>>
    BY <1>7 DEF WriteComma, Comma
  <2> QED
    BY <1>1, <2>1 DEF KeyInv
<1>8. CASE WriteSemicolon
  <2>1. state' = "none"
    BY <1>8 DEF WriteSemicolon, Semicolon, ResetState
  <2> QED
    BY <1>1, <2>1 DEF KeyInv
<1>9. CASE WriteEnd \/ UNCHANGED allvars
  <2>1. UNCHANGED <<at, error, key, state>>
    BY <1>9 DEF WriteEnd, EndOfFile, allvars, vars, reading, writer
  <2> QED
    BY <1>1, <2>1 DEF KeyInv
<1> QED
  BY <1>2, <1>3, <1>4, <1>5, <1>6, <1>7, <1>8, <1>9 DEF FileNext

LEMMA StepKeepsItemShape ==
    ASSUME FileInv, [FileNext]_allvars
    PROVE  ItemShape'
<1>1. (state = "name" => key \in Strings) /\ (at = "item" => state = "none")
  BY NothingFollowed, StateAt DEF FileInv
<1>2. KeyInv
  BY <1>1 DEF FileInv, KeyInv
<1> QED
  BY <1>2, StepKeepsKeyed DEF KeyInv

(* The blocks, with their heads and in their order.                        *)
LEMMA StepKeepsHeads ==
    ASSUME FileInv, [FileNext]_allvars, ~bare'
    PROVE  HeadsMatch'
<1>0. /\ ParserInv /\ HeadsMatch /\ opened \in Seq(Heads) /\ Len(tree) = Len(opened) + 1
      /\ tree \in Seq(Blocks) /\ Len(opened) \in Nat
  BY DEF FileInv, WriterTypes, ParserInv
<1>a. \A m \in DOMAIN opened : m + 1 \in DOMAIN tree /\ m \in 1 .. Len(opened)
  BY <1>0
<1>1. ASSUME opened' = opened,
             \A b \in DOMAIN tree : tree'[b].parent = tree[b].parent /\ tree'[b].name = tree[b].name
      PROVE  HeadsMatch'
  BY <1>0, <1>1, <1>a DEF HeadsMatch
<1>2. CASE Entered
  <2> DEFINE names == IF name = <<>> THEN <<EmptyString>> ELSE name
             new == Len(tree) + 1
  <2>0. Opened(names)
    BY <1>2 DEF Entered
  <2>1. opened' = Append(opened, HeadRead) /\ HeadRead \in Heads
    <3>1. key \in Strings /\ name \in Seq(Strings) /\ block \in Nat
      BY <1>0, <1>2, HereIsBlock, BlockTypes DEF Entered, ParserInv
    <3> QED
      BY <1>2, <3>1 DEF Entered, HeadRead, Heads
  <2>2. /\ DOMAIN opened' = DOMAIN opened \cup {Len(tree)}
        /\ opened'[Len(tree)] = HeadRead
        /\ \A m \in DOMAIN opened : opened'[m] = opened[m]
    BY <1>0, <2>1, AppendView
  <2>3. tree'[new].parent = block /\ tree'[new].name = names
    BY <1>0, <2>0, OpenedView
  <2>4. \A b \in DOMAIN tree : tree'[b].parent = tree[b].parent /\ tree'[b].name = tree[b].name
    BY <1>0, <2>0, OpenedView
  <2>5. HeadRead.parent = block /\ HeadRead.names = name
    BY DEF HeadRead
  <2>6. ASSUME NEW m \in DOMAIN opened'
        PROVE  /\ tree'[m + 1].parent = opened'[m].parent
               /\ tree'[m + 1].name =
                      IF opened'[m].names = <<>> THEN <<EmptyString>> ELSE opened'[m].names
    <3>1. CASE m \in DOMAIN opened
      BY <1>0, <1>a, <2>2, <2>4, <3>1 DEF HeadsMatch
    <3>2. CASE m = Len(tree)
      BY <2>2, <2>3, <2>5, <3>2
    <3> QED
      BY <2>2, <2>6, <3>1, <3>2
  <2> QED
    BY <2>6 DEF HeadsMatch
<1>3. CASE Untouched
  BY <1>1, <1>3 DEF Untouched
<1>4. CASE Noted
  <2>1. opened' = opened /\ \E item : Linked(item)
    BY <1>4 DEF Noted
  <2> QED
    BY <1>0, <1>1, <2>1, LinkedView
<1>5. CASE Started
  <2>1. opened' = opened /\ Linked(Item("value", key, <<>>))
    BY <1>5 DEF Started
  <2> QED
    BY <1>0, <1>1, <2>1, LinkedView
<1>6. ASSUME NEW n, NEW s, Given(n, s) PROVE HeadsMatch'
  <2>1. opened' = opened /\ Valued(block, n, s)
    BY <1>6 DEF Given
  <2> QED
    BY <1>0, <1>1, <2>1, ValuedView
<1> QED
  BY <1>2, <1>3, <1>4, <1>5, <1>6, Effects

(* Where no block is hung, blocks hang where they did.                     *)
SameBlocks ==
    /\ opened' = opened
    /\ DOMAIN tree' = DOMAIN tree
    /\ \A b \in DOMAIN tree :
        /\ \A n \in DOMAIN tree[b].items :
            /\ n \in DOMAIN tree'[b].items
            /\ tree'[b].items[n].type = tree[b].items[n].type
            /\ tree[b].items[n].type = "block" =>
                /\ tree'[b].items[n].key = tree[b].items[n].key
                /\ tree'[b].items[n].value = tree[b].items[n].value
        /\ \A n \in DOMAIN tree'[b].items :
            n \notin DOMAIN tree[b].items => tree'[b].items[n].type # "block"

LEMMA BlockEffects ==
    ASSUME FileInv, [FileNext]_allvars, ~bare'
    PROVE  SameBlocks \/ Entered
<1>0. ParserInv
  BY DEF FileInv
<1>1. ASSUME NEW item, Linked(item), opened' = opened PROVE SameBlocks
  <2>1. item.type # "block"
    BY <1>1 DEF Linked
  <2> QED
    BY <1>0, <1>1, <2>1, LinkedView DEF SameBlocks
<1>2. CASE Untouched
  BY <1>2 DEF Untouched, SameBlocks
<1>3. CASE Noted \/ Started
  BY <1>1, <1>3 DEF Noted, Started
<1>4. ASSUME NEW n, NEW s, Given(n, s) PROVE SameBlocks
  <2>1. opened' = opened /\ Valued(block, n, s)
    BY <1>4 DEF Given
  <2>2. tree[block].items[n].type = "value"
    BY <2>1 DEF Valued
  <2> QED
    BY <1>0, <2>1, <2>2, ValuedView DEF SameBlocks
<1> QED
  BY <1>2, <1>3, <1>4, Effects

LEMMA StepKeepsBlocks ==
    ASSUME FileInv, [FileNext]_allvars, ~bare'
    PROVE  BlocksMatch'
<1>0. /\ ParserInv /\ BlocksMatch /\ opened \in Seq(Heads) /\ Len(tree) = Len(opened) + 1
      /\ tree \in Seq(Blocks) /\ Len(opened) \in Nat
  BY DEF FileInv, WriterTypes, ParserInv
<1>1. CASE SameBlocks
  <2>1. ASSUME NEW b \in DOMAIN tree', NEW n \in DOMAIN tree'[b].items,
               tree'[b].items[n].type = "block"
        PROVE  \E m \in DOMAIN opened' :
                   /\ tree'[b].items[n].value = m + 1
                   /\ opened'[m].parent = b /\ opened'[m].key = tree'[b].items[n].key
    <3>1. /\ b \in DOMAIN tree /\ n \in DOMAIN tree[b].items
          /\ tree[b].items[n].type = "block"
          /\ tree'[b].items[n].key = tree[b].items[n].key
          /\ tree'[b].items[n].value = tree[b].items[n].value
      BY <1>1, <2>1 DEF SameBlocks
    <3>2. PICK m \in DOMAIN opened :
              /\ tree[b].items[n].value = m + 1
              /\ opened[m].parent = b /\ opened[m].key = tree[b].items[n].key
      BY <1>0, <3>1 DEF BlocksMatch
    <3> QED
      BY <1>1, <3>1, <3>2 DEF SameBlocks
  <2>2. ASSUME NEW m \in DOMAIN opened'
        PROVE  /\ opened'[m].parent \in DOMAIN tree'
               /\ \E n \in DOMAIN tree'[opened'[m].parent].items :
                    /\ tree'[opened'[m].parent].items[n].type = "block"
                    /\ tree'[opened'[m].parent].items[n].value = m + 1
    <3>1. opened' = opened /\ m \in DOMAIN opened /\ DOMAIN tree' = DOMAIN tree
      BY <1>1, <2>2 DEF SameBlocks
    <3>2. opened[m].parent \in DOMAIN tree
      BY <1>0, <3>1 DEF BlocksMatch
    <3>3. PICK n \in DOMAIN tree[opened[m].parent].items :
              /\ tree[opened[m].parent].items[n].type = "block"
              /\ tree[opened[m].parent].items[n].value = m + 1
      BY <1>0, <3>1 DEF BlocksMatch
    <3> QED
      BY <1>1, <3>1, <3>2, <3>3 DEF SameBlocks
  <2> QED
    BY <2>1, <2>2 DEF BlocksMatch
<1>2. CASE Entered
  <2> DEFINE new == Len(tree) + 1
             last == Len(tree[block].items) + 1
  <2>1. /\ \E names : Opened(names)
        /\ opened' = Append(opened, HeadRead) /\ HeadRead \in Heads
        /\ HeadRead.parent = block /\ HeadRead.key = key
    <3>1. key \in Strings /\ name \in Seq(Strings) /\ block \in Nat
      BY <1>0, <1>2, HereIsBlock, BlockTypes DEF Entered, ParserInv
    <3> QED
      BY <1>2, <3>1 DEF Entered, HeadRead, Heads
  <2>2. /\ DOMAIN opened' = DOMAIN opened \cup {Len(tree)}
        /\ opened'[Len(tree)] = HeadRead
        /\ \A m \in DOMAIN opened : opened'[m] = opened[m]
    BY <1>0, <2>1, AppendView
  <2>3. ASSUME NEW b \in DOMAIN tree', NEW n \in DOMAIN tree'[b].items,
               tree'[b].items[n].type = "block"
        PROVE  \E m \in DOMAIN opened' :
                   /\ tree'[b].items[n].value = m + 1
                   /\ opened'[m].parent = b /\ opened'[m].key = tree'[b].items[n].key
    <3>1. CASE b = block /\ n = last
      <4>1. tree'[b].items[n].value = Len(tree) + 1 /\ tree'[b].items[n].key = key
        BY <1>0, <2>1, <3>1, OpenedView
      <4> QED
        BY <2>1, <2>2, <3>1, <4>1
    <3>2. CASE ~(b = block /\ n = last)
      <4>1. /\ b \in DOMAIN tree /\ n \in DOMAIN tree[b].items
            /\ tree'[b].items[n] = tree[b].items[n]
        BY <1>0, <2>1, <2>3, <3>2, OpenedView
      <4>2. PICK m \in DOMAIN opened :
                /\ tree[b].items[n].value = m + 1
                /\ opened[m].parent = b /\ opened[m].key = tree[b].items[n].key
        BY <1>0, <2>3, <4>1 DEF BlocksMatch
      <4> QED
        BY <2>2, <4>1, <4>2
    <3> QED
      BY <3>1, <3>2
  <2>4. ASSUME NEW m \in DOMAIN opened'
        PROVE  /\ opened'[m].parent \in DOMAIN tree'
               /\ \E n \in DOMAIN tree'[opened'[m].parent].items :
                    /\ tree'[opened'[m].parent].items[n].type = "block"
                    /\ tree'[opened'[m].parent].items[n].value = m + 1
    <3>1. CASE m = Len(tree)
      <4>1. opened'[m].parent = block
        BY <2>1, <2>2, <3>1
      <4>2. /\ block \in DOMAIN tree' /\ last \in DOMAIN tree'[block].items
            /\ tree'[block].items[last].type = "block"
            /\ tree'[block].items[last].value = Len(tree) + 1
        BY <1>0, <2>1, OpenedView
      <4> HIDE DEF last
      <4> QED
        BY <3>1, <4>1, <4>2
    <3>2. CASE m \in DOMAIN opened
      <4>1. opened'[m].parent = opened[m].parent /\ opened[m].parent \in DOMAIN tree
        BY <1>0, <2>2, <3>2 DEF BlocksMatch
      <4>2. PICK n \in DOMAIN tree[opened[m].parent].items :
                /\ tree[opened[m].parent].items[n].type = "block"
                /\ tree[opened[m].parent].items[n].value = m + 1
        BY <1>0, <3>2 DEF BlocksMatch
      <4>3. /\ opened[m].parent \in DOMAIN tree'
            /\ n \in DOMAIN tree'[opened[m].parent].items
            /\ tree'[opened[m].parent].items[n] = tree[opened[m].parent].items[n]
        BY <1>0, <2>1, <4>1, <4>2, OpenedView
      <4> QED
        BY <4>1, <4>2, <4>3
    <3> QED
      BY <2>2, <2>4, <3>1, <3>2
  <2> QED
    BY <2>3, <2>4 DEF BlocksMatch
<1> QED
  BY <1>1, <1>2, BlockEffects

(* The values, option by option.                                           *)
LEMMA StepKeepsLists ==
    ASSUME FileInv, [FileNext]_allvars, ~bare'
    PROVE  ListsMatch'
<1>0. /\ ParserInv /\ ListsMatch /\ ItemShape /\ NULL \notin Strings
      /\ written \in Seq(Tables) /\ Len(written) = Len(tree) /\ Len(tree) \in Nat
      /\ tree \in Seq(Blocks)
  BY StringsAssumption, HereIsBlock, BlockTypes DEF FileInv, WriterTypes, ParserInv
<1>a. DOMAIN tree = DOMAIN written /\ \A b \in DOMAIN tree : written[b] \in Tables
  BY <1>0
<1>b. ASSUME NEW b \in DOMAIN tree, NEW n \in DOMAIN tree[b].items,
             tree[b].items[n].type = "value"
      PROVE  tree[b].items[n].key \in Strings
  <2>1. tree[b].items[n] \in ItemRecords
    BY <1>0, BlockTypes
  <2>2. tree[b].items[n].key # NULL
    BY <1>0, <1>b DEF ItemShape
  <2> QED
    BY <2>1, <2>2 DEF ItemRecords
<1>1. CASE Untouched
  BY <1>0, <1>1 DEF Untouched, ListsMatch
<1>2. ASSUME NEW item, Linked(item), written' = written,
             item.type = "value" =>
                 item.key \in Strings /\ item.value = <<>> /\ written[block][item.key] = <<>>
      PROVE  ListsMatch'
  <2>1. ASSUME NEW b \in DOMAIN tree', NEW n \in DOMAIN tree'[b].items,
               tree'[b].items[n].type = "value"
        PROVE  tree'[b].items[n].value = written'[b][tree'[b].items[n].key]
    <3>1. CASE n \in DOMAIN tree[b].items
      <4>1. b \in DOMAIN tree /\ tree'[b].items[n] = tree[b].items[n]
        BY <1>0, <1>2, <2>1, <3>1, LinkedView
      <4> QED
        BY <1>0, <1>2, <2>1, <3>1, <4>1 DEF ListsMatch
    <3>2. CASE n \notin DOMAIN tree[b].items
      <4>1. b = block /\ tree'[b].items[n] = item
        BY <1>0, <1>2, <2>1, <3>2, LinkedView
      <4> QED
        BY <1>2, <2>1, <4>1
    <3> QED
      BY <3>1, <3>2
  <2>2. ASSUME NEW b \in DOMAIN tree', NEW k \in Strings, written'[b][k] # <<>>
        PROVE  \E n \in DOMAIN tree'[b].items :
                   tree'[b].items[n].type = "value" /\ tree'[b].items[n].key = k
    <3>1. b \in DOMAIN tree
      BY <1>0, <1>2, LinkedView
    <3>2. PICK n \in DOMAIN tree[b].items :
              tree[b].items[n].type = "value" /\ tree[b].items[n].key = k
      BY <1>0, <1>2, <2>2, <3>1 DEF ListsMatch
    <3>3. n \in DOMAIN tree'[b].items /\ tree'[b].items[n] = tree[b].items[n]
      BY <1>0, <1>2, <3>1, <3>2, LinkedView
    <3> QED
      BY <3>2, <3>3
  <2> QED
    BY <2>1, <2>2 DEF ListsMatch
<1>3. CASE Noted
  <2>1. PICK item : Linked(item) /\ item.type = "comment" /\ written' = written
    BY <1>3 DEF Noted
  <2> QED
    BY <1>2, <2>1
<1>4. CASE Started
  <2> DEFINE item == Item("value", key, <<>>)
  <2>1. /\ item.type = "value" /\ item.key = key /\ item.value = <<>>
        /\ key \in Strings /\ Linked(item) /\ written' = written
    BY <1>4 DEF Started, Item
  <2>2. written[block][key] = <<>>
    BY <1>0, <1>4, HereIsBlock DEF ListsMatch, Started, Found, Items
  <2> HIDE DEF item
  <2> QED
    BY <1>2, <2>1, <2>2
<1>5. CASE Entered
  <2> DEFINE new == Len(tree) + 1
  <2>1. \E names : Opened(names)
    BY <1>5 DEF Entered
  <2>2. /\ written'[new] = NoValues
        /\ \A b \in DOMAIN tree : written'[b] = written[b]
    <3>1. NoValues \in Tables
      <4>1. <<>> \in Seq(Strings)
        OBVIOUS
      <4> QED
        BY <4>1 DEF NoValues, Tables
    <3>2. written' = Append(written, NoValues)
      BY <1>5 DEF Entered
    <3> QED
      BY <1>0, <1>a, <3>1, <3>2, AppendView
  <2>3. \A b \in DOMAIN tree' : b \in DOMAIN tree \/ b = new
    BY <1>0, <2>1, OpenedView
  <2>4. ASSUME NEW b \in DOMAIN tree', NEW n \in DOMAIN tree'[b].items,
               tree'[b].items[n].type = "value"
        PROVE  tree'[b].items[n].value = written'[b][tree'[b].items[n].key]
    <3>1. /\ b \in DOMAIN tree /\ n \in DOMAIN tree[b].items
          /\ tree'[b].items[n] = tree[b].items[n]
      <4>1. b \in DOMAIN tree
        BY <1>0, <2>1, <2>4, OpenedView
      <4> QED
        BY <1>0, <2>1, <2>4, <4>1, OpenedView
    <3> QED
      BY <1>0, <2>2, <2>4, <3>1 DEF ListsMatch
  <2>5. ASSUME NEW b \in DOMAIN tree', NEW k \in Strings, written'[b][k] # <<>>
        PROVE  \E n \in DOMAIN tree'[b].items :
                   tree'[b].items[n].type = "value" /\ tree'[b].items[n].key = k
    <3>1. b \in DOMAIN tree
      BY <2>2, <2>3, <2>5 DEF NoValues
    <3>2. PICK n \in DOMAIN tree[b].items :
              tree[b].items[n].type = "value" /\ tree[b].items[n].key = k
      BY <1>0, <2>2, <2>5, <3>1 DEF ListsMatch
    <3>3. n \in DOMAIN tree'[b].items /\ tree'[b].items[n] = tree[b].items[n]
      BY <1>0, <2>1, <3>1, <3>2, OpenedView
    <3> QED
      BY <3>2, <3>3
  <2> QED
    BY <2>4, <2>5 DEF ListsMatch
<1>6. ASSUME NEW i, NEW s, Given(i, s) PROVE ListsMatch'
  <2> DEFINE k0 == tree[block].items[i].key
  <2>1. Valued(block, i, s) /\ k0 \in Strings
    BY <1>6 DEF Given
  <2>2. /\ block \in DOMAIN tree /\ i \in DOMAIN tree[block].items
        /\ tree[block].items[i].type = "value" /\ s \in Strings
        /\ tree'[block].items[i].value = Append(tree[block].items[i].value, s)
    BY <1>0, <2>1, ValuedView
  <2>3. \A b \in DOMAIN tree, k \in Strings :
            written'[b][k] = IF b = block /\ k = k0 THEN Append(written[b][k], s)
                                                    ELSE written[b][k]
    <3>1. written' = [written EXCEPT ![block][k0] = Append(@, s)]
      BY <1>6 DEF Given
    <3> QED
      BY <1>0, <1>a, <2>1, <2>2, <3>1 DEF Tables
  <2>4. ASSUME NEW b \in DOMAIN tree', NEW n \in DOMAIN tree'[b].items,
               tree'[b].items[n].type = "value"
        PROVE  tree'[b].items[n].value = written'[b][tree'[b].items[n].key]
    <3>1. /\ b \in DOMAIN tree /\ n \in DOMAIN tree[b].items
          /\ tree[b].items[n].type = "value"
          /\ tree'[b].items[n].key = tree[b].items[n].key
          /\ b # block \/ n # i => tree'[b].items[n].value = tree[b].items[n].value
      BY <1>0, <2>1, <2>4, ValuedView
    <3>2. /\ tree[b].items[n].value = written[b][tree[b].items[n].key]
          /\ tree[b].items[n].key \in Strings
      BY <1>0, <1>b, <3>1 DEF ListsMatch
    <3>3. CASE b = block /\ n = i
      BY <2>2, <2>3, <3>1, <3>2, <3>3
    <3>4. CASE ~(b = block /\ n = i)
      <4>1. ~(b = block /\ tree[b].items[n].key = k0)
        BY <2>2, <3>1, <3>4 DEF FileInv, OneItemPerKey
      <4> QED
        BY <2>3, <3>1, <3>2, <3>4, <4>1
    <3> QED
      BY <3>3, <3>4
  <2>5. ASSUME NEW b \in DOMAIN tree', NEW k \in Strings, written'[b][k] # <<>>
        PROVE  \E n \in DOMAIN tree'[b].items :
                   tree'[b].items[n].type = "value" /\ tree'[b].items[n].key = k
    <3>1. b \in DOMAIN tree
      BY <1>0, <2>1, ValuedView
    <3>2. PICK n \in DOMAIN tree[b].items :
              tree[b].items[n].type = "value" /\ tree[b].items[n].key = k
      <4>1. CASE b = block /\ k = k0
        BY <2>2, <4>1
      <4>2. CASE ~(b = block /\ k = k0)
        BY <1>0, <2>3, <2>5, <3>1, <4>2 DEF ListsMatch
      <4> QED
        BY <4>1, <4>2
    <3> QED
      BY <1>0, <2>1, <3>1, <3>2, ValuedView
  <2> QED
    BY <2>4, <2>5 DEF ListsMatch
<1> QED
  BY <1>1, <1>3, <1>4, <1>5, <1>6, Effects

-----------------------------------------------------------------------------
LEMMA InitFile ==
    ASSUME FileInit
    PROVE  FileInv
<1>1. ParserInv
  BY InitIsTyped DEF FileInit
<1>2. /\ tree = <<Root>> /\ Root.items = <<>> /\ block = 1 /\ state = "none"
      /\ ~error /\ ~wild /\ ~set
      /\ at = "item" /\ wnames = <<>> /\ open = <<1>> /\ opened = <<>> /\ written = <<NoValues>>
  BY DEF FileInit, Init, WriterInit, Root, Block
<1>3. DOMAIN tree = {1} /\ Len(tree) = 1 /\ DOMAIN tree[1].items = {} /\ DOMAIN opened = {}
  BY <1>2
<1>4. WriterTypes
  <2>1. <<>> \in Seq(Strings) /\ <<>> \in Seq(Heads)
    OBVIOUS
  <2>2. NoValues \in Tables
    BY <2>1 DEF NoValues, Tables
  <2>3. <<NoValues>> \in Seq(Tables) /\ Len(<<NoValues>>) = 1
    BY <2>2
  <2> QED
    BY <1>2, <1>3, <2>1, <2>3 DEF WriterTypes, Places
<1>5. OpenChain
  BY <1>2, <1>3 DEF OpenChain
<1>6. InStep
  BY <1>2, <1>4, StateAt DEF Here
<1>7. OptionAtHand
  BY <1>2 DEF OptionAtHand
<1>8. OneItemPerKey /\ ItemShape /\ HeadsMatch /\ BlocksMatch
  BY <1>3 DEF OneItemPerKey, ItemShape, HeadsMatch, BlocksMatch
<1>9. ListsMatch
  BY <1>2, <1>3 DEF ListsMatch, NoValues
<1> QED
  BY <1>1, <1>4, <1>5, <1>6, <1>7, <1>8, <1>9 DEF FileInv

LEMMA NextFile ==
    ASSUME FileInv, [FileNext]_allvars, ~bare'
    PROVE  FileInv'
<1>1. ParserInv' /\ OneItemPerKey'
  BY FileSteps, StepKeepsTypes, StepKeepsKeys DEF FileInv
<1> QED
  BY <1>1, StepKeepsWriter, StepKeepsChain, StepKeepsPlace, StepKeepsOption, StepKeepsItemShape,
     StepKeepsHeads, StepKeepsBlocks, StepKeepsLists DEF FileInv

(* As long as no comma has been left out.                                  *)
THEOREM FileInvHolds ==
    FileSpec => [](~bare => FileInv)
<1>1. FileInit => (~bare => FileInv)
  BY InitFile
<1>2. (~bare => FileInv) /\ [FileNext]_allvars => (~bare => FileInv)'
  <2> SUFFICES ASSUME ~bare => FileInv, [FileNext]_allvars, ~bare' PROVE FileInv'
    OBVIOUS
  <2>1. ~bare
    BY DEF FileNext, WriteLineEnd, WriteComment, WriteKey, WriteName, WriteValue, WriteComma,
       WriteOpen, WriteClose, WriteAssign, WriteSemicolon, WriteEnd, allvars, writer
  <2> QED
    BY <2>1, NextFile
<1> QED
  BY <1>1, <1>2, PTL DEF FileSpec

-----------------------------------------------------------------------------
(* The files of the grammar are among the token sequences of ConfParser,   *)
(* so that what is proved of those holds of these.                         *)
THEOREM FilesAreTokens ==
    FileSpec => Spec
<1>1. FileInit => Init
  BY DEF FileInit
<1>2. [FileNext]_allvars => [Next]_vars
  BY FileSteps
<1> QED
  BY <1>1, <1>2, PTL DEF FileSpec, Spec

(* nfcconf_parse_token() reads a file that follows the grammar, with a     *)
(* comma between any two names and any two values, without an error and    *)
(* without following a null pointer, and knows at each token where in a    *)
(* statement it is.                                                        *)
THEOREM GrammarAccepted ==
    FileSpec => []Accepted
<1>1. (~bare => FileInv) => Accepted
  BY DEF FileInv, Accepted
<1> QED
  BY <1>1, FileInvHolds, PTL

(* An item of a file that follows the grammar, with or without its commas, *)
(* is a comment or an empty line exactly if it has no key.                 *)
THEOREM KeysKept ==
    FileSpec => []ItemShape
<1>1. FileInit => KeyInv
  BY InitFile, StateAt DEF FileInv, KeyInv, FileInit, Init
<1>2. KeyInv /\ [FileNext]_allvars => KeyInv'
  BY StepKeepsKeyed
<1>3. KeyInv => ItemShape
  BY DEF KeyInv
<1> QED
  BY <1>1, <1>2, <1>3, PTL DEF FileSpec

(* nfcconf_find_blocks() returns the blocks of the file under a key, all   *)
(* of them and in their order, and each has the parent and the names that  *)
(* were written.                                                           *)
THEOREM BlocksFound ==
    FileSpec => []BlocksAsWritten
<1>1. (~bare => FileInv) /\ Numbered => BlocksAsWritten
  <2> SUFFICES ASSUME FileInv, Numbered PROVE BlocksRead
    BY DEF BlocksAsWritten
  <2>1. Len(tree) = Len(opened) + 1
    BY DEF FileInv, WriterTypes
  <2>2. HeadsMatch /\ BlocksMatch /\ InOrder
    BY DEF FileInv, Numbered
  <2>3. ASSUME NEW b \in DOMAIN tree, NEW k \in Strings
        PROVE  {tree[b].items[n].value : n \in FindBlocks(b, k)} = MeantBlocks(b, k)
    <3>1. ASSUME NEW n \in FindBlocks(b, k) PROVE tree[b].items[n].value \in MeantBlocks(b, k)
      BY <2>2 DEF FindBlocks, MeantBlocks, BlocksMatch
    <3>2. ASSUME NEW m \in DOMAIN opened, opened[m].parent = b, opened[m].key = k
          PROVE  \E n \in FindBlocks(b, k) : tree[b].items[n].value = m + 1
      <4>1. PICK n \in DOMAIN tree[b].items :
                tree[b].items[n].type = "block" /\ tree[b].items[n].value = m + 1
        BY <2>2, <3>2 DEF BlocksMatch
      <4>2. PICK h \in DOMAIN opened : m + 1 = h + 1 /\ opened[h].key = tree[b].items[n].key
        BY <2>2, <4>1 DEF BlocksMatch
      <4>3. h = m
        <5>1. h \in Nat /\ m \in Nat
          BY DEF FileInv, WriterTypes
        <5> QED
          BY <4>2, <5>1
      <4> QED
        BY <3>2, <4>1, <4>2, <4>3 DEF FindBlocks
    <3> QED
      BY <3>1, <3>2 DEF MeantBlocks
  <2>4. ASSUME NEW b \in DOMAIN tree, NEW k \in Strings,
               NEW m \in FindBlocks(b, k), NEW n \in FindBlocks(b, k), m < n
        PROVE  tree[b].items[m].value < tree[b].items[n].value
    BY <2>2, <2>4 DEF InOrder, FindBlocks
  <2> QED
    BY <2>1, <2>2, <2>3, <2>4 DEF BlocksRead, HeadsMatch
<1> QED
  BY <1>1, FileInvHolds, FilesAreTokens, BlocksAreNumbered, PTL

(* nfcconf_find_list() returns exactly the values that the file gives to a *)
(* key in a block, in their order, in however many options they are.       *)
THEOREM ValuesFound ==
    FileSpec => []ValuesAsWritten
<1>1. (~bare => FileInv) => ValuesAsWritten
  <2> SUFFICES ASSUME FileInv, NEW b \in DOMAIN tree, NEW k \in Strings
               PROVE  FindList(b, k) = written[b][k]
    BY DEF ValuesAsWritten, ValuesRead
  <2> DEFINE found == {n \in DOMAIN tree[b].items :
                          tree[b].items[n].type = "value" /\ tree[b].items[n].key = k}
  <2>1. ListsMatch
    BY DEF FileInv
  <2>2. CASE found = {}
    <3>1. written[b][k] = <<>>
      BY <2>1, <2>2 DEF ListsMatch
    <3> QED
      BY <2>2, <3>1 DEF FindList
  <2>3. CASE found # {}
    <3>1. found \subseteq Nat
      BY BlockTypes DEF FileInv
    <3>2. First(found) \in found
      BY <2>3, <3>1, LeastIn DEF First
    <3>3. tree[b].items[First(found)].value = written[b][k]
      BY <2>1, <3>2 DEF ListsMatch
    <3> QED
      BY <2>3, <3>3 DEF FindList
  <2> QED
    BY <2>2, <2>3
<1> QED
  BY <1>1, FileInvHolds, PTL
=============================================================================
