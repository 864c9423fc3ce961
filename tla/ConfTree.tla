------------------------------ MODULE ConfTree ------------------------------
(***************************************************************************)
(* The calls of nfcconf that build, copy and destroy trees in memory       *)
(* (src/nfcconf/nfcconf.c, and nfcconf_item_add(), nfcconf_block_add() and *)
(* nfcconf_parse_string() of parse.c), in any order.  Blocks are objects   *)
(* of a heap, so that two trees could share one; a list of strings stands  *)
(* in its only place, and the empty one for the null pointer.              *)
(***************************************************************************)
EXTENDS Naturals, Sequences, FiniteSets, SequencesExt

CONSTANTS
    Keys,       \* keys that strcasecmp() tells apart
    Values,     \* the strings of names and values
    Files,      \* the heaps that nfcconf_new() and nfcconf_parse() leave
    NULL,       \* the null pointer, and what is where a freed block was
    MaxBlocks,  \* bound: the number of blocks ever allocated
    MaxCalls    \* bound: the number of calls

ASSUME BoundsAssumption == MaxBlocks \in Nat \ {0} /\ MaxCalls \in Nat

VARIABLES
    heap,   \* the blocks ever allocated, 1 is the root
    owned,  \* the copies the caller has got and not destroyed
    lost,   \* blocks that a second parse has cut off
    calls   \* the number of calls so far

treevars == <<heap, owned, lost, calls>>

(* parent is an index of the heap, or 0 for the null pointer; value is an  *)
(* index for a block item, a list for a value item, text for a comment.    *)
Items ==
    [type : {"block"}, key : Keys \cup {NULL}, value : Nat]
        \cup [type : {"value"}, key : Keys \cup {NULL}, value : Seq(STRING)]
        \cup [type : {"comment"}, key : Keys \cup {NULL}, value : STRING]
Blocks == [parent : Nat, name : Seq(STRING), items : Seq(Items)]

Block(parent, name) == [parent |-> parent, name |-> name, items |-> <<>>]
Item(type, key, value) == [type |-> type, key |-> key, value |-> value]

Live(h) == {b \in DOMAIN h : h[b] # NULL}
BlockItems(h, b) == {n \in DOMAIN h[b].items : h[b].items[n].type = "block"}
Children(h, b) == {h[b].items[n].value : n \in BlockItems(h, b)}

(* The places of a block: the items that point to it.                      *)
Places(h, b) ==
    UNION {{<<a, n>> : n \in {m \in BlockItems(h, a) : h[a].items[m].value = b}} : a \in Live(h)}

(* A block and what hangs from it.                                         *)
Below(h, b) ==
    LET below[a \in Live(h)] == {a} \cup UNION {below[c] : c \in Children(h, a)}
    IN  below[b]

ASSUME StringsAssumption == Values \cup {"", "text"} \subseteq STRING /\ NULL \notin Blocks

(* What the parser leaves is a tree (see ConfParser): each block but the   *)
(* root hangs in one place, in its parent, which was there before it.      *)
ASSUME FilesAssumption ==
    \A h \in Files :
        /\ h \in Seq(Blocks) /\ Len(h) \in 1 .. MaxBlocks /\ h[1].parent = 0
        /\ \A a \in DOMAIN h : Children(h, a) \subseteq a + 1 .. Len(h)
        /\ \A b \in 2 .. Len(h) :
            /\ h[b].parent \in DOMAIN h
            /\ \E n \in BlockItems(h, h[b].parent) : Places(h, b) = {<<h[b].parent, n>>}

-----------------------------------------------------------------------------
(* Lookups.                                                                *)
IsBlock(item, key) == item.type = "block" /\ item.key = key
IsValue(item, key) == item.type = "value" /\ item.key = key

(* nfcconf_find_blocks(); name "any" is the null pointer.                  *)
nfcconf_find_blocks(h, b, key, name) ==
    LET Fits(item) == IsBlock(item, key) /\ (name # "any" => h[item.value].name[1] = name)
        found == SelectSeq(h[b].items, Fits)
    IN  [n \in DOMAIN found |-> found[n].value]

nfcconf_find_list(h, b, key) ==
    LET found == SelectSeq(h[b].items, LAMBDA item : IsValue(item, key))
    IN  IF found = <<>> THEN <<>> ELSE found[1].value

(* nfcconf_get_str(); get_int() and get_bool() convert what it returns.    *)
nfcconf_get_str(h, b, key, def) ==
    LET list == nfcconf_find_list(h, b, key)
    IN  IF list = <<>> THEN def ELSE list[1]

-----------------------------------------------------------------------------
(* What the calls make of a heap.                                          *)

(* nfcconf_item_add_internal(): a new item goes behind the last one.       *)
LinkItem(h, b, item) == [h EXCEPT ![b].items = Append(@, item)]

(* nfcconf_item_add() with a list, and so nfcconf_put_str(): the first     *)
(* item that has the key already gets the strings behind its own.  (The    *)
(* variant puts them in place of its own.)                                 *)
AddValueReplaces(h, b, key, list) ==
    LET same == {n \in DOMAIN h[b].items : IsValue(h[b].items[n], key)}
        first == CHOOSE n \in same : \A m \in same : n <= m
    IN  IF same = {}
        THEN LinkItem(h, b, Item("value", key, list))
        ELSE [h EXCEPT ![b].items[first].value = list]

AddValue(h, b, key, list) ==
    LET same == {n \in DOMAIN h[b].items : IsValue(h[b].items[n], key)}
        first == CHOOSE n \in same : \A m \in same : n <= m
    IN  IF same = {}
        THEN LinkItem(h, b, Item("value", key, list))
        ELSE [h EXCEPT ![b].items[first].value = @ \o list]

(* A new item for a block that is already in memory.                       *)
Linked(h, b, key, child) ==
    LinkItem([h EXCEPT ![child].parent = b], b, Item("block", key, child))

(* nfcconf_block_add(): a block without a name is named "".                *)
AddNewBlock(h, b, key, name) ==
    Linked(Append(h, Block(0, IF name = <<>> THEN <<"">> ELSE name)), b, key, Len(h) + 1)

(* nfcconf_block_copy(): a copy of all the blocks below b, its own first,  *)
(* the others in the order of what they are copies of (in which they lie   *)
(* in memory says nothing).  None of them has a parent, and their items    *)
(* point to the copies.  (The variants link the old blocks, and forget the *)
(* name.)                                                                  *)
Rank(S, a) == Cardinality({c \in S : c <= a})
CopyAt(h, b) == [a \in Below(h, b) |-> Len(h) + Rank(Below(h, b), a)]

CopyItem(item, to) ==
    IF item.type = "block" THEN Item("block", item.key, to[item.value]) ELSE item

CopyBlock(h, a, to) ==
    [parent |-> 0, name |-> h[a].name,
     items |-> [n \in DOMAIN h[a].items |-> CopyItem(h[a].items[n], to)]]

Copied(h, b, to) ==
    LET Source(n) == CHOOSE a \in Below(h, b) : CopyAt(h, b)[a] = Len(h) + n
    IN  h \o [n \in 1 .. Cardinality(Below(h, b)) |-> CopyBlock(h, Source(n), to)]

CopyShares(h, b) == Copied(h, b, [a \in Below(h, b) |-> a])
CopyForgetsName(h, b) == [Copied(h, b, CopyAt(h, b)) EXCEPT ![Len(h) + 1].name = <<>>]
Copy(h, b) == Copied(h, b, CopyAt(h, b))

(* nfcconf_item_add() with a block: a copy of it, made before it is        *)
(* linked.                                                                 *)
AddCopy(h, b, key, source) == Linked(Copy(h, source), b, key, Len(h) + 1)

(* nfcconf_block_destroy()                                                 *)
Destroy(h, b) ==
    [a \in DOMAIN h |-> IF a \in Below(h, b) THEN NULL ELSE h[a]]

-----------------------------------------------------------------------------
TreeInit ==
    /\ heap \in Files
    /\ owned = {}
    /\ lost = {}
    /\ calls = 0

Call ==
    /\ calls < MaxCalls
    /\ calls' = calls + 1

(* A caller may use any block of the tree and of its copies.               *)
Usable == Live(heap) \ lost

nfcconf_put_str(b, key, value) ==
    /\ Call
    /\ heap' = AddValue(heap, b, key, <<value>>)
    /\ UNCHANGED <<owned, lost>>

AddComment(b) ==
    /\ Call
    /\ heap' = LinkItem(heap, b, Item("comment", NULL, "text"))
    /\ UNCHANGED <<owned, lost>>

AddBlock(b, key, source) ==
    /\ Call
    /\ Len(heap) + Cardinality(Below(heap, source)) <= MaxBlocks
    /\ heap' = AddCopy(heap, b, key, source)
    /\ UNCHANGED <<owned, lost>>

nfcconf_block_add(b, key, name) ==
    /\ Call
    /\ Len(heap) < MaxBlocks
    /\ heap' = AddNewBlock(heap, b, key, name)
    /\ UNCHANGED <<owned, lost>>

nfcconf_block_copy(b) ==
    /\ Call
    /\ Len(heap) + Cardinality(Below(heap, b)) <= MaxBlocks
    /\ heap' = Copy(heap, b)
    /\ owned' = owned \cup {Len(heap) + 1}
    /\ UNCHANGED lost

nfcconf_block_destroy(b) ==
    /\ Call
    /\ b \in owned
    /\ heap' = Destroy(heap, b)
    /\ owned' = owned \ {b}
    /\ UNCHANGED lost

nfcconf_free ==
    /\ Call
    /\ heap[1] # NULL
    /\ heap' = Destroy(heap, 1)
    /\ UNCHANGED <<owned, lost>>

(* nfcconf_parse_string("key = value;").  The parser starts with no last   *)
(* item, so that an item for a new key takes the place of all those of the *)
(* root.                                                                   *)
ParseKnownKey(key, value) ==
    /\ Call
    /\ heap[1] # NULL
    /\ \E n \in DOMAIN heap[1].items : IsValue(heap[1].items[n], key)
    /\ heap' = AddValue(heap, 1, key, <<value>>)
    /\ UNCHANGED <<owned, lost>>

ParseNewKey(key, value) ==
    /\ Call
    /\ heap[1] # NULL
    /\ \A n \in DOMAIN heap[1].items : ~IsValue(heap[1].items[n], key)
    /\ heap' = [heap EXCEPT ![1].items = <<Item("value", key, <<value>>)>>]
    /\ lost' = lost \cup (Below(heap, 1) \ {1})
    /\ UNCHANGED owned

TreeNext ==
    \/ \E b \in Usable :
        \/ \E key \in Keys :
            \/ \E value \in Values : nfcconf_put_str(b, key, value)
            \/ \E source \in Usable : AddBlock(b, key, source)
            \/ \E name \in {<<>>} \cup {<<v>> : v \in Values} : nfcconf_block_add(b, key, name)
        \/ AddComment(b)
        \/ nfcconf_block_copy(b)
        \/ nfcconf_block_destroy(b)
    \/ nfcconf_free
    \/ \E key \in Keys, value \in Values : ParseKnownKey(key, value) \/ ParseNewKey(key, value)

TreeSpec == TreeInit /\ [][TreeNext]_treevars

-----------------------------------------------------------------------------
(* Properties.                                                             *)

(* The types of the variables.  No pointer leads to a freed block, and a   *)
(* parent pointer is null or leads to where the block hangs.               *)
TreeTypeOK ==
    /\ heap \in Seq(Blocks \cup {NULL})
    /\ owned \subseteq Live(heap)
    /\ lost \subseteq DOMAIN heap
    /\ calls \in 0 .. MaxCalls
    /\ Len(heap) <= MaxBlocks
    /\ \A b \in Live(heap) :
        /\ Children(heap, b) \subseteq Live(heap)
        /\ \/ b \in lost \/ heap[b].parent = 0
           \/ heap[b].parent \in Live(heap) /\ b \in Children(heap, heap[b].parent)

(* Every block belongs to exactly one: the item it hangs from, the context *)
(* if it is the root, the caller if it is a copy, or nobody after it was   *)
(* cut off.  So none is freed twice and none but the lost ones leaks.      *)
OneOwner ==
    \A b \in Live(heap) :
        Cardinality(Places(heap, b)) + Cardinality({b} \cap owned)
            + (IF b = 1 THEN 1 ELSE 0)
            + (IF b \in lost /\ Places(heap, b) = {} THEN 1 ELSE 0) = 1

(* What a tree says, without the places of its blocks in memory.           *)
Text(h, b) ==
    LET text[a \in Live(h)] ==
            [name |-> h[a].name,
             items |-> [n \in DOMAIN h[a].items |->
                LET item == h[a].items[n]
                IN  IF item.type = "block" THEN Item("block", item.key, text[item.value]) ELSE item]]
    IN  text[b]

(* A copy says what its source said before the call, also one that is      *)
(* linked into its own source.                                             *)
CopyIsEqual ==
    [][Len(heap') > Len(heap) => \A b \in Usable :
        /\ nfcconf_block_copy(b) => Text(heap', Len(heap) + 1) = Text(heap, b)
        /\ \A a \in Usable, key \in Keys :
            AddBlock(a, key, b) => Text(heap', Len(heap) + 1) = Text(heap, b)]_treevars

(* A call destroys one tree as a whole or nothing.  Except for a second    *)
(* parse, which cuts off what is there, it changes one block at most, and  *)
(* only behind what was there: the other blocks, among them every copy,    *)
(* stay as they are, and who has found a first value or a first block will *)
(* find it again.                                                          *)
IsLonger(old, new) ==
    /\ Len(old) <= Len(new)
    /\ \A n \in DOMAIN old :
        /\ new[n].type = old[n].type /\ new[n].key = old[n].key
        /\ \/ new[n].value = old[n].value
           \/ old[n].type = "value" /\ IsPrefix(old[n].value, new[n].value)

OneBlockGrows ==
    [][(\A key \in Keys, value \in Values : ~ParseNewKey(key, value)) =>
        LET gone == Live(heap) \ Live(heap')
            changed == {b \in Live(heap) \ gone : heap'[b] # heap[b]}
        IN  /\ Cardinality(changed) <= 1
            /\ \A b \in changed :
                /\ heap'[b].parent = heap[b].parent /\ heap'[b].name = heap[b].name
                /\ IsLonger(heap[b].items, heap'[b].items)
            /\ gone = {} \/ \E b \in Live(heap) \cap (owned \cup {1}) : gone = Below(heap, b)]_treevars
=============================================================================
