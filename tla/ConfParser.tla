----------------------------- MODULE ConfParser -----------------------------
(***************************************************************************)
(* The parser of configuration files (src/nfcconf/parse.c): one action per *)
(* token that the lexer hands to nfcconf_parse_token(), and the tree of    *)
(* blocks and items it builds.  Strings are atoms: equal ones are those    *)
(* that strcasecmp() takes for equal, without their quotes.                *)
(***************************************************************************)
EXTENDS Naturals, Sequences

CONSTANTS
    Strings,      \* what STRING tokens can say
    EmptyString,  \* "", the name that a block without a name gets
    NULL,         \* the null pointer
    MaxTokens     \* bound: the number of tokens of a file

ASSUME StringsAssumption == NULL \notin Strings /\ NULL \notin Nat \X Nat
ASSUME MaxTokensAssumption == MaxTokens \in Nat

VARIABLES
    tree,          \* the blocks in the order of their opening, 1 is the root
    block,         \* parser->block, an index of tree
    last_item,     \* parser->last_item, an index of its items, 0 for NULL
    current_item,  \* parser->current_item, a block and an index, or NULL
    key, name,     \* parser->key and parser->name
    state, set,    \* parser->state: STATE_NAME or STATE_VALUE, and STATE_SET
    last_token,    \* parser->last_token_type
    error,         \* parser->error
    wild,          \* a null or foreign pointer has been followed
    tokens,        \* the number of tokens so far
    result         \* what nfcconf_parse() returns, "none" before it does

reading == <<key, name, state, set>>
vars == <<tree, block, last_item, current_item, reading, last_token, error, wild, tokens, result>>

(* The item kinds of nfcconf.h:62-64: a block item holds an index of tree, *)
(* a value item a list of strings, a comment item text or, for an empty    *)
(* line, nothing.                                                          *)
Item(type, k, value) == [type |-> type, key |-> k, value |-> value]
Block(parent, names) == [parent |-> parent, name |-> names, items |-> <<>>]
Root == Block(0, <<>>)

Items == tree[block].items

(* nfcconf_item_find(): the first value item with the key at hand.         *)
Found == {n \in DOMAIN Items : Items[n].type = "value" /\ Items[n].key = key}

(* It compares with strcasecmp(), which follows both keys of every value   *)
(* item before the first equal one.                                        *)
FindIsWild ==
    \E n \in DOMAIN Items :
        /\ Items[n].type = "value"
        /\ Items[n].key = NULL \/ key = NULL
        /\ key = NULL \/ \A m \in Found : n < m

First(S) == CHOOSE n \in S : \A m \in S : n <= m

-----------------------------------------------------------------------------
Init ==
    /\ tree = <<Root>>
    /\ block = 1
    /\ last_item = 0
    /\ current_item = NULL
    /\ key = NULL
    /\ name = <<>>
    /\ state = "none"
    /\ set = FALSE
    /\ last_token = "comment"
    /\ error = FALSE
    /\ wild = FALSE
    /\ tokens = 0
    /\ result = "none"

(* nfcconf_parse_token() is called with a token of this type.              *)
Token(type) ==
    /\ result = "none"
    /\ ~wild
    /\ ~error
    /\ tokens < MaxTokens
    /\ tokens' = tokens + 1
    /\ last_token' = type
    /\ UNCHANGED result

Fail ==
    /\ error' = TRUE
    /\ UNCHANGED <<tree, block, last_item, current_item, reading, wild>>

Wild ==
    /\ wild' = TRUE
    /\ UNCHANGED <<tree, block, last_item, current_item, reading, error>>

(* nfcconf_parse_reset_state()                                             *)
ResetState ==
    /\ key' = NULL
    /\ name' = <<>>
    /\ state' = "none"
    /\ set' = FALSE

(* The items of a block once a new one is linked behind last_item; what    *)
(* was behind last_item before is lost.                                    *)
LinkedItems(item) == Append(SubSeq(Items, 1, last_item), item)

(* nfcconf_item_add_internal() makes a new item.  (In the variant          *)
(* last_item stays where it was.)                                          *)
NewItemNotLast(item) ==
    /\ tree' = [tree EXCEPT ![block].items = LinkedItems(item)]
    /\ last_item' = last_item
    /\ current_item' = <<block, last_item + 1>>

NewItem(item) ==
    /\ tree' = [tree EXCEPT ![block].items = LinkedItems(item)]
    /\ last_item' = last_item + 1
    /\ current_item' = <<block, last_item + 1>>

-----------------------------------------------------------------------------
(* A comment item takes the key at hand, whoever it was meant for.         *)
AddComment(text) ==
    /\ NewItem(Item("comment", key, text))
    /\ key' = NULL
    /\ UNCHANGED <<block, name, state, set, error, wild>>

(* A newline after a newline is an empty line, which counts as a comment.  *)
Newline ==
    /\ Token("newline")
    /\ last_token # "newline"
    /\ UNCHANGED <<tree, block, last_item, current_item, reading, error, wild>>

(* (In the variant every newline is an empty line.)                        *)
EmptyLineAlways ==
    /\ Token("newline")
    /\ AddComment(NULL)

EmptyLine ==
    /\ Token("newline")
    /\ last_token = "newline"
    /\ AddComment(NULL)

Comment ==
    /\ Token("comment")
    /\ AddComment("text")

(* With a value complete and no ";" after it, a string starts the next     *)
(* statement, as it does when nothing has been read.                       *)
StartsStatement == state = "none" \/ (state = "value" /\ set)

ReadKey(s) ==
    /\ Token("string")
    /\ StartsStatement
    /\ key' = s
    /\ state' = "name"
    /\ name' = IF state = "none" THEN name ELSE <<>>
    /\ set' = FALSE
    /\ UNCHANGED <<tree, block, last_item, current_item, error, wild>>

ReadName(s) ==
    /\ Token("string")
    /\ state = "name" /\ ~set
    /\ name' = Append(name, s)
    /\ set' = TRUE
    /\ UNCHANGED <<key, state, tree, block, last_item, current_item, error, wild>>

(* The list of the current item grows, which is meant to be a value item.  *)
Current == tree[current_item[1]].items[current_item[2]]

(* (In the variant the last value replaces the others.)                    *)
ReadValueOverwrites(s) ==
    /\ Token("string")
    /\ state = "value" /\ ~set
    /\ Current.type = "value"
    /\ tree' = [tree EXCEPT ![current_item[1]].items[current_item[2]].value = <<s>>]
    /\ set' = TRUE
    /\ UNCHANGED <<key, name, state, block, last_item, current_item, error, wild>>

ReadValue(s) ==
    /\ Token("string")
    /\ state = "value" /\ ~set
    /\ Current.type = "value"
    /\ tree' = [tree EXCEPT ![current_item[1]].items[current_item[2]].value = Append(@, s)]
    /\ set' = TRUE
    /\ UNCHANGED <<key, name, state, block, last_item, current_item, error, wild>>

ReadValueIntoComment(s) ==
    /\ Token("string")
    /\ state = "value" /\ ~set
    /\ Current.type # "value"
    /\ Wild

SecondName(s) ==
    /\ Token("string")
    /\ state = "name" /\ set
    /\ Fail

(* "{": nfcconf_block_add_internal().  A block without a name is named "". *)
(* (In the variant last_item still points into the parent.)                *)
OpenBlockKeepsLast ==
    /\ Token("punct")
    /\ state = "name"
    /\ tree' = Append([tree EXCEPT ![block].items =
                           LinkedItems(Item("block", key, Len(tree) + 1))],
                      Block(block, IF name = <<>> THEN <<EmptyString>> ELSE name))
    /\ current_item' = <<block, last_item + 1>>
    /\ block' = Len(tree) + 1
    /\ UNCHANGED last_item
    /\ ResetState
    /\ UNCHANGED <<error, wild>>

OpenBlock ==
    /\ Token("punct")
    /\ state = "name"
    /\ tree' = Append([tree EXCEPT ![block].items =
                           LinkedItems(Item("block", key, Len(tree) + 1))],
                      Block(block, IF name = <<>> THEN <<EmptyString>> ELSE name))
    /\ current_item' = <<block, last_item + 1>>
    /\ block' = Len(tree) + 1
    /\ last_item' = 0
    /\ ResetState
    /\ UNCHANGED <<error, wild>>

OpenNothing ==
    /\ Token("punct")
    /\ state # "name"
    /\ Fail

(* "}": nfcconf_parse_parent() looks for the last item of the parent.      *)
MayClose == StartsStatement /\ tree[block].parent # 0

(* (In the variant last_item is the first item of the parent.)             *)
CloseBlockToFirst ==
    /\ Token("punct")
    /\ MayClose
    /\ block' = tree[block].parent
    /\ last_item' = IF tree[tree[block].parent].items = <<>> THEN 0 ELSE 1
    /\ ResetState
    /\ UNCHANGED <<tree, current_item, error, wild>>

CloseBlock ==
    /\ Token("punct")
    /\ MayClose
    /\ block' = tree[block].parent
    /\ last_item' = Len(tree[tree[block].parent].items)
    /\ IF state = "none" THEN UNCHANGED reading ELSE ResetState
    /\ UNCHANGED <<tree, current_item, error, wild>>

(* In the middle of a statement "}" is an error; after "foo = bar" it      *)
(* first ends the statement, and is an error at the root.                  *)
CloseNothing ==
    /\ Token("punct")
    /\ ~MayClose
    /\ error' = TRUE
    /\ IF state = "value" /\ set THEN ResetState ELSE UNCHANGED reading
    /\ UNCHANGED <<tree, block, last_item, current_item, wild>>

(* (In the variant STATE_SET stays set.)                                   *)
CommaKeepsSet ==
    /\ Token("punct")
    /\ error' = (state = "none")
    /\ UNCHANGED <<key, name, state, set, tree, block, last_item, current_item, wild>>

Comma ==
    /\ Token("punct")
    /\ error' = (state = "none")
    /\ set' = FALSE
    /\ UNCHANGED <<key, name, state, tree, block, last_item, current_item, wild>>

(* "=": an item that has the key already is used again.                    *)
AssignStarts ==
    /\ Token("punct")
    /\ state = "name"
    /\ ~FindIsWild
    /\ state' = "value"
    /\ set' = FALSE
    /\ key' = NULL
    /\ UNCHANGED <<name, block, error, wild>>

AssignAgain ==
    /\ AssignStarts
    /\ Found # {}
    /\ current_item' = <<block, First(Found)>>
    /\ UNCHANGED <<tree, last_item>>

(* (In the variant an item is made even if there is one with the key.)     *)
AssignAlwaysNew ==
    /\ AssignStarts
    /\ NewItem(Item("value", key, <<>>))

AssignNew ==
    /\ AssignStarts
    /\ Found = {}
    /\ NewItem(Item("value", key, <<>>))

AssignFollowsNull ==
    /\ Token("punct")
    /\ state = "name"
    /\ FindIsWild
    /\ Wild

AssignNothing ==
    /\ Token("punct")
    /\ state # "name"
    /\ Fail

Semicolon ==
    /\ Token("punct")
    /\ ResetState
    /\ UNCHANGED <<tree, block, last_item, current_item, error, wild>>

(* nfcconf_parse() at the end of the file, or after an error, which makes  *)
(* it ignore the rest: only the error flag counts.                         *)
EndOfFile ==
    /\ result = "none"
    /\ ~wild
    /\ result' = IF error THEN "error" ELSE "ok"
    /\ UNCHANGED <<tree, block, last_item, current_item, reading, last_token, error, wild, tokens>>

(* One more token, if it is a string one of S, or the end of the file.     *)
NextToken(S) ==
    \/ Newline \/ EmptyLine \/ Comment
    \/ \E s \in S :
        \/ ReadKey(s) \/ ReadName(s) \/ ReadValue(s)
        \/ ReadValueIntoComment(s) \/ SecondName(s)
    \/ OpenBlock \/ OpenNothing
    \/ CloseBlock \/ CloseNothing
    \/ Comma
    \/ AssignAgain \/ AssignNew \/ AssignFollowsNull \/ AssignNothing
    \/ Semicolon
    \/ EndOfFile

Next == NextToken(Strings)

Spec == Init /\ [][Next]_vars

-----------------------------------------------------------------------------
(* What the rest of nfcconf asks of a tree (nfcconf.c:86-136).             *)

(* nfcconf_find_blocks() without a name: the items whose blocks it         *)
(* returns, which it passes in their order.                                *)
FindBlocks(b, k) ==
    {n \in DOMAIN tree[b].items : tree[b].items[n].type = "block" /\ tree[b].items[n].key = k}

(* nfcconf_find_list(), which finds nothing also when the option has an    *)
(* empty list.                                                             *)
FindList(b, k) ==
    LET found == {n \in DOMAIN tree[b].items :
                     tree[b].items[n].type = "value" /\ tree[b].items[n].key = k}
    IN  IF found = {} THEN <<>> ELSE tree[b].items[First(found)].value

-----------------------------------------------------------------------------
(* Properties.                                                             *)

(* The types of the variables, and what each state of the parser knows of  *)
(* its pointers: last_item is the last item of the block.                  *)
TypeOK ==
    /\ \A b \in DOMAIN tree :
        /\ tree[b].parent \in 0 .. b - 1
        /\ \A n \in DOMAIN tree[b].items :
               tree[b].items[n].type \in {"block", "value", "comment"}
    /\ block \in DOMAIN tree
    /\ last_item = Len(Items)
    /\ current_item # NULL =>
        current_item[1] \in DOMAIN tree /\ current_item[2] \in DOMAIN tree[current_item[1]].items
    /\ key \in Strings \cup {NULL}
    /\ state \in {"none", "name", "value"} /\ set \in BOOLEAN
    /\ state = "none" => key = NULL /\ name = <<>> /\ ~set
    /\ state = "value" => current_item # NULL
    /\ error \in BOOLEAN /\ wild \in BOOLEAN
    /\ tokens \in 0 .. MaxTokens
    /\ result \in {"none", "ok", "error"}

(* No token makes an item disappear or change, except that the list of a   *)
(* value item may grow: linking behind last_item never cuts the chain.     *)
ItemsSurvive ==
    [][tokens' > tokens => \A b \in DOMAIN tree :
        /\ b \in DOMAIN tree' /\ tree'[b].parent = tree[b].parent
        /\ \A n \in DOMAIN tree[b].items :
            LET old == tree[b].items[n]
                new == tree'[b].items[n]
            IN  /\ n \in DOMAIN tree'[b].items
                /\ new.type = old.type /\ new.key = old.key
                /\ \/ new.value = old.value
                   \/ /\ old.type = "value"
                      /\ SubSeq(new.value, 1, Len(old.value)) = old.value]_vars

(* Whatever the tokens are, a block has at most one value item per key, so *)
(* that nfcconf_find_list() sees all the values of a key.                  *)
OneItemPerKey ==
    \A b \in DOMAIN tree : \A n, m \in DOMAIN tree[b].items :
        /\ tree[b].items[n].type = "value" /\ tree[b].items[m].type = "value"
        /\ tree[b].items[n].key = tree[b].items[m].key
        => n = m

(* Every block but the root hangs in exactly one place, under its parent,  *)
(* and nothing hangs there but blocks of the tree.                         *)
Hangs(b, q, n) == tree[q].items[n].type = "block" /\ tree[q].items[n].value = b

TreeShape ==
    /\ \A b \in 2 .. Len(tree) :
        /\ tree[b].parent \in DOMAIN tree
        /\ \E n \in DOMAIN tree[tree[b].parent].items :
            \A q \in DOMAIN tree : \A m \in DOMAIN tree[q].items :
                Hangs(b, q, m) <=> q = tree[b].parent /\ m = n
    /\ \A q \in DOMAIN tree : \A n \in DOMAIN tree[q].items :
        tree[q].items[n].type = "block" => tree[q].items[n].value \in 2 .. Len(tree)

(* "COMMENT: key = NULL, BLOCK: key = key, VALUE: key = key"               *)
(* (nfcconf.h:62-64).                                                      *)
ItemShape ==
    \A b \in DOMAIN tree : \A n \in DOMAIN tree[b].items :
        (tree[b].items[n].type = "comment") <=> (tree[b].items[n].key = NULL)

(* The same for files of any tokens, as far as the lookups rely on it:     *)
(* blocks and values have a key to compare with (nfcconf.h:63-64).         *)
ItemsHaveKeys ==
    \A b \in DOMAIN tree : \A n \in DOMAIN tree[b].items :
        tree[b].items[n].type # "comment" => tree[b].items[n].key # NULL
=============================================================================
