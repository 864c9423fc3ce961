------------------------------ MODULE ConfFile ------------------------------
(***************************************************************************)
(* A file that follows the grammar of README.nfcconf (lines 79-93), token  *)
(* by token, with the parser of ConfParser reading it:                     *)
(*                                                                         *)
(*    block  ::=  key [[,] name [[,] name ...]] { item ... }               *)
(*    option ::=  key [[,] name [[,] name ...]] = value [[,] value ...] ;  *)
(*    item   ::=  # comment  |  option  |  block                           *)
(*                                                                         *)
(* with line ends wherever they do not make an empty line inside an option *)
(* or the head of a block.  What the writer of the file meant is recorded  *)
(* independently of the parser, to compare with what the parser has built. *)
(***************************************************************************)
EXTENDS ConfParser

VARIABLES
    at,        \* what the writer has just written, "item" between two items
    wkey,      \* the key of the option or block being written
    wnames,    \* its names
    open,      \* the blocks that are open, innermost last
    opened,    \* all blocks in the order of their opening
    written,   \* for each block, the values given to each key, in their order
    bare       \* a comma between two names or two values has been left out

writer == <<at, wkey, wnames, open, opened, written, bare>>
allvars == <<vars, writer>>

Here == open[Len(open)]

NoValues == [k \in Strings |-> <<>>]

WriterInit ==
    /\ at = "item"
    /\ wkey = NULL
    /\ wnames = <<>>
    /\ open = <<1>>
    /\ opened = <<>>
    /\ written = <<NoValues>>
    /\ bare = FALSE

FileInit == Init /\ WriterInit

-----------------------------------------------------------------------------
WriteLineEnd ==
    /\ at = "item" \/ last_token # "newline"
    /\ Newline \/ EmptyLine
    /\ UNCHANGED writer

WriteComment ==
    /\ at = "item"
    /\ Comment
    /\ UNCHANGED writer

(* A string, read by the parser in whatever way its state makes it.        *)
ReadString(s) ==
    ReadKey(s) \/ ReadName(s) \/ ReadValue(s) \/ ReadValueIntoComment(s) \/ SecondName(s)

WriteKey(s) ==
    /\ at = "item"
    /\ ReadString(s)
    /\ at' = "key"
    /\ wkey' = s
    /\ wnames' = <<>>
    /\ UNCHANGED <<open, opened, written, bare>>

WriteName(s) ==
    /\ at \in {"key", "name", "name,"}
    /\ ReadString(s)
    /\ at' = "name"
    /\ wnames' = Append(wnames, s)
    /\ bare' = (bare \/ at = "name")
    /\ UNCHANGED <<wkey, open, opened, written>>

WriteValue(s) ==
    /\ at \in {"=", "value", "value,"}
    /\ ReadString(s)
    /\ at' = "value"
    /\ written' = [written EXCEPT ![Here][wkey] = Append(@, s)]
    /\ bare' = (bare \/ at = "value")
    /\ UNCHANGED <<wkey, wnames, open, opened>>

WriteComma ==
    /\ at \in {"key", "name", "value"}
    /\ Comma
    /\ at' = IF at = "value" THEN "value," ELSE "name,"
    /\ UNCHANGED <<wkey, wnames, open, opened, written, bare>>

WriteOpen ==
    /\ at \in {"key", "name"}
    /\ OpenBlock \/ OpenNothing
    /\ at' = "item"
    /\ opened' = Append(opened, [parent |-> Here, key |-> wkey, names |-> wnames])
    /\ open' = Append(open, Len(opened) + 2)
    /\ written' = Append(written, NoValues)
    /\ UNCHANGED <<wkey, wnames, bare>>

WriteClose ==
    /\ at = "item"
    /\ Len(open) > 1
    /\ CloseBlock \/ CloseNothing
    /\ open' = SubSeq(open, 1, Len(open) - 1)
    /\ UNCHANGED <<at, wkey, wnames, opened, written, bare>>

WriteAssign ==
    /\ at \in {"key", "name"}
    /\ AssignAgain \/ AssignNew \/ AssignFollowsNull \/ AssignNothing
    /\ at' = "="
    /\ UNCHANGED <<wkey, wnames, open, opened, written, bare>>

WriteSemicolon ==
    /\ at = "value"
    /\ Semicolon
    /\ at' = "item"
    /\ UNCHANGED <<wkey, wnames, open, opened, written, bare>>

(* The file may be cut off anywhere between two tokens.                    *)
WriteEnd ==
    /\ EndOfFile
    /\ UNCHANGED writer

FileNext ==
    \/ WriteLineEnd \/ WriteComment
    \/ \E s \in Strings : WriteKey(s) \/ WriteName(s) \/ WriteValue(s)
    \/ WriteComma \/ WriteOpen \/ WriteClose \/ WriteAssign \/ WriteSemicolon
    \/ WriteEnd

FileSpec == FileInit /\ [][FileNext]_allvars

-----------------------------------------------------------------------------
(* Properties.                                                             *)

(* A file that follows the grammar and has all its commas is read without  *)
(* an error or a null pointer followed, to its end or to where it was cut  *)
(* off.  All the way writer and parser are at the same place of the same   *)
(* statement: the parser knows its block, its key, its names, and what a   *)
(* string would be.                                                        *)
InStep ==
    /\ ~error /\ ~wild
    /\ block = Here
    /\ state = CASE at = "item" -> "none"
                 [] at \in {"key", "name", "name,"} -> "name"
                 [] at \in {"=", "value", "value,"} -> "value"
    /\ set <=> at \in {"name", "value"}
    /\ state = "name" => key = wkey /\ name = wnames
Accepted == ~bare => InStep

(* The blocks that the writer has meant for one block and one key.         *)
MeantBlocks(b, k) ==
    LET about == {n \in DOMAIN opened : opened[n].parent = b /\ opened[n].key = k}
    IN  {n + 1 : n \in about}

(* At any place of such a file, so also where it may have been cut off,    *)
(* the tree has the blocks that were written so far: as many, with their   *)
(* parents and names (a block without a name is named ""), and             *)
(* nfcconf_find_blocks() finds those of a key in the order of the file.    *)
BlocksRead ==
    /\ Len(tree) = Len(opened) + 1
    /\ \A n \in DOMAIN opened :
        /\ tree[n + 1].parent = opened[n].parent
        /\ tree[n + 1].name = IF opened[n].names = <<>> THEN <<EmptyString>> ELSE opened[n].names
    /\ \A b \in DOMAIN tree, k \in Strings :
        /\ {tree[b].items[n].value : n \in FindBlocks(b, k)} = MeantBlocks(b, k)
        /\ \A m, n \in FindBlocks(b, k) :
            m < n => tree[b].items[m].value < tree[b].items[n].value
BlocksAsWritten == ~bare => BlocksRead

(* At any place nfcconf_find_list() returns, for every block and key, all  *)
(* the values given to it so far, also when they were given in several     *)
(* options, in the order of the file and no others.                        *)
ValuesRead == \A b \in DOMAIN tree, k \in Strings : FindList(b, k) = written[b][k]
ValuesAsWritten == ~bare => ValuesRead

(* The commas are optional: "key [[,] name [[,] name ... ] ]"              *)
(* (README.nfcconf:83, 93) and "value [[,] value ... ]];" (93).  Every     *)
(* file that follows the grammar is read without an error, and every value *)
(* in it is found.                                                         *)
GrammarIsRead == ~error /\ ~wild /\ ValuesRead
=============================================================================
