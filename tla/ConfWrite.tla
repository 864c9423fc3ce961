----------------------------- MODULE ConfWrite -----------------------------
(***************************************************************************)
(* The writer of configuration files (src/nfcconf/write.c) between two     *)
(* readings: a file is parsed, nfcconf_write() makes a file of the tree,   *)
(* character by character, and that file is scanned and parsed again,      *)
(* whole or as far as it got to the disk.  Both parsers are that of        *)
(* ConfParser, the scanner is that of ConfTokens.                          *)
(***************************************************************************)
EXTENDS ConfParser, ConfTokens, SequencesExt

CONSTANTS
    Chars,         \* the characters of strings, 0xff among them
    Normal,        \* those of write.c:65-66: letters, digits, "!", "." and "/"
    FirstStrings,  \* what the strings of the first file are
    ReadTokens     \* bound: the number of tokens of the first file

(* The characters that mean something in a file, and the end of it.        *)
Special == {EOF, "#", "\""} \cup Punctuation \cup Blanks \cup LineEnds

ASSUME CharsAssumption == Normal \cup Special \subseteq Chars /\ Normal \cap Special = {}
ASSUME StringsAreTexts == Strings = Seq(Chars) /\ EmptyString = <<>>
ASSUME FirstStringsAssumption == FirstStrings \subseteq Strings
ASSUME ReadTokensAssumption == ReadTokens \in 0 .. MaxTokens

VARIABLES
    phase,      \* "read", "written", "cut" once a token of the new file was
                \* cut off, or "failed" if nfcconf_write() has no file
    source,     \* the tree that nfcconf_write() was given
    file,       \* the tokens of the new file that are still to be read
    returned    \* what nfcconf_write() returns, NULL before

wvars == <<phase, source, file, returned>>
writevars == <<vars, wvars>>

-----------------------------------------------------------------------------
(* The text that is written.                                               *)

(* The empty string gets no quotes.  (The variant quotes nothing.)         *)
string_need_quotes_never(s) == FALSE

string_need_quotes(s) == \E n \in DOMAIN s : s[n] \notin Normal

Quoted(s) == <<"\"">> \o s \o <<"\"">>

Written(s) == IF string_need_quotes(s) THEN Quoted(s) ELSE s

(* nfcconf_list_get_string(): ", " stands before every string but those    *)
(* with nothing written before them.                                       *)
Separator(list, n) ==
    IF \E m \in 1 .. n - 1 : Written(list[m]) # <<>> THEN <<",", " ">> ELSE <<>>

nfcconf_list_get_string(list) ==
    FlattenSeq([n \in DOMAIN list |-> Separator(list, n) \o Written(list[n])])

(* An item, keys never quoted; inner is what is inside a block.  The text  *)
(* of comments and the tabs before each line are left out.  (The variant   *)
(* writes what is inside before the head.)                                 *)
BlockHead(t, item) ==
    item.key \o <<" ">> \o nfcconf_list_get_string(t[item.value].name) \o <<" ", "{", "\n">>

BlockTextInsideOut(t, item, inner) == inner \o BlockHead(t, item) \o <<"}", "\n">>

BlockText(t, item, inner) == BlockHead(t, item) \o inner \o <<"}", "\n">>

ItemText(t, item, inner) ==
    CASE item.type = "comment" ->
            (IF item.value = NULL THEN <<>> ELSE <<"#">>) \o <<"\n">>
      [] item.type = "value" ->
            item.key \o <<" ", "=", " ">> \o nfcconf_list_get_string(item.value) \o <<";", "\n">>
      [] item.type = "block" -> BlockText(t, item, inner)

(* nfcconf_write_items(): the items of the root, those of a block between  *)
(* its head and its foot.                                                  *)
nfcconf_write_items(t) ==
    LET inside[b \in DOMAIN t] ==
            FlattenSeq([n \in DOMAIN t[b].items |->
                LET item == t[b].items[n]
                IN  ItemText(t, item, IF item.type = "block" THEN inside[item.value] ELSE <<>>)])
    IN  inside[1]

-----------------------------------------------------------------------------
WriteInit ==
    /\ Init
    /\ phase = "read"
    /\ source = <<>>
    /\ file = <<>>
    /\ returned = NULL

(* The first file is anything.                                             *)
Read ==
    /\ phase = "read"
    /\ NextToken(FirstStrings)
    /\ tokens' <= ReadTokens
    /\ UNCHANGED wvars

(* A block or a value without a key is beyond the writer: it takes the     *)
(* length of the key.                                                      *)
HasKeys(t) ==
    \A b \in DOMAIN t : \A n \in DOMAIN t[b].items :
        t[b].items[n].type # "comment" => t[b].items[n].key # NULL

(* nfcconf_write() opens the file, which is empty from then on, and writes *)
(* the items.  A line that does not get to the disk is an error only if    *)
(* fputc() says so, not if fclose() does; then what follows it is not      *)
(* written any more.  The file is read again into a new context.           *)
nfcconf_write ==
    /\ phase = "read"
    /\ result = "ok"
    /\ HasKeys(tree)
    /\ phase' = "written"
    /\ source' = tree
    /\ file' = TokensOf(nfcconf_write_items(tree))[1]
    /\ returned' \in {"0", "errno"}
    /\ tree' = <<Root>> /\ block' = 1 /\ last_item' = 0 /\ current_item' = NULL
    /\ ResetState
    /\ last_token' = "comment"
    /\ error' = FALSE /\ wild' = FALSE
    /\ tokens' = 0
    /\ result' = "none"

WriteFollowsNull ==
    /\ phase = "read"
    /\ result = "ok"
    /\ ~HasKeys(tree)
    /\ wild' = TRUE
    /\ UNCHANGED <<tree, block, last_item, current_item, reading, last_token, error, tokens, result>>
    /\ UNCHANGED wvars

(* fopen() fails.                                                          *)
WriteFails ==
    /\ phase = "read"
    /\ result = "ok"
    /\ phase' = "failed"
    /\ returned' = "errno"
    /\ UNCHANGED <<vars, source, file>>

(* The parser with the next token of the file.                             *)
TakeString(s) ==
    ReadKey(s) \/ ReadName(s) \/ ReadValue(s) \/ ReadValueIntoComment(s) \/ SecondName(s)

TakePunct(c) ==
    CASE c = "{" -> OpenBlock \/ OpenNothing
      [] c = "}" -> CloseBlock \/ CloseNothing
      [] c = "," -> Comma
      [] c = "=" -> AssignAgain \/ AssignNew \/ AssignFollowsNull \/ AssignNothing
      [] c = ";" -> Semicolon

(* nfcconf_parse_token() takes off the quotes if both are there, else the  *)
(* first.                                                                  *)
Unquoted(string) ==
    IF string[1] # "\"" THEN string
    ELSE IF Len(string) > 1 /\ string[Len(string)] = "\"" THEN SubSeq(string, 2, Len(string) - 1)
    ELSE Tail(string)

ReadAgain ==
    /\ phase = "written"
    /\ file # <<>>
    /\ file' = Tail(file)
    /\ LET token == Head(file)
       IN  CASE token.type = "newline" -> Newline \/ EmptyLine
             [] token.type = "comment" -> Comment
             [] token.type = "string" -> TakeString(Unquoted(token.string))
             [] token.type = "punct" -> TakePunct(token.string[1])
    /\ UNCHANGED <<phase, source, returned>>

(* The new file may be cut off anywhere, because the disk was full or the  *)
(* machine went down.  If that was inside a string, behind its first n     *)
(* characters, the scanner takes these for a string.                       *)
ReadCut ==
    /\ phase = "written"
    /\ file # <<>>
    /\ Head(file).type = "string"
    /\ \E n \in 1 .. Len(Head(file).string) - 1 :
        TakeString(Unquoted(LongToken(SubSeq(Head(file).string, 1, n), 1).string))
    /\ phase' = "cut"
    /\ file' = <<>>
    /\ UNCHANGED <<source, returned>>

(* The new file ends: where the writer ended it, or where it was cut off.  *)
ReadAgainEnds ==
    /\ phase \in {"written", "cut"}
    /\ EndOfFile
    /\ UNCHANGED wvars

WriteNext ==
    \/ Read \/ nfcconf_write \/ WriteFollowsNull \/ WriteFails
    \/ ReadAgain \/ ReadCut \/ ReadAgainEnds

WriteSpec == WriteInit /\ [][WriteNext]_writevars

-----------------------------------------------------------------------------
(* Properties.                                                             *)

(* A tree all of whose keys can be written as they are, and whose names    *)
(* and values can be read between quotes: the writer has no escapes.       *)
Plain(s) ==
    /\ s # <<>>
    /\ s[1] \notin Punctuation \cup {"#", "\""}
    /\ \A n \in DOMAIN s : s[n] \notin Ends.unquoted

Readable(strings) ==
    \A n \in DOMAIN strings : \A i \in DOMAIN strings[n] : strings[n][i] \notin Ends.quoted

Legible(t) ==
    \A b \in DOMAIN t :
        /\ Readable(t[b].name)
        /\ \A n \in DOMAIN t[b].items :
            LET item == t[b].items[n]
            IN  /\ item.type # "comment" => Plain(item.key)
                /\ item.type = "value" => Readable(item.value)

(* What the tree is after it has been written and read: the key that a     *)
(* comment has taken, empty strings and one empty line at the top are      *)
(* gone.                                                                   *)
NotEmpty(strings) ==
    FlattenSeq([n \in DOMAIN strings |-> IF strings[n] = <<>> THEN <<>> ELSE <<strings[n]>>])
AgainName(names) ==
    IF NotEmpty(names) = <<>> /\ names # <<>> THEN <<EmptyString>> ELSE NotEmpty(names)

AgainItem(item) ==
    CASE item.type = "comment" -> Item("comment", NULL, item.value)
      [] item.type = "value" -> Item("value", item.key, NotEmpty(item.value))
      [] item.type = "block" -> item

AgainItems(b, t) ==
    LET items == [n \in DOMAIN t[b].items |-> AgainItem(t[b].items[n])]
        EmptyTop == b = 1 /\ items # <<>> /\ items[1] = Item("comment", NULL, NULL)
    IN  IF EmptyTop THEN Tail(items) ELSE items

Again(t) ==
    [b \in DOMAIN t |->
        [parent |-> t[b].parent, name |-> AgainName(t[b].name), items |-> AgainItems(b, t)]]

(* A written file is read without an error, and if it is whole as the tree *)
(* that was written: all blocks, names, options, values and comments are   *)
(* where they were, but for empty strings and an empty line at the top,    *)
(* and except when a key cannot be written without quotes or a value not   *)
(* between them.                                                           *)
ReadsBack ==
    phase \in {"written", "cut"} /\ Legible(source) =>
        /\ ~error /\ ~wild
        /\ phase = "written" /\ result = "ok" /\ file = <<>> => tree = Again(source)

(* The strings that a string v may be read as if the file ends inside it.  *)
CutOff(v) ==
    IF string_need_quotes(v) THEN {SubSeq(v, 1, n) \o <<EOF>> : n \in 0 .. Len(v)}
    ELSE {SubSeq(v, 1, n) : n \in 1 .. Len(v) - 1}

(* A written file that is cut off anywhere is read as a part of the tree:  *)
(* whatever is there is as it was written, in its block, and no list of    *)
(* values but the last is shorter than it was.  At the end of that one may *)
(* be a part of a value, if the file ends inside it.                       *)
CutIsPart ==
    phase \in {"written", "cut"} /\ Legible(source) =>
        \A b \in DOMAIN tree :
            LET whole == Again(source)[b].items
            IN  /\ tree[b].parent = source[b].parent
                /\ b > 1 => tree[b].name = Again(source)[b].name
                /\ \A n \in DOMAIN tree[b].items :
                    LET got == tree[b].items[n].value
                        given == whole[n].value
                    IN  /\ tree[b].items[n].type = whole[n].type
                        /\ tree[b].items[n].key = whole[n].key
                        /\ \/ got = given
                           \/ /\ whole[n].type = "value"
                              /\ <<b, n>> = current_item
                              /\ n = Len(tree[b].items)
                              /\ \/ IsPrefix(got, given)
                                 \/ /\ phase = "cut"
                                    /\ Len(got) \in 1 .. Len(given)
                                    /\ IsPrefix(Front(got), given)
                                    /\ Last(got) \in CutOff(given[Len(got)])
=============================================================================
