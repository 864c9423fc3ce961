----------------------------- MODULE ConfEntries -----------------------------
(***************************************************************************)
(* The entry tables of nfcconf (src/nfcconf/nfcconf.c): a table of options *)
(* is written into a block, and a table of variables is read from one,     *)
(* between any other calls of ConfTree.                                    *)
(***************************************************************************)
EXTENDS ConfTree

CONSTANTS
    Tables,                   \* a table to read and one to write of each caller
    Cells,                    \* the variables that read tables point to
    IntOf, BoolOf, Size       \* a string as integer and as boolean, its length

ASSUME ConversionsAssumption ==
    /\ \A v \in {"true", "false"} : BoolOf[v] = (v = "true")
    /\ \A v \in Values : Size[v] \in Nat /\ BoolOf[v] \in BOOLEAN

VARIABLES
    readtable, writetable,  \* the tables of this caller
    cells,                  \* the values of the variables, NULL before
    present,                \* the entries of both with SCCONF_PRESENT
    called,                 \* the calls of callbacks by nfcconf_parse_entries()
    returned,               \* what nfcconf_parse_entries() has returned, NULL before
    written                 \* the block that writetable was written to, or 0

entryvars == <<readtable, writetable, cells, present, called, returned, written>>
allvars == <<treevars, entryvars>>

(* An entry has a name, a type, flags, and for parm a variable, a value, a *)
(* further table or NULL.  arg is what a callback returns, whose parm is a *)
(* function and left out, or the names of a block to be written.           *)
Entry(name, type, flags, parm, arg) ==
    [name |-> name, type |-> type, flags |-> flags, parm |-> parm, arg |-> arg]

-----------------------------------------------------------------------------
(* Reading.                                                                *)

(* getblocks(): the blocks with the name of the entry, or else the block   *)
(* itself if it has an option with that name.                              *)
getblocks(h, b, name) ==
    LET blocks == nfcconf_find_blocks(h, b, name, "any")
    IN  IF blocks # <<>> THEN blocks
        ELSE IF nfcconf_find_list(h, b, name) # <<>> THEN <<b>> ELSE <<>>

(* A reading so far: [r, cells, present, called].  Every later step is     *)
(* skipped after a failure.                                                *)
Fresh == [r |-> 0, cells |-> [c \in Cells |-> NULL], present |-> {}, called |-> <<>>]

Stored(reading, e, value) ==
    [reading EXCEPT
        !.cells = IF e.parm = NULL THEN @ ELSE [@ EXCEPT ![e.parm] = value],
        !.present = @ \cup {e}]

Failed(reading) == [reading EXCEPT !.r = 1]

(* A string that is copied into the buffer of the caller without an end:   *)
(* a longer one that was there before shows behind it.                     *)
Overlaid(old, string) ==
    [text |-> string,
     length |-> IF old # NULL /\ old.length > Size[string] THEN old.length ELSE Size[string]]

(* A string must not be empty.  (In the variant it may be.)                *)
parse_string_Empty(e, reading, string) ==
    IF "ALLOC" \in e.flags \/ e.parm = NULL THEN Stored(reading, e, string)
    ELSE Stored(reading, e, Overlaid(reading.cells[e.parm], string))

parse_string(e, reading, string) ==
    IF string = "" THEN Failed(reading)
    ELSE IF "ALLOC" \in e.flags \/ e.parm = NULL THEN Stored(reading, e, string)
    ELSE Stored(reading, e, Overlaid(reading.cells[e.parm], string))

RECURSIVE parse_entries(_, _, _, _, _)

(* A block or a callback counts as present if all went well inside.        *)
Flagged(e, reading) ==
    IF reading.r = 0 THEN [reading EXCEPT !.present = @ \cup {e}] ELSE reading

(* parse_type(): a boolean or an integer that is not there reads as 0.     *)
parse_type(h, b, e, reading, depth) ==
    LET list == nfcconf_find_list(h, b, e.name)
        string == nfcconf_get_str(h, b, e.name, "")
    IN  CASE e.type = "callback" ->
                Flagged(e, [reading EXCEPT !.called = Append(@, <<e, b, depth>>), !.r = e.arg])
          [] e.type = "block" ->
                Flagged(e, IF e.parm = NULL THEN reading
                           ELSE parse_entries(h, b, e.parm, reading, depth + 1))
          [] e.type = "list" -> IF list = <<>> THEN Failed(reading) ELSE Stored(reading, e, list)
          [] e.type = "boolean" ->
                Stored(reading, e, IF list = <<>> THEN FALSE ELSE BoolOf[string])
          [] e.type = "integer" ->
                Stored(reading, e, IF list = <<>> THEN "0" ELSE IntOf[string])
          [] e.type = "string" -> parse_string(e, reading, string)

(* One pass of the loop of parse_entries().  (In the variant all blocks    *)
(* are read always.)                                                       *)
parse_entry_AllBlocks(h, b, e, reading, depth) ==
    FoldLeft(LAMBDA sofar, block :
                IF sofar.r # 0 THEN sofar ELSE parse_type(h, block, e, sofar, depth),
             reading, getblocks(h, b, e.name))

parse_entry(h, b, e, reading, depth) ==
    LET blocks == getblocks(h, b, e.name)
        chosen == IF "ALL_BLOCKS" \in e.flags \/ blocks = <<>> THEN blocks ELSE <<blocks[1]>>
    IN  IF blocks = <<>> /\ "MANDATORY" \in e.flags
        THEN Failed(reading)
        ELSE FoldLeft(LAMBDA sofar, block :
                        IF sofar.r # 0 THEN sofar ELSE parse_type(h, block, e, sofar, depth),
                      reading, chosen)

parse_entries(h, b, table, reading, depth) ==
    FoldLeft(LAMBDA sofar, e :
                IF sofar.r # 0 THEN sofar ELSE parse_entry(h, b, e, sofar, depth),
             reading, table)

-----------------------------------------------------------------------------
(* Writing.                                                                *)

(* write_type(): an entry whose parm is 0 or NULL is skipped, which for a  *)
(* boolean and an integer is a value.                                      *)
Skipped(e) ==
    \/ e.parm = NULL
    \/ e.type = "boolean" /\ ~e.parm
    \/ e.type = "integer" /\ e.parm = "0"

RECURSIVE write_entries(_, _, _)

(* (In the variant what is inside a block goes beside it.)                 *)
write_type_Beside(h, b, e) ==
    CASE Skipped(e) -> h
      [] ~Skipped(e) /\ e.type = "block" ->
            write_entries(AddNewBlock(h, b, e.name, e.arg), b, e.parm)
      [] ~Skipped(e) /\ e.type = "list" -> AddValue(h, b, e.name, e.parm)
      [] ~Skipped(e) /\ e.type = "boolean" -> AddValue(h, b, e.name, <<"true">>)
      [] ~Skipped(e) /\ e.type \in {"integer", "string"} -> AddValue(h, b, e.name, <<e.parm>>)

write_type(h, b, e) ==
    CASE Skipped(e) -> h
      [] ~Skipped(e) /\ e.type = "block" ->
            write_entries(AddNewBlock(h, b, e.name, e.arg), Len(h) + 1, e.parm)
      [] ~Skipped(e) /\ e.type = "list" -> AddValue(h, b, e.name, e.parm)
      [] ~Skipped(e) /\ e.type = "boolean" -> AddValue(h, b, e.name, <<"true">>)
      [] ~Skipped(e) /\ e.type \in {"integer", "string"} -> AddValue(h, b, e.name, <<e.parm>>)

write_entries(h, b, table) == FoldLeft(LAMBDA sofar, e : write_type(sofar, b, e), h, table)

-----------------------------------------------------------------------------
EntriesInit ==
    /\ TreeInit
    /\ \E tables \in Tables : readtable = tables[1] /\ writetable = tables[2]
    /\ cells = Fresh.cells
    /\ present = {}
    /\ called = <<>>
    /\ returned = NULL
    /\ written = 0

(* The entries of a table and of the tables in it, and those for options.  *)
RECURSIVE Entries(_)
Entries(table) ==
    UNION {{table[n]} \cup (IF table[n].type = "block" /\ table[n].parm # NULL
                           THEN Entries(table[n].parm) ELSE {}) : n \in DOMAIN table}

Options(table) == {e \in Entries(table) : e.type \notin {"block", "callback"}}

Names(table) == {table[n].name : n \in DOMAIN table}
Used(h, b) == {h[b].items[n].key : n \in DOMAIN h[b].items}

nfcconf_parse_entries(b) ==
    /\ Call
    /\ LET reading == parse_entries(heap, b, readtable,
                                    [Fresh EXCEPT !.cells = cells, !.present = present], 0)
       IN  /\ returned' = reading.r
           /\ cells' = reading.cells
           /\ present' = reading.present
           /\ called' = reading.called
    /\ UNCHANGED <<heap, owned, lost, readtable, writetable, written>>

(* The flags are set on all entries, those that are skipped too.  written  *)
(* becomes the block if no name of the table was used in it.               *)
nfcconf_write_entries(b) ==
    /\ Call
    /\ heap' = write_entries(heap, b, writetable)
    /\ Len(heap') <= MaxBlocks
    /\ present' = present \cup Entries(writetable)
    /\ written' = IF Names(writetable) \cap Used(heap, b) = {} THEN b ELSE written
    /\ UNCHANGED <<owned, lost, readtable, writetable, cells, called, returned>>

OtherCall ==
    /\ TreeNext
    /\ written' = IF heap'[1] # NULL /\ lost' = lost /\ Used(heap, 1) \subseteq Used(heap', 1)
                  THEN written ELSE 0
    /\ UNCHANGED <<readtable, writetable, cells, present, called, returned>>

EntriesNext ==
    \/ \E b \in Usable : nfcconf_parse_entries(b) \/ nfcconf_write_entries(b)
    \/ OtherCall

EntriesSpec == EntriesInit /\ [][EntriesNext]_allvars

-----------------------------------------------------------------------------
(* Properties.                                                             *)

(* The tree is well-formed.  A variable has a value of its type, never an  *)
(* empty one, and only if the flag of an entry that points to it says so.  *)
EntriesTypeOK ==
    /\ TreeTypeOK
    /\ returned \in {NULL, 0, 1}
    /\ written \in 0 .. Len(heap)
    /\ \A c \in Cells :
        cells[c] # NULL =>
            \E e \in Options(readtable) \cap present :
                /\ e.parm = c
                /\ CASE e.type = "list" -> cells[c] # <<>>
                     [] e.type = "boolean" -> cells[c] \in BOOLEAN
                     [] e.type = "integer" -> cells[c] \in {IntOf[v] : v \in DOMAIN IntOf}
                     [] e.type = "string" /\ "ALLOC" \in e.flags -> cells[c] # ""
                     [] e.type = "string" /\ "ALLOC" \notin e.flags ->
                            cells[c].text # "" /\ cells[c].length >= Size[cells[c].text]

(* The table that reads what a table has written, each option into a       *)
(* variable of its own.                                                    *)
RECURSIVE Mirror(_)
Mirror(table) ==
    [n \in DOMAIN table |->
        LET e == table[n]
        IN  IF e.type = "block"
            THEN [e EXCEPT !.parm = Mirror(@), !.flags = {"MANDATORY"}]
            ELSE [e EXCEPT !.parm = e, !.flags = IF Skipped(e) THEN {"ALLOC"} ELSE {"ALLOC", "MANDATORY"}]]

(* A table that was written into a block in which its names were free can  *)
(* be read from there, with the values that were written in first place,   *)
(* whatever is put, added, copied and destroyed in between; unless a block *)
(* is given the name of one of the options, or a second parse cuts off     *)
(* what is there.                                                          *)
ReadBack ==
    LET options == Options(writetable)
        Ambiguous ==
            \E b \in Below(heap, written) : \E n \in BlockItems(heap, b) :
                heap[b].items[n].key \in {e.name : e \in options}
    IN  written \in Usable /\ ~Ambiguous =>
        LET empty == [Fresh EXCEPT !.cells = [e \in options |-> NULL]]
            reading == parse_entries(heap, written, Mirror(writetable), empty, 0)
        IN  /\ reading.r = 0
            /\ \A e \in options :
                ~Skipped(e) => IF e.type = "list" THEN IsPrefix(e.parm, reading.cells[e])
                                                  ELSE reading.cells[e] = e.parm

(* What it takes to read an entry: it is there if it is mandatory, and     *)
(* every block chosen for it has what it asks for.                         *)
RECURSIVE Readable(_, _)
Readable(b, e) ==
    LET blocks == getblocks(heap, b, e.name)
        chosen == IF "ALL_BLOCKS" \in e.flags THEN DOMAIN blocks ELSE DOMAIN blocks \cap {1}
    IN  /\ blocks = <<>> => "MANDATORY" \notin e.flags
        /\ \A n \in chosen :
            CASE e.type = "callback" -> e.arg = 0
              [] e.type = "block" -> \A m \in DOMAIN e.parm : Readable(blocks[n], e.parm[m])
              [] e.type = "list" -> nfcconf_find_list(heap, blocks[n], e.name) # <<>>
              [] e.type = "string" -> nfcconf_get_str(heap, blocks[n], e.name, "") # ""
              [] e.type \in {"boolean", "integer"} -> TRUE

(* nfcconf_parse_entries() returns 0 exactly if all its entries can be     *)
(* read.  Those before the first that cannot are read then, and flagged if *)
(* anything was there; no variable and no flag of the ones behind it is    *)
(* touched.                                                                *)
StopsAtFirst ==
    [][heap' = heap => \A b \in Usable : nfcconf_parse_entries(b) =>
        LET bad == {n \in DOMAIN readtable : ~Readable(b, readtable[n])}
            Before(n) == \A m \in bad : n < m
            Behind(n) == \E m \in bad : m < n
        IN  /\ returned' = 0 <=> bad = {}
            /\ \A n \in DOMAIN readtable :
                LET e == readtable[n]
                    there == getblocks(heap, b, e.name)
                IN  /\ Before(n) => (e \in present' <=> e \in present \/ there # <<>>)
                    /\ Behind(n) =>
                        /\ e \in present' <=> e \in present
                        /\ \A o \in Options(<<e>>) : cells'[o.parm] = cells[o.parm]]_allvars
=============================================================================
