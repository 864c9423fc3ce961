---------------------------- MODULE MCConfEntries ----------------------------
(* Two contexts, an empty one and one with an option and a block, and      *)
(* tables with every type of entry.                                        *)
EXTENDS ConfEntries

CONSTANTS k, l, c1, c2

MCFiles ==
    {<<Block(0, <<>>)>>,
     <<[Block(0, <<>>) EXCEPT !.items = <<Item("value", k, <<"1", "true">>), Item("block", l, 2)>>],
       [Block(1, <<"">>) EXCEPT !.items = <<Item("value", k, <<"true">>)>>]>>}

Option(name, type, flags, parm) == Entry(name, type, flags, parm, NULL)

StringAndOption ==
    <<Option(k, "string", {}, "1"),
      Entry(l, "block", {}, <<Option(k, "boolean", {}, TRUE)>>, <<>>)>>

ListAndZero == <<Option(k, "list", {}, <<"1", "true">>), Option(l, "integer", {}, "0")>>

MCTables ==
    {<< <<Option(k, "string", {"ALLOC", "MANDATORY"}, c1),
          Entry(l, "block", {"ALL_BLOCKS"}, <<Option(k, "list", {"ALLOC"}, c2)>>, NULL)>>,
        StringAndOption>>,
     << <<Entry(l, "callback", {"ALL_BLOCKS"}, NULL, 0),
          Option(k, "string", {}, c2),
          Option(l, "boolean", {}, c1)>>,
        ListAndZero>>,
     << <<Entry(l, "block", {"MANDATORY"}, <<Option(k, "boolean", {"MANDATORY"}, c1)>>, NULL),
          Entry(k, "callback", {}, NULL, 1),
          Option(k, "integer", {}, c2)>>,
        ListAndZero>>}

MCIntOf == [v \in {"1", "true", ""} |-> IF v = "1" THEN "1" ELSE "0"]
MCBoolOf == [v \in {"1", "true", "false", ""} |-> v = "true"]
MCSize == [v \in {"1", "true", ""} |-> CASE v = "1" -> 1 [] v = "true" -> 4 [] v = "" -> 0]
==============================================================================
