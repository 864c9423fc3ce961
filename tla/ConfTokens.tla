----------------------------- MODULE ConfTokens -----------------------------
(***************************************************************************)
(* The tokens of a text, as src/nfcconf/nfclex.c tells them apart, by      *)
(* their definition: no buffer, no character put back.  ConfLex compares   *)
(* the scanner with it, ConfWrite reads files by it.                       *)
(***************************************************************************)
EXTENDS Naturals, Sequences, FiniteSetsExt

(* The end of the file.  It becomes part of a quoted string as the         *)
(* character 0xff, which is a character like others when it is read.       *)
EOF == "EOF"
LineEnds == {"\n", "\r"}
Blanks == {" ", "\t", "\r"}
Punctuation == {",", "{", "}", "=", ";"}

(* The end strings that buf_eat_till() is called with.                     *)
Ends ==
    [comment |-> LineEnds,
     quoted |-> {"\""} \cup LineEnds,
     unquoted |-> {";", ","} \cup Blanks \cup LineEnds]

(* The case of nfcconf_lex_engine() that calls buf_eat_till().             *)
Starts(c) ==
    CASE c = "#" -> "comment"
      [] c = "\"" -> "quoted"
      [] OTHER -> "unquoted"

(* The tokens of a text t by their definition: the longest run from the    *)
(* first character, at n, that the kind of token allows.                   *)
Stops(t, n) == {m \in n + 1 .. Len(t) : t[m] \in Ends[Starts(t[n])]}

LastOf(t, n) ==
    IF Stops(t, n) = {} THEN Len(t)
    ELSE IF Starts(t[n]) = "quoted" THEN Min(Stops(t, n)) ELSE Min(Stops(t, n)) - 1

LongToken(t, n) ==
    [type |-> IF t[n] = "#" THEN "comment" ELSE "string",
     string |-> SubSeq(t, n, LastOf(t, n))
                \o IF t[n] = "\"" /\ Stops(t, n) = {} THEN <<EOF>> ELSE <<>>]

TokensOf(t) ==
    LET from[n \in 1 .. Len(t) + 1] ==
            IF n > Len(t) THEN <<>>
            ELSE IF t[n] \in Blanks THEN from[n + 1]
            ELSE IF t[n] = "\n" THEN <<[type |-> "newline", string |-> <<>>]>> \o from[n + 1]
            ELSE IF t[n] \in Punctuation
                 THEN <<[type |-> "punct", string |-> <<t[n]>>]>> \o from[n + 1]
            ELSE <<LongToken(t, n)>> \o from[LastOf(t, n) + 1]
    IN  from
=============================================================================
