------------------------------- MODULE ConfLex -------------------------------
(***************************************************************************)
(* The scanner of configuration files (src/nfcconf/nfclex.c), one action   *)
(* per character that buf_nextch() returns.  The text is made up while it  *)
(* is read.  It has no zero bytes, and the buffer holds what is put in.    *)
(***************************************************************************)
EXTENDS ConfTokens, SequencesExt

CONSTANTS
    Alphabet,   \* the characters that occur in texts
    NULL,       \* no saved character
    MaxText     \* bound: the length of a text

ASSUME AlphabetAssumption == EOF \notin Alphabet /\ NULL \notin Alphabet \cup {EOF}
ASSUME MaxTextAssumption == MaxText \in Nat

VARIABLES
    mode,        \* "top" of nfcconf_lex_engine(), "end" of it, or eating
    text, eof,   \* history: the characters read from the file, its end too
    saved_char,
    buf,
    tokens       \* the calls of nfcconf_parse_token()

vars == <<mode, text, eof, saved_char, buf, tokens>>

Eating == DOMAIN Ends

Init ==
    /\ mode = "top"
    /\ text = <<>>
    /\ eof = FALSE
    /\ saved_char = NULL
    /\ buf = <<>>
    /\ tokens = <<>>

-----------------------------------------------------------------------------
(* fgetc(): another character, or the end of the file, once and for all.   *)
Read(c) ==
    IF c = EOF THEN eof' = TRUE /\ UNCHANGED text
    ELSE /\ ~eof
         /\ Len(text) < MaxText
         /\ text' = Append(text, c)
         /\ UNCHANGED eof

(* The call of buf_nextch() at the top of the engine.                      *)
Fetch(c) ==
    /\ mode = "top"
    /\ IF saved_char = NULL THEN Read(c) ELSE c = saved_char /\ UNCHANGED <<text, eof>>
    /\ saved_char' = NULL

(* nfcconf_parse_token() is called, then buf_zero().                       *)
Emit(type, string) ==
    /\ tokens' = Append(tokens, [type |-> type, string |-> string])
    /\ buf' = <<>>
    /\ mode' = "top"

-----------------------------------------------------------------------------
NewLine(c) ==
    /\ Fetch(c)
    /\ c = "\n"
    /\ Emit("newline", <<>>)

Blank(c) ==
    /\ Fetch(c)
    /\ c \in Blanks
    /\ UNCHANGED <<mode, buf, tokens>>

Punct(c) ==
    /\ Fetch(c)
    /\ c \in Punctuation
    /\ Emit("punct", <<c>>)

Start(c) ==
    /\ Fetch(c)
    /\ c \notin Blanks \cup Punctuation \cup {"\n", EOF}
    /\ mode' = Starts(c)
    /\ buf' = <<c>>
    /\ UNCHANGED tokens

EndOfText ==
    /\ Fetch(EOF)
    /\ mode' = "end"
    /\ UNCHANGED <<buf, tokens>>

Eat(c) ==
    /\ mode \in Eating
    /\ c \notin Ends[mode] \cup {EOF}
    /\ Read(c)
    /\ buf' = Append(buf, c)
    /\ UNCHANGED <<mode, saved_char, tokens>>

(* The character that ends a comment or an unquoted string is saved to be  *)
(* looked at once more.  (Variants: it is dropped; the buffer is not       *)
(* emptied.)                                                               *)
FinishDropped(c) ==
    /\ mode \in {"comment", "unquoted"}
    /\ c \in Ends[mode] \cup {EOF}
    /\ Read(c)
    /\ Emit(IF mode = "comment" THEN "comment" ELSE "string", buf)
    /\ UNCHANGED saved_char

FinishKeepsBuffer(c) ==
    /\ mode \in {"comment", "unquoted"}
    /\ c \in Ends[mode] \cup {EOF}
    /\ Read(c)
    /\ tokens' = Append(tokens, [type |-> IF mode = "comment" THEN "comment" ELSE "string", string |-> buf])
    /\ mode' = "top"
    /\ saved_char' = IF c = EOF THEN NULL ELSE c
    /\ UNCHANGED buf

Finish(c) ==
    /\ mode \in {"comment", "unquoted"}
    /\ c \in Ends[mode] \cup {EOF}
    /\ Read(c)
    /\ Emit(IF mode = "comment" THEN "comment" ELSE "string", buf)
    /\ saved_char' = IF c = EOF THEN NULL ELSE c

(* The one that ends a quoted string becomes part of it, even if it is a   *)
(* line end or, as the character 0xff, the end of the file.  (In the       *)
(* variant only a quote ends it.)                                          *)
QuoteGoesOn(c) ==
    /\ mode = "quoted"
    /\ c \in Ends[mode] \cup {EOF}
    /\ Read(c)
    /\ IF c \in LineEnds
       THEN buf' = Append(buf, c) /\ UNCHANGED <<mode, tokens>>
       ELSE Emit("string", Append(buf, c))
    /\ UNCHANGED saved_char

Quote(c) ==
    /\ mode = "quoted"
    /\ c \in Ends[mode] \cup {EOF}
    /\ Read(c)
    /\ Emit("string", Append(buf, c))
    /\ UNCHANGED saved_char

Next ==
    \/ EndOfText
    \/ \E c \in Alphabet : NewLine(c) \/ Blank(c) \/ Punct(c) \/ Start(c) \/ Eat(c)
    \/ \E c \in Alphabet \cup {EOF} : Finish(c) \/ Quote(c)

Spec == Init /\ [][Next]_vars

-----------------------------------------------------------------------------
(* Properties.                                                             *)

(* The types of the variables; a character is saved, and the buffer empty, *)
(* only between two tokens.                                                *)
TypeOK ==
    /\ mode \in Eating \cup {"top", "end"}
    /\ text \in Seq(Alphabet) /\ eof \in BOOLEAN
    /\ saved_char \in Alphabet \cup {NULL}
    /\ saved_char # NULL => mode = "top"
    /\ buf \in Seq(Alphabet)
    /\ mode \in Eating <=> buf # <<>>
    /\ tokens \in
        Seq([type : {"comment", "newline", "string", "punct"}, string : Seq(Alphabet \cup {EOF})])

(* The scanner carries nothing over the end of a line (lines 121, 143 and  *)
(* 151 name what ends a token): when one has been read, it is between two  *)
(* tokens, so that a missing quote damages one line only.                  *)
LinesAreIndependent ==
    text # <<>> /\ text[Len(text)] \in LineEnds => mode \in {"top", "end"} /\ buf = <<>>

(* At its end every text has been cut into the tokens that ConfTokens      *)
(* defines for it.                                                         *)
LongestMatch == mode = "end" => tokens = TokensOf(text)[1]
=============================================================================
