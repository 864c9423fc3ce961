----------------------------- MODULE MCConfLex -----------------------------
(* Texts over one character of each kind that nfclex.c tells apart, and    *)
(* two of the punctuation: one ends an unquoted string, one does not.      *)
EXTENDS ConfLex

MCAlphabet == {"#", "\n", "\r", " ", ";", "=", "\"", "a"}
=============================================================================
