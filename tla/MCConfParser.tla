---------------------------- MODULE MCConfParser ----------------------------
(* Files of any MaxTokens tokens over two strings.                         *)
EXTENDS ConfParser
=============================================================================
