----------------------------- MODULE MCConfFile -----------------------------
(* Files of up to MaxTokens tokens over two strings: a nested block, or a  *)
(* key set three times in a block, fits.                                   *)
EXTENDS ConfFile
=============================================================================
