---------------------------- MODULE MCConfWrite ----------------------------
(* Every first file of up to ReadTokens tokens over a plain string, one    *)
(* with a blank in it, which is two in the written file, and the empty one *)
EXTENDS ConfWrite

MCChars == {"a"} \cup Special
MCStrings == Seq(MCChars)
MCFirstStrings == {<<"a">>, <<"a", " ", "a">>, <<"a", "\n">>, <<>>}
MCEmptyString == <<>>
=============================================================================
