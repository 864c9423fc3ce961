----------------------------- MODULE MCGatesrvd -----------------------------
(* Two readers and two tags; the handler of one event runs while tags move *)
(* and readers are unplugged.  For an insertion no block, or two commands  *)
(* and each reaction to a failure; one command for the initialisation.     *)
EXTENDS Gatesrvd

CONSTANTS c1, c2

MCCommands == {c1, c2}
MCTagged == {c1}

MCConfigs ==
    {[tag_insert |-> b, tag_remove |-> NULL, init_ctl |-> [on_error |-> "quit", action |-> <<c2>>]] :
        b \in [on_error : {"ignore", "return", "quit"}, action : {<<c1, c2>>}] \cup {NULL}}
=============================================================================
