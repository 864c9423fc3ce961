---------------------------- MODULE MCNemExecute ----------------------------
(* One event configured at a time, with every on_error and every list of   *)
(* up to MaxActions commands; the handler looks at one event per call.     *)
EXTENDS NemExecute

CONSTANTS c1, c2, MaxActions

MCCommands == {c1, c2}
MCTagged == {c1}

MCBlocks ==
    [on_error : OnErrors, action : UNION {[1 .. n -> MCCommands] : n \in 0 .. MaxActions}]

MCConfigs ==
    {[e \in Events |-> IF e = f THEN b ELSE NULL] : f \in Events, b \in MCBlocks}
=============================================================================
