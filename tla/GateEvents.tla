----------------------------- MODULE GateEvents -----------------------------
(***************************************************************************)
(* What the daemon promises about its readers, with no loop, no device     *)
(* handles and no event handler: at every reader it reports a tag that it  *)
(* can reach, forgets the tag once it is out of reach, and in between      *)
(* reports nothing else.                                                   *)
(***************************************************************************)

CONSTANTS
    Readers,    \* the configured readers
    Tags,       \* the NFC tags people carry
    NULL,       \* "no tag"
    Lossy       \* TRUE: one poll may miss a tag that is within reach

VARIABLES
    up,         \* FALSE once the daemon has ended
    present,    \* present[r]: the tags the daemon can reach through reader r
    reported    \* reported[r]: the tag the daemon has acted upon, or NULL

vars == <<up, present, reported>>

NoneReported == [r \in Readers |-> NULL]

Init ==
    /\ up = TRUE
    /\ present \in [Readers -> SUBSET Tags]
    /\ reported = NoneReported

(* The world: tags come and go, readers are plugged and unplugged.         *)
Move ==
    /\ present' \in [Readers -> SUBSET Tags]
    /\ UNCHANGED <<up, reported>>

(* One tag_insert event.                                                   *)
Report(r, t) ==
    /\ up
    /\ reported[r] = NULL
    /\ t \in present[r]
    /\ reported' = [reported EXCEPT ![r] = t]
    /\ UNCHANGED <<up, present>>

(* One removal.                                                            *)
Forget(r) ==
    /\ up
    /\ reported[r] # NULL
    /\ Lossy \/ reported[r] \notin present[r]
    /\ reported' = [reported EXCEPT ![r] = NULL]
    /\ UNCHANGED <<up, present>>

(* An action with on_error = quit has failed.                              *)
Stop ==
    /\ up
    /\ up' = FALSE
    /\ reported' = NoneReported
    /\ UNCHANGED present

Next ==
    \/ Move
    \/ Stop
    \/ \E r \in Readers : Forget(r) \/ \E t \in Tags : Report(r, t)

Spec == Init /\ [][Next]_vars

(* A tag that stays alone within reach of a reader ends up reported, and   *)
(* nothing stays reported at a reader that reaches no tag.                 *)
Reports(r, t) == <>[](up /\ present[r] = {t}) => <>[](reported[r] = t)
Forgets(r) == <>[](present[r] = {}) => <>[](reported[r] = NULL)

Liveness == \A r \in Readers : Forgets(r) /\ \A t \in Tags : Reports(r, t)
=============================================================================
