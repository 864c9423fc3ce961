----------------------------- MODULE MCStartup -----------------------------
(* Command lines of up to MaxArguments words; a default file that varies   *)
(* in every respect and a second one that is fixed.                        *)
EXTENDS Startup

MCArguments ==
    {[opt |-> o, val |-> NULL] : o \in {"debug", "nodebug", "daemon", "nodaemon", "other"}}
    \cup {[opt |-> "polling_time", val |-> v] : v \in {3, NULL}}
    \cup {[opt |-> "expire_time", val |-> v] : v \in {4, 5}}
    \cup {[opt |-> "config_file", val |-> f] : f \in FileNames}

Good ==
    [parses |-> TRUE, gatesrvd |-> TRUE, debug |-> TRUE, daemon |-> NULL, polling_time |-> 2,
     expire_time |-> NULL, readers |-> 1, blocks |-> 1, module |-> "nem_execute",
     keyless |-> {}, overlong |-> {}]

(* Files that differ from Good in what the two scans look at, and files    *)
(* that end the program, may crash it, or lead to a loop with odd readers. *)
Variants ==
    {[Good EXCEPT !.debug = d, !.daemon = b, !.polling_time = p] :
        d \in BOOLEAN \cup {NULL}, b \in BOOLEAN \cup {NULL}, p \in {2, NULL}}
    \cup {[Good EXCEPT !.parses = FALSE], [Good EXCEPT !.gatesrvd = FALSE]}
    \cup {[Good EXCEPT !.readers = n, !.blocks = b] : n \in {-1, 0, 1, 3, NULL}, b \in {0, 1, 3}}
    \cup {[Good EXCEPT !.module = m, !.overlong = c] : m \in Modules, c \in SUBSET Copies}
    \cup {[Good EXCEPT !.keyless = {l}, !.module = m, !.blocks = b] :
              l \in Lookups, m \in {"nem_execute", "nem_dbus"}, b \in {0, 1}}

MCContents == {[f \in FileNames |-> IF f = DefaultFile THEN v ELSE Good] : v \in Variants}
=============================================================================
