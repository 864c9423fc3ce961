------------------------------ MODULE Gatesrvd ------------------------------
(***************************************************************************)
(* The daemon with the module nem_execute loaded: the main loop of         *)
(* ReaderLoop calls the event handler of NemExecute, in its own thread, so *)
(* that it stands still until the handler has come back.                   *)
(***************************************************************************)
EXTENDS Naturals, Sequences

CONSTANTS
    NumReaders, Tags, NULL, Device, Garbage, HeapCleared, LossySelect,
    Commands, TaggedCommands, Configs, SigchldIgnored

(* What ReaderLoop and NemExecute assume of them.                          *)
ASSUME ReadersAssumption == NumReaders \in Nat \ {0}
ASSUME PointersAssumption ==
    /\ NULL # Device /\ NULL # Garbage /\ Device # Garbage
    /\ NULL \notin Tags /\ Garbage \notin Tags
ASSUME SwitchesAssumption ==
    HeapCleared \in BOOLEAN /\ LossySelect \in BOOLEAN /\ SigchldIgnored \in BOOLEAN

VARIABLES
    main_pc, idx, device_list, oldtag_list, new_tag,
    attached, usable, field, served,
    nem_pc, config, tag, block, actionlist, tag_uid, procs

Loop == INSTANCE ReaderLoop WITH pc <- main_pc
Nem == INSTANCE NemExecute WITH pc <- nem_pc

loopVars ==
    <<main_pc, idx, device_list, oldtag_list, new_tag, attached, usable, field, served>>
nemVars == <<config, nem_pc, tag, block, actionlist, tag_uid, procs>>

ASSUME ConfigsAssumption == Configs \subseteq [Nem!Events -> Nem!Blocks \cup {NULL}]
ASSUME CommandsAssumption == TaggedCommands \subseteq Commands /\ NULL \notin Nem!Blocks

vars == <<loopVars, nemVars>>

Init == Loop!Init /\ Nem!Init

-----------------------------------------------------------------------------
(* The calls of the event handler of the module, and their ends.           *)

StartInitGate ==
    /\ Loop!CallInitGate
    /\ Nem!Call("CMD_INIT_GATE", NULL)

(* (The variant passes oldtag_list[i] in the place of new_tag.)            *)
StartInsertWithOldTag(t) ==
    /\ Loop!PollInserted(t)
    /\ Nem!Call("CMD_PASS_SUCCESS", Loop!Reported(idx))

StartInsert(t) ==
    /\ Loop!PollInserted(t)
    /\ Nem!Call("CMD_PASS_SUCCESS", t)

EndOfCall ==
    /\ Loop!HandlerReturn
    /\ Nem!Return

EndOfProcess ==
    /\ Loop!HandlerQuit
    /\ Nem!Quit

-----------------------------------------------------------------------------
(* The steps of one component alone.                                       *)

InLoop ==
    /\ \/ Loop!Wake
       \/ Loop!ConnectOk
       \/ Loop!ConnectFails
       \/ Loop!PollUnchanged
       \/ Loop!PollRemoved
       \/ Loop!PollCrashes
    /\ UNCHANGED nemVars

InHandler ==
    /\ Nem!Inside
    /\ UNCHANGED loopVars

World ==
    \/ Loop!World /\ UNCHANGED nemVars
    \/ Nem!World /\ UNCHANGED loopVars

Program ==
    \/ StartInitGate
    \/ \E t \in Tags : StartInsert(t)
    \/ EndOfCall
    \/ EndOfProcess
    \/ InLoop
    \/ InHandler

Next == Program \/ World

(* One thread that goes on whenever it can.                                *)
Fairness == WF_vars(Program)

Spec == Init /\ [][Next]_vars /\ Fairness
SafeSpec == Init /\ [][Next]_vars

-----------------------------------------------------------------------------
(* Properties.                                                             *)

(* The loop and the handler agree on who is running and for which tag, and *)
(* the handler of an insertion runs the actions of "tag_insert".           *)
CallsMatch ==
    /\ Loop!Handling <=> Nem!Busy
    /\ main_pc = "tag_insert" =>
        /\ tag = new_tag
        /\ block = config["tag_insert"]
    /\ main_pc = "init_ctl" => tag = NULL /\ block = config["init_ctl"]
    /\ nem_pc = "exited" => main_pc = "exited"

(* With nem_execute as its handler, the loop does what GateEvents promises.*)
KeepsPromise == Loop!Refinement

Running == \E k \in DOMAIN procs : procs[k].state = "running"

(* While a command runs, the loop stands still: no reader is connected or  *)
(* polled and no tag gets recorded or forgotten before the commands of the *)
(* last event have ended (nem_execute.c:70-74, gatesrvd.c:152).            *)
NoPollingDuringCommands == [][Running => UNCHANGED <<idx, device_list, oldtag_list>>]_vars

(* When the insertion of t has been recorded, its actions have all been    *)
(* run or ended as on_error says: a tag on record is one whose call has    *)
(* come back.                                                              *)
RecordedAfterActions ==
    [][\A r \in Loop!Readers :
        oldtag_list'[r] # oldtag_list[r] /\ oldtag_list'[r] \in Tags =>
            /\ tag = oldtag_list'[r]
            /\ \A k \in DOMAIN procs : procs[k].state = "gone"
            /\ block # NULL /\ Nem!OnError(block) = "ignore" =>
                   Len(procs) = Len(block.action)]_vars

(* If no command runs forever, every reader comes up again and again,      *)
(* until the process ends: neither the handler nor another reader keeps    *)
(* the loop from it (line 385).                                            *)
KeepsPolling ==
    Nem!CommandsEnd =>
        \A r \in Loop!Readers : []<>(Loop!Stopped \/ (main_pc = "scan" /\ idx = r))
=============================================================================
