----------------------------- MODULE ReaderLoop -----------------------------
(***************************************************************************)
(* The main loop of gatesrvd (src/gatesrvd.c, main, execute_event and      *)
(* ned_get_tag) with the world it observes: readers that are plugged and   *)
(* unplugged, tags that enter and leave their fields.  The loop is one     *)
(* thread; the world moves between any two of its steps.  The event        *)
(* handler of the loaded module is seen from the outside: it is called,    *)
(* and later it returns or ends the process.                               *)
(***************************************************************************)
EXTENDS Naturals

CONSTANTS
    NumReaders,   \* the option "readers" of the configuration file
    Tags,         \* the tags that exist, a tag standing for its UID
    NULL,         \* the null pointer
    Device,       \* a pointer that nfc_connect() has returned
    Garbage,      \* a pointer nobody has stored: what malloc() left there
    HeapCleared,  \* TRUE: the memory main() gets from malloc() reads as zero
    LossySelect   \* TRUE: one select may miss a tag that is in the field

ASSUME ReadersAssumption == NumReaders \in Nat \ {0}
ASSUME PointersAssumption ==
    /\ NULL # Device /\ NULL # Garbage /\ Device # Garbage
    /\ NULL \notin Tags /\ Garbage \notin Tags
ASSUME SwitchesAssumption == HeapCleared \in BOOLEAN /\ LossySelect \in BOOLEAN

Readers == 0 .. NumReaders - 1

VARIABLES
    pc,           \* where main() is, see Locations
    idx,          \* the loop variable i
    device_list,  \* the handles, one per reader
    oldtag_list,  \* the tag each reader is believed to hold
    new_tag,      \* what ned_get_tag() returned
    attached,     \* world: nfc_connect() would find and open the reader
    usable,       \* world: the stored handle reaches the hardware
    field,        \* world: the tags lying in the field of the reader
    served        \* history: the tags that caused a CMD_PASS_SUCCESS and
                  \* have neither left the field nor lost the reader since

program == <<pc, idx, device_list, oldtag_list, new_tag>>
world == <<attached, usable, field>>
vars == <<program, world, served>>

(* "init": about to call the handler with CMD_INIT_GATE.  "init_ctl" and   *)
(* "tag_insert": inside the handler.  "sleep": in sleep(polling_time).     *)
(* "scan": at the top of the body of the for loop.                         *)
Handling == pc \in {"init_ctl", "tag_insert"}
Stopped == pc \in {"exited", "crashed"}
Locations == {"init", "sleep", "scan", "init_ctl", "tag_insert", "exited", "crashed"}

-----------------------------------------------------------------------------
(* malloc() in lines 331-333 is followed by no memset().                   *)
Uninitialised == IF HeapCleared THEN {NULL} ELSE {NULL, Garbage}

Init ==
    /\ pc = "init"
    /\ idx = 0
    /\ device_list \in [Readers -> Uninitialised]
    /\ oldtag_list \in [Readers -> Uninitialised]
    /\ new_tag = NULL
    /\ attached \in [Readers -> BOOLEAN]
    /\ usable = [r \in Readers |-> FALSE]
    /\ field = [r \in Readers |-> {}]
    /\ served = [r \in Readers |-> {}]

-----------------------------------------------------------------------------
(* The world.                                                              *)

TagEnter(r, t) ==
    /\ \A q \in Readers : t \notin field[q]
    /\ field' = [field EXCEPT ![r] = @ \cup {t}]
    /\ UNCHANGED <<program, attached, usable, served>>

TagLeave(r, t) ==
    /\ t \in field[r]
    /\ field' = [field EXCEPT ![r] = @ \ {t}]
    /\ served' = [served EXCEPT ![r] = @ \ {t}]
    /\ UNCHANGED <<program, attached, usable>>

Attach(r) ==
    /\ ~attached[r]
    /\ attached' = [attached EXCEPT ![r] = TRUE]
    /\ UNCHANGED <<program, usable, field, served>>

(* The handle the program keeps for r is dead from now on.                 *)
Detach(r) ==
    /\ attached[r]
    /\ attached' = [attached EXCEPT ![r] = FALSE]
    /\ usable' = [usable EXCEPT ![r] = FALSE]
    /\ served' = [served EXCEPT ![r] = {}]
    /\ UNCHANGED <<program, field>>

World ==
    \E r \in Readers :
        \/ Attach(r)
        \/ Detach(r)
        \/ \E t \in Tags : TagEnter(r, t) \/ TagLeave(r, t)

-----------------------------------------------------------------------------
(* The program.                                                            *)

(* The tags the radio behind the handle of r can select.                   *)
Reachable(r) == IF usable[r] THEN field[r] ELSE {}

Missed == IF LossySelect THEN {NULL} ELSE {}

(* (The first definition is a variant for the second that forgets the UID  *)
(* of tag, see below.)                                                     *)
ned_get_tag_AnyTag(r, tag) ==
    IF Reachable(r) = {} THEN {NULL} ELSE Reachable(r) \cup Missed

(* What ned_get_tag(device_list[r], tag) may return: any tag within reach  *)
(* when tag is NULL, else only that very tag.                              *)
ned_get_tag(r, tag) ==
    LET wanted == IF tag = NULL THEN Reachable(r) ELSE Reachable(r) \cap {tag}
    IN  IF wanted = {} THEN {NULL} ELSE wanted \cup Missed

(* The end of the body of the for loop.                                    *)
NextReader ==
    /\ idx' = idx + 1
    /\ pc' = IF idx + 1 = NumReaders THEN "sleep" ELSE "scan"

Poll(tag) ==
    /\ pc = "scan"
    /\ device_list[idx] # NULL
    /\ tag \in ned_get_tag(idx, oldtag_list[idx])
    /\ new_tag' = tag

(* Variants of the actions below that a bug could turn them into: the loop *)
(* variable not reset, the device not stored, the removal or the insertion *)
(* not recorded.  No specification uses them: with one of them in the      *)
(* place of the action, a property of this module must fail.               *)
WakeKeepsIndex ==
    /\ pc = "sleep"
    /\ pc' = "scan"
    /\ UNCHANGED <<idx, device_list, oldtag_list, new_tag, world, served>>

ConnectNotStored ==
    /\ pc = "scan"
    /\ device_list[idx] = NULL
    /\ attached[idx]
    /\ NextReader
    /\ UNCHANGED <<device_list, oldtag_list, new_tag, world, served>>

PollRemovedNotRecorded ==
    /\ Poll(NULL)
    /\ oldtag_list[idx] # NULL
    /\ NextReader
    /\ UNCHANGED <<device_list, oldtag_list, world, served>>

InsertReturnsNotRecorded ==
    /\ pc = "tag_insert"
    /\ NextReader
    /\ UNCHANGED <<device_list, oldtag_list, new_tag, world, served>>

CallInitGate ==
    /\ pc = "init"
    /\ pc' = "init_ctl"
    /\ UNCHANGED <<idx, device_list, oldtag_list, new_tag, world, served>>

Wake ==
    /\ pc = "sleep"
    /\ pc' = "scan"
    /\ idx' = 0
    /\ UNCHANGED <<device_list, oldtag_list, new_tag, world, served>>

(* nfc_connect() returns a device, which is configured and stored.         *)
ConnectOk ==
    /\ pc = "scan"
    /\ device_list[idx] = NULL
    /\ attached[idx]
    /\ device_list' = [device_list EXCEPT ![idx] = Device]
    /\ usable' = [usable EXCEPT ![idx] = TRUE]
    /\ NextReader
    /\ UNCHANGED <<oldtag_list, new_tag, attached, field, served>>

(* nfc_connect() returns NULL: the reader is tried again in the next cycle.*)
ConnectFails ==
    /\ pc = "scan"
    /\ device_list[idx] = NULL
    /\ ~attached[idx]
    /\ NextReader
    /\ UNCHANGED <<device_list, oldtag_list, new_tag, world, served>>

PollUnchanged ==
    /\ Poll(oldtag_list[idx])
    /\ NextReader
    /\ UNCHANGED <<device_list, oldtag_list, world, served>>

(* EVENT_TAG_REMOVED is only logged, no handler is called.                 *)
PollRemoved ==
    /\ Poll(NULL)
    /\ oldtag_list[idx] # NULL
    /\ oldtag_list' = [oldtag_list EXCEPT ![idx] = NULL]
    /\ NextReader
    /\ UNCHANGED <<device_list, world, served>>

(* EVENT_TAG_INSERTED: the handler is called with CMD_PASS_SUCCESS.        *)
(* oldtag_list is written only after it has returned.                      *)
PollInserted(tag) ==
    /\ Poll(tag)
    /\ tag # oldtag_list[idx]
    /\ pc' = "tag_insert"
    /\ served' = [served EXCEPT ![idx] = @ \cup {tag}]
    /\ UNCHANGED <<idx, device_list, oldtag_list, world>>

(* ned_get_tag() follows a pointer that was never stored: the handle in    *)
(* the select, the old tag for its modulation and UID.  When the process   *)
(* survives it, the select fails: PollUnchanged and PollRemoved cover it.  *)
PollCrashes ==
    /\ pc = "scan"
    /\ \/ device_list[idx] = Garbage
       \/ device_list[idx] # NULL /\ oldtag_list[idx] = Garbage
    /\ pc' = "crashed"
    /\ UNCHANGED <<idx, device_list, oldtag_list, new_tag, world, served>>

(* The handler returns; what it returns is ignored.                        *)
InitGateReturns ==
    /\ pc = "init_ctl"
    /\ pc' = "sleep"
    /\ UNCHANGED <<idx, device_list, oldtag_list, new_tag, world, served>>

InsertReturns ==
    /\ pc = "tag_insert"
    /\ oldtag_list' = [oldtag_list EXCEPT ![idx] = new_tag]
    /\ NextReader
    /\ UNCHANGED <<device_list, new_tag, world, served>>

HandlerReturn == InitGateReturns \/ InsertReturns

(* The handler calls exit().                                               *)
HandlerQuit ==
    /\ Handling
    /\ pc' = "exited"
    /\ UNCHANGED <<idx, device_list, oldtag_list, new_tag, world, served>>

(* The steps main() takes by itself; when the handler ends is up to it.    *)
Main ==
    \/ CallInitGate
    \/ Wake
    \/ ConnectOk
    \/ ConnectFails
    \/ PollUnchanged
    \/ PollRemoved
    \/ \E t \in Tags : PollInserted(t)
    \/ PollCrashes

Handler == HandlerReturn \/ HandlerQuit

Next == World \/ Main \/ Handler

(* Nothing but a handler that does not come back keeps main() from its     *)
(* next step: sleep() and every libnfc call return.                        *)
Fairness == WF_vars(Main)

Spec == Init /\ [][Next]_vars /\ Fairness
SafeSpec == Init /\ [][Next]_vars

-----------------------------------------------------------------------------
(* Properties.                                                             *)

(* The types of the variables; in the body of the for loop there is a      *)
(* reader, and in the handler of an insertion a tag.                       *)
TypeOK ==
    /\ pc \in Locations
    /\ idx \in 0 .. NumReaders
    /\ pc \in {"scan", "tag_insert"} => idx \in Readers
    /\ device_list \in [Readers -> {NULL, Device, Garbage}]
    /\ oldtag_list \in [Readers -> Tags \cup {NULL, Garbage}]
    /\ new_tag \in Tags \cup {NULL}
    /\ pc = "tag_insert" => new_tag \in Tags
    /\ attached \in [Readers -> BOOLEAN]
    /\ usable \in [Readers -> BOOLEAN]
    /\ field \in [Readers -> SUBSET Tags]
    /\ served \in [Readers -> SUBSET Tags]

(* The tag main() has acted upon at reader r: while the handler runs it is *)
(* still in new_tag, afterwards in oldtag_list.                            *)
Reported(r) ==
    IF Stopped THEN NULL
    ELSE IF pc = "tag_insert" /\ idx = r THEN new_tag
    ELSE IF oldtag_list[r] \in Tags THEN oldtag_list[r] ELSE NULL

(* As long as no select is missed, the tags served at a reader and still   *)
(* there are at most the one tag the daemon has on record for it.          *)
ServedIsReported ==
    ~LossySelect /\ ~Stopped =>
        \A r \in Readers : served[r] \subseteq {Reported(r)} \cap Reachable(r)

(* main() hands tag t of reader r to the handler in this step.             *)
NewPass(r, t) ==
    /\ pc = "scan"
    /\ pc' = "tag_insert"
    /\ idx = r
    /\ new_tag' = t

(* One pass per presentation: as long as no select is missed, a tag that   *)
(* was handed to the handler is not handed to it again until it has left   *)
(* the field or the reader was unplugged, whatever other tags do meanwhile *)
(* (lines 303-317 and 425-432).                                            *)
OncePerPresentation ==
    [][~LossySelect =>
        \A r \in Readers, t \in Tags : NewPass(r, t) => t \notin served[r]]_vars

(* The loop does what GateEvents promises, readers being reachable through *)
(* usable handles only.                                                    *)
Promise == INSTANCE GateEvents WITH
    Lossy <- LossySelect,
    up <- ~Stopped,
    present <- [r \in Readers |-> Reachable(r)],
    reported <- [r \in Readers |-> Reported(r)]

(* Every step of the loop and of the world is one of GateEvents, or none:  *)
(* a tag is reported only within reach and after the last one of that      *)
(* reader was forgotten, and forgotten only when a poll did not find it.   *)
Refinement == Promise!Spec

(* The handler ends whenever it is called.                                 *)
HandlerEnds == []<>~Handling

(* With handlers that end, a tag that stays alone on a connected reader    *)
(* gets recorded for good, and a tag that is gone, or whose reader is      *)
(* gone, gets forgotten for good.                                          *)
EventuallyAccurate == HandlerEnds => Promise!Liveness

(* With handlers that end, a reader that was never connected and is        *)
(* plugged in for good gets connected (lines 387-418: it is tried again in *)
(* every cycle), whatever the other readers do.                            *)
FirstConnect ==
    HandlerEnds =>
        \A r \in Readers : <>[]attached[r] => <>(Stopped \/ device_list[r] # NULL)

(* With handlers that end, every reader that is plugged in for good is in  *)
(* service from some time on.  "Wait endlessly for all events in the list  *)
(* of readers" (line 368) asks for it.                                     *)
PluggedReadersServe ==
    HandlerEnds =>
        \A r \in Readers : <>[]attached[r] => <>[](Stopped \/ usable[r])
=============================================================================
