----------------------------- MODULE NemExecute -----------------------------
(***************************************************************************)
(* The module nem_execute (src/modules/nem_execute.c): the event handler   *)
(* that runs the configured commands of an event one after the other, each *)
(* in a shell of its own, and reacts to a failing one as on_error says.    *)
(* The world decides how each command ends and whether a signal interrupts *)
(* the wait for it.                                                        *)
(***************************************************************************)
EXTENDS Naturals, Sequences

CONSTANTS
    Commands,        \* the strings of the "action" lists
    TaggedCommands,  \* those in which "$TAG_UID" occurs
    Tags,            \* the tags the handler can be called for
    NULL,            \* the null pointer; also: no "event" block
    Configs,         \* the configurations of the module
    SigchldIgnored   \* TRUE: the daemon was started with SIGCHLD ignored,
                     \* so that its children leave no status behind

Events == {"tag_insert", "tag_remove", "init_ctl"}
OnErrors == {"ignore", "return", "quit", "absent", "invalid"}
Blocks == [on_error : OnErrors, action : Seq(Commands)]

ASSUME ConfigsAssumption == Configs \subseteq [Events -> Blocks \cup {NULL}]
ASSUME CommandsAssumption == TaggedCommands \subseteq Commands
ASSUME NullAssumption == NULL \notin Tags /\ NULL \notin Blocks
ASSUME SigchldAssumption == SigchldIgnored \in BOOLEAN

VARIABLES
    config,     \* the module's configuration block, never changed
    pc,         \* "idle", "next", "wait", "eintr", "return", "quit", "exited"
    tag,        \* the argument tag
    block,      \* myblock
    actionlist, \* the rest of the action list, the current one included
    tag_uid,    \* _tag_uid
    procs       \* the shells of this call, in the order of the forks

vars == <<config, pc, tag, block, actionlist, tag_uid, procs>>

(* A shell is running, a zombie, or gone; "ok" is whether it ended with    *)
(* status 0.  A fork() that fails leaves a process that is gone at once.   *)
Processes ==
    [command : Commands, uid : Tags \cup {NULL},
     state : {"running", "zombie", "gone"}, ok : BOOLEAN]

(* The switch over cmd; the other commands have no event.                  *)
EventOf ==
    [CMD_PASS_SUCCESS |-> "tag_insert", CMD_PASS_DENIED |-> "tag_remove", CMD_INIT_GATE |-> "init_ctl"]

(* A missing or an unknown on_error counts as "ignore".                    *)
OnError(b) == IF b.on_error \in {"return", "quit"} THEN b.on_error ELSE "ignore"

InMySystem == pc \in {"wait", "eintr"}
Busy == pc \notin {"idle", "exited"}
Current == Len(procs)

-----------------------------------------------------------------------------
Init ==
    /\ config \in Configs
    /\ pc = "idle"
    /\ tag = NULL
    /\ block = NULL
    /\ actionlist = <<>>
    /\ tag_uid = NULL
    /\ procs = <<>>

(* The "event" block that the call looks up, NULL if there is none.        *)
MyBlock(cmd) == IF cmd \in DOMAIN EventOf THEN config[EventOf[cmd]] ELSE NULL

(* A call with actions to run starts with the first; others return at once.*)
Lookup(b) ==
    /\ block' = b
    /\ actionlist' = IF b = NULL THEN <<>> ELSE b.action
    /\ pc' = IF actionlist' = <<>> THEN "return" ELSE "next"

(* _tag_uid is freed for a CMD_PASS_SUCCESS, and would keep dangling; the  *)
(* call of tag_get_uid() that would set it is commented out.               *)
Call(cmd, t) ==
    /\ pc = "idle"
    /\ Lookup(MyBlock(cmd))
    /\ tag' = t
    /\ procs' = <<>>
    /\ UNCHANGED <<config, tag_uid>>

(* The command the shell gets: "$TAG_UID" is replaced by the UID, by       *)
(* nothing if there is none.                                               *)
strsubst(command, state, ok) ==
    [command |-> command, state |-> state, ok |-> ok,
     uid |-> IF command \in TaggedCommands THEN tag_uid ELSE NULL]

(* What follows my_system(): the next action, or on_error.  (The variants  *)
(* before Evaluate are what a bug could make of it: running past the end   *)
(* of the list, quitting where it should return, repeating what failed.)   *)
EvaluatePastEnd(success) ==
    /\ actionlist' = Tail(actionlist)
    /\ pc' = IF success \/ OnError(block) = "ignore" THEN "next" ELSE OnError(block)
    /\ UNCHANGED <<config, tag, block, tag_uid>>

EvaluateQuits(success) ==
    /\ actionlist' = Tail(actionlist)
    /\ pc' = IF success \/ OnError(block) = "ignore"
             THEN IF Tail(actionlist) = <<>> THEN "return" ELSE "next"
             ELSE "quit"
    /\ UNCHANGED <<config, tag, block, tag_uid>>

EvaluateRepeats(success) ==
    /\ actionlist' = IF success THEN Tail(actionlist) ELSE actionlist
    /\ pc' = IF success \/ OnError(block) = "ignore"
             THEN IF actionlist' = <<>> THEN "return" ELSE "next"
             ELSE OnError(block)
    /\ UNCHANGED <<config, tag, block, tag_uid>>

Evaluate(success) ==
    /\ actionlist' = Tail(actionlist)
    /\ pc' = IF success \/ OnError(block) = "ignore"
             THEN IF Tail(actionlist) = <<>> THEN "return" ELSE "next"
             ELSE OnError(block)
    /\ UNCHANGED <<config, tag, block, tag_uid>>

Fork ==
    /\ pc = "next"
    /\ procs' = Append(procs, strsubst(Head(actionlist), "running", FALSE))
    /\ pc' = "wait"
    /\ UNCHANGED <<config, tag, block, actionlist, tag_uid>>

ForkFails ==
    /\ pc = "next"
    /\ procs' = Append(procs, strsubst(Head(actionlist), "gone", FALSE))
    /\ Evaluate(FALSE)

(* waitpid() returns once the shell has ended: with its status, or with    *)
(* ECHILD, which counts as a failure, if SIGCHLD is ignored.               *)
WaitReturns ==
    /\ pc = "wait"
    /\ procs[Current].state = "zombie"
    /\ procs' = [procs EXCEPT ![Current].state = "gone"]
    /\ Evaluate(procs[Current].ok /\ ~SigchldIgnored)

(* After EINTR, waitpid() is called again.  (The variants take EINTR for a *)
(* failure, or do not call it again.)                                      *)
RetryGivesUp ==
    /\ pc = "eintr"
    /\ Evaluate(FALSE)
    /\ UNCHANGED procs

RetryForever ==
    /\ pc = "eintr"
    /\ UNCHANGED vars

Retry ==
    /\ pc = "eintr"
    /\ pc' = "wait"
    /\ UNCHANGED <<config, tag, block, actionlist, tag_uid, procs>>

Return ==
    /\ pc = "return"
    /\ pc' = "idle"
    /\ UNCHANGED <<config, tag, block, actionlist, tag_uid, procs>>

Quit ==
    /\ pc = "quit"
    /\ pc' = "exited"
    /\ UNCHANGED <<config, tag, block, actionlist, tag_uid, procs>>

-----------------------------------------------------------------------------
(* The world: a shell ends, a signal interrupts the wait for it.           *)

ShellEnds(k, ok) ==
    /\ procs[k].state = "running"
    /\ procs' = [procs EXCEPT ![k].state = "zombie", ![k].ok = ok]
    /\ UNCHANGED <<config, pc, tag, block, actionlist, tag_uid>>

Interrupt ==
    /\ pc = "wait"
    /\ procs[Current].state = "running"
    /\ pc' = "eintr"
    /\ UNCHANGED <<config, tag, block, actionlist, tag_uid, procs>>

World ==
    \/ Interrupt
    \/ \E k \in DOMAIN procs, ok \in BOOLEAN : ShellEnds(k, ok)

(* The steps inside a call but its end.                                    *)
Inside == Fork \/ ForkFails \/ WaitReturns \/ Retry

(* The two calls that gatesrvd makes, here in any order and number: for    *)
(* the gate, without a tag, and for a tag that has come into the field.    *)
InitGate == Call("CMD_INIT_GATE", NULL)
PassSuccess == \E t \in Tags : Call("CMD_PASS_SUCCESS", t)

Next == InitGate \/ PassSuccess \/ Inside \/ Return \/ Quit \/ World

(* A call that can go on does; who calls it, how long a command runs and   *)
(* how often it is interrupted is not up to the module.                    *)
Fairness == WF_vars(Inside \/ Return \/ Quit)

Spec == Init /\ [][Next]_vars /\ Fairness
SafeSpec == Init /\ [][Next]_vars

-----------------------------------------------------------------------------
(* Properties.                                                             *)

(* The types of the variables, and what each place of the handler knows:   *)
(* between two actions there is one left, in my_system() there is one      *)
(* being run.                                                              *)
TypeOK ==
    /\ config \in Configs
    /\ pc \in {"idle", "next", "wait", "eintr", "return", "quit", "exited"}
    /\ tag \in Tags \cup {NULL}
    /\ block \in Blocks \cup {NULL}
    /\ actionlist \in Seq(Commands)
    /\ tag_uid = NULL
    /\ procs \in Seq(Processes)
    /\ pc = "next" \/ InMySystem => actionlist # <<>> /\ block # NULL
    /\ InMySystem => procs # <<>> /\ procs[Current].command = Head(actionlist)

(* my_system() waits for the shell it has started, EINTR or not: outside   *)
(* of it none is running or unreaped, inside of it only the last one.      *)
OneShellAtATime ==
    \A k \in DOMAIN procs : procs[k].state # "gone" => InMySystem /\ k = Current

CommandsRun == [k \in DOMAIN procs |-> procs[k].command]

(* "they will be executed in turn" (conf/gatesrvd.conf:51): at any time    *)
(* the commands run so far and those left make up the list of the event.   *)
ActionsInTurn ==
    block # NULL =>
        block.action = CommandsRun \o (IF InMySystem THEN Tail(actionlist) ELSE actionlist)

Failures == {k \in DOMAIN procs : procs[k].state = "gone" /\ ~procs[k].ok}

(* "ignore: continue to next action, return: end action sequence, quit:    *)
(* end program" (conf/gatesrvd.conf:45-47), as long as the status of the   *)
(* shells can be read: the handler returns or quits early for a failure of *)
(* the last command only, and never passes over one it should react to.    *)
OnErrorHonoured ==
    ~SigchldIgnored =>
        /\ pc = "next" /\ OnError(block) # "ignore" => Failures = {}
        /\ pc = "return" /\ block # NULL =>
            \/ actionlist = <<>> /\ (OnError(block) = "ignore" \/ Failures = {})
            \/ OnError(block) = "return" /\ Failures = {Current}
        /\ pc \in {"quit", "exited"} =>
            OnError(block) = "quit" /\ Failures = {Current}

(* No command runs forever.                                                *)
CommandsEnd == []<>(\A k \in DOMAIN procs : procs[k].state # "running")

(* If no command runs forever, every call returns or ends the program,     *)
(* however often the wait is interrupted.                                  *)
CallsEnd == CommandsEnd => (Busy ~> ~Busy)
=============================================================================
