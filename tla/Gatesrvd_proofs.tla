-------------------------- MODULE Gatesrvd_proofs --------------------------
(***************************************************************************)
(* Theorems about the daemon with nem_execute loaded: what is proved of    *)
(* the main loop and of the handler alone holds of the two together, and   *)
(* they agree on every call.                                               *)
(***************************************************************************)
EXTENDS Gatesrvd, SequenceTheorems, TLAPS

LoopProofs == INSTANCE ReaderLoop_proofs WITH pc <- main_pc
NemProofs == INSTANCE NemExecute_proofs WITH pc <- nem_pc

-----------------------------------------------------------------------------
(* The daemon implements each of its two components.                       *)

(* Every step of the daemon is one of the main loop, or leaves it alone.   *)
LEMMA StepsOfLoop == [Next]_vars => [Loop!Next]_loopVars
  BY DEF Next, Program, StartInitGate, StartInsert, EndOfCall, EndOfProcess, InLoop, InHandler,
         World, Loop!Next, Loop!Main, Loop!Handler, vars

(* Every step of the daemon is one of the handler, or leaves it alone.     *)
LEMMA StepsOfHandler == [Next]_vars => [Nem!Next]_nemVars
  BY DEF Next, Program, StartInitGate, StartInsert, EndOfCall, EndOfProcess, InLoop, InHandler,
         World, Nem!Next, Nem!InitGate, Nem!PassSuccess, vars

(* Loop and LoopProofs are two instances of the same definitions.          *)
LEMMA SameLoop ==
    /\ Loop!Init <=> LoopProofs!Init
    /\ [Loop!Next]_loopVars => [LoopProofs!Next]_LoopProofs!vars
<1>1. Loop!Init <=> LoopProofs!Init
  BY DEF Loop!Init, LoopProofs!Init, Loop!Readers, LoopProofs!Readers,
         Loop!Uninitialised, LoopProofs!Uninitialised
<1>2. [Loop!Next]_loopVars => [LoopProofs!Next]_LoopProofs!vars
  BY DEF loopVars, Loop!Next, LoopProofs!Next, Loop!World, LoopProofs!World,
         Loop!Attach, LoopProofs!Attach, Loop!Detach, LoopProofs!Detach,
         Loop!TagEnter, LoopProofs!TagEnter, Loop!TagLeave, LoopProofs!TagLeave,
         Loop!Main, LoopProofs!Main, Loop!CallInitGate, LoopProofs!CallInitGate,
         Loop!Wake, LoopProofs!Wake, Loop!ConnectOk, LoopProofs!ConnectOk,
         Loop!ConnectFails, LoopProofs!ConnectFails,
         Loop!PollUnchanged, LoopProofs!PollUnchanged,
         Loop!PollRemoved, LoopProofs!PollRemoved,
         Loop!PollInserted, LoopProofs!PollInserted,
         Loop!PollCrashes, LoopProofs!PollCrashes, Loop!Handler, LoopProofs!Handler,
         Loop!HandlerReturn, LoopProofs!HandlerReturn,
         Loop!InitGateReturns, LoopProofs!InitGateReturns,
         Loop!InsertReturns, LoopProofs!InsertReturns,
         Loop!HandlerQuit, LoopProofs!HandlerQuit, Loop!Handling, LoopProofs!Handling,
         Loop!NextReader, LoopProofs!NextReader, Loop!Poll, LoopProofs!Poll,
         Loop!ned_get_tag, LoopProofs!ned_get_tag, Loop!Reachable, LoopProofs!Reachable,
         Loop!Missed, LoopProofs!Missed, Loop!Readers, LoopProofs!Readers,
         Loop!program, LoopProofs!program, Loop!world, LoopProofs!world,
         Loop!vars, LoopProofs!vars
<1> QED BY <1>1, <1>2

(* So are Nem and NemProofs.                                               *)
LEMMA SameHandler ==
    /\ Nem!Init <=> NemProofs!Init
    /\ [Nem!Next]_nemVars => [NemProofs!Next]_NemProofs!vars
<1>1. Nem!Init <=> NemProofs!Init
  BY DEF Nem!Init, NemProofs!Init
<1>2. [Nem!Next]_nemVars => [NemProofs!Next]_NemProofs!vars
  BY DEF nemVars, Nem!Next, NemProofs!Next, Nem!InitGate, NemProofs!InitGate,
         Nem!PassSuccess, NemProofs!PassSuccess, Nem!Call, NemProofs!Call,
         Nem!Lookup, NemProofs!Lookup, Nem!MyBlock, NemProofs!MyBlock,
         Nem!EventOf, NemProofs!EventOf,
         Nem!Inside, NemProofs!Inside, Nem!Fork, NemProofs!Fork,
         Nem!ForkFails, NemProofs!ForkFails, Nem!WaitReturns, NemProofs!WaitReturns,
         Nem!Retry, NemProofs!Retry, Nem!Return, NemProofs!Return, Nem!Quit, NemProofs!Quit,
         Nem!World, NemProofs!World, Nem!Interrupt, NemProofs!Interrupt,
         Nem!ShellEnds, NemProofs!ShellEnds, Nem!Evaluate, NemProofs!Evaluate,
         Nem!OnError, NemProofs!OnError, Nem!strsubst, NemProofs!strsubst,
         Nem!Current, NemProofs!Current, Nem!vars, NemProofs!vars
<1> QED BY <1>1, <1>2

(* What the daemon does is a run of the main loop with some event handler. *)
LEMMA DaemonRunsLoop == SafeSpec => LoopProofs!SafeSpec
  BY StepsOfLoop, SameLoop, PTL DEF SafeSpec, Init, LoopProofs!SafeSpec

(* And it is a run of the handler with some caller.                        *)
LEMMA DaemonRunsHandler == SafeSpec => NemProofs!SafeSpec
  BY StepsOfHandler, SameHandler, PTL DEF SafeSpec, Init, NemProofs!SafeSpec
(* The assumptions of NemExecute hold of its constants here.               *)
LEMMA HandlerAssumptions ==
    /\ Configs \subseteq [NemProofs!Events -> NemProofs!Blocks \cup {NULL}]
    /\ TaggedCommands \subseteq Commands
    /\ NULL \notin Tags /\ NULL \notin NemProofs!Blocks
    /\ SigchldIgnored \in BOOLEAN
  BY ConfigsAssumption, CommandsAssumption, PointersAssumption, SwitchesAssumption
     DEF NemProofs!Events, NemProofs!Blocks, NemProofs!OnErrors, Nem!Events, Nem!Blocks, Nem!OnErrors

(* So its invariants hold of every run of the handler.                     *)
LEMMA HandlerInvariants ==
    /\ NemProofs!SafeSpec => []NemProofs!TypeOK
    /\ NemProofs!SafeSpec => []NemProofs!OneShellAtATime
    /\ NemProofs!SafeSpec => []NemProofs!ActionsInTurn
    /\ NemProofs!SafeSpec => []NemProofs!IgnoringRunsAll
<1>1. NemProofs!SafeSpec => []NemProofs!TypeOK
  BY NemProofs!TypeCorrect, HandlerAssumptions
<1>2. NemProofs!SafeSpec => []NemProofs!OneShellAtATime
  BY NemProofs!OneShell, HandlerAssumptions
<1>3. NemProofs!SafeSpec => []NemProofs!ActionsInTurn
  BY NemProofs!InTurn, HandlerAssumptions
<1>4. NemProofs!SafeSpec => []NemProofs!IgnoringRunsAll
  BY NemProofs!RunsAll, HandlerAssumptions
<1> QED BY <1>1, <1>2, <1>3, <1>4

-----------------------------------------------------------------------------

(* With nem_execute as its handler, the loop reports the tags within reach,*)
(* one at a time per reader, and forgets only those it does not find.      *)
THEOREM DaemonKeepsPromise == SafeSpec => KeepsPromise
<1>1. LoopProofs!SafeSpec => LoopProofs!Refinement
  BY LoopProofs!LoopKeepsPromise, ReadersAssumption, PointersAssumption, SwitchesAssumption
<1>2. LoopProofs!Promise!Init => Loop!Promise!Init
  BY DEF Loop!Promise!Init, LoopProofs!Promise!Init,
         Loop!Promise!NoneReported, LoopProofs!Promise!NoneReported,
         Loop!Reachable, LoopProofs!Reachable, Loop!Reported, LoopProofs!Reported,
         Loop!Stopped, LoopProofs!Stopped, Loop!Readers, LoopProofs!Readers
<1>3. [LoopProofs!Promise!Next]_LoopProofs!Promise!vars => [Loop!Promise!Next]_Loop!Promise!vars
  BY DEF Loop!Promise!Next, LoopProofs!Promise!Next,
         Loop!Promise!Move, LoopProofs!Promise!Move,
         Loop!Promise!Stop, LoopProofs!Promise!Stop,
         Loop!Promise!Forget, LoopProofs!Promise!Forget,
         Loop!Promise!Report, LoopProofs!Promise!Report,
         Loop!Promise!NoneReported, LoopProofs!Promise!NoneReported,
         Loop!Promise!vars, LoopProofs!Promise!vars, Loop!Reachable, LoopProofs!Reachable,
         Loop!Reported, LoopProofs!Reported, Loop!Stopped, LoopProofs!Stopped,
         Loop!Readers, LoopProofs!Readers
<1> QED
  BY <1>1, <1>2, <1>3, DaemonRunsLoop, PTL
     DEF KeepsPromise, Loop!Refinement, LoopProofs!Refinement, Loop!Promise!Spec, LoopProofs!Promise!Spec

-----------------------------------------------------------------------------

LEMMA CallsMatchInit == Init => CallsMatch
  BY DEF Init, Loop!Init, Nem!Init, CallsMatch, Loop!Handling, Nem!Busy

LEMMA CallsMatchStep == CallsMatch /\ [Next]_vars => CallsMatch'
<1> SUFFICES ASSUME CallsMatch, [Next]_vars PROVE CallsMatch'
  OBVIOUS
<1> USE DEF CallsMatch, Loop!Handling, Nem!Busy
<1>1. CASE StartInitGate
  <2>1. nem_pc' \in {"next", "return"} /\ tag' = NULL
    BY <1>1 DEF StartInitGate, Nem!Call, Nem!Lookup
  <2>2. block' = config'["init_ctl"]
    BY <1>1 DEF StartInitGate, Nem!Call, Nem!Lookup, Nem!MyBlock, Nem!EventOf
  <2>3. main_pc' = "init_ctl"
    BY <1>1 DEF StartInitGate, Loop!CallInitGate
  <2> QED BY <2>1, <2>2, <2>3
<1>2. ASSUME NEW t \in Tags, StartInsert(t) PROVE CallsMatch'
  <2>1. nem_pc' \in {"next", "return"} /\ tag' = t
    BY <1>2 DEF StartInsert, Nem!Call, Nem!Lookup
  <2>2. block' = config'["tag_insert"]
    BY <1>2 DEF StartInsert, Nem!Call, Nem!Lookup, Nem!MyBlock, Nem!EventOf
  <2>3. main_pc' = "tag_insert" /\ new_tag' = t
    BY <1>2 DEF StartInsert, Loop!PollInserted, Loop!Poll
  <2> QED BY <2>1, <2>2, <2>3
<1>3. CASE EndOfCall
  <2>1. nem_pc' = "idle"
    BY <1>3 DEF EndOfCall, Nem!Return
  <2>2. main_pc' \in {"sleep", "scan"}
    BY <1>3 DEF EndOfCall, Loop!HandlerReturn, Loop!InitGateReturns, Loop!InsertReturns, Loop!NextReader
  <2> QED BY <2>1, <2>2
<1>4. CASE EndOfProcess
  BY <1>4 DEF EndOfProcess, Loop!HandlerQuit, Nem!Quit
<1>5. CASE InLoop
  <2>1. main_pc \in {"sleep", "scan"} /\ main_pc' \in {"sleep", "scan", "crashed"}
    BY <1>5 DEF InLoop, Loop!Wake, Loop!ConnectOk, Loop!ConnectFails, Loop!PollUnchanged,
                Loop!PollRemoved, Loop!PollCrashes, Loop!Poll, Loop!NextReader
  <2>2. UNCHANGED <<config, nem_pc, tag, block>>
    BY <1>5 DEF InLoop, nemVars
  <2> QED BY <2>1, <2>2
<1>6. CASE InHandler
  <2>1. /\ nem_pc \in {"next", "wait", "eintr"}
        /\ nem_pc' \in {"next", "wait", "return", "quit"}
        /\ UNCHANGED <<config, tag, block>>
    BY <1>6 DEF InHandler, Nem!Inside, Nem!Fork, Nem!ForkFails, Nem!WaitReturns, Nem!Retry,
                Nem!Evaluate, Nem!OnError
  <2>2. UNCHANGED <<main_pc, new_tag>>
    BY <1>6 DEF InHandler, loopVars
  <2> QED BY <2>1, <2>2
<1>7. CASE World
  <2>1. UNCHANGED <<main_pc, new_tag, config, tag, block>>
    BY <1>7 DEF World, Loop!World, Loop!Attach, Loop!Detach, Loop!TagEnter, Loop!TagLeave,
                Nem!World, Nem!Interrupt, Nem!ShellEnds, loopVars, nemVars, Loop!program
  <2>2. nem_pc' = nem_pc \/ (nem_pc = "wait" /\ nem_pc' = "eintr")
    BY <1>7 DEF World, Nem!World, Nem!Interrupt, Nem!ShellEnds, nemVars
  <2> QED BY <2>1, <2>2
<1>8. CASE UNCHANGED vars
  BY <1>8 DEF vars, loopVars, nemVars
<1> QED BY <1>1, <1>2, <1>3, <1>4, <1>5, <1>6, <1>7, <1>8 DEF Next, Program

(* The loop is waiting for the handler exactly while the handler is at     *)
(* work, and it is at work for the tag and the event of the loop.          *)
THEOREM DaemonCallsMatch == SafeSpec => []CallsMatch
<1>1. CallsMatch /\ [Next]_vars => CallsMatch'
  BY CallsMatchStep
<1> QED BY <1>1, CallsMatchInit, PTL DEF SafeSpec
-----------------------------------------------------------------------------

(* A running command is one the handler waits for, and the main loop waits *)
(* for the handler: so it polls no reader meanwhile.                       *)
THEOREM DaemonWaitsForCommands == SafeSpec => NoPollingDuringCommands
<1>1. /\ NemProofs!OneShellAtATime /\ CallsMatch /\ [Next]_vars
      => [Running => UNCHANGED <<idx, device_list, oldtag_list>>]_vars
  <2> SUFFICES ASSUME NemProofs!OneShellAtATime, CallsMatch, Next, Running
               PROVE  UNCHANGED <<idx, device_list, oldtag_list>>
    BY DEF vars
  <2>1. nem_pc \in {"wait", "eintr"}
    BY DEF Running, NemProofs!OneShellAtATime, NemProofs!InMySystem
  <2>2. main_pc \in {"init_ctl", "tag_insert"}
    BY <2>1 DEF CallsMatch, Loop!Handling, Nem!Busy
  <2>3. CASE EndOfProcess \/ InHandler
    BY <2>3 DEF EndOfProcess, Loop!HandlerQuit, InHandler, loopVars
  <2>4. CASE World
    BY <2>4 DEF World, Loop!World, Loop!Attach, Loop!Detach, Loop!TagEnter, Loop!TagLeave,
                Loop!program, loopVars
  <2>5. ~EndOfCall
    BY <2>1 DEF EndOfCall, Nem!Return
  <2>6. ~StartInitGate /\ ~InLoop /\ \A t \in Tags : ~StartInsert(t)
    BY <2>2 DEF StartInitGate, StartInsert, InLoop, Loop!CallInitGate, Loop!PollInserted, Loop!Wake,
                Loop!ConnectOk, Loop!ConnectFails, Loop!PollUnchanged, Loop!PollRemoved,
                Loop!PollCrashes, Loop!Poll
  <2> QED BY <2>3, <2>4, <2>5, <2>6 DEF Next, Program
<1> QED
  BY <1>1, HandlerInvariants, DaemonRunsHandler, DaemonCallsMatch, PTL
     DEF SafeSpec, NoPollingDuringCommands

(* Only the return of the handler of an insertion puts a tag on record.    *)
LEMMA RecordedByReturn ==
    ASSUME LoopProofs!TypeOK, CallsMatch, Next, NEW r \in Loop!Readers,
           oldtag_list'[r] # oldtag_list[r], oldtag_list'[r] \in Tags
    PROVE  nem_pc = "return" /\ tag = oldtag_list'[r]
<1>1. CASE Loop!InsertReturns /\ Nem!Return
  <2>1. main_pc = "tag_insert" /\ oldtag_list' = [oldtag_list EXCEPT ![idx] = new_tag]
    BY <1>1 DEF Loop!InsertReturns
  <2>2. oldtag_list'[r] = new_tag
    BY <2>1 DEF LoopProofs!TypeOK, LoopProofs!Readers, Loop!Readers
  <2> QED BY <1>1, <2>1, <2>2 DEF CallsMatch, Nem!Return
<1>2. CASE Loop!PollRemoved
  <2>1. oldtag_list'[r] \in {NULL, oldtag_list[r]}
    BY <1>2 DEF Loop!PollRemoved, LoopProofs!TypeOK, LoopProofs!Readers, Loop!Readers
  <2> QED BY <2>1, PointersAssumption
<1>3. CASE UNCHANGED oldtag_list
  BY <1>3
<1> QED
  BY <1>1, <1>2, <1>3
     DEF Next, Program, World, StartInitGate, StartInsert, EndOfCall, EndOfProcess, InLoop, InHandler,
         Loop!HandlerReturn, Loop!InitGateReturns, Loop!HandlerQuit, Loop!CallInitGate,
         Loop!PollInserted, Loop!Wake, Loop!ConnectOk, Loop!ConnectFails, Loop!PollUnchanged,
         Loop!PollCrashes, Loop!World, Loop!Attach, Loop!Detach, Loop!TagEnter, Loop!TagLeave,
         Loop!program, loopVars

(* A tag goes on record when its handler has come back: every command of   *)
(* the event that was started has ended, and unless on_error cut the list  *)
(* short, all of them were started.                                        *)
THEOREM DaemonRecordsLast == SafeSpec => RecordedAfterActions
<1> DEFINE Recorded ==
      \A r \in Loop!Readers :
        oldtag_list'[r] # oldtag_list[r] /\ oldtag_list'[r] \in Tags =>
            /\ tag = oldtag_list'[r]
            /\ \A k \in DOMAIN procs : procs[k].state = "gone"
            /\ block # NULL /\ Nem!OnError(block) = "ignore" =>
                   Len(procs) = Len(block.action)
<1>1. /\ LoopProofs!TypeOK /\ NemProofs!TypeOK /\ NemProofs!OneShellAtATime
      /\ NemProofs!ActionsInTurn /\ NemProofs!IgnoringRunsAll /\ CallsMatch /\ [Next]_vars
      => [Recorded]_vars
  <2> SUFFICES ASSUME LoopProofs!TypeOK, NemProofs!TypeOK, NemProofs!OneShellAtATime,
                      NemProofs!ActionsInTurn, NemProofs!IgnoringRunsAll, CallsMatch, Next,
                      NEW r \in Loop!Readers,
                      oldtag_list'[r] # oldtag_list[r], oldtag_list'[r] \in Tags
               PROVE  /\ tag = oldtag_list'[r]
                      /\ \A k \in DOMAIN procs : procs[k].state = "gone"
                      /\ block # NULL /\ Nem!OnError(block) = "ignore" =>
                             Len(procs) = Len(block.action)
    BY DEF vars
  <2>1. nem_pc = "return" /\ tag = oldtag_list'[r]
    BY RecordedByReturn
  <2>2. \A k \in DOMAIN procs : procs[k].state = "gone"
    BY <2>1 DEF NemProofs!OneShellAtATime, NemProofs!InMySystem
  <2>3. ASSUME block # NULL, Nem!OnError(block) = "ignore"
        PROVE  Len(procs) = Len(block.action)
    <3>1. actionlist = <<>>
      BY <2>1, <2>3 DEF NemProofs!IgnoringRunsAll, Nem!OnError, NemProofs!OnError
    <3>2. block.action = NemProofs!CommandsRun \o <<>>
      BY <2>1, <2>3, <3>1 DEF NemProofs!ActionsInTurn, NemProofs!InMySystem
    <3>3. NemProofs!CommandsRun \in Seq(Commands) /\ Len(NemProofs!CommandsRun) = Len(procs)
      BY NemProofs!CommandsOfShells, HandlerAssumptions DEF NemProofs!TypeOK, NemProofs!CommandsRun
    <3> QED BY <3>2, <3>3, ConcatEmptySeq
  <2> QED BY <2>1, <2>2, <2>3
<1>2. LoopProofs!SafeSpec => []LoopProofs!TypeOK
  BY LoopProofs!TypeCorrect, ReadersAssumption, PointersAssumption, SwitchesAssumption
<1>3. RecordedAfterActions <=> [][Recorded]_vars
  BY DEF RecordedAfterActions
<1> QED
  BY <1>1, <1>2, <1>3, HandlerInvariants, DaemonRunsLoop, DaemonRunsHandler, DaemonCallsMatch, PTL
     DEF SafeSpec
=============================================================================
