------------------------- MODULE NemExecute_proofs -------------------------
(***************************************************************************)
(* Theorems about the handler of nem_execute, for every configuration, any *)
(* number of tags and commands and action lists of any length.             *)
(***************************************************************************)
EXTENDS NemExecute, SequenceTheorems, TLAPS

(* What a fork adds to the shells of the call.                             *)
LEMMA Forked ==
    ASSUME TypeOK, NEW p \in Processes, procs' = Append(procs, p)
    PROVE  /\ procs' \in Seq(Processes) /\ procs' # <<>>
           /\ Current \in Nat /\ Current' = Current + 1
           /\ DOMAIN procs = 1 .. Current /\ DOMAIN procs' = 1 .. Current'
           /\ \A k \in DOMAIN procs : procs'[k] = procs[k]
           /\ procs'[Current'] = p
<1>1. procs \in Seq(Processes)
  BY DEF TypeOK
<1>2. procs' \in Seq(Processes)
  BY <1>1, AppendProperties
<1> QED BY <1>1, <1>2, AppendProperties, LenProperties DEF Current

(* What a new state of shell k changes in the shells of the call.          *)
LEMMA Updated ==
    ASSUME TypeOK, NEW k \in DOMAIN procs, NEW p \in Processes,
           procs' = [procs EXCEPT ![k] = p]
    PROVE  /\ procs' \in Seq(Processes)
           /\ Current' = Current /\ DOMAIN procs' = DOMAIN procs
           /\ DOMAIN procs = 1 .. Current /\ Current \in Nat
           /\ \A j \in DOMAIN procs : procs'[j] = IF j = k THEN p ELSE procs[j]
<1>1. procs \in Seq(Processes)
  BY DEF TypeOK
<1>2. DOMAIN procs = 1 .. Len(procs)
  BY <1>1, LenProperties
<1>3. procs' \in Seq(Processes) /\ Len(procs') = Len(procs)
  BY <1>1, <1>2, ExceptSeq
<1> QED BY <1>1, <1>2, <1>3, LenProperties, ExceptSeq DEF Current

(* The shell that fork() starts, or fails to start.                        *)
LEMMA ShellOfAction ==
    ASSUME TypeOK, actionlist # <<>>, NEW s \in {"running", "zombie", "gone"}
    PROVE  strsubst(Head(actionlist), s, FALSE) \in Processes
  BY NullAssumption, HeadTailProperties DEF TypeOK, Processes, strsubst

-----------------------------------------------------------------------------

LEMMA TypeInit == Init => TypeOK
  BY EmptySeq DEF Init, TypeOK, InMySystem

(* Evaluating a command moves on to the rest of the list, if there is one. *)
LEMMA EvaluateType ==
    ASSUME TypeOK, actionlist # <<>>, block # NULL,
           NEW success \in BOOLEAN, Evaluate(success), procs' \in Seq(Processes)
    PROVE  TypeOK'
<1>1. actionlist' \in Seq(Commands)
  BY HeadTailProperties DEF TypeOK, Evaluate
<1>2. pc' \in {"next", "return", "quit"} /\ (pc' = "next" => actionlist' # <<>>)
  BY DEF Evaluate, OnError
<1> QED BY <1>1, <1>2 DEF TypeOK, Evaluate, InMySystem

LEMMA CallType ==
    ASSUME TypeOK, NEW cmd \in DOMAIN EventOf, NEW t \in Tags \cup {NULL}, Call(cmd, t)
    PROVE  TypeOK' /\ procs' = <<>>
<1>1. MyBlock(cmd) \in Blocks \cup {NULL}
  BY ConfigsAssumption DEF TypeOK, MyBlock, EventOf, Events
<1>2. actionlist' \in Seq(Commands)
  BY <1>1, EmptySeq DEF Call, Lookup, Blocks
<1>3. /\ pc' \in {"next", "return"}
      /\ pc' = "next" => actionlist' # <<>> /\ block' # NULL
  BY DEF Call, Lookup
<1>4. procs' \in Seq(Processes)
  BY EmptySeq DEF Call
<1> QED BY <1>1, <1>2, <1>3, <1>4 DEF TypeOK, Call, Lookup, InMySystem

LEMMA ShellEndsType ==
    ASSUME TypeOK, NEW k \in DOMAIN procs, NEW ok \in BOOLEAN, ShellEnds(k, ok)
    PROVE  /\ TypeOK'
           /\ Current' = Current /\ DOMAIN procs' = DOMAIN procs
           /\ procs'[k].state = "zombie" /\ procs'[k].command = procs[k].command
           /\ \A j \in DOMAIN procs : j # k => procs'[j] = procs[j]
<1> DEFINE p == [procs[k] EXCEPT !.state = "zombie", !.ok = ok]
<1>1. procs[k] \in Processes
  BY LenProperties, ElementOfSeq DEF TypeOK
<1>2. p \in Processes /\ p.state = "zombie" /\ p.command = procs[k].command
  BY <1>1 DEF Processes
<1>3. procs' = [procs EXCEPT ![k] = p]
  BY DEF ShellEnds
<1> HIDE DEF p
<1>4. /\ procs' \in Seq(Processes) /\ Current' = Current /\ DOMAIN procs' = DOMAIN procs
      /\ DOMAIN procs = 1 .. Current /\ Current \in Nat
      /\ \A j \in DOMAIN procs : procs'[j] = IF j = k THEN p ELSE procs[j]
  BY <1>2, <1>3, Updated
<1>5. InMySystem => procs'[Current'].command = procs[Current].command /\ procs' # <<>>
  <2> HAVE InMySystem
  <2>1. Current \in DOMAIN procs
    BY <1>4 DEF TypeOK, Current
  <2> QED BY <1>2, <1>4, <2>1, EmptySeq
<1>6. TypeOK'
  BY <1>4, <1>5 DEF TypeOK, ShellEnds, InMySystem
<1> QED BY <1>2, <1>4, <1>6

(* The wait ends with the last shell reaped and its command evaluated.     *)
LEMMA WaitReturnsType ==
    ASSUME TypeOK, WaitReturns
    PROVE  /\ TypeOK'
           /\ Current \in DOMAIN procs
           /\ Current' = Current /\ DOMAIN procs' = DOMAIN procs
           /\ procs'[Current].state = "gone"
           /\ procs'[Current].command = procs[Current].command
           /\ procs'[Current].ok = procs[Current].ok
           /\ procs[Current].ok \in BOOLEAN
           /\ \A j \in DOMAIN procs : j # Current => procs'[j] = procs[j]
<1> DEFINE p == [procs[Current] EXCEPT !.state = "gone"]
<1>1. Current \in DOMAIN procs /\ procs[Current] \in Processes
  BY LenProperties, EmptySeq, ElementOfSeq DEF TypeOK, WaitReturns, InMySystem, Current
<1>2. /\ p \in Processes /\ p.state = "gone" /\ p.command = procs[Current].command
      /\ p.ok = procs[Current].ok /\ p.ok \in BOOLEAN
  BY <1>1 DEF Processes
<1>3. procs' = [procs EXCEPT ![Current] = p]
  BY DEF WaitReturns
<1> HIDE DEF p
<1>4. /\ procs' \in Seq(Processes) /\ Current' = Current /\ DOMAIN procs' = DOMAIN procs
      /\ \A j \in DOMAIN procs : procs'[j] = IF j = Current THEN p ELSE procs[j]
  BY <1>1, <1>2, <1>3, Updated
<1>5. (procs[Current].ok /\ ~SigchldIgnored) \in BOOLEAN
  BY DEF WaitReturns
<1>6. TypeOK'
  BY <1>4, <1>5, EvaluateType DEF WaitReturns, TypeOK, InMySystem
<1> QED BY <1>1, <1>2, <1>4, <1>6
(* A fork that works leaves a running shell to wait for.                   *)
LEMMA ForkType ==
    ASSUME TypeOK, Fork
    PROVE  /\ TypeOK'
           /\ Current \in Nat /\ Current' = Current + 1
           /\ DOMAIN procs = 1 .. Current /\ DOMAIN procs' = 1 .. Current'
           /\ procs'[Current'].state = "running"
           /\ procs'[Current'].command = Head(actionlist)
           /\ \A j \in DOMAIN procs : procs'[j] = procs[j]
<1> DEFINE p == strsubst(Head(actionlist), "running", FALSE)
<1>1. actionlist # <<>> /\ block # NULL
  BY DEF TypeOK, Fork
<1>2. p \in Processes /\ p.state = "running" /\ p.command = Head(actionlist)
  BY <1>1, ShellOfAction DEF strsubst
<1>3. procs' = Append(procs, p)
  BY DEF Fork
<1> HIDE DEF p
<1>4. /\ procs' \in Seq(Processes) /\ procs' # <<>>
      /\ Current \in Nat /\ Current' = Current + 1
      /\ DOMAIN procs = 1 .. Current /\ DOMAIN procs' = 1 .. Current'
      /\ \A k \in DOMAIN procs : procs'[k] = procs[k]
      /\ procs'[Current'] = p
  BY <1>2, <1>3, Forked
<1>5. TypeOK'
  BY <1>1, <1>2, <1>4 DEF TypeOK, Fork, InMySystem
<1> QED BY <1>2, <1>4, <1>5

(* A fork that fails is evaluated at once.                                 *)
LEMMA ForkFailsType ==
    ASSUME TypeOK, ForkFails
    PROVE  /\ TypeOK'
           /\ Current \in Nat /\ Current' = Current + 1
           /\ DOMAIN procs = 1 .. Current /\ DOMAIN procs' = 1 .. Current'
           /\ procs'[Current'].state = "gone" /\ procs'[Current'].ok = FALSE
           /\ procs'[Current'].command = Head(actionlist)
           /\ \A j \in DOMAIN procs : procs'[j] = procs[j]
<1> DEFINE p == strsubst(Head(actionlist), "gone", FALSE)
<1>1. actionlist # <<>> /\ block # NULL
  BY DEF TypeOK, ForkFails
<1>2. /\ p \in Processes /\ p.state = "gone" /\ p.ok = FALSE
      /\ p.command = Head(actionlist)
  BY <1>1, ShellOfAction DEF strsubst
<1>3. procs' = Append(procs, p)
  BY DEF ForkFails
<1> HIDE DEF p
<1>4. /\ procs' \in Seq(Processes)
      /\ Current \in Nat /\ Current' = Current + 1
      /\ DOMAIN procs = 1 .. Current /\ DOMAIN procs' = 1 .. Current'
      /\ \A k \in DOMAIN procs : procs'[k] = procs[k]
      /\ procs'[Current'] = p
  BY <1>2, <1>3, Forked
<1>5. TypeOK'
  BY <1>1, <1>4, EvaluateType DEF ForkFails
<1> QED BY <1>2, <1>4, <1>5

(* The steps that leave the shells of the call alone.                      *)
Others == Retry \/ Return \/ Quit \/ Interrupt \/ UNCHANGED vars

LEMMA OthersType == ASSUME TypeOK, Others PROVE TypeOK'
  BY DEF TypeOK, Others, Retry, Return, Quit, Interrupt, vars, InMySystem, Current

(* Every step is of one of these kinds.                                    *)
LEMMA StepCases ==
    ASSUME [Next]_vars
    PROVE  \/ \E cmd \in DOMAIN EventOf, t \in Tags \cup {NULL} : Call(cmd, t)
           \/ Fork
           \/ ForkFails
           \/ WaitReturns
           \/ \E k \in DOMAIN procs, ok \in BOOLEAN : ShellEnds(k, ok)
           \/ Others
  BY DEF Next, InitGate, PassSuccess, EventOf, Inside, World, Others

LEMMA TypeStep == TypeOK /\ [Next]_vars => TypeOK'
  BY StepCases, CallType, ForkType, ForkFailsType, WaitReturnsType, ShellEndsType, OthersType

(* The variables of the handler keep their types, and it is inside of      *)
(* my_system() only with an action to run and a shell to wait for.         *)
THEOREM TypeCorrect == SafeSpec => []TypeOK
<1>1. Init => TypeOK
  BY TypeInit
<1>2. TypeOK /\ [Next]_vars => TypeOK'
  BY TypeStep
<1> QED BY <1>1, <1>2, PTL DEF SafeSpec

-----------------------------------------------------------------------------

LEMMA OneShellStep == TypeOK /\ OneShellAtATime /\ [Next]_vars => OneShellAtATime'
<1> SUFFICES ASSUME TypeOK, OneShellAtATime, [Next]_vars PROVE OneShellAtATime'
  OBVIOUS
<1>1. ASSUME NEW cmd \in DOMAIN EventOf, NEW t \in Tags \cup {NULL}, Call(cmd, t)
      PROVE  OneShellAtATime'
  <2>1. procs' = <<>>
    BY <1>1, CallType
  <2> QED BY <2>1 DEF OneShellAtATime
<1>2. CASE Fork
  <2>1. \A k \in DOMAIN procs : procs[k].state = "gone"
    BY <1>2 DEF Fork, OneShellAtATime, InMySystem
  <2>2. InMySystem'
    BY <1>2 DEF Fork, InMySystem
  <2> QED BY <1>2, <2>1, <2>2, ForkType DEF OneShellAtATime
<1>3. CASE ForkFails
  <2>1. \A k \in DOMAIN procs : procs[k].state = "gone"
    BY <1>3 DEF ForkFails, OneShellAtATime, InMySystem
  <2> QED BY <1>3, <2>1, ForkFailsType DEF OneShellAtATime
<1>4. CASE WaitReturns
  <2>1. \A k \in DOMAIN procs' : procs'[k].state = "gone"
    BY <1>4, WaitReturnsType DEF OneShellAtATime
  <2> QED BY <2>1 DEF OneShellAtATime
<1>5. ASSUME NEW k \in DOMAIN procs, NEW ok \in BOOLEAN, ShellEnds(k, ok)
      PROVE  OneShellAtATime'
  <2>1. procs[k].state = "running" /\ pc' = pc
    BY <1>5 DEF ShellEnds
  <2>2. k = Current /\ InMySystem
    BY <2>1 DEF OneShellAtATime
  <2>3. InMySystem'
    BY <2>1, <2>2 DEF InMySystem
  <2> QED BY <1>5, <2>2, <2>3, ShellEndsType DEF OneShellAtATime
<1>6. CASE Others
  BY <1>6 DEF Others, Retry, Return, Quit, Interrupt, vars, OneShellAtATime, InMySystem, Current
<1> QED BY <1>1, <1>2, <1>3, <1>4, <1>5, <1>6, StepCases

(* However often its wait is interrupted, the handler never leaves a shell *)
(* running behind, nor a zombie, and never runs two at a time.             *)
THEOREM OneShell == SafeSpec => []OneShellAtATime
<1>1. Init => OneShellAtATime
  BY DEF Init, OneShellAtATime
<1>2. TypeOK /\ OneShellAtATime /\ [Next]_vars => OneShellAtATime'
  BY OneShellStep
<1> QED BY <1>1, <1>2, TypeCorrect, PTL DEF SafeSpec
-----------------------------------------------------------------------------

(* Moving the head of t to the end of s changes nothing in s \o t.         *)
LEMMA HeadMoves ==
    ASSUME NEW S, NEW s \in Seq(S), NEW t \in Seq(S), t # <<>>
    PROVE  Append(s, Head(t)) \o Tail(t) = s \o t
<1>1. /\ Head(t) \in S /\ Head(t) = t[1]
      /\ Tail(t) \in Seq(S) /\ <<Head(t)>> \in Seq(S)
      /\ Len(t) \in Nat \ {0}
  BY HeadTailProperties, EmptySeq
<1>2. t = <<Head(t)>> \o Tail(t)
  <2>1. SubSeq(t, 1, Len(t)) = <<t[1]>> \o SubSeq(t, 1 + 1, Len(t))
    BY <1>1, SubSeqRecursiveFirst
  <2>2. SubSeq(t, 1, Len(t)) = t /\ SubSeq(t, 2, Len(t)) = Tail(t)
    BY SubSeqFull, TailIsSubSeq
  <2> QED BY <1>1, <2>1, <2>2
<1>3. Append(s, Head(t)) = s \o <<Head(t)>>
  BY <1>1, AppendIsConcat
<1>4. (s \o <<Head(t)>>) \o Tail(t) = s \o (<<Head(t)>> \o Tail(t))
  BY <1>1, ConcatAssociative
<1> QED BY <1>2, <1>3, <1>4

(* The commands of a sequence of shells are a sequence as long.            *)
LEMMA CommandsOfShells ==
    ASSUME NEW q \in Seq(Processes)
    PROVE  /\ [k \in DOMAIN q |-> q[k].command] \in Seq(Commands)
           /\ Len([k \in DOMAIN q |-> q[k].command]) = Len(q)
<1> DEFINE c == [k \in DOMAIN q |-> q[k].command]
<1>1. DOMAIN q = 1 .. Len(q) /\ Len(q) \in Nat /\ \A k \in 1 .. Len(q) : q[k] \in Processes
  BY LenProperties, ElementOfSeq
<1>2. c \in [1 .. Len(q) -> Commands]
  BY <1>1 DEF Processes
<1> HIDE DEF c
<1>3. c \in Seq(Commands)
  BY <1>1, <1>2, SeqDef
<1>4. Len(c) = Len(q)
  BY <1>1, <1>2, <1>3, LenProperties
<1> QED BY <1>3, <1>4 DEF c

(* A further shell adds the command at the head of the list to those run.  *)
LEMMA CommandsRunGrow ==
    ASSUME TypeOK, TypeOK', Current \in Nat, Current' = Current + 1, actionlist # <<>>,
           DOMAIN procs = 1 .. Current, DOMAIN procs' = 1 .. Current',
           procs'[Current'].command = Head(actionlist),
           \A j \in DOMAIN procs : procs'[j] = procs[j]
    PROVE  CommandsRun' = Append(CommandsRun, Head(actionlist))
<1>1. /\ CommandsRun \in Seq(Commands) /\ Len(CommandsRun) = Current
      /\ CommandsRun' \in Seq(Commands) /\ Len(CommandsRun') = Current'
  BY CommandsOfShells DEF TypeOK, CommandsRun, Current
<1>2. Head(actionlist) \in Commands
  BY HeadTailProperties DEF TypeOK
<1> DEFINE more == Append(CommandsRun, Head(actionlist))
<1>3. /\ more \in Seq(Commands) /\ Len(more) = Current + 1
      /\ \A i \in 1 .. Current : more[i] = CommandsRun[i]
      /\ more[Current + 1] = Head(actionlist)
  BY <1>1, <1>2, AppendProperties
<1> HIDE DEF more
<1>4. ASSUME NEW i \in 1 .. Current' PROVE CommandsRun'[i] = more[i]
  <2>1. CommandsRun'[i] = procs'[i].command
    BY DEF CommandsRun
  <2>2. CASE i \in 1 .. Current
    BY <1>3, <2>1, <2>2 DEF CommandsRun
  <2>3. CASE i = Current + 1
    BY <1>3, <2>1, <2>3
  <2> QED BY <2>2, <2>3
<1> QED BY <1>1, <1>3, <1>4, SeqEqual DEF more

LEMMA InTurnStep == TypeOK /\ ActionsInTurn /\ [Next]_vars => ActionsInTurn'
<1> SUFFICES ASSUME TypeOK, ActionsInTurn, [Next]_vars, block' # NULL PROVE ActionsInTurn'
  BY DEF ActionsInTurn
<1>0. TypeOK'
  BY TypeStep
<1>1. ASSUME NEW cmd \in DOMAIN EventOf, NEW t \in Tags \cup {NULL}, Call(cmd, t)
      PROVE  ActionsInTurn'
  <2>1. CommandsRun' = <<>>
    BY <1>1, CallType DEF CommandsRun
  <2>2. actionlist' = block'.action /\ ~InMySystem'
    BY <1>1 DEF Call, Lookup, InMySystem
  <2>3. <<>> \o actionlist' = actionlist'
    BY <1>0, ConcatEmptySeq DEF TypeOK
  <2> QED BY <2>1, <2>2, <2>3 DEF ActionsInTurn
<1>2. ASSUME Fork \/ ForkFails PROVE ActionsInTurn'
  <2>1. actionlist # <<>> /\ ~InMySystem /\ block' = block
    BY <1>2 DEF Fork, ForkFails, Evaluate, TypeOK, InMySystem
  <2>2. CommandsRun' = Append(CommandsRun, Head(actionlist))
    BY <1>0, <1>2, <2>1, CommandsRunGrow, ForkType, ForkFailsType
  <2>3. (IF InMySystem' THEN Tail(actionlist') ELSE actionlist') = Tail(actionlist)
    BY <1>2 DEF Fork, ForkFails, Evaluate, OnError, InMySystem
  <2>4. block.action = CommandsRun \o actionlist
    BY <2>1 DEF ActionsInTurn
  <2>5. CommandsRun' \o Tail(actionlist) = CommandsRun \o actionlist
    <3>1. CommandsRun \in Seq(Commands)
      BY CommandsOfShells DEF TypeOK, CommandsRun
    <3> QED BY <2>1, <2>2, <3>1, HeadMoves DEF TypeOK
  <2> QED BY <2>1, <2>3, <2>4, <2>5 DEF ActionsInTurn
<1>3. CASE WaitReturns
  <2>1. InMySystem /\ ~InMySystem' /\ block' = block /\ actionlist' = Tail(actionlist)
    BY <1>3 DEF WaitReturns, Evaluate, OnError, InMySystem
  <2>2. CommandsRun' = CommandsRun
    BY <1>3, WaitReturnsType DEF CommandsRun
  <2> QED BY <2>1, <2>2 DEF ActionsInTurn
<1>4. ASSUME NEW k \in DOMAIN procs, NEW ok \in BOOLEAN, ShellEnds(k, ok)
      PROVE  ActionsInTurn'
  <2>1. CommandsRun' = CommandsRun
    BY <1>4, ShellEndsType DEF CommandsRun
  <2> QED BY <1>4, <2>1 DEF ShellEnds, ActionsInTurn, InMySystem
<1>5. CASE Others
  <2>1. block' = block /\ actionlist' = actionlist /\ procs' = procs /\ (InMySystem' <=> InMySystem)
    BY <1>5 DEF Others, Retry, Return, Quit, Interrupt, vars, InMySystem
  <2>2. CommandsRun' = CommandsRun
    BY <2>1 DEF CommandsRun
  <2> QED BY <2>1, <2>2 DEF ActionsInTurn
<1> QED BY <1>1, <1>2, <1>3, <1>4, <1>5, StepCases

(* The actions of an event are executed in turn, each once: at any time,   *)
(* those run and those left make up the configured list.                   *)
THEOREM InTurn == SafeSpec => []ActionsInTurn
<1>1. Init => ActionsInTurn
  BY DEF Init, ActionsInTurn
<1>2. TypeOK /\ ActionsInTurn /\ [Next]_vars => ActionsInTurn'
  BY InTurnStep
<1> QED BY <1>1, <1>2, TypeCorrect, PTL DEF SafeSpec
-----------------------------------------------------------------------------

(* OnErrorHonoured, and while the actions run no failure that matters.     *)
Reaction ==
    ~SigchldIgnored =>
        /\ pc = "next" \/ InMySystem => OnError(block) = "ignore" \/ Failures = {}
        /\ pc = "return" /\ block # NULL =>
            \/ actionlist = <<>> /\ (OnError(block) = "ignore" \/ Failures = {})
            \/ OnError(block) = "return" /\ Failures = {Current}
        /\ pc \in {"quit", "exited"} =>
            OnError(block) = "quit" /\ Failures = {Current}

(* The reaction to the command that has just ended.                        *)
LEMMA EvaluateReacts ==
    ASSUME OnError(block) = "ignore" \/ Failures = {},
           NEW success \in BOOLEAN, Evaluate(success),
           Failures' = IF success THEN Failures ELSE Failures \cup {Current'}
    PROVE  Reaction'
<1>1. /\ block' = block /\ OnError(block)' = OnError(block)
      /\ OnError(block) \in {"ignore", "return", "quit"}
  BY DEF Evaluate, OnError
<1>2. CASE success \/ OnError(block) = "ignore"
  <2>1. pc' = "next" \/ (pc' = "return" /\ actionlist' = <<>>)
    BY <1>2 DEF Evaluate
  <2>2. OnError(block') = "ignore" \/ Failures' = {}
    BY <1>1, <1>2
  <2> QED BY <2>1, <2>2 DEF Reaction, InMySystem
<1>3. CASE ~success /\ OnError(block) # "ignore"
  <2>1. pc' = OnError(block') /\ pc' \in {"return", "quit"}
    BY <1>1, <1>3 DEF Evaluate
  <2>2. Failures' = {Current'}
    BY <1>3
  <2> QED BY <2>1, <2>2 DEF Reaction, InMySystem
<1> QED BY <1>2, <1>3

LEMMA ReactionStep == TypeOK /\ Reaction /\ [Next]_vars => Reaction'
<1> SUFFICES ASSUME TypeOK, Reaction, ~SigchldIgnored, [Next]_vars PROVE Reaction'
  BY DEF Reaction
<1>1. ASSUME NEW cmd \in DOMAIN EventOf, NEW t \in Tags \cup {NULL}, Call(cmd, t)
      PROVE  Reaction'
  <2>1. Failures' = {}
    BY <1>1, CallType DEF Failures
  <2>2. pc' = "next" \/ (pc' = "return" /\ actionlist' = <<>>)
    BY <1>1 DEF Call, Lookup
  <2> QED BY <2>1, <2>2 DEF Reaction, InMySystem
<1>2. CASE Fork
  <2>1. Failures' = Failures
    BY <1>2, ForkType DEF Failures
  <2>2. block' = block /\ pc' = "wait" /\ (OnError(block) = "ignore" \/ Failures = {})
    BY <1>2 DEF Fork, Reaction
  <2> QED BY <2>1, <2>2 DEF Reaction, InMySystem, OnError
<1>3. CASE ForkFails
  <2>1. Failures' = Failures \cup {Current'}
    <3>1. DOMAIN procs' = DOMAIN procs \cup {Current'} /\ Current' \notin DOMAIN procs
      BY <1>3, ForkFailsType
    <3>2. /\ procs'[Current'].state = "gone" /\ procs'[Current'].ok = FALSE
          /\ \A j \in DOMAIN procs : procs'[j] = procs[j]
      BY <1>3, ForkFailsType
    <3> QED BY <3>1, <3>2, Zenon DEF Failures
  <2>2. Evaluate(FALSE) /\ (OnError(block) = "ignore" \/ Failures = {})
    BY <1>3 DEF ForkFails, Reaction
  <2> QED BY <2>1, <2>2, EvaluateReacts
<1>4. CASE WaitReturns
  <2> DEFINE ok == procs[Current].ok
  <2>1. procs[Current].state = "zombie" /\ Evaluate(ok) /\ InMySystem /\ ok \in BOOLEAN
    BY <1>4, WaitReturnsType DEF WaitReturns, InMySystem
  <2>2. Failures' = IF ok THEN Failures ELSE Failures \cup {Current'}
    BY <1>4, <2>1, WaitReturnsType DEF Failures
  <2>3. OnError(block) = "ignore" \/ Failures = {}
    BY <2>1 DEF Reaction
  <2> QED BY <2>1, <2>2, <2>3, EvaluateReacts
<1>5. ASSUME NEW k \in DOMAIN procs, NEW ok \in BOOLEAN, ShellEnds(k, ok)
      PROVE  Reaction'
  <2>1. procs[k].state = "running"
    BY <1>5 DEF ShellEnds
  <2>2. Failures' = Failures /\ Current' = Current
    BY <1>5, <2>1, ShellEndsType DEF Failures
  <2> QED BY <1>5, <2>2 DEF ShellEnds, Reaction, InMySystem, OnError
<1>6. CASE Others
  <2>1. Failures' = Failures /\ Current' = Current /\ block' = block /\ actionlist' = actionlist
    BY <1>6 DEF Others, Retry, Return, Quit, Interrupt, vars, Failures, Current
  <2>2. /\ pc' = pc \/ (InMySystem /\ InMySystem') \/ pc' = "idle"
           \/ (pc = "quit" /\ pc' = "exited")
    BY <1>6 DEF Others, Retry, Return, Quit, Interrupt, vars, InMySystem
  <2> QED BY <2>1, <2>2 DEF Reaction, InMySystem, OnError
<1> QED BY <1>1, <1>2, <1>3, <1>4, <1>5, <1>6, StepCases

(* If the status of the shells can be read, on_error is honoured for every *)
(* list of actions: the handler ends early only for a failure that asks    *)
(* for it, and then for the last command run.                              *)
THEOREM OnErrorCounts == SafeSpec => []OnErrorHonoured
<1>1. Init => Reaction
  BY DEF Init, Reaction, InMySystem
<1>2. TypeOK /\ Reaction /\ [Next]_vars => Reaction'
  BY ReactionStep
<1>3. Reaction => OnErrorHonoured
  BY DEF Reaction, OnErrorHonoured
<1> QED BY <1>1, <1>2, <1>3, TypeCorrect, PTL DEF SafeSpec
-----------------------------------------------------------------------------

(* With on_error = ignore, the handler comes back with nothing left to do. *)
IgnoringRunsAll ==
    pc = "return" /\ block # NULL /\ OnError(block) = "ignore" => actionlist = <<>>

(* With on_error = ignore all the actions of an event are run, whether or  *)
(* not the status of the shells can be read.                               *)
THEOREM RunsAll == SafeSpec => []IgnoringRunsAll
<1>1. Init => IgnoringRunsAll
  BY DEF Init, IgnoringRunsAll
<1>2. IgnoringRunsAll /\ [Next]_vars => IgnoringRunsAll'
  <2> SUFFICES ASSUME IgnoringRunsAll, [Next]_vars PROVE IgnoringRunsAll'
    OBVIOUS
  <2>1. ASSUME NEW cmd \in DOMAIN EventOf, NEW t \in Tags \cup {NULL}, Call(cmd, t)
        PROVE  IgnoringRunsAll'
    BY <2>1 DEF Call, Lookup, IgnoringRunsAll
  <2>2. ASSUME NEW success, Evaluate(success) PROVE IgnoringRunsAll'
    BY <2>2 DEF Evaluate, OnError, IgnoringRunsAll
  <2>3. CASE Fork
    BY <2>3 DEF Fork, IgnoringRunsAll
  <2>4. CASE Others
    BY <2>4 DEF Others, Retry, Return, Quit, Interrupt, vars, IgnoringRunsAll, OnError
  <2>5. ASSUME NEW k \in DOMAIN procs, NEW ok \in BOOLEAN, ShellEnds(k, ok)
        PROVE  IgnoringRunsAll'
    BY <2>5 DEF ShellEnds, IgnoringRunsAll, OnError
  <2> QED BY <2>1, <2>2, <2>3, <2>4, <2>5, StepCases DEF ForkFails, WaitReturns
<1> QED BY <1>1, <1>2, PTL DEF SafeSpec
=============================================================================
