--------------------------- MODULE Startup_proofs ---------------------------
(***************************************************************************)
(* Theorems about Startup: for every command line of any length and every  *)
(* content of the files.                                                   *)
(***************************************************************************)
EXTENDS Startup, TLAPS, NaturalsInduction, WellFoundedInduction

(* A set of naturals that is not empty has a least element.                *)
LEMMA MinOfNats ==
    ASSUME NEW S \in SUBSET Nat, S # {}
    PROVE  Min(S) \in S /\ \A x \in S : Min(S) <= x
<1> DEFINE Less == {ss \in Nat \X Nat : ss[1] < ss[2]}
<1>1. IsWellFoundedOn(Less, Nat)
  BY NatLessThanWellFounded DEF OpToRel
<1> HIDE DEF Less
<1>2. PICK x \in S : \A y \in S : ~(<<y, x>> \in Less)
  BY <1>1, WFMin
<1>3. \A y \in S : x <= y
  <2> SUFFICES ASSUME NEW y \in S, y < x PROVE FALSE
    OBVIOUS
  <2>1. <<y, x>> \in Less
    BY DEF Less
  <2> QED
    BY <1>2, <2>1
<1> QED
  BY <1>3 DEF Min

-----------------------------------------------------------------------------
(* The variables keep their types.                                         *)

LEMMA InitType == Init => TypeOK
<1> SUFFICES ASSUME Init PROVE TypeOK
  OBVIOUS
<1>1. PICK n \in 0 .. MaxArguments : args \in [1 .. n -> Arguments]
  BY DEF Init
<1>2. n \in Nat
  BY MaxArgumentsAssumption
<1>3. args \in Seq(Arguments) /\ Len(args) = n
  BY <1>1, <1>2
<1>4. k \in 1 .. Len(args) + 1
  BY <1>2, <1>3 DEF Init
<1>5. DEF_POLLING \in Int /\ DEF_EXPIRE \in Int
  BY DEF DEF_POLLING, DEF_EXPIRE
<1>6. cfgfile \in FileNames /\ content \in Contents
  BY FilesAssumption DEF Init
<1>7. /\ pc = "debug_args" /\ level \in {0, 1} /\ filled \in Nat
      /\ polling_time \in Int /\ expire_time \in Int /\ readers \in Int
  BY <1>5 DEF Init
<1>8. debug \in BOOLEAN /\ daemonize \in BOOLEAN /\ handler \in BOOLEAN
  BY DEF Init
<1> QED
  BY <1>3, <1>4, <1>6, <1>7, <1>8 DEF TypeOK

LEMMA FileType == TypeOK => File \in Files
  BY FilesAssumption DEF TypeOK, File

LEMMA StepType == TypeOK /\ [Next]_vars => TypeOK'
<1> SUFFICES ASSUME TypeOK, [Next]_vars PROVE TypeOK'
  OBVIOUS
<1> USE DEF TypeOK
<1>f. File \in Files
  BY FileType
<1>1. CASE ScanDebug
  BY <1>1 DEF ScanDebug, inputs, settings
<1>2. CASE ScanConfigFile
  <2> DEFINE named == {j \in DOMAIN args : args[j].opt = "config_file"}
  <2>1. cfgfile' \in FileNames
    <3>1. CASE named = {}
      BY <1>2, <3>1 DEF ScanConfigFile
    <3>2. CASE named # {}
      <4>1. Min(named) \in named
        <5>1. named \in SUBSET Nat
          OBVIOUS
        <5> QED
          BY <3>2, <5>1, MinOfNats
      <4>2. args[Min(named)] \in Arguments
        BY <4>1
      <4>3. args[Min(named)].val \in FileNames
        BY <4>1, <4>2, ArgumentsAssumption
      <4> QED
        BY <1>2, <3>2, <4>3 DEF ScanConfigFile
    <3> QED
      BY <3>1, <3>2
  <2> QED
    BY <1>2, <2>1 DEF ScanConfigFile, inputs, settings
<1>3. CASE \/ NoConfig \/ NoReaders \/ UnknownArg \/ DaemonizeFails \/ LoadModuleExits \/ lose
           \/ ConfigCrashes \/ ReadersCrash \/ LoadModuleOverruns
  BY <1>3 DEF NoConfig, NoReaders, UnknownArg, DaemonizeFails, LoadModuleExits, lose, Exit,
              ConfigCrashes, ReadersCrash, LoadModuleOverruns, Crash, inputs, settings
<1>4. CASE ReadOptions
  BY <1>4, <1>f DEF ReadOptions, Given, Files, inputs, settings
<1>5. CASE FillReaders
  BY <1>5, <1>f DEF FillReaders, Files, inputs, settings
<1>6. CASE ParseArg
  <2>1. k' \in 1 .. Len(args) + 1 /\ pc' = pc
    BY <1>6 DEF ParseArg
  <2>2. Word \in Arguments
    BY <1>6 DEF ParseArg, Word
  <2>3. UNCHANGED <<inputs, cfgfile, readers, filled, handler>>
    BY <1>6 DEF ParseArg
  <2>4. CASE DaemonWord
    BY <2>1, <2>3, <2>4 DEF DaemonWord, inputs
  <2>5. CASE PollingWord
    <3>1. NumberOr(polling_time) \in Int
      BY <2>2, <2>5, ArgumentsAssumption DEF PollingWord, NumberOr
    <3> QED
      BY <2>1, <2>3, <2>5, <3>1 DEF PollingWord, inputs
  <2>6. CASE ExpireWord
    <3>1. NumberOr(expire_time) \in Int
      BY <2>2, <2>6, ArgumentsAssumption DEF ExpireWord, NumberOr
    <3> QED
      BY <2>1, <2>3, <2>6, <3>1 DEF ExpireWord, inputs
  <2>7. CASE SkippedWord
    BY <2>1, <2>3, <2>7 DEF SkippedWord, inputs, settings
  <2> QED
    BY <1>6, <2>4, <2>5, <2>6, <2>7 DEF ParseArg
<1>7. CASE EndOfArgs \/ Daemonize \/ InitGate
  BY <1>7 DEF EndOfArgs, Daemonize, InitGate, inputs, settings
<1>8. CASE LoadModule \/ dbus_service
  BY <1>8 DEF LoadModule, dbus_service, ModuleReturns, inputs, settings
<1>9. CASE UNCHANGED vars
  BY <1>9 DEF vars, inputs, settings
<1> QED
  BY <1>1, <1>2, <1>3, <1>4, <1>5, <1>6, <1>7, <1>8, <1>9 DEF Next

(* The variables of the start keep their types; no option becomes anything *)
(* but a number, whatever is on the command line (parse_args()).           *)
THEOREM TypeCorrect == Spec => []TypeOK
<1> QED
  BY InitType, StepType, PTL DEF Spec

-----------------------------------------------------------------------------
(* What the steps taken so far have established.  The words that the last  *)
(* scan has looked at decide, each option by itself; what the file has     *)
(* passed once, it has passed for good.                                    *)
BeforeArgs == {"debug_args", "config_file", "parse_config"}
FromArgs == {"args", "daemon", "load_module", "init_gate", "loop"}
FromReaders == FromArgs \cup {"readers"}

Before(words, n) == {j \in words : j < n}

ArgsSoFar ==
    /\ pc \in BeforeArgs =>
           k = 1 /\ ~daemonize /\ polling_time = DEF_POLLING /\ expire_time = DEF_EXPIRE
    /\ pc = "readers" => k = 1
    /\ pc \in FromReaders =>
           /\ DaemonAsked(Before(DaemonWords, k))
           /\ PollingAsked(Before(Numbers("polling_time"), k))
           /\ ExpireAsked(Before(Numbers("expire_time"), k))
           /\ \A j \in DOMAIN args : j < k => args[j].opt # "other"
    /\ InMain => k > Len(args)

FileChosen ==
    /\ pc \in {"debug_args", "config_file"} => cfgfile = DefaultFile
    /\ pc \notin {"debug_args", "config_file"} => FileAsked

FilePassed ==
    /\ pc \in FromReaders => File.parses /\ File.gatesrvd
    /\ pc \in FromArgs => readers > 0 /\ filled > 0

LevelRaised ==
    /\ pc \in FromReaders \cup (BeforeArgs \ {"debug_args"})
       /\ (\E j \in DOMAIN args : args[j].opt = "debug") => level = 1
    /\ pc \in FromReaders /\ File.debug = TRUE => level = 1

HandlerFound ==
    /\ pc = "init_gate" =>
           File.module \in {"none", "nem_execute", "nem_dbus"} /\ handler = (File.module # "none")
    /\ pc = "loop" => handler /\ File.module \in {"nem_execute", "nem_dbus"}

(* The steps that end the process, by exit() or by a crash.                *)
Exits ==
    \/ NoConfig \/ NoReaders \/ UnknownArg \/ DaemonizeFails \/ LoadModuleExits \/ lose
    \/ ConfigCrashes \/ ReadersCrash \/ LoadModuleOverruns
Started == LoadModule \/ dbus_service

LEMMA ExitsLeave ==
    Exits => /\ pc' \in {"exited", "crashed"}
             /\ UNCHANGED <<content, args, k, level, cfgfile, debug, daemonize, polling_time,
                           expire_time, readers, filled, handler>>
  BY DEF Exits, NoConfig, NoReaders, UnknownArg, DaemonizeFails, LoadModuleExits, lose, Exit,
         ConfigCrashes, ReadersCrash, LoadModuleOverruns, Crash, inputs, settings

LEMMA NextCases ==
    Next => \/ ScanDebug \/ ScanConfigFile \/ ReadOptions \/ FillReaders \/ ParseArg
            \/ EndOfArgs \/ Daemonize \/ InitGate \/ Started \/ Exits
  BY DEF Next, Exits, Started

(* Only the scan for the file changes what File stands for.                *)
LEMMA FileKept ==
    [Next]_vars /\ ~ScanConfigFile => File' = File /\ cfgfile' = cfgfile /\ content' = content
<1> SUFFICES ASSUME [Next]_vars, ~ScanConfigFile
             PROVE  cfgfile' = cfgfile /\ content' = content
  BY DEF File
<1>1. CASE Exits
  BY <1>1, ExitsLeave
<1>2. CASE Started
  BY <1>2 DEF Started, LoadModule, dbus_service, ModuleReturns, inputs
<1>3. CASE UNCHANGED vars
  BY <1>3 DEF vars, inputs
<1> QED
  BY <1>1, <1>2, <1>3, NextCases
  DEF ScanDebug, ReadOptions, FillReaders, ParseArg, EndOfArgs, Daemonize, InitGate, inputs

LEMMA ArgsKept == [Next]_vars => args' = args
<1>1. CASE Exits
  BY <1>1, ExitsLeave
<1>2. CASE Started
  BY <1>2 DEF Started, LoadModule, dbus_service, ModuleReturns, inputs
<1>3. CASE UNCHANGED vars
  BY <1>3 DEF vars, inputs
<1> QED
  BY <1>1, <1>2, <1>3, NextCases
  DEF ScanDebug, ScanConfigFile, ReadOptions, FillReaders, ParseArg, EndOfArgs, Daemonize, InitGate,
      inputs

LEMMA StepFilePassed ==
    ASSUME TypeOK, FilePassed, [Next]_vars
    PROVE  FilePassed'
<1> USE DEF FilePassed, FromReaders, FromArgs
<1>1. CASE ScanDebug
  BY <1>1 DEF ScanDebug
<1>2. CASE ScanConfigFile
  BY <1>2 DEF ScanConfigFile
<1> SUFFICES ASSUME ~ScanConfigFile, ~ScanDebug PROVE FilePassed'
  BY <1>1, <1>2
<1>f. File' = File
  BY FileKept
<1>3. CASE ReadOptions
  BY <1>3, <1>f DEF ReadOptions
<1>4. CASE FillReaders
  BY <1>4, <1>f, FileType DEF FillReaders, Files
<1>5. CASE ParseArg \/ EndOfArgs \/ Daemonize \/ InitGate
  BY <1>5, <1>f DEF ParseArg, EndOfArgs, Daemonize, InitGate
<1>6. CASE Started
  BY <1>6, <1>f DEF Started, LoadModule, dbus_service, ModuleReturns
<1>7. CASE Exits
  BY <1>7, <1>f, ExitsLeave
<1>8. CASE UNCHANGED vars
  BY <1>8, <1>f DEF vars
<1> QED
  BY <1>3, <1>4, <1>5, <1>6, <1>7, <1>8, NextCases

LEMMA StepLevelRaised ==
    ASSUME TypeOK, LevelRaised, [Next]_vars
    PROVE  LevelRaised'
<1> USE DEF LevelRaised, BeforeArgs, FromReaders, FromArgs
<1>a. args' = args
  BY ArgsKept
<1>1. CASE ScanDebug
  BY <1>1, <1>a DEF ScanDebug
<1>2. CASE ScanConfigFile
  BY <1>2, <1>a DEF ScanConfigFile
<1> SUFFICES ASSUME ~ScanConfigFile, ~ScanDebug PROVE LevelRaised'
  BY <1>1, <1>2
<1>f. File' = File
  BY FileKept
<1>3. CASE ReadOptions
  <2>1. File.debug = TRUE => debug' = TRUE
    BY <1>3, NullAssumption DEF ReadOptions, Given
  <2> QED
    BY <1>3, <1>a, <1>f, <2>1 DEF ReadOptions
<1>4. CASE FillReaders \/ EndOfArgs \/ Daemonize \/ InitGate
  BY <1>4, <1>a, <1>f DEF FillReaders, EndOfArgs, Daemonize, InitGate
<1>5. CASE ParseArg
  <2>1. level' = level
    BY <1>5 DEF ParseArg, DaemonWord, PollingWord, ExpireWord, SkippedWord
  <2> QED
    BY <1>5, <1>a, <1>f, <2>1 DEF ParseArg
<1>6. CASE Started
  BY <1>6, <1>a, <1>f DEF Started, LoadModule, dbus_service, ModuleReturns
<1>7. CASE Exits
  BY <1>7, <1>a, <1>f, ExitsLeave
<1>8. CASE UNCHANGED vars
  BY <1>8, <1>a, <1>f DEF vars
<1> QED
  BY <1>3, <1>4, <1>5, <1>6, <1>7, <1>8, NextCases

LEMMA StepHandlerFound ==
    ASSUME TypeOK, HandlerFound, [Next]_vars
    PROVE  HandlerFound'
<1> USE DEF HandlerFound
<1>2. CASE ScanConfigFile
  BY <1>2 DEF ScanConfigFile
<1> SUFFICES ASSUME ~ScanConfigFile PROVE HandlerFound'
  BY <1>2
<1>f. File' = File
  BY FileKept
<1>3. CASE FillReaders
  BY <1>3, <1>f DEF FillReaders
<1>4. CASE ScanDebug \/ ReadOptions \/ ParseArg \/ EndOfArgs \/ Daemonize
  BY <1>4, <1>f DEF ScanDebug, ReadOptions, ParseArg, EndOfArgs, Daemonize
<1>5. CASE InitGate
  BY <1>5, <1>f DEF InitGate, HandlerReturns
<1>6. CASE Started
  BY <1>6, <1>f DEF Started, LoadModule, dbus_service, ModuleReturns
<1>7. CASE Exits
  BY <1>7, <1>f, ExitsLeave
<1>8. CASE UNCHANGED vars
  BY <1>8, <1>f DEF vars
<1> QED
  BY <1>3, <1>4, <1>5, <1>6, <1>7, <1>8, NextCases

LEMMA StepFileChosen ==
    ASSUME TypeOK, FileChosen, [Next]_vars
    PROVE  FileChosen'
<1> USE DEF FileChosen
<1>a. args' = args /\ FileWords' = FileWords
  BY ArgsKept DEF FileWords
<1>2. CASE ScanConfigFile
  <2>1. CASE FileWords = {}
    BY <1>2, <1>a, <2>1 DEF ScanConfigFile, FileWords, FileAsked
  <2>2. CASE FileWords # {}
    <3>1. FileWords \in SUBSET Nat
      BY DEF FileWords, TypeOK
    <3>2. Min(FileWords) \in FileWords /\ \A j \in FileWords : Min(FileWords) <= j
      BY <2>2, <3>1, MinOfNats
    <3>3. cfgfile' = args[Min(FileWords)].val
      BY <1>2, <2>2 DEF ScanConfigFile, FileWords
    <3>4. ASSUME NEW j \in FileWords, \A h \in FileWords : j <= h
          PROVE  j = Min(FileWords)
      <4>1. j <= Min(FileWords) /\ Min(FileWords) <= j
        BY <3>2, <3>4
      <4>2. j \in Nat /\ Min(FileWords) \in Nat
        BY <3>1, <3>2
      <4> QED
        BY <4>1, <4>2
    <3> QED
      BY <1>2, <1>a, <2>2, <3>3, <3>4 DEF ScanConfigFile, FileAsked
  <2> QED
    BY <2>1, <2>2
<1>3. CASE ~ScanConfigFile
  <2>1. cfgfile' = cfgfile /\ (FileAsked => FileAsked')
    BY <1>3, <1>a, FileKept DEF FileAsked
  <2>2. pc' \in {"debug_args", "config_file"} => pc \in {"debug_args", "config_file"}
    <3>1. CASE Exits
      BY <3>1, ExitsLeave
    <3>2. CASE Started
      BY <3>2 DEF Started, LoadModule, dbus_service, ModuleReturns
    <3>3. CASE UNCHANGED vars
      BY <3>3 DEF vars
    <3> QED
      BY <1>3, <3>1, <3>2, <3>3, NextCases
      DEF ScanDebug, ReadOptions, FillReaders, ParseArg, EndOfArgs, Daemonize, InitGate
  <2>3. pc \in {"debug_args", "config_file"} => pc' \in {"debug_args", "config_file"}
    <3>1. CASE Exits
      BY <3>1 DEF Exits, NoConfig, NoReaders, UnknownArg, DaemonizeFails, LoadModuleExits, lose,
                  ConfigCrashes, ReadersCrash, LoadModuleOverruns
    <3>2. CASE Started
      BY <3>2 DEF Started, LoadModule, dbus_service
    <3>3. CASE UNCHANGED vars
      BY <3>3 DEF vars
    <3> QED
      BY <1>3, <3>1, <3>2, <3>3, NextCases
      DEF ScanDebug, ReadOptions, FillReaders, ParseArg, EndOfArgs, Daemonize, InitGate
  <2> QED
    BY <2>1, <2>2, <2>3
<1> QED
  BY <1>2, <1>3

-----------------------------------------------------------------------------
(* The last scan: one more word is looked at.                              *)

LEMMA OneMore ==
    ASSUME NEW words \in SUBSET Nat, NEW n \in Nat
    PROVE  /\ n \in words => /\ Before(words, n + 1) # {}
                             /\ LastOf(Before(words, n + 1)) = {n}
           /\ n \notin words => Before(words, n + 1) = Before(words, n)
<1>1. ASSUME n \in words
      PROVE  Before(words, n + 1) # {} /\ LastOf(Before(words, n + 1)) = {n}
  <2>1. n \in Before(words, n + 1) /\ \A j \in Before(words, n + 1) : j \in Nat /\ j <= n
    BY <1>1 DEF Before
  <2> QED
    BY <2>1 DEF LastOf
<1>2. ASSUME n \notin words
      PROVE  Before(words, n + 1) = Before(words, n)
  <2>1. \A j \in words : j < n + 1 <=> j < n
    <3> SUFFICES ASSUME NEW j \in words PROVE j < n + 1 <=> j < n
      OBVIOUS
    <3>1. j \in Nat /\ j # n
      BY <1>2
    <3> QED
      BY <3>1
  <2> QED
    BY <2>1, Zenon DEF Before
<1> QED
  BY <1>1, <1>2

LEMMA StepParseArg ==
    ASSUME TypeOK, ArgsSoFar, ParseArg
    PROVE  ArgsSoFar'
<1> DEFINE polls == Numbers("polling_time")
           expires == Numbers("expire_time")
<1>1. /\ pc = "args" /\ pc' = "args" /\ k \in DOMAIN args /\ k' = k + 1 /\ k \in Nat
      /\ args' = args /\ File' = File
  BY DEF ParseArg, TypeOK, inputs, File
<1>2. /\ DaemonWords' = DaemonWords /\ polls' = polls /\ expires' = expires
      /\ DaemonWords \in SUBSET Nat /\ polls \in SUBSET Nat /\ expires \in SUBSET Nat
  BY <1>1 DEF DaemonWords, Numbers, TypeOK
<1>3. /\ DaemonAsked(Before(DaemonWords, k)) /\ PollingAsked(Before(polls, k))
      /\ ExpireAsked(Before(expires, k))
      /\ \A j \in DOMAIN args : j < k => args[j].opt # "other"
  BY <1>1 DEF ArgsSoFar, FromReaders, FromArgs
<1>4. Before(DaemonWords, k)' = Before(DaemonWords, k + 1)
  BY <1>1, <1>2 DEF Before
<1>5. Before(polls, k)' = Before(polls, k + 1) /\ Before(expires, k)' = Before(expires, k + 1)
  BY <1>1, <1>2 DEF Before
<1>6. DaemonAsked(Before(DaemonWords, k))'
  <2>1. CASE k \in DaemonWords
    <3>1. daemonize' = (args[k].opt = "daemon")
      BY <1>1, <2>1 DEF DaemonWords, ParseArg, DaemonWord, PollingWord, ExpireWord, SkippedWord, Word
    <3>2. Before(DaemonWords, k + 1) # {} /\ LastOf(Before(DaemonWords, k + 1)) = {k}
      BY <1>1, <1>2, <2>1, OneMore
    <3>3. LastOf(Before(DaemonWords, k))' = {k}
      BY <1>4, <3>2 DEF LastOf
    <3> QED
      BY <1>1, <1>4, <3>1, <3>2, <3>3 DEF DaemonAsked
  <2>2. CASE k \notin DaemonWords
    <3>1. daemonize' = daemonize
      BY <1>1, <2>2
      DEF DaemonWords, ParseArg, DaemonWord, PollingWord, ExpireWord, SkippedWord, settings, Word
    <3> QED
      BY <1>1, <1>2, <1>3, <1>4, <2>2, <3>1, OneMore DEF DaemonAsked, LastOf
  <2> QED
    BY <2>1, <2>2
<1>7. PollingAsked(Before(polls, k))'
  <2>1. CASE k \in polls
    <3>1. polling_time' = args[k].val
      BY <1>1, <2>1
      DEF Numbers, ParseArg, DaemonWord, PollingWord, ExpireWord, SkippedWord, NumberOr, Word
    <3> QED
      BY <1>1, <1>2, <1>5, <2>1, <3>1, OneMore DEF PollingAsked, LastOf
  <2>2. CASE k \notin polls
    <3>1. polling_time' = polling_time
      BY <1>1, <2>2
      DEF Numbers, ParseArg, DaemonWord, PollingWord, ExpireWord, SkippedWord, NumberOr, settings,
          Word
    <3> QED
      BY <1>1, <1>2, <1>3, <1>5, <2>2, <3>1, OneMore DEF PollingAsked, LastOf
  <2> QED
    BY <2>1, <2>2
<1>8. ExpireAsked(Before(expires, k))'
  <2>1. CASE k \in expires
    <3>1. expire_time' = args[k].val
      BY <1>1, <2>1
      DEF Numbers, ParseArg, DaemonWord, PollingWord, ExpireWord, SkippedWord, NumberOr, Word
    <3> QED
      BY <1>1, <1>2, <1>5, <2>1, <3>1, OneMore DEF ExpireAsked, LastOf
  <2>2. CASE k \notin expires
    <3>1. expire_time' = expire_time
      BY <1>1, <2>2
      DEF Numbers, ParseArg, DaemonWord, PollingWord, ExpireWord, SkippedWord, NumberOr, settings,
          Word
    <3> QED
      BY <1>1, <1>2, <1>3, <1>5, <2>2, <3>1, OneMore DEF ExpireAsked, LastOf
  <2> QED
    BY <2>1, <2>2
<1>9. \A j \in DOMAIN args : j < k + 1 => args[j].opt # "other"
  <2>1. args[k].opt # "other"
    BY DEF ParseArg, DaemonWord, PollingWord, ExpireWord, SkippedWord, Word
  <2>2. \A j \in DOMAIN args : j < k + 1 => j < k \/ j = k
    BY <1>1 DEF TypeOK
  <2> QED
    BY <1>3, <2>1, <2>2
<1> QED
  BY <1>1, <1>6, <1>7, <1>8, <1>9 DEF ArgsSoFar, BeforeArgs, InMain

LEMMA StepArgsSoFar ==
    ASSUME TypeOK, ArgsSoFar, [Next]_vars
    PROVE  ArgsSoFar'
<1> USE DEF ArgsSoFar, BeforeArgs, FromReaders, FromArgs, InMain
<1>a. args' = args
  BY ArgsKept
<1>1. CASE ScanDebug
  BY <1>1 DEF ScanDebug, settings
<1>2. CASE ScanConfigFile
  BY <1>2 DEF ScanConfigFile, settings
<1>3. CASE ParseArg
  BY <1>3, StepParseArg
<1> SUFFICES ASSUME ~ScanConfigFile, ~ScanDebug, ~ParseArg PROVE ArgsSoFar'
  BY <1>1, <1>2, <1>3
<1>f. File' = File
  BY FileKept
<1>w. /\ DaemonWords' = DaemonWords /\ Numbers("polling_time")' = Numbers("polling_time")
      /\ Numbers("expire_time")' = Numbers("expire_time")
  BY <1>a DEF DaemonWords, Numbers
<1>4. CASE ReadOptions
  <2>1. /\ pc' = "readers" /\ k' = 1
        /\ daemonize' = Given(File.daemon, FALSE)
        /\ polling_time' = Given(File.polling_time, DEF_POLLING)
        /\ expire_time' = Given(File.expire_time, DEF_EXPIRE)
    BY <1>4 DEF ReadOptions, TypeOK
  <2>2. \A j \in DOMAIN args : ~(j < 1)
    BY DEF TypeOK
  <2>3. /\ Before(DaemonWords, k)' = {} /\ Before(Numbers("polling_time"), k)' = {}
        /\ Before(Numbers("expire_time"), k)' = {}
    BY <1>a, <2>1, <2>2 DEF Before, DaemonWords, Numbers
  <2>4. /\ DaemonAsked(Before(DaemonWords, k))'
        /\ PollingAsked(Before(Numbers("polling_time"), k))'
        /\ ExpireAsked(Before(Numbers("expire_time"), k))'
    BY <1>f, <2>1, <2>3 DEF DaemonAsked, PollingAsked, ExpireAsked, LastOf
  <2> QED
    BY <1>a, <2>1, <2>2, <2>4
<1>5. ASSUME UNCHANGED <<k, daemonize, polling_time, expire_time>>,
             pc' = pc \/ pc' \in {"exited", "crashed"} \/ (pc \in FromReaders /\ pc' \in FromArgs),
             InMain' => InMain \/ k > Len(args)
      PROVE  ArgsSoFar'
  <2>1. (/\ DaemonAsked(Before(DaemonWords, k))
         /\ PollingAsked(Before(Numbers("polling_time"), k))
         /\ ExpireAsked(Before(Numbers("expire_time"), k)))
        = (/\ DaemonAsked(Before(DaemonWords, k))
           /\ PollingAsked(Before(Numbers("polling_time"), k))
           /\ ExpireAsked(Before(Numbers("expire_time"), k)))'
    BY <1>5, <1>a, <1>f, <1>w DEF DaemonAsked, PollingAsked, ExpireAsked, Before, LastOf
  <2> QED
    BY <1>5, <1>a, <2>1
<1>6. CASE FillReaders \/ EndOfArgs \/ Daemonize \/ InitGate
  BY <1>5, <1>6 DEF FillReaders, EndOfArgs, Daemonize, InitGate, settings
<1>7. CASE Started
  BY <1>5, <1>7 DEF Started, LoadModule, dbus_service, ModuleReturns, settings
<1>8. CASE Exits
  BY <1>5, <1>8, ExitsLeave
<1>9. CASE UNCHANGED vars
  BY <1>5, <1>9 DEF vars, settings
<1> QED
  BY <1>4, <1>6, <1>7, <1>8, <1>9, NextCases

-----------------------------------------------------------------------------
(* The theorems.                                                           *)

StartInv ==
    TypeOK /\ ArgsSoFar /\ FileChosen /\ FilePassed /\ LevelRaised /\ HandlerFound

LEMMA StartInvHolds == Spec => []StartInv
<1>1. Init => StartInv
  <2> SUFFICES ASSUME Init PROVE StartInv
    OBVIOUS
  <2>1. TypeOK
    BY InitType
  <2> QED
    BY <2>1
    DEF Init, StartInv, ArgsSoFar, FileChosen, FilePassed, LevelRaised, HandlerFound,
        BeforeArgs, FromReaders, FromArgs, InMain
<1>2. StartInv /\ [Next]_vars => StartInv'
  BY StepType, StepArgsSoFar, StepFileChosen, StepFilePassed, StepLevelRaised, StepHandlerFound
  DEF StartInv
<1> QED
  BY <1>1, <1>2, PTL DEF Spec

LEMMA AllSeen ==
    ASSUME TypeOK, ArgsSoFar, InMain
    PROVE  /\ Before(DaemonWords, k) = DaemonWords
           /\ \A option : Before(Numbers(option), k) = Numbers(option)
           /\ \A j \in DOMAIN args : j < k
<1>1. \A j \in DOMAIN args : j < k
  BY DEF TypeOK, ArgsSoFar
<1> QED
  BY <1>1 DEF Before, DaemonWords, Numbers

(* parse_args() and parse_config_file(): the last valid word about an      *)
(* option decides, then the first file named, then the default, however    *)
(* long the command line is.                                               *)
THEOREM OptionsDecided == Spec => []CommandLineWins
<1>1. StartInv => CommandLineWins
  <2> SUFFICES ASSUME StartInv, InMain PROVE CommandLineWins
    BY DEF CommandLineWins
  <2>1. /\ DaemonAsked(Before(DaemonWords, k)) /\ PollingAsked(Before(Numbers("polling_time"), k))
        /\ ExpireAsked(Before(Numbers("expire_time"), k))
    BY DEF StartInv, ArgsSoFar, InMain, FromReaders, FromArgs
  <2>2. FileAsked
    BY DEF StartInv, FileChosen, InMain
  <2>3. /\ Before(DaemonWords, k) = DaemonWords
        /\ Before(Numbers("polling_time"), k) = Numbers("polling_time")
        /\ Before(Numbers("expire_time"), k) = Numbers("expire_time")
    BY AllSeen DEF StartInv
  <2> QED
    BY <2>1, <2>2, <2>3 DEF CommandLineWins
<1> QED
  BY <1>1, StartInvHolds, PTL

(* main() enters its loop only as parse_config_file(), parse_args() and    *)
(* load_module() have left it: configured, and with a handler.             *)
THEOREM LoopConfigured == Spec => []LoopIsConfigured
<1>1. StartInv => LoopIsConfigured
  <2> SUFFICES ASSUME StartInv, pc = "loop" PROVE LoopIsConfigured
    BY DEF LoopIsConfigured
  <2>1. \A j \in DOMAIN args : args[j].opt # "other"
    BY AllSeen DEF StartInv, ArgsSoFar, InMain, FromReaders, FromArgs
  <2> QED
    BY <2>1 DEF LoopIsConfigured, StartInv, FilePassed, HandlerFound, FromReaders, FromArgs
<1> QED
  BY <1>1, StartInvHolds, PTL

(* Debug messages that are asked for, and that nothing speaks against, are *)
(* on when main() goes on (set_debug_level()).                             *)
THEOREM DebugHeard == Spec => []DebugIsHeard
<1>1. StartInv => DebugIsHeard
  <2> SUFFICES ASSUME StartInv, InMain, DebugAsked PROVE level = 1
    BY DEF DebugIsHeard
  <2>1. (\E j \in DOMAIN args : args[j].opt = "debug") \/ File.debug = TRUE
    BY DEF DebugAsked, DebugWords, LastOf
  <2> QED
    BY <2>1 DEF StartInv, LevelRaised, InMain, FromReaders, FromArgs, BeforeArgs
<1> QED
  BY <1>1, StartInvHolds, PTL
=============================================================================
