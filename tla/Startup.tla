------------------------------ MODULE Startup ------------------------------
(***************************************************************************)
(* What gatesrvd does before its loop (src/gatesrvd.c): it reads the       *)
(* command line and the configuration file, goes to the background, loads  *)
(* its module, nem_execute or nem_dbus (src/modules), and calls it once to *)
(* initialise the gate.  One thread; the inputs are the arguments, the     *)
(* files, and what the system calls and the system bus answer.             *)
(***************************************************************************)
EXTENDS Integers, Sequences, FiniteSetsExt

CONSTANTS
    FileNames,       \* what config_file= can name
    DefaultFile,     \* DEF_CONFIG_FILE
    Contents,        \* what the files can hold, functions on FileNames
    Arguments,       \* the words of the command line
    MaxArguments,    \* bound: the length of the command line
    NULL,            \* an option the file does not set; a number that is none
    MAX_READERS      \* initdata.h

(* One configuration file, as far as the daemon asks for it: whether it    *)
(* can be opened and parsed, whether it has a "gatesrvd" block, the values *)
(* of its options, how many "reader" blocks it has and what its "module"   *)
(* block leads to.  keyless: the lookups that come upon an item to which   *)
(* parse.c:109 has left no key, and hand that null pointer to strcasecmp().*)
(* overlong: the copies whose string does not fit its array of 256 bytes.  *)
Modules == {"none", "no_library", "no_init", "no_handler", "nem_dbus", "nem_execute"}
Lookups == {"item_find", "gatesrvd", "options", "blocks", "reader", "event"}
Copies == {"reader", "module"}
Files ==
    [parses : BOOLEAN, gatesrvd : BOOLEAN, debug : BOOLEAN \cup {NULL}, daemon : BOOLEAN \cup {NULL},
     polling_time : Int \cup {NULL}, expire_time : Int \cup {NULL}, readers : Int \cup {NULL},
     blocks : Nat, module : Modules, keyless : SUBSET Lookups, overlong : SUBSET Copies]

Options ==
    {"debug", "nodebug", "daemon", "nodaemon", "polling_time", "expire_time", "config_file", "other"}

ASSUME NullAssumption == NULL \notin BOOLEAN /\ NULL \notin Int
ASSUME FilesAssumption == DefaultFile \in FileNames /\ Contents \subseteq [FileNames -> Files]
ASSUME ArgumentsAssumption ==
    \A a \in Arguments :
        /\ a.opt \in Options
        /\ a.opt \in {"polling_time", "expire_time"} => a.val \in Int \cup {NULL}
        /\ a.opt = "config_file" => a.val \in FileNames
ASSUME MaxArgumentsAssumption == MaxArguments \in Nat
ASSUME MaxReadersAssumption == MAX_READERS \in Nat \ {0}

VARIABLES
    content, args,             \* the inputs
    pc,                        \* the step to take, or "loop", "exited", "crashed"
    k,                         \* the argument that is looked at next
    level,                     \* debug_level
    cfgfile,
    debug, daemonize, polling_time, expire_time,
    readers,
    filled,                    \* the entries of readers_list that were written
    handler                    \* module_event_handler_fct_ptr is set

inputs == <<content, args>>
settings == <<debug, daemonize, polling_time, expire_time>>
vars == <<inputs, pc, k, level, cfgfile, settings, readers, filled, handler>>

File == content[cfgfile]
Given(value, default) == IF value = NULL THEN default ELSE value

DEF_POLLING == 1
DEF_EXPIRE == 0

Init ==
    /\ content \in Contents
    /\ args \in UNION {[1 .. n -> Arguments] : n \in 0 .. MaxArguments}
    /\ pc = "debug_args"
    /\ k = 1
    /\ level = 0
    /\ cfgfile = DefaultFile
    /\ debug = FALSE /\ daemonize = FALSE
    /\ polling_time = DEF_POLLING /\ expire_time = DEF_EXPIRE
    /\ readers = 0
    /\ filled = 0
    /\ handler = FALSE

-----------------------------------------------------------------------------
(* parse_args(): "debug" counts wherever it stands.                        *)
ScanDebug ==
    /\ pc = "debug_args"
    /\ level' = IF \E j \in DOMAIN args : args[j].opt = "debug" THEN 1 ELSE level
    /\ pc' = "config_file"
    /\ UNCHANGED <<inputs, k, cfgfile, settings, readers, filled, handler>>

(* The first config_file= names the file.                                  *)
ScanConfigFile ==
    LET named == {j \in DOMAIN args : args[j].opt = "config_file"}
    IN  /\ pc = "config_file"
        /\ cfgfile' = IF named = {} THEN cfgfile ELSE args[Min(named)].val
        /\ pc' = "parse_config"
        /\ UNCHANGED <<inputs, k, level, settings, readers, filled, handler>>

Exit ==
    /\ pc' = "exited"
    /\ UNCHANGED <<inputs, k, level, cfgfile, settings, readers, filled, handler>>

Crash ==
    /\ pc' = "crashed"
    /\ UNCHANGED <<inputs, k, level, cfgfile, settings, readers, filled, handler>>

(* An item without a key ends the process while the file is parsed, while  *)
(* the "gatesrvd" block is looked for, or while its options are.           *)
ConfigFollowsNull ==
    \/ "item_find" \in File.keyless
    \/ File.parses /\ "gatesrvd" \in File.keyless
    \/ File.parses /\ File.gatesrvd /\ "options" \in File.keyless

ConfigCrashes ==
    /\ pc = "parse_config"
    /\ ConfigFollowsNull
    /\ Crash

(* parse_config_file() finds no file, an error, or no "gatesrvd" block.    *)
NoConfig ==
    /\ pc = "parse_config"
    /\ ~ConfigFollowsNull
    /\ ~(File.parses /\ File.gatesrvd)
    /\ Exit

(* (The variant lets the file decide about the debug level alone.)         *)
ReadOptionsResetLevel ==
    /\ pc = "parse_config"
    /\ ~ConfigFollowsNull
    /\ File.parses /\ File.gatesrvd
    /\ debug' = Given(File.debug, debug)
    /\ daemonize' = Given(File.daemon, daemonize)
    /\ polling_time' = Given(File.polling_time, polling_time)
    /\ expire_time' = Given(File.expire_time, expire_time)
    /\ readers' = Given(File.readers, readers)
    /\ level' = IF debug' THEN 1 ELSE 0
    /\ pc' = "readers"
    /\ UNCHANGED <<inputs, k, cfgfile, filled, handler>>

ReadOptions ==
    /\ pc = "parse_config"
    /\ ~ConfigFollowsNull
    /\ File.parses /\ File.gatesrvd
    /\ debug' = Given(File.debug, debug)
    /\ daemonize' = Given(File.daemon, daemonize)
    /\ polling_time' = Given(File.polling_time, polling_time)
    /\ expire_time' = Given(File.expire_time, expire_time)
    /\ readers' = Given(File.readers, readers)
    /\ level' = IF debug' THEN 1 ELSE level
    /\ pc' = "readers"
    /\ UNCHANGED <<inputs, k, cfgfile, filled, handler>>

(* An item without a key ends the process when the blocks of "gatesrvd"    *)
(* are gone through, or the options of a "reader" block are looked up.     *)
ReadersFollowNull ==
    "blocks" \in File.keyless \/ (File.blocks > 0 /\ "reader" \in File.keyless)

ReadersCrash ==
    /\ pc = "readers"
    /\ readers > 0
    /\ ReadersFollowNull
    /\ Crash

(* "readers" is not positive, or there is no "reader" block.               *)
NoReaders ==
    /\ pc = "readers"
    /\ readers <= 0 \/ (~ReadersFollowNull /\ File.blocks = 0)
    /\ Exit

(* Every "reader" block is copied to readers_list, whatever "readers" and  *)
(* MAX_READERS say.  A copy beyond the end of the array or of one of its   *)
(* strings may end the process or go unnoticed.  (The variant does not     *)
(* look at "readers".)                                                     *)
FillReadersUnchecked ==
    /\ pc = "readers"
    /\ ~ReadersFollowNull
    /\ File.blocks > 0
    /\ filled' = File.blocks
    /\ pc' = "args"
    /\ UNCHANGED <<inputs, k, level, cfgfile, settings, readers, handler>>

Overrun == File.blocks > MAX_READERS \/ "reader" \in File.overlong

FillReaders ==
    /\ pc = "readers"
    /\ readers > 0 /\ ~ReadersFollowNull /\ File.blocks > 0
    /\ filled' = File.blocks
    /\ pc' \in {"args"} \cup (IF Overrun THEN {"crashed"} ELSE {})
    /\ UNCHANGED <<inputs, k, level, cfgfile, settings, readers, handler>>

-----------------------------------------------------------------------------
(* parse_args() once more: one argument per step.                          *)

Word == args[k]
(* (The variant takes what is no number for one.)                          *)
NumberOrNone(old) == Word.val
NumberOr(old) == IF Word.val = NULL THEN old ELSE Word.val

DaemonWord ==
    /\ Word.opt \in {"daemon", "nodaemon"}
    /\ daemonize' = (Word.opt = "daemon")
    /\ UNCHANGED <<debug, polling_time, expire_time, level>>

PollingWord ==
    /\ Word.opt = "polling_time"
    /\ polling_time' = NumberOr(polling_time)
    /\ UNCHANGED <<debug, daemonize, expire_time, level>>

ExpireWord ==
    /\ Word.opt = "expire_time"
    /\ expire_time' = NumberOr(expire_time)
    /\ UNCHANGED <<debug, daemonize, polling_time, level>>

(* strstr(argv[i], "debug") also finds the end of "nodebug", so the branch *)
(* that would set the level back is never reached.                         *)
SkippedWord ==
    /\ Word.opt \in {"debug", "nodebug", "config_file"}
    /\ UNCHANGED <<settings, level>>

(* (The variant lets the first word about an option win, not the last.)    *)
ParseArgFirstWins ==
    /\ pc = "args"
    /\ k <= Len(args)
    /\ Word.opt # "other"
    /\ IF \E j \in 1 .. k - 1 : args[j].opt = Word.opt
       THEN UNCHANGED <<settings, level>>
       ELSE DaemonWord \/ PollingWord \/ ExpireWord \/ SkippedWord
    /\ k' = k + 1
    /\ UNCHANGED <<inputs, pc, cfgfile, readers, filled, handler>>

ParseArg ==
    /\ pc = "args"
    /\ k <= Len(args)
    /\ DaemonWord \/ PollingWord \/ ExpireWord \/ SkippedWord
    /\ k' = k + 1
    /\ UNCHANGED <<inputs, pc, cfgfile, readers, filled, handler>>

UnknownArg ==
    /\ pc = "args"
    /\ k <= Len(args)
    /\ Word.opt = "other"
    /\ Exit

EndOfArgs ==
    /\ pc = "args"
    /\ k > Len(args)
    /\ pc' = "daemon"
    /\ UNCHANGED <<inputs, k, level, cfgfile, settings, readers, filled, handler>>

-----------------------------------------------------------------------------
(* main() before the loop.                                                 *)

Daemonize ==
    /\ pc = "daemon"
    /\ pc' = "load_module"
    /\ UNCHANGED <<inputs, k, level, cfgfile, settings, readers, filled, handler>>

DaemonizeFails ==
    /\ pc = "daemon"
    /\ daemonize
    /\ Exit

(* load_module() returns, with or without a module; main() does not look   *)
(* at what it returns.  nem_execute_init() raises the debug level of the   *)
(* module's own copy of debug.c, not this one.                             *)
ModuleReturns ==
    /\ pc' = "init_gate"
    /\ UNCHANGED <<inputs, k, level, cfgfile, settings, readers, filled>>

LoadModule ==
    /\ pc = "load_module"
    /\ File.module \in {"none", "nem_execute"}
    /\ handler' = (File.module = "nem_execute")
    /\ ModuleReturns

(* nem_dbus_init() registers its object on the system bus, whether it gets *)
(* its name or is put behind another owner; there is no main loop to serve *)
(* it.  lose() ends the process if there is no bus or no answer.           *)
dbus_service ==
    /\ pc = "load_module"
    /\ File.module = "nem_dbus"
    /\ handler' = TRUE
    /\ ModuleReturns

lose ==
    /\ pc = "load_module"
    /\ File.module = "nem_dbus"
    /\ Exit

LoadModuleExits ==
    /\ pc = "load_module"
    /\ File.module \in {"no_library", "no_init", "no_handler"}
    /\ Exit

(* A name too long for module_path overruns it; no such library is found,  *)
(* if the process survives that.                                           *)
LoadModuleOverruns ==
    /\ pc = "load_module"
    /\ File.module = "no_library" /\ "module" \in File.overlong
    /\ Crash

(* The handler is called with CMD_INIT_GATE through its pointer.  That of  *)
(* nem_dbus does nothing, and nem_execute's has its own module: here only  *)
(* its search for the "event" block matters, which follows every key.      *)
HandlerReturns ==
    handler /\ ~(File.module = "nem_execute" /\ "event" \in File.keyless)

InitGate ==
    /\ pc = "init_gate"
    /\ pc' = IF HandlerReturns THEN "loop" ELSE "crashed"
    /\ UNCHANGED <<inputs, k, level, cfgfile, settings, readers, filled, handler>>

Next ==
    \/ ScanDebug \/ ScanConfigFile
    \/ ConfigCrashes \/ NoConfig \/ ReadOptions \/ ReadersCrash \/ NoReaders \/ FillReaders
    \/ ParseArg \/ UnknownArg \/ EndOfArgs
    \/ Daemonize \/ DaemonizeFails
    \/ LoadModule \/ LoadModuleExits \/ LoadModuleOverruns \/ dbus_service \/ lose \/ InitGate

Spec == Init /\ [][Next]_vars

-----------------------------------------------------------------------------
(* Properties.                                                             *)

(* The types of the variables.  An option is never set to what is no       *)
(* number, and the argument at hand is one or just behind the last.        *)
TypeOK ==
    /\ content \in Contents
    /\ args \in Seq(Arguments)
    /\ pc \in {"debug_args", "config_file", "parse_config", "readers", "args", "daemon",
              "load_module", "init_gate", "loop", "exited", "crashed"}
    /\ k \in 1 .. Len(args) + 1
    /\ level \in {0, 1}
    /\ cfgfile \in FileNames
    /\ debug \in BOOLEAN /\ daemonize \in BOOLEAN
    /\ polling_time \in Int /\ expire_time \in Int /\ readers \in Int
    /\ filled \in Nat
    /\ handler \in BOOLEAN

InMain == pc \in {"daemon", "load_module", "init_gate", "loop"}

DaemonWords == {j \in DOMAIN args : args[j].opt \in {"daemon", "nodaemon"}}
Numbers(option) == {j \in DOMAIN args : args[j].opt = option /\ args[j].val # NULL}
FileWords == {j \in DOMAIN args : args[j].opt = "config_file"}
LastOf(words) == {j \in words : \A h \in words : h <= j}

(* "re-parse command line to take precedence over cfgfile" (line 253): the *)
(* options the daemon runs with are those of the command line, the last    *)
(* valid word winning, then those of the first file named, then the        *)
(* defaults.                                                               *)
DaemonAsked(words) ==
    /\ \A j \in LastOf(words) : daemonize = (args[j].opt = "daemon")
    /\ words = {} => daemonize = Given(File.daemon, FALSE)
PollingAsked(words) ==
    /\ \A j \in LastOf(words) : polling_time = args[j].val
    /\ words = {} => polling_time = Given(File.polling_time, DEF_POLLING)
ExpireAsked(words) ==
    /\ \A j \in LastOf(words) : expire_time = args[j].val
    /\ words = {} => expire_time = Given(File.expire_time, DEF_EXPIRE)
FileAsked ==
    /\ \A j \in FileWords : (\A h \in FileWords : j <= h) => cfgfile = args[j].val
    /\ FileWords = {} => cfgfile = DefaultFile
CommandLineWins ==
    InMain =>
        /\ DaemonAsked(DaemonWords)
        /\ PollingAsked(Numbers("polling_time"))
        /\ ExpireAsked(Numbers("expire_time"))
        /\ FileAsked

(* The loop is entered only with a configuration file that was parsed, a   *)
(* positive number of readers, at least one of them described, a command   *)
(* line without unknown words, and a handler to call.                      *)
LoopIsConfigured ==
    pc = "loop" =>
        /\ File.parses /\ File.gatesrvd
        /\ readers > 0 /\ filled > 0
        /\ \A j \in DOMAIN args : args[j].opt # "other"
        /\ File.module \in {"nem_execute", "nem_dbus"} /\ handler

(* Debug messages are on when they are asked for and nothing speaks        *)
(* against them: the last word about them is "debug", or there is none and *)
(* the file sets the option, and the daemon stays in the foreground (to    *)
(* run in the background "implies debug=false", conf/gatesrvd.conf:5).     *)
DebugWords == {j \in DOMAIN args : args[j].opt \in {"debug", "nodebug"}}
DebugAsked ==
    \/ \E j \in LastOf(DebugWords) : args[j].opt = "debug"
    \/ DebugWords = {} /\ File.debug = TRUE
DebugIsHeard == InMain /\ DebugAsked /\ ~daemonize => level = 1

(* The usage line offers "[[no]debug]" (line 285) and the command line is  *)
(* to take precedence over the file (line 253): if the last word about it  *)
(* is "nodebug", debug messages are off.                                   *)
NodebugWins ==
    InMain /\ (\E j \in LastOf(DebugWords) : args[j].opt = "nodebug") => level = 0
=============================================================================
