# A verification of gatesrvd in TLA+

gatesrvd is a daemon for turnstiles and gates. It polls a list of NFC readers,
and when a tag is laid on one of them it calls the event handler of a module it
has loaded, which runs the commands its configuration file gives for the event.
This directory holds TLA+ models of the daemon, the TLC configurations that
check them, and proofs of the results that hold for every value of the
constants. `PROJECT.json` is the index: which definition stands for which lines,
which run checks which property, which change of the model breaks it.

All paths below are those of the repository; `gatesrvd.c` is `src/gatesrvd.c`,
`nem_execute.c` is `src/modules/nem_execute.c`, and `parse.c` and its
neighbours are in `src/nfcconf/`.

To check everything by hand:

    tlc -config MCGatesrvd.cfg MCGatesrvd        # and so on, see "Runs"
    tlapm ReaderLoop_proofs.tla                  # and NemExecute_, Gatesrvd_, Startup_, ConfLex_, ConfFile_, ConfWrite_, ConfTree_

## 1. Inventory

### 1.1 Components

**The main loop** (`gatesrvd.c`: `main`, `execute_event`, `ned_get_tag`).
*State*: the arrays `device_list` (the open handle of each reader or NULL) and
`oldtag_list` (the tag each reader is believed to hold or NULL), the loop
variable `i`, the local `new_tag`. *Operations*: sleep, connect a reader that
has no handle, poll one that has, report an insertion, log a removal.
*Hard*: the readers and tags move between any two steps; the record of a tag is
written only after the handler has come back; the arrays are never cleared
after `malloc()`; a handle is never dropped.
*Correct when*: each presentation of a tag is passed to the handler once; what
is on record was really there; a tag that stays is reported in the end, one that
goes is forgotten; every reader gets connected and stays in service.

**Start** (`gatesrvd.c`: `parse_args`, `parse_config_file`, `load_module`, the
first half of `main`). *State*: the options (`debug`, `daemonize`,
`polling_time`, `expire_time`, `cfgfile`), `readers` and `readers_list`, the
pointer to the handler. *Operations*: three scans of the command line around
the reading of the file, `daemon()`, `dlopen()`/`dlsym()`, the start of the module
(nem_dbus goes on the system bus here), the first call of the handler. *Hard*: precedence and order of the scans, words that contain one
another, return values that are ignored.
*Correct when*: the command line wins over the file and the file over the
defaults; the loop is entered only with a usable configuration.

**nem_execute** (`nem_execute.c`), the module that runs commands. *State*: its
configuration block and `_tag_uid`, both kept from call to call, and within a
call the rest of the action list and the shell being waited for. *Operations*:
the switch over the command, the lookup of the event, for each action
`strsubst()`, `fork()`, `execve()`, `waitpid()`, and `on_error`. *Hard*: forks
that fail, shells that fail, signals that interrupt the wait, SIGCHLD ignored.
*Correct when*: the commands run in turn, one at a time, and a failure is
handled as configured.

**nfcconf** (`src/nfcconf`), the configuration library. *Lexer* (`nfclex.c`):
characters to tokens. *Parser* (`parse.c`): tokens to a tree of blocks and
items, with the state `block`, `last_item`, `current_item`, `key`, `name`,
`state`, `last_token_type`, `error`. *Tree* (`nfcconf.c`): find, get, put, add,
copy, destroy. *Entry tables* (`nfcconf.c`): many options read into variables or
written from values at once. *Writer* (`write.c`): a tree to a file.
*Hard*: any order of tokens, the parser's flags and pointers kept across them,
errors in the middle; calls in any order on trees and their copies; tables of
which one entry fails; a written file that does not get to the disk whole.
*Correct when*: whatever the file, the tree is one; a file that follows the
grammar, with its commas, is accepted and read as it was written, as far as it goes; what is
written reads back; every block has one owner; a copy says what its source said,
and nothing that was found before is lost by other calls.

**nem_dbus** (`src/modules/nem_dbus.c`), a module that registers a D-Bus
object; its handler is an empty switch. **debug** (`src/debug`): the debug level
and printing. **Headers, build files, sample configuration**: constants and data.

### 1.2 How they interact

One process with one thread. `main()` reads the configuration through nfcconf,
loads a module with `dlopen()` and calls its `*_init()` with the configuration
tree, which both keep. From then on the loop calls the handler through
`module_event_handler_fct_ptr`, once with `CMD_INIT_GATE` and then with
`CMD_PASS_SUCCESS` for each insertion; `EVENT_TAG_REMOVED` is only logged and
no handler is called, so that the `tag_remove` actions of nem_execute never run
(`CMD_PASS_DENIED` has no caller). nem_execute blocks the loop until its
commands have ended. Its only ways back to the loop are to return (the value is
ignored) or to end the process. Around the process are the readers and tags
(reached by libnfc), the shells (by `fork` and `waitpid`), and signals.

### 1.3 What is hard to test

The list is in `PROJECT.json` under `hazards`, each at its line. The main ones:
movements of tags between two polls and during a handler (gatesrvd.c:422, 431);
readers unplugged and plugged in again (387); memory that is read before it is
written (332); interrupted waits (nem_execute.c:72); commands or forks that fail
in the middle of a list (216); options that come from the wrong scan
(gatesrvd.c:253, 271); the parser's pointers across nesting and repeated keys
(parse.c:92, 206); comments in the middle of a statement (parse.c:109, 277);
the character that is put back and the quote that is missing (nfclex.c:102, 144);
files that are cut off, when they are read (parse.c:369) and when they are
written (write.c:181, 190); copies of blocks, also into themselves (nfcconf.c:264);
a table of which one entry fails (nfcconf.c:573).

## 2. Modules

| Module | Stands for |
|---|---|
| `GateEvents` | what the daemon promises: abstract, no code of its own |
| `ReaderLoop` | the main loop with readers and tags; the handler as a black box |
| `NemExecute` | the handler of nem_execute with the shells it starts |
| `Gatesrvd` | the two composed |
| `Startup` | everything before the loop, with the start of nem_dbus |
| `ConfTokens` | the tokens of a text by their definition, for the two modules that need it |
| `ConfLex` | the scanner of nfcconf, one action per character |
| `ConfParser` | the parser of nfcconf, one action per token |
| `ConfFile` | `ConfParser` reading a file that follows the documented grammar |
| `ConfWrite` | the writer of nfcconf, character by character, between two runs of `ConfParser` |
| `ConfTree` | find, get, put, add, copy and destroy on a heap of blocks |
| `ConfEntries` | the entry tables, on top of `ConfTree` |
| `*_proofs` | theorems about `ReaderLoop`, `NemExecute`, `Gatesrvd`, `Startup`, `ConfLex`, `ConfFile` (with `ConfParser`), `ConfWrite`, `ConfTree` |
| `MC*` | instances for TLC |

### 2.1 ReaderLoop and GateEvents

`pc` is the place in `main()`: before the first call of the handler, in it, in
`sleep()`, at the top of the body of the `for` loop, in the handler of an
insertion. A pass of the `for` loop is one step, or two if it calls the
handler: `ConnectOk` and `ConnectFails` are the branch of line 387,
`PollUnchanged`, `PollRemoved` and `PollInserted` the branch of line 420, with
`ned_get_tag()` inside, `InsertReturns` the assignment of line 431. Within these
steps the code touches nothing that the world can change in between except by
one libnfc call, so nothing is lost by taking them as one. `Wake` is the end of
`sleep()` with `i = 0`.

The world is two facts about a reader, `attached` (`nfc_connect()` would find
it) and `usable` (the handle the program holds reaches it), and `field`, the
tags lying on it. A tag stands for its UID. `ned_get_tag()` returns any tag in
reach if it looks for none in particular, else that tag or NULL, and with
`LossySelect` NULL also when the tag is there. `served` is a history variable.

`HeapCleared` says whether `malloc()` returns zeroes. If not, an entry of the two
arrays starts as NULL or as `Garbage`; following garbage either ends the process
(`PollCrashes`) or fails like a select that finds nothing. An entry that
happened to be a valid handle is not considered. All runs have it FALSE: that no
such pointer is followed cannot be said of this code, and is not; what is said holds of
a daemon that survives it.

`GateEvents` says what this is for: per reader a tag in reach is reported, it is
forgotten when it is out of reach, and only then is another one reported.
`Refinement` maps it to the loop: `reported` is `new_tag` while the handler of
that reader runs, else `oldtag_list`; `present` is what the usable handles reach.

### 2.2 NemExecute

`Call` is the switch and the lookups up to the first action; `Fork`,
`ForkFails`, `WaitReturns`, `Retry` are `my_system()` with what follows it in
the `while` loop (`Evaluate`: next action, or `on_error`); `Return` and `Quit`
end the call. There are two calls, as in `gatesrvd.c`: `InitGate` without a tag
and `PassSuccess` with one. `procs` lists the shells of the call with their state, as the
operating system would show it. The world ends shells (`ShellEnds`) and
interrupts waits (`Interrupt`, EINTR). A configuration gives each event a block
with `on_error` and an action list, or nothing. With `SigchldIgnored` every
`waitpid()` ends with ECHILD, which `my_system()` returns as -1.

`strsubst()` is modelled by which UID it puts into a command. The only
assignment of `_tag_uid` is in the call of `tag_get_uid()` that is commented out
at line 139, so that `tag_uid` stays NULL and every command gets nothing for `$TAG_UID`.

### 2.3 Gatesrvd

Both modules are instantiated with their own `pc`. A call and its end are joint
steps (`StartInitGate`, `StartInsert`, `EndOfCall`, `EndOfProcess`), everything
else is a step of one of them. That the loop stands still during a call follows
from `pc` in `ReaderLoop` and is checked as `NoPollingDuringCommands`.

### 2.4 Startup

One action per phase and, in the last scan of the command line, one per word.
A file is reduced to what the daemon asks of it. Words are reduced to the first
test in the `strstr()` chain that they pass, in the order of the code: the test for
`debug` comes first, so `nodebug` is a `SkippedWord`. The copy of reader blocks
into `readers_list` is not bounded in the code, nor are the strings copied there and into
`module_path` (`overlong`); beyond the end of an array the model either goes on or
crashes (`Overrun`, `LoadModuleOverruns`). An item that the parser has left without a
key (section 5) ends the process when a lookup comes upon it; `keyless` names the lookups
that do, and `ConfigCrashes`, `ReadersCrash` and `HandlerReturns` are where the code makes
them. So a start may crash in many ways, and no property says that it does not. What `load_module()` meets is one of six things
(`Modules`): no module block, a library without init or handler or none at all,
or one of the two modules. `dbus_service` and `lose` are `nem_dbus_init()`,
whose end depends on whether the system bus answers; its handler returns at once,
so that `InitGate` goes on to the loop for both modules.

### 2.5 ConfLex

The text is made up character by character while the scanner reads it and kept
in `text`. `mode` is the place: at the top of `nfcconf_lex_engine()`, or in
`buf_eat_till()` called from one of its three cases. `Fetch` is `buf_nextch()`
at the top, which takes the saved character first; `Eat` is a pass of the
loop of `buf_eat_till()`; `Finish` and `Quote` are its end with what the case does
next. `tokens` records the calls of `nfcconf_parse_token()`. The end of
the file in a quoted string, which the code stores as the character 0xff,
is kept as `EOF`. `TokensOf` (in `ConfTokens`) defines the tokens of a text without a scanner, as
the longest runs from left to right, for `LongestMatch` to compare with.

### 2.6 ConfParser and ConfFile

Each action is one call of `nfcconf_parse_token()` with one kind of token, in
one branch of its `switch`. `tree` is a sequence of blocks, so that pointers are
indices and "the last item of a block" can be compared with `last_item`. Equal
strings are those `strcasecmp()` takes for equal. A null pointer followed, or a
comment used as a value list, sets `wild`, after which the model stops, since
anything might happen. `EndOfFile` is the end of `nfcconf_parse()`.

`ConfFile` adds a writer that produces the file along the grammar of
`README.nfcconf` (lines 79-93) while the parser reads it, and records what was
meant: `opened`, the blocks with their parents, keys and names, and `written`, for each
block the values given to each key. The file may end between any two tokens (`WriteEnd`),
so the properties hold at every place of it and not only at its end; a file that ends
inside a token is the business of `ConfWrite`. The grammar makes commas optional, and so
does the writer; `bare` records that one between two names or two values has been left out.
The parser does not read such files as the grammar says (run `conf_commas`), so
`Accepted`, `BlocksAsWritten` and `ValuesAsWritten` are claimed of the others; before
the first name both forms are fine. `ItemShape` is claimed of all. Empty lines and
comments inside a statement, which the grammar does not have, are left to
`ConfParser` (run `conf_keys`).

### 2.7 ConfWrite

`Read` is `ConfParser` with a first file of any tokens;
`nfcconf_write` turns its tree into a text, character by character as the code does, at
once, since nothing else runs meanwhile; the text is cut into tokens by `TokensOf`, which
`ConfLex` shows the scanner to do, and `ReadAgain` is `ConfParser` with these. Writer and
scanner are each translated from their own code: `string_need_quotes` tests every
character (`write.c:62-72`, `Normal`), the scanner looks for the ends of a string
(`nfclex.c:91-154`), and that the two agree is what `ReadsBack` says.

What reaches the disk is a beginning of the text, for two reasons of the code: the old
file is emptied when it is opened, so a crash leaves any part of the new one; and
`fclose()`, where buffered characters meet a full disk, is not looked at (line 190),
so the caller is told 0. If the text ends between two tokens or in a comment or a blank,
the parser meets the end of the file early (`ReadAgainEnds`); if it ends inside a string,
the scanner makes a string of what there is (`ReadCut`): a shorter one, and the
character 0xff behind it if it was in quotes.

The writer has no escapes: a key is never quoted, and a quote or a line end in a value
ends the string for the scanner, or makes two of it. The model writes and reads
such strings as the code does, and the parser can build them (an unclosed quote takes
the line end in), so the first files of the run have them; `ReadsBack` and `CutIsPart` are
claimed of trees without them (`Legible`). The texts of comments and
the tabs before each line are left out.
`Separator` is the test of the length so far: a comma stands where anything has
been written of the list, so the empty strings at its start leave none.
`Again` is what the tree has to be after reading: the same, but for empty
strings, an empty line at the very top and the key that a comment has taken,
all of which the writer loses.

### 2.8 ConfTree and ConfEntries

`heap` holds every block ever allocated, so that sharing,
leaks and freed memory can be seen; `owned` are the copies the caller has got
from `nfcconf_block_copy()`. A caller may pass any block that has not been
freed to any call, in any order, also a block to be added below itself. Lists
of strings are values. `nfcconf_item_add()` copies a block before it links it
and appends to the list of an option that exists (`AddValue`), which is why
`nfcconf_put_str()` does. New items go behind the last one (`LinkItem`), for a block
that is in memory already through `Linked`. A copy puts the block of rank n among
those it copies n places behind the end of the heap (`CopyAt`). `nfcconf_parse_string()` starts with no last item
(`ParseNewKey`): the new option becomes the only item of the root, and `lost`
records what is cut off.

`ConfEntries` adds one caller with a table to read and one to write. `parse_*`
and `write_*` are operators as the functions are, a reading in progress being a
record of the return value, the variables, the flags and the calls of
callbacks; after a failure the rest is skipped, as the returns do. They are
RECURSIVE as tables nest, so there are no theorems about this module.

## 3. Runs

"Pass" runs end without an error; a "violation" run shows that a statement of
the repository about the code does not hold.

| Run | Configuration | Result | What it asks |
|---|---|---|---|
| `reader_loop` | `MCReaderLoop` | pass | Is each presentation of a tag served once, is it forgotten, does every reader get its first connection, with reliable selects and memory as `malloc()` left it? |
| `reader_replug` | `MCReaderLoopReplug` | violation | Does a reader that is plugged in again come back into service? |
| `nem_execute` | `MCNemExecute` | pass | Are the commands of one call run as configured? Does it end? |
| `gatesrvd` | `MCGatesrvd` | pass | Do loop and handler fit together, with selects that may miss a tag and memory as `malloc()` left it, and does the polling go on? |
| `startup` | `MCStartup` | pass | Which options win, and what has to hold for the loop to be entered? |
| `startup_nodebug` | `MCStartupNodebug` | violation | Does `nodebug` work? |
| `conf_lex` | `MCConfLex` | pass | Is every text cut into its longest tokens, with nothing lost? |
| `conf_file` | `MCConfFile` | pass | Is a correct file with all its commas accepted and read as written, as far as it goes? |
| `conf_commas` | `MCConfFileGrammar` | violation | Is every file read that follows the documented grammar? |
| `conf_keys` | `MCConfParserKeys` | violation | Has every block and every option a key? |
| `conf_write` | `MCConfWrite` | pass | Does any sequence of tokens leave a tree, without losing an item? Does the tree come back when it is written and read, and what if the file is cut off, at any character? |
| `conf_api` | `MCConfEntries` | pass | Who owns the blocks after any three calls? Are copies equal and independent? Do tables read what tables have written, and where do they stop? |

The properties, in the order of their weight:

- `Refinement` / `KeepsPromise`: the loop, alone or with nem_execute, is an
  implementation of `GateEvents`; with missed selects (run `gatesrvd`) of the weaker
  one that may forget a tag that is there. `EventuallyAccurate` adds its liveness.
- `OncePerPresentation`: a tag that was passed is not passed again until it has
  left or the reader was unplugged.
- `OnErrorHonoured`, `ActionsInTurn`, `OneShellAtATime`, `CallsEnd`: what
  `conf/gatesrvd.conf:45-51` says of actions, with failing forks and interrupted
  waits anywhere.
- `RecordedAfterActions`, `NoPollingDuringCommands`, `CallsMatch`: a tag is on
  record only after its commands have ended, and nothing is polled meanwhile.
  `KeepsPolling`: if the commands end, every reader comes up again and again; it
  is the assumption `HandlerEnds` of `EventuallyAccurate`, shown for the real handler.
- `CommandLineWins`, `LoopIsConfigured`, `DebugIsHeard`: the daemon
  runs with the options a reader of `usage()` would expect, and its loop is never entered
  without readers or handler. `DebugIsHeard` is about a daemon in the foreground that is
  asked for messages and not asked against them by a later word.
- `Accepted`, `BlocksAsWritten`, `ValuesAsWritten` for correct files with their commas,
  `ItemShape` for all that follow the grammar, at any place of them; `TreeShape`, `ItemsSurvive`, `OneItemPerKey` for all token
  sequences.
- `ReadsBack`, `CutIsPart`: what is written is read back, and a file that was cut
  off anywhere is read as a part of the tree: no value lands under another key or block,
  only the last list may be short, and only its last value may be cut itself.
- `OneOwner`: each block hangs from one item, or is the root, a copy or lost, so
  that nothing is freed twice; `CopyIsEqual`; `OneBlockGrows`: a call changes at
  most one block and only appends, so copies are independent and what a caller
  has found stays where it is; a destroyed tree goes as a whole.
- `ReadBack`: a table reads from a block what another has written there, whatever
  calls come in between (except a block with the name of an option, and a second
  parse). `StopsAtFirst`: a reading returns 0 exactly if every entry can be read;
  entries before the first that cannot are read, those behind it are untouched.
- `LongestMatch`, `LinesAreIndependent`: the scanner against the definition of
  its tokens, with no character lost or seen twice; a missing quote damages one
  line only.
- `FirstConnect`: a reader that is there gets connected, however often that fails.

### 3.1 Bounds

- **Two readers, two tags.** The loop treats readers one at a time and has no
  state shared between two of them but `i` and `new_tag`; two of each let a tag
  move between readers, two tags share a field, one reader delay another, and
  one wear out the other's `new_tag`. The safety properties are also proved for
  any number.
- **Lists of up to three commands, two different ones**, every `on_error`,
  every event: a first, a middle and a last command can fail. Proved for any
  list. In `gatesrvd` two commands per insertion, one for the initialisation.
- **Command lines of up to three words** out of eleven, and 81 files: any
  pair of words about one option with a third between or around them. Proved for
  any length.
- **Eleven tokens** for correct files: a key set twice inside a block, or a block
  inside a block with an option.
- **Seven tokens** for the first file of `conf_write` with everything allowed
  (`ReadTokens`): a block with an option or in another block, or a key set twice
  with two values; its new file has whatever tokens it takes, `MaxTokens = 40` is
  never reached. Four strings: one that is written as it is, one that needs
  quotes, one with a line end that not even quotes save, and the empty one; each is cut
  at every character. Proved for first files of any length over any strings.
- **Three calls** on an empty context and on one with an option and a block,
  **six blocks** ever allocated: a block added, copied into itself and destroyed;
  or a table written, something added, a table read. A fourth call makes the
  run a hundred times as long. Two keys, two strings, one of them empty, and
  three pairs of tables which between them have every type of entry and flag.
- **Texts of up to six characters** of eight kinds, one of each that the scanner
  tells apart: enough for a string that ends with another token, a string that is
  not closed, and a line after it.
- `HeapCleared` is FALSE in all runs but `reader_replug`, as `malloc()` promises nothing.
  `LossySelect` is FALSE in `reader_loop` and TRUE in `gatesrvd`: `OncePerPresentation` claims
  nothing with missed selects. The theorems hold for all four cases.
- `SigchldIgnored` is FALSE in the runs, since `OnErrorHonoured` claims nothing
  otherwise; the theorems about nem_execute, `RunsAll` among them, hold for both values.
- Nothing else is bounded: readers are unplugged, tags move and waits are
  interrupted any number of times.

`CHECK_DEADLOCK FALSE` is set where the program really stops (a startup that has
exited or reached the loop, a parsed file, a handler that has quit).

### 3.2 Fairness and assumptions of liveness

- `ReaderLoop`: `WF(Main)`. There is one thread, `sleep()` returns and so does
  every libnfc call (`NDO_INFINITE_SELECT` is set to false, line 406).
  The return of the handler is *not* fair: it is the hypothesis `HandlerEnds` of
  the liveness properties.
- `NemExecute`: `WF(Inside \/ Return \/ Quit)`: the same thread inside the
  handler. That commands end is the hypothesis `CommandsEnd`.
- `Gatesrvd`: `WF(Program)`: the one thread. Hypothesis again `CommandsEnd`.
- Nothing in the world is fair. Liveness speaks of a world that stays as it is
  from some time on (`<>[]`).
- Startup and nfcconf have no liveness properties: they are sequential and end.

## 4. Proofs

All are in `*_proofs.tla`, and hold for any values of the constants that
satisfy the named assumptions: a positive number of readers; NULL, a stored
handle, garbage and the tags pairwise different; configurations of the right type.

**ReaderLoop_proofs.** `TypeCorrect`: `TypeOK` is inductive; its two clauses
about `pc` are what makes it so (in the body of the loop `i` is a reader, in
the handler of an insertion `new_tag` is a tag).
`ServedOnRecord`: `ServedIsReported` is inductive on top
of `TypeOK`; the interesting step is `PollRemoved`, where reliable selects make
the set of served tags empty. `PassedOnce` follows: when a tag is passed,
another one or none is on record. `LoopKeepsPromise`: the initial states
map to initial states of `GateEvents`, and every step to `Move`, `Report`,
`Forget`, `Stop` or a stutter, one lemma per action.

**NemExecute_proofs.** `TypeCorrect`, `OneShell`, `InTurn`: the same scheme.
`OnErrorCounts`: `OnErrorHonoured` speaks of three places only. The strengthening
`Reaction` says at every place what is known of the failures so far: none
while the handler goes on with `return` or `quit` configured, exactly the last
one when it reacts. `RunsAll`: with `on_error = ignore` every command has run
when the call ends, also with SIGCHLD ignored, where all statuses are lost.

**Gatesrvd_proofs.** Every step of the composition is a step of `ReaderLoop` or
leaves it alone, and the same for `NemExecute` (`StepsOfLoop`,
`StepsOfHandler`). So the theorems about the two carry over (`DaemonRunsLoop`,
`DaemonRunsHandler`), in particular `DaemonKeepsPromise`. What is new is
`CallsMatch` (`DaemonCallsMatch`), inductive with the type invariants, and what
follows from it: `DaemonWaitsForCommands` (a running shell means the handler is in
`my_system()`, so the loop is in a call and cannot poll) and
`DaemonRecordsLast` (the loop records on `EndOfCall`, where the handler is at
its `return` and `OneShell`, `RunsAll` apply).

**ConfLex_proofs.** `TypeCorrect`, and `LinesIndependent`: `LinesAreIndependent`
says nothing of the saved character, and is strengthened by "it is the last that
was read", so that what starts with it does not start with a line end.
`CutsLongest` (`LongestMatch`) compares the scanner with a recursive definition. The
invariant (`LexInv`, in it `CutSoFar`) speaks of every text that the one read so far can
still become: its tokens are those emitted, followed by those of the rest from where the
run in hand began. That the recursive function `TokensOf` exists and is
what its definition says is proved by going down from the end of the text, with
"a set of numbers that is not empty has a least one" in place of induction.

**Startup_proofs.** `TypeCorrect`, then `StartInv`: the words the last scan has
looked at have decided each option (`ArgsSoFar`, the step being `OneMore`: with one
more word either it is the last or the last stays), the file chosen is the
first one named (`FileChosen`, with `MinOfNats`, as the first of several words is a least
number), what the file has passed holds from then on (`FilePassed`), the debug
level is never lowered (`LevelRaised`), and a missing handler means a missing
module (`HandlerFound`). `OptionsDecided`, `LoopConfigured` and `DebugHeard` follow.

**ConfFile_proofs, the parser.** `ParserInv` is `TypeOK` with the types of the records in the
tree, without which nothing can be said of an `EXCEPT` inside of it. The tree is
touched in three ways only (`TreeSteps`): an item is linked behind the last one
(`Linked`), a block is linked and opened (`Opened`), an option gets a value (`Valued`);
`AfterLinked`, `AfterOpened` and `AfterValued` say what each leaves of the old tree.
That `last_item` really is the last item is what `HereIsBlock` takes from the invariant,
and what `nfcconf_item_add_internal()` relies on. From these lemmas follow
`TypeCorrect`, `NothingIsCut` (`ItemsSurvive`) and `KeysUnique` (`OneItemPerKey`: an
option is linked only if the block has none with the key), for tokens of any
number and order. The invariant needs that `NULL` is neither a string nor a pair of
numbers (`StringsAssumption`): a key can be told from no key, a pointer from none.
`OnePlaceEach` (`TreeShape`) follows the places of a block: a step keeps the places of
all blocks and adds at most one, the place of the block it opens (`PlacesStep`).
`BlocksAreNumbered` (`Numbered`): blocks have increasing numbers under each block, a block
is named, and a block that comes between another and one inside that is inside it too
(`Nested`, which holds with "what came after the parser's block is inside it").

**ConfFile_proofs, correct files.** Every step of the writer is one step of the parser
(`WhatIsRead`, `FileSteps`), so `ConfFile` is a behaviour of `ConfParser`
(`FilesAreTokens`) and its theorems hold for correct files. `FileInv` is what is left
to know, of files with their commas: where the writer is tells what the parser has in hand (`Accepted`); the
blocks open in the writer are the chain of parents of the parser's block (`OpenChain`);
the item under construction has the writer's key (`OptionAtHand`); keys and
values are in their places (`ItemShape`); parents and names match (`HeadsMatch`), for every
block and key the items of blocks are those written (`BlocksMatch`), in the order of the file
by `Numbered`, and the values of the only option are those written (`ListsMatch`). Each part
is kept by the three ways of touching the tree. `GrammarAccepted`,
`BlocksFound` and `ValuesFound` follow for files of any length and depth. `KeysKept`
(`ItemShape`) is shown of all files of the grammar: once a comma is left out nothing
is known of the writer's place any more, but a comment or an empty line still stands only
where the parser has no key.

**ConfWrite_proofs.** First files are of any length and tokens, trees of any size and depth,
strings any sequences of characters.
`BothParsesHold` and `NothingIsCutTwice` (`TypeOK`, `TreeShape`, `OneItemPerKey`,
`ItemsSurvive`) need only that a text is cut into tokens the parser knows,
whatever its keys and values are (`ScanTyped`, `WrittenIsTokens`, `CutTyped`).

`WrittenReadsBack` (`ReadsBack`) and `CutReadsAsPart` (`CutIsPart`) are about trees that are
`Legible`. They rest on three layers.

*Scanning.* What a scanner makes of a text that is put together from parts: `TokensOf` looks
ahead from a character only as far as its token goes (`BodyLooksAhead`, `TokensBehind`), so a text
starts with the token of its first part if that part ends where the token does. `ScanPlain`,
`ScanQuoted`, `ScanWritten` say so of a string that needs no quotes and is followed by
one of the characters that end it, and of one between quotes; `ScanMarks` and `ScanComment` of
the rest. `WrittenIs` is the agreement of writer and scanner: what `string_need_quotes()`
leaves without quotes has only characters that do not end a string (`NormalIsPlain`), and
what it quotes has neither quote nor line end in it. `CutIs` says what is read of such a string if
the text ends inside it.

*The place in the text.* The text is a flattening of flattenings, so where the second parse is
is said from the other end: `Rest(t, b, n)` is what the writer puts into the file from item n
of block b to the end, that is the rest of the block, its foot and what stands behind it in
its parent (`After`), and `RestScan` its tokens. `RestGoesOn` and `RestEnds` are the writer
as the parser meets it: at an item its first characters and what is left then, at the end of a block its
foot.

*The invariant.* `WriterInv` has three parts while nothing is cut:

- `Position`: the parser is at the empty line at the top, between two items, at a line
  end, behind the key of an option, in the head of a block, or in the values of an
  option, and `file` is what is scanned of the `Rest` there. Within a list `ListLeft` says how the
  strings read and those left make up the list, with or without a comma in front, where
  empty strings leave nothing (`ListNext`).
- `Opens(S)`: S is the parser's block and those around it, and each of them is the last
  item, so far, of its parent.
- `Part(S)`: the blocks there are have the parents and names of the source, items are those
  of `Again(source)`, and a block that is not open has all of them. Only the option
  whose values are being read may differ.

Once a string was cut (`phase = "cut"`) nothing but the end of the file can follow, and
`WriterInv` is `CutIsPart` itself with no error; `StepOfReadCut` looks at the string that is next at each
`Position`: a key or a name that was cut touches no tree, a value becomes the last of its list
(`CutList`).

That a block which is opened gets the number it had in the source (`OpensTheNext`) is what
`Numbered` is for. Each token leads from one place to another (`FromTop` to `FromValue`,
`StepOfReadAgain`); `FromOption` is where `OneItemPerKey` of the source is used, as
a second option of the key would be merged into the first. If nothing is left, the
parser is at the end of the root, so no block is open and the tree is the whole
(`WholeWhenEmpty`, `WholeIsAgain`). The functions of what is inside and behind each block
exist by going through the blocks from the last down or from the first up (`InsideExists`,
`AfterExists`), that of the tokens of a text by going through its characters
(`TokensOfExists`); `FlattenIs` takes `FlattenSeq()` apart in the same way. `CharsAssumption` says that
a normal character is none of those that mean something in a file.

**ConfTree_proofs.** `TreeInv` says of every heap the calls can make: a child comes
after its parent and has no second place (`IsForest`), a block hangs if and only if it is
not the root, a copy of the caller's or cut off, and a parent pointer is null or leads to the
place of the block (`Kept`). The lemmas `AfterNew`, `AfterLinked`, `AfterCopy`,
`AfterValue`, `AfterDestroy` and `AfterCut` say of each operation which places it leaves,
adds and takes away (`Hangs`), and `NewKept` to `CutKept` that `Kept` survives that. A
copy is a bijection: the ranks of the blocks below are 1, 2, 3 and so on (`RanksAre`,
`CopiesAre`). That the recursive functions in `Below` and `Text` exist and are what
their definitions say is proved from the last block down to the first (`Downward`).
`TypeCorrect` (`TreeTypeOK`, which the run checks as a part of `EntriesTypeOK`),
`OneOwnerEach` (`OneOwner`), `OneGrows` (`OneBlockGrows`) and `CopiesEqual` (`CopyIsEqual`,
with `SameText`: equal names, and items that point to the copies) follow for heaps of any
size and any number of calls. `FilesAssumption` asks of the files what
`OnePlaceEach` proves of the parser; `StringsAssumption` that strings are strings and the
null pointer is no block. The theorems are about `TreeSpec`, every call but those for the entry
tables.

**Only model-checked.** Liveness (`EventuallyAccurate`, `FirstConnect`,
`CallsEnd`, `KeepsPolling`), which needs `ENABLED` and fairness, beyond the prover; the
properties of `ConfEntries`, whose operators are RECURSIVE, and those of `ConfTree` when the
calls for entry tables come in between. What a recursive definition computes can be proved only
where a least counterexample can be written down without an induction theorem, as in
ConfLex_proofs, ConfWrite_proofs and ConfTree_proofs.

## 5. Findings

Each has a run that shows it.

1. *A reader that is plugged in again is never served* (gatesrvd.c:387).
   `device_list[i]` is never set back to NULL; polls through the dead handle look
   like an empty field forever.
2. *`nodebug` does nothing* (gatesrvd.c:271): `strstr(argv[i], "debug")` takes it first.
3. *Commas that are not optional* (parse.c:279): `README.nfcconf:83` lets the comma
   between two names out; the parser refuses the second name. Between two values
   (`README.nfcconf:93`) the second is taken for the key of a next statement (parse.c:244-248),
   with a warning, and is lost; `GrammarIsRead` says that too, but TLC meets the names first.
4. *Items without a key* (parse.c:109): a comment or an empty line between a key and its `=`
   or `{` takes the key into the comment item, against nfcconf.h:62-64; the option or block that follows
   has none, and a later lookup in that block passes NULL to `strcasecmp()` (nfcconf.c:79, 103, 131),
   as does the parser (`FindIsWild`); the writer passes it to `strlen()` (write.c:139).

## 6. Noticed without a run

- "Module loaded" (gatesrvd.c:365) is reported without one: the -1 of `load_module()` is
  ignored, and the handler is called through a null pointer (`InitGate` of `Startup`).
- Commands never get the UID of their tag, although conf/gatesrvd.conf:52 logs `$TAG_UID`: the call
  that reads it is commented out (nem_execute.c:139).
- More reader blocks than `MAX_READERS`, and driver, reader or module names longer than
  their arrays, are copied beyond the end (gatesrvd.c:91, 202-204).
- `device_list` and `oldtag_list` come from `malloc()` and are tested against NULL
  before anything is stored in them (gatesrvd.c:332-333, 387); with `HeapCleared`
  FALSE `ReaderLoop` polls a handle it never stored and may crash (`PollCrashes`).
- `conf/gatesrvd.conf:5` says that `daemon` implies `debug = false`; no code does so.
- `EVENT_TAG_REMOVED` calls no handler (gatesrvd.c:426), so `tag_remove` actions
  never run.
- `nem_execute_init()` calls `set_debug_level(1)`; whether that is the daemon's level
  or that of a copy in the module depends on how `debug.c` is linked. The
  model leaves the daemon's level alone.
- A file that ends inside a block or an option is accepted (parse.c:369).
- `nfcconf_write()` "Returns 0 = ok, else = errno" (README.nfcconf:120), but does not
  look at `fclose()`, where a full disk shows first, and opens with "w", so the
  old file is gone when the new one fails.
- The writer never quotes keys and cannot write a string with a quote or a line end in it so
  that it is read back; empty strings and an empty line at the top vanish.
- A written file that is cut inside a value is read with a value that nobody wrote: 10 becomes 1,
  and a quoted one gets the character 0xff (nfclex.c:99-100, 144, 151).
- `nfcconf_put_str()` appends to an option that exists (parse.c:92), so that
  `nfcconf_get_str()` goes on returning the old value.
- A second `nfcconf_parse()` or a `nfcconf_parse_string()` cuts off all items of the root
  as soon as it makes an item of its own (parse.c:386).
- `nfcconf_find_blocks()` with a name follows the name of each block (nfcconf.c:104), which is
  NULL for a copy of the root that was added somewhere.
- The copies of nested blocks have no parent (nfcconf.c:268-272); only the parser uses it.
- `nfcconf_item_add()` with the list of the same option, if it has two strings or more,
  never ends (nfcconf.c:316): the list grows as it is walked.
- Entry tables: a string that is empty fails the table (nfcconf.c:515); without
  `SCCONF_ALLOC` it is copied without a terminator (533); false and 0 are not written
  (635, 645), yet flagged as present, against README.nfcconf:321-326;
  `SCCONF_PRESENT` is never cleared.
- nem_dbus ignores the answer of RequestName (nem_dbus.c:190) and runs no main loop;
  its handler is empty.

## 7. Not modelled, and the plan

| Part | Why |
|---|---|
| the D-Bus object of nem_dbus, and what would emit signals (nem_dbus.c:26-164) | no caller: the calls in the handler and the main loop are commented out |
| list helpers of nfcconf (nfcconf.c:336-405) | pure: lengths and joined strings |
| printing, logging, build files | no behaviour of their own |
| buffer sizes but those of section 2.4, allocation failures | data and memory are abstract; listed as hazards |
| `gatectl_port`, `expire_count` | read or set, never used |

Order of work, the most important behaviour first; all are done.

1. `GateEvents`, `ReaderLoop`: the promise and the loop, with refinement.
2. `NemExecute`: the handler.
3. `Gatesrvd`: their composition.
4. Theorems about 1 to 3.
5. `Startup`.
6. `ConfParser`, `ConfFile`.
7. `ConfLex`: the scanner against a definition of its tokens.
8. `ConfTokens`, `ConfWrite`: what `nfcconf_write()` makes of a tree, scanned and read back.
9. `ConfTree`, `ConfEntries`: the calls of the library and the entry tables.
10. Theorems about `Startup` and `ConfParser`, for any number of words and tokens.
11. Theorems about the shape of trees (`TreeShape`, `OneOwner`, `CopyIsEqual`,
    `OneBlockGrows`), about correct files (`ConfFile`) and about the scanner (`LongestMatch`).
12. Theorems about what is written and read again (`ReadsBack`, `CutIsPart`).
