# A TLA+ model of cpp-json

`cpp-json` is a small demonstration: a radio ("DT") whose modes are a
hierarchical state machine, whose present mode is recorded in a JSON file, and
whose transitions are logged. Most of the code is three C libraries kept in
`src/extlib`: HSM (the state machine engine), cJSON and EasyLogger. This
directory models them and the application, checks the models with TLC and
proves part of them with TLAPS. Paths below are relative to the repository, so
that `hsm.c` is `src/extlib/hsm/hsm.c`.

## 1. Inventory

| Component | State | Operations | What is hard |
|---|---|---|---|
| HSM engine (`hsm.c`, `hsm.h`) | `curState`, `hsmTran`; on the stack: the exit and entry lists of `HSM_Tran` | `HSM_STATE_Create`, `HSM_Create`, `HSM_Run`, `HSM_Tran`, `HSM_IsInState` | handlers call back into the engine: transitions inside INIT, illegal ones inside EXIT and ENTRY, bubbling that goes on after a transition |
| DT application (`tests/main.cpp`) | the `HSM`, `cjson_root` | `DT_Init`, `DT_Run`, five handlers, `State2*`, `Display`, `log2file`, the key loop | the record is written in the middle of a transition; saves fail and the process is killed; a handler's return value is another event to its parent |
| `ReadFile`, `SaveToFile` | the file | read all; truncate, then write | truncation and write are two steps, and their failure is ignored |
| EasyLogger async (`elog_async.c`, `elog_cpyln` of `elog_utils.c`) | ring buffer, two indices, two flags; semaphore, thread, three flags | put, get line, used, space; output thread; enable, init, deinit | full and empty differ by flags only; threads, a semaphore, a thread that is joined |
| EasyLogger core (`elog.c`) | `elog`: flags, filters, format sets; `log_buf` | init, start, stop, deinit, `elog_output`, `elog_raw`, filters, lock, hexdump, `elog_find_*` | two flags set one after the other; filters that take the output lock; a lock that can be disabled; one buffer for all lines, which a line may fill at any of its parts; a 16-bit index |
| EasyLogger file (`elog_file.c`, `elog_file_port.c`) | `fp`, settings, log files | init, write, rotate, deinit, config | a rotation is up to a dozen system calls, any of which fails, or is the last before a kill |
| EasyLogger port (`elog_port.c`) | the mutex | lock, unlock, print, time, names | – |
| EasyLogger buffered output (`elog_buf.c`) | – | – | compiled out (`ELOG_BUF_OUTPUT_ENABLE` is not defined) |
| cJSON trees (`cJSON.c`) | items linked by `next`, `prev`, `child`; names and flags | create, add, insert, detach, replace, delete, references, duplicate | pointer surgery on a list whose first `prev` is its last; who owns an item, and who a name |
| cJSON parser, printer, minify, compare | parse position and depth; print buffer | `cJSON_Parse*`, `cJSON_Print*`, `cJSON_Minify`, `cJSON_Compare` | buffer growth, sizes computed apart from what is written, nesting limit, clean-up on every error path, escapes, a rewrite in place |
| `log_util.cpp` | – | `ELOGLIB_Init`, `logi`, `loge`, `getTime` | configuration of the logger |

How they meet: the key loop calls `HSM_Run`, which calls handlers, which call
`HSM_Tran` with `Display` as its hook; `Display` changes the cJSON document and
calls `SaveToFile`; `log2file` calls `logi`, which writes a line with
`elog_file_write` and another with `elog_output`. `elog_output` puts the line
into the ring under the output lock and raises the semaphore; the output thread
takes lines out under the same lock and prints them outside of it. Everything
but the logger's output thread runs in the main thread.

What makes each part correct:

* engine: ENTRY and EXIT are paired and ordered, a state is active only below an
  active parent, illegal calls leave a transition alone, every call returns;
* application: the modes follow the handlers' table, and record, file and log
  name the mode whatever fails;
* ring: a first-in first-out queue that drops only what has no room;
* asynchronous output: no lost wake-up, no byte lost or printed twice, order
  kept, a shutdown that ends, and destroys nothing in use when it is an orderly one;
* file output: bounded files that hold the latest lines in order;
* filters: a function from tags to the levels that were set;
* lines: the header and the message as far as there is room, then one newline;
  a dump that ends;
* trees: a forest with intact links, one owner for each item and each name;
* texts: what is printed is the JSON of the item, never leaves its buffer, and is
  read as that item again; what is left of a text that was cut is refused.

## 2. Modules

| Module | Models | Abstract specification it implements |
|---|---|---|
| `HSM` | `hsm.c` | – |
| `DT` (uses `HSM`) | `main.cpp`, `ReadFile.cpp`, `SaveToFile.cpp` | `DTMode`: the table of mode changes |
| `ElogRing` | ring buffer of `elog_async.c`, byte by byte | `ByteQueue`: a bounded queue of bytes |
| `ElogAsync` (uses `ByteQueue`) | threads, lock, semaphore, life cycle | – |
| `ElogFilter` | level filters of `elog.c` | `TagLevels`: a bounded function of tags |
| `ElogOutput` (extends `ElogFilter`) | lines of `elog_output` and `elog_raw`, the other filters, `elog_hexdump`, `elog_find_*` | – |
| `ElogLock` | output lock when it may be disabled | – |
| `ElogFile` | `elog_file.c` | `LogHistory`: the latest lines, in order |
| `CJSONTree` | tree functions of `cJSON.c`, one item at a time | as part of `CJSONBuild` |
| `CJSONBuild` (extends `CJSONTree`) | parser, `cJSON_Duplicate`, `cJSON_Create...Array` | `CJSONForest`: a forest of sequences |
| `CJSONPrint` | printer of `cJSON.c` and its buffer | – |
| `CJSONText` (extends `CJSONPrint`) | the parser on bytes, `cJSON_Minify`, `cJSON_Compare` | – |
| `MC*` | the instances for TLC | |
| `HSM_proofs`, `DT_proofs`, `ElogAsync_proofs`, `ElogOutput_proofs`, `ElogFile_proofs`, `CJSONBuild_proofs`, `CJSONPrint_proofs` | the theorems of section 4, each about the module it is named after (`ElogOutput_proofs` also about `ElogFilter` and `ElogRing`, `CJSONBuild_proofs` about `CJSONTree`) | |
| `ProofFacts` | three lemmas that the proofs share: least element, induction up to a number, recursion up to a number | |

Definitions carry the names of the C code where they can. Operators whose
comment begins with `Mutant:` are faulty variants of the definition that follows
them; no specification uses them. They record which mistake each property is
able to see, and `PROJECT.json` says which is for which.

### HSM

`HSM_Run` and `HSM_Tran` are cut into one step for each handler they call, with
the C locals in `run` and `tran` and the place in `pc`: `Dispatch` offers the
event to a state and goes on with its parent while the handler passes it on,
`Walk` climbs from source and target to the common parent collecting the two
lists, then come the EXIT calls, the hook (`CallMethod`), the ENTRY calls,
`Commit` and the INIT call. What a handler does is chosen from the constant
`Handler`: a transition or none, and the event it returns. INIT may transit,
which starts a nested `HSM_Tran`; EXIT and ENTRY may try to and are refused by
`hsmTran`. `active` is a history variable: the states that were told ENTRY and
not yet EXIT.

The tree is any that `HSM_STATE_Create` accepts: the `Level` it stores is one
more than the parent's and below `HSM_MAX_DEPTH`, so a tree has no cycles. The
initial state is at the top (`InitAssumption`): `HSM_Create` calls the ENTRY
handler of the state it is given and of none above it, and `DT_Init` gives it one
whose parent is the root.

### DT and DTMode

`DT` instantiates `HSM` with the five states and the handlers of `main.cpp` as
they are, including that `EXIT_FAILURE` is 1 and so the event `DTE_JOIN` to the
parent, and that the branch of n1 for the key `e` is the one `HSM_Tran` runs to
leave n1. The hook is `Display`: it replaces or adds the member, opens
(truncates) the file, writes it. Each may fail; the process may be killed before
and after each step and boots again from what the file holds. `DTMode` is the
table of moves that this amounts to. `saved` is a history variable: the last save
since the start, if there was one, got as far as the end of the file. It says
nothing of the saves before it.

### ElogRing and ByteQueue

One step is one call of `async_put_log` or `elog_async_get_line_log`, with the
two `memcpy`s across the end of the buffer written as one function of the index.
`held` is a history variable: the number of bytes put and not yet got. The
specification is called `RingSpec`, since a module of proofs extends `ElogRing` and
`ElogOutput` together; `RawSpec` adds the empty log of `elog_raw`.

### ElogAsync

Each thread in `elog_output` is at one of: filter, lock, emit, notice, unlock.
The output thread is at: check the flag, wait, get, print. The main thread runs
`elog_init`, `elog_start` (two flags, then the version line), `elog_stop`, and
`elog_deinit` (flag, notice, join, then the port's semaphore and mutex are
destroyed). Threads may log at any time, also while `elog_deinit` runs and after it,
as nothing in `elog.c:207` keeps them from it; a deinit may begin while they are
in a call. A thread that then uses what is destroyed (`LockDestroyed`,
`NoticeDestroyed`), and a mutex destroyed while it is held (`PortDeinit`), set
`undefined`, behind which the code promises nothing and no behaviour is
modelled. `orderly` is a history variable: the last deinit was called with the output
disabled and nobody in a log call. Taking the lock, getting a line and giving
the lock back is one step of the output thread because nothing that others can
see happens in between; printing is outside of the lock, as in the code.
The ring is `ByteQueue`, which `ElogRing` is proved to implement.

### ElogFilter and ElogLock

`ElogFilter` has the tag table with removal in the middle,
the search, the truncation of tags, and init and deinit. `ElogLock` is the one
module in which the lock can be disabled: the flag is read again at the unlock.

### ElogOutput

Texts are sequences of one-character strings. A line is made as the code makes
it: the parts that the format of its level asks for (`Parts`) are copied with
`elog_strcpy` as long as there is room, `vsnprintf` writes what still fits and a
null byte (`LogBuf`), then the length is set (`LengthOf`), cut for the newline
(`LogLength`), the keyword looked for, the newline added. `log_buf` is shared by
all lines, so whatever a line has not written is `Stale`. A call holds the
output lock, hence is one step, and `PutOut` is its hand-over to
`elog_async_output`, which `ElogAsync` models; the logger is started. A dump
takes a step for each line, with its index modulo `Wrap`.

### ElogFile and LogHistory

File 0 is the log, file k+1 is `log.k`. A write that rotates takes a step for
each system call: remove and rename for each n from the last down, then reopen.
`rename`, the reopening, and the opening that tests for a file may fail; the
process may be killed at any step, and loses what stdio holds back. A reopening
that fails after a good rotation ends the process at `fwrite(NULL)`. `Kept` puts
the files together, the oldest first; it and `Bytes` are recursive functions, so
that they can be reasoned about. `LogHistory` follows the calls by their number:
a call writes its line, or has it wait for a rotation, which may cost old lines
once. Lines are dropped only after something has failed. It allows what the code
then does: a rotation that fails costs the oldest file although nothing moves in,
and without a file every later line is dropped.

### CJSONTree and CJSONForest

Items are cells with `next`, `prev`, `child`, a name with its owner and the two
flags `cJSON_IsReference` and `cJSON_StringIsConst`; a call is one step, made of
the same pointer assignments in the same order. `Freed` is the set that
`cJSON_Delete` frees. `alloc`, `held` and `leaked` say which items exist, which
are the caller's to delete, and which a failed call lost. Calls are made as
cJSON means them to be: what is added is a root of the caller's and not above
the target; nothing is added to a reference; nothing is deleted that a reference
elsewhere can reach.

### CJSONBuild

The calls that make many items and link them themselves. The parser and
`cJSON_Duplicate` are recursive in the code, so each has a stack of frames here
(`parsing`, `copying`), and a step for each item, since memory may run out at
each. A frame of the parser is a call of `parse_array` or `parse_object`: its
item, and the head and end of a list which the item gets only when the list is
complete; the first frame is `cJSON_ParseWithLengthOpts`, whose list is the root.
Of the text only the nesting is kept: the next token, or an error there, is a
choice. `ParseFail` and `CopyFail` are the way out through all frames, each of
which deletes what it has. To the forest (`ImplementsForest`) the items of an
unfinished call do not exist yet: such a call adds a whole tree at its end, or
nothing.

### CJSONPrint and CJSONText

The printer is a stack of `print_value` calls over a fixed table of items, and a
step is what the code does after one call of `ensure`. Each step states apart,
as the code does, how much room it asks for, which bytes it writes and where it
leaves the offset; after a key or a child `UpdateOffset` finds the end of the
text by its null byte. `ensure` (`Write`) keeps the buffer, moves it to one of
twice the size (or `INT_MAX`), refuses, or finds no memory and frees it; with
hooks of the caller's own there is no `realloc`, and only the bytes before the
offset are copied. `blocks` counts the memory in use. The loops over bytes, such
as the sizing of `print_string_ptr`, are recursive functions or a choice of the
first position.

`CJSONText` continues with texts: printed ones, which may be cut as by a save
that was interrupted, and the program's own. `cJSON_Minify` is the code's loop,
a step for each round, working in place. The parser only reads, so it is an
operator (`ParseWithOpts`) of one function of the code each; what it makes and
frees is in `CJSONBuild`. Strings are read in the two passes of `parse_string`,
the first of which only sizes the memory (`room`). Items are records here, and
`Compare` is `cJSON_Compare` on them. A number is the text that `strtod` reads,
without its value.

## 3. Runs

| Run | Instance and bounds | What it shows |
|---|---|---|
| `hsm` | 7 states in two branches, one of the greatest depth `HSM_MAX_DEPTH` allows; every state may go anywhere on an event and pass it on or not; EXIT and ENTRY may call `HSM_Tran` | ENTRY and EXIT alternate, active states form a path, the hook runs between exits and entries, refused calls change nothing, the lists fit their arrays, every call returns |
| `dt` | the five states and six keys of the program; a first file with the member, without it, with it twice, or none | modes follow `DTMode`; after a transition the record names the mode, and so does the file if the save of that transition was complete; a file that was lost stays lost, and the machine in normal; the log tells each move, with one false line behind that out of n1; each key is answered |
| `dt_diagram` | as above, starting from the file in `assets/` | a violation: see findings |
| `ring` | 5 bytes, a reader of fewer, logs of several lengths with and without newlines | the ring implements `ByteQueue`; flags and indices agree with what is held; only what has no room is dropped |
| `ring_raw` | an empty log among them | a violation: see findings |
| `async` | two logging threads and main, 2 logs into a ring of 3 bytes that they overfill, 2 inits, 2 starts, stops and deinits at any time, log calls before, during and after them | no lost wake-up; order of the lock kept until a stop; no byte lost or twice; every accepted byte printed unless a deinit leaves it in the ring; every log call and `elog_deinit` return, unless what was destroyed is used; that never happens after an orderly deinit |
| `output` | a line of 16 bytes; headers of none, 9 to 12 and more bytes than it has; messages that end before, at and behind its end; two slots, three tags and a fourth that the table cannot tell from the third; dumps with and without a width, also past the wrap of the index | a line is its header, as much of its message as fits, and one newline; level and tag are found in it; the table implements `TagLevels`, a tag has one slot, a free slot has no level; a dump ends |
| `lock_disabled` | one thread | a violation: see findings |
| `file` | two rotated files of two units, seven lines of one or two units | files are bounded, the log implements `LogHistory`: a call costs old lines once, none is dropped unless something has failed; without a fault nothing goes early |
| `cjson_names` | 3 items, two names that differ in case | each call, the parser and `cJSON_Duplicate` among them, does to the forest what `CJSONForest` says, names are freed by their owner |
| `cjson_array` | 4 items without names | links stay intact in lists of three, one owner for each item, references spare what they share; a failed parse or copy leaves nothing behind; a deep copy is equal to its source |
| `text` | 22 items, each printed by each function into buffers of 0 to 46 bytes, where 46 stands for `INT_MAX` and 4 for the first size, with and without `realloc` and memory; each text cut anywhere and minified or not; 28 texts of the program's own with blanks, comments, errors and nesting to the limit; 17 code points at the bounds of UTF-8 and UTF-16 | see below |

Why these bounds are enough: the tree of `hsm` has a branch at the maximal depth
and pairs of states in every position to each other (equal, above, below, in
another branch at the same and at another depth), which is what `Walk` tells
apart. `dt` is not bounded at all, but by the number of states the program has.
Five bytes let both indices wrap several times, meet full and meet empty, with
logs on both sides of the end. In `async`, two logs and the line of `elog_start`
are more than three bytes, so a thread is about to put into a full ring while the reader is at
each of its places, and with two of each the life cycle meets what an earlier one has left behind.
In `output` each message is one byte too long, exactly as long, and one short
of what each of the headers leaves. In `text` a buffer grows up to three times,
fails at each `ensure`, and each escape, separator and closing sign is once the last thing
that fits.
Seven lines fill all files and rotate a third time, so that the oldest file
with lines in it is removed. Three siblings give a first, a middle and a last
item to detach, replace and insert before; the fourth item is their parent, or a
reference and its target. More items (five without names) and more lines were
run without a violation as far as they got, and add no case.

The run `text` shows, property by property: the bytes before the offset are a
beginning of the item's JSON at every step, and what is returned is all of it
(`PrintsTheTree`); no byte lies behind the buffer and every `strlen` finds a null
byte inside (`StaysInside`); a call fails only when the text and two more bytes
have no room (`FailsOnlyForRoom`; `cJSON.h` asks callers for five); memory is
freed once (`BuffersFreed`); a printed text is read as its item, which
`cJSON_Compare` finds equal to those of the same JSON only, and a text that was
cut is refused unless it is a number (`ReadsBack`); `cJSON_Minify` removes blanks
and comments only and makes the unformatted text of the formatted one
(`MinifyUnformats`); a string never outgrows the memory its first pass sized, and
escapes become the UTF-8 of their code point (`StringsReadRight`).

Only `async` does not check for deadlock: the output thread sleeps once
everything is printed. The type invariant is stated in each module that keeps
state of its own and checked by `hsm`; those of `HSM`, `DT`, `ElogRing`,
`ElogAsync`, `ElogFilter`, `ElogFile` and `CJSONBuild` are proved.

### Fairness

* `HSM`: weak fairness of the engine's own steps. It is sequential code without
  a wait; nothing is assumed of the application, which may never call it.
  INIT handlers descend in the instance, since two that transit to each other
  nest for ever; that is the application's to avoid.
* `DT`: the same for the program while it is up. Kills and keys are not fair.
* `ElogAsync`: weak fairness for each logging thread inside a call, for the
  output thread, and for the main thread inside start, stop or deinit. The
  mutex is not assumed to be fair: the properties need only that each thread
  which can run does, and callers are bounded. Nothing makes anyone call. Nothing is
  fair any more once the behaviour is undefined.

* `ElogOutput`: weak fairness of the lines of a dump, a loop without a wait.

The other modules have no liveness: their calls return by themselves.

### Findings

* `DiagramMoves` (`dt_diagram`): `main.cpp:139` answers error and maintain in n1
  with `EXIT_FAILURE`, which is 1, hence `DTE_JOIN` for the parent, which ignores
  it. The diagram at `main.cpp:39` shows both leading out of the box of Normal,
  n1 and n2.
* `RoomForWhatFits` (`ring_raw`): `elog_async.c:163` clears `buf_is_empty`
  after a put of nothing, so an empty `elog_raw` into an empty ring leaves equal
  indices and no flag, for which the used size is the whole buffer: no space is left although no
  byte is stored. A log put now is dropped, against `elog_async.c:136`; a read
  hands over bytes that were never put. The property is about the state behind the
  empty put, since a put that drops all of its log changes nothing.
* `NeverWaitsForItself` (`lock_disabled`): the filter look-up takes the port
  mutex also while the lock is disabled, and `elog_output_unlock` then keeps it;
  the second log waits for its own thread (`elog.c:484`, `:493`).

Seen while modelling, without a run of their own:

* `HSM_Create` calls the ENTRY handler of the initial state with `hsmTran` clear
  (`hsm.c:87`): an `HSM_Tran` made there is carried out, although `hsm.c:158` and
  `:229` call it illegal. `HSM` models it and its invariants hold all the same.
* After a start the record may name another mode than normal, in which the
  machine starts (`main.cpp:186`), until the first transition.
* A `null` member is not replaced but followed by a new one, which look-up never
  reaches (`main.cpp:57`); each transition adds one more. The documents of the
  `dt` run therefore hold no `null` member.
* Leaving n1 runs its branch for the key `e`: a line of log, behind the true one, for
  a move that does not happen (`Told`), and an `HSM_Tran` refused only thanks to
  `HSM_FEATURE_SAFETY_CHECK` (`main.cpp:133`).
* `ELOG_FILTER_LVL_SILENT` is the level of assert logs, which therefore still
  pass in silent mode (`elog.c:577`); the sixth tag given to
  `elog_set_filter_tag_lvl` is ignored (`elog.c:453`).
* `elog_stop` disables the output before it logs its own message (`elog.c:265`).
* `elog_deinit` leaves the output enabled and waits for no log call (`elog.c:207`): one
  that is made meanwhile or later takes a destroyed mutex, or posts a destroyed
  semaphore. `elog_stop`, and then waiting until nobody logs, makes it orderly.
* A file that is empty at the start is never written again: `Display` throws
  before it saves (`main.cpp:62`, `LostFileStaysLost`).
* The mark of a held lock is cleared after the mutex is released (`elog.c:383`).
* Repeated failures to rename the log itself shift the older files out, one at
  each call, while nothing moves in (`elog_file.c:91`).
* After a reopening that failed, every later line is dropped and nobody is told
  (`elog_file.c:113`).
* Items can be made to reach themselves through a reference (a child
  that it shares is detached and inserted before it in its own list); `cJSON_Duplicate` of them then recurses until
  memory ends (`cJSON.c:2753`), and so does `cJSON_Print`.
* The exact look-up of cJSON stops at a member without a name (`cJSON.c:1892`).
* A line number prints at most four digits: `snprintf` is given
  `ELOG_LINE_NUM_MAX_LEN`, 5, with the null byte (`elog.c:646`).
* When `vsnprintf` fails, the line is as long as the buffer and its end is what
  earlier lines have left there (`elog.c:668`); `LineIsWhole` leaves those out.
* `elog_find_tag` reads a tag up to its first blank, and none of
  `ELOG_FILTER_TAG_MAX_LEN` characters or more (`elog.c:834`); `LineIsWhole` is about
  the other tags.
* `elog_raw` of a text as long as the buffer or longer puts out the null byte
  of `vsnprintf` as the last one (`elog.c:524`).
* `elog_hexdump` never ends with a width of 0, nor when size and width together
  exceed 65536, and holds the output lock meanwhile (`elog.c:874`).
* `minify_string` takes the quote after an escaped backslash for an escaped one
  (`cJSON.c:2830`), although `cJSON.h:292` says that it removes blanks: of
  `["\\", "a b"]` the model makes `["\\", "ab"]`, where a blank stays and the one
  inside the next string goes. `MinifyUnformats` and `ReadsBack` leave such texts
  out (`QuoteMissed`).
* `parse_hex4` answers 0 to digits that are none (`cJSON.c:637`): `"\ug000"` is read, as a
  string that ends there.
* `cJSON_Minify` drops a slash that begins no comment (`cJSON.c:2867`).
* `cJSON_Compare` finds an object with two equal names unequal to its own copy
  when their values differ, as the look-up only reaches the first (`cJSON.c:3075`).
* `cJSON_PrintBuffered` with a buffer of 0 bytes and hooks of the caller's own
  copies one byte out of that buffer (`cJSON.c:515`).

## 4. Proofs

A theorem holds for every value of the constants that satisfies the assumptions
of its module; the runs show the same property on one instance. Each proof
rests on an inductive invariant `IInv`, which TLC checked on the instance of the
run before it was proved: `Init => IInv`, `IInv /\ [Next]_vars => IInv'` with
one lemma for each action, and `IInv` implies the property.

| Module | Theorem | Says |
|---|---|---|
| `HSM_proofs` | `TypeCorrect` | types; the two lists of `HSM_Tran` never hold `HSM_MAX_DEPTH` states |
| | `ActivePathAlways` | at every handler call the active states are one path from the top |
| | `IdleConsistentAlways` | between calls `HSM_IsInState` reports exactly the active states |
| | `TransitionOrderAlways` | EXIT goes to active states and ENTRY to others, the hook runs in between, nothing diverts a transition |
| `DT_proofs` | `TypeCorrect` | types; a key writes at most two lines of log |
| | `EngineKept` | `ActivePath` and `IdleConsistent` inside the program, over kills and restarts |
| | `RecordFollowsModeAlways` | after a transition the record names the mode, and the file too if that save was complete |
| | `LostFileStaysLostAlways` | once the program was stopped with a file that cannot be read, no later run writes it again or gets out of normal |
| | `LogTellsTheMoveAlways` | the lines of a key are the move and, out of n1, one false line, and no others |
| | `DTModeImplemented` | `Spec => Radio!Spec`, the table of `DTMode` |
| `ElogAsync_proofs` | `TypeCorrect` | types; each thread is at a place of the code |
| | `NoLostWakeupAlways` | the output thread never sleeps on stored bytes with nobody about to wake it |
| | `OutputInOrderAlways` | until a stop, bytes are printed in the order of the lock |
| | `NothingLostOrTwiceAlways` | each accepted byte is printed once, in hand or stored |
| | `OrderlyDeinitIsSafeAlways` | after an orderly deinit nobody uses what it has destroyed |
| | `OneInsideAlways` | the output lock excludes |
| `ElogOutput_proofs` | `TypeCorrect`, `OneSlotEachAlways` | a tag has one slot at most, a free slot no level |
| | `TableImplemented` | `Spec => TagLevels!Spec` |
| | `OutputKeepsTable` | both, for the specification of `ElogOutput` that the run checks: `OutputImplementsFilter` shows that it implements that of `ElogFilter` |
| | `LineIsWholeAlways` | a line is header and message, as much as has room, and one newline sign; level and tag are read from it again |
| | `RingTypeCorrect` | the ring: indices stay inside the buffer, all variables have their types |
| | `AgreeAlways` | indices and flags stand for the number of bytes held |
| | `UsedIsHeldAlways` | `elog_async_get_buf_used` is that number (no run checks it, `AgreeAlways` and arithmetic give it) |
| | `EmptyMeansDrainedAlways` | a read returns nothing only if nothing is held, and no more than the reader has room for |
| | `DropsOnlyBeyondSpaceAlways` | a put stores as much as fits |
| | `RingIsByteQueue` | `RingSpec => ByteQueue!Spec`, where the queue is the `held` bytes from `read_index` on |
| `ElogFile_proofs` | `TypeCorrect` | types |
| | `SizeBoundAlways` | no file is longer than `max_size` and one line |
| | `RetentionAlways` | without a fault, lines go only when `max_rotate` files are full |
| | `HistoryImplemented` | `Spec => LogHistory!Spec`: what is kept are the latest lines in order, a call costs old ones once and drops its own only after a failure |
| `CJSONBuild_proofs` | `TypeCorrect` | types; the parser and `cJSON_Duplicate` never run at the same time |
| | `LinkedBothWays` | `next`, `prev` and `child` agree in every list, also while a text is parsed or an item copied |
| | `OneOwner` | each item has one place, or is a root that somebody has; nothing that is free is in a list |
| | `NamesOfTheirOwn` | the flag of a constant name is set exactly when the name is not on the heap |
| `CJSONPrint_proofs` | `StaysInsideAlways` | no byte is written behind the buffer, each `strlen` ends inside it |
| | `BuffersFreedAlways` | a call that fails has freed its memory, once |
| | `PrintsTheTreeAlways` | what is printed is the JSON of the item: its beginning at every step, all of it when it is returned |
| | `FailsOnlyForRoomAlways` | two bytes more than the text are room enough; else only `INT_MAX` and memory limit it |
| | `IInvAlways` | the depth that is counted is that of the running calls, and each is at a child that there is |

### Assumptions

Each is a named ASSUME of the module, evaluated by TLC in every run:
`TreeAssumption`, `InitAssumption` and `HandlerAssumption` (`HSM`: what
`HSM_STATE_Create` leaves, section 2, and handlers of any kind); `FileAssumption`
of `DT` (first files are documents) and of `ElogFile` (sizes are naturals, a line
has at least one byte, there is at least one rotated file, any set of faults);
`RingAssumption` (both sizes positive, logs are non-empty: `ring_raw` is what the
empty one does); `AsyncAssumption` (likewise, and the main thread is no caller);
`FilterAssumption` and `OutputAssumption` (at least one slot, any truncation; tags,
messages and infos are texts of any length; a line has room for the
letter of its level and the newline sign);
`TreeAssumption` and `NestingAssumption` of `CJSONTree` and `CJSONBuild` (at least one
cell, `Fold` maps names to names, any nesting limit: the number of cells stands for
the memory that `malloc` has, and may run out at every allocation);
`PrintAssumption` (items form a table in which a parent is before its children,
as in any finite tree; strings hold no null byte, as C strings; the first sizes
of buffers are at most `INT_MAX`, as the callers' `int` is, and may be zero).

One theorem has a hypothesis of its own. `RecordFollowsModeAlways` assumes
`NoNullMember`: no first file has a `null` member. The program does not replace such
a member (`main.cpp:57`), so the property is false without it, and the runs,
too, start from files that have none. The other theorems of `DT` do not need it.

### The invariants, and why they are needed

*HSM.* `ActivePath` speaks of the states in `active` only; that it is kept
depends on what is left in the two lists. `Lists` says that each is a climb
along parents, from where the machine is now (`Reached`) or from the target, to
a state whose ancestors are exactly the common ones; so what EXIT and ENTRY
will still change is known at each call. `Walk` keeps this by `CommonAbove`: the
deeper of two different states, or either of two equally deep, is not above the
other. `Chain` is defined by a recursion over levels; `ChainIsAbove` replaces
it by the smallest set closed under parents, with which the rest is proved. The
bound of the lists is `ClimbShort`: a climb is no longer than the level it starts
at.

*DT.* `DT` instantiates `HSM`; so does `DT_proofs` with `HSM_proofs`, whose theorems
then need no second proof: `TreeFits` shows that the program's tree and handlers
satisfy the assumptions, `EngineSteps` that each step of the program is one of the
engine, a stutter, or a boot into the engine's initial state. `IInv` adds what
ties the application to it: which events a state can be offered (`Offered`),
that a transition in progress is one of the table (`Moving`), which lines of the
log are written at each place of it (`Logged`, by `Lines`), and what record and file
hold at each place of `Display` (`Recorded`). `LostFileStaysLost` has an inductive
invariant of its own, in the state it speaks of: the file cannot be read and no
save is under way, which a boot reads as no document, with which `Display` throws.

*ElogRing.* The type invariant alone does not say which of full and empty equal
indices mean. `Agree` says that the write index is `held` bytes after the read
index, round the end of the buffer, that the empty flag is `held = 0` and the
full flag `held = N`. From it follows that the used size the code computes from
indices and flags is `held` (`UsedCorrect`), and on that rest the lemmas that a
put and a read preserve the invariant. `CopyLineRange` and `LineSizeRange` bound
what `elog_cpyln` copies, also where the line crosses the end of the buffer.
`PutRefines` and `GetLineRefines` compare the contents before and after slot by
slot, once for each side of the end of the buffer.

*ElogAsync.* `Holder` says who has the lock by where the threads are. `NoLostWakeup` is
inductive with it and with `LifeCycle`, which says where output and main thread
can be before, between and after an init and a deinit. `Destroyed` says when
the mutex and the semaphore are there, and that an orderly deinit keeps
every thread out of a call until the next init: the output is disabled, and only
`elog_start` after an init enables it. For the bytes, `Holds`
says that the line in hand is empty unless it is being printed, and `Counted`
that each byte occurs as often in what is printed, in hand and stored as it was
accepted: after a stop order is lost, but no byte. That a get divides the
queue is the lemma `GetDivides`, whatever it returns.

*ElogFilter.* `TypeOK /\ OneSlotEach` is inductive as it stands. The refinement
rests on `LevelsOf`, that the table is a function since no tag has two slots,
and on `FreeMeansRoom`, that there is a free slot just when the function is
smaller than the table.

*ElogOutput.* `LineIsWhole` is inductive as it stands, since the formats change only
between lines; its proof is that of one call (`OutputWhole`). `StrcpyDoes` says
that `elog_strcpy` behind what was cut for the line is the cut of both texts, hence
`CopiedDoes`, by induction over the parts, that a header is the parts put
together and cut (`Joined`). `LogBufDoes` and `LineLength` then follow a message into
`log_buf`, and `MadeWhole` compares line and text symbol by symbol, whether the
buffer ends in the header, in the message or behind it. `MadeBegins` says that what has room
of level and tag is at the line's begin, from which `FindLvlDoes` and `FindTagDoes`
give that they are found. The recursions in `Copied` and `Joined` are
functions, as `Kept` is.

*ElogFile.* A rotation moves a gap through the files, from the oldest to the
log. `Moved` says that the file a rename is about to overwrite is the gap, hence empty,
or the oldest: without it a rename could lose lines in the middle. `Cached`
says that stdio holds back one line at most, and only between rotations. `Usable` says
that a process which has met no fault has its file open, so that no line is refused. `Filled`
is for `Retention`: while nothing has failed, each file that was moved on is full,
there is no hole but the gap, and once a line is lost all files but the gap are
in use; hence all of them are full when it counts. What `Kept` and `Bytes` return is proved by
induction over the files and lines (`KeptOne`, `KeptTwo`, `KeptFull`,
`BytesConcat`), as a set of good numbers that holds 0 and each successor
(`Induction`), which needs no operator parameter.

*CJSONBuild.* What the properties say of a list that `Items` reads off memory is not
inductive: a step writes to one cell, and whose list that cell is in is not
said there. So the invariant says that there is a function `L` that gives each item
the list of its children and, behind `MaxNodes`, each running call the list it is
still building (`Good`): each list is linked both ways and without repetition
(`Lists`), no item is in two (`Apart`), each item that is no root is in one
(`Held`), and `child` is the first of the item's own list, whose `prev` is the last
(`Owns`), but for items that a copy still adds to. `ItemsAre` then says that what
`Items` reads is `L`. Each helper of the code has a lemma that gives
the `L` behind it: `suffix_object` puts an item at the end of a list,
`DetachLinks`, `InsertLinks` and `ReplaceLinks` follow each order of pointer
assignments, with the first, the last and the only item as cases, and deletion
empties the lists of what it frees, which is closed under child and next
(`GrownIs`) and therefore whole lists. `Tree` is `Good` with some `L` and no list of
a running call, and each call that is one step keeps it. `Reading` ties the
frames of the parser to the open lists (`Reads`: head and last are the ends of
the list, and a frame's item is the last of the list outside), `Copying` those of
`cJSON_Duplicate` (`Copies`). `IInv` says that one of the two holds, with no frames of
the other. The recursions that collect what is freed and that link the items
of an array are functions whose values are found by `Recursion`.

*CJSONPrint.* `StaysInside` at one step depends on the room that `ensure` was asked for and
on the null byte the step before has left. `IInv` says where each running
`print_value` is in its list of children (`StackOK`), which ties the depth to the
number of tabs that are written, and how much memory is in use (`Owned`).
`WriteKeeps` is the one lemma on `ensure`: if what a step writes, and the offset
it sets, lie within what it asked for (`Allowed`), the invariant holds after each of its four outcomes.
`CountedRight` shows that the sizing loop of `print_string_ptr` counts what the
copying loop writes, for strings of any length.
`PrintsTheTree` needs to know what is still to come: `Rest` says it for each
running `print_value`, by where it is in its item, and `PrintedTo` that the
rests of the stack, innermost first, make up the text from the byte `e` on. Each
step `Prints` its bytes: it takes them off the front of what is left, and the
rests of the new stack are the remainder. `TextInv` ties this to the buffer: its
first `e` bytes are those of the text, and the offset is at `e`, or the null byte
is there when `strlen` has yet to find it (`Unread`). Again one lemma speaks of `ensure`
(`WritesTextKeeps`). As what a step asks for is at most what is left and a byte
more, a refusal says that the text has no room, hence `FailsOnlyForRoom`.
`TextOf` is a recursion over trees; that it has values is `DownRecursion`, by
induction from the last item of the table, whose children come after it. The theorems are about the
printer's own `Spec`; the run checks the properties under that of `CJSONText`, which adds
the reading of a finished text and leaves the printer's variables alone
or frees the text as `Release` does. `CJSONText` has RECURSIVE operators, so this last fact is not proved.

### Only model-checked

* Liveness under fairness and anything with ENABLED: `EngineReturns`,
  `KeyAnswered`, `EmittedIsPrinted`, `EveryCallReturns`, `HexDumpReturns`.
* `CopyIsEqual` and the refinement of `CJSONForest`, which speak of whole trees: of two
  being alike to any depth, and of all items below one.
* Everything in `CJSONText`, which has RECURSIVE operators, out of the prover's
  reach: `ReadsBack`, `MinifyUnformats`, `StringsReadRight`.
* The three findings, which are violations.

## 5. Not modelled

* The text of times, names and dump lines; colours (compiled out); the hook for
  assertions; a failed `ELOG_ASSERT` loops for ever.
* The values of numbers (`strtod`, `sprintf`, saturation, the locale's decimal
  point), the error position, and texts parsed by length without a null byte;
  `cJSON_SetValuestring` and `cJSON_SetNumberHelper`; `cJSON_Is*` and
  `cJSON_Get*Value`, which read one field.
* `elog_buf.c`, `elog_async_get_log`, the Windows and RT-Thread halves of the
  port, `elog_port_get_*`: compiled out or pure I/O.
* Two threads in `elog_file_write`: the program has one, and the file lock of
  the port is empty.
* `elog_file_config` with settings that differ from the configured ones.
* Calls against the contract: a write before `elog_file_init` (an endless
  assertion), a cJSON item added twice.
* Key input and terminal output of `main.cpp`.

## 6. Plan

Done, in this order because the engine and the application carry the program's
behaviour and the ring is what most depends on arithmetic: `HSM`, `DT` over it,
`ElogRing` with its refinement and proofs, `ElogAsync` over its abstraction,
`CJSONTree`, `CJSONBuild`, `ElogFile`, `ElogFilter`, `ElogLock`, `CJSONPrint`,
`CJSONText`, `ElogOutput`. What is left to model is `elog_file_config` with other
settings and parsing by length.

Proved, in this order: `ElogRing`, `HSM`, `ElogAsync`, `ElogFilter`, `DT` over `HSM`,
`CJSONPrint`, `ElogFile`, `ElogOutput`, `CJSONBuild`. What is left to prove, by value:

* `CJSONBuild`: the refinement of `CJSONForest`, from the same `L`, and `CopyIsEqual`.
