# Source-Navigator: TLA+ models of the project database, its updates and Find in Files

Source-Navigator parses the source files of a project into a database of
symbols and cross references and browses it. The browser (`hyper`: C and Tcl)
never writes the tables of symbols itself. It starts parsers, whose output a
program called `dbimp` reads and applies to the tables, and watches both through
pipes and a lock file. What is hard in this code happens between these
processes, between the tables, and between the callbacks of hyper's event loop,
and that is what the modules here are about.

All paths below are relative to `src/snavigator`.

## 1. Inventory

| part | code | state | operations | status |
|---|---|---|---|---|
| database lock | `db/dbimp.c` | the file `<prefix>.lck` | create, judge, remove, mark unusable, release | `DbLock` |
| symbol database | `db/dbimp.c`, `db/dbutils.c` | tables `.f .fil .fu .mi .gv .lv ... .to .by` | one per input line of dbimp | `SymbolDb` |
| update session | `gui/misc.tcl` | running pipes, xfer file, delete list, global variables | update, cancel, skip, unload, reparse | `ParseSession` (control), `SymbolDb` (tables), partly |
| parser output | `parsers/common/parser.c`, `parsers/*/skeleton.c` | pipe, xfer file | `put_file`, `put_symbol`, `put_cross_ref` | `SymbolDb`, partly |
| panic check | `gui/misc.tcl` `sn_db_panic_check` | none (reads the lock file) | judges the lock for hyper | `ParseSession`, partly |
| project in use | `gui/misc.tcl`, `hyper/dbsym.c` | `open_info` in the project file and each process' copy of it | open, mark, sync, quit, force unlock | `ProjectLock`, partly |
| grep pane | `gui/greppane.tcl` | buttons, results | search, cancel, finish | `GrepPane`, `ExecGrepPane` |
| grep drivers | `gui/tclgrepdriver.tcl`, `gui/execgrepdriver.tcl` | file index, buffer, descriptor, event id | start, callbacks, cancel | `GrepPane` the first, `ExecGrepPane` the second |
| history | `gui/history.tcl` | bounded lists | add | not modelled |
| class tree | `db/dbutils.c` `get_symbol` | cache of classes | completes unknown scopes | not modelled |
| language parsers | `parsers/*` | | sequential recognisers, partly generated | input of the model |
| table access, highlighting | `hyper/*.c` | | queries, formatting | not modelled |
| browsers, editor, dialogs | `gui/*.tcl` | widgets | | not modelled |
| dumping and copying tools | `db/dbdump.c`, `db/dbcp.c`, `db/dbcompact.c` | | pure I/O | not modelled |
| Berkeley DB, Tcl, Tk, Itcl, Tix, libgui | top directories of the repository | | vendored | not modelled |

How the parts interact. An update (`sn_parse_uptodate`) compares the times of the
files with those in `.f`, writes the list of symbols whose references have to be
deleted (`sn_make_delfilelist`) and then runs, for each language and each bundle
of files, the pipe `parser | dbimp`. dbimp takes the lock, reads the lines of the
parser and applies them. The cross references go to the xfer file; when all files
are parsed a second dbimp reads it in the background (`sn_load_xref`), while the
user works. Unloading files runs a third kind of dbimp, without the lock. hyper
learns how a dbimp ended from its exit status and from the lock file.

What is correct, part by part:

- *lock*: one import at a time; a lock file that stays tells of a crash and one
  of a regular end does not; a project marked as unusable is not written again;
  the retry loop ends.
- *symbol database*: `.by` is the reverse of `.to`; each symbol is found again by
  its `.fil` record; a file's records are those of one parse; an import for one
  file does not touch another.
- *update session*: what is recorded as parsed has been parsed as it is now;
  what a file no longer contains is gone.
- *update session, control*: one dbimp at a time writes the tables, and hyper has
  them closed meanwhile and open again afterwards; a file is stored or the user is asked about it,
  unless a dbimp gives it up with a text on stderr only; what runs is killed only because the user said so; every update returns.
- *project in use*: one hyper process at a time uses a project; its mark stays in the
  file while it does, and no mark is left by one that quit.
- *grep pane and drivers*: a search ends, with all hits of its files; it can be
  cancelled while it runs; its callbacks end with it; the buttons come back.

Hard behaviours: interleavings on the lock file through file names and open
descriptors; processes that die between two records or with a lock; a pipe whose
reader lags behind its writer; modification times taken at another moment than
the contents; two tables kept in step by hand; cancels, and dialogs that go on
after a crash; event loops that nest, where what was started last has to end
first. PROJECT.json lists them as hazards, each at its line.

## 2. Modules

| module | what it is |
|---|---|
| `DbLock` | the lock file and every dbimp process that wants it |
| `MCDbLock` | instances for TLC |
| `DbLockProofs` | theorems about `DbLock` |
| `SymbolDb` | an update, seen from the tables: parser, pipe, dbimp, second phase, unload, crashes |
| `SourceIndex` | the abstract index of the sources that `SymbolDb` implements |
| `MCSymbolDb` | instances for TLC: small file contents |
| `SymbolDbProofs` | theorems about `SymbolDb`: types, the two cross reference tables |
| `SymbolDbRecordsProofs` | theorems about `SymbolDb`: what the tables hold while lines are in the pipe; the refinement |
| `ParseSession` | an update, seen from hyper: the procedures on its event loop, the pipes, the dialogs |
| `MCParseSession` | an instance for TLC: small bundles of files |
| `ParseSessionProofs` | theorems about `ParseSession`: types, imports and open tables |
| `ParseSessionFilesProofs` | theorems about `ParseSession`: what becomes of the files of an update |
| `ProjectLock` | hyper processes that open, use, quit and unlock one project |
| `ExclusiveUse` | the abstract lock that `ProjectLock` implements |
| `MCProjectLock` | an instance for TLC: three processes of two users |
| `ProjectLockProofs` | theorems about `ProjectLock`, the refinement among them |
| `GrepPane` | Find in Files: StartGrep on Tcl's event loop, the search engine in Tcl |
| `MCGrepPane` | instances for TLC: small lists of files |
| `GrepPaneProofs` | theorems about `GrepPane` |
| `ExecGrepPane` | Find in Files with the grep of the system, the driver a pane prefers |
| `MCExecGrepPane` | an instance for TLC: two searches |
| `ExecGrepPaneProofs` | theorems about `ExecGrepPane` |

The modules meet at what they take from each other. `DbLock` shows that the lock
file stops no dbimp of this release, so in `ParseSession` a dbimp simply takes it; in return
`ParseSession` shows that hyper starts one at a time, which is what `SerialSpec` of
`DbLock` assumes and what `SymbolDb`, with its one dbimp, is built on. `SymbolDb`
says what the lines do to the tables, `ParseSession` which pipes run, in which order and
what hyper has open.

Definitions whose comment begins with "A mistake" are not part of a model: each is
one definition of the model with a plausible bug, and shows that a property
notices it (PROJECT.json, `mutants`).

### DbLock

One action is one system call on the lock file with the local code up to the
next one, so every interleaving the kernel allows is a behaviour. `pc` is where a
process is in `create_lock_file`, `check_running`, `read_lock_file` or at the end of
`main`. Files have an identity (`Inode`) apart from the name `lockFile`, because
the code keeps descriptors of files that others unlink. A line is the sequence of
its fields; `ScanLine` is what `sscanf("%lu %s %hu %lu")` makes of it, and it is this
scan, with the three fields `StatusLine` writes, that decides most of what happens.
`owner` is a history variable: who created a file.

`Init` has either no lock file or one with four fields, which releases before
the port was dropped wrote (ChangeLog, 14 May 1998) and which names a process that
may still run. Left out: the second `unlink` for Windows and `EINTR` (a repeated
call), the difference in length of lines of one project (`%7lu` fits a pid up to
seven digits), the reuse of pids, and how long the sleeps last.

`SerialSpec` adds what hyper keeps to by waiting for its pipes: a dbimp starts when
no other runs. `FairSpec` adds fairness.

### SymbolDb

`Parse` is the parser, one action per line it writes or file it opens; `DbimpReads`
is one turn of dbimp's loop; `Session` is hyper; `Save` is an editor. `queue` is the
pipe, of any length; `xfer` is the xfer file and `buffer` the lines for it that the parser still has in its memory;
`disk` is the tables as of the last time they were closed.
`phase` says which dbimp runs. The history variables `last`, `lost`, `dropped`, `cut`,
`damaged` and `raced` record what the last parse of a file has put out and what has
happened to it (a skipped file, or a load that is cancelled, leaves no references of it); no action depends on them. `raced` holds the files that were saved
after the parser had read them and before dbimp took their time.

The two streams of a parser differ. What goes to the pipe is flushed before each file (`put_file`), so a death costs the
end of the current file at most. The references go through `cross_ref_fp`, a stdio stream the parser opens for
appending (`parsers/cpp/skeleton.c:200`, as in the other parsers) and never flushes: they reach the xfer file when it is full or the
parser ends (`AllWritten`). A parser that dies has written any part of its buffer (`BufferLost`), the last line perhaps cut off
(`CutLine`), and then the first line of the next parser is joined to it (`JunkLine`). dbimp complains about such
a line, or stores a record under it that belongs to no file; the models show neither. The files of the lines that
were lost this way, which the parser may long have finished, are `dropped`: some of their references are missing until they are
parsed again, and as their times in `.f` are right no update does that by itself.

A symbol's name stands for the name with its positions, so two symbols that differ
in position have different names. The data of the records is left out, except the
modification time in `.f`. Four kinds stand for the cases the code distinguishes:
functions (`fu`: no class, has references), methods (`mi`: needs a class, has
references), global variables (`gv`: no class, no references) and local variables
(`lv`: with or without a class, not in `.by`). A local variable without a class is
stored under a key without one and looked for under one with it; the code knows
(`dbutils.c`, "except we could not delete a local variable").

`SourceIndex` is what a browser may rely on, without parsers, pipes and phases: the
symbols listed for a source change only while it is being worked on, and finished work
leaves those of one content, from the first item on (all of them, or as far as the parser came). `IsIndex` maps it to the
code: what is listed is `.fil`, what is worked on is `batch`, and the promise is kept (`sound`) until a dbimp dies; only
`Reparse`, which empties the tables, brings it back.

`CallersListed` says which contents the properties of the cross references are about: each reference is made in the body of a
function or method that is put out of the same file. `put_cross_ref` refuses a reference without a caller
(`parsers/common/parser.c:478`), and the parsers for Java (`parsers/java/Parser.c:3572`, `parsers/java/Trafo.c:600`), COBOL
(`parsers/cobol/deftab.c:847`, `:460`) and Tcl (`parsers/tcl/itcl.c:7500`, `:7736`) put out the bodies they name as callers. At
least one does not: the references of a Fortran main program without a name are made in `%MAIN` (`parsers/fortran/fortran.y:286`), which
it never puts out as a symbol (`parsers/fortran/symtab.c:909`), so no list of keys ever names them. `MCSymbolDb` assumes
`CallersListed`, and TLC evaluates it for the contents of the runs.

When dbimp dies each table is either as it was when it was opened or as it is at
that moment. What hyper does then depends on the phase and on the user:
`DbimpDiesAndEnds` and `DbimpDiesAndGoesOn`.

Left out: the comment table; the completion of unknown scopes (references that
begin with `?`) and the `GLOBAL` records of undeclared variables; tables torn inside
a page; a line cut in the middle in the pipe, by a dying parser, and what a record made of two halves of xfer lines looks like; contents changing while the
parser reads them; two saves within the one second of a modification time (each
save changes `mtime`); an unload that runs while files are parsed, which the user
interface does not rule out; and the tables hyper itself has open for reading.

### ParseSession

hyper has one thread. `stack` holds the procedures that wait in the event loop: a
`sn_parse_uptodate` with what it has called, a `sn_load_hide_unload_files`, or a callback
that shows a dialog. Each frame is at the place where it entered the loop (`Waits`) or where it
goes on from, and only the topmost can go on; a `vwait` ends when its variable is written
(`Wake`), and every nested `vwait` on the same variable sees that. The frames know of each other
through global variables only: `ProcessingCancelled` (0 no, 1 error, 2 cancelled, 3
skip), the file accessed last, `SN_cross_pid`.

A pipe stands for its processes and its channel: `todo` is what they have still to do, `out` what
hyper has not read, `err` what hyper will learn of their end (`"warns"` is a text on stderr, `"crash"` a killed process). `TakeLock`, `StoreFile`,
`EndImport`, `DbimpDies`, `DbimpExits` and `ParserCrashes` are theirs; `Serve...` are the callbacks of
hyper; `Answer...` is a dialog with each of its buttons; the rest are the procedures between two
entries into the event loop. `overlap` is a history variable: an update or an unload was started
inside another one. It is possible while an update looks at its files and in the dialogs' shadow, the
code does nothing against it but a comment on it (`gui/misc.tcl:3320`), and the properties except that case and no
other. `accounted` collects the files of an update that were stored or about which the user was asked or
has cancelled.

A dbimp may end before its input does in two ways. It is killed (`DbimpDies`): Tcl reports a killed child, and the
user is asked. Or it exits by itself (`DbimpExits`): it cannot get the lock (`db/dbimp.c:485`), or gives up over its tables or
their closing (`db/dbimp.c:565`, `:644`), each time with a text on stderr and exit code 2. For such an end `close` returns that text, without
the words `event_LoadPipeInput` looks for (`gui/misc.tcl:3731`): it counts as a warning, no dialog is shown, and
the update goes on after the file it believes was last. That file, or the whole bundle if dbimp has named none of it, is neither
stored nor shown to anybody. `gaveUp` records them, and `FilesAccounted` says that there are no others. A parser that
is killed by the broken pipe makes it a crash after all, so an exit may show either.

Left out: the answer Exit and quitting; lines on the pipe that report an error, each with a dialog;
databases that cannot be opened; the two steps of `sn_db_panic_check` and its empty lock file;
hiding files instead of unloading them; the second `close` of a channel whose name another
one may have by then (`gui/misc.tcl:4063`); the reset of `xref_cancelled`.

### ProjectLock

`open_info` is what the project file names; `db[p]` is the hash database of process
`p`, of which only the page of `open_info` matters: a `put` changes it in memory, a `sync`
writes the whole page back with what the process believes of `open_info`, and a `get`
closes and opens the file again if its time has changed (`ReadAgain`), which also writes
a changed page. `put` takes over the new time without reading (`hyper/dbsym.c:2266`), and a change
within the same second shows no new time, so a writer tells any subset of the others.
`pc` is where a process is in `sn_read_project` and `sn_quit`; processes die at any place and
their pids go to other hypers or other programs. The mark is put last
(`MarkProject`), after the project has been loaded and parsed, and it is deleted when the settings are saved,
before the windows close.

`disturbed` is a history variable: the project was unlocked by force, or a process found it
free while another one was opening or closing it. The first is meant to break the lock. The second is
a race the code does not exclude; without it the promise of `ExclusiveUse` holds.
Nothing is claimed of a forced unlock: the page of the user puts the mark back.

For a mark of another user or host the message reads a variable that is never set
(`remuser`, `gui/misc.tcl:3026`), and the procedure ends with a Tcl error: the process is
idle again. Left out: creating and deleting projects, and the FIXME that a project in use can be
deleted (`gui/projmng.tcl:136`); several projects in one hyper; processes one cannot
look at in `/proc`.

### GrepPane

hyper has one thread. A search is a chain of callbacks (`processNextIndex` for
each file, `inputReadyCallback` for each read), one action each, and `StartGrep`
is cut into actions where it enters the event loop: `update idletasks`, `update` and the
`vwait` of the driver's `start`. `stack` holds the StartGreps that have not returned, each
with the place it waits at. Only the topmost can go on, and at a `vwait` only after
somebody has written `grep_running` (`woken`); below it others wait whose search has
long ended. A second StartGrep of a pane comes from Search > Grep in the menu of the window
(`gui/multiview.tcl:2012`), which the disabled Search button does not keep from
being used; a StartGrep that was put off (`asked`) runs in whatever event loop is
active. `update` returns when there is no event left (`NoCalls`), and `update
idletasks` when there is no idle call (`NoIdleCalls`); a file that is open for reading is an
event, which `update idletasks` does not serve (`ServesFiles`).

Only the number of hits of a file matters. `buffer` is the hits that
`currentFileBuffer` holds. It can hold those of another file: a search cancelled between two reads
does not unset it, and the next search appends to it. `own` and `foreign` tell the two
apart. Two reads happen for files with characters of more than one byte (`Wide`), where the
characters never number the bytes and the end of the file is only met by a second
read. `disturbed` is a history variable: the panes in which a StartGrep began over
another one.

`activePattern` is what the driver searches for, which is not what was tested: `isValidPattern` sees the pattern as it was
typed (`gui/greppane.tcl:518`), and a filter is put around it afterwards. The filter "call" (`etc/grep.fil:5`) has an open
parenthesis and no pattern compiles in it. The error of `regexp` comes in the callback of the first file that is
read (`GrepFails`), after the file was closed and before the next call is scheduled.

Left out: the dialogs for a bad
pattern (a StartGrep that returns at once); the closing of a pane; files without contents, files that
grow or shrink while they are read, and files that come into being; the history of
patterns; moving between matches.

### ExecGrepPane

The driver a pane prefers when there is a grep on the PATH (`gui/greppane.tcl:61`). The stack
of StartGreps is that of `GrepPane`, with one pane. A search is a sequence of
groups of files (forty-one in the first, fewer or as many in the others), and only the number of lines each of them gives
matters. `greps` are the open channels with the grep at the other end: `left` lines to be written,
`pipe` lines that can be read. A channel's event reads whichever channel `grep_fd`
names by then, not its own. A StartGrep over a search opens its grep without closing the
one that runs, although the comment of `close` has it otherwise ("close older descriptor to be
secure that no other grep is running"): the channel is left behind, nobody reads it, and its event is served for ever, so that the
next `update` does not return.

`AtEof`: one read takes everything there is, one buffer after the other; only when the
last one is full it goes on and may meet the end of the file, and then the lines are
thrown away with it (`gui/execgrepdriver.tcl:360`). `dropped` counts them. A grep that
cannot be run leaves `start` in a `vwait` that only Cancel ends (`Stuck`).

When the search has ended `finish` looks for the pattern in each line of the results, to colour it, with the regular
expressions of Tcl; this driver finds every pattern valid (`gui/execgrepdriver.tcl:500`). One that grep takes and Tcl refuses
(`activePattern` "bad") raises an error as soon as there is a line, and nobody catches it (`FinishFails`): StartGrep ends with the buttons
disabled (`Uncoloured`).

Left out: the progress meter, where the colours go, a pattern that matches the empty string (the loop of `finish` would find it again and again), the dialog of a grep that cannot be run as a place of
its own, and how grep reads files.

## 3. Runs

| run | specification, instance | checks | states |
|---|---|---|---|
| `lock` | `FairSpec`; 2 dbimp, 1 foreign pid, 2 files | `TypeOK`, `NoOrphanLock`, `EveryContenderSettles` | 205 000 |
| `lock_serial` | `SerialSpec`; 3 dbimp, 1 foreign pid, 2 files | `LockNamesHolder` | 227 000 |
| `symbols` | `Spec`; 1 file, 3 contents, 2 saves | `TypeOK`, `MirrorBy`, `EverySymbolListed`, `RecordsOfLastParse`, `XrefsOfLastParse`, `UpToDate`, `OnlyLostGoStale` | 3 760 000 |
| `symbols_two_files` | `Spec`; 2 files, 2 contents, 1 save each | `XrefsOfLastParse`, `OthersUntouched`, `IsIndex` (refinement) | 1 630 000 |
| `grep` | `FairSpec`; 1 pane, 2 files, 2 lists, 3 nested StartGreps | `TypeOK`, `SearchHasWaiter`, `ButtonsComeBack`, `CanBeCanceled`, `ResultsAreComplete`, `SearchEnds`, `PaneComesBack` | 357 000 |
| `grep_exec` | `FairSpec`; 2 searches (3 lines; 2 and 0), buffer 2, limit 2, 2 channels, 2 nested StartGreps | `TypeOK`, `SearchHasWaiter`, `ResultsAreComplete`, `LeftBehindOnlyByNesting`, `SearchEnds`, `PaneComesBack` | 206 000 |
| `session` | `FairSpec`; 2 files, in one bundle or of two types; 2 pipes, 2 updates or unloads | `TypeOK`, `OneImport`, `ClosedWhileWritten`, `TablesComeBack`, `CrossPidIsXref`, `FilesAccounted`, `KilledByUser`, `EveryUpdateReturns` | 705 000 |
| `project` | `Spec`; 3 processes, 2 users, 1 host | `TypeOK`, `UserMarked`, `NoOrphanMark`, `ExclusiveProject` (refinement) | 670 000 |
| `lock_mutex` | `Spec`; 2 dbimp | `MutualExclusion` violated | |
| `lock_mark` | `SerialSpec`; 2 dbimp | `MarkIsRespected` violated | |
| `symbols_stale_xref` | `Spec`; 1 file | `NoStaleXref` violated | |
| `grep_missing_file` | `FairSpec`; 1 pane, 2 files | `EverySearchEnds` violated | |

Why the bounds are enough. The lock's steps compare a process with the file that
has the name now and with the one it has open, so two contenders show every
conflict; three are used where a predecessor's predecessor matters. Three files
are what two processes and the name can hold at a time; with the two of the runs `open`
sometimes waits until one is free, which weak fairness of `Step` does not mind and
the theorems about any number of files make up for. Symmetry is over processes and files in the serial runs, and not
used with liveness. `DbLock` may come to an end when all processes have, so
deadlock is not checked there; it is in `SymbolDb`.

For the tables, an error needs one file, its old and its new contents and a
crash or save in between: two saves give a third content, for what survives two
parses. `Local`, `Function` and `Variables` (`MCSymbolDb`) share names
across kinds and hold every case of `put_symbol` and of both deletions: class dropped,
class missing, reference to a local variable, no reference at all. The second
instance has two files with the same symbols and references, where records of one
could be taken for those of the other; its constraint `Usable` stops at a
damaged or locked database, from which only `Reparse` leads on, to the empty one,
and its view (`ViewOfRefs`) leaves out `raced`, `cut` and the parts of `last` that are not references, on which neither an
action nor a property of that run depends.

For the grep pane, one pane with StartGreps nested three deep (`MaxDepth`) shows what a
StartGrep does to the one below it and to the one below that; several panes share
only the stack, and the theorems cover them. The lists are one file and two files, with hits that meet
the limit and that exceed it, so a search ends at a file that is the last, that is
truncated, missing, unreadable or deleted before its turn. One StartGrep
can be put off at a time (`MaxAsked`), and `MaxStale` stops cancels when the buffer holds
more than two hits of cancelled searches. A mutant of each property
is caught within these bounds.

For the other driver two channels are one that is left behind and one that is read, and two
nested StartGreps are what it takes to leave one. Three lines against a buffer of two and
a limit of two meet every case: a full buffer with or without the end behind it, one line too many, a group without
lines, and a second group. A bigger stack is covered by the theorems.

For the update, two files in one bundle give a crash in the first, in the last and before
either; two types give the question about other types. Two pipes are all that run at
a time, the import of references and a parse or an unload, and a third would wait for a user
who nests further. Two starts are an update over an update, an unload in the dialog of missing
files, and an update while references are imported.

Three processes are the user of a project, one that writes back an old page, and one
that opens it; two of the same user, who may unlock it in the dialog, and one of another. Symmetry is not used: the processes differ.

Fairness is assumed in `FairSpec` only. In `DbLock`: a process that is not killed takes its
next step (the kernel schedules it), and a `write` of a line that is tried again and
again is not short for ever. Nothing is assumed of other processes' ends or of
crashes. `EveryContenderSettles` has one exception, a live process named in a
lock file of an earlier release, for which the code waits on purpose. In `GrepPane`: the event loop serves each scheduled
call and each readable file some time, and a StartGrep whose turn has come goes on, which
is what Tcl does with its queues (weak fairness). `update` and `update idletasks` end only
when there is nothing to do: the user, who may click at any time, is assumed to pause
now and then, often enough for the idle calls to be served (strong fairness of what
waits for them). Nothing is assumed of cancels and of files that disappear. `ExecGrepPane` adds that a grep
writes and ends. In `ParseSession` the processes of a pipe go on, their events are served, and dialogs are
answered (weak fairness of `Work`, `Serve` and of everything hyper does by itself); updates, unloads, cancels
and crashes are not assumed to happen.
`SearchEnds` and `PaneComesBack` name their exceptions and say that there are no others. In `GrepPane` it is a chain of callbacks that
has broken off (`Stuck`): at a last file that is missing, at a file that cannot be opened, or over a pattern that does not
compile. In `ExecGrepPane` it is a grep that could not be run (`Stuck`), and for the buttons also a channel that was left
behind (`Leaked`) and results that cannot be coloured (`Uncoloured`).

## 4. What the runs found

1. `lock_mutex`: the reader of the lock file wants four fields, the writer writes
   three since the port was dropped. A running dbimp's lock counts as broken and
   is removed: the lock excludes nobody. Only the care hyper takes to run one dbimp
   at a time protects the database, and `lock_serial` shows what holds then.
2. `lock_mark`: for the same reason the mark of an unusable project is removed by
   the next dbimp.
3. `symbols_stale_xref`: the list of references to be deleted is thrown away when
   the files parsed again contain none.
4. `grep_missing_file`: a missing file is reported and the search moves on to the next, but
   after a missing last file nothing is scheduled and `grep_running` stays set. The search
   hangs until it is cancelled. `SearchEnds` shows that there are two other reasons for that, and no third:
   a file that exists and cannot be opened, and a pattern that does not compile in its filter.

The passing runs show where the limits of the code are, as the exceptions their
properties have to make and the proof that no other is needed:

- `UpToDate` (`symbols`): a save between the parser's read and dbimp's `stat` is recorded as
  parsed. There is no other way to lose an edit: every
  file whose recorded time is its own has its current symbols, unless it was
  saved in that moment (`raced`). Where an import is cut short (`damaged`, `lck`)
  nothing is claimed. `NoStaleXref` makes the same exception for `raced`, so what it
  finds is not this race again.
- `OnlyLostGoStale` (`symbols`): finding 3 is the whole of it. A file keeps references it does not contain any
  more only after an update that gave them up (`lost`): it was stopped, lost the parser over the file, or had no
  reference to load. A file that is only skipped loses its references, and gets them back with its next parse.
- `dropped` (`symbols`, `symbols_two_files`): the references of a file that was parsed to its end are complete unless a parser that
  died after it still had some of them in its memory (`XrefsOfLastParse`). The user only hears of the file the parser was at.
- `gaveUp` (`session`): the files a dbimp that was not killed leaves unstored are the only ones passed over without a question.
- `overlap` (`session`): only an update or unload the user starts inside another one brings two
  imports together, leaves the tables closed, or kills a pipe unasked.
- `disturbed` (`project`): the mark comes too late to keep two processes apart that open a project at once, and a `put` of one
  of them hides the mark of the other; the properties of that run speak of projects whose openings and
  closings do not overlap and that nobody unlocked by force.
- `grep_exec`: a search started over another leaves a grep behind, which keeps later searches from starting; a grep that cannot be
  run, and lines read with the end of the output, are the other two ways to lose results. A pattern Tcl
  does not take loses none, but leaves the buttons disabled.

The findings in PROJECT.json quote the lines that say otherwise.

## 5. Proofs

Proved with TLAPS for every value of the constants that meets their assumptions
(`MotherAssumption`, `PidAssumption`, `FileAssumption`; `ContentAssumption`,
`NoneAssumption`, `TimeAssumption`; `ListsAssumption`, `NumbersAssumption`,
`NoFileAssumption`; `SystemAssumption`, `NoHyperAssumption`; `SearchesAssumption` and
the `NumbersAssumption` of `ExecGrepPane`; `JobsAssumption`, `StartsAssumption` and the
`NoneAssumption` of `ParseSession`):

- `DbLockProofs!TypeCorrect`, `SymbolDbProofs!TypeCorrect`: type correctness, one
  case per action. In `DbLock` it includes that a process that reads or writes has a
  file open, and in `SymbolDb` that the parser has a file open only in the
  parsing phase.
- `DbLockProofs!NoOrphan`: `NoOrphanLock` is not inductive: a process that ended could
  get its lock file back if another process created a file it had used. Two facts
  exclude it. `LongLinesAreOld`: a line with four fields has no
  owner among the dbimp processes, so only files of earlier releases are believed,
  and whoever gives up does so over a file that is gone or is not his own.
  `OldReaderOwnsNone`: a process that reads such a file, or has believed it and may
  give up, or has ended, does not own the current lock file. A release, in turn, removes the name whatever it
  names.
- `DbLockProofs!SerialLockNamesHolder`: with imports one after the other, by the
  invariant that at most one process runs (`Alone`), that a process that has created a
  file still has the name (`CreatorHasName`), and `LockNamesHolder` itself.
- `SymbolDbProofs!ByMirrorsTo`: `MirrorBy`. Only four actions change `.to` or `.by`;
  `InsertMirrors` and `RemoveMirrors` say that reversing commutes with adding and
  removing references, which needs that reversing is injective
  (`ReverseInjective`).
- `SymbolDbRecordsProofs`: between two lines none of the properties of the tables holds,
  so each proof says what the tables *and the pipe* amount to.
  - `Stream`: the pipe holds lines of its phase only, for files of the update.
    `ImportTouchesItsFiles` (`OthersUntouched`) follows: what a line removes or adds
    belongs to the file it is for.
  - `Listing`, for `NoSymbolOutOfReach` (`EverySymbolListed`): each symbol, stored or in the
    pipe, has its `.fil` record stored or further back in the pipe, because `put_symbol`
    writes the two lines in that order (`PairedTwo`) and the removal takes both.
  - `Records`, for `ParsesAreNotMixed` (`RecordsOfLastParse`): while the line that names a
    file is under way (`WillReset`), the last parse of the file is what follows it in
    the pipe, whatever the table holds; afterwards it is the table and the pipe together.
    A file without a recorded time has no records, which is why `put_file_db` may skip the
    removal; only an unload is late with that, and it says so in the pipe.
  - `Parses`, for `OneRaceLosesEdits` (`UpToDate`): what has been put out of a file and
    what is still to be scanned are together the symbols of its content, as long as the
    time dbimp has recorded or is going to record is that of this content. A save
    ends this by moving `mtime` past the recorded time, unless the line is still in the pipe; that
    is the one race (`raced`).

  - `Covered` and `Refs`, for `RefsAreNotMixed` (`XrefsOfLastParse`): the references of a file go out in another way than its records,
    in the second phase and by a list that was made before the first. `Covered` says that what `.fil` lists for a file, or will list,
    names the caller of every reference of the file's last parse, so a list made of `.fil` reaches all of
    them. `Refs` follows that list through the xfer file and the second pipe: it comes before every new reference (`DelFirst`), what it
    does not delete (`KeptRefs`) and what is under way (`SentRefs`) are together the references of the last parse, but for those that a parser took with it (`dropped`), and
    from the start of an update to the end of its parsing the list deletes everything there is of its files. An xfer file that
    is about to be thrown away (`Stopped`) is the one exception, and makes the files of the update `lost`.
  - The same invariants with `Parses` give `OnlyGivenUpRefsAreStale` (`OnlyLostGoStale`): the references of the last parse
    are among those the file contains.
    Both theorems have `CallersListed` as a hypothesis, the constants' own property: with a reference whose caller
    is not listed the code does leave it behind for ever.
  - `OneContent` and `OthersKept`, for the refinement `DatabaseIsIndex` (`IsIndex`): what the parser has put out of
    a file is always the beginning of *one* content, and what it still holds is the rest of it, although the file
    may be saved over and over meanwhile; and the tables dbimp started from differ from the
    present ones in the files of the update only, so a death that loses one table does not touch
    the others. `IndexStep` maps each step: an update or unload starts work, a line of dbimp does some, `EndParse`
    without references, `EndImport` and `CancelXref` finish it, a death loses the promise, `Reparse` resets, and what parser
    and editors do is invisible.

- `GrepPaneProofs!TypeCorrect`: needs that a call is scheduled only while there is a next
  file (`IndexBehind`) and that a buffer holds at least the hits of the file that was read
  into it (`BufferHolds`).
- `GrepPaneProofs!RunningSearchHasWaiter`: `SearchHasWaiter` is inductive as it stands.
  `WaiterStays` says that nothing that happens on the stack removes a StartGrep that waits,
  except the end of its own search.
- `GrepPaneProofs!RunningCanBeCanceled`: by `Guarded`, a pane with a StartGrep has its
  buttons disabled or is disturbed, and one with two is disturbed.
- `GrepPaneProofs!ButtonsAlwaysComeBack`: a StartGrep that fails, because there are
  results where it wants to write, leaves the buttons disabled. `Kept` says that such results
  come from another StartGrep of the pane, which is still there and past its `update`.
- `GrepPaneProofs!ResultsAlwaysComplete`: `AllComplete` says how far a running search has
  come: every file before its place in the list is shown, and the file at its place is
  shown, open, or has broken the chain. It needs that a search never has a scheduled
  call and an open file at once (`OneWay`), and `Guarded`, because the results are deleted
  only by a StartGrep that is alone or disturbs.

- `ParseSessionProofs!TypeCorrect`: the parts of an update that are still to be parsed stay lists
  of the project's files through every way a bundle can end, so a file the loop goes on after
  is found where it should be (`AfterType`).
- `ParseSessionProofs!AtMostOneImport`, `NothingOpenIsWritten`, `TablesAreReopened`,
  `CrossPidIsKept`: each follows from the same invariant, `PipesOK /\ (overlap \/ Calm)`. None is
  inductive alone: that one dbimp runs depends on who waits for it, and what is open on how
  far that procedure has come. `Calm` says what an undisturbed session looks like: one procedure works, with only
  unload-starting updates below it and only callbacks above (`Shape`); what each frame may rely on, by its place
  (`FrameOK`); every open pipe is waited for by a frame or is the import of references (`Owned`); and what
  `SN_cross_pid` means (`Cross`). A callback that closes the pipe of the references runs over any waiting
  procedure, and `ServingXref` is why it finds none that relies on closed tables. When nested updates have all ended
  (`OverlapEnds`), the session is calm again (`QuietCalm`).
- `ParseSessionFilesProofs!OnlyGivenUpPassedOver`, `OnlyUserKills`: `FilesAccounted` speaks of the end of an update,
  so the invariant says for each place on the way where the files are that are not accounted for
  (`Ahead`): in the types, in the bundles, or in the bundle that is being parsed. A file is `Settled` when it is accounted for or given up. For the bundle
  `Progress` relates three places a file can be in, the lines dbimp has still to read, those hyper has still to
  read, and those that are settled, which follow each other in the bundle; a dbimp that dies may have passed
  one more line on than it has stored. From it follows that all files before the one accessed
  last are settled (`Seen`), so going on after it (`AfterSeen`) leaves none out, even when
  a bundle names a file twice. `AtPipe` says when the procedure that waits for a pipe can be woken
  although the pipe is open: only with `ProcessingCancelled` 2, hence with a scale window. It
  rests on `Order`: only that procedure is at the bottom of the stack, and while a crash is being shown its pipe is
  closed and no other parser runs. `Calm` is assumed from `ParseSessionProofs`, because who waits for a pipe is
  its subject.

- `ProjectLockProofs!TypeCorrect`, `UserIsMarked`, `NoMarkIsOrphan` and
  `ProjectIsExclusive`: `UserMarked` alone is not inductive, because any process with the file
  open may write back what it believes. The invariant `IInv` says that, as long as
  the project is not `disturbed`, a process that opens, uses or leaves it is alone with it
  (`ContendersAlone`), and what each has in memory of `open_info` is itself while it
  uses the project, nothing when it leaves, and nothing or a dead process before
  (`PageOf`). The refinement follows step by step: only `MarkProject` takes, `SaveProject` and
  `Dies` leave, a forced unlock or a double opening loses, and everything else is a stutter of
  `ExclusiveUse`.
- `ExecGrepPaneProofs!TypeCorrect`, `RunningSearchHasWaiter`, `LeaksOnlyByNesting`:
  `StepEffect` sorts the steps into those that leave the driver and who waits for it alone, those that close,
  and those that open a channel for the topmost StartGrep. A channel can only be left behind by
  the third; then a StartGrep waits for it below the topmost one (`SearchHasWaiter`), so
  there are two, and one began over the other (`Nested`).

- `ExecGrepPaneProofs!WholeSearchIsShown` (`ResultsAreComplete`): the count of lines at the end says nothing of the
  way there, so `Accounts` keeps the books of an undisturbed search (`Unharmed`) at each place of its StartGrep: lines shown, lines dropped, those in
  the pipe, those the grep will still write and those of the groups to come add up to all of them. It needs that a search starts with all of its groups
  (`Fresh`), that a grep that has ended writes nothing more (`NothingAfterEnd`), and that a channel that was left
  behind stays so (`LeaksStay`), since its event may wake a `vwait` that is not its own. The sum over groups is the cardinality of
  `Lines`, so that taking off the first group is a fact about finite sets (`SumTail`).

Model-checked only: `EveryContenderSettles`, `SearchEnds`, `PaneComesBack` and
`EveryUpdateReturns`. They are liveness properties under fairness, which this prover does not reach. Every other property
of a passing run is the subject of a theorem.

## 6. Not modelled, and what is left

- *Panic check*: its second look at a lock file after half a second and at a process that has ended
  "in between" need a model of time; they only change which of two dialogs is shown.
- *Class tree and scope completion*: sequential functions over C structures. A reference with a known scope, as in
  `SymbolDb`, does not go through them.
- *History*: one list for each kind of window, written by one callback.
- *Socket commands between projects*: one command is read and written; no state beyond it.
- *Language parsers*: sequential recognisers. What they may put out is an input (`Content`).
- *Table access, browsers, editor, tools*: queries, widgets and copying.
- *Berkeley DB, Tcl, Tk, Itcl, Tix, libgui*: other projects, which the repository only carries with
  it. What the models need of them (unlink and open descriptors, the event loop with nested `vwait`, pages
  written as a whole, non-blocking reads) is in the actions that use it. They are
  most of the repository's lines.

Left of the plan: what both
grep drivers promise to the pane as one abstract driver; scope completion as functions over a finite
hierarchy.
