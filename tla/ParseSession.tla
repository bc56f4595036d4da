---------------------------- MODULE ParseSession ----------------------------
(***************************************************************************)
(* An update of the project as hyper runs it (gui/misc.tcl).               *)
(*                                                                         *)
(* sn_parse_uptodate starts a pipe "parser | dbimp" for each bundle of     *)
(* files of each type, waits for it in the event loop, and at the end      *)
(* starts the import of the cross references, which runs on while the user *)
(* works.  hyper has one thread: what runs is a stack of procedures, each  *)
(* at the place where it entered the event loop (update, vwait, a dialog)  *)
(* or goes on from, and only the topmost can go on.  Everything they know  *)
(* of each other is in global variables.                                   *)
(*                                                                         *)
(* A pipe stands for its processes.  Which lock file a dbimp takes is what *)
(* DbLock has shown: a three-field line stops nobody.                      *)
(***************************************************************************)
EXTENDS Integers, Sequences, FiniteSets

CONSTANTS
    File,       \* the files of the project
    Jobs,       \* what an update may have to parse: for each type, its bundles
    Pipe,       \* the pipes (their dbimp processes)
    MaxStarts,  \* bound: updates and unloads the user starts
    NoPipe,     \* no pipe, no lock file
    NoFile      \* no file

Bundles == {b \in Seq(Seq(File)) : \A i \in 1..Len(b) : b[i] # <<>>}

ASSUME JobsAssumption  == Jobs \subseteq {j \in Seq(Bundles) : j # <<>>}
ASSUME StartsAssumption == MaxStarts \in Nat
ASSUME NoneAssumption  == NoPipe \notin Pipe /\ NoFile \notin File

VARIABLES
    stack,      \* the procedures that wait, the topmost last
    ProcessingCancelled,
    lastFile,   \* event_LoadPipeInput_last_accessed_file
    SN_cross_pid,
    pipes,      \* pipes[p]: the processes and the channel of p
    lock,       \* the pipe whose dbimp the lock file names, or NoPipe
    starts,     \* updates and unloads so far
    tables,     \* the databases hyper has open: "scopes", "xrefs"
    overlap,    \* (history) updates or unloads have been nested
    named,      \* (history) the last pipe that was started has named a file
                \* (history of an update; not followed once updates are nested)
    accounted,  \* its files that dbimp has stored, or the user knows have not
                \* been parsed
    gaveUp      \* its files that a dbimp gave up, of which only its stderr tells

globals == <<ProcessingCancelled, lastFile, SN_cross_pid>>
history == <<overlap, named, accounted, gaveUp>>
vars    == <<stack, globals, pipes, lock, tables, starts, history>>

Both    == {"scopes", "xrefs"}
Elems(s) == {s[i] : i \in 1..Len(s)}
FilesOf(bundles) == UNION {Elems(bundles[i]) : i \in 1..Len(bundles)}
FilesIn(types)   == UNION {FilesOf(types[i]) : i \in 1..Len(types)}

-----------------------------------------------------------------------------
(* The stack.  A frame is a sn_parse_uptodate with the sn_load_files and   *)
(* the sn_load_part_files it has called, a sn_load_hide_unload_files, or a *)
(* callback that shows a dialog.                                           *)
Frame(at, types, p) ==
    [at |-> at, types |-> types, bundles |-> <<>>, fl |-> <<>>, pipe |-> p,
     woken |-> FALSE, window |-> FALSE, ran |-> FALSE, all |-> FilesIn(types)]

Dialogs == {"missing", "busy", "noparser", "askother", "unusable", "crash",
            "askskip", "xreferr"}
Waits   == Dialogs \union {"scan", "pipe", "killed", "closing", "unload"}
Places  == Waits \union {"begin", "files", "part", "check", "reopen", "xref"}

Top     == stack[Len(stack)]
At(l)   == stack # <<>> /\ Top.at = l
Pop     == SubSeq(stack, 1, Len(stack) - 1)
Put(f)  == [stack EXCEPT ![Len(stack)] = f]
Goto(l) == Put([Top EXCEPT !.at = l])
Push(f) == Append(stack, f)

(* A vwait returns before another event is served when its variable has    *)
(* been written; every nested vwait on the variable sees the write.        *)
Wake(s, l) == [i \in 1..Len(s) |-> IF s[i].at = l THEN [s[i] EXCEPT !.woken = TRUE] ELSE s[i]]
Serving == stack # <<>> => Top.at \in Waits /\ ~Top.woken

(* A dialog grabs the user's input; else the scale window does.            *)
FreeInput   == Serving /\ (stack # <<>> => Top.at \notin Dialogs)
               /\ \A i \in 1..Len(stack) : ~stack[i].window
ScaleWindow == Serving /\ stack # <<>> /\ Top.at \notin Dialogs
               /\ \E i \in 1..Len(stack) : stack[i].window

-----------------------------------------------------------------------------
(* The pipes.                                                              *)
Idle == [kind |-> "none", st |-> "ended", todo |-> <<>>, out |-> <<>>, err |-> "no",
         open |-> FALSE, on |-> FALSE]
Started(kind, todo) ==
    [kind |-> kind, st |-> "starting", todo |-> todo, out |-> <<>>, err |-> "no",
     open |-> TRUE, on |-> TRUE]

Runs(p)   == pipes[p].st \in {"starting", "locked"}
Eof(p)    == ~Runs(p) /\ pipes[p].out = <<>>
(* kill -0: a process hyper has not waited for still has its pid.          *)
Exists(p) == Runs(p) \/ pipes[p].open
Fresh(p)  == ~Exists(p) /\ lock # p /\ \A i \in 1..Len(stack) : stack[i].pipe # p
(* kill -9 to all processes of the pipe.                                   *)
Killed(p) == IF Runs(p) THEN [pipes[p] EXCEPT !.st = "ended", !.todo = <<>>, !.err = "crash"]
             ELSE pipes[p]

(* sn_db_panic_check, and what it says of the lock file alone.             *)
PanicCheck == IF lock = NoPipe THEN "ok" ELSE IF Exists(lock) THEN "locked" ELSE "died"
FileCheck  == IF lock = NoPipe THEN "ok" ELSE "locked"

Init ==
    /\ stack = <<>>
    /\ ProcessingCancelled = 0 /\ lastFile = NoFile /\ SN_cross_pid = NoPipe
    /\ pipes = [p \in Pipe |-> Idle] /\ lock = NoPipe
    /\ tables = Both /\ starts = 0
    /\ overlap = FALSE /\ named = FALSE /\ accounted = {} /\ gaveUp = {}

-----------------------------------------------------------------------------
(* The processes.                                                          *)

(* create_lock_file: an older line in the way is removed.                  *)
TakeLock(p) ==
    /\ pipes[p].st = "starting" /\ pipes[p].kind \in {"parse", "xref"}
    /\ pipes' = [pipes EXCEPT ![p].st = "locked"]
    /\ lock' = p
    /\ UNCHANGED <<stack, globals, tables, starts, history>>

(* dbimp passes the status line of the next file on and stores the file.   *)
StoreFile(p) ==
    /\ pipes[p].st = "locked" /\ pipes[p].todo # <<>>
    /\ LET f == Head(pipes[p].todo)
       IN  /\ pipes' = [pipes EXCEPT ![p].todo = Tail(@), ![p].out = Append(@, f)]
           /\ accounted' = IF overlap THEN {} ELSE accounted \union {f}
    /\ UNCHANGED <<stack, globals, lock, tables, overlap, named, gaveUp, starts>>

(* The end of its input: dbimp deletes the lock file.  Either process may  *)
(* have written to stderr, and the parser may have been killed.            *)
EndImport(p) ==
    /\ pipes[p].todo = <<>>
    /\ \/ pipes[p].st = "locked" /\ lock' = NoPipe
       \/ pipes[p].st = "starting" /\ pipes[p].kind = "unload" /\ UNCHANGED lock
    /\ \E e \in {"no", "warns", "crash"} :
          /\ pipes[p].err = "crash" => e = "crash"
          /\ pipes' = [pipes EXCEPT ![p].st = "ended", ![p].err = e]
    /\ UNCHANGED <<stack, globals, tables, starts, history>>

(* dbimp comes to its end before that of its input.  It has passed on k    *)
(* lines (none, or one) of files that it has not stored, and what has      *)
(* become of the lock file depends on how far it was with it: another's,   *)
(* removed, its own; or its own as the mark of an unusable project, or     *)
(* deleted, if it says goodbye.                                            *)
Leaves(p, k, e) ==
    /\ k \in 0..Len(pipes[p].todo) /\ k <= 1 /\ (k = 1 => pipes[p].st = "locked")
    /\ pipes' = [pipes EXCEPT ![p].st = "ended", ![p].err = e, ![p].todo = <<>>,
                              ![p].out = @ \o SubSeq(pipes[p].todo, 1, k)]
Locking(p) == pipes[p].st = "starting" /\ pipes[p].kind \in {"parse", "xref"}

(* It is killed. *)
DbimpDies(p) ==
    /\ Runs(p)
    /\ \E k \in 0..1 : Leaves(p, k, "crash")
    /\ lock' \in IF Locking(p) THEN {lock, NoPipe, p} ELSE {lock}
    /\ UNCHANGED <<stack, globals, tables, starts, history>>

(* It cannot get the lock, or gives up over a file, or at the end, because *)
(* of its tables: it says so on stderr and exits.  The parser may be killed*)
(* when it writes on, which is all that makes it a crash for hyper.        *)
DbimpExits(p) ==
    /\ Runs(p)
    /\ \E k \in 0..1, e \in {"warns", "crash"} :
          /\ pipes[p].err = "crash" => e = "crash"
          /\ Leaves(p, k, e)
          /\ gaveUp' = gaveUp \union
                (IF overlap \/ e = "crash" THEN {} ELSE IF k = 1 THEN {Head(pipes[p].todo)}
                 ELSE IF named \/ pipes[p].out # <<>> THEN {} ELSE Elems(pipes[p].todo))
    /\ lock' \in IF Locking(p) THEN {lock, NoPipe, p}
                 ELSE IF pipes[p].st = "locked" THEN {lock, NoPipe} ELSE {lock}
    /\ UNCHANGED <<stack, globals, tables, overlap, named, accounted, starts>>

(* The parser crashes in one of the files, or before the first: dbimp      *)
(* reads what has been written.                                            *)
ParserCrashes(p) ==
    /\ Runs(p) /\ pipes[p].kind = "parse" /\ pipes[p].err # "crash"
    /\ \E k \in 0..Len(pipes[p].todo) :
          pipes' = [pipes EXCEPT ![p].err = "crash", ![p].todo = SubSeq(@, 1, k)]
    /\ UNCHANGED <<stack, globals, lock, tables, starts, history>>

-----------------------------------------------------------------------------
(* Nothing is left of earlier updates (for overlap).                       *)
Quiet == /\ stack = <<>> /\ SN_cross_pid = NoPipe /\ tables = Both
         /\ \A p \in Pipe : ~Exists(p)

(* sn_parse_uptodate, up to the first update of its loop over the files.   *)
StartUpdate(job) ==
    /\ FreeInput /\ starts < MaxStarts /\ starts' = starts + 1
    /\ ProcessingCancelled' = 0
    /\ IF FileCheck = "ok"
       THEN /\ stack' = Push(Frame("scan", job, NoPipe))
            /\ overlap' = (stack # <<>> \/ (overlap /\ ~Quiet))
            /\ accounted' = {} /\ gaveUp' = {}
       ELSE UNCHANGED <<stack, overlap, accounted, gaveUp>>
    /\ UNCHANGED <<lastFile, SN_cross_pid, pipes, lock, tables, named>>

(* All files have been looked at; those that are missing are shown.        *)
FilesScanned ==
    /\ At("scan")
    /\ \E l \in {"begin", "missing"} : stack' = Goto(l)
    /\ UNCHANGED <<globals, pipes, lock, tables, starts, history>>

(* Continue, Cancel, or Delete, which is refused while references are      *)
(* imported.                                                               *)
AnswerMissing ==
    /\ At("missing")
    /\ \/ stack' = Goto("begin") /\ UNCHANGED <<pipes, tables>>
       \/ stack' = Pop /\ UNCHANGED <<pipes, tables>>
       \/ /\ SN_cross_pid = NoPipe
          /\ \E p \in Pipe :
                /\ Fresh(p)
                /\ pipes' = [pipes EXCEPT ![p] = Started("unload", <<>>)]
                /\ stack' = Append(Goto("begin"), Frame("unload", <<>>, p))
          /\ tables' = {}
    /\ UNCHANGED <<globals, lock, starts, history>>

(* delete_scale_window, or the next type, or the next bundle of this one.  *)
Leave(f)    == [f EXCEPT !.at = "closing", !.window = FALSE, !.types = <<>>, !.bundles = <<>>,
                       !.fl = <<>>]
(* A mistake: the list of types is taken for that of the bundles.          *)
NextTypeUnindexed(f) ==
    IF f.types = <<>> THEN Leave(f)
    ELSE [f EXCEPT !.at = "files", !.bundles = f.types, !.types = Tail(f.types), !.fl = <<>>]

NextType(f) == IF f.types = <<>> THEN Leave(f)
               ELSE [f EXCEPT !.at = "files", !.bundles = Head(f.types), !.types = Tail(f.types),
                              !.fl = <<>>]
NextBundle(f) ==
    IF f.bundles = <<>> THEN NextType(f)
    ELSE [f EXCEPT !.at = "part", !.fl = Head(f.bundles), !.bundles = Tail(f.bundles)]

(* A mistake: the database stays open for reading.                         *)
BeginParseOpen ==
    /\ At("begin")
    /\ \E w \in BOOLEAN : stack' = Put([NextType(Top) EXCEPT !.window = w])
    /\ accounted' = {} /\ gaveUp' = {}
    /\ UNCHANGED <<globals, pipes, lock, tables, overlap, named, starts>>

(* The list of symbols to be deleted is made, db_close_files 0 is called   *)
(* and the scale window opened, if there is to be one.                     *)
BeginParse ==
    /\ At("begin")
    /\ tables' = {}
    /\ \E w \in BOOLEAN : stack' = Put([NextType(Top) EXCEPT !.window = w])
    /\ accounted' = {} /\ gaveUp' = {}
    /\ UNCHANGED <<globals, pipes, lock, overlap, named, starts>>

(* A mistake: the import of references is not asked after.                 *)
LoadFilesUnasked ==
    /\ At("files")
    /\ stack' = Put(NextBundle(Top))
    /\ UNCHANGED <<globals, pipes, lock, tables, starts, history>>

(* sn_load_files: not while references are imported. *)
LoadFiles ==
    /\ At("files")
    /\ stack' = IF SN_cross_pid = NoPipe THEN Put(NextBundle(Top)) ELSE Goto("busy")
    /\ UNCHANGED <<globals, pipes, lock, tables, starts, history>>

AnswerBusy ==
    /\ At("busy")
    /\ stack' = Put(Leave(Top))
    /\ accounted' = accounted \union FilesOf(Top.bundles) \union FilesIn(Top.types)
    /\ UNCHANGED <<globals, pipes, lock, tables, overlap, named, gaveUp, starts>>

(* sn_load_part_files: open "| parser ... | dbimp ...".                    *)
StartPipe ==
    /\ At("part")
    /\ \/ stack' = Goto("noparser") /\ UNCHANGED pipes
       \/ \E p \in Pipe :
             /\ Fresh(p)
             /\ pipes' = [pipes EXCEPT ![p] = Started("parse", Top.fl)]
             /\ stack' = Put([Top EXCEPT !.at = "pipe", !.pipe = p, !.ran = TRUE])
    /\ named' = FALSE
    /\ UNCHANGED <<globals, lock, tables, overlap, accounted, gaveUp, starts>>

(* The parser cannot be started: go on (sn_ask_continue_parsing)?          *)
AnswerNoParser ==
    /\ At("noparser")
    /\ accounted' = accounted \union Elems(Top.fl)
    /\ \/ ProcessingCancelled' = 0 /\ stack' = Put(NextBundle(Top))
       \/ UNCHANGED ProcessingCancelled /\ stack' = Goto("askother")
    /\ UNCHANGED <<lastFile, SN_cross_pid, pipes, lock, tables, overlap, named, gaveUp, starts>>

(* The vwait has ended: kill what is left of the pipe.                     *)
PipeEnds ==
    /\ At("pipe") /\ Top.woken
    /\ LET p == Top.pipe
       IN  IF Exists(p)
           THEN /\ pipes' = [pipes EXCEPT ![p] = Killed(p)]
                /\ stack' = Put([Top EXCEPT !.at = "killed", !.woken = FALSE])
           ELSE /\ stack' = Put([Top EXCEPT !.at = "check", !.woken = FALSE, !.pipe = NoPipe])
                /\ UNCHANGED pipes
    /\ UNCHANGED <<globals, lock, tables, starts, history>>

(* After an update the pipe is closed, without an answer from it. *)
ClosePipe ==
    /\ At("killed")
    /\ pipes' = [pipes EXCEPT ![Top.pipe] = Idle]
    /\ stack' = Put([Top EXCEPT !.at = "check", !.pipe = NoPipe])
    /\ UNCHANGED <<globals, lock, tables, starts, history>>

(* What follows the file that was parsed last: nothing when the bundle     *)
(* does not have it.                                                       *)
After(fl, f) ==
    LET First == {i \in 1..Len(fl) : fl[i] = f /\ \A j \in 1..(i - 1) : fl[j] # f}
    IN  IF First = {} THEN <<>> ELSE SubSeq(fl, (CHOOSE i \in First : TRUE) + 1, Len(fl))

(* A mistake: the file after the one that crashed is left out, too.        *)
CheckPipeTwice ==
    /\ At("check") /\ ProcessingCancelled = 3 /\ ProcessingCancelled' = 0
    /\ LET rest == After(Top.fl, lastFile)
           fl   == IF rest = <<>> THEN rest ELSE Tail(rest)
       IN  stack' = IF fl # <<>> THEN Put([Top EXCEPT !.at = "part", !.fl = fl])
                    ELSE Put(NextBundle(Top))
    /\ UNCHANGED <<lastFile, SN_cross_pid, pipes, lock, tables, starts, history>>

(* The rest of sn_load_part_files and of the loop of sn_load_files: go on  *)
(* after a file that crashed, ask, or take the next bundle.                *)
CheckPipe ==
    /\ At("check")
    /\ \/ /\ ProcessingCancelled = 3
          /\ ProcessingCancelled' = 0
          /\ LET fl == After(Top.fl, lastFile)
             IN  stack' = IF fl # <<>> THEN Put([Top EXCEPT !.at = "part", !.fl = fl])
                          ELSE Put(NextBundle(Top))
       \/ /\ ProcessingCancelled \in {1, 2} \/ (ProcessingCancelled = 0 /\ PanicCheck = "died")
          /\ stack' = Goto("askother")
          /\ UNCHANGED ProcessingCancelled
       \/ /\ ProcessingCancelled = 0 /\ PanicCheck # "died"
          /\ stack' = Put(NextBundle(Top))
          /\ UNCHANGED ProcessingCancelled
    /\ UNCHANGED <<lastFile, SN_cross_pid, pipes, lock, tables, starts, history>>

(* sn_ask_continue_other_types *)
AnswerOtherTypes ==
    /\ At("askother")
    /\ \/ /\ ProcessingCancelled' = 0
          /\ stack' = Put(NextType(Top))
          /\ accounted' = accounted \union Elems(Top.fl) \union FilesOf(Top.bundles)
       \/ /\ UNCHANGED ProcessingCancelled
          /\ stack' = Put(Leave(Top))
          /\ accounted' = accounted \union Elems(Top.fl) \union FilesOf(Top.bundles)
                                \union FilesIn(Top.types)
    /\ UNCHANGED <<lastFile, SN_cross_pid, pipes, lock, tables, overlap, named, gaveUp, starts>>

(* The update of delete_scale_window. *)
WindowClosed ==
    /\ At("closing")
    /\ stack' = Goto("reopen")
    /\ UNCHANGED <<globals, pipes, lock, tables, starts, history>>

-----------------------------------------------------------------------------
(* sn_db_open_files, by an update or an unload. *)
Opened(cross) == IF cross = NoPipe THEN Both ELSE {"scopes"}

ReopenTables ==
    /\ At("reopen")
    /\ IF PanicCheck = "died"
       THEN stack' = Goto("unusable") /\ UNCHANGED tables
       ELSE stack' = Goto("xref") /\ tables' = Opened(SN_cross_pid)
    /\ UNCHANGED <<globals, pipes, lock, starts, history>>

(* The user goes on with a database that may be damaged.                   *)
AnswerUnusable ==
    /\ At("unusable")
    /\ stack' = Goto("xref")
    /\ tables' = Opened(SN_cross_pid)
    /\ UNCHANGED <<globals, pipes, lock, starts, history>>

(* sn_load_xref, if a parser has written references and the update was not *)
(* stopped; the procedure returns.                                         *)
FinishUpdate ==
    /\ At("xref")
    /\ stack' = Pop
    /\ accounted' = {} /\ gaveUp' = {}
    /\ \/ UNCHANGED <<SN_cross_pid, pipes, tables>>
       \/ /\ Top.ran /\ ProcessingCancelled = 0
          /\ tables' = tables \ {"xrefs"}
          /\ \E p \in Pipe :
                /\ Fresh(p)
                /\ pipes' = [pipes EXCEPT ![p] = Started("xref", <<>>)]
                /\ SN_cross_pid' = p
    /\ UNCHANGED <<ProcessingCancelled, lastFile, lock, overlap, named, starts>>

-----------------------------------------------------------------------------
(* The callbacks of the pipes, served by whichever procedure is topmost.   *)

Served(p, kind) == Serving /\ pipes[p].kind = kind /\ pipes[p].open /\ pipes[p].on

(* event_LoadPipeInput: a line. *)
ServeLine(p) ==
    /\ Served(p, "parse") /\ ProcessingCancelled = 0 /\ pipes[p].out # <<>>
    /\ lastFile' = Head(pipes[p].out)
    /\ pipes' = [pipes EXCEPT ![p].out = Tail(@)]
    /\ named' = TRUE
    /\ UNCHANGED <<stack, ProcessingCancelled, SN_cross_pid, lock, tables, overlap, accounted, gaveUp, starts>>

(* A mistake: the pipe is left to the procedure that waits for it.         *)
ServeEofOpen(p) ==
    /\ Served(p, "parse") /\ ProcessingCancelled = 0 /\ pipes[p].out = <<>>
    /\ pipes[p].todo = <<>>
    /\ pipes' = [pipes EXCEPT ![p].on = FALSE]
    /\ stack' = Wake(stack, "pipe")
    /\ UNCHANGED <<globals, lock, tables, starts, history>>

(* The end of the pipe, which is closed: an error, a warning, or neither.  *)
ServeEof(p) ==
    /\ Served(p, "parse") /\ ProcessingCancelled = 0 /\ Eof(p)
    /\ pipes' = [pipes EXCEPT ![p] = Idle]
    /\ IF pipes[p].err = "crash"
       THEN stack' = Push(Frame("crash", <<>>, NoPipe)) /\ UNCHANGED ProcessingCancelled
       ELSE /\ stack' = Wake(stack, "pipe")
            /\ ProcessingCancelled' = IF pipes[p].err = "warns" THEN 3 ELSE 0
    /\ UNCHANGED <<lastFile, SN_cross_pid, lock, tables, starts, history>>

(* The user has cancelled. *)
ServeCancelled(p) ==
    /\ Served(p, "parse") /\ ProcessingCancelled = 2 /\ (pipes[p].out # <<>> \/ Eof(p))
    /\ pipes' = [pipes EXCEPT ![p].on = FALSE]
    /\ stack' = Wake(stack, "pipe")
    /\ UNCHANGED <<globals, lock, tables, starts, history>>

(* Another pipe has failed: this one is closed, too, and hyper stands      *)
(* still until its processes have ended.                                   *)
ServeFailed(p) ==
    /\ Served(p, "parse") /\ ProcessingCancelled \in {1, 3} /\ (pipes[p].out # <<>> \/ Eof(p))
    /\ pipes' = [pipes EXCEPT ![p] = Idle]
    /\ lock' \in IF Runs(p) THEN {NoPipe, lock} ELSE {lock}
    /\ stack' = Wake(stack, "pipe")
    /\ UNCHANGED <<globals, tables, starts, history>>

(* The error dialog of event_LoadPipeInput is closed.                      *)
AnswerCrash ==
    /\ At("crash")
    /\ IF ProcessingCancelled = 0
       THEN ProcessingCancelled' = 1 /\ stack' = Goto("askskip")
       ELSE UNCHANGED ProcessingCancelled /\ stack' = Wake(Pop, "pipe")
    /\ UNCHANGED <<lastFile, SN_cross_pid, pipes, lock, tables, starts, history>>

(* A mistake: when the user stops, the procedure that waits is not woken.  *)
AnswerSkipQuietly ==
    /\ At("askskip")
    /\ \/ ProcessingCancelled' = 3 /\ stack' = Wake(Pop, "pipe")
       \/ UNCHANGED ProcessingCancelled /\ stack' = Pop
    /\ UNCHANGED <<lastFile, SN_cross_pid, pipes, lock, tables, starts, history>>

(* sn_handle_parse_error: skip the last file, or stop.  If the processes   *)
(* have named no file, the dialog names an earlier one, and their bundle is*)
(* skipped.                                                                *)
Skipped == IF named THEN {lastFile}
           ELSE UNION {Elems(stack[i].fl) : i \in {j \in 1..Len(stack) : stack[j].at = "pipe"}}

AnswerSkip ==
    /\ At("askskip")
    /\ \/ ProcessingCancelled' = 3 /\ accounted' = accounted \union Skipped
       \/ UNCHANGED <<ProcessingCancelled, accounted>>
    /\ stack' = Wake(Pop, "pipe")
    /\ UNCHANGED <<lastFile, SN_cross_pid, pipes, lock, tables, overlap, named, gaveUp, starts>>

(* The Cancel button of the scale window: sn_processing_canceled 2. *)
Cancel ==
    /\ ScaleWindow
    /\ ProcessingCancelled' = 2
    /\ stack' = Wake(stack, "pipe")
    /\ UNCHANGED <<lastFile, SN_cross_pid, pipes, lock, tables, starts, history>>

-----------------------------------------------------------------------------
(* load_xref_pipe at the end: the lock file of an import that failed is    *)
(* deleted, the database is closed and opened again (sn_db_open_files 1 0).*)
AfterXref(failed) ==
    /\ lock' = IF failed THEN NoPipe ELSE lock
    /\ tables' = IF ~failed /\ PanicCheck = "died" THEN {} ELSE Both

(* A mistake: SN_cross_pid is unset at the end only if all went well.      *)
ServeXrefKept(p) ==
    /\ Served(p, "xref") /\ Eof(p)
    /\ pipes' = [pipes EXCEPT ![p] = Idle]
    /\ IF pipes[p].err = "crash"
       THEN stack' = Push(Frame("xreferr", <<>>, NoPipe)) /\ UNCHANGED <<SN_cross_pid, lock, tables>>
       ELSE UNCHANGED stack /\ SN_cross_pid' = NoPipe /\ AfterXref(pipes[p].err # "no")
    /\ UNCHANGED <<ProcessingCancelled, lastFile, starts, history>>

ServeXref(p) ==
    /\ Served(p, "xref") /\ Eof(p)
    /\ SN_cross_pid' = NoPipe
    /\ pipes' = [pipes EXCEPT ![p] = Idle]
    /\ IF pipes[p].err = "crash"
       THEN stack' = Push(Frame("xreferr", <<>>, NoPipe)) /\ UNCHANGED <<lock, tables>>
       ELSE UNCHANGED stack /\ AfterXref(pipes[p].err # "no")
    /\ UNCHANGED <<ProcessingCancelled, lastFile, starts, history>>

AnswerXrefError ==
    /\ At("xreferr")
    /\ stack' = Pop
    /\ AfterXref(TRUE)
    /\ UNCHANGED <<globals, pipes, starts, history>>

(* The user has cancelled the import of references (xref_cancel): its pipe *)
(* is closed when it next shows a sign of life, and hyper waits for it.    *)
CancelXref(p) ==
    /\ Served(p, "xref") /\ Runs(p)
    /\ SN_cross_pid' = NoPipe
    /\ pipes' = [pipes EXCEPT ![p] = Idle]
    /\ AfterXref(TRUE)
    /\ UNCHANGED <<stack, ProcessingCancelled, lastFile, starts, history>>

(* sn_load_hide_unload_files: a dbimp without -H and -P deletes the files. *)
StartUnload ==
    /\ FreeInput /\ starts < MaxStarts /\ starts' = starts + 1 /\ SN_cross_pid = NoPipe
    /\ \E p \in Pipe :
          /\ Fresh(p)
          /\ pipes' = [pipes EXCEPT ![p] = Started("unload", <<>>)]
          /\ stack' = Push(Frame("unload", <<>>, p))
    /\ overlap' = (stack # <<>> \/ (overlap /\ ~Quiet))
    /\ accounted' = {} /\ gaveUp' = {}
    /\ tables' = {}
    /\ UNCHANGED <<globals, lock, named>>

(* wait_xref_end writes X_unload, however the dbimp has ended. *)
ServeUnload(p) ==
    /\ Served(p, "unload") /\ Eof(p)
    /\ pipes' = [pipes EXCEPT ![p] = Idle]
    /\ stack' = Wake(stack, "unload")
    /\ UNCHANGED <<globals, lock, tables, starts, history>>

(* A mistake: what was closed for the unload stays closed. *)
UnloadEndsClosed ==
    /\ At("unload") /\ Top.woken
    /\ stack' = Pop
    /\ UNCHANGED <<globals, pipes, lock, tables, starts, history>>

UnloadEnds ==
    /\ At("unload") /\ Top.woken
    /\ stack' = Put([Top EXCEPT !.at = "reopen", !.woken = FALSE, !.pipe = NoPipe])
    /\ UNCHANGED <<globals, pipes, lock, tables, starts, history>>

-----------------------------------------------------------------------------
Work(p)  == TakeLock(p) \/ StoreFile(p) \/ EndImport(p)
Fault(p) == DbimpDies(p) \/ DbimpExits(p) \/ ParserCrashes(p)
Serve(p) == \/ ServeLine(p) \/ ServeEof(p) \/ ServeCancelled(p) \/ ServeFailed(p)
            \/ ServeXref(p) \/ ServeUnload(p)

Answer  == \/ AnswerMissing \/ AnswerBusy \/ AnswerNoParser \/ AnswerOtherTypes
           \/ AnswerUnusable \/ AnswerCrash \/ AnswerSkip \/ AnswerXrefError
Proceed == \/ FilesScanned \/ BeginParse \/ LoadFiles \/ StartPipe \/ PipeEnds \/ ClosePipe
           \/ CheckPipe \/ WindowClosed \/ ReopenTables \/ FinishUpdate \/ UnloadEnds \/ Answer

Next ==
    \/ \E p \in Pipe : Work(p) \/ Fault(p) \/ Serve(p) \/ CancelXref(p)
    \/ Proceed
    \/ \E job \in Jobs : StartUpdate(job)
    \/ StartUnload \/ Cancel

Spec == Init /\ [][Next]_vars

(* Processes are scheduled, events are served and dialogs are answered; an *)
(* update serves events until there are none.                              *)
Fairness ==
    /\ \A p \in Pipe : WF_vars(Work(p)) /\ WF_vars(Serve(p))
    /\ WF_vars(Proceed)

FairSpec == Spec /\ Fairness

-----------------------------------------------------------------------------
PipeState == [kind : {"none", "parse", "xref", "unload"},
              st : {"starting", "locked", "ended"},
              todo : Seq(File), out : Seq(File), err : {"no", "warns", "crash"},
              open : BOOLEAN, on : BOOLEAN]
FrameState == [at : Places, types : Seq(Bundles), bundles : Bundles, fl : Seq(File),
               pipe : Pipe \union {NoPipe}, woken : BOOLEAN, window : BOOLEAN, ran : BOOLEAN,
               all : SUBSET File]

TypeOK ==
    /\ stack \in Seq(FrameState)
    /\ ProcessingCancelled \in 0..3
    /\ lastFile \in File \union {NoFile}
    /\ SN_cross_pid \in Pipe \union {NoPipe}
    /\ pipes \in [Pipe -> PipeState]
    /\ lock \in Pipe \union {NoPipe}
    /\ tables \subseteq Both
    /\ overlap \in BOOLEAN
    /\ named \in BOOLEAN /\ (named => lastFile \in File)
    /\ accounted \subseteq File /\ gaveUp \subseteq File

(* One import at a time (sn_load_files, sn_load_hide_unload_files and      *)
(* sn_db_panic_check): as long as the user does not start an update or an  *)
(* unload inside another one, no two dbimp processes of hyper run at once, *)
(* whatever crashes or is cancelled.                                       *)
OneImport ==
    overlap \/ \A p, q \in Pipe : Runs(p) /\ Runs(q) => p = q

(* db_close_files: nothing that a dbimp is writing to is open in hyper.    *)
Writes(p) == IF ~Runs(p) THEN {} ELSE IF pipes[p].kind = "xref" THEN {"xrefs"} ELSE Both
ClosedWhileWritten ==
    overlap \/ \A p \in Pipe : Writes(p) \intersect tables = {}

(* sn_db_open_files: what was closed for an update, an unload or an import *)
(* of references comes back, however it ended.                             *)
TablesComeBack ==
    overlap \/ stack # <<>> \/ tables = Opened(SN_cross_pid)

(* SN_cross_pid is set as long as references are imported, no longer.      *)
CrossPidIsXref ==
    overlap \/ \A p \in Pipe : (SN_cross_pid = p) <=> (pipes[p].kind = "xref" /\ pipes[p].open)

(* sn_load_files: when an update has gone through its files, each one has  *)
(* been stored, or the user was asked about it, or has cancelled.  The one *)
(* exception is a dbimp that gives up and is not killed: hyper only reads  *)
(* its stderr, so the file it was at, or the bundle of which it has named  *)
(* no file, is passed over in silence.                                     *)
FilesAccounted ==
    At("closing") \/ At("reopen") \/ At("xref") =>
        overlap \/ Top.all \subseteq accounted \union gaveUp

(* sn_load_part_files: processes that still run are killed only because    *)
(* the user has cancelled.                                                 *)
KilledByUser ==
    At("pipe") => (Top.woken /\ Runs(Top.pipe) => overlap \/ ProcessingCancelled = 2)

(* Every update, unload and callback returns, however they are nested.     *)
EveryUpdateReturns == stack # <<>> ~> stack = <<>>
=============================================================================
