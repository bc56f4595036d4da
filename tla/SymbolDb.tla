------------------------------ MODULE SymbolDb ------------------------------
(***************************************************************************)
(* The symbol database of a project and the way hyper keeps it up to date. *)
(*                                                                         *)
(* An update (sn_parse_uptodate, gui/misc.tcl) runs a parser whose output  *)
(* dbimp reads from a pipe, line by line, and then a second dbimp that     *)
(* reads the cross reference (xfer) file the parser wrote.  dbimp          *)
(* (db/dbimp.c, db/dbutils.c) applies each line to the tables               *)
(*     .f    files and their modification times                            *)
(*     .fil  the symbols of each file                                      *)
(*     .fu .mi .gv .lv ...  the symbols by name, a table per kind          *)
(*     .to .by  the cross references, by caller and by target              *)
(* which are kept in step by hand: a file that is parsed again first loses *)
(* the records .fil lists for it.  Unloading files from the project runs a *)
(* dbimp that does not take the database lock.                             *)
(*                                                                         *)
(* A name stands for a symbol name with its positions; the data parts of   *)
(* the records are left out, except the modification time.  Four kinds     *)
(* stand for the ways put_symbol and db_remove_file_def treat a kind.      *)
(***************************************************************************)
EXTENDS Integers, Sequences, FiniteSets

CONSTANTS
    File,       \* the files that may be part of the project
    Class,      \* class names
    Name,       \* symbol names
    Content,    \* the contents of files, each as the items a parser finds
    MaxTime,    \* bound: modification times are 0..MaxTime
    None,       \* no scope
    Hash,       \* "#", what put_symbol and put_cross_ref write for no scope
    NoFile,     \* no file
    NoTime      \* not in the file table

Kind        == {"fu", "mi", "gv", "lv"}
MemberKinds == {"mi", "lv"}     \* db_remove_file_def: key starts with a class
BodyKinds   == {"mi", "fu"}     \* db_remove_file_xfer_using_keys

(* What a parser finds: a declaration, or a reference from the body of one *)
(* symbol to another one.                                                  *)
Decl  == [item : {"decl"}, kind : Kind, class : Class \union {None}, name : Name]
End   == [kind : Kind, scope : Class \union {Hash}, name : Name]
Ref   == [item : {"ref"}, caller : End, target : End]

ASSUME ContentAssumption == Content \subseteq Seq(Decl \union Ref)
ASSUME NoneAssumption ==
    /\ None \notin Class /\ Hash \notin Class /\ Hash # None
    /\ NoFile \notin File
ASSUME TimeAssumption == MaxTime \in Nat /\ NoTime \notin 0..MaxTime

-----------------------------------------------------------------------------
(* put_symbol: some kinds have no scope, a member must have one.           *)
ScopeOf(d)  == IF d.kind \in {"fu", "gv"} THEN None ELSE d.class
Accepted(d) == d.kind = "mi" => d.class # None

(* The keys of the two records of a symbol.                                *)
SymKey(f, d) == [table |-> d.kind, scope |-> ScopeOf(d), name |-> d.name, file |-> f]
FilKey(f, d) == [file |-> f, name |-> d.name, kind |-> d.kind,
                 scope |-> IF ScopeOf(d) = None THEN Hash ELSE ScopeOf(d)]

SymKeys == [table : Kind, scope : Class \union {None}, name : Name, file : File]
FilKeys == [file : File, name : Name, kind : Kind, scope : Class \union {Hash}]

(* A mistake: members are looked for without their class.                  *)
DelKeyNoClass(r) == [table |-> r.kind, name |-> r.name, file |-> r.file, scope |-> None]

(* db_remove_file_def: the symbol a .fil record stands for.  A local       *)
(* variable without a class was stored without one and is not found.       *)
DelKey(r) == [table |-> r.kind, name |-> r.name, file |-> r.file,
              scope |-> IF r.kind \in MemberKinds THEN r.scope ELSE None]

(* put_cross_ref and db_insert_entry: caller, target, file; reversed in    *)
(* .by, where references to local variables are not stored.                *)
ToKeys     == End \X End \X File
ByKeys     == End \X End \X File
Reverse(t) == <<t[2], t[1], t[3]>>
IsLocal(t) == t[2].kind = "lv"
ByOf(T)    == {Reverse(t) : t \in {u \in T : ~IsLocal(u)}}

EndOf(r) == [kind |-> r.kind, scope |-> r.scope, name |-> r.name]

(* A mistake: the file the reference is made in is not compared.           *)
MadeAnywhere(T, list) == {t \in T : \E r \in list :
                             r.kind \in BodyKinds /\ t[1] = EndOf(r)}

(* db_remove_file_xfer_using_keys: the references the bodies of the listed *)
(* symbols make in the file they are listed for.                           *)
MadeBy(T, list) == {t \in T : \E r \in list :
                       /\ r.kind \in BodyKinds
                       /\ t[1] = EndOf(r)
                       /\ t[3] = r.file}

(* The lines dbimp reads.                                                  *)
FileLine(f)    == [op |-> "file", file |-> f]
DelFileLine(f) == [op |-> "delfile", file |-> f]                \* -1;
SymLine(k)     == [op |-> "sym", sym |-> k]
FilLine(r)     == [op |-> "fil", fil |-> r]
XrefLine(t)    == [op |-> "xref", to |-> t]
DelXrefLine(L) == [op |-> "delxref", list |-> L]                \* -3;
(* What a parser that died leaves at the end of the xfer file, the start   *)
(* of a line, and the line a later parser writes behind it: dbimp takes    *)
(* them for one, an input it does not recognise or a record of no file.    *)
CutLine  == [op |-> "cut"]
JunkLine == [op |-> "junk"]

XrefLines == [op : {"xref"}, to : ToKeys]
Line == [op : {"file", "delfile"}, file : File] \union [op : {"sym"}, sym : SymKeys]
        \union [op : {"fil"}, fil : FilKeys] \union XrefLines
        \union [op : {"delxref"}, list : SUBSET FilKeys] \union [op : {"cut", "junk"}]

VARIABLES
    source,     \* source[f]: the content of file f
    mtime,      \* mtime[f]: its modification time
    files,      \* .f: files[f] is the recorded modification time, or NoTime
    fil,        \* .fil
    syms,       \* the tables of the kinds
    to, by,     \* .to and .by
    disk,       \* the tables as they were when dbimp opened them
    phase,      \* "idle", "parse", "xref" or "unload"
    batch,      \* the files of the current update
    todo,       \* those the parser has not opened yet
    reading,    \* the file the parser has open
    stage,      \* of the parser: "none", "opened" or "scanning"
    rest,       \* what is left of the content the parser has read
    queue,      \* lines written and not read by dbimp
    xfer,       \* the lines of the xfer file
    buffer,     \* those the parser has in its memory (cross_ref_fp)
    lck,        \* a lock file of a dbimp that died
    damaged,    \* (history) a dbimp died and no lock file tells
    last,       \* (history) last[f]: what the last parse of f has put out
    lost,       \* (history) files whose cross references were not replaced
    dropped,    \* (history) files of which the death of a parser lost lines
    cut,        \* (history) files with a symbol the parser died over
    raced       \* (history) files saved after the parser read them and before
                \* dbimp took their time

tables  == <<files, fil, syms, to, by>>
parser  == <<reading, stage, rest>>
history == <<damaged, last, lost, dropped, cut, raced>>
vars    == <<source, mtime, tables, disk, phase, batch, todo, parser,
             queue, xfer, buffer, lck, history>>

Nothing == [fil |-> {}, refs |-> {}, whole |-> FALSE]
Saved   == [files |-> files, fil |-> fil, syms |-> syms, to |-> to, by |-> by]

(* A project whose database has been created and is empty.                 *)
Init ==
    /\ source \in [File -> Content]
    /\ mtime = [f \in File |-> 0]
    /\ files = [f \in File |-> NoTime]
    /\ fil = {} /\ syms = {} /\ to = {} /\ by = {}
    /\ disk = Saved
    /\ phase = "idle" /\ batch = {} /\ todo = {}
    /\ reading = NoFile /\ stage = "none" /\ rest = <<>>
    /\ queue = <<>> /\ xfer = <<>> /\ buffer = <<>>
    /\ lck = FALSE /\ damaged = FALSE
    /\ last = [f \in File |-> Nothing]
    /\ lost = {} /\ dropped = {} /\ cut = {} /\ raced = {}

(* dbimp has not taken the time of f yet.                                  *)
InPipe(f) == \E i \in 1..Len(queue) : queue[i] = FileLine(f)

(* An editor, ours or another, saves a file.                               *)
Save(f) ==
    /\ mtime[f] < MaxTime
    /\ mtime' = [mtime EXCEPT ![f] = @ + 1]
    /\ \E c \in Content : source' = [source EXCEPT ![f] = c]
    /\ raced' = IF InPipe(f) /\ ~(reading = f /\ stage = "opened")
                THEN raced \union {f} ELSE raced
    /\ UNCHANGED <<tables, disk, phase, batch, todo, parser, queue, xfer, buffer, lck, damaged, last, lost, dropped, cut>>

-----------------------------------------------------------------------------
(* sn_parse_uptodate: no update while there is a lock file.  The symbols   *)
(* of the changed files (sn_make_delfilelist) become the first line of the *)
(* xfer file.                                                              *)
Changed == {f \in File : files[f] # mtime[f]}

BeginUpdate ==
    /\ phase = "idle" /\ ~lck
    /\ \E F \in (SUBSET Changed) \ {{}} :
          /\ batch' = F /\ todo' = F
          /\ xfer' = <<DelXrefLine({r \in fil : r.file \in F})>>
    /\ phase' = "parse"
    /\ disk' = Saved
    /\ UNCHANGED <<source, mtime, tables, parser, queue, buffer, lck, history>>

(* log_symbol_filename: open the file and put_file.                        *)
ParserOpens(f) ==
    /\ phase = "parse" /\ stage = "none" /\ f \in todo
    /\ todo' = todo \ {f}
    /\ reading' = f /\ stage' = "opened"
    /\ queue' = Append(queue, FileLine(f))
    /\ last' = [last EXCEPT ![f] = Nothing]
    /\ raced' = raced \ {f} /\ dropped' = dropped \ {f}
    /\ UNCHANGED <<source, mtime, tables, disk, phase, batch, rest, xfer, buffer, lck, damaged, lost, cut>>

(* The file cannot be opened, or is skipped after a crash of the parser:   *)
(* its symbols stay, its references go with the delete list.               *)
ParserSkips(f) ==
    /\ phase = "parse" /\ stage = "none" /\ f \in todo
    /\ todo' = todo \ {f}
    /\ last' = [last EXCEPT ![f].refs = {}]
    /\ dropped' = dropped \ {f}
    /\ UNCHANGED <<source, mtime, tables, disk, phase, batch, parser, queue, xfer, buffer, lck, damaged, lost, cut, raced>>

ParserReads ==
    /\ stage = "opened"
    /\ stage' = "scanning" /\ rest' = source[reading]
    /\ UNCHANGED <<source, mtime, tables, disk, phase, batch, todo, reading, queue, xfer, buffer, lck, history>>

(* put_symbol writes two lines, or refuses a member without a class.       *)
PutSymbol ==
    /\ stage = "scanning" /\ rest # <<>> /\ Head(rest).item = "decl"
    /\ LET d == Head(rest)
       IN  IF Accepted(d)
           THEN /\ queue' = queue \o <<SymLine(SymKey(reading, d)), FilLine(FilKey(reading, d))>>
                /\ last' = [last EXCEPT ![reading].fil = @ \union {FilKey(reading, d)}]
           ELSE UNCHANGED <<queue, last>>
    /\ rest' = Tail(rest)
    /\ UNCHANGED <<source, mtime, tables, disk, phase, batch, todo, reading, stage, xfer, buffer, lck, damaged, lost, dropped, cut, raced>>

(* put_cross_ref writes to cross_ref_fp, a stream that reaches the xfer    *)
(* file when the parser ends.                                              *)
PutCrossRef ==
    /\ stage = "scanning" /\ rest # <<>> /\ Head(rest).item = "ref"
    /\ LET t == <<Head(rest).caller, Head(rest).target, reading>>
       IN  /\ buffer' = Append(buffer, XrefLine(t))
           /\ last' = [last EXCEPT ![reading].refs = @ \union {t}]
    /\ rest' = Tail(rest)
    /\ UNCHANGED <<source, mtime, tables, disk, phase, batch, todo, reading, stage, queue, xfer, lck, damaged, lost, dropped, cut, raced>>

ParserCloses ==
    /\ stage = "scanning" /\ rest = <<>>
    /\ stage' = "none" /\ reading' = NoFile
    /\ last' = [last EXCEPT ![reading].whole = TRUE]
    /\ UNCHANGED <<source, mtime, tables, disk, phase, batch, todo, rest, queue, xfer, buffer, lck, damaged, lost, dropped, cut, raced>>

(* The first n lines of the buffer as they come into the xfer file; the   *)
(* first one is joined to the end of a line that has been cut.             *)
Torn       == xfer # <<>> /\ xfer[Len(xfer)].op = "cut"
Written(n) == [i \in 1..n |-> IF i = 1 /\ Torn THEN JunkLine ELSE buffer[i]]

(* The files with a line that is not among them.                           *)
NotWritten(n) == {buffer[i].to[3] : i \in {j \in 1..Len(buffer) : j > n \/ (j = 1 /\ Torn)}}

(* A parser that ends writes what it has left (fclose).                    *)
AllWritten == xfer \o Written(Len(buffer))

(* One that dies has written some of it, the last line perhaps in part.    *)
BufferLost ==
    /\ \E n \in 0..Len(buffer), end \in {<<>>, <<CutLine>>} :
          /\ buffer = <<>> => end = <<>>
          /\ xfer' = xfer \o Written(n) \o end
          /\ dropped' = dropped \union NotWritten(n)
    /\ buffer' = <<>>

(* The parser dies; its last symbol may lack the second line.  (put_file   *)
(* flushes the pipe before each file: what the pipe loses is the end of    *)
(* this file, as if the parser had died at an earlier item.)  The user     *)
(* continues with the files that are left ...                              *)
ParserCrashes ==
    /\ stage # "none" \/ buffer # <<>>
    /\ stage' = "none" /\ reading' = NoFile /\ rest' = <<>>
    /\ lost' = lost \union (File \intersect {reading})
    /\ BufferLost
    /\ \/ UNCHANGED <<queue, cut>>
       \/ /\ stage # "none"
          /\ rest # <<>> /\ Head(rest).item = "decl" /\ Accepted(Head(rest))
          /\ queue' = Append(queue, SymLine(SymKey(reading, Head(rest))))
          /\ cut' = cut \union {reading}
    /\ UNCHANGED <<source, mtime, tables, disk, phase, batch, todo, lck, damaged, last, raced>>

(* ... or stops (ProcessingCancelled stays set): no cross references.      *)
StopParse ==
    /\ phase = "parse" /\ stage = "none" /\ todo # {}
    /\ todo' = {}
    /\ xfer' = <<Head(xfer)>> /\ buffer' = <<>>
    /\ UNCHANGED <<source, mtime, tables, disk, phase, batch, parser, queue, lck, history>>

(* sn_load_files hands the files to one parser and dbimp after the other:   *)
(* the next pair starts when the tables are closed.                        *)
NextPart ==
    /\ phase = "parse" /\ stage = "none" /\ queue = <<>>
    /\ disk # Saved \/ buffer # <<>>
    /\ disk' = Saved
    /\ xfer' = AllWritten /\ buffer' = <<>>
    /\ dropped' = dropped \union NotWritten(Len(buffer))
    /\ UNCHANGED <<source, mtime, tables, phase, batch, todo, parser, queue, lck, damaged, last, lost, cut, raced>>

-----------------------------------------------------------------------------
(* The loop of dbimp: one line.                                            *)
Reads(op) == queue # <<>> /\ Head(queue).op = op /\ queue' = Tail(queue)

(* A mistake: a .fil record whose symbol is not found is skipped.          *)
RemoveFound(f) ==
    LET dead == {r \in fil : r.file = f /\ DelKey(r) \in syms}
    IN  /\ fil' = fil \ dead
        /\ syms' = syms \ {DelKey(r) : r \in dead}

(* db_remove_file_def *)
RemoveFileDef(f) ==
    LET dead == {r \in fil : r.file = f}
    IN  /\ fil' = fil \ dead
        /\ syms' = syms \ {DelKey(r) : r \in dead}

(* A mistake: the result of put_file_db is misread.                        *)
ReadFileLineInverted ==
    /\ Reads("file")
    /\ LET f == Head(queue).file
       IN  /\ files' = [files EXCEPT ![f] = mtime[f]]
           /\ IF files[f] # NoTime THEN UNCHANGED <<fil, syms>> ELSE RemoveFileDef(f)
    /\ UNCHANGED <<source, mtime, to, by, disk, phase, batch, todo, parser, xfer, buffer, lck, history>>

(* put_file_db takes the time of the file now; a file that was in the      *)
(* table before loses its records.                                         *)
ReadFileLine ==
    /\ Reads("file")
    /\ LET f == Head(queue).file
       IN  /\ files' = [files EXCEPT ![f] = mtime[f]]
           /\ IF files[f] = NoTime THEN UNCHANGED <<fil, syms>> ELSE RemoveFileDef(f)
    /\ UNCHANGED <<source, mtime, to, by, disk, phase, batch, todo, parser, xfer, buffer, lck, history>>

ReadDelFileLine ==
    /\ Reads("delfile")
    /\ RemoveFileDef(Head(queue).file)
    /\ UNCHANGED <<source, mtime, files, to, by, disk, phase, batch, todo, parser, xfer, buffer, lck, history>>

(* db_insert_entry *)
ReadSymLine ==
    /\ Reads("sym")
    /\ syms' = syms \union {Head(queue).sym}
    /\ UNCHANGED <<source, mtime, files, fil, to, by, disk, phase, batch, todo, parser, xfer, buffer, lck, history>>

ReadFilLine ==
    /\ Reads("fil")
    /\ fil' = fil \union {Head(queue).fil}
    /\ UNCHANGED <<source, mtime, files, syms, to, by, disk, phase, batch, todo, parser, xfer, buffer, lck, history>>

ReadXrefLine ==
    /\ Reads("xref")
    /\ LET t == Head(queue).to
       IN  /\ to' = to \union {t}
           /\ by' = IF IsLocal(t) THEN by ELSE by \union {Reverse(t)}
    /\ UNCHANGED <<source, mtime, files, fil, syms, disk, phase, batch, todo, parser, xfer, buffer, lck, history>>

(* A mistake: the records in .by are left.                                 *)
ReadDelXrefLineToOnly ==
    /\ Reads("delxref")
    /\ to' = to \ MadeBy(to, Head(queue).list)
    /\ UNCHANGED <<source, mtime, files, fil, syms, by, disk, phase, batch, todo, parser, xfer, buffer, lck, history>>

(* db_remove_file_xfer_using_keys *)
ReadDelXrefLine ==
    /\ Reads("delxref")
    /\ LET dead == MadeBy(to, Head(queue).list)
       IN  to' = to \ dead /\ by' = by \ ByOf(dead)
    /\ UNCHANGED <<source, mtime, files, fil, syms, disk, phase, batch, todo, parser, xfer, buffer, lck, history>>

(* A line that has been cut, or joined to one.                             *)
ReadBadLine ==
    /\ Reads("cut") \/ Reads("junk")
    /\ UNCHANGED <<source, mtime, tables, disk, phase, batch, todo, parser, xfer, buffer, lck, history>>

DbimpReads == \/ ReadFileLine \/ ReadDelFileLine \/ ReadSymLine \/ ReadFilLine
              \/ ReadXrefLine \/ ReadDelXrefLine \/ ReadBadLine

-----------------------------------------------------------------------------
(* A mistake: the end of the parser is not waited for.                     *)
EndParseEarly ==
    /\ phase = "parse" /\ todo = {} /\ queue = <<>>
    /\ disk' = Saved /\ xfer' = <<>> /\ buffer' = <<>>
    /\ phase' = "xref" /\ queue' = xfer
    /\ UNCHANGED <<source, mtime, tables, batch, todo, parser, lck, history>>

(* A mistake: the delete list is made when the symbols have been replaced. *)
EndParseLate ==
    /\ phase = "parse" /\ todo = {} /\ stage = "none" /\ queue = <<>>
    /\ disk' = Saved /\ xfer' = <<>> /\ buffer' = <<>>
    /\ phase' = "xref"
    /\ queue' = <<DelXrefLine({r \in fil : r.file \in batch})>> \o Tail(AllWritten)
    /\ UNCHANGED <<source, mtime, tables, batch, todo, parser, lck, history>>

(* All files are parsed and dbimp has closed the tables.  An xfer file     *)
(* that holds its first line only is deleted, another one is loaded        *)
(* (sn_load_xref).                                                         *)
EndParse ==
    /\ phase = "parse" /\ todo = {} /\ stage = "none" /\ queue = <<>>
    /\ disk' = Saved
    /\ xfer' = <<>> /\ buffer' = <<>>
    /\ dropped' = dropped \union NotWritten(Len(buffer))
    /\ IF Len(AllWritten) = 1
       THEN phase' = "idle" /\ batch' = {} /\ queue' = <<>> /\ lost' = lost \union batch
       ELSE phase' = "xref" /\ queue' = AllWritten /\ UNCHANGED <<batch, lost>>
    /\ UNCHANGED <<source, mtime, tables, todo, parser, lck, damaged, last, cut, raced>>

(* load_xref_pipe at the end of the second dbimp, wait_xref_end of an      *)
(* unload.                                                                 *)
EndImport ==
    /\ phase \in {"xref", "unload"} /\ queue = <<>>
    /\ disk' = Saved
    /\ phase' = "idle" /\ batch' = {}
    /\ UNCHANGED <<source, mtime, tables, todo, parser, queue, xfer, buffer, lck, history>>

(* xref_cancel: .to and .by are deleted, and so is the lock file;          *)
(* sn_stop_process (the project is closed) leaves the lock file.           *)
CancelXref ==
    /\ phase = "xref"
    /\ to' = {} /\ by' = {}
    /\ lck' \in {lck, TRUE}
    /\ disk' = [Saved EXCEPT !.to = {}, !.by = {}]
    /\ queue' = <<>> /\ phase' = "idle" /\ batch' = {}
    /\ last' = [f \in File |-> [last[f] EXCEPT !.refs = {}]]
    /\ dropped' = {}
    /\ UNCHANGED <<source, mtime, files, fil, syms, todo, parser, xfer, buffer, damaged, lost, cut, raced>>

(* sn_load_hide_unload_files: the files leave .f at once, the rest is left *)
(* to a dbimp without a lock (and is not stopped by one).                  *)
BeginUnload ==
    /\ phase = "idle"
    /\ \E f \in File :
          /\ files[f] # NoTime
          /\ batch' = {f}
          /\ files' = [files EXCEPT ![f] = NoTime]
          /\ queue' = <<DelFileLine(f), DelXrefLine({r \in fil : r.file = f})>>
          /\ last' = [last EXCEPT ![f] = Nothing]
          /\ dropped' = dropped \ {f}
    /\ disk' = [Saved EXCEPT !.files = files']
    /\ phase' = "unload"
    /\ UNCHANGED <<source, mtime, fil, syms, to, by, todo, parser, xfer, buffer, lck, damaged, lost, cut, raced>>

(* dbimp dies (the user cancels the parsing, a signal, a full disk), and   *)
(* the parser with it, whose pipe is broken: each                          *)
(* table is as it was or as it is now, and what the pipe held is gone.     *)
DbimpDies ==
    /\ files' \in {disk.files, files} /\ fil' \in {disk.fil, fil}
    /\ syms' \in {disk.syms, syms}
    /\ to' \in {disk.to, to} /\ by' \in {disk.by, by}
    /\ disk' = [files |-> files', fil |-> fil', syms |-> syms', to |-> to', by |-> by']
    /\ reading' = NoFile /\ stage' = "none" /\ rest' = <<>>
    /\ queue' = <<>>
    /\ UNCHANGED <<source, mtime, last, lost, cut, raced>>

(* The work ends here.  The parsing dbimp leaves its lock file;            *)
(* load_xref_pipe deletes that of the second dbimp; an unloading one has   *)
(* none.                                                                   *)
DbimpDiesAndEnds ==
    /\ phase # "idle"
    /\ DbimpDies
    /\ lck' = (lck \/ phase = "parse")
    /\ damaged' = (damaged \/ phase # "parse")
    /\ phase' = "idle" /\ batch' = {} /\ todo' = {}
    /\ xfer' = <<>> /\ buffer' = <<>> /\ UNCHANGED dropped

(* The user continues with other files, as after a crash of the parser     *)
(* (sn_handle_parse_error, sn_ask_continue_other_types).  The next dbimp   *)
(* does not recognise the lock file that was left and removes it           *)
(* (read_lock_file, see DbLock).                                           *)
DbimpDiesAndGoesOn ==
    /\ phase = "parse"
    /\ DbimpDies
    /\ BufferLost
    /\ todo' \in SUBSET todo
    /\ todo' # {} \/ Len(xfer') > 1
    /\ damaged' = TRUE
    /\ UNCHANGED <<phase, batch, lck>>

(* sn_db_delete_files: every file is parsed anew by the next update.       *)
Reparse ==
    /\ phase = "idle"
    /\ files' = [f \in File |-> NoTime]
    /\ fil' = {} /\ syms' = {} /\ to' = {} /\ by' = {}
    /\ lck' = FALSE /\ damaged' = FALSE
    /\ last' = [f \in File |-> Nothing] /\ lost' = {}
    /\ dropped' = {} /\ cut' = {} /\ raced' = {}
    /\ disk' = [files |-> files', fil |-> {}, syms |-> {}, to |-> {}, by |-> {}]
    /\ UNCHANGED <<source, mtime, phase, batch, todo, parser, queue, xfer, buffer>>

-----------------------------------------------------------------------------
Parse == \/ \E f \in File : ParserOpens(f) \/ ParserSkips(f)
         \/ ParserReads \/ PutSymbol \/ PutCrossRef \/ ParserCloses
         \/ ParserCrashes \/ StopParse \/ NextPart

Session == BeginUpdate \/ EndParse \/ EndImport \/ CancelXref \/ BeginUnload \/ Reparse

Next == (\E f \in File : Save(f)) \/ Parse \/ DbimpReads \/ Session
        \/ DbimpDiesAndEnds \/ DbimpDiesAndGoesOn

Spec == Init /\ [][Next]_vars

-----------------------------------------------------------------------------
Tables == [files : [File -> {NoTime} \union (0..MaxTime)], fil : SUBSET FilKeys,
           syms : SUBSET SymKeys, to : SUBSET ToKeys, by : SUBSET ByKeys]

TypeOK ==
    /\ source \in [File -> Content] /\ mtime \in [File -> 0..MaxTime]
    /\ Saved \in Tables /\ disk \in Tables
    /\ phase \in {"idle", "parse", "xref", "unload"}
    /\ batch \in SUBSET File /\ todo \in SUBSET batch
    /\ reading \in File \union {NoFile}
    /\ stage \in {"none", "opened", "scanning"}
    /\ stage # "none" => phase = "parse" /\ reading \in batch
    /\ rest \in Seq(Decl \union Ref)
    /\ queue \in Seq(Line) /\ xfer \in Seq(Line) /\ buffer \in Seq(XrefLines)
    /\ IF phase = "parse" THEN xfer # <<>> ELSE todo = {}
    /\ lck \in BOOLEAN /\ damaged \in BOOLEAN
    /\ last \in [File -> [fil : SUBSET FilKeys, refs : SUBSET ToKeys, whole : BOOLEAN]]
    /\ lost \in SUBSET File /\ dropped \in SUBSET File /\ cut \in SUBSET File /\ raced \in SUBSET File

Sound == ~lck /\ ~damaged
Settled == phase = "idle" /\ Sound

(* db_insert_entry and db_remove_file_xfer_using_keys keep .by the exact   *)
(* reverse of .to without the references to local variables, after every   *)
(* line, as long as no dbimp has died.                                     *)
MirrorBy == Sound => by = ByOf(to)

(* db_remove_file_def finds a symbol only through its .fil record: every   *)
(* symbol has one, but for the local variables without a class (which the  *)
(* code knows it cannot delete) and those a parser died over.              *)
Undeletable(k) == k.table = "lv" /\ k.scope = None
EverySymbolListed ==
    Settled => \A k \in syms : Undeletable(k) \/ k.file \in cut
                               \/ \E r \in fil : DelKey(r) = k

(* After an update the .fil records of a file are those of its last parse, *)
(* whole or cut short: records of two parses are never mixed, whatever is  *)
(* saved, skipped, stopped or unloaded meanwhile.                          *)
RecordsOfLastParse ==
    Settled => \A f \in File : {r \in fil : r.file = f} = last[f].fil

(* The same for the cross references, which are replaced in the second     *)
(* phase and by way of the delete list made before the first: none of an   *)
(* earlier parse is left, and none is missing but of the files of which    *)
(* a parser that died had lines in its memory.                             *)
XrefsOfLastParse ==
    Settled => \A f \in File \ lost :
                  LET stored == {t \in to : t[3] = f}
                  IN  stored \subseteq last[f].refs /\ (f \notin dropped => stored = last[f].refs)

(* A running import touches the records of the files it is run for only.   *)
OthersUntouched ==
    [][DbimpReads => \A f \in File \ batch :
          /\ {r \in fil' : r.file = f} = {r \in fil : r.file = f}
          /\ {k \in syms' : k.file = f} = {k \in syms : k.file = f}
          /\ {t \in to' : t[3] = f} = {t \in to : t[3] = f}]_vars

(* A file whose recorded time is its own has the symbols it now contains,  *)
(* and the others are parsed by the next update: an edit is lost only if   *)
(* it comes after the parser has read the file and before dbimp takes its  *)
(* time.                                                                   *)
Listed(f, c) == {FilKey(f, d) : d \in {c[i] : i \in {j \in 1..Len(c) :
                   c[j].item = "decl" /\ Accepted(c[j])}}}
Parsed(f) == last[f].whole /\ files[f] = mtime[f]
Current(f) == {r \in fil : r.file = f} = Listed(f, source[f])
UpToDate == Settled => \A f \in File \ raced : Parsed(f) => Current(f)

(* What a content has to be for XrefsOfLastParse: the body of a reference  *)
(* is that of a symbol the parser puts out of the same file, or the keys   *)
(* in the delete list do not reach it.                                     *)
MadeIn(f, c)  == {<<c[i].caller, c[i].target, f>> : i \in {j \in 1..Len(c) : c[j].item = "ref"}}
Covers(L, t)  == \E r \in L : r.kind \in BodyKinds /\ t[1] = EndOf(r)
CallersListed == \A f \in File, c \in Content : \A t \in MadeIn(f, c) : Covers(Listed(f, c), t)

(* The database as an index of its files: an import touches the files it   *)
(* is run for, and ends with the symbols of one content of each, from the  *)
(* first one on, whatever is saved meanwhile.                              *)
Outcomes == [f \in File |-> UNION {{Listed(f, SubSeq(c, 1, n)) : n \in 0..Len(c)} : c \in Content}]
Index    == INSTANCE SourceIndex WITH
                Source  <- File, Entry <- FilKeys, Results <- Outcomes,
                entries <- [f \in File |-> {r \in fil : r.file = f}],
                working <- batch, sound <- Sound
IsIndex  == Index!Spec

-----------------------------------------------------------------------------
(* "keys for deleting xref records from the .to and .by tables"            *)
(* (sn_make_delfilelist): a file that has been parsed to its end leaves no *)
(* reference behind that it does not contain any more.                     *)
Contains(f, t) == \E i \in 1..Len(source[f]) :
                     /\ source[f][i].item = "ref"
                     /\ <<source[f][i].caller, source[f][i].target, f>> = t
NoStaleXref ==
    Settled => \A t \in to : t[3] \notin raced /\ Parsed(t[3]) => Contains(t[3], t)

(* What is left of it: only the files whose references an update gave up   *)
(* (it was stopped, the parser died over the file, or no file of the       *)
(* update had a reference) keep references they do not contain any more.   *)
OnlyLostGoStale ==
    Settled => \A t \in to : t[3] \notin raced \union lost /\ Parsed(t[3]) => Contains(t[3], t)
=============================================================================
