------------------------------ MODULE GrepPane ------------------------------
(***************************************************************************)
(* "Find in Files": the grep panes (gui/greppane.tcl) and the search       *)
(* engine written in Tcl behind each of them (gui/tclgrepdriver.tcl).       *)
(*                                                                         *)
(* hyper has one thread.  A search is a chain of callbacks, one for each   *)
(* file and one for each read; StartGrep waits for its end in the event    *)
(* loop (update, vwait), where other callbacks and the user's clicks are   *)
(* served.  One of them may be another StartGrep, which then waits on top  *)
(* of the first: only the topmost StartGrep can go on.                     *)
(*                                                                         *)
(* A result line is a hit; only the number of hits in a file matters.      *)
(***************************************************************************)
EXTENDS Integers, Sequences, FiniteSets

CONSTANTS
    Pane,       \* the grep panes
    File,       \* the files of the project
    Lists,      \* the lists of files a search may be asked for
    Wide,       \* the files with characters of more than one byte
    Hits,       \* Hits[f]: the number of matching lines in f
    MaxMatches, \* the limit of lines of a search
    MaxDepth,   \* bound: StartGreps that wait for each other
    MaxAsked,   \* bound: StartGreps of a pane that are put off
    MaxStale,   \* bound: hits that cancelled searches left in the buffer
    NoFile      \* no file

ASSUME ListsAssumption ==
    Lists \subseteq {l \in Seq(File) : l # <<>> /\ \A i, j \in 1..Len(l) : i # j => l[i] # l[j]}
ASSUME NumbersAssumption ==
    Hits \in [File -> Nat] /\ {MaxMatches, MaxDepth, MaxAsked, MaxStale} \subseteq Nat
ASSUME NoFileAssumption == NoFile \notin File

VARIABLES
    disk,       \* disk[f]: "there", "unreadable" or "missing"
    stack,      \* the StartGreps that run, the topmost last
    proceed,    \* Proceed: searching, the Search button is disabled
    asked,      \* StartGreps that wait for an idle moment
    activePattern, \* "bad" if, put into the filter, it does not compile
    fileList, fileListIndex,
    nextIndexId,\* a call of processNextIndex is scheduled
    fd,         \* the file that is open for reading, or NoFile
    fresh,      \* nothing has been read from it
    buffer,     \* currentFileBuffer: the hits in it, or -1 when it is unset
    running,    \* grep_running
    canceled, truncated, inserted,
    text,       \* the results: what has been written for each file
    disturbed   \* (history) panes in which a StartGrep began over another

driver == <<activePattern, fileList, fileListIndex, nextIndexId, fd, fresh, buffer,
            running, canceled, truncated, inserted>>
vars   == <<disk, stack, proceed, asked, driver, text, disturbed>>

Lines(f, own, foreign) == [what |-> "lines", file |-> f, own |-> own, foreign |-> foreign]
Missing(f) == [what |-> "missing", file |-> f, own |-> 0, foreign |-> 0]
Mark(m)    == [what |-> m, file |-> NoFile, own |-> 0, foreign |-> 0]

Init ==
    /\ disk \in [File -> {"there", "unreadable", "missing"}]
    /\ stack = <<>>
    /\ proceed = [p \in Pane |-> FALSE] /\ asked = [p \in Pane |-> 0]
    /\ activePattern = [p \in Pane |-> "good"]
    /\ fileList = [p \in Pane |-> <<>>] /\ fileListIndex = [p \in Pane |-> 0]
    /\ nextIndexId = [p \in Pane |-> FALSE]
    /\ fd = [p \in Pane |-> NoFile] /\ fresh = [p \in Pane |-> FALSE]
    /\ buffer = [p \in Pane |-> -1]
    /\ running = [p \in Pane |-> FALSE] /\ canceled = [p \in Pane |-> FALSE]
    /\ truncated = [p \in Pane |-> FALSE] /\ inserted = [p \in Pane |-> 0]
    /\ text = [p \in Pane |-> <<>>]
    /\ disturbed = {}

-----------------------------------------------------------------------------
(* The stack of StartGreps.                                                *)
Frame(p, at)   == [pane |-> p, at |-> at, woken |-> FALSE]
Top            == stack[Len(stack)]
TopIs(p, at)   == stack # <<>> /\ Top.pane = p /\ Top.at = at
Pop            == SubSeq(stack, 1, Len(stack) - 1)
Goto(s, at)    == [s EXCEPT ![Len(s)] = Frame(@.pane, at)]
FramesOf(p)    == {i \in 1..Len(stack) : stack[i].pane = p}

(* A vwait ends when its variable is written, with whatever value.         *)
Woken(p) == [i \in 1..Len(stack) |->
                [pane |-> stack[i].pane, at |-> stack[i].at,
                 woken |-> stack[i].woken \/ (stack[i].pane = p /\ stack[i].at = "wait")]]

(* update serves all events until there is none; update idletasks leaves   *)
(* the files alone.                                                        *)
NoIdleCalls == \A p \in Pane : ~nextIndexId[p] /\ asked[p] = 0
NoCalls     == NoIdleCalls /\ \A p \in Pane : fd[p] = NoFile
ServesFiles == stack # <<>> => Top.at \in {"update", "wait"}

-----------------------------------------------------------------------------
(* A mistake: the buttons stay disabled.                                   *)
EnterSearchQuietly(p) ==
    /\ \/ UNCHANGED <<stack, proceed>>
       \/ /\ Len(stack) < MaxDepth
          /\ stack' = Append(stack, Frame(p, "busy"))
          /\ UNCHANGED proceed
    /\ disturbed' = IF FramesOf(p) # {} THEN disturbed \union {p} ELSE disturbed

(* StartGrep with the buttons disabled: a bad pattern, or no file matches  *)
(* the filter; or a search.                                                *)
EnterSearch(p) ==
    /\ \/ /\ proceed' = [proceed EXCEPT ![p] = FALSE]
          /\ UNCHANGED stack
       \/ /\ Len(stack) < MaxDepth
          /\ stack' = Append(stack, Frame(p, "busy"))
          /\ UNCHANGED proceed
    /\ disturbed' = IF FramesOf(p) # {} THEN disturbed \union {p} ELSE disturbed

(* A mistake: the buttons are not disabled first.                          *)
AskSearchAtOnce(p) == EnterSearch(p) /\ UNCHANGED <<disk, driver, text, asked>>

(* The Search button, or Search > Grep in the menu of the window, which    *)
(* calls StartGrep at any time.                                            *)
AskSearch(p) ==
    /\ IF proceed[p]
       THEN EnterSearch(p) /\ UNCHANGED asked
       ELSE /\ proceed' = [proceed EXCEPT ![p] = TRUE]
            /\ asked' = [asked EXCEPT ![p] = @ + 1]
            /\ asked[p] < MaxAsked
            /\ UNCHANGED <<stack, disturbed>>
    /\ UNCHANGED <<disk, driver, text>>

(* The StartGrep that was put off.                                         *)
RunAsked(p) ==
    /\ asked[p] > 0
    /\ IF proceed[p]
       THEN EnterSearch(p) /\ asked' = [asked EXCEPT ![p] = @ - 1]
       ELSE /\ proceed' = [proceed EXCEPT ![p] = TRUE]
            /\ UNCHANGED <<asked, stack, disturbed>>
    /\ UNCHANGED <<disk, driver, text>>

(* tixBusy and update idletasks, then the results are deleted.             *)
ClearResults(p) ==
    /\ TopIs(p, "busy") /\ NoIdleCalls
    /\ stack' = Goto(stack, "update")
    /\ text' = [text EXCEPT ![p] = <<>>]
    /\ UNCHANGED <<disk, proceed, asked, driver, disturbed>>

(* driver start, after an update.  Only the pattern itself has been tried, *)
(* not what has come of it with the filter.  Results in the widget are an  *)
(* error, which ends StartGrep.                                            *)
Start(p) ==
    /\ TopIs(p, "update") /\ NoCalls /\ text[p] = <<>>
    /\ \E a \in {"good", "bad"} : activePattern' = [activePattern EXCEPT ![p] = a]
    /\ \E l \in Lists : fileList' = [fileList EXCEPT ![p] = l]
    /\ fileListIndex' = [fileListIndex EXCEPT ![p] = 0]
    /\ nextIndexId' = [nextIndexId EXCEPT ![p] = TRUE]
    /\ canceled' = [canceled EXCEPT ![p] = FALSE]
    /\ truncated' = [truncated EXCEPT ![p] = FALSE]
    /\ inserted' = [inserted EXCEPT ![p] = 0]
    /\ running' = [running EXCEPT ![p] = TRUE]
    /\ stack' = Goto(Woken(p), "wait")
    /\ UNCHANGED <<disk, proceed, asked, fd, fresh, buffer, text, disturbed>>

Disturbed(q) == IF \E i \in 1..Len(q) : q[i].pane = Top.pane
                THEN disturbed ELSE disturbed \ {Top.pane}

StartFails(p) ==
    /\ TopIs(p, "update") /\ NoCalls /\ text[p] # <<>>
    /\ stack' = Pop
    /\ disturbed' = Disturbed(Pop)
    /\ UNCHANGED <<disk, proceed, asked, driver, text>>

StartReturns(p) ==
    /\ TopIs(p, "wait") /\ Top.woken
    /\ stack' = Goto(stack, "finish")
    /\ UNCHANGED <<disk, proceed, asked, driver, text, disturbed>>

(* finish_grep: update idletasks, finish of the driver, the buttons.       *)
FinishGrep(p) ==
    /\ TopIs(p, "finish") /\ NoIdleCalls
    /\ text' = [text EXCEPT ![p] =
                   IF canceled[p] THEN Append(@, Mark("canceled"))
                   ELSE IF truncated[p] THEN Append(@, Mark("truncated")) ELSE @]
    /\ proceed' = [proceed EXCEPT ![p] = FALSE]
    /\ stack' = Pop
    /\ disturbed' = Disturbed(Pop)
    /\ UNCHANGED <<disk, asked, driver>>

-----------------------------------------------------------------------------
(* A mistake: the scheduled call is not cancelled.                         *)
CancelButNextIndex(p) ==
    /\ proceed[p]
    /\ buffer[p] <= MaxStale
    /\ canceled' = [canceled EXCEPT ![p] = TRUE]
    /\ fd' = [fd EXCEPT ![p] = NoFile]
    /\ running' = [running EXCEPT ![p] = FALSE]
    /\ stack' = Woken(p)
    /\ UNCHANGED <<disk, proceed, asked, activePattern, fileList, fileListIndex, nextIndexId,
                   fresh, buffer, truncated, inserted, text, disturbed>>

(* The Cancel button, which is enabled while Proceed is set.  A file that  *)
(* is half read leaves the buffer as it is.                                *)
Cancel(p) ==
    /\ proceed[p]
    /\ buffer[p] <= MaxStale
    /\ canceled' = [canceled EXCEPT ![p] = TRUE]
    /\ nextIndexId' = [nextIndexId EXCEPT ![p] = FALSE]
    /\ fd' = [fd EXCEPT ![p] = NoFile]
    /\ running' = [running EXCEPT ![p] = FALSE]
    /\ stack' = Woken(p)
    /\ UNCHANGED <<disk, proceed, asked, activePattern, fileList, fileListIndex, fresh, buffer,
                   truncated, inserted, text, disturbed>>

Lindex(l, i) == IF i < Len(l) THEN l[i + 1] ELSE NoFile

(* Two mistakes: one file too many, and one too few.                       *)
MoreFilesToLen(p, i) == i <= Len(fileList[p])
MoreFilesButOne(p, i) == i + 1 < Len(fileList[p])

MoreFiles(p, i) == i < Len(fileList[p])

(* processNextIndex: the next file; an error of open ends the chain.       *)
ProcessNextIndex(p) ==
    /\ nextIndexId[p]
    /\ LET f == Lindex(fileList[p], fileListIndex[p])
           exists == f # NoFile /\ disk[f] # "missing"
           opened == exists /\ disk[f] # "unreadable"
       IN  /\ fileListIndex' = [fileListIndex EXCEPT ![p] = @ + 1]
           /\ text' = IF exists THEN text ELSE [text EXCEPT ![p] = Append(@, Missing(f))]
           /\ nextIndexId' = [nextIndexId EXCEPT ![p] =
                                 ~exists /\ MoreFiles(p, fileListIndex[p] + 1)]
           /\ fd' = IF opened THEN [fd EXCEPT ![p] = f] ELSE fd
           /\ fresh' = IF opened THEN [fresh EXCEPT ![p] = TRUE] ELSE fresh
    /\ UNCHANGED <<disk, stack, proceed, asked, activePattern, fileList, buffer, running,
                   canceled, truncated, inserted, disturbed>>

(* A mistake: a read replaces what was read before.                        *)
FilledAnew(p) == IF fresh[p] THEN Hits[fd[p]] ELSE 0

(* What the buffer holds after a read: it is appended to.                  *)
Filled(p) == IF fresh[p] THEN (IF buffer[p] = -1 THEN 0 ELSE buffer[p]) + Hits[fd[p]]
             ELSE buffer[p]

(* As many characters as the file has bytes, or its end.  A buffer that an *)
(* earlier search has left is too long from the start.                     *)
AllRead(p) == ~fresh[p] \/ (fd[p] \notin Wide /\ buffer[p] = -1)

(* inputReadyCallback that has to be called again.                         *)
ReadPart(p) ==
    /\ ServesFiles /\ fd[p] # NoFile /\ ~AllRead(p)
    /\ buffer' = [buffer EXCEPT ![p] = Filled(p)]
    /\ fresh' = [fresh EXCEPT ![p] = FALSE]
    /\ UNCHANGED <<disk, stack, proceed, asked, activePattern, fileList, fileListIndex,
                   nextIndexId, fd, running, canceled, truncated, inserted, text, disturbed>>

Smaller(a, b) == IF a < b THEN a ELSE b

(* The file is closed, but the pattern does not compile: the error of      *)
(* line_grep ends the chain, and leaves the buffer.                        *)
GrepFails(p) ==
    /\ ServesFiles /\ fd[p] # NoFile /\ AllRead(p) /\ activePattern[p] = "bad"
    /\ fd' = [fd EXCEPT ![p] = NoFile]
    /\ buffer' = [buffer EXCEPT ![p] = Filled(p)]
    /\ fresh' = [fresh EXCEPT ![p] = FALSE]
    /\ UNCHANGED <<disk, stack, proceed, asked, activePattern, fileList, fileListIndex,
                   nextIndexId, running, canceled, truncated, inserted, text, disturbed>>

(* inputReadyCallback and doneReadingData: the lines are shown under the   *)
(* name of the current file, those left over come first.                   *)
ReadAll(p) ==
    /\ ServesFiles /\ fd[p] # NoFile /\ AllRead(p) /\ activePattern[p] # "bad"
    /\ LET f       == fd[p]
           room    == MaxMatches - inserted[p]
           shown   == Smaller(Filled(p), room)
           foreign == Smaller(Filled(p) - Hits[f], shown)
           full    == Filled(p) > room
           goesOn  == ~full /\ MoreFiles(p, fileListIndex[p])
       IN  /\ text' = IF shown = 0 THEN text
                      ELSE [text EXCEPT ![p] = Append(@, Lines(f, shown - foreign, foreign))]
           /\ inserted' = [inserted EXCEPT ![p] = @ + shown]
           /\ truncated' = [truncated EXCEPT ![p] = @ \/ full]
           /\ fileListIndex' = IF full THEN [fileListIndex EXCEPT ![p] = Len(fileList[p])]
                               ELSE fileListIndex
           /\ nextIndexId' = [nextIndexId EXCEPT ![p] = goesOn]
           /\ running' = [running EXCEPT ![p] = @ /\ goesOn]
           /\ stack' = IF goesOn THEN stack ELSE Woken(p)
    /\ fd' = [fd EXCEPT ![p] = NoFile]
    /\ buffer' = [buffer EXCEPT ![p] = -1]
    /\ fresh' = [fresh EXCEPT ![p] = FALSE]
    /\ UNCHANGED <<disk, proceed, asked, activePattern, fileList, canceled, disturbed>>

(* Somebody deletes a file.                                                *)
Vanish(f) ==
    /\ disk[f] = "there"
    /\ disk' = [disk EXCEPT ![f] = "missing"]
    /\ UNCHANGED <<stack, proceed, asked, driver, text, disturbed>>

-----------------------------------------------------------------------------
StartGrep(p) == \/ RunAsked(p) \/ ClearResults(p) \/ Start(p) \/ StartFails(p)
                \/ StartReturns(p) \/ FinishGrep(p)
Search(p)    == ProcessNextIndex(p) \/ ReadPart(p) \/ GrepFails(p) \/ ReadAll(p)
User(p)      == AskSearch(p) \/ Cancel(p)

Next == (\E p \in Pane : StartGrep(p) \/ Search(p) \/ User(p)) \/ \E f \in File : Vanish(f)

Spec == Init /\ [][Next]_vars

(* The event loop serves every event some time, and a StartGrep goes on    *)
(* when its turn has come.  The user asks for as many searches as he likes *)
(* but pauses now and then, so that the idle calls are served and an       *)
(* update comes to its end.                                                *)
FairSpec  == Spec /\ \A p \in Pane : /\ WF_vars(RunAsked(p)) /\ WF_vars(StartReturns(p))
                                     /\ WF_vars(Search(p))
                                     /\ SF_vars(proceed[p] /\ RunAsked(p))
                                     /\ SF_vars(ClearResults(p) \/ FinishGrep(p))
                                     /\ SF_vars(Start(p) \/ StartFails(p))

-----------------------------------------------------------------------------
Part == [what : {"lines", "missing", "canceled", "truncated"}, file : File \union {NoFile},
         own : 0..MaxMatches, foreign : 0..MaxMatches]

TypeOK ==
    /\ disk \in [File -> {"there", "unreadable", "missing"}]
    /\ stack \in Seq([pane : Pane, at : {"busy", "update", "wait", "finish"}, woken : BOOLEAN])
    /\ proceed \in [Pane -> BOOLEAN] /\ asked \in [Pane -> Nat]
    /\ activePattern \in [Pane -> {"good", "bad"}]
    /\ fileList \in [Pane -> Lists \union {<<>>}] /\ fileListIndex \in [Pane -> Nat]
    /\ \A p \in Pane : fileListIndex[p] <= Len(fileList[p])
    /\ nextIndexId \in [Pane -> BOOLEAN]
    /\ fd \in [Pane -> File \union {NoFile}] /\ fresh \in [Pane -> BOOLEAN]
    /\ buffer \in [Pane -> Nat \union {-1}]
    /\ running \in [Pane -> BOOLEAN] /\ canceled \in [Pane -> BOOLEAN]
    /\ truncated \in [Pane -> BOOLEAN] /\ inserted \in [Pane -> 0..MaxMatches]
    /\ text \in [Pane -> Seq(Part)]
    /\ disturbed \in SUBSET Pane

Elements(s) == {s[i] : i \in DOMAIN s}

(* A callback of a search never runs when the search has ended, and a      *)
(* running search has a StartGrep that waits for it in vwait.              *)
SearchHasWaiter ==
    \A p \in Pane :
        /\ nextIndexId[p] \/ fd[p] # NoFile => running[p]
        /\ running[p] => \E i \in FramesOf(p) : stack[i].at = "wait" /\ ~stack[i].woken

(* The buttons are not left disabled: while Proceed is set a StartGrep     *)
(* runs, or one will.                                                      *)
ButtonsComeBack ==
    \A p \in Pane : proceed[p] => asked[p] > 0 \/ FramesOf(p) # {}

(* A search can be cancelled while it runs, unless StartGrep has been      *)
(* called over it, which may enable the buttons and returns.               *)
CanBeCanceled ==
    \A p \in Pane : running[p] => proceed[p] \/ p \in disturbed

(* The results of a search that was neither cancelled nor truncated, and   *)
(* which no other StartGrep disturbed, show all hits of every file of its  *)
(* list, or that the file is missing.                                      *)
ShowsAll(p) ==
    \A f \in Elements(fileList[p]) :
        \/ Hits[f] = 0
        \/ \E t \in Elements(text[p]) : t.file = f /\ (t.own = Hits[f] \/ t.what = "missing")
ResultsAreComplete ==
    \A p \in Pane : TopIs(p, "finish") =>
        canceled[p] \/ truncated[p] \/ p \in disturbed \/ ShowsAll(p)

(* The chain of callbacks has broken off: the last file is missing, a file *)
(* cannot be opened, or the pattern does not compile.                      *)
Current(p) == Lindex(fileList[p], fileListIndex[p] - 1)
Stuck(p) ==
    /\ running[p] /\ ~nextIndexId[p] /\ fd[p] = NoFile
    /\ \/ disk[Current(p)] = "missing" /\ fileListIndex[p] = Len(fileList[p])
       \/ disk[Current(p)] = "unreadable"
       \/ activePattern[p] = "bad"

(* There is no other reason for a search not to end, and only a search     *)
(* that does not end keeps a pane from coming back.                        *)
SearchEnds == \A p \in Pane : running[p] ~> ~running[p] \/ Stuck(p)
PaneComesBack == \A p \in Pane : proceed[p] ~> ~proceed[p] \/ \E q \in Pane : Stuck(q)

(* "If a project file no longer exists, insert an error and move on"       *)
(* (processNextIndex): the search goes on, and ends, also after its last   *)
(* file.  Files that exist but cannot be opened, and patterns that do not  *)
(* compile, are left out here.                                             *)
AllOpen == \A f \in File : disk[f] # "unreadable"
EverySearchEnds ==
    \A p \in Pane : running[p] ~> ~running[p] \/ ~AllOpen \/ activePattern[p] = "bad"
=============================================================================
