---------------------------- MODULE ExecGrepPane ----------------------------
(***************************************************************************)
(* "Find in Files" with the grep of the system (gui/execgrepdriver.tcl),   *)
(* the driver a grep pane prefers to the one of GrepPane.                   *)
(*                                                                         *)
(* start cuts the list of files into groups, runs a grep for each of them  *)
(* and waits in vwait until close has reset grep_running.  The output      *)
(* comes through a non-blocking pipe, whose readable event is served in    *)
(* any vwait or update of the one thread of hyper.  The event belongs to   *)
(* a channel, but what it reads is the channel grep_fd names by then.      *)
(*                                                                         *)
(* There is one pane here, whose StartGrep may be called over itself; how  *)
(* several panes wait for each other is the matter of GrepPane.  Of an     *)
(* output only the number of its lines is kept.                            *)
(***************************************************************************)
EXTENDS Integers, Sequences, FiniteSets

CONSTANTS
    Searches,   \* what may be asked for: the numbers of lines its groups give
    Buffer,     \* the lines that fill the input buffer of a channel
    MaxMatches, \* the limit of lines of a search
    MaxChannel, \* the channels there are
    MaxDepth,   \* bound: StartGreps that wait for each other
    MaxAsked    \* bound: StartGreps that are put off

ASSUME SearchesAssumption == Searches \subseteq Seq(Nat) \ {<<>>}
ASSUME NumbersAssumption ==
    /\ {Buffer, MaxMatches} \subseteq Nat \ {0}
    /\ {MaxChannel, MaxDepth, MaxAsked} \subseteq Nat

VARIABLES
    stack,      \* the StartGreps that run, the topmost last
    proceed,    \* Proceed: searching, the Search button is disabled
    asked,      \* StartGreps that wait for an idle moment
    greps,      \* the open channels, and the grep at the other end of each
    grep_fd,    \* the channel the driver reads, or 0
    grep_running, grep_canceled,
    max_search_reached,
    activePattern, \* "bad" if grep takes it and the text widget refuses it
    text,       \* the results
    disturbed,  \* (history) a StartGrep began over another
    dropped     \* (history) the lines this search has read and not shown

driver  == <<greps, grep_fd, grep_running, grep_canceled, max_search_reached, activePattern>>
history == <<disturbed, dropped>>
vars    == <<stack, proceed, asked, driver, text, history>>

Channel == 1..MaxChannel
Closed  == [open |-> FALSE, left |-> 0, pipe |-> 0, ended |-> FALSE]
Grep(n) == [open |-> TRUE, left |-> n, pipe |-> 0, ended |-> FALSE]
Ready(c) == greps[c].open /\ (greps[c].pipe > 0 \/ greps[c].ended)

Init ==
    /\ stack = <<>> /\ proceed = FALSE /\ asked = 0
    /\ greps = [c \in Channel |-> Closed] /\ grep_fd = 0
    /\ grep_running = FALSE /\ grep_canceled = FALSE /\ max_search_reached = FALSE
    /\ activePattern = "good" /\ text = <<>>
    /\ disturbed = FALSE /\ dropped = 0

-----------------------------------------------------------------------------
(* The stack of StartGreps.  groups are those the search has still to run. *)
Frame(at, search, groups) ==
    [at |-> at, search |-> search, groups |-> groups, woken |-> FALSE]
Top       == stack[Len(stack)]
TopAt(at) == stack # <<>> /\ Top.at = at
Pop       == SubSeq(stack, 1, Len(stack) - 1)
Goto(at)  == [stack EXCEPT ![Len(stack)] = Frame(at, @.search, @.groups)]
Woken(s)  == [i \in 1..Len(s) |-> IF s[i].at = "wait" THEN [s[i] EXCEPT !.woken = TRUE] ELSE s[i]]

(* update serves the events until there is none, files included.           *)
NoCalls     == asked = 0 /\ \A c \in Channel : ~Ready(c)
ServesFiles == stack # <<>> => Top.at \in {"update", "wait"}
Alone(s)    == disturbed /\ s # <<>>

-----------------------------------------------------------------------------
(* StartGrep with the buttons disabled: nothing to search, or a search.    *)
EnterSearch ==
    /\ \/ proceed' = FALSE /\ UNCHANGED stack
       \/ /\ Len(stack) < MaxDepth
          /\ \E s \in Searches : stack' = Append(stack, Frame("busy", s, s))
          /\ UNCHANGED proceed
    /\ disturbed' = (disturbed \/ stack # <<>>)

(* The Search button, or the menu, which calls StartGrep at any time.      *)
AskSearch ==
    /\ IF proceed
       THEN EnterSearch /\ UNCHANGED asked
       ELSE /\ asked < MaxAsked
            /\ proceed' = TRUE /\ asked' = asked + 1
            /\ UNCHANGED <<stack, disturbed>>
    /\ UNCHANGED <<driver, text, dropped>>

(* The StartGrep that was put off.                                         *)
RunAsked ==
    /\ asked > 0
    /\ IF proceed
       THEN EnterSearch /\ asked' = asked - 1
       ELSE proceed' = TRUE /\ UNCHANGED <<asked, stack, disturbed>>
    /\ UNCHANGED <<driver, text, dropped>>

(* update idletasks, then the results are deleted.                         *)
ClearResults ==
    /\ TopAt("busy") /\ asked = 0
    /\ stack' = Goto("update")
    /\ text' = <<>>
    /\ UNCHANGED <<proceed, asked, driver, history>>

(* open "| grep": the next channel, or an error, which is shown and after  *)
(* which nothing is open, and start waits nevertheless.                    *)
OpenGrep(n) ==
    \/ \E c \in Channel :
          /\ ~greps[c].open /\ \A d \in 1..(c - 1) : greps[d].open
          /\ greps' = [greps EXCEPT ![c] = Grep(n)]
          /\ grep_fd' = c
    \/ UNCHANGED <<greps, grep_fd>>

(* A mistake: the last group of files is left out.                         *)
NextGroupButLast(f, canceled, full) ==
    IF Len(f.groups) <= 1 \/ canceled \/ full
    THEN /\ stack' = [stack EXCEPT ![Len(stack)] = Frame("finish", f.search, f.groups)]
         /\ UNCHANGED <<greps, grep_fd, grep_running>>
    ELSE /\ stack' = [Woken(stack) EXCEPT ![Len(stack)] = Frame("wait", f.search, Tail(f.groups))]
         /\ grep_running' = TRUE
         /\ OpenGrep(Head(f.groups))

(* One round of the loop of start over the groups of files.                *)
NextGroup(f, canceled, full) ==
    IF f.groups = <<>> \/ canceled \/ full
    THEN /\ stack' = [stack EXCEPT ![Len(stack)] = Frame("finish", f.search, f.groups)]
         /\ UNCHANGED <<greps, grep_fd, grep_running>>
    ELSE /\ stack' = [Woken(stack) EXCEPT ![Len(stack)] = Frame("wait", f.search, Tail(f.groups))]
         /\ grep_running' = TRUE
         /\ OpenGrep(Head(f.groups))

(* start of the driver, once update has come to its end; every pattern is  *)
(* valid to it.  Results in the widget are an error, which ends StartGrep. *)
Start ==
    /\ TopAt("update") /\ NoCalls /\ text = <<>>
    /\ NextGroup(Top, FALSE, FALSE)
    /\ grep_canceled' = FALSE /\ max_search_reached' = FALSE
    /\ activePattern' \in {"good", "bad"}
    /\ dropped' = 0
    /\ UNCHANGED <<proceed, asked, text, disturbed>>

StartFails ==
    /\ TopAt("update") /\ NoCalls /\ text # <<>>
    /\ stack' = Pop
    /\ disturbed' = Alone(Pop)
    /\ UNCHANGED <<proceed, asked, driver, text, dropped>>

(* The vwait of start has ended.                                           *)
GroupEnds ==
    /\ TopAt("wait") /\ Top.woken
    /\ NextGroup(Top, grep_canceled, max_search_reached)
    /\ UNCHANGED <<proceed, asked, grep_canceled, max_search_reached, activePattern, text,
                   history>>

(* finish colours the pattern in each line of the results.                 *)
Colours == activePattern = "good" \/ \A i \in DOMAIN text : text[i] # "line"

(* finish_grep: update idletasks, finish of the driver, the buttons.       *)
FinishGrep ==
    /\ TopAt("finish") /\ asked = 0 /\ Colours
    /\ text' = IF max_search_reached \/ grep_canceled THEN Append(text, "mark") ELSE text
    /\ proceed' = FALSE
    /\ stack' = Pop
    /\ disturbed' = Alone(Pop)
    /\ UNCHANGED <<asked, driver, dropped>>

(* An error of finish ends StartGrep, and the buttons stay as they are.    *)
FinishFails ==
    /\ TopAt("finish") /\ asked = 0 /\ ~Colours
    /\ stack' = Pop
    /\ disturbed' = Alone(Pop)
    /\ UNCHANGED <<proceed, asked, driver, text, dropped>>

-----------------------------------------------------------------------------
(* The grep of a channel writes some lines, and ends.  When its channel    *)
(* has been closed it is no longer looked at.                              *)
Write(c) ==
    /\ greps[c].open
    /\ \E n \in 1..greps[c].left :
          greps' = [greps EXCEPT ![c].left = @ - n, ![c].pipe = @ + n]
    /\ UNCHANGED <<stack, proceed, asked, grep_fd, grep_running, grep_canceled,
                   max_search_reached, activePattern, text, history>>

End(c) ==
    /\ greps[c].open /\ greps[c].left = 0 /\ ~greps[c].ended
    /\ greps' = [greps EXCEPT ![c].ended = TRUE]
    /\ UNCHANGED <<stack, proceed, asked, grep_fd, grep_running, grep_canceled,
                   max_search_reached, activePattern, text, history>>

(* A mistake: the channel is closed and its name kept.                     *)
CloseKeepsName ==
    /\ greps' = [c \in Channel |-> IF c = grep_fd THEN Closed ELSE greps[c]]
    /\ grep_running' = FALSE
    /\ stack' = Woken(stack)
    /\ UNCHANGED grep_fd

(* close of the driver.                                                    *)
Close ==
    /\ greps' = [c \in Channel |-> IF c = grep_fd THEN Closed ELSE greps[c]]
    /\ grep_fd' = 0
    /\ grep_running' = FALSE
    /\ stack' = Woken(stack)

(* A mistake: the grep that runs is not closed.                            *)
CancelUnclosed ==
    /\ proceed
    /\ grep_canceled' = TRUE
    /\ grep_running' = FALSE /\ stack' = Woken(stack)
    /\ UNCHANGED <<proceed, asked, greps, grep_fd, max_search_reached, activePattern, text,
                   history>>

(* The Cancel button, which is enabled while Proceed is set.               *)
Cancel ==
    /\ proceed
    /\ grep_canceled' = TRUE
    /\ Close
    /\ UNCHANGED <<proceed, asked, max_search_reached, activePattern, text, history>>

(* read takes one buffer after the other while they come full: then the    *)
(* same read that brings lines may meet the end of the file.               *)
AtEof(c) == greps[c].ended /\ greps[c].pipe % Buffer = 0

Shown(n) == text \o [i \in 1..n |-> "line"]

(* grepReadableEvent that has got something: the results are cut after     *)
(* the last line allowed, and the search ends.                             *)
Read ==
    /\ grep_fd # 0 /\ ~AtEof(grep_fd)
    /\ LET new  == Shown(greps[grep_fd].pipe)
           full == Len(new) > MaxMatches
       IN  /\ text' = IF full THEN SubSeq(new, 1, MaxMatches) ELSE new
           /\ max_search_reached' = (max_search_reached \/ full)
           /\ IF full THEN Close
              ELSE /\ greps' = [greps EXCEPT ![grep_fd].pipe = 0]
                   /\ UNCHANGED <<stack, grep_fd, grep_running>>
    /\ UNCHANGED dropped

(* A mistake: nothing is done at the end of the file.                      *)
ReadEofMissed ==
    /\ grep_fd # 0 => AtEof(grep_fd)
    /\ UNCHANGED <<greps, grep_fd, grep_running, stack, text, max_search_reached, dropped>>

(* grepReadableEvent at the end of the file, or without a channel: what    *)
(* has been read with the end is thrown away.                              *)
ReadEof ==
    /\ grep_fd # 0 => AtEof(grep_fd)
    /\ Close
    /\ dropped' = IF grep_fd = 0 THEN dropped ELSE dropped + greps[grep_fd].pipe
    /\ UNCHANGED <<text, max_search_reached>>

(* The readable event of a channel, whichever it is.                       *)
Serve(c) ==
    /\ ServesFiles /\ Ready(c)
    /\ Read \/ ReadEof
    /\ UNCHANGED <<proceed, asked, grep_canceled, activePattern, disturbed>>

-----------------------------------------------------------------------------
StartGrep == \/ RunAsked \/ ClearResults \/ Start \/ StartFails \/ GroupEnds
             \/ FinishGrep \/ FinishFails
User      == AskSearch \/ Cancel

Next == StartGrep \/ User \/ \E c \in Channel : Write(c) \/ End(c) \/ Serve(c)

Spec == Init /\ [][Next]_vars

(* As in GrepPane: every event is served some time, a StartGrep goes on    *)
(* when its turn has come, the user pauses now and then.  A grep ends.     *)
FairSpec ==
    /\ Spec
    /\ WF_vars(RunAsked) /\ SF_vars(proceed /\ RunAsked) /\ WF_vars(GroupEnds)
    /\ SF_vars(ClearResults \/ FinishGrep \/ FinishFails) /\ SF_vars(Start \/ StartFails)
    /\ \A c \in Channel : WF_vars(Write(c)) /\ WF_vars(End(c)) /\ WF_vars(Serve(c))

-----------------------------------------------------------------------------
TypeOK ==
    /\ stack \in Seq([at : {"busy", "update", "wait", "finish"}, search : Searches,
                      groups : Seq(Nat), woken : BOOLEAN])
    /\ proceed \in BOOLEAN /\ asked \in Nat
    /\ greps \in [Channel -> [open : BOOLEAN, left : Nat, pipe : Nat, ended : BOOLEAN]]
    /\ grep_fd \in {0} \union {c \in Channel : greps[c].open}
    /\ {grep_running, grep_canceled, max_search_reached, disturbed} \subseteq BOOLEAN
    /\ activePattern \in {"good", "bad"} /\ text \in Seq({"line", "mark"}) /\ dropped \in Nat

(* "close older descriptor to be secure that no other grep is running"     *)
(* (close, which start does not call): no grep is left behind, whose pipe  *)
(* nobody reads and whose event never comes to rest, unless a StartGrep    *)
(* has been called over a search.                                          *)
Leaked(c) == greps[c].open /\ c # grep_fd
LeftBehindOnlyByNesting == [][(\E c \in Channel : ~Leaked(c) /\ Leaked(c)') => disturbed]_vars

(* While a search runs, a StartGrep waits for it in vwait, and it runs     *)
(* whenever the driver has a grep to read.                                 *)
SearchHasWaiter ==
    /\ grep_fd # 0 => grep_running
    /\ grep_running => \E i \in 1..Len(stack) : stack[i].at = "wait" /\ ~stack[i].woken

(* A search that was neither cancelled nor cut off, and over which no      *)
(* StartGrep was called, shows all lines of all its groups of files, but   *)
(* those that were read with the end of an output; the event of a grep     *)
(* that was left behind may end a search early.                            *)
Lines(s) == UNION {{i} \X (1..s[i]) : i \in 1..Len(s)}
Sum(s)   == Cardinality(Lines(s))
ResultsAreComplete ==
    TopAt("finish") =>
        \/ grep_canceled \/ max_search_reached \/ disturbed \/ \E c \in Channel : Leaked(c)
        \/ Len(text) = Sum(Top.search) - dropped

(* A search ends, unless its grep could not be run.                        *)
Stuck == grep_running /\ grep_fd = 0
SearchEnds == grep_running ~> ~grep_running \/ Stuck

(* A StartGrep fails to colour its lines, or has, and none is left.        *)
Uncoloured == ~Colours /\ asked = 0 /\ (stack = <<>> \/ Top.at = "finish")

(* The buttons come back, unless a search is stuck, a grep was left behind *)
(* whose event keeps every later update from its end, or the results could *)
(* not be coloured, with an error that nobody catches.                     *)
PaneComesBack ==
    proceed ~> ~proceed \/ Stuck \/ Uncoloured \/ \E c \in Channel : Leaked(c)
=============================================================================
