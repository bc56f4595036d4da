--------------------------- MODULE GrepPaneProofs ---------------------------
(***************************************************************************)
(* What holds of GrepPane for any panes, files, lists and limits: its type *)
(* invariant, that a running search has a StartGrep that waits for it,     *)
(* that the buttons come back, that a search can be cancelled, and that    *)
(* the results of an undisturbed search are complete.                      *)
(***************************************************************************)
EXTENDS GrepPane, SequenceTheorems, TLAPS

-----------------------------------------------------------------------------
(* The stack of StartGreps: what each operation on it does to its frames.  *)
Frames == [pane : Pane, at : {"busy", "update", "wait", "finish"}, woken : BOOLEAN]

(* A new StartGrep comes to lie on top.                                    *)
LEMMA PushFrame ==
    ASSUME stack \in Seq(Frames), NEW f \in Frames, stack' = Append(stack, f)
    PROVE  /\ stack' \in Seq(Frames) /\ Len(stack') = Len(stack) + 1
           /\ \A i \in 1..Len(stack) : stack'[i] = stack[i]
           /\ stack'[Len(stack) + 1] = f
OBVIOUS

(* The topmost StartGrep returns.                                          *)
LEMMA PopFrame ==
    ASSUME stack \in Seq(Frames), stack # <<>>, stack' = Pop
    PROVE  /\ stack' \in Seq(Frames) /\ Len(stack') = Len(stack) - 1
           /\ \A i \in 1..(Len(stack) - 1) : stack'[i] = stack[i]
<1>1. PICK n \in Nat : Len(stack) = n + 1
  <2>1. Len(stack) \in Nat /\ Len(stack) # 0
    BY EmptySeq
  <2> QED
    BY <2>1
<1>2. stack' = SubSeq(stack, 1, n)
  BY <1>1 DEF Pop
<1>3. \A i \in 1..n : stack[i] \in Frames
  BY <1>1
<1>4. stack' \in Seq(Frames)
  BY <1>2, <1>3, SubSeqProperties
<1>5. Len(stack') = IF 1 <= n THEN n - 1 + 1 ELSE 0
  BY <1>2, <1>3, SubSeqProperties
<1>6. \A i \in 1..(n - 1 + 1) : stack'[i] = stack[1 + i - 1]
  BY <1>2, <1>3, SubSeqProperties
<1> QED
  BY <1>1, <1>4, <1>5, <1>6

(* The topmost StartGrep goes on to its next wait.                         *)
LEMMA GotoFrame ==
    ASSUME NEW s \in Seq(Frames), s # <<>>, NEW at \in {"busy", "update", "wait", "finish"}
    PROVE  /\ Goto(s, at) \in Seq(Frames) /\ Len(Goto(s, at)) = Len(s)
           /\ \A i \in 1..(Len(s) - 1) : Goto(s, at)[i] = s[i]
           /\ Goto(s, at)[Len(s)].pane = s[Len(s)].pane
           /\ Goto(s, at)[Len(s)].at = at
           /\ Goto(s, at)[Len(s)].woken = FALSE
<1>1. Len(s) \in 1..Len(s) /\ s[Len(s)] \in Frames
  BY EmptySeq
<1>2. Frame(s[Len(s)].pane, at) \in Frames
  BY <1>1 DEF Frame, Frames
<1>3. Goto(s, at) = [s EXCEPT ![Len(s)] = Frame(s[Len(s)].pane, at)]
  BY DEF Goto
<1>4. Goto(s, at) \in Seq(Frames) /\ Len(Goto(s, at)) = Len(s)
  BY <1>1, <1>2, <1>3, ExceptSeq
<1>5. \A i \in 1..Len(s) :
        Goto(s, at)[i] = IF i = Len(s) THEN Frame(s[Len(s)].pane, at) ELSE s[i]
  BY <1>1, <1>2, <1>3, ExceptSeq
<1> QED
  BY <1>1, <1>4, <1>5 DEF Frame

(* grep_running is written: every vwait of the pane will end.              *)
LEMMA WokenFrames ==
    ASSUME stack \in Seq(Frames), NEW p \in Pane
    PROVE  /\ Woken(p) \in Seq(Frames) /\ Len(Woken(p)) = Len(stack)
           /\ \A i \in 1..Len(stack) :
                 /\ Woken(p)[i].pane = stack[i].pane
                 /\ Woken(p)[i].at = stack[i].at
                 /\ stack[i].pane # p => Woken(p)[i].woken = stack[i].woken
<1>1. \A i \in 1..Len(stack) : stack[i] \in Frames
  OBVIOUS
<1> QED
  BY <1>1 DEF Woken, Frames

-----------------------------------------------------------------------------
(* What TypeOK needs to be inductive: processNextIndex is only scheduled   *)
(* while there is a next file, and the buffer of a file that has been read *)
(* holds the hits of this file.                                            *)
IndexBehind == \A p \in Pane : nextIndexId[p] => fileListIndex[p] < Len(fileList[p])
BufferHolds == \A p \in Pane : fd[p] # NoFile /\ ~fresh[p] => buffer[p] >= Hits[fd[p]]
TypeInv     == TypeOK /\ IndexBehind /\ BufferHolds

LEMMA TypeInit == Init => TypeInv
<1> SUFFICES ASSUME Init PROVE TypeInv
  OBVIOUS
<1>1. stack \in Seq(Frames)
  BY DEF Init
<1>2. \A p \in Pane : fileList[p] = <<>> /\ fileListIndex[p] = 0 /\ text[p] = <<>>
  BY DEF Init
<1>3. text \in [Pane -> Seq(Part)]
  BY <1>2 DEF Init
<1> QED
  BY <1>1, <1>2, <1>3, NumbersAssumption DEF Init, TypeInv, TypeOK, IndexBehind, BufferHolds, Frames

(* A line is added to the results.                                         *)
LEMMA AppendPart ==
    ASSUME text \in [Pane -> Seq(Part)], NEW p \in Pane, NEW t \in Part,
           text' = [text EXCEPT ![p] = Append(text[p], t)]
    PROVE  text' \in [Pane -> Seq(Part)]
<1>1. Append(text[p], t) \in Seq(Part)
  OBVIOUS
<1> QED
  BY <1>1

(* StartGrep, once the buttons are disabled.                               *)
LEMMA EnterTypes ==
    ASSUME TypeOK, NEW p \in Pane, EnterSearch(p)
    PROVE  /\ stack' \in Seq(Frames) /\ proceed' \in [Pane -> BOOLEAN]
           /\ disturbed' \in SUBSET Pane
<1>1. stack \in Seq(Frames) /\ proceed \in [Pane -> BOOLEAN] /\ disturbed \in SUBSET Pane
  BY DEF TypeOK, Frames
<1>2. Frame(p, "busy") \in Frames
  BY DEF Frame, Frames
<1>3. stack' = stack \/ stack' = Append(stack, Frame(p, "busy"))
  BY DEF EnterSearch
<1>4. stack' \in Seq(Frames)
  BY <1>1, <1>2, <1>3, PushFrame
<1>5. proceed' \in [Pane -> BOOLEAN] /\ disturbed' \in SUBSET Pane
  BY <1>1 DEF EnterSearch
<1> QED
  BY <1>4, <1>5

(* The steps of StartGrep and of the user that leave the driver alone.     *)
LEMMA PaneTypes ==
    ASSUME TypeInv, NEW p \in Pane,
           AskSearch(p) \/ RunAsked(p) \/ ClearResults(p) \/ StartFails(p)
                        \/ StartReturns(p) \/ FinishGrep(p)
    PROVE  TypeInv'
<1>1. TypeOK /\ stack \in Seq(Frames)
  BY DEF TypeInv, TypeOK, Frames
<1>2. UNCHANGED driver /\ UNCHANGED disk
  BY DEF AskSearch, RunAsked, ClearResults, StartFails, StartReturns, FinishGrep
<1>3. IndexBehind' /\ BufferHolds'
  BY <1>2 DEF driver, TypeInv, IndexBehind, BufferHolds
<1>4. ASSUME stack' \in Seq(Frames), proceed' \in [Pane -> BOOLEAN],
             asked' \in [Pane -> Nat], text' \in [Pane -> Seq(Part)],
             disturbed' \in SUBSET Pane
      PROVE  TypeInv'
  BY <1>1, <1>2, <1>3, <1>4 DEF driver, TypeInv, TypeOK, Frames
<1>5. CASE AskSearch(p) \/ RunAsked(p)
  <2>1. asked' \in [Pane -> Nat] /\ text' \in [Pane -> Seq(Part)]
    <3>1. asked \in [Pane -> Nat] /\ text' = text
      BY <1>1, <1>5 DEF AskSearch, RunAsked, TypeOK
    <3>2. \/ asked' = asked
          \/ asked' = [asked EXCEPT ![p] = asked[p] + 1]
          \/ asked[p] > 0 /\ asked' = [asked EXCEPT ![p] = asked[p] - 1]
      BY <1>5 DEF AskSearch, RunAsked
    <3>3. asked[p] + 1 \in Nat /\ (asked[p] > 0 => asked[p] - 1 \in Nat)
      BY <3>1
    <3>4. asked' \in [Pane -> Nat]
      BY <3>1, <3>2, <3>3
    <3> QED
      BY <1>1, <3>1, <3>4 DEF TypeOK
  <2>2. EnterSearch(p) \/ (stack' = stack /\ disturbed' = disturbed
                           /\ proceed' = [proceed EXCEPT ![p] = TRUE])
    BY <1>5 DEF AskSearch, RunAsked
  <2>3. stack' \in Seq(Frames) /\ proceed' \in [Pane -> BOOLEAN] /\ disturbed' \in SUBSET Pane
    BY <1>1, <2>2, EnterTypes DEF TypeOK
  <2> QED
    BY <1>4, <2>1, <2>3
<1>6. CASE ClearResults(p)
  <2>1. stack' \in Seq(Frames)
    BY <1>1, <1>6, GotoFrame DEF ClearResults, TopIs
  <2>2. text' \in [Pane -> Seq(Part)]
    BY <1>1, <1>6 DEF ClearResults, TypeOK
  <2> QED
    BY <1>1, <1>4, <1>6, <2>1, <2>2 DEF ClearResults, TypeOK
<1>7. CASE StartFails(p)
  <2>1. stack' \in Seq(Frames) /\ disturbed' \in SUBSET Pane
    BY <1>1, <1>7, PopFrame DEF StartFails, TopIs, Disturbed, TypeOK
  <2> QED
    BY <1>1, <1>4, <1>7, <2>1 DEF StartFails, TypeOK
<1>8. CASE StartReturns(p)
  <2>1. stack' \in Seq(Frames)
    BY <1>1, <1>8, GotoFrame DEF StartReturns, TopIs
  <2> QED
    BY <1>1, <1>4, <1>8, <2>1 DEF StartReturns, TypeOK
<1>9. CASE FinishGrep(p)
  <2>1. stack' \in Seq(Frames) /\ disturbed' \in SUBSET Pane
    BY <1>1, <1>9, PopFrame DEF FinishGrep, TopIs, Disturbed, TypeOK
  <2>2. Mark("canceled") \in Part /\ Mark("truncated") \in Part
    BY NumbersAssumption DEF Mark, Part
  <2>3. text' \in [Pane -> Seq(Part)]
    BY <1>1, <1>9, <2>2 DEF FinishGrep, TypeOK
  <2> QED
    BY <1>1, <1>4, <1>9, <2>1, <2>3 DEF FinishGrep, TypeOK
<1> QED
  BY <1>5, <1>6, <1>7, <1>8, <1>9

(* start, and the calls that follow it.                                    *)
LEMMA StartTypes ==
    ASSUME TypeInv, NEW p \in Pane, Start(p)
    PROVE  TypeInv'
<1>1. TypeOK /\ stack \in Seq(Frames) /\ stack # <<>>
  BY DEF TypeInv, TypeOK, Frames, Start, TopIs
<1>2. stack' \in Seq(Frames)
  <2>1. Woken(p) \in Seq(Frames) /\ Woken(p) # <<>>
    BY <1>1, WokenFrames, EmptySeq
  <2> QED
    BY <2>1, GotoFrame DEF Start
<1>3. PICK l \in Lists : fileList' = [fileList EXCEPT ![p] = l]
  BY DEF Start
<1>4. l \in Seq(File) /\ 0 < Len(l)
  BY ListsAssumption, EmptySeq
<1>5. /\ fileListIndex' = [fileListIndex EXCEPT ![p] = 0]
      /\ nextIndexId' = [nextIndexId EXCEPT ![p] = TRUE]
      /\ canceled' = [canceled EXCEPT ![p] = FALSE] /\ truncated' = [truncated EXCEPT ![p] = FALSE]
      /\ inserted' = [inserted EXCEPT ![p] = 0] /\ running' = [running EXCEPT ![p] = TRUE]
      /\ UNCHANGED <<disk, proceed, asked, fd, fresh, buffer, text, disturbed>>
  BY DEF Start
<1>6. /\ fileList' \in [Pane -> Lists \union {<<>>}] /\ fileListIndex' \in [Pane -> Nat]
      /\ \A q \in Pane : fileListIndex'[q] <= Len(fileList'[q])
  <2>1. /\ fileList \in [Pane -> Lists \union {<<>>}] /\ fileListIndex \in [Pane -> Nat]
        /\ \A q \in Pane : fileListIndex[q] <= Len(fileList[q])
    BY <1>1 DEF TypeOK
  <2>2. fileList' \in [Pane -> Lists \union {<<>>}] /\ fileListIndex' \in [Pane -> Nat]
    BY <1>3, <1>5, <2>1
  <2>3. \A q \in Pane : fileListIndex'[q] <= Len(fileList'[q])
    BY <1>3, <1>4, <1>5, <2>1
  <2> QED
    BY <2>2, <2>3
<1>7. IndexBehind'
  <2>1. fileListIndex'[p] = 0 /\ fileList'[p] = l
    BY <1>1, <1>3, <1>5 DEF TypeOK
  <2>2. \A q \in Pane \ {p} : /\ fileListIndex'[q] = fileListIndex[q]
                              /\ fileList'[q] = fileList[q] /\ nextIndexId'[q] = nextIndexId[q]
    BY <1>1, <1>3, <1>5 DEF TypeOK
  <2> QED
    BY <1>4, <2>1, <2>2 DEF TypeInv, IndexBehind
<1>8. BufferHolds'
  BY <1>5 DEF TypeInv, BufferHolds
<1>9. /\ nextIndexId' \in [Pane -> BOOLEAN] /\ canceled' \in [Pane -> BOOLEAN]
      /\ truncated' \in [Pane -> BOOLEAN] /\ running' \in [Pane -> BOOLEAN]
      /\ inserted' \in [Pane -> 0..MaxMatches]
  <2>1. /\ nextIndexId \in [Pane -> BOOLEAN] /\ canceled \in [Pane -> BOOLEAN]
        /\ truncated \in [Pane -> BOOLEAN] /\ running \in [Pane -> BOOLEAN]
        /\ inserted \in [Pane -> 0..MaxMatches]
    BY <1>1 DEF TypeOK
  <2>2. nextIndexId' \in [Pane -> BOOLEAN] /\ canceled' \in [Pane -> BOOLEAN]
    BY <1>5, <2>1
  <2>3. truncated' \in [Pane -> BOOLEAN] /\ running' \in [Pane -> BOOLEAN]
    BY <1>5, <2>1
  <2>4. inserted' \in [Pane -> 0..MaxMatches]
    BY <1>5, <2>1, NumbersAssumption
  <2> QED
    BY <2>2, <2>3, <2>4
<1>10. activePattern' \in [Pane -> {"good", "bad"}]
  BY <1>1 DEF Start, TypeOK
<1> QED
  BY <1>1, <1>2, <1>5, <1>6, <1>7, <1>8, <1>9, <1>10 DEF TypeInv, TypeOK, Frames

LEMMA CancelTypes ==
    ASSUME TypeInv, NEW p \in Pane, Cancel(p)
    PROVE  TypeInv'
<1>1. TypeOK /\ stack \in Seq(Frames)
  BY DEF TypeInv, TypeOK, Frames
<1>2. stack' \in Seq(Frames)
  BY <1>1, WokenFrames DEF Cancel
<1>3. IndexBehind' /\ BufferHolds'
  BY <1>1 DEF Cancel, TypeInv, TypeOK, IndexBehind, BufferHolds
<1> QED
  BY <1>1, <1>2, <1>3 DEF Cancel, TypeInv, TypeOK, Frames

LEMMA NextFileTypes ==
    ASSUME TypeInv, NEW p \in Pane, ProcessNextIndex(p)
    PROVE  TypeInv'
<1>1. TypeOK /\ nextIndexId[p] /\ fileListIndex[p] < Len(fileList[p])
  BY DEF TypeInv, IndexBehind, ProcessNextIndex
<1>2. fileList[p] \in Seq(File) /\ fileListIndex[p] \in Nat /\ Len(fileList[p]) \in Nat
  BY <1>1, ListsAssumption DEF TypeOK
<1> DEFINE f == Lindex(fileList[p], fileListIndex[p])
           exists == f # NoFile /\ disk[f] # "missing"
           opened == exists /\ disk[f] # "unreadable"
<1>3. f \in File
  BY <1>1, <1>2 DEF Lindex
<1>4. /\ fileListIndex' = [fileListIndex EXCEPT ![p] = fileListIndex[p] + 1]
      /\ text' = text \/ text' = [text EXCEPT ![p] = Append(text[p], Missing(f))]
      /\ nextIndexId' = [nextIndexId EXCEPT ![p] =
                            ~exists /\ MoreFiles(p, fileListIndex[p] + 1)]
      /\ fd' = fd \/ fd' = [fd EXCEPT ![p] = f]
      /\ fresh' = fresh \/ fresh' = [fresh EXCEPT ![p] = TRUE]
      /\ fd' # fd => fresh' = [fresh EXCEPT ![p] = TRUE]
      /\ UNCHANGED <<disk, stack, proceed, asked, activePattern, fileList, buffer, running,
                     canceled, truncated, inserted, disturbed>>
  BY DEF ProcessNextIndex
<1> HIDE DEF f, exists, opened
<1>5. /\ fileListIndex' \in [Pane -> Nat]
      /\ \A q \in Pane : fileListIndex'[q] <= Len(fileList'[q])
  BY <1>1, <1>2, <1>4 DEF TypeOK
<1>6. IndexBehind'
  BY <1>1, <1>2, <1>4 DEF TypeOK, TypeInv, IndexBehind, MoreFiles
<1>7. BufferHolds'
  BY <1>1, <1>3, <1>4 DEF TypeOK, TypeInv, BufferHolds
<1>8. Missing(f) \in Part
  BY <1>3, NumbersAssumption DEF Missing, Part
<1>9. text' \in [Pane -> Seq(Part)]
  BY <1>1, <1>4, <1>8, AppendPart DEF TypeOK
<1>10. fd' \in [Pane -> File \union {NoFile}] /\ fresh' \in [Pane -> BOOLEAN]
  <2>1. fd \in [Pane -> File \union {NoFile}] /\ fresh \in [Pane -> BOOLEAN]
    BY <1>1 DEF TypeOK
  <2>2. fd' = fd \/ fd' = [fd EXCEPT ![p] = f]
    BY <1>4
  <2>3. fresh' = fresh \/ fresh' = [fresh EXCEPT ![p] = TRUE]
    BY <1>4
  <2>4. fd' \in [Pane -> File \union {NoFile}]
    BY <1>3, <2>1, <2>2
  <2> QED
    BY <2>1, <2>3, <2>4
<1>11. nextIndexId' \in [Pane -> BOOLEAN]
  BY <1>1, <1>4 DEF TypeOK, MoreFiles
<1> QED
  BY <1>1, <1>4, <1>5, <1>6, <1>7, <1>9, <1>10, <1>11 DEF TypeInv, TypeOK

(* The two outcomes of a read.                                             *)
LEMMA FilledHolds ==
    ASSUME TypeInv, NEW p \in Pane, fd[p] # NoFile
    PROVE  /\ fd[p] \in File /\ Hits[fd[p]] \in Nat
           /\ Filled(p) \in Nat /\ Filled(p) >= Hits[fd[p]]
<1>1. /\ fd[p] \in File /\ Hits[fd[p]] \in Nat /\ buffer[p] \in Nat \union {-1}
      /\ fresh[p] \in BOOLEAN
  BY NumbersAssumption DEF TypeInv, TypeOK
<1>2. ~fresh[p] => buffer[p] >= Hits[fd[p]]
  BY DEF TypeInv, BufferHolds
<1> QED
  BY <1>1, <1>2 DEF Filled

LEMMA ReadPartTypes ==
    ASSUME TypeInv, NEW p \in Pane, ReadPart(p)
    PROVE  TypeInv'
<1>1. TypeOK /\ fd[p] # NoFile
  BY DEF TypeInv, ReadPart
<1>2. Filled(p) \in Nat /\ Filled(p) >= Hits[fd[p]]
  BY <1>1, FilledHolds
<1>3. BufferHolds'
  BY <1>1, <1>2 DEF ReadPart, TypeInv, TypeOK, BufferHolds
<1>4. IndexBehind'
  BY DEF ReadPart, TypeInv, IndexBehind
<1> QED
  BY <1>1, <1>2, <1>3, <1>4 DEF ReadPart, TypeInv, TypeOK

LEMMA GrepFailsTypes ==
    ASSUME TypeInv, NEW p \in Pane, GrepFails(p)
    PROVE  TypeInv'
<1>1. TypeOK /\ fd[p] # NoFile
  BY DEF TypeInv, GrepFails
<1>2. Filled(p) \in Nat
  BY <1>1, FilledHolds
<1>3. BufferHolds'
  BY <1>1 DEF GrepFails, TypeInv, TypeOK, BufferHolds
<1>4. IndexBehind'
  BY DEF GrepFails, TypeInv, IndexBehind
<1> QED
  BY <1>1, <1>2, <1>3, <1>4 DEF GrepFails, TypeInv, TypeOK

(* The numbers of lines that are shown: n in the buffer, h of them of this *)
(* file, and i of at most m shown before.                                  *)
LEMMA ShownBounds ==
    ASSUME NEW n \in Nat, NEW h \in Nat, h <= n, NEW m \in Nat, NEW i \in 0..m
    PROVE  /\ Smaller(n, m - i) \in 0..m /\ i + Smaller(n, m - i) \in 0..m
           /\ Smaller(n - h, Smaller(n, m - i)) \in 0..m
           /\ Smaller(n, m - i) - Smaller(n - h, Smaller(n, m - i)) \in 0..m
<1>1. Smaller(n, m - i) \in 0..(m - i)
  BY DEF Smaller
<1>2. Smaller(n - h, Smaller(n, m - i)) \in 0..Smaller(n, m - i)
  BY <1>1 DEF Smaller
<1> QED
  BY <1>1, <1>2

LEMMA ReadAllTypes ==
    ASSUME TypeInv, NEW p \in Pane, ReadAll(p)
    PROVE  TypeInv'
<1>1. TypeOK /\ stack \in Seq(Frames) /\ fd[p] # NoFile
  BY DEF TypeInv, TypeOK, Frames, ReadAll
<1>2. /\ fd[p] \in File /\ Hits[fd[p]] \in Nat /\ Filled(p) \in Nat /\ Filled(p) >= Hits[fd[p]]
  BY <1>1, FilledHolds
<1> DEFINE room    == MaxMatches - inserted[p]
           shown   == Smaller(Filled(p), room)
           foreign == Smaller(Filled(p) - Hits[fd[p]], shown)
           full    == Filled(p) > room
           goesOn  == ~full /\ MoreFiles(p, fileListIndex[p])
<1>3. inserted[p] \in 0..MaxMatches /\ MaxMatches \in Nat
  BY <1>1, NumbersAssumption DEF TypeOK
<1>4. /\ shown \in 0..MaxMatches /\ inserted[p] + shown \in 0..MaxMatches
      /\ foreign \in 0..MaxMatches /\ shown - foreign \in 0..MaxMatches
  BY <1>2, <1>3, ShownBounds
<1>5. /\ text' = text \/ text' = [text EXCEPT ![p] =
                                     Append(text[p], Lines(fd[p], shown - foreign, foreign))]
      /\ inserted' = [inserted EXCEPT ![p] = inserted[p] + shown]
      /\ truncated' = [truncated EXCEPT ![p] = truncated[p] \/ full]
      /\ fileListIndex' = IF full THEN [fileListIndex EXCEPT ![p] = Len(fileList[p])]
                          ELSE fileListIndex
      /\ nextIndexId' = [nextIndexId EXCEPT ![p] = goesOn]
      /\ running' = [running EXCEPT ![p] = running[p] /\ goesOn]
      /\ stack' = IF goesOn THEN stack ELSE Woken(p)
      /\ fd' = [fd EXCEPT ![p] = NoFile] /\ buffer' = [buffer EXCEPT ![p] = -1]
      /\ fresh' = [fresh EXCEPT ![p] = FALSE]
      /\ UNCHANGED <<disk, proceed, asked, activePattern, fileList, canceled, disturbed>>
  BY DEF ReadAll
<1> HIDE DEF room, shown, foreign, full
<1>6. stack' \in Seq(Frames)
  BY <1>1, <1>5, WokenFrames
<1>7. text' \in [Pane -> Seq(Part)]
  <2>1. Lines(fd[p], shown - foreign, foreign) \in Part
    BY <1>2, <1>4 DEF Lines, Part
  <2> QED
    BY <1>1, <1>5, <2>1, AppendPart DEF TypeOK
<1>8. Len(fileList[p]) \in Nat
  <2>1. fileList[p] \in Lists \/ fileList[p] = <<>>
    BY <1>1 DEF TypeOK
  <2>2. fileList[p] \in Seq(File)
    <3>1. CASE fileList[p] \in Lists
      BY <3>1, ListsAssumption
    <3>2. CASE fileList[p] = <<>>
      BY <3>2
    <3> QED
      BY <2>1, <3>1, <3>2
  <2> QED
    BY <2>2
<1>9. /\ fileListIndex' \in [Pane -> Nat]
      /\ \A q \in Pane : fileListIndex'[q] <= Len(fileList'[q])
  BY <1>1, <1>5, <1>8 DEF TypeOK
<1>10. IndexBehind'
  BY <1>1, <1>5, <1>8 DEF TypeOK, TypeInv, IndexBehind, MoreFiles
<1>11. BufferHolds'
  BY <1>1, <1>5 DEF TypeOK, TypeInv, BufferHolds
<1>12. /\ inserted' \in [Pane -> 0..MaxMatches] /\ truncated' \in [Pane -> BOOLEAN]
       /\ nextIndexId' \in [Pane -> BOOLEAN] /\ running' \in [Pane -> BOOLEAN]
       /\ fd' \in [Pane -> File \union {NoFile}] /\ fresh' \in [Pane -> BOOLEAN]
       /\ buffer' \in [Pane -> Nat \union {-1}]
  BY <1>1, <1>4, <1>5 DEF TypeOK, MoreFiles
<1> QED
  BY <1>1, <1>5, <1>6, <1>7, <1>9, <1>10, <1>11, <1>12 DEF TypeInv, TypeOK, Frames

LEMMA VanishTypes ==
    ASSUME TypeInv, NEW f \in File, Vanish(f)
    PROVE  TypeInv'
BY DEF Vanish, driver, TypeInv, TypeOK, IndexBehind, BufferHolds

LEMMA TypeStep == TypeInv /\ [Next]_vars => TypeInv'
<1> SUFFICES ASSUME TypeInv, [Next]_vars PROVE TypeInv'
  OBVIOUS
<1>1. ASSUME NEW p \in Pane, StartGrep(p) PROVE TypeInv'
  BY <1>1, PaneTypes, StartTypes DEF StartGrep
<1>2. ASSUME NEW p \in Pane, Search(p) PROVE TypeInv'
  BY <1>2, NextFileTypes, ReadPartTypes, GrepFailsTypes, ReadAllTypes DEF Search
<1>3. ASSUME NEW p \in Pane, User(p) PROVE TypeInv'
  BY <1>3, PaneTypes, CancelTypes DEF User
<1>4. ASSUME NEW f \in File, Vanish(f) PROVE TypeInv'
  BY <1>4, VanishTypes
<1>5. CASE UNCHANGED vars
  BY <1>5 DEF vars, driver, TypeInv, TypeOK, IndexBehind, BufferHolds
<1> QED
  BY <1>1, <1>2, <1>3, <1>4, <1>5 DEF Next

LEMMA TypeInvariant == Spec => []TypeInv
BY TypeInit, TypeStep, PTL DEF Spec

(* Every variable keeps its type: in particular a search never goes beyond *)
(* the end of its list, and never shows more than MaxMatches lines.        *)
THEOREM TypeCorrect == Spec => []TypeOK
<1>1. TypeInv => TypeOK
  BY DEF TypeInv
<1> QED
  BY <1>1, TypeInvariant, PTL

-----------------------------------------------------------------------------
(* Which StartGreps of a pane are on the stack after each operation.       *)
LEMMA FramesAfterPush ==
    ASSUME stack \in Seq(Frames), NEW f \in Frames, stack' = Append(stack, f)
    PROVE  \A q \in Pane :
             FramesOf(q)' = FramesOf(q) \union (IF f.pane = q THEN {Len(stack) + 1} ELSE {})
<1>1. /\ Len(stack) \in Nat /\ Len(stack') = Len(stack) + 1
      /\ \A i \in 1..Len(stack) : stack'[i] = stack[i]
      /\ stack'[Len(stack) + 1] = f
  BY PushFrame
<1> QED
  BY <1>1 DEF FramesOf

LEMMA FramesAfterPop ==
    ASSUME stack \in Seq(Frames), stack # <<>>, stack' = Pop
    PROVE  /\ \A q \in Pane : FramesOf(q)' = FramesOf(q) \ {Len(stack)}
           /\ Len(stack) \in FramesOf(Top.pane)
           /\ \A q \in Pane : \A i \in FramesOf(q)' : stack'[i] = stack[i]
<1>1. /\ Len(stack) \in Nat /\ Len(stack) >= 1 /\ Len(stack') = Len(stack) - 1
      /\ \A i \in 1..(Len(stack) - 1) : stack'[i] = stack[i]
  BY PopFrame, EmptySeq
<1> QED
  BY <1>1 DEF FramesOf, Top

LEMMA FramesAfterGoto ==
    ASSUME stack \in Seq(Frames), stack # <<>>,
           NEW at \in {"busy", "update", "wait", "finish"}, stack' = Goto(stack, at)
    PROVE  /\ \A q \in Pane : FramesOf(q)' = FramesOf(q)
           /\ Len(stack) \in FramesOf(Top.pane)
           /\ stack'[Len(stack)].at = at /\ stack'[Len(stack)].woken = FALSE
           /\ \A q \in Pane : \A i \in FramesOf(q) : i # Len(stack) => stack'[i] = stack[i]
<1>1. /\ Len(stack) \in Nat /\ Len(stack) >= 1 /\ Len(stack') = Len(stack)
      /\ \A i \in 1..(Len(stack) - 1) : stack'[i] = stack[i]
      /\ stack'[Len(stack)].pane = stack[Len(stack)].pane
      /\ stack'[Len(stack)].at = at /\ stack'[Len(stack)].woken = FALSE
  <2>1. Len(stack) \in Nat /\ Len(stack) >= 1
    BY EmptySeq
  <2>2. /\ Len(Goto(stack, at)) = Len(stack)
        /\ \A i \in 1..(Len(stack) - 1) : Goto(stack, at)[i] = stack[i]
        /\ Goto(stack, at)[Len(stack)].pane = stack[Len(stack)].pane
        /\ Goto(stack, at)[Len(stack)].at = at
        /\ Goto(stack, at)[Len(stack)].woken = FALSE
    BY GotoFrame
  <2> QED
    BY <2>1, <2>2
<1> QED
  BY <1>1 DEF FramesOf, Top

LEMMA FramesAfterWoken ==
    ASSUME stack \in Seq(Frames), NEW p \in Pane, stack' = Woken(p)
    PROVE  \A q \in Pane :
             /\ FramesOf(q)' = FramesOf(q)
             /\ \A i \in FramesOf(q) : /\ stack'[i].at = stack[i].at
                                       /\ q # p => stack'[i].woken = stack[i].woken
BY WokenFrames DEF FramesOf

LEMMA FramesAfterStart ==
    ASSUME stack \in Seq(Frames), stack # <<>>, NEW p \in Pane, Top.pane = p,
           stack' = Goto(Woken(p), "wait")
    PROVE  /\ \A q \in Pane : FramesOf(q)' = FramesOf(q)
           /\ Len(stack) \in FramesOf(p)
           /\ stack'[Len(stack)].at = "wait" /\ stack'[Len(stack)].woken = FALSE
           /\ \A q \in Pane : \A i \in FramesOf(q) : i # Len(stack) =>
                /\ stack'[i].at = stack[i].at
                /\ q # p => stack'[i].woken = stack[i].woken
<1>1. /\ Len(stack) \in Nat /\ Len(stack) >= 1
      /\ Woken(p) \in Seq(Frames) /\ Woken(p) # <<>> /\ Len(Woken(p)) = Len(stack)
      /\ \A i \in 1..Len(stack) :
            /\ Woken(p)[i].pane = stack[i].pane /\ Woken(p)[i].at = stack[i].at
            /\ stack[i].pane # p => Woken(p)[i].woken = stack[i].woken
  BY WokenFrames, EmptySeq
<1>2. /\ Len(stack') = Len(stack)
      /\ \A i \in 1..(Len(stack) - 1) : stack'[i] = Woken(p)[i]
      /\ stack'[Len(stack)].pane = Woken(p)[Len(stack)].pane
      /\ stack'[Len(stack)].at = "wait" /\ stack'[Len(stack)].woken = FALSE
  <2> DEFINE s == Woken(p)
  <2>1. s \in Seq(Frames) /\ s # <<>> /\ Len(s) = Len(stack)
    BY <1>1
  <2> HIDE DEF s
  <2>2. /\ Len(Goto(s, "wait")) = Len(s)
        /\ \A i \in 1..(Len(s) - 1) : Goto(s, "wait")[i] = s[i]
        /\ Goto(s, "wait")[Len(s)].pane = s[Len(s)].pane
        /\ Goto(s, "wait")[Len(s)].at = "wait" /\ Goto(s, "wait")[Len(s)].woken = FALSE
    BY <2>1, GotoFrame
  <2>3. stack' = Goto(s, "wait")
    BY DEF s
  <2> QED
    BY <2>1, <2>2, <2>3 DEF s
<1>3. ASSUME NEW i \in 1..Len(stack), i # Len(stack)
      PROVE  /\ stack'[i].pane = stack[i].pane /\ stack'[i].at = stack[i].at
             /\ stack[i].pane # p => stack'[i].woken = stack[i].woken
  <2>1. i \in 1..(Len(stack) - 1)
    BY <1>1, <1>3
  <2> QED
    BY <1>1, <1>2, <2>1
<1>4. stack[Len(stack)].pane = p /\ stack'[Len(stack)].pane = p
  BY <1>1, <1>2 DEF Top
<1>5. \A i \in 1..Len(stack) : stack'[i].pane = stack[i].pane
  BY <1>3, <1>4
<1>6. \A q \in Pane : FramesOf(q)' = FramesOf(q)
  BY <1>2, <1>5 DEF FramesOf
<1>7. Len(stack) \in FramesOf(p)
  BY <1>1, <1>4 DEF FramesOf
<1>8. ASSUME NEW q \in Pane, NEW i \in FramesOf(q), i # Len(stack)
      PROVE  stack'[i].at = stack[i].at /\ (q # p => stack'[i].woken = stack[i].woken)
  <2>1. i \in 1..Len(stack) /\ stack[i].pane = q
    BY DEF FramesOf
  <2> QED
    BY <1>3, <1>8, <2>1
<1> QED
  BY <1>2, <1>6, <1>7, <1>8

-----------------------------------------------------------------------------
(* A running search has a StartGrep that waits for it.                     *)
Waiter(q) == \E i \in FramesOf(q) : stack[i].at = "wait" /\ ~stack[i].woken

(* The StartGrep on top goes on, or another one comes or returns.          *)
LEMMA WaiterStays ==
    ASSUME stack \in Seq(Frames), NEW q \in Pane, Waiter(q),
           \/ stack' = stack
           \/ \E f \in Frames : stack' = Append(stack, f)
           \/ /\ stack # <<>> /\ (Top.at # "wait" \/ Top.woken)
              /\ stack' = Pop \/ \E at \in {"update", "finish"} : stack' = Goto(stack, at)
           \/ \E p \in Pane \ {q} : stack' = Woken(p)
           \/ stack # <<>> /\ \E p \in Pane \ {q} : Top.pane = p /\ stack' = Goto(Woken(p), "wait")
    PROVE  Waiter(q)'
<1>1. PICK i \in FramesOf(q) : stack[i].at = "wait" /\ ~stack[i].woken
  BY DEF Waiter
<1>2. CASE stack' = stack
  BY <1>2 DEF Waiter, FramesOf
<1>3. ASSUME NEW f \in Frames, stack' = Append(stack, f) PROVE Waiter(q)'
  BY <1>1, <1>3, FramesAfterPush, PushFrame DEF Waiter, FramesOf
<1>4. CASE /\ stack # <<>> /\ (Top.at # "wait" \/ Top.woken)
           /\ stack' = Pop \/ \E at \in {"update", "finish"} : stack' = Goto(stack, at)
  <2>1. i # Len(stack)
    BY <1>1, <1>4 DEF Top
  <2>2. i \in FramesOf(q)' /\ stack'[i] = stack[i]
    <3>1. CASE stack' = Pop
      BY <1>1, <1>4, <2>1, <3>1, FramesAfterPop
    <3>2. ASSUME NEW at \in {"update", "finish"}, stack' = Goto(stack, at)
          PROVE  i \in FramesOf(q)' /\ stack'[i] = stack[i]
      BY <1>1, <1>4, <2>1, <3>2, FramesAfterGoto
    <3> QED
      BY <1>4, <3>1, <3>2
  <2> QED
    BY <1>1, <2>2 DEF Waiter
<1>5. ASSUME NEW p \in Pane \ {q}, stack' = Woken(p) PROVE Waiter(q)'
  BY <1>1, <1>5, FramesAfterWoken DEF Waiter
<1>6. ASSUME stack # <<>>, NEW p \in Pane \ {q}, Top.pane = p, stack' = Goto(Woken(p), "wait")
      PROVE  Waiter(q)'
  <2>1. i # Len(stack)
    BY <1>1, <1>6 DEF FramesOf, Top
  <2> QED
    <3>1. i \in FramesOf(q)' /\ stack'[i].at = stack[i].at /\ stack'[i].woken = stack[i].woken
      BY <1>6, <2>1, FramesAfterStart
    <3> QED
      BY <1>1, <3>1 DEF Waiter
<1> QED
  BY <1>2, <1>3, <1>4, <1>5, <1>6

LEMMA WaiterInit == Init => SearchHasWaiter
BY DEF Init, SearchHasWaiter

LEMMA WaiterStep == TypeInv /\ SearchHasWaiter /\ [Next]_vars => SearchHasWaiter'
<1> SUFFICES ASSUME TypeInv, SearchHasWaiter, [Next]_vars PROVE SearchHasWaiter'
  OBVIOUS
<1>1. stack \in Seq(Frames) /\ nextIndexId \in [Pane -> BOOLEAN] /\ running \in [Pane -> BOOLEAN]
      /\ fd \in [Pane -> File \union {NoFile}]
  BY DEF TypeInv, TypeOK, Frames
<1>2. \A q \in Pane : /\ nextIndexId[q] \/ fd[q] # NoFile => running[q]
                      /\ running[q] => Waiter(q)
  BY DEF SearchHasWaiter, Waiter
<1>3. ASSUME \A q \in Pane : /\ nextIndexId'[q] \/ fd'[q] # NoFile => running'[q]
                             /\ running'[q] => Waiter(q)'
      PROVE  SearchHasWaiter'
  BY <1>3 DEF SearchHasWaiter, Waiter
(* Steps that leave the driver alone only have to keep the waiters.        *)
<1>4. ASSUME UNCHANGED driver, \A q \in Pane : Waiter(q) => Waiter(q)'
      PROVE  SearchHasWaiter'
  BY <1>2, <1>3, <1>4 DEF driver
<1>5. ASSUME NEW p \in Pane, AskSearch(p) \/ RunAsked(p) PROVE SearchHasWaiter'
  <2>1. UNCHANGED driver /\ (stack' = stack \/ stack' = Append(stack, Frame(p, "busy")))
    BY <1>5 DEF AskSearch, RunAsked, EnterSearch
  <2>2. Frame(p, "busy") \in Frames
    BY DEF Frame, Frames
  <2> QED
    BY <1>1, <1>4, <2>1, <2>2, WaiterStays
<1>6. ASSUME NEW p \in Pane, ClearResults(p) PROVE SearchHasWaiter'
  BY <1>1, <1>4, <1>6, WaiterStays DEF ClearResults, TopIs
<1>7. ASSUME NEW p \in Pane, Start(p) PROVE SearchHasWaiter'
  <2>1. /\ nextIndexId' = [nextIndexId EXCEPT ![p] = TRUE] /\ running' = [running EXCEPT ![p] = TRUE]
        /\ fd' = fd /\ stack # <<>> /\ Top.pane = p /\ stack' = Goto(Woken(p), "wait")
    BY <1>7 DEF Start, TopIs
  <2>2. Waiter(p)'
    BY <1>1, <2>1, FramesAfterStart DEF Waiter
  <2>3. ASSUME NEW q \in Pane \ {p}, Waiter(q) PROVE Waiter(q)'
    BY <1>1, <2>1, <2>3, WaiterStays
  <2> QED
    BY <1>1, <1>2, <1>3, <2>1, <2>2, <2>3
<1>8. ASSUME NEW p \in Pane, StartFails(p) PROVE SearchHasWaiter'
  BY <1>1, <1>4, <1>8, WaiterStays DEF StartFails, TopIs
<1>9. ASSUME NEW p \in Pane, StartReturns(p) PROVE SearchHasWaiter'
  BY <1>1, <1>4, <1>9, WaiterStays DEF StartReturns, TopIs
<1>10. ASSUME NEW p \in Pane, FinishGrep(p) PROVE SearchHasWaiter'
  BY <1>1, <1>4, <1>10, WaiterStays DEF FinishGrep, TopIs
(* A cancel ends all that could go on.                                     *)
<1>11. ASSUME NEW p \in Pane, Cancel(p) PROVE SearchHasWaiter'
  <2>1. /\ nextIndexId' = [nextIndexId EXCEPT ![p] = FALSE]
        /\ running' = [running EXCEPT ![p] = FALSE]
        /\ fd' = [fd EXCEPT ![p] = NoFile] /\ stack' = Woken(p)
    BY <1>11 DEF Cancel
  <2>2. ASSUME NEW q \in Pane \ {p}, Waiter(q) PROVE Waiter(q)'
    BY <1>1, <2>1, <2>2, WaiterStays
  <2> QED
    BY <1>1, <1>2, <1>3, <2>1, <2>2
<1>12. ASSUME NEW p \in Pane, ProcessNextIndex(p) PROVE SearchHasWaiter'
  <2>1. /\ nextIndexId[p] /\ running' = running /\ stack' = stack
        /\ \A q \in Pane \ {p} : nextIndexId'[q] = nextIndexId[q] /\ fd'[q] = fd[q]
    BY <1>1, <1>12 DEF ProcessNextIndex
  <2>2. \A q \in Pane : Waiter(q) => Waiter(q)'
    BY <1>1, <2>1, WaiterStays
  <2> QED
    BY <1>2, <1>3, <2>1, <2>2
<1>13. ASSUME NEW p \in Pane, ReadPart(p) PROVE SearchHasWaiter'
  BY <1>1, <1>2, <1>3, <1>13, WaiterStays DEF ReadPart
(* The last file ends the search and wakes the StartGrep at once.          *)
<1>14. ASSUME NEW p \in Pane, ReadAll(p) PROVE SearchHasWaiter'
  <2>1. PICK goesOn \in BOOLEAN :
           /\ nextIndexId' = [nextIndexId EXCEPT ![p] = goesOn]
           /\ running' = [running EXCEPT ![p] = running[p] /\ goesOn]
           /\ stack' = IF goesOn THEN stack ELSE Woken(p)
    BY <1>14 DEF ReadAll, MoreFiles
  <2>2. fd' = [fd EXCEPT ![p] = NoFile] /\ fd[p] # NoFile
    BY <1>14 DEF ReadAll
  <2>3. ASSUME NEW q \in Pane, q # p \/ goesOn, Waiter(q) PROVE Waiter(q)'
    BY <1>1, <2>1, <2>3, WaiterStays
  <2> QED
    BY <1>1, <1>2, <1>3, <2>1, <2>2, <2>3
<1>15. ASSUME NEW f \in File, Vanish(f) PROVE SearchHasWaiter'
  BY <1>1, <1>4, <1>15, WaiterStays DEF Vanish
<1>16. CASE UNCHANGED vars
  BY <1>1, <1>4, <1>16, WaiterStays DEF vars
<1>17. ASSUME NEW p \in Pane, GrepFails(p) PROVE SearchHasWaiter'
  BY <1>1, <1>2, <1>3, <1>17, WaiterStays DEF GrepFails
<1> QED
  BY <1>5, <1>6, <1>7, <1>8, <1>9, <1>10, <1>11, <1>12, <1>13, <1>14, <1>15, <1>16,
     <1>17 DEF Next, StartGrep, Search, User

(* No callback of a search runs when the search has ended, and no search   *)
(* runs without a StartGrep that waits for it, however StartGreps of all   *)
(* panes are nested and whenever a search is cancelled.                    *)
THEOREM RunningSearchHasWaiter == Spec => []SearchHasWaiter
BY WaiterInit, WaiterStep, TypeInvariant, PTL DEF Spec

-----------------------------------------------------------------------------
(* The buttons.  While a StartGrep of a pane runs they are disabled, or    *)
(* the pane is disturbed, and it is if there are two of them.              *)
Guarded(p) ==
    /\ FramesOf(p) # {} => proceed[p] \/ p \in disturbed
    /\ \A i, j \in FramesOf(p) : i # j => p \in disturbed
AllGuarded == \A p \in Pane : Guarded(p)

LEMMA GuardedInit == Init => AllGuarded
BY DEF Init, AllGuarded, Guarded, FramesOf

LEMMA GuardedStep == TypeInv /\ AllGuarded /\ [Next]_vars => AllGuarded'
<1> SUFFICES ASSUME TypeInv, AllGuarded, [Next]_vars PROVE AllGuarded'
  OBVIOUS
<1>1. stack \in Seq(Frames) /\ proceed \in [Pane -> BOOLEAN]
  BY DEF TypeInv, TypeOK, Frames
<1>2. ASSUME \A q \in Pane : FramesOf(q)' = FramesOf(q), disturbed' = disturbed,
             \A q \in Pane : proceed[q] => proceed'[q]
      PROVE  AllGuarded'
  BY <1>2 DEF AllGuarded, Guarded
(* A StartGrep begins with the buttons disabled, or ends at once.          *)
<1>3. ASSUME NEW p \in Pane, EnterSearch(p), proceed[p] PROVE AllGuarded'
  <2>1. disturbed' = IF FramesOf(p) # {} THEN disturbed \union {p} ELSE disturbed
    BY <1>3 DEF EnterSearch
  <2>2. CASE stack' = stack /\ proceed' = [proceed EXCEPT ![p] = FALSE]
    <3>1. \A q \in Pane : FramesOf(q)' = FramesOf(q)
      BY <2>2 DEF FramesOf
    <3> QED
      BY <1>1, <2>1, <2>2, <3>1 DEF AllGuarded, Guarded
  <2>3. CASE stack' = Append(stack, Frame(p, "busy")) /\ proceed' = proceed
    <3>1. Frame(p, "busy") \in Frames /\ Frame(p, "busy").pane = p
      BY DEF Frame, Frames
    <3>2. \A q \in Pane : FramesOf(q)' =
                            FramesOf(q) \union (IF p = q THEN {Len(stack) + 1} ELSE {})
      BY <1>1, <2>3, <3>1, FramesAfterPush
    <3> QED
      BY <1>3, <2>1, <2>3, <3>2 DEF AllGuarded, Guarded
  <2> QED
    BY <1>3, <2>2, <2>3 DEF EnterSearch
<1>4. ASSUME NEW p \in Pane, AskSearch(p) \/ RunAsked(p) PROVE AllGuarded'
  <2>1. CASE ~proceed[p]
    <3>1. stack' = stack /\ disturbed' = disturbed /\ proceed' = [proceed EXCEPT ![p] = TRUE]
      BY <1>4, <2>1 DEF AskSearch, RunAsked
    <3>2. \A q \in Pane : FramesOf(q)' = FramesOf(q)
      BY <3>1 DEF FramesOf
    <3> QED
      BY <1>1, <1>2, <3>1, <3>2
  <2> QED
    BY <1>3, <1>4, <2>1 DEF AskSearch, RunAsked
<1>5. ASSUME NEW p \in Pane, ClearResults(p) \/ StartReturns(p) PROVE AllGuarded'
  <2>1. \A q \in Pane : FramesOf(q)' = FramesOf(q)
    BY <1>1, <1>5, FramesAfterGoto DEF ClearResults, StartReturns, TopIs
  <2> QED
    BY <1>2, <1>5, <2>1 DEF ClearResults, StartReturns
<1>6. ASSUME NEW p \in Pane, Start(p) PROVE AllGuarded'
  <2>1. \A q \in Pane : FramesOf(q)' = FramesOf(q)
    BY <1>1, <1>6, FramesAfterStart DEF Start, TopIs
  <2> QED
    BY <1>2, <1>6, <2>1 DEF Start
(* A StartGrep that returns may enable the buttons; if another one of the  *)
(* pane is left, the pane was disturbed and stays so.                      *)
<1>7. ASSUME NEW p \in Pane, StartFails(p) \/ FinishGrep(p) PROVE AllGuarded'
  <2>1. /\ stack # <<>> /\ Top.pane = p /\ stack' = Pop /\ disturbed' = Disturbed(Pop)
        /\ \A q \in Pane \ {p} : proceed'[q] = proceed[q]
    BY <1>1, <1>7 DEF StartFails, FinishGrep, TopIs
  <2>2. /\ \A q \in Pane : FramesOf(q)' = FramesOf(q) \ {Len(stack)}
        /\ Len(stack) \in FramesOf(p)
    BY <1>1, <2>1, FramesAfterPop
  <2>3. disturbed' = IF FramesOf(p)' # {} THEN disturbed ELSE disturbed \ {p}
    BY <2>1 DEF Disturbed, FramesOf
  <2>4. ASSUME NEW q \in Pane \ {p} PROVE Guarded(q)'
    BY <2>1, <2>2, <2>3 DEF AllGuarded, Guarded
  <2>5. FramesOf(p)' # {} => p \in disturbed
    BY <2>2 DEF AllGuarded, Guarded
  <2>6. Guarded(p)'
    BY <2>3, <2>5 DEF Guarded
  <2> QED
    BY <2>4, <2>6 DEF AllGuarded
<1>8. ASSUME NEW p \in Pane, Cancel(p) \/ Search(p) PROVE AllGuarded'
  <2>1. stack' = stack \/ stack' = Woken(p)
    BY <1>8 DEF Cancel, Search, ProcessNextIndex, ReadPart, GrepFails, ReadAll
  <2>2. \A q \in Pane : FramesOf(q)' = FramesOf(q)
    BY <1>1, <2>1, FramesAfterWoken DEF FramesOf
  <2>3. proceed' = proceed /\ disturbed' = disturbed
    BY <1>8 DEF Cancel, Search, ProcessNextIndex, ReadPart, GrepFails, ReadAll
  <2> QED
    BY <1>2, <2>2, <2>3
<1>9. CASE UNCHANGED <<stack, proceed, disturbed>>
  BY <1>2, <1>9 DEF FramesOf
<1> QED
  BY <1>4, <1>5, <1>6, <1>7, <1>8, <1>9 DEF Next, StartGrep, User, Vanish, vars

(* A running search can be cancelled, unless StartGrep has been called     *)
(* over it: the Cancel button is enabled from before the start to the end. *)
THEOREM RunningCanBeCanceled == Spec => []CanBeCanceled
<1>1. SearchHasWaiter /\ AllGuarded => CanBeCanceled
  BY DEF SearchHasWaiter, AllGuarded, Guarded, CanBeCanceled
<1> QED
  BY <1>1, GuardedInit, GuardedStep, TypeInvariant, RunningSearchHasWaiter, PTL DEF Spec

(* Buttons that are disabled have a StartGrep that will enable them.  One  *)
(* that is going to fail, because there are results where it wants to      *)
(* write, leaves them to another one of the pane.                          *)
Kept(p) ==
    proceed[p] /\ asked[p] = 0 =>
        /\ FramesOf(p) # {}
        /\ text[p] # <<>> => \E i \in FramesOf(p) : stack[i].at # "update"
AllKept == \A p \in Pane : Kept(p)

LEMMA KeptInit == Init => AllKept
BY DEF Init, AllKept, Kept

(* A StartGrep that is not at its update stays so until it returns.        *)
LEMMA KeptStep == TypeInv /\ SearchHasWaiter /\ AllKept /\ [Next]_vars => AllKept'
<1> SUFFICES ASSUME TypeInv, SearchHasWaiter, AllKept, [Next]_vars PROVE AllKept'
  OBVIOUS
<1>1. /\ stack \in Seq(Frames) /\ proceed \in [Pane -> BOOLEAN] /\ asked \in [Pane -> Nat]
      /\ text \in [Pane -> Seq(Part)]
  BY DEF TypeInv, TypeOK, Frames
<1>2. ASSUME \A q \in Pane : /\ FramesOf(q)' = FramesOf(q)
                             /\ \A i \in FramesOf(q) : stack[i].at # "update" => stack'[i].at # "update",
             proceed' = proceed, asked' = asked, NEW q \in Pane, text'[q] # <<>> => text[q] # <<>>
      PROVE  Kept(q)'
  BY <1>2 DEF AllKept, Kept
(* A new StartGrep has not come to its update yet.                         *)
<1>3. ASSUME NEW p \in Pane, EnterSearch(p), NEW q \in Pane, text' = text,
             asked'[q] = asked[q] \/ p = q
      PROVE  Kept(q)'
  <2>1. CASE stack' = stack /\ proceed' = [proceed EXCEPT ![p] = FALSE]
    <3>1. FramesOf(q)' = FramesOf(q)
      BY <2>1 DEF FramesOf
    <3> QED
      BY <1>1, <1>3, <2>1, <3>1 DEF AllKept, Kept
  <2>2. CASE stack' = Append(stack, Frame(p, "busy")) /\ proceed' = proceed
    <3>1. /\ Frame(p, "busy") \in Frames /\ Frame(p, "busy").pane = p
          /\ Frame(p, "busy").at = "busy"
      BY DEF Frame, Frames
    <3>2. /\ FramesOf(q)' = FramesOf(q) \union (IF p = q THEN {Len(stack) + 1} ELSE {})
          /\ \A i \in FramesOf(q) : stack'[i] = stack[i]
          /\ stack'[Len(stack) + 1].at = "busy"
      BY <1>1, <2>2, <3>1, FramesAfterPush, PushFrame DEF FramesOf
    <3>3. CASE p = q
      BY <3>2, <3>3 DEF Kept
    <3>4. CASE p # q
      <4>1. /\ FramesOf(q)' = FramesOf(q) /\ proceed'[q] = proceed[q]
            /\ asked'[q] = asked[q] /\ text'[q] = text[q]
        BY <1>3, <2>2, <3>2, <3>4
      <4> QED
        BY <3>2, <4>1 DEF AllKept, Kept
    <3> QED
      BY <3>3, <3>4
  <2> QED
    BY <1>3, <2>1, <2>2 DEF EnterSearch
<1>4. ASSUME NEW p \in Pane, AskSearch(p) PROVE AllKept'
  <2>1. CASE proceed[p]
    BY <1>3, <1>4, <2>1 DEF AskSearch, AllKept
  <2>2. CASE ~proceed[p]
    <3>1. /\ stack' = stack /\ text' = text /\ proceed' = [proceed EXCEPT ![p] = TRUE]
          /\ asked' = [asked EXCEPT ![p] = asked[p] + 1]
      BY <1>4, <2>2 DEF AskSearch
    <3>2. asked'[p] # 0 /\ \A q \in Pane : FramesOf(q)' = FramesOf(q)
      BY <1>1, <3>1 DEF FramesOf
    <3> QED
      BY <1>1, <3>1, <3>2 DEF AllKept, Kept
  <2> QED
    BY <2>1, <2>2
<1>5. ASSUME NEW p \in Pane, RunAsked(p) PROVE AllKept'
  <2>1. CASE proceed[p]
    <3>1. EnterSearch(p) /\ text' = text /\ \A q \in Pane : asked'[q] = asked[q] \/ p = q
      BY <1>1, <1>5, <2>1 DEF RunAsked
    <3> QED
      BY <1>3, <3>1 DEF AllKept
  <2>2. CASE ~proceed[p]
    <3>1. /\ stack' = stack /\ text' = text /\ proceed' = [proceed EXCEPT ![p] = TRUE]
          /\ asked' = asked /\ asked[p] > 0
      BY <1>5, <2>2 DEF RunAsked
    <3>2. asked'[p] # 0 /\ \A q \in Pane : FramesOf(q)' = FramesOf(q)
      BY <1>1, <3>1 DEF FramesOf
    <3> QED
      BY <1>1, <3>1, <3>2 DEF AllKept, Kept
  <2> QED
    BY <2>1, <2>2
<1>6. ASSUME NEW p \in Pane, ClearResults(p) PROVE AllKept'
  <2>1. /\ stack # <<>> /\ Top.at = "busy" /\ Top.pane = p /\ stack' = Goto(stack, "update")
        /\ text' = [text EXCEPT ![p] = <<>>] /\ proceed' = proceed /\ asked' = asked
    BY <1>6 DEF ClearResults, TopIs
  <2>2. /\ \A q \in Pane : FramesOf(q)' = FramesOf(q)
        /\ \A q \in Pane : \A i \in FramesOf(q) : i # Len(stack) => stack'[i] = stack[i]
    BY <1>1, <2>1, FramesAfterGoto
  <2>3. Kept(p)'
    BY <1>1, <2>1, <2>2 DEF AllKept, Kept
  <2>4. ASSUME NEW q \in Pane \ {p} PROVE Kept(q)'
    <3>1. text'[q] = text[q] /\ Len(stack) \notin FramesOf(q)
      BY <1>1, <2>1 DEF FramesOf, Top
    <3>2. \A i \in FramesOf(q) : stack'[i] = stack[i]
      BY <2>2, <3>1
    <3> QED
      BY <2>1, <2>2, <3>1, <3>2 DEF AllKept, Kept
  <2> QED
    BY <2>3, <2>4 DEF AllKept
<1>7. ASSUME NEW p \in Pane, Start(p) PROVE AllKept'
  <2>1. /\ stack # <<>> /\ Top.pane = p /\ stack' = Goto(Woken(p), "wait")
        /\ text' = text /\ proceed' = proceed /\ asked' = asked
    BY <1>7 DEF Start, TopIs
  <2>2. \A q \in Pane : /\ FramesOf(q)' = FramesOf(q)
                        /\ \A i \in FramesOf(q) : stack[i].at # "update" => stack'[i].at # "update"
    <3>1. \A q \in Pane : FramesOf(q)' = FramesOf(q)
      BY <1>1, <2>1, FramesAfterStart
    <3>2. stack'[Len(stack)].at = "wait"
      BY <1>1, <2>1, FramesAfterStart
    <3>3. \A q \in Pane : \A i \in FramesOf(q) : i # Len(stack) => stack'[i].at = stack[i].at
      BY <1>1, <2>1, FramesAfterStart
    <3> QED
      BY <3>1, <3>2, <3>3
  <2> QED
    BY <1>2, <2>1, <2>2 DEF AllKept
<1>8. ASSUME NEW p \in Pane, StartFails(p) PROVE AllKept'
  <2>1. /\ stack # <<>> /\ Top.at = "update" /\ stack' = Pop /\ text[p] # <<>> /\ Top.pane = p
        /\ text' = text /\ proceed' = proceed /\ asked' = asked
    BY <1>8 DEF StartFails, TopIs
  <2>2. /\ \A q \in Pane : FramesOf(q)' = FramesOf(q) \ {Len(stack)}
        /\ \A q \in Pane : \A i \in FramesOf(q)' : stack'[i] = stack[i]
    BY <1>1, <2>1, FramesAfterPop
  <2>3. \A i \in FramesOf(p) : stack[i].at # "update" => i \in FramesOf(p)'
    BY <2>1, <2>2 DEF Top
  <2>4. Kept(p)'
    BY <2>1, <2>2, <2>3 DEF AllKept, Kept
  <2>5. ASSUME NEW q \in Pane \ {p} PROVE Kept(q)'
    <3>1. FramesOf(q)' = FramesOf(q)
      BY <2>1, <2>2 DEF FramesOf, Top
    <3> QED
      BY <2>1, <2>2, <3>1 DEF AllKept, Kept
  <2> QED
    BY <2>4, <2>5 DEF AllKept
<1>9. ASSUME NEW p \in Pane, StartReturns(p) PROVE AllKept'
  <2>1. /\ stack # <<>> /\ stack' = Goto(stack, "finish")
        /\ text' = text /\ proceed' = proceed /\ asked' = asked
    BY <1>9 DEF StartReturns, TopIs
  <2>2. \A q \in Pane : /\ FramesOf(q)' = FramesOf(q)
                        /\ \A i \in FramesOf(q) : stack[i].at # "update" => stack'[i].at # "update"
    BY <1>1, <2>1, FramesAfterGoto
  <2> QED
    BY <1>2, <2>1, <2>2 DEF AllKept
<1>10. ASSUME NEW p \in Pane, FinishGrep(p) PROVE AllKept'
  <2>1. /\ stack # <<>> /\ Top.pane = p /\ stack' = Pop /\ asked' = asked
        /\ proceed' = [proceed EXCEPT ![p] = FALSE]
        /\ \A q \in Pane \ {p} : text'[q] = text[q]
    BY <1>1, <1>10 DEF FinishGrep, TopIs
  <2>2. Kept(p)'
    BY <1>1, <2>1 DEF Kept
  <2>3. ASSUME NEW q \in Pane \ {p} PROVE Kept(q)'
    <3>1. /\ FramesOf(q)' = FramesOf(q)
          /\ \A i \in FramesOf(q) : stack'[i] = stack[i]
      <4>1. /\ FramesOf(q)' = FramesOf(q) \ {Len(stack)}
            /\ \A i \in FramesOf(q)' : stack'[i] = stack[i]
        BY <1>1, <2>1, FramesAfterPop
      <4>2. Len(stack) \notin FramesOf(q)
        BY <2>1 DEF FramesOf, Top
      <4> QED
        BY <4>1, <4>2
    <3>2. proceed'[q] = proceed[q] /\ asked'[q] = asked[q] /\ text'[q] = text[q]
      BY <1>1, <2>1
    <3> QED
      BY <3>1, <3>2 DEF AllKept, Kept
  <2> QED
    BY <2>2, <2>3 DEF AllKept
(* Only a running search writes results, and its StartGrep is at its vwait. *)
<1>11. ASSUME NEW p \in Pane, Search(p) PROVE AllKept'
  <2>1. \E i \in FramesOf(p) : stack[i].at = "wait"
    BY <1>11 DEF Search, ProcessNextIndex, ReadPart, GrepFails, ReadAll,
                   SearchHasWaiter
  <2>2. /\ stack' = stack \/ stack' = Woken(p)
        /\ proceed' = proceed /\ asked' = asked
        /\ \A q \in Pane \ {p} : text'[q] = text[q]
    BY <1>1, <1>11 DEF Search, ProcessNextIndex, ReadPart, GrepFails, ReadAll
  <2>3. \A q \in Pane : /\ FramesOf(q)' = FramesOf(q)
                        /\ \A i \in FramesOf(q) : stack'[i].at = stack[i].at
    BY <1>1, <2>2, FramesAfterWoken DEF FramesOf
  <2>4. Kept(p)'
    BY <2>1, <2>3 DEF Kept
  <2>5. ASSUME NEW q \in Pane \ {p} PROVE Kept(q)'
    BY <1>2, <2>2, <2>3
  <2> QED
    BY <2>4, <2>5 DEF AllKept
<1>12. ASSUME NEW p \in Pane, Cancel(p) PROVE AllKept'
  <2>1. \A q \in Pane : /\ FramesOf(q)' = FramesOf(q)
                        /\ \A i \in FramesOf(q) : stack'[i].at = stack[i].at
    BY <1>1, <1>12, FramesAfterWoken DEF Cancel
  <2> QED
    BY <1>2, <1>12, <2>1 DEF Cancel, AllKept
<1>13. CASE UNCHANGED <<stack, proceed, asked, text>>
  BY <1>2, <1>13 DEF FramesOf, AllKept
<1> QED
  BY <1>4, <1>5, <1>6, <1>7, <1>8, <1>9, <1>10, <1>11, <1>12, <1>13
     DEF Next, StartGrep, User, Vanish, vars

(* The buttons of a pane are never left disabled with nobody to enable     *)
(* them: a StartGrep of the pane runs, or has been put off and will run.   *)
THEOREM ButtonsAlwaysComeBack == Spec => []ButtonsComeBack
<1>1. TypeInv /\ AllKept => ButtonsComeBack
  BY DEF TypeInv, TypeOK, AllKept, Kept, ButtonsComeBack
<1> QED
  BY <1>1, KeptInit, KeptStep, TypeInvariant, RunningSearchHasWaiter, PTL DEF Spec

-----------------------------------------------------------------------------
(* The results.  A search never has two ways to go on, and while it runs   *)
(* undisturbed, all files before its place in the list are shown; the last *)
(* of them may be open, or have broken the chain.                          *)
OneWay == \A p \in Pane : ~(nextIndexId[p] /\ fd[p] # NoFile)

Shown(p, f) ==
    \/ Hits[f] = 0
    \/ \E t \in Elements(text[p]) : t.file = f /\ (t.own = Hits[f] \/ t.what = "missing")
Counts(p) == p \notin disturbed /\ ~canceled[p] /\ ~truncated[p]
Ended(p)  == \E i \in FramesOf(p) :
                stack[i].at = "finish" \/ (stack[i].at = "wait" /\ stack[i].woken)
ShownSoFar(p) ==
    \A j \in 1..fileListIndex[p] :
        \/ Shown(p, fileList[p][j])
        \/ j = fileListIndex[p] /\ ~nextIndexId[p] /\ fd[p] \in {NoFile, fileList[p][j]}
Complete(p) ==
    Counts(p) => /\ running[p] => ShownSoFar(p)
                 /\ Ended(p) => \A f \in Elements(fileList[p]) : Shown(p, f)
AllComplete == OneWay /\ \A p \in Pane : Complete(p)

LEMMA OneWayStep == TypeInv /\ OneWay /\ [Next]_vars => OneWay'
<1> SUFFICES ASSUME TypeInv, OneWay, [Next]_vars PROVE OneWay'
  OBVIOUS
<1>1. nextIndexId \in [Pane -> BOOLEAN] /\ fd \in [Pane -> File \union {NoFile}]
  BY DEF TypeInv, TypeOK
<1>2. ASSUME NEW p \in Pane, Start(p) PROVE OneWay'
  BY <1>1, <1>2 DEF Start, NoCalls, OneWay
<1>3. ASSUME NEW p \in Pane, Cancel(p) PROVE OneWay'
  BY <1>1, <1>3 DEF Cancel, OneWay
<1>4. ASSUME NEW p \in Pane, ProcessNextIndex(p) PROVE OneWay'
  <2>1. /\ fd[p] = NoFile
        /\ nextIndexId'[p] => fd' = fd
        /\ \A q \in Pane \ {p} : nextIndexId'[q] = nextIndexId[q] /\ fd'[q] = fd[q]
    BY <1>1, <1>4 DEF ProcessNextIndex, OneWay
  <2> QED
    BY <2>1 DEF OneWay
<1>5. ASSUME NEW p \in Pane, ReadAll(p) PROVE OneWay'
  BY <1>1, <1>5 DEF ReadAll, OneWay
<1>6. ASSUME NEW p \in Pane, GrepFails(p) PROVE OneWay'
  BY <1>1, <1>6 DEF GrepFails, OneWay
<1>7. CASE UNCHANGED <<nextIndexId, fd>>
  BY <1>7 DEF OneWay
<1> QED
  BY <1>2, <1>3, <1>4, <1>5, <1>6, <1>7
     DEF Next, StartGrep, Search, User, vars, driver, AskSearch, RunAsked, ClearResults,
         StartFails, StartReturns, FinishGrep, ReadPart, Vanish

(* What has been shown stays when lines are added.                         *)
LEMMA ShownStays ==
    ASSUME text \in [Pane -> Seq(Part)], NEW p \in Pane, NEW f \in File, Shown(p, f),
           \/ text'[p] = text[p]
           \/ \E t \in Part : text'[p] = Append(text[p], t)
    PROVE  Shown(p, f)'
<1>1. ASSUME NEW t \in Part, text'[p] = Append(text[p], t)
      PROVE  Elements(text[p]) \subseteq Elements(text'[p])
  <2>1. text[p] \in Seq(Part)
    OBVIOUS
  <2>2. \A i \in DOMAIN text[p] : i \in DOMAIN text'[p] /\ text'[p][i] = text[p][i]
    BY <1>1, <2>1
  <2> QED
    BY <2>2 DEF Elements
<1> QED
  BY <1>1 DEF Shown

LEMMA ShownNow ==
    ASSUME NEW s \in Seq(Part), NEW t \in Part
    PROVE  t \in Elements(Append(s, t))
BY DEF Elements

(* A step that leaves the search and the results of a pane alone.          *)
LEMMA CompleteStays ==
    ASSUME NEW q \in Pane, Complete(q), Counts(q)' => Counts(q), Ended(q)' => Ended(q),
           fileList'[q] = fileList[q], fileListIndex'[q] = fileListIndex[q],
           nextIndexId'[q] = nextIndexId[q], fd'[q] = fd[q], running'[q] = running[q],
           text'[q] = text[q]
    PROVE  Complete(q)'
BY DEF Complete, ShownSoFar, Shown

(* A pane with one StartGrep, which has not come to its end.               *)
LEMMA OnlyTop ==
    ASSUME stack \in Seq(Frames), stack # <<>>, AllGuarded, NEW p \in Pane, Top.pane = p,
           p \notin disturbed
    PROVE  FramesOf(p) = {Len(stack)}
<1>1. Len(stack) \in FramesOf(p)
  BY EmptySeq DEF FramesOf, Top
<1> QED
  BY <1>1 DEF AllGuarded, Guarded

(* The files of a search, and the part of the list it has come through.    *)
LEMMA ListTypes ==
    ASSUME TypeInv, NEW p \in Pane
    PROVE  /\ fileList[p] \in Seq(File) /\ fileListIndex[p] \in Nat
           /\ fileListIndex[p] <= Len(fileList[p])
           /\ \A j \in 1..fileListIndex[p] : fileList[p][j] \in File
           /\ Elements(fileList[p]) \subseteq File
<1>1. fileListIndex[p] \in Nat /\ fileListIndex[p] <= Len(fileList[p])
      /\ (fileList[p] \in Lists \/ fileList[p] = <<>>)
  BY DEF TypeInv, TypeOK
<1>2. fileList[p] \in Seq(File)
  <2>1. CASE fileList[p] \in Lists
    BY <2>1, ListsAssumption
  <2>2. CASE fileList[p] = <<>>
    BY <2>2
  <2> QED
    BY <1>1, <2>1, <2>2
<1>3. \A j \in 1..Len(fileList[p]) : fileList[p][j] \in File
  BY <1>2
<1>4. Elements(fileList[p]) \subseteq File
  BY <1>2, <1>3 DEF Elements
<1> QED
  BY <1>1, <1>2, <1>3, <1>4

(* StartGrep: a new one is not at its end, and disturbs the one below.     *)
LEMMA CompleteEnter ==
    ASSUME TypeInv, AllComplete, NEW p \in Pane, AskSearch(p) \/ RunAsked(p)
    PROVE  \A q \in Pane : Complete(q)'
<1>1. stack \in Seq(Frames) /\ UNCHANGED driver /\ text' = text
  BY DEF TypeInv, TypeOK, Frames, AskSearch, RunAsked
<1>2. disturbed \subseteq disturbed' /\ (stack' = stack \/ stack' = Append(stack, Frame(p, "busy")))
  BY DEF AskSearch, RunAsked, EnterSearch
<1>3. ASSUME NEW q \in Pane PROVE Ended(q)' => Ended(q)
  <2>1. CASE stack' = stack
    BY <2>1 DEF Ended, FramesOf
  <2>2. CASE stack' = Append(stack, Frame(p, "busy"))
    <3>1. Frame(p, "busy") \in Frames /\ Frame(p, "busy").at = "busy"
      BY DEF Frame, Frames
    <3>2. /\ FramesOf(q)' \subseteq FramesOf(q) \union {Len(stack) + 1}
          /\ \A i \in FramesOf(q) : stack'[i] = stack[i]
          /\ stack'[Len(stack) + 1].at = "busy"
      BY <1>1, <2>2, <3>1, FramesAfterPush, PushFrame DEF FramesOf
    <3> QED
      BY <3>2 DEF Ended
  <2> QED
    BY <1>2, <2>1, <2>2
<1> QED
  BY <1>1, <1>2, <1>3, CompleteStays DEF driver, AllComplete, Counts

(* The results are deleted: the only StartGrep of the pane, or it does not *)
(* count.                                                                  *)
LEMMA CompleteClear ==
    ASSUME TypeInv, SearchHasWaiter, AllGuarded, AllComplete, NEW p \in Pane, ClearResults(p)
    PROVE  \A q \in Pane : Complete(q)'
<1>1. /\ stack \in Seq(Frames) /\ stack # <<>> /\ Top.pane = p /\ Top.at = "busy"
      /\ stack' = Goto(stack, "update") /\ UNCHANGED driver /\ disturbed' = disturbed
      /\ \A q \in Pane \ {p} : text'[q] = text[q]
  BY DEF TypeInv, TypeOK, Frames, ClearResults, TopIs
<1>2. /\ \A q \in Pane : FramesOf(q)' = FramesOf(q)
      /\ stack'[Len(stack)].at = "update"
      /\ \A q \in Pane : \A i \in FramesOf(q) : i # Len(stack) => stack'[i] = stack[i]
  BY <1>1, FramesAfterGoto
<1>3. ASSUME NEW q \in Pane \ {p} PROVE Complete(q)'
  <2>1. Ended(q)' => Ended(q)
    BY <1>1, <1>2 DEF Ended, FramesOf, Top
  <2> QED
    BY <1>1, <2>1, CompleteStays DEF driver, AllComplete, Counts
<1>4. ASSUME p \notin disturbed PROVE ~Ended(p)' /\ ~running'[p]
  <2>1. FramesOf(p) = {Len(stack)}
    BY <1>1, <1>4, OnlyTop
  <2>2. ~running[p]
    BY <1>1, <2>1 DEF SearchHasWaiter, Top
  <2> QED
    BY <1>1, <1>2, <2>1, <2>2 DEF Ended, driver
<1> QED
  BY <1>1, <1>3, <1>4 DEF Complete, Counts

LEMMA CompleteStart ==
    ASSUME TypeInv, AllGuarded, AllComplete, NEW p \in Pane, Start(p)
    PROVE  \A q \in Pane : Complete(q)'
<1>1. /\ stack \in Seq(Frames) /\ stack # <<>> /\ Top.pane = p
      /\ stack' = Goto(Woken(p), "wait") /\ disturbed' = disturbed /\ text' = text /\ fd' = fd
  BY DEF TypeInv, TypeOK, Frames, Start, TopIs
<1>2. /\ fileListIndex'[p] = 0
      /\ \A q \in Pane \ {p} :
            /\ fileList'[q] = fileList[q] /\ fileListIndex'[q] = fileListIndex[q]
            /\ nextIndexId'[q] = nextIndexId[q] /\ running'[q] = running[q]
            /\ canceled'[q] = canceled[q] /\ truncated'[q] = truncated[q]
  BY DEF TypeInv, TypeOK, Start
<1>3. /\ \A q \in Pane : FramesOf(q)' = FramesOf(q)
      /\ stack'[Len(stack)].at = "wait" /\ stack'[Len(stack)].woken = FALSE
      /\ \A q \in Pane : \A i \in FramesOf(q) : i # Len(stack) =>
            /\ stack'[i].at = stack[i].at
            /\ q # p => stack'[i].woken = stack[i].woken
  BY <1>1, FramesAfterStart
<1>4. ASSUME NEW q \in Pane \ {p} PROVE Complete(q)'
  <2>1. Ended(q)' => Ended(q)
    BY <1>1, <1>3 DEF Ended, FramesOf, Top
  <2> QED
    BY <1>1, <1>2, <2>1, CompleteStays DEF AllComplete, Counts
<1>5. ASSUME p \notin disturbed PROVE ~Ended(p)'
  BY <1>1, <1>3, <1>5, OnlyTop DEF Ended
<1>6. ShownSoFar(p)'
  BY <1>2 DEF ShownSoFar
<1> QED
  BY <1>1, <1>4, <1>5, <1>6 DEF Complete, Counts

LEMMA CompleteReturns ==
    ASSUME TypeInv, AllComplete, NEW p \in Pane, StartReturns(p)
    PROVE  \A q \in Pane : Complete(q)'
<1>1. /\ stack \in Seq(Frames) /\ stack # <<>> /\ Top.pane = p /\ Top.at = "wait" /\ Top.woken
      /\ stack' = Goto(stack, "finish") /\ UNCHANGED driver /\ disturbed' = disturbed
      /\ text' = text
  BY DEF TypeInv, TypeOK, Frames, StartReturns, TopIs
<1>2. /\ \A q \in Pane : FramesOf(q)' = FramesOf(q)
      /\ Len(stack) \in FramesOf(p)
      /\ \A q \in Pane : \A i \in FramesOf(q) : i # Len(stack) => stack'[i] = stack[i]
  BY <1>1, FramesAfterGoto
<1>3. Ended(p)
  BY <1>1, <1>2 DEF Ended, Top
<1>4. ASSUME NEW q \in Pane \ {p} PROVE Ended(q)' => Ended(q)
  BY <1>1, <1>2 DEF Ended, FramesOf, Top
<1> QED
  BY <1>1, <1>3, <1>4, CompleteStays DEF driver, AllComplete, Counts

(* When the last StartGrep of a pane has returned no search of it runs.    *)
LEMMA CompletePop ==
    ASSUME TypeInv, SearchHasWaiter', AllGuarded, AllComplete, NEW p \in Pane,
           StartFails(p) \/ FinishGrep(p)
    PROVE  \A q \in Pane : Complete(q)'
<1>1. /\ stack \in Seq(Frames) /\ stack # <<>> /\ Top.pane = p /\ stack' = Pop
      /\ UNCHANGED driver /\ disturbed' = Disturbed(Pop)
      /\ \A q \in Pane \ {p} : text'[q] = text[q]
  BY DEF TypeInv, TypeOK, Frames, StartFails, FinishGrep, TopIs
<1>2. /\ \A q \in Pane : FramesOf(q)' = FramesOf(q) \ {Len(stack)}
      /\ Len(stack) \in FramesOf(p)
      /\ \A q \in Pane : \A i \in FramesOf(q)' : stack'[i] = stack[i]
  BY <1>1, FramesAfterPop
<1>3. disturbed' = IF FramesOf(p)' # {} THEN disturbed ELSE disturbed \ {p}
  BY <1>1 DEF Disturbed, FramesOf
<1>4. ASSUME NEW q \in Pane \ {p} PROVE Complete(q)'
  <2>1. Ended(q)' => Ended(q)
    BY <1>2 DEF Ended
  <2> QED
    BY <1>1, <1>3, <2>1, CompleteStays DEF driver, AllComplete, Counts
<1>5. CASE FramesOf(p)' # {}
  <2>1. p \in disturbed'
    BY <1>2, <1>3, <1>5 DEF AllGuarded, Guarded
  <2> QED
    BY <1>4, <2>1 DEF Complete, Counts
<1>6. CASE FramesOf(p)' = {}
  <2>1. ~Ended(p)' /\ ~running'[p]
    BY <1>6 DEF Ended, SearchHasWaiter
  <2> QED
    BY <1>4, <2>1 DEF Complete
<1> QED
  BY <1>5, <1>6

LEMMA CompleteCancel ==
    ASSUME TypeInv, AllComplete, NEW p \in Pane, Cancel(p)
    PROVE  \A q \in Pane : Complete(q)'
<1>1. /\ stack \in Seq(Frames) /\ stack' = Woken(p) /\ canceled'[p]
      /\ UNCHANGED <<fileList, fileListIndex, truncated, text, disturbed>>
      /\ \A q \in Pane \ {p} :
            /\ nextIndexId'[q] = nextIndexId[q] /\ fd'[q] = fd[q]
            /\ running'[q] = running[q] /\ canceled'[q] = canceled[q]
  BY DEF TypeInv, TypeOK, Frames, Cancel
<1>2. ASSUME NEW q \in Pane \ {p} PROVE Complete(q)'
  <2>1. Ended(q)' => Ended(q)
    BY <1>1, FramesAfterWoken DEF Ended
  <2> QED
    BY <1>1, <2>1, CompleteStays DEF AllComplete, Counts
<1> QED
  BY <1>1, <1>2 DEF Complete, Counts

(* The next file is opened, is missing and said to be so, or breaks the    *)
(* chain.                                                                  *)
LEMMA CompleteNext ==
    ASSUME TypeInv, SearchHasWaiter, AllComplete, NEW p \in Pane, ProcessNextIndex(p)
    PROVE  \A q \in Pane : Complete(q)'
<1>1. /\ stack' = stack /\ nextIndexId[p]
      /\ UNCHANGED <<fileList, running, canceled, truncated, disturbed>>
      /\ \A q \in Pane \ {p} :
            /\ fileListIndex'[q] = fileListIndex[q] /\ nextIndexId'[q] = nextIndexId[q]
            /\ fd'[q] = fd[q] /\ text'[q] = text[q]
  BY DEF TypeInv, TypeOK, ProcessNextIndex
<1>2. \A q \in Pane : Ended(q)' => Ended(q)
  BY <1>1 DEF Ended, FramesOf
<1>3. ASSUME NEW q \in Pane \ {p} PROVE Complete(q)'
  BY <1>1, <1>2, CompleteStays DEF AllComplete, Counts
<1>4. /\ fileList[p] \in Seq(File) /\ fileListIndex[p] \in Nat
      /\ fileListIndex[p] < Len(fileList[p])
      /\ \A j \in 1..fileListIndex[p] : fileList[p][j] \in File
      /\ Elements(fileList[p]) \subseteq File
  BY <1>1, ListTypes DEF TypeInv, IndexBehind
<1>5. PICK f \in File : /\ f = Lindex(fileList[p], fileListIndex[p])
                        /\ f = fileList[p][fileListIndex[p] + 1]
  BY <1>4 DEF Lindex
<1>6. /\ fd[p] = NoFile /\ fd \in [Pane -> File \union {NoFile}]
      /\ text \in [Pane -> Seq(Part)] /\ nextIndexId \in [Pane -> BOOLEAN]
      /\ fileListIndex \in [Pane -> Nat]
  BY <1>1 DEF AllComplete, OneWay, TypeInv, TypeOK
<1>7. /\ fileListIndex'[p] = fileListIndex[p] + 1
      /\ \/ disk[f] = "missing" /\ text'[p] = Append(text[p], Missing(f))
         \/ text'[p] = text[p] /\ ~nextIndexId'[p] /\ fd'[p] \in {NoFile, f}
  BY <1>5, <1>6, NoFileAssumption DEF ProcessNextIndex
<1>8. Missing(f) \in Part
  BY <1>5, NumbersAssumption DEF Missing, Part
<1>9. ASSUME NEW g \in File, Shown(p, g) PROVE Shown(p, g)'
  BY <1>6, <1>7, <1>8, <1>9, ShownStays
<1>10. ASSUME Counts(p) PROVE Complete(p)'
  <2>1. running[p]
    BY <1>1 DEF SearchHasWaiter
  <2>2. \A j \in 1..fileListIndex[p] : Shown(p, fileList[p][j])
    BY <1>1, <1>10, <2>1 DEF AllComplete, Complete, ShownSoFar
  <2>3. \A j \in 1..fileListIndex[p] : Shown(p, fileList[p][j])'
    BY <1>1, <1>4, <1>9, <2>2
  <2>4. \/ Shown(p, f)'
        \/ ~nextIndexId'[p] /\ fd'[p] \in {NoFile, f}
    <3>1. CASE text'[p] = Append(text[p], Missing(f))
      <4>1. Missing(f) \in Elements(text'[p])
        BY <1>6, <1>8, <3>1, ShownNow
      <4>2. Missing(f).file = f /\ Missing(f).what = "missing"
        BY DEF Missing
      <4> QED
        BY <4>1, <4>2 DEF Shown
    <3> QED
      BY <1>7, <3>1
  <2>5. ShownSoFar(p)'
    <3> SUFFICES ASSUME NEW j \in 1..(fileListIndex[p] + 1)
                 PROVE  \/ Shown(p, fileList[p][j])'
                        \/ /\ j = fileListIndex[p] + 1 /\ ~nextIndexId'[p]
                           /\ fd'[p] \in {NoFile, fileList[p][j]}
      BY <1>1, <1>7 DEF ShownSoFar
    <3>1. CASE j = fileListIndex[p] + 1
      BY <1>1, <1>5, <2>4, <3>1
    <3>2. CASE j \in 1..fileListIndex[p]
      BY <2>3, <3>2
    <3> QED
      BY <1>4, <3>1, <3>2
  <2>6. Ended(p) => \A g \in Elements(fileList[p]) : Shown(p, g)
    BY <1>10 DEF AllComplete, Complete
  <2>7. Ended(p)' => \A g \in Elements(fileList'[p]) : Shown(p, g)'
    BY <1>1, <1>2, <1>4, <1>9, <2>6
  <2> QED
    BY <2>5, <2>7 DEF Complete
<1>11. ASSUME ~Counts(p) PROVE Complete(p)'
  BY <1>1, <1>11 DEF Counts, Complete
<1> QED
  BY <1>3, <1>10, <1>11

(* The chain breaks off in the current file.                               *)
LEMMA CompleteGrepFails ==
    ASSUME TypeInv, AllComplete, NEW p \in Pane, GrepFails(p)
    PROVE  \A q \in Pane : Complete(q)'
<1>1. /\ fd[p] # NoFile /\ fd'[p] = NoFile
      /\ UNCHANGED <<stack, fileList, fileListIndex, nextIndexId, running, canceled,
                     truncated, text, disturbed>>
      /\ \A q \in Pane \ {p} : fd'[q] = fd[q]
  BY DEF TypeInv, TypeOK, GrepFails
<1>2. \A q \in Pane : Ended(q)' => Ended(q)
  BY <1>1 DEF Ended, FramesOf
<1>3. ASSUME NEW q \in Pane \ {p} PROVE Complete(q)'
  BY <1>1, <1>2, CompleteStays DEF AllComplete, Counts
<1>4. ASSUME running[p], Counts(p) PROVE ShownSoFar(p)'
  <2>1. ShownSoFar(p)
    BY <1>4 DEF AllComplete, Complete
  <2> QED
    BY <1>1, <2>1 DEF ShownSoFar, Shown
<1>5. Complete(p)'
  BY <1>1, <1>2, <1>4 DEF AllComplete, Complete, Counts, Shown
<1> QED
  BY <1>3, <1>5

(* The lines that fit below the limit.                                     *)
LEMMA SmallerWhole ==
    ASSUME NEW n \in Nat, NEW h \in Nat, NEW r \in Int, h <= n, ~(n > r)
    PROVE  /\ Smaller(n, r) = n /\ Smaller(n - h, n) = n - h
           /\ n - (n - h) = h
BY DEF Smaller

(* The lines of the file are shown, all of them unless the limit is met.   *)
LEMMA CompleteReadAll ==
    ASSUME TypeInv, SearchHasWaiter, AllComplete, NEW p \in Pane, ReadAll(p)
    PROVE  \A q \in Pane : Complete(q)'
<1>1. /\ stack \in Seq(Frames) /\ fd[p] # NoFile
      /\ stack' = stack \/ stack' = Woken(p)
      /\ UNCHANGED <<fileList, canceled, disturbed>>
      /\ \A q \in Pane \ {p} :
            /\ fileListIndex'[q] = fileListIndex[q] /\ nextIndexId'[q] = nextIndexId[q]
            /\ fd'[q] = fd[q] /\ text'[q] = text[q] /\ running'[q] = running[q]
            /\ truncated'[q] = truncated[q]
  BY DEF TypeInv, TypeOK, Frames, ReadAll
<1>2. ASSUME NEW q \in Pane \ {p} PROVE Complete(q)'
  <2>1. Ended(q)' => Ended(q)
    BY <1>1, FramesAfterWoken DEF Ended, FramesOf
  <2> QED
    BY <1>1, <2>1, CompleteStays DEF AllComplete, Counts
<1>3. /\ fd[p] \in File /\ Hits[fd[p]] \in Nat /\ Filled(p) \in Nat /\ Filled(p) >= Hits[fd[p]]
      /\ text \in [Pane -> Seq(Part)] /\ inserted[p] \in 0..MaxMatches /\ MaxMatches \in Nat
      /\ truncated \in [Pane -> BOOLEAN]
  BY <1>1, FilledHolds, NumbersAssumption DEF TypeInv, TypeOK
<1>4. /\ fileList[p] \in Seq(File) /\ fileListIndex[p] \in Nat
      /\ fileListIndex[p] <= Len(fileList[p])
      /\ \A j \in 1..fileListIndex[p] : fileList[p][j] \in File
      /\ Elements(fileList[p]) \subseteq File
  BY ListTypes
<1>5. ASSUME Filled(p) > MaxMatches - inserted[p] PROVE Complete(p)'
  <2>1. truncated'[p]
    BY <1>3, <1>5 DEF ReadAll
  <2> QED
    BY <2>1 DEF Complete, Counts
<1>6. ASSUME ~(Filled(p) > MaxMatches - inserted[p]) PROVE Complete(p)'
  <2>1. PICK f \in File : f = fd[p]
    BY <1>3
  <2> DEFINE t == Lines(f, Hits[f], Filled(p) - Hits[f])
  <2>2. /\ Smaller(Filled(p), MaxMatches - inserted[p]) = Filled(p)
        /\ Smaller(Filled(p) - Hits[f], Filled(p)) = Filled(p) - Hits[f]
        /\ Filled(p) - (Filled(p) - Hits[f]) = Hits[f]
    <3>1. MaxMatches - inserted[p] \in Int /\ Hits[f] \in Nat /\ Hits[f] <= Filled(p)
      BY <1>3, <2>1
    <3> QED
      BY <1>3, <1>6, <3>1, SmallerWhole
  <2>3. t \in Part /\ t.file = f /\ t.own = Hits[f]
    BY <1>3, <1>6, <2>1 DEF Lines, Part
  <2>4. text' = IF Filled(p) = 0 THEN text ELSE [text EXCEPT ![p] = Append(text[p], t)]
    BY <2>1, <2>2 DEF ReadAll
  <2>5. /\ truncated'[p] = truncated[p] /\ fileListIndex' = fileListIndex
        /\ stack' = stack \/ ~MoreFiles(p, fileListIndex[p])
    BY <1>3, <1>6 DEF ReadAll, TypeInv, TypeOK
  <2> HIDE DEF t
  <2>6. ASSUME NEW g \in File, Shown(p, g) PROVE Shown(p, g)'
    BY <1>3, <2>3, <2>4, <2>6, ShownStays
  <2>7. Shown(p, f)'
    <3>1. CASE Filled(p) = 0
      BY <1>3, <2>1, <3>1 DEF Shown
    <3>2. CASE Filled(p) # 0
      <4>1. t \in Elements(text'[p])
        BY <1>3, <2>3, <2>4, <3>2, ShownNow
      <4>2. PICK u \in Elements(text'[p]) : u.file = f /\ u.own = Hits[f]
        BY <2>3, <4>1
      <4> QED
        BY <4>2 DEF Shown
    <3> QED
      BY <3>1, <3>2
  <2>8. ASSUME Counts(p) PROVE Complete(p)'
    <3>1. \A j \in 1..fileListIndex[p] : Shown(p, fileList[p][j]) \/ f = fileList[p][j]
      BY <1>1, <2>1, <2>8 DEF AllComplete, Complete, ShownSoFar, SearchHasWaiter
    <3>2. ASSUME NEW g \in File, NEW j \in 1..fileListIndex[p], g = fileList[p][j]
          PROVE  Shown(p, g)'
      BY <2>6, <2>7, <3>1, <3>2
    <3>3. ShownSoFar(p)'
      <4> SUFFICES ASSUME NEW j \in 1..fileListIndex[p] PROVE Shown(p, fileList[p][j])'
        BY <2>5 DEF ShownSoFar
      <4>1. PICK g \in File : g = fileList[p][j]
        BY <1>4
      <4> QED
        BY <1>1, <3>2, <4>1
    <3>4. ASSUME Ended(p)', NEW g \in Elements(fileList'[p]) PROVE Shown(p, g)'
      <4>1. g \in File /\ g \in Elements(fileList[p])
        BY <1>1, <1>4, <3>4
      <4>2. CASE stack' = stack
        <5>1. Ended(p)
          BY <3>4, <4>2 DEF Ended, FramesOf
        <5> QED
          BY <2>6, <2>8, <4>1, <5>1 DEF AllComplete, Complete
      <4>3. CASE ~MoreFiles(p, fileListIndex[p])
        <5>1. PICK j \in 1..fileListIndex[p] : g = fileList[p][j]
          BY <1>4, <4>1, <4>3 DEF MoreFiles, Elements
        <5> QED
          BY <3>2, <4>1, <5>1
      <4> QED
        BY <2>5, <4>2, <4>3
    <3> QED
      BY <3>3, <3>4 DEF Complete
  <2>9. ASSUME ~Counts(p) PROVE Complete(p)'
    BY <1>1, <2>5, <2>9 DEF Counts, Complete
  <2> QED
    BY <2>8, <2>9
<1> QED
  BY <1>2, <1>5, <1>6

LEMMA CompleteInit == Init => AllComplete
BY DEF Init, AllComplete, OneWay, Complete, Ended, FramesOf

LEMMA CompleteStep ==
    TypeInv /\ SearchHasWaiter /\ AllGuarded /\ AllComplete /\ [Next]_vars => AllComplete'
<1> SUFFICES ASSUME TypeInv, SearchHasWaiter, AllGuarded, AllComplete, [Next]_vars
             PROVE  AllComplete'
  OBVIOUS
<1>1. OneWay' /\ SearchHasWaiter'
  BY OneWayStep, WaiterStep DEF AllComplete
<1>2. ASSUME NEW p \in Pane, StartGrep(p) PROVE \A q \in Pane : Complete(q)'
  BY <1>1, <1>2, CompleteEnter, CompleteClear, CompleteStart, CompleteReturns, CompletePop
     DEF StartGrep
<1>3. ASSUME UNCHANGED <<stack, driver, text, disturbed>> PROVE \A q \in Pane : Complete(q)'
  BY <1>3, CompleteStays DEF driver, AllComplete, Counts, Ended, FramesOf
<1>4. ASSUME NEW p \in Pane, ReadPart(p) PROVE \A q \in Pane : Complete(q)'
  <2>1. UNCHANGED <<stack, fileList, fileListIndex, nextIndexId, fd, running, canceled,
                    truncated, text, disturbed>>
    BY <1>4 DEF ReadPart
  <2> QED
    BY <2>1, CompleteStays DEF AllComplete, Counts, Ended, FramesOf
<1>5. ASSUME NEW p \in Pane, Search(p) PROVE \A q \in Pane : Complete(q)'
  BY <1>4, <1>5, CompleteNext, CompleteGrepFails, CompleteReadAll DEF Search
<1>6. ASSUME NEW p \in Pane, User(p) PROVE \A q \in Pane : Complete(q)'
  BY <1>6, CompleteEnter, CompleteCancel DEF User
<1>7. ASSUME NEW f \in File, Vanish(f) PROVE \A q \in Pane : Complete(q)'
  BY <1>3, <1>7 DEF Vanish
<1>8. ASSUME UNCHANGED vars PROVE \A q \in Pane : Complete(q)'
  BY <1>3, <1>8 DEF vars
<1> QED
  BY <1>1, <1>2, <1>5, <1>6, <1>7, <1>8 DEF Next, AllComplete

(* When a search comes to its end by itself, within the limit of lines and *)
(* with no other StartGrep of its pane, the pane shows every hit of every  *)
(* file of its list, or that the file is missing, whatever earlier         *)
(* searches have left and whatever files disappear meanwhile.              *)
THEOREM ResultsAlwaysComplete == Spec => []ResultsAreComplete
<1>1. TypeInv /\ AllComplete => ResultsAreComplete
  <2> SUFFICES ASSUME TypeInv, AllComplete, NEW p \in Pane, TopIs(p, "finish"), Counts(p)
               PROVE  ShowsAll(p)
    BY DEF ResultsAreComplete, Counts
  <2>1. stack \in Seq(Frames) /\ Len(stack) \in FramesOf(p)
    BY EmptySeq DEF TypeInv, TypeOK, Frames, TopIs, Top, FramesOf
  <2>2. Ended(p)
    BY <2>1 DEF Ended, TopIs, Top
  <2> QED
    BY <2>2 DEF AllComplete, Complete, ShowsAll, Shown
<1> QED
  BY <1>1, CompleteInit, CompleteStep, TypeInvariant, RunningSearchHasWaiter,
     GuardedInit, GuardedStep, PTL DEF Spec
=============================================================================
