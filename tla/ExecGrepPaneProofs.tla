------------------------- MODULE ExecGrepPaneProofs -------------------------
(***************************************************************************)
(* What holds of a pane with the grep of the system for any searches,      *)
(* limits and numbers of channels, however StartGreps are nested.          *)
(***************************************************************************)
EXTENDS ExecGrepPane, SequenceTheorems, FiniteSetTheorems, TLAPS

Frames    == [at : {"busy", "update", "wait", "finish"}, search : Searches,
              groups : Seq(Nat), woken : BOOLEAN]
GrepState == [open : BOOLEAN, left : Nat, pipe : Nat, ended : BOOLEAN]

-----------------------------------------------------------------------------
(* The stack of StartGreps.  A new one comes to lie on top.                *)
LEMMA PushFrame ==
    ASSUME stack \in Seq(Frames), NEW f \in Frames, stack' = Append(stack, f)
    PROVE  /\ stack' \in Seq(Frames) /\ Len(stack') = Len(stack) + 1
           /\ \A i \in 1..Len(stack) : stack'[i] = stack[i]
OBVIOUS

(* The topmost returns.                                                    *)
LEMMA PopFrame ==
    ASSUME stack \in Seq(Frames), stack # <<>>
    PROVE  /\ Pop \in Seq(Frames) /\ Len(Pop) = Len(stack) - 1
           /\ \A i \in 1..(Len(stack) - 1) : Pop[i] = stack[i]
           /\ Len(stack) > 1 => Pop # <<>>
<1>1. PICK n \in Nat : Len(stack) = n + 1
  <2>1. Len(stack) \in Nat /\ Len(stack) # 0
    BY EmptySeq
  <2> QED
    BY <2>1
<1>2. Pop = SubSeq(stack, 1, n)
  BY <1>1 DEF Pop
<1>3. \A i \in 1..n : stack[i] \in Frames
  BY <1>1
<1>4. /\ Pop \in Seq(Frames)
      /\ Len(Pop) = IF 1 <= n THEN n - 1 + 1 ELSE 0
      /\ \A i \in 1..(n - 1 + 1) : Pop[i] = stack[1 + i - 1]
  BY <1>2, <1>3, SubSeqProperties
<1> QED
  BY <1>1, <1>4

(* The topmost goes on.                                                    *)
LEMMA PutFrame ==
    ASSUME NEW s \in Seq(Frames), s # <<>>, NEW f \in Frames,
           stack' = [s EXCEPT ![Len(s)] = f]
    PROVE  /\ stack' \in Seq(Frames) /\ Len(stack') = Len(s) /\ Len(s) \in 1..Len(s)
           /\ \A i \in 1..Len(s) : stack'[i] = IF i = Len(s) THEN f ELSE s[i]
<1>1. Len(s) \in 1..Len(s)
  BY EmptySeq
<1> QED
  BY <1>1, ExceptSeq

(* grep_running is written.                                                *)
LEMMA WokenFrames ==
    ASSUME NEW s \in Seq(Frames)
    PROVE  /\ Woken(s) \in Seq(Frames) /\ Len(Woken(s)) = Len(s)
           /\ s # <<>> => Woken(s) # <<>>
<1>1. \A i \in 1..Len(s) : s[i] \in Frames
  OBVIOUS
<1> DEFINE g(i) == IF s[i].at = "wait" THEN [s[i] EXCEPT !.woken = TRUE] ELSE s[i]
<1>2. \A i \in 1..Len(s) : g(i) \in Frames
  BY <1>1 DEF Frames
<1>3. Woken(s) = [i \in 1..Len(s) |-> g(i)]
  BY DEF Woken
<1>4. Woken(s) \in Seq(Frames) /\ Len(Woken(s)) = Len(s)
  <2> HIDE DEF g
  <2> QED
    BY <1>2, <1>3
<1> QED
  BY <1>4, EmptySeq

(* The topmost StartGrep is one of the frames.                             *)
LEMMA TopFrame ==
    ASSUME stack \in Seq(Frames), stack # <<>>
    PROVE  Top \in Frames /\ Top = stack[Len(stack)] /\ Len(stack) \in 1..Len(stack)
BY EmptySeq DEF Top

LEMMA GotoFrame ==
    ASSUME stack \in Seq(Frames), stack # <<>>,
           NEW at \in {"busy", "update", "wait", "finish"}, stack' = Goto(at)
    PROVE  /\ stack' \in Seq(Frames) /\ Len(stack') = Len(stack)
           /\ \A i \in 1..(Len(stack) - 1) : stack'[i] = stack[i]
<1>1. Frame(at, Top.search, Top.groups) \in Frames
  BY TopFrame DEF Frame, Frames
<1>2. stack' = [stack EXCEPT ![Len(stack)] = Frame(at, Top.search, Top.groups)]
  BY TopFrame DEF Goto, Top
<1> QED
  BY <1>1, <1>2, PutFrame

(* A round of the loop of start: the search goes to its end and nothing    *)
(* else happens, or its StartGrep waits, grep_running is set and there is  *)
(* perhaps a new grep.                                                     *)
LEMMA NextGroupEffect ==
    ASSUME stack \in Seq(Frames), stack # <<>>, NEW canceled, NEW full,
           NextGroup(Top, canceled, full)
    PROVE  /\ stack' \in Seq(Frames) /\ Len(stack') = Len(stack)
           /\ \/ /\ UNCHANGED <<greps, grep_fd, grep_running>>
                 /\ \A i \in 1..(Len(stack) - 1) : stack'[i] = stack[i]
              \/ /\ stack'[Len(stack)].at = "wait" /\ ~stack'[Len(stack)].woken
                 /\ grep_running' = TRUE
                 /\ \E n \in Nat : OpenGrep(n)
<1> DEFINE done == Top.groups = <<>> \/ canceled \/ full
<1>1. Top \in Frames /\ Len(stack) \in 1..Len(stack)
  BY TopFrame
<1>2. Top.search \in Searches /\ Top.groups \in Seq(Nat)
  BY <1>1 DEF Frames
<1>3. CASE done
  <2>1. /\ stack' = [stack EXCEPT ![Len(stack)] = Frame("finish", Top.search, Top.groups)]
        /\ UNCHANGED <<greps, grep_fd, grep_running>>
    BY <1>3 DEF NextGroup
  <2>2. Frame("finish", Top.search, Top.groups) \in Frames
    BY <1>2 DEF Frame, Frames
  <2> QED
    BY <2>1, <2>2, PutFrame
<1>4. CASE ~done
  <2> DEFINE f == Frame("wait", Top.search, Tail(Top.groups))
  <2>1. /\ stack' = [Woken(stack) EXCEPT ![Len(stack)] = f]
        /\ grep_running' = TRUE
        /\ OpenGrep(Head(Top.groups))
    BY <1>4 DEF NextGroup
  <2>2. Top.groups # <<>>
    BY <1>4
  <2>3. Head(Top.groups) \in Nat /\ Tail(Top.groups) \in Seq(Nat)
    BY <1>2, <2>2
  <2>4. f \in Frames /\ f.at = "wait" /\ ~f.woken
    BY <1>2, <2>3 DEF Frame, Frames
  <2>5. Woken(stack) \in Seq(Frames) /\ Woken(stack) # <<>> /\ Len(Woken(stack)) = Len(stack)
    BY WokenFrames
  <2>6. stack' \in Seq(Frames) /\ Len(stack') = Len(stack) /\ stack'[Len(stack)] = f
    BY <1>1, <2>1, <2>4, <2>5, PutFrame
  <2> QED
    BY <2>1, <2>3, <2>4, <2>6
<1> QED
  BY <1>3, <1>4

-----------------------------------------------------------------------------
(* The channels.                                                           *)
ChannelsOK == greps \in [Channel -> GrepState]
              /\ grep_fd \in {0} \union {c \in Channel : greps[c].open}

LEMMA OpenGrepType ==
    ASSUME ChannelsOK, NEW n \in Nat, OpenGrep(n)
    PROVE  ChannelsOK'
<1>1. CASE UNCHANGED <<greps, grep_fd>>
  BY <1>1 DEF ChannelsOK
<1>2. ASSUME NEW c \in Channel, greps' = [greps EXCEPT ![c] = Grep(n)], grep_fd' = c
      PROVE  ChannelsOK'
  <2>1. Grep(n) \in GrepState /\ Grep(n).open
    BY DEF Grep, GrepState
  <2>2. greps' \in [Channel -> GrepState] /\ greps'[c] = Grep(n)
    BY <1>2, <2>1 DEF ChannelsOK
  <2> QED
    BY <1>2, <2>1, <2>2 DEF ChannelsOK
<1> QED
  BY <1>1, <1>2 DEF OpenGrep

(* close leaves no search running, and wakes whoever waits.                *)
LEMMA CloseType ==
    ASSUME ChannelsOK, stack \in Seq(Frames), Close
    PROVE  /\ ChannelsOK' /\ grep_fd' = 0 /\ grep_running' = FALSE
           /\ stack' \in Seq(Frames) /\ Len(stack') = Len(stack)
<1>1. Closed \in GrepState
  BY DEF Closed, GrepState
<1>2. greps' \in [Channel -> GrepState] /\ grep_fd' = 0 /\ grep_running' = FALSE
  BY <1>1 DEF Close, ChannelsOK
<1> QED
  BY <1>2, WokenFrames DEF Close, ChannelsOK

-----------------------------------------------------------------------------
(* TypeOK in the words of the lemmas.                                      *)
Parts ==
    /\ stack \in Seq(Frames) /\ ChannelsOK
    /\ proceed \in BOOLEAN /\ asked \in Nat
    /\ grep_running \in BOOLEAN /\ grep_canceled \in BOOLEAN
    /\ max_search_reached \in BOOLEAN /\ disturbed \in BOOLEAN
    /\ activePattern \in {"good", "bad"}
    /\ text \in Seq({"line", "mark"}) /\ dropped \in Nat

LEMMA TypeParts == (TypeOK <=> Parts) /\ (TypeOK' <=> Parts')
BY DEF TypeOK, Parts, Frames, ChannelsOK, GrepState

LEMMA TypeInit == Init => TypeOK
<1> SUFFICES ASSUME Init PROVE TypeOK
  OBVIOUS
<1>1. Closed \in GrepState
  BY DEF Closed, GrepState
<1>2. ChannelsOK
  BY <1>1 DEF Init, ChannelsOK
<1>3. stack \in Seq(Frames) /\ text \in Seq({"line", "mark"})
  BY DEF Init
<1> QED
  BY <1>2, <1>3, TypeParts DEF Init, Parts

(* StartGrep with the buttons disabled.                                    *)
LEMMA EnterType ==
    ASSUME TypeOK, EnterSearch
    PROVE  /\ stack' \in Seq(Frames) /\ proceed' \in BOOLEAN
           /\ disturbed' = (disturbed \/ stack # <<>>)
           /\ Len(stack') \in {Len(stack), Len(stack) + 1}
           /\ \A i \in 1..Len(stack) : stack'[i] = stack[i]
<1>1. stack \in Seq(Frames) /\ proceed \in BOOLEAN
  BY TypeParts DEF Parts
<1>2. CASE proceed' = FALSE /\ UNCHANGED stack
  BY <1>1, <1>2 DEF EnterSearch
<1>3. ASSUME NEW s \in Searches, stack' = Append(stack, Frame("busy", s, s)), UNCHANGED proceed
      PROVE  /\ stack' \in Seq(Frames) /\ proceed' \in BOOLEAN
             /\ Len(stack') = Len(stack) + 1
             /\ \A i \in 1..Len(stack) : stack'[i] = stack[i]
  <2>1. Frame("busy", s, s) \in Frames
    BY SearchesAssumption DEF Frame, Frames
  <2> QED
    BY <1>1, <1>3, <2>1, PushFrame
<1> QED
  BY <1>1, <1>2, <1>3 DEF EnterSearch

(* Lines are added to the results.                                         *)
LEMMA ShownType ==
    ASSUME text \in Seq({"line", "mark"}), NEW n \in Nat
    PROVE  /\ Shown(n) \in Seq({"line", "mark"})
           /\ \A m \in Nat : Len(Shown(n)) > m => SubSeq(Shown(n), 1, m) \in Seq({"line", "mark"})
<1>1. [i \in 1..n |-> "line"] \in Seq({"line", "mark"})
  OBVIOUS
<1>2. Shown(n) \in Seq({"line", "mark"})
  BY <1>1, ConcatProperties DEF Shown
<1>3. ASSUME NEW m \in Nat, Len(Shown(n)) > m
      PROVE  SubSeq(Shown(n), 1, m) \in Seq({"line", "mark"})
  <2>1. \A i \in 1..m : Shown(n)[i] \in {"line", "mark"}
    BY <1>2, <1>3
  <2> QED
    BY <2>1, SubSeqProperties
<1> QED
  BY <1>2, <1>3

(* grepReadableEvent: what it leaves alone, and how it closes.             *)
LEMMA ServeEffect ==
    ASSUME TypeOK, NEW c \in Channel, Serve(c)
    PROVE  /\ TypeOK'
           /\ \/ Close
              \/ /\ UNCHANGED <<stack, grep_fd, grep_running>>
                 /\ \A d \in Channel : greps'[d].open = greps[d].open
           /\ disturbed' = disturbed
<1>1. /\ stack \in Seq(Frames) /\ ChannelsOK /\ text \in Seq({"line", "mark"})
      /\ max_search_reached \in BOOLEAN /\ dropped \in Nat
      /\ UNCHANGED <<proceed, asked, grep_canceled, activePattern, disturbed>>
  BY TypeParts DEF Serve, Parts
<1>2. ASSUME Close, text' \in Seq({"line", "mark"}), max_search_reached' \in BOOLEAN,
             dropped' \in Nat
      PROVE  TypeOK'
  <2>1. ChannelsOK' /\ grep_running' = FALSE /\ stack' \in Seq(Frames)
    BY <1>1, <1>2, CloseType
  <2> QED
    BY <1>1, <1>2, <2>1, TypeParts DEF Parts
<1>3. CASE ReadEof
  <2>1. dropped' \in Nat
    BY <1>1, <1>3 DEF ReadEof, ChannelsOK, GrepState
  <2> QED
    BY <1>1, <1>2, <1>3, <2>1 DEF ReadEof
<1>4. CASE Read
  <2> DEFINE n == greps[grep_fd].pipe
             full == Len(Shown(n)) > MaxMatches
  <2>1. grep_fd \in Channel /\ n \in Nat /\ MaxMatches \in Nat
    BY <1>1, <1>4, NumbersAssumption DEF Read, ChannelsOK, GrepState
  <2>2. text' \in Seq({"line", "mark"}) /\ max_search_reached' \in BOOLEAN /\ dropped' \in Nat
    <3>1. /\ text' = IF full THEN SubSeq(Shown(n), 1, MaxMatches) ELSE Shown(n)
          /\ max_search_reached' = (max_search_reached \/ full)
          /\ dropped' = dropped
      BY <1>4 DEF Read
    <3>2. text' \in Seq({"line", "mark"})
      BY <1>1, <2>1, <3>1, ShownType
    <3> QED
      BY <1>1, <3>1, <3>2
  <2>3. CASE full
    BY <1>1, <1>2, <1>4, <2>2, <2>3 DEF Read
  <2>4. CASE ~full
    <3>1. /\ greps' = [greps EXCEPT ![grep_fd].pipe = 0]
          /\ UNCHANGED <<stack, grep_fd, grep_running>>
      BY <1>4, <2>4 DEF Read
    <3>2. ChannelsOK' /\ \A d \in Channel : greps'[d].open = greps[d].open
      BY <1>1, <2>1, <3>1 DEF ChannelsOK, GrepState
    <3> QED
      BY <1>1, <2>2, <3>1, <3>2, TypeParts DEF Parts
  <2> QED
    BY <2>3, <2>4
<1> QED
  BY <1>3, <1>4 DEF Serve

-----------------------------------------------------------------------------
(* What every step does: it leaves the driver and who waits for it alone,  *)
(* or closes, or opens for the topmost StartGrep; and StartGreps lie over  *)
(* each other only if one began over another.                              *)
Waits(f) == f.at = "wait" /\ ~f.woken

Quiet == /\ UNCHANGED <<grep_fd, grep_running>>
         /\ \A d \in Channel : greps'[d].open = greps[d].open
         /\ \A i \in 1..Len(stack) :
               Waits(stack[i]) => i \in 1..Len(stack') /\ stack'[i] = stack[i]

Opens == /\ stack # <<>> /\ ~Waits(Top)
         /\ Len(stack') = Len(stack) /\ Waits(stack'[Len(stack)])
         /\ grep_running' = TRUE
         /\ \E n \in Nat : OpenGrep(n)

Nested == Len(stack) > 1 => disturbed

Effect == TypeOK' /\ (Quiet \/ Close \/ Opens) /\ (Nested => Nested')

(* A StartGrep is asked for, or runs that was put off.                     *)
LEMMA EnterEffect ==
    ASSUME TypeOK, AskSearch \/ RunAsked
    PROVE  Effect
<1>1. Parts
  BY TypeParts
<1>2. UNCHANGED <<driver, text, dropped>> /\ asked' \in Nat
  BY <1>1 DEF AskSearch, RunAsked, Parts
<1>3. (UNCHANGED <<stack, disturbed>> /\ proceed' = TRUE) \/ EnterSearch
  BY DEF AskSearch, RunAsked
<1>4. CASE UNCHANGED <<stack, disturbed>> /\ proceed' = TRUE
  <2>1. TypeOK'
    BY <1>1, <1>2, <1>4, TypeParts DEF Parts, driver, ChannelsOK
  <2>2. Quiet /\ (Nested => Nested')
    BY <1>2, <1>4 DEF Quiet, Nested, driver
  <2> QED
    BY <2>1, <2>2 DEF Effect
<1>5. CASE EnterSearch
  <2>1. /\ stack' \in Seq(Frames) /\ proceed' \in BOOLEAN
        /\ disturbed' = (disturbed \/ stack # <<>>)
        /\ Len(stack') \in {Len(stack), Len(stack) + 1}
        /\ \A i \in 1..Len(stack) : stack'[i] = stack[i]
    BY <1>5, EnterType
  <2>2. stack \in Seq(Frames) /\ disturbed' \in BOOLEAN
    BY <1>1, <2>1 DEF Parts
  <2>3. TypeOK'
    BY <1>1, <1>2, <2>1, <2>2, TypeParts DEF Parts, driver, ChannelsOK
  <2>4. Quiet
    BY <1>2, <2>1, <2>2 DEF Quiet, driver
  <2>5. Nested => Nested'
    <3>1. Len(stack) \in Nat /\ (Len(stack) > 0 => stack # <<>>)
      BY <2>2, EmptySeq
    <3>2. ASSUME Len(stack') > 1 PROVE disturbed'
      <4>1. Len(stack) > 0
        BY <2>1, <3>1, <3>2
      <4> QED
        BY <2>1, <3>1, <4>1
    <3> QED
      BY <3>2 DEF Nested
  <2> QED
    BY <2>3, <2>4, <2>5 DEF Effect
<1> QED
  BY <1>3, <1>4, <1>5

(* The topmost StartGrep returns, and did not wait for a search.           *)
LEMMA ReturnEffect ==
    ASSUME TypeOK, stack # <<>>, ~Waits(Top), stack' = Pop, disturbed' = Alone(Pop),
           UNCHANGED <<driver, dropped>>, asked' \in Nat, proceed' \in BOOLEAN,
           text' \in Seq({"line", "mark"})
    PROVE  Effect
<1>1. Parts /\ stack \in Seq(Frames)
  BY TypeParts DEF Parts
<1>2. /\ Pop \in Seq(Frames) /\ Len(Pop) = Len(stack) - 1
      /\ \A i \in 1..(Len(stack) - 1) : Pop[i] = stack[i]
      /\ Len(stack) > 1 => Pop # <<>>
  BY <1>1, PopFrame
<1>3. Top = stack[Len(stack)] /\ Len(stack) \in Nat
  BY <1>1 DEF Top
<1>4. TypeOK'
  BY <1>1, <1>2, TypeParts DEF Parts, driver, ChannelsOK, Alone
<1>5. Quiet
  <2>1. \A i \in 1..Len(stack) : Waits(stack[i]) => i \in 1..(Len(stack) - 1)
    BY <1>3
  <2> QED
    BY <1>2, <2>1 DEF Quiet, driver
<1>6. ASSUME Nested PROVE Nested'
  <2>1. ASSUME Len(stack') > 1 PROVE disturbed'
    <3>1. Len(stack) > 1
      BY <1>2, <1>3, <2>1
    <3>2. disturbed /\ Pop # <<>>
      BY <1>2, <1>6, <3>1 DEF Nested
    <3> QED
      BY <3>2 DEF Alone
  <2> QED
    BY <2>1 DEF Nested
<1> QED
  BY <1>4, <1>5, <1>6 DEF Effect

(* A round of the loop of start.                                           *)
LEMMA GroupEffect ==
    ASSUME TypeOK, Start \/ GroupEnds
    PROVE  Effect
<1>1. Parts /\ stack \in Seq(Frames) /\ ChannelsOK
  BY TypeParts DEF Parts
<1>2. stack # <<>> /\ ~Waits(Top)
  BY DEF Start, GroupEnds, TopAt, Waits
<1>3. /\ \E canceled, full : NextGroup(Top, canceled, full)
      /\ grep_canceled' \in BOOLEAN /\ max_search_reached' \in BOOLEAN /\ dropped' \in Nat
      /\ UNCHANGED <<proceed, asked, text, disturbed>> /\ activePattern' \in {"good", "bad"}
  <2>1. CASE Start
    BY <2>1 DEF Start
  <2>2. CASE GroupEnds
    BY <1>1, <2>2 DEF GroupEnds, Parts, history
  <2> QED
    BY <2>1, <2>2
<1>4. /\ stack' \in Seq(Frames) /\ Len(stack') = Len(stack)
      /\ \/ /\ UNCHANGED <<greps, grep_fd, grep_running>>
            /\ \A i \in 1..(Len(stack) - 1) : stack'[i] = stack[i]
         \/ /\ stack'[Len(stack)].at = "wait" /\ ~stack'[Len(stack)].woken
            /\ grep_running' = TRUE
            /\ \E n \in Nat : OpenGrep(n)
  BY <1>1, <1>2, <1>3, NextGroupEffect
<1>5. Nested => Nested'
  BY <1>3, <1>4 DEF Nested
<1>6. CASE /\ UNCHANGED <<greps, grep_fd, grep_running>>
           /\ \A i \in 1..(Len(stack) - 1) : stack'[i] = stack[i]
  <2>1. TypeOK'
    BY <1>1, <1>3, <1>4, <1>6, TypeParts DEF Parts, ChannelsOK
  <2>2. \A i \in 1..Len(stack) : Waits(stack[i]) => i \in 1..(Len(stack) - 1)
    BY <1>1, <1>2 DEF Top
  <2>3. Quiet
    BY <1>4, <1>6, <2>2 DEF Quiet
  <2> QED
    BY <1>5, <2>1, <2>3 DEF Effect
<1>7. CASE /\ stack'[Len(stack)].at = "wait" /\ ~stack'[Len(stack)].woken
           /\ grep_running' = TRUE
           /\ \E n \in Nat : OpenGrep(n)
  <2>1. ChannelsOK'
    BY <1>1, <1>7, OpenGrepType
  <2>2. TypeOK'
    BY <1>1, <1>3, <1>4, <1>7, <2>1, TypeParts DEF Parts
  <2>3. Opens
    BY <1>2, <1>4, <1>7 DEF Opens, Waits
  <2> QED
    BY <1>5, <2>2, <2>3 DEF Effect
<1> QED
  BY <1>4, <1>6, <1>7

(* The grep of a channel writes, or ends.                                  *)
LEMMA GrepEffect ==
    ASSUME TypeOK, NEW c \in Channel, Write(c) \/ End(c)
    PROVE  Effect
<1>1. Parts /\ ChannelsOK /\ greps \in [Channel -> GrepState]
  BY TypeParts DEF Parts, ChannelsOK
<1>2. UNCHANGED <<stack, proceed, asked, grep_fd, grep_running, grep_canceled,
                  max_search_reached, activePattern, text, disturbed, dropped>>
  BY DEF Write, End, history
<1>3. /\ greps' \in [Channel -> GrepState]
      /\ \A d \in Channel : greps'[d].open = greps[d].open
  <2>1. CASE End(c)
    BY <1>1, <2>1 DEF End, GrepState
  <2>2. ASSUME NEW n \in 1..greps[c].left,
               greps' = [greps EXCEPT ![c].left = @ - n, ![c].pipe = @ + n]
        PROVE  /\ greps' \in [Channel -> GrepState]
               /\ \A d \in Channel : greps'[d].open = greps[d].open
    <3>1. greps[c].left - n \in Nat /\ greps[c].pipe + n \in Nat
      BY <1>1 DEF GrepState
    <3> QED
      BY <1>1, <2>2, <3>1 DEF GrepState
  <2> QED
    BY <2>1, <2>2 DEF Write
<1>4. TypeOK'
  BY <1>1, <1>2, <1>3, TypeParts DEF Parts, ChannelsOK
<1>5. Quiet /\ (Nested => Nested')
  BY <1>2, <1>3 DEF Quiet, Nested
<1> QED
  BY <1>4, <1>5 DEF Effect

(* The channel of the driver is closed, or read.                           *)
LEMMA CloseEffect ==
    ASSUME TypeOK, Cancel \/ \E c \in Channel : Serve(c)
    PROVE  Effect
<1>1. Parts /\ ChannelsOK /\ stack \in Seq(Frames)
  BY TypeParts DEF Parts
<1>2. ASSUME Close, UNCHANGED disturbed PROVE Nested => Nested'
  BY <1>1, <1>2, CloseType DEF Nested
<1>3. CASE Cancel
  <2>1. /\ Close /\ grep_canceled' = TRUE
        /\ UNCHANGED <<proceed, asked, max_search_reached, activePattern, text, disturbed,
                       dropped>>
    BY <1>3 DEF Cancel, history
  <2>2. ChannelsOK' /\ grep_running' = FALSE /\ stack' \in Seq(Frames)
    BY <1>1, <2>1, CloseType
  <2>3. TypeOK'
    BY <1>1, <2>1, <2>2, TypeParts DEF Parts
  <2> QED
    BY <1>2, <2>1, <2>3 DEF Effect
<1>4. ASSUME NEW c \in Channel, Serve(c) PROVE Effect
  <2>1. /\ TypeOK' /\ disturbed' = disturbed
        /\ \/ Close
           \/ /\ UNCHANGED <<stack, grep_fd, grep_running>>
              /\ \A d \in Channel : greps'[d].open = greps[d].open
    BY <1>4, ServeEffect
  <2>2. CASE Close
    BY <1>2, <2>1, <2>2 DEF Effect
  <2>3. CASE /\ UNCHANGED <<stack, grep_fd, grep_running>>
             /\ \A d \in Channel : greps'[d].open = greps[d].open
    BY <2>1, <2>3 DEF Effect, Quiet, Nested
  <2> QED
    BY <2>1, <2>2, <2>3
<1> QED
  BY <1>3, <1>4

LEMMA StepEffect ==
    ASSUME TypeOK, [Next]_vars
    PROVE  Effect
<1>1. Parts /\ stack \in Seq(Frames)
  BY TypeParts DEF Parts
<1>2. CASE AskSearch \/ RunAsked
  BY <1>2, EnterEffect
<1>3. CASE ClearResults
  <2>1. /\ stack # <<>> /\ ~Waits(Top) /\ stack' = Goto("update") /\ text' = <<>>
        /\ UNCHANGED <<proceed, asked, greps, grep_fd, grep_running, grep_canceled,
                       max_search_reached, activePattern, disturbed, dropped>>
    BY <1>3 DEF ClearResults, TopAt, Waits, driver, history
  <2>2. /\ stack' \in Seq(Frames) /\ Len(stack') = Len(stack)
        /\ \A i \in 1..(Len(stack) - 1) : stack'[i] = stack[i]
    BY <1>1, <2>1, GotoFrame
  <2>3. text' \in Seq({"line", "mark"})
    BY <2>1
  <2>4. TypeOK'
    BY <1>1, <2>1, <2>2, <2>3, TypeParts DEF Parts, ChannelsOK
  <2>5. \A i \in 1..Len(stack) : Waits(stack[i]) => i \in 1..(Len(stack) - 1)
    BY <1>1, <2>1 DEF Top
  <2>6. Quiet /\ (Nested => Nested')
    BY <2>1, <2>2, <2>5 DEF Quiet, Nested
  <2> QED
    BY <2>4, <2>6 DEF Effect
<1>4. CASE Start \/ GroupEnds
  BY <1>4, GroupEffect
<1>5. CASE StartFails \/ FinishFails
  <2>1. /\ stack # <<>> /\ ~Waits(Top) /\ stack' = Pop /\ disturbed' = Alone(Pop)
        /\ UNCHANGED <<proceed, asked, driver, text, dropped>>
    BY <1>5 DEF StartFails, FinishFails, TopAt, Waits
  <2> QED
    BY <1>1, <2>1, ReturnEffect DEF Parts
<1>6. CASE FinishGrep
  <2>1. /\ stack # <<>> /\ ~Waits(Top) /\ stack' = Pop /\ disturbed' = Alone(Pop)
        /\ UNCHANGED <<asked, driver, dropped>> /\ proceed' = FALSE
        /\ text' \in {Append(text, "mark"), text}
    BY <1>6 DEF FinishGrep, TopAt, Waits
  <2>2. text' \in Seq({"line", "mark"})
    BY <1>1, <2>1 DEF Parts
  <2> QED
    BY <1>1, <2>1, <2>2, ReturnEffect DEF Parts
<1>7. ASSUME NEW c \in Channel, Write(c) \/ End(c) PROVE Effect
  BY <1>7, GrepEffect
<1>8. CASE Cancel \/ \E c \in Channel : Serve(c)
  BY <1>8, CloseEffect
<1>9. CASE UNCHANGED vars
  <2>1. TypeOK'
    BY <1>1, <1>9, TypeParts DEF Parts, vars, driver, history, ChannelsOK
  <2>2. Quiet /\ (Nested => Nested')
    BY <1>9 DEF vars, driver, history, Quiet, Nested
  <2> QED
    BY <2>1, <2>2 DEF Effect
<1> QED
  BY <1>2, <1>3, <1>4, <1>5, <1>6, <1>7, <1>8, <1>9 DEF Next, StartGrep, User

(* The state of a pane stays of its type.                                  *)
THEOREM TypeCorrect == Spec => []TypeOK
<1>1. ASSUME TypeOK, [Next]_vars PROVE TypeOK'
  BY <1>1, StepEffect DEF Effect
<1> QED
  BY <1>1, TypeInit, PTL DEF Spec

-----------------------------------------------------------------------------
LEMMA WaiterInit == Init => SearchHasWaiter
BY DEF Init, SearchHasWaiter

LEMMA WaiterStep ==
    ASSUME TypeOK, SearchHasWaiter, [Next]_vars
    PROVE  SearchHasWaiter'
<1>1. Parts /\ ChannelsOK /\ stack \in Seq(Frames)
  BY TypeParts DEF Parts
<1>2. TypeOK' /\ (Quiet \/ Close \/ Opens)
  BY StepEffect DEF Effect
<1>3. CASE Quiet
  <2>1. grep_fd' # 0 => grep_running'
    BY <1>3 DEF Quiet, SearchHasWaiter
  <2>2. ASSUME grep_running' PROVE \E i \in 1..Len(stack') : Waits(stack'[i])
    <3>1. PICK i \in 1..Len(stack) : Waits(stack[i])
      BY <1>3, <2>2 DEF Quiet, SearchHasWaiter, Waits
    <3> QED
      BY <1>3, <3>1 DEF Quiet
  <2> QED
    BY <2>1, <2>2 DEF SearchHasWaiter, Waits
<1>4. CASE Close
  BY <1>1, <1>4, CloseType DEF SearchHasWaiter
<1>5. CASE Opens
  <2>1. Len(stack') \in 1..Len(stack')
    BY <1>1, <1>5, EmptySeq DEF Opens
  <2> QED
    BY <1>5, <2>1 DEF Opens, SearchHasWaiter, Waits
<1> QED
  BY <1>2, <1>3, <1>4, <1>5

(* While a search runs, a StartGrep waits for it that nobody has woken,    *)
(* and it runs whenever the driver has a channel: a nested StartGrep, a    *)
(* cancelled one and the event of a channel left behind included.          *)
THEOREM RunningSearchHasWaiter == Spec => []SearchHasWaiter
<1> QED
  BY TypeInit, WaiterInit, TypeCorrect, WaiterStep, PTL DEF Spec

(* A channel is left behind only while one StartGrep lies over another:    *)
(* the channel it is taken from has a StartGrep that waits for it below.   *)
LEMMA LeakStep ==
    ASSUME TypeOK, SearchHasWaiter, Nested, [Next]_vars,
           NEW c \in Channel, ~Leaked(c), Leaked(c)'
    PROVE  disturbed
<1>1. Parts /\ ChannelsOK /\ stack \in Seq(Frames)
  BY TypeParts DEF Parts
<1>2. Quiet \/ Close \/ Opens
  BY StepEffect DEF Effect
<1>3. ~Quiet
  BY DEF Quiet, Leaked
<1>4. ~Close
  BY <1>1 DEF Close, Leaked, Closed, ChannelsOK
<1>5. CASE Opens
  <2>1. PICK n \in Nat : OpenGrep(n)
    BY <1>5 DEF Opens
  <2>2. grep_fd = c
    BY <1>1, <2>1 DEF OpenGrep, Leaked, ChannelsOK
  <2>3. grep_fd # 0
    BY <2>2, NumbersAssumption DEF Channel
  <2>4. PICK i \in 1..Len(stack) : Waits(stack[i])
    BY <2>3 DEF SearchHasWaiter, Waits
  <2>5. i # Len(stack) /\ Len(stack) \in Nat
    BY <1>1, <1>5, <2>4 DEF Opens, Top
  <2> QED
    BY <2>4, <2>5 DEF Nested
<1> QED
  BY <1>2, <1>3, <1>4, <1>5

(* No grep is left behind, whose pipe nobody reads, unless a StartGrep was *)
(* called over a search: that start does not close what it finds does no   *)
(* harm by itself.                                                         *)
THEOREM LeaksOnlyByNesting == Spec => LeftBehindOnlyByNesting
<1>1. Init => Nested
  BY DEF Init, Nested
<1>2. ASSUME TypeOK, Nested, [Next]_vars PROVE Nested'
  BY <1>2, StepEffect DEF Effect
<1>3. ASSUME TypeOK, SearchHasWaiter, Nested, [Next]_vars
      PROVE  [(\E c \in Channel : ~Leaked(c) /\ Leaked(c)') => disturbed]_vars
  BY <1>3, LeakStep
<1> QED
  BY <1>1, <1>2, <1>3, TypeCorrect, RunningSearchHasWaiter, PTL
  DEF Spec, LeftBehindOnlyByNesting
-----------------------------------------------------------------------------
(* The number of lines of a search.                                        *)
LEMMA SumType ==
    ASSUME NEW s \in Seq(Nat)
    PROVE  IsFiniteSet(Lines(s)) /\ Sum(s) \in Nat
<1> DEFINE I == 1..Len(s)
           T == {{i} \X (1..s[i]) : i \in I}
           f == [i \in I |-> {i} \X (1..s[i])]
<1>1. IsFiniteSet(I)
  BY FS_Interval
<1>2. f \in Surjection(I, T)
  BY DEF Surjection
<1>3. IsFiniteSet(T)
  BY <1>1, <1>2, FS_Surjection
<1>4. ASSUME NEW i \in I PROVE IsFiniteSet({i} \X (1..s[i]))
  <2>1. IsFiniteSet({i})
    BY FS_Singleton
  <2>2. IsFiniteSet(1..s[i])
    <3>1. s[i] \in Nat
      OBVIOUS
    <3> QED
      BY <3>1, FS_Interval
  <2> QED
    BY <2>1, <2>2, FS_Product
<1>5. IsFiniteSet(UNION T)
  BY <1>3, <1>4, FS_UNION
<1> QED
  BY <1>5, FS_CardinalityType DEF Lines, Sum

LEMMA SumOfNone == Sum(<<>>) = 0
<1>1. Lines(<<>>) = {}
  BY DEF Lines
<1> QED
  BY <1>1, FS_EmptySet DEF Sum

(* The lines of the first group, and those of the others.                  *)
LEMMA SumOfTail ==
    ASSUME NEW s \in Seq(Nat), s # <<>>
    PROVE  Sum(s) = Head(s) + Sum(Tail(s))
<1> DEFINE t == Tail(s)
           A == {1} \X (1..Head(s))
           B == {<<p[1] + 1, p[2]>> : p \in Lines(t)}
           f == [p \in Lines(t) |-> <<p[1] + 1, p[2]>>]
<1>1. /\ t \in Seq(Nat) /\ Head(s) \in Nat /\ Head(s) = s[1]
      /\ Len(s) \in Nat /\ Len(s) >= 1 /\ Len(t) = Len(s) - 1
      /\ \A i \in 1..Len(t) : t[i] = s[i + 1]
  BY EmptySeq
<1>2. \A q \in Lines(t) : /\ q = <<q[1], q[2]>> /\ q[1] \in 1..Len(t)
                          /\ q[2] \in 1..t[q[1]]
  BY DEF Lines
<1>3. f \in Bijection(Lines(t), B)
  <2>1. f \in [Lines(t) -> B]
    OBVIOUS
  <2>2. ASSUME NEW p \in Lines(t), NEW q \in Lines(t), f[p] = f[q] PROVE p = q
    <3>1. p[1] + 1 = q[1] + 1 /\ p[2] = q[2]
      BY <2>2
    <3>2. p[1] \in Nat /\ q[1] \in Nat
      BY <1>1, <1>2
    <3>3. p = <<p[1], p[2]>> /\ q = <<q[1], q[2]>>
      BY <1>2
    <3>4. p[1] = q[1]
      BY <3>1, <3>2
    <3> QED
      BY <3>1, <3>3, <3>4
  <2>3. \A b \in B : \E p \in Lines(t) : f[p] = b
    OBVIOUS
  <2> QED
    BY <2>1, <2>2, <2>3 DEF Bijection, Injection, Surjection, IsInjective
<1>4. IsFiniteSet(Lines(t)) /\ Cardinality(Lines(t)) = Sum(t) /\ Sum(t) \in Nat
  BY <1>1, SumType DEF Sum
<1>5. IsFiniteSet(B) /\ Cardinality(B) = Sum(t)
  <2>1. ExistsBijection(Lines(t), B)
    BY <1>3 DEF ExistsBijection
  <2> HIDE DEF B, t, f
  <2> QED
    BY <1>4, <2>1, FS_Bijection
<1>6. IsFiniteSet(A) /\ Cardinality(A) = Head(s)
  <2>1. IsFiniteSet({1}) /\ Cardinality({1}) = 1
    BY FS_Singleton
  <2>2. IsFiniteSet(1..Head(s)) /\ Cardinality(1..Head(s)) = Head(s)
    BY <1>1, FS_Interval
  <2>3. IsFiniteSet(A) /\ Cardinality(A) = Cardinality({1}) * Cardinality(1..Head(s))
    BY <2>1, <2>2, FS_Product
  <2> QED
    BY <1>1, <2>1, <2>2, <2>3
<1>7. Lines(s) = A \union B
  <2>1. ASSUME NEW q \in Lines(s) PROVE q \in A \union B
    <3>1. PICK i \in 1..Len(s) : q \in {i} \X (1..s[i])
      BY DEF Lines
    <3>2. CASE i = 1
      BY <1>1, <3>1, <3>2
    <3>3. CASE i # 1
      <4> DEFINE p == <<i - 1, q[2]>>
      <4>1. i - 1 \in 1..Len(t) /\ t[i - 1] = s[i] /\ q = <<i, q[2]>> /\ q[2] \in 1..s[i]
        BY <1>1, <3>1, <3>3
      <4>2. p \in Lines(t)
        BY <4>1 DEF Lines
      <4>3. q = <<p[1] + 1, p[2]>>
        BY <4>1
      <4> QED
        BY <4>2, <4>3
    <3> QED
      BY <3>2, <3>3
  <2>2. ASSUME NEW q \in A PROVE q \in Lines(s)
    BY <1>1, <2>2 DEF Lines
  <2>3. ASSUME NEW p \in Lines(t) PROVE <<p[1] + 1, p[2]>> \in Lines(s)
    <3>1. p[1] \in 1..Len(t) /\ p[2] \in 1..t[p[1]]
      BY <1>2
    <3>2. p[1] + 1 \in 1..Len(s) /\ t[p[1]] = s[p[1] + 1]
      BY <1>1, <3>1
    <3> QED
      BY <3>1, <3>2 DEF Lines
  <2> QED
    BY <2>1, <2>2, <2>3
<1>8. A \intersect B = {}
  <2>1. \A p \in Lines(t) : p[1] + 1 # 1
    BY <1>1, <1>2
  <2> QED
    BY <2>1
<1>9. Cardinality(Lines(s)) = Cardinality(A) + Cardinality(B) - Cardinality(A \intersect B)
  BY <1>5, <1>6, <1>7, FS_Union
<1>10. Cardinality(A \intersect B) = 0
  BY <1>8, FS_EmptySet
<1> HIDE DEF A, B, t
<1> QED
  BY <1>1, <1>4, <1>5, <1>6, <1>9, <1>10 DEF Sum, t

-----------------------------------------------------------------------------
(* What ResultsAreComplete rests on.  Nothing went wrong with the search   *)
(* of the topmost StartGrep ...                                            *)
Unharmed ==
    /\ ~disturbed /\ ~grep_canceled /\ ~max_search_reached
    /\ \A c \in Channel : ~Leaked(c)

(* ... so every line of the groups it has run so far is shown, dropped, or *)
(* still to come from the grep of the driver.                              *)
Found == Len(text) + dropped

Accounted(f) ==
    /\ f.at = "wait" /\ grep_fd # 0 =>
          Found + greps[grep_fd].pipe + greps[grep_fd].left + Sum(f.groups) = Sum(f.search)
    /\ f.at = "wait" /\ f.woken => Found + Sum(f.groups) = Sum(f.search)
    /\ f.at = "finish" => Found = Sum(f.search)

Accounts == Unharmed /\ stack # <<>> => Accounted(Top)

(* It starts with all of its groups, whatever the search before came to.   *)
Fresh == ~disturbed /\ stack # <<>> =>
            (Top.at \in {"busy", "update"} => Top.groups = Top.search)

NothingAfterEnd == \A c \in Channel : greps[c].ended => greps[c].left = 0

Reckoned == Fresh /\ NothingAfterEnd /\ Accounts

LEMMA ReckonedInit == Init => Reckoned
BY DEF Init, Reckoned, Fresh, NothingAfterEnd, Accounts, Closed

(* A channel that was left behind stays so: it is never closed, and never  *)
(* the next one to be opened.                                              *)
LEMMA LeaksStay ==
    ASSUME TypeOK, [Next]_vars, NEW c \in Channel, Leaked(c)
    PROVE  Leaked(c)'
<1>1. Parts /\ ChannelsOK
  BY TypeParts DEF Parts
<1>2. Quiet \/ Close \/ Opens
  BY StepEffect DEF Effect
<1>3. CASE Quiet
  BY <1>3 DEF Quiet, Leaked
<1>4. CASE Close
  <2>1. c # 0
    BY NumbersAssumption DEF Channel
  <2> QED
    BY <1>1, <1>4, <2>1 DEF Close, Leaked, ChannelsOK
<1>5. CASE Opens
  BY <1>1, <1>5 DEF Opens, OpenGrep, Leaked, ChannelsOK
<1> QED
  BY <1>2, <1>3, <1>4, <1>5

(* A StartGrep over which none was called is the only one.                 *)
LEMMA OnlyFrame ==
    ASSUME TypeOK, Nested, ~disturbed, stack # <<>>
    PROVE  Len(stack) = 1 /\ Top = stack[1] /\ Top \in Frames
<1>1. stack \in Seq(Frames)
  BY TypeParts DEF Parts
<1>2. Len(stack) \in Nat /\ Len(stack) # 0
  BY <1>1, EmptySeq
<1>3. Len(stack) = 1
  <2>1. ~(Len(stack) > 1)
    BY DEF Nested
  <2>2. \A n \in Nat : n # 0 /\ ~(n > 1) => n = 1
    OBVIOUS
  <2> QED
    BY <1>2, <2>1, <2>2
<1> QED
  BY <1>1, <1>3, TopFrame

(* The driver reads a channel only for the StartGrep that waits.           *)
LEMMA OnlyWaiter ==
    ASSUME TypeOK, Nested, SearchHasWaiter, ~disturbed, stack # <<>>, grep_fd # 0
    PROVE  Waits(Top)
<1>1. Len(stack) = 1 /\ Top = stack[1]
  BY OnlyFrame
<1>2. PICK i \in 1..Len(stack) : Waits(stack[i])
  BY DEF SearchHasWaiter, Waits
<1> QED
  BY <1>1, <1>2

-----------------------------------------------------------------------------
(* Everyone who waits is woken, the topmost StartGrep with them.           *)
LEMMA WokenTop ==
    ASSUME stack \in Seq(Frames), stack # <<>>, stack' = Woken(stack)
    PROVE  /\ stack' # <<>>
           /\ Top'.at = Top.at /\ Top'.search = Top.search /\ Top'.groups = Top.groups
<1>1. Woken(stack) \in Seq(Frames) /\ Len(Woken(stack)) = Len(stack) /\ Woken(stack) # <<>>
  BY WokenFrames
<1>2. Top \in Frames /\ Top = stack[Len(stack)] /\ Len(stack) \in 1..Len(stack)
  BY TopFrame
<1>3. Woken(stack)[Len(stack)] = IF Top.at = "wait" THEN [Top EXCEPT !.woken = TRUE] ELSE Top
  BY <1>2 DEF Woken
<1>4. Top' = IF Top.at = "wait" THEN [Top EXCEPT !.woken = TRUE] ELSE Top
  <2>1. Top' = stack'[Len(stack')]
    BY DEF Top
  <2> QED
    BY <1>1, <1>3, <2>1
<1> QED
  BY <1>1, <1>2, <1>4 DEF Frames

(* The topmost StartGrep goes on.                                          *)
LEMMA NextTop ==
    ASSUME NEW s \in Seq(Frames), s # <<>>, NEW f \in Frames,
           stack' = [s EXCEPT ![Len(s)] = f]
    PROVE  Top' = f /\ stack' # <<>>
<1>1. /\ stack' \in Seq(Frames) /\ Len(stack') = Len(s) /\ Len(s) \in 1..Len(s)
      /\ \A i \in 1..Len(s) : stack'[i] = IF i = Len(s) THEN f ELSE s[i]
  BY PutFrame
<1>2. Top' = stack'[Len(stack')]
  BY DEF Top
<1>3. stack'[Len(s)] = f
  BY <1>1
<1> QED
  BY <1>1, <1>2, <1>3, EmptySeq

LEMMA NextGroupTop ==
    ASSUME stack \in Seq(Frames), stack # <<>>, NEW canceled, NEW full,
           NextGroup(Top, canceled, full)
    PROVE  /\ stack' # <<>>
           /\ \/ /\ Top.groups = <<>> \/ canceled \/ full
                 /\ Top' = Frame("finish", Top.search, Top.groups)
                 /\ UNCHANGED <<greps, grep_fd>>
              \/ /\ Top.groups # <<>>
                 /\ Top' = Frame("wait", Top.search, Tail(Top.groups))
                 /\ OpenGrep(Head(Top.groups))
<1> DEFINE done == Top.groups = <<>> \/ canceled \/ full
<1>1. Top.search \in Searches /\ Top.groups \in Seq(Nat)
  BY TopFrame DEF Frames
<1>2. CASE done
  <2> DEFINE f == Frame("finish", Top.search, Top.groups)
  <2>1. stack' = [stack EXCEPT ![Len(stack)] = f] /\ UNCHANGED <<greps, grep_fd>>
    BY <1>2 DEF NextGroup
  <2>2. f \in Frames
    BY <1>1 DEF Frame, Frames
  <2>3. Top' = f /\ stack' # <<>>
    BY <2>1, <2>2, NextTop
  <2> QED
    BY <1>2, <2>1, <2>3
<1>3. CASE ~done
  <2> DEFINE f == Frame("wait", Top.search, Tail(Top.groups))
  <2>1. stack' = [Woken(stack) EXCEPT ![Len(stack)] = f] /\ OpenGrep(Head(Top.groups))
    BY <1>3 DEF NextGroup
  <2>2. Top.groups # <<>> /\ Tail(Top.groups) \in Seq(Nat)
    BY <1>1, <1>3
  <2>3. f \in Frames
    BY <1>1, <2>2 DEF Frame, Frames
  <2>4. Woken(stack) \in Seq(Frames) /\ Woken(stack) # <<>> /\ Len(Woken(stack)) = Len(stack)
    BY WokenFrames
  <2>5. stack' = [Woken(stack) EXCEPT ![Len(Woken(stack))] = f]
    BY <2>1, <2>4
  <2>6. Top' = f /\ stack' # <<>>
    BY <2>3, <2>4, <2>5, NextTop
  <2> QED
    BY <2>1, <2>2, <2>6
<1> QED
  BY <1>2, <1>3

(* A round of the loop of start, when the groups before have been reckoned *)
(* up: their lines are found, and those of the next group are to come.     *)
LEMMA RoundAccounts ==
    ASSUME TypeOK, stack # <<>>, NEW canceled, NEW full, ~canceled, ~full,
           NextGroup(Top, canceled, full), grep_fd = 0,
           Found' \in Nat, Found' + Sum(Top.groups) = Sum(Top.search)
    PROVE  Accounted(Top)'
<1>1. Parts /\ ChannelsOK /\ stack \in Seq(Frames)
  BY TypeParts DEF Parts
<1>2. Top.search \in Seq(Nat) /\ Top.groups \in Seq(Nat)
  BY <1>1, TopFrame, SearchesAssumption DEF Frames
<1>3. Sum(Top.search) \in Nat /\ Sum(Top.groups) \in Nat
  BY <1>2, SumType
<1>4. \/ /\ Top.groups = <<>>
         /\ Top' = Frame("finish", Top.search, Top.groups)
      \/ /\ Top.groups # <<>>
         /\ Top' = Frame("wait", Top.search, Tail(Top.groups))
         /\ OpenGrep(Head(Top.groups))
  BY <1>1, NextGroupTop
<1>5. CASE /\ Top.groups = <<>>
           /\ Top' = Frame("finish", Top.search, Top.groups)
  <2>1. Found' = Sum(Top.search)
    BY <1>3, <1>5, SumOfNone
  <2>2. Top'.at = "finish" /\ Top'.search = Top.search
    BY <1>5 DEF Frame
  <2> QED
    BY <2>1, <2>2 DEF Accounted
<1>6. CASE /\ Top.groups # <<>>
           /\ Top' = Frame("wait", Top.search, Tail(Top.groups))
           /\ OpenGrep(Head(Top.groups))
  <2> DEFINE n == Head(Top.groups)
             rest == Sum(Tail(Top.groups))
  <2>1. /\ Top'.at = "wait" /\ ~Top'.woken /\ Top'.search = Top.search
        /\ Top'.groups = Tail(Top.groups)
    BY <1>6 DEF Frame
  <2>2. Sum(Top.groups) = n + rest
    BY <1>2, <1>6, SumOfTail
  <2>3. n \in Nat /\ rest \in Nat
    <3>1. n \in Nat /\ Tail(Top.groups) \in Seq(Nat)
      BY <1>2, <1>6
    <3> QED
      BY <3>1, SumType
  <2>4. ASSUME grep_fd' # 0
        PROVE  Found' + greps'[grep_fd'].pipe + greps'[grep_fd'].left + rest = Sum(Top.search)
    <3>1. PICK c \in Channel : greps' = [greps EXCEPT ![c] = Grep(n)] /\ grep_fd' = c
      BY <1>6, <2>4 DEF OpenGrep
    <3>2. greps'[grep_fd'] = Grep(n)
      BY <1>1, <3>1 DEF ChannelsOK
    <3>3. greps'[grep_fd'].pipe = 0 /\ greps'[grep_fd'].left = n
      BY <3>2 DEF Grep
    <3> DEFINE found == Found' all == Sum(Top.search) part == Sum(Top.groups)
    <3>4. found \in Nat /\ found + part = all /\ part = n + rest
      BY <2>2
    <3> HIDE DEF found, all, part, n, rest
    <3>5. found + 0 + n + rest = all
      BY <2>3, <3>4
    <3> QED
      BY <3>3, <3>5 DEF found, all
  <2> QED
    BY <2>1, <2>4 DEF Accounted
<1> QED
  BY <1>4, <1>5, <1>6

LEMMA ReckonedEnter ==
    ASSUME TypeOK, Nested, Reckoned, AskSearch \/ RunAsked
    PROVE  Reckoned'
<1>1. Parts /\ stack \in Seq(Frames)
  BY TypeParts DEF Parts
<1>2. UNCHANGED <<greps, grep_fd, grep_canceled, max_search_reached, text, dropped>>
  BY DEF AskSearch, RunAsked, driver
<1>3. NothingAfterEnd'
  BY <1>2 DEF Reckoned, NothingAfterEnd
<1>4. CASE UNCHANGED <<stack, disturbed>>
  <2>1. Top' = Top /\ Unharmed' = Unharmed
    BY <1>2, <1>4 DEF Top, Unharmed, Leaked
  <2>2. Accounted(Top)' = Accounted(Top)
    BY <1>2, <2>1 DEF Accounted, Found
  <2> QED
    BY <1>3, <1>4, <2>1, <2>2 DEF Reckoned, Fresh, Accounts
<1>5. CASE EnterSearch
  <2>1. ASSUME ~disturbed', stack' # <<>>
        PROVE  Top'.at = "busy" /\ Top'.groups = Top'.search
    <3>1. stack = <<>>
      BY <1>1, <1>5, <2>1, EnterType
    <3>2. PICK s \in Searches : stack' = Append(stack, Frame("busy", s, s))
      BY <1>5, <2>1, <3>1 DEF EnterSearch
    <3>3. stack' = <<Frame("busy", s, s)>>
      BY <3>1, <3>2
    <3>4. Top' = Frame("busy", s, s)
      BY <3>3 DEF Top
    <3> QED
      BY <3>4 DEF Frame
  <2> QED
    BY <1>3, <2>1 DEF Reckoned, Fresh, Accounts, Unharmed, Accounted
<1> QED
  BY <1>4, <1>5 DEF AskSearch, RunAsked

LEMMA ReckonedClear ==
    ASSUME TypeOK, Reckoned, ClearResults
    PROVE  Reckoned'
<1>1. Parts /\ stack \in Seq(Frames) /\ stack # <<>> /\ Top.at = "busy"
  BY TypeParts DEF Parts, ClearResults, TopAt
<1>2. stack' = Goto("update") /\ UNCHANGED <<greps, disturbed>>
  BY DEF ClearResults, driver, history
<1> DEFINE f == Frame("update", Top.search, Top.groups)
<1>3. stack' = [stack EXCEPT ![Len(stack)] = f] /\ f \in Frames
  BY <1>1, <1>2, TopFrame DEF Goto, Top, Frame, Frames
<1>4. Top' = f
  BY <1>1, <1>3, NextTop
<1>5. Top'.at = "update" /\ Top'.groups = Top.groups /\ Top'.search = Top.search
  BY <1>4 DEF Frame
<1> QED
  BY <1>1, <1>2, <1>5 DEF Reckoned, Fresh, NothingAfterEnd, Accounts, Accounted

(* The topmost StartGrep returns: none is left over which none was called. *)
LEMMA ReckonedReturn ==
    ASSUME TypeOK, Nested, Reckoned, StartFails \/ FinishGrep \/ FinishFails
    PROVE  Reckoned'
<1>1. stack \in Seq(Frames) /\ stack # <<>>
  BY TypeParts DEF Parts, StartFails, FinishGrep, FinishFails, TopAt
<1>2. stack' = Pop /\ disturbed' = Alone(Pop) /\ UNCHANGED greps
  BY DEF StartFails, FinishGrep, FinishFails, driver
<1>3. ASSUME stack' # <<>> PROVE disturbed'
  <2>1. Len(stack) \in Nat /\ Len(stack) # 0 /\ Len(Pop) = Len(stack) - 1 /\ Pop \in Seq(Frames)
    BY <1>1, PopFrame, EmptySeq
  <2>2. Len(Pop) # 0
    BY <1>2, <1>3, <2>1, EmptySeq
  <2>3. Len(stack) > 1
    <3>1. \A n \in Nat : n # 0 /\ n - 1 # 0 => n > 1
      OBVIOUS
    <3> QED
      BY <2>1, <2>2, <3>1
  <2> QED
    BY <1>2, <1>3, <2>3 DEF Nested, Alone
<1> QED
  BY <1>2, <1>3 DEF Reckoned, Fresh, NothingAfterEnd, Accounts, Unharmed

LEMMA ReckonedRound ==
    ASSUME TypeOK, Nested, SearchHasWaiter, Reckoned, [Next]_vars, Start \/ GroupEnds
    PROVE  Reckoned'
<1>1. Parts /\ ChannelsOK /\ stack \in Seq(Frames)
  BY TypeParts DEF Parts
<1>2. stack # <<>> /\ ~Waits(Top)
  BY DEF Start, GroupEnds, TopAt, Waits
<1>3. PICK canceled, full : NextGroup(Top, canceled, full)
  BY DEF Start, GroupEnds
<1>4. UNCHANGED <<text, disturbed>>
  BY DEF Start, GroupEnds, history
<1>5. \/ /\ Top' = Frame("finish", Top.search, Top.groups)
         /\ UNCHANGED <<greps, grep_fd>>
      \/ /\ Top.groups # <<>>
         /\ Top' = Frame("wait", Top.search, Tail(Top.groups))
         /\ OpenGrep(Head(Top.groups))
  BY <1>1, <1>2, <1>3, NextGroupTop
<1>6. Fresh'
  BY <1>5 DEF Fresh, Frame
<1>7. NothingAfterEnd'
  BY <1>1, <1>5 DEF Reckoned, NothingAfterEnd, OpenGrep, Grep, ChannelsOK
<1>8. ASSUME Unharmed' PROVE Accounted(Top)'
  <2>1. ~disturbed /\ \A c \in Channel : ~Leaked(c)
    BY <1>4, <1>8, LeaksStay DEF Unharmed
  <2>2. grep_fd = 0
    BY <1>2, <2>1, OnlyWaiter
  <2>3. Top.search \in Seq(Nat) /\ Top.groups \in Seq(Nat) /\ Top \in Frames
    BY <1>1, <1>2, TopFrame, SearchesAssumption DEF Frames
  <2>4. CASE Start
    <3>1. /\ NextGroup(Top, FALSE, FALSE) /\ text = <<>> /\ dropped' = 0
          /\ Top.at = "update"
      BY <2>4 DEF Start, TopAt
    <3>2. Found' = 0
      BY <1>4, <3>1 DEF Found
    <3>3. Top.groups = Top.search
      BY <1>2, <2>1, <3>1 DEF Reckoned, Fresh
    <3>4. Found' \in Nat /\ Found' + Sum(Top.groups) = Sum(Top.search)
      BY <2>3, <3>2, <3>3, SumType
    <3> QED
      BY <1>2, <2>2, <3>1, <3>4, RoundAccounts
  <2>5. CASE GroupEnds
    <3>1. /\ NextGroup(Top, grep_canceled, max_search_reached)
          /\ Top.at = "wait" /\ Top.woken
          /\ UNCHANGED <<grep_canceled, max_search_reached, text, dropped>>
      BY <2>5 DEF GroupEnds, TopAt, history
    <3>2. Unharmed
      BY <1>8, <2>1, <3>1 DEF Unharmed
    <3>3. Found + Sum(Top.groups) = Sum(Top.search)
      BY <1>2, <3>1, <3>2 DEF Reckoned, Accounts, Accounted
    <3>4. Found \in Nat /\ Found' = Found
      BY <1>1, <3>1 DEF Parts, Found
    <3>5. ~grep_canceled /\ ~max_search_reached
      BY <3>2 DEF Unharmed
    <3> QED
      BY <1>2, <2>2, <3>1, <3>3, <3>4, <3>5, RoundAccounts
  <2> QED
    BY <2>4, <2>5
<1> QED
  BY <1>6, <1>7, <1>8 DEF Reckoned, Accounts

(* The grep writes, or ends: what it wrote is no longer to be written.     *)
LEMMA ReckonedGrep ==
    ASSUME TypeOK, Reckoned, NEW c \in Channel, Write(c) \/ End(c)
    PROVE  Reckoned'
<1>1. Parts /\ ChannelsOK /\ greps \in [Channel -> GrepState]
  BY TypeParts DEF Parts, ChannelsOK
<1>2. /\ Top' = Top
      /\ UNCHANGED <<stack, grep_fd, grep_canceled, max_search_reached, text, disturbed, dropped>>
  BY DEF Write, End, history, Top
<1>3. \A d \in Channel : /\ greps'[d].open = greps[d].open
                         /\ greps'[d].pipe + greps'[d].left = greps[d].pipe + greps[d].left
                         /\ greps'[d].ended => greps'[d].left = 0
  <2>1. CASE End(c)
    BY <1>1, <2>1 DEF End, GrepState, Reckoned, NothingAfterEnd
  <2>2. ASSUME NEW n \in 1..greps[c].left,
               greps' = [greps EXCEPT ![c].left = @ - n, ![c].pipe = @ + n]
        PROVE  \A d \in Channel :
                  /\ greps'[d].open = greps[d].open
                  /\ greps'[d].pipe + greps'[d].left = greps[d].pipe + greps[d].left
                  /\ greps'[d].ended => greps'[d].left = 0
    <3>1. greps[c].left \in Nat /\ greps[c].pipe \in Nat
      BY <1>1 DEF GrepState
    <3>2. greps[c].left # 0
      BY <2>2, <3>1
    <3>3. ~greps[c].ended
      BY <3>2 DEF Reckoned, NothingAfterEnd
    <3>4. greps[c].pipe + n + (greps[c].left - n) = greps[c].pipe + greps[c].left
      BY <2>2, <3>1
    <3>5. /\ greps'[c].open = greps[c].open /\ greps'[c].ended = greps[c].ended
          /\ greps'[c].pipe = greps[c].pipe + n /\ greps'[c].left = greps[c].left - n
          /\ \A d \in Channel \ {c} : greps'[d] = greps[d]
      BY <1>1, <2>2 DEF GrepState
    <3> QED
      BY <3>3, <3>4, <3>5 DEF Reckoned, NothingAfterEnd
  <2> QED
    BY <2>1, <2>2 DEF Write
<1>4. NothingAfterEnd' /\ Fresh'
  BY <1>2, <1>3 DEF Reckoned, NothingAfterEnd, Fresh
<1>5. Unharmed' = Unharmed
  BY <1>2, <1>3 DEF Unharmed, Leaked
<1>6. ASSUME Accounted(Top) PROVE Accounted(Top)'
  <2>1. Found \in Nat /\ Found' = Found
    BY <1>1, <1>2 DEF Parts, Found
  <2>2. ASSUME Top.at = "wait", grep_fd # 0
        PROVE  Found' + greps'[grep_fd].pipe + greps'[grep_fd].left + Sum(Top.groups) = Sum(Top.search)
    <3>1. grep_fd \in Channel
      BY <1>1, <2>2 DEF ChannelsOK
    <3>2. /\ greps[grep_fd].pipe \in Nat /\ greps[grep_fd].left \in Nat
          /\ greps'[grep_fd].pipe \in Int /\ greps'[grep_fd].left \in Int
      <4>1. greps[grep_fd] \in GrepState
        BY <1>1, <3>1
      <4>2. greps' \in [Channel -> GrepState]
        BY GrepEffect, TypeParts DEF Effect, Parts, ChannelsOK
      <4>3. greps'[grep_fd] \in GrepState
        BY <3>1, <4>2
      <4> QED
        BY <4>1, <4>3 DEF GrepState
    <3>3. greps'[grep_fd].pipe + greps'[grep_fd].left = greps[grep_fd].pipe + greps[grep_fd].left
      BY <1>3, <3>1
    <3>4. Found + greps[grep_fd].pipe + greps[grep_fd].left + Sum(Top.groups) = Sum(Top.search)
      BY <1>6, <2>2 DEF Accounted
    <3> DEFINE found == Found p == greps[grep_fd].pipe l == greps[grep_fd].left
               q == greps'[grep_fd].pipe m == greps'[grep_fd].left
    <3>5. found \in Nat /\ p \in Nat /\ l \in Nat /\ q \in Int /\ m \in Int /\ q + m = p + l
      BY <2>1, <3>2, <3>3
    <3>6. found + p + l + Sum(Top.groups) = Sum(Top.search)
      BY <3>4
    <3>7. Found' = found
      BY <2>1
    <3> HIDE DEF found, p, l, q, m
    <3>8. found + q + m = found + p + l
      BY <3>5
    <3>9. Found' + q + m + Sum(Top.groups) = Sum(Top.search)
      BY <3>6, <3>7, <3>8
    <3> QED
      BY <3>9 DEF q, m
  <2> QED
    BY <1>2, <1>6, <2>1, <2>2 DEF Accounted
<1> QED
  BY <1>2, <1>4, <1>5, <1>6 DEF Reckoned, Accounts

(* What is taken from the channel is shown or dropped, and at the end of   *)
(* the file the group has given all it had.                                *)
LEMMA ReckonedServe ==
    ASSUME TypeOK, Nested, SearchHasWaiter, Reckoned, [Next]_vars,
           NEW c \in Channel, Serve(c)
    PROVE  Reckoned'
<1>1. Parts /\ ChannelsOK /\ stack \in Seq(Frames) /\ greps \in [Channel -> GrepState]
  BY TypeParts DEF Parts, ChannelsOK
<1>2. UNCHANGED <<grep_canceled, disturbed>>
  BY DEF Serve
<1>3. NothingAfterEnd'
  <2>1. ASSUME Close PROVE NothingAfterEnd'
    BY <2>1 DEF Close, Closed, Reckoned, NothingAfterEnd
  <2>2. ASSUME grep_fd # 0, greps' = [greps EXCEPT ![grep_fd].pipe = 0]
        PROVE  NothingAfterEnd'
    BY <1>1, <2>2 DEF Reckoned, NothingAfterEnd, ChannelsOK, GrepState
  <2> QED
    BY <2>1, <2>2 DEF Serve, Read, ReadEof
<1>4. \/ UNCHANGED stack
      \/ stack' = Woken(stack)
  BY DEF Serve, Read, ReadEof, Close
<1>5. ASSUME stack' # <<>>
      PROVE  /\ stack # <<>>
             /\ Top'.at = Top.at /\ Top'.search = Top.search /\ Top'.groups = Top.groups
  <2>1. CASE UNCHANGED stack
    BY <1>5, <2>1 DEF Top
  <2>2. CASE stack' = Woken(stack)
    <3>1. stack # <<>>
      <4>1. Len(Woken(stack)) = Len(stack) /\ Woken(stack) \in Seq(Frames)
        BY <1>1, WokenFrames
      <4> QED
        BY <1>1, <1>5, <2>2, <4>1, EmptySeq
    <3> QED
      BY <1>1, <2>2, <3>1, WokenTop
  <2> QED
    BY <1>4, <2>1, <2>2
<1>6. Fresh'
  BY <1>2, <1>5 DEF Reckoned, Fresh
<1>7. ASSUME Unharmed', stack' # <<>> PROVE Accounted(Top)'
  <2>1. \A d \in Channel : ~Leaked(d)
    BY <1>7, LeaksStay DEF Unharmed
  <2>2. c = grep_fd /\ grep_fd \in Channel /\ grep_fd # 0
    BY <2>1, NumbersAssumption DEF Serve, Ready, Leaked, Channel
  <2>3. Unharmed
    <3>1. max_search_reached => max_search_reached'
      BY DEF Serve, Read, ReadEof
    <3> QED
      BY <1>2, <1>7, <2>1, <3>1 DEF Unharmed
  <2>4. Top.at = "wait" /\ ~Top.woken
    BY <1>5, <1>7, <2>2, <2>3, OnlyWaiter DEF Unharmed, Waits
  <2> DEFINE p == greps[grep_fd].pipe l == greps[grep_fd].left
             part == Sum(Top.groups) all == Sum(Top.search)
  <2>5. Found + p + l + part = all
    BY <1>5, <1>7, <2>2, <2>3, <2>4 DEF Reckoned, Accounts, Accounted
  <2>6. text \in Seq({"line", "mark"}) /\ dropped \in Nat /\ p \in Nat /\ l \in Nat
    BY <1>1, <2>2 DEF Parts, GrepState
  <2>7. Top.groups \in Seq(Nat)
    BY <1>1, <1>5, <1>7, TopFrame DEF Frames
  <2>8. part \in Nat
    BY <2>7, SumType
  <2>9. CASE Read
    <3>1. ~(Len(Shown(p)) > MaxMatches)
      BY <1>7, <2>9 DEF Read, Unharmed
    <3>2. /\ text' = Shown(p) /\ greps' = [greps EXCEPT ![grep_fd].pipe = 0]
          /\ UNCHANGED <<stack, grep_fd, dropped>>
      BY <2>9, <3>1 DEF Read
    <3>3. greps'[grep_fd].pipe = 0 /\ greps'[grep_fd].left = l
      BY <1>1, <2>2, <3>2 DEF GrepState
    <3>4. Len(text') = Len(text) + p
      <4> DEFINE lines == [i \in 1..p |-> "line"]
      <4>1. lines \in Seq({"line", "mark"}) /\ Len(lines) = p
        BY <2>6
      <4>2. text' = text \o lines
        BY <3>2 DEF Shown
      <4> HIDE DEF lines
      <4> QED
        BY <2>6, <4>1, <4>2, ConcatProperties
    <3>5. Found' = Found + p
      BY <2>6, <3>2, <3>4 DEF Found
    <3>6. Found \in Nat
      BY <2>6 DEF Found
    <3> HIDE DEF p, l, part, all
    <3>7. Found' + 0 + l + part = all
      BY <2>5, <2>6, <2>8, <3>5, <3>6
    <3>8. Top' = Top
      BY <3>2 DEF Top
    <3>9. Top'.at # "finish" /\ ~Top'.woken
      BY <2>4, <3>8
    <3>10. Found' + greps'[grep_fd'].pipe + greps'[grep_fd'].left + Sum(Top'.groups) = Sum(Top'.search)
      BY <3>2, <3>3, <3>7, <3>8 DEF part, all
    <3> QED
      BY <3>9, <3>10 DEF Accounted
  <2>10. CASE ReadEof
    <3>1. Close /\ dropped' = dropped + p /\ text' = text /\ AtEof(grep_fd)
      BY <2>2, <2>10 DEF ReadEof
    <3>2. l = 0
      BY <2>2, <3>1 DEF AtEof, Reckoned, NothingAfterEnd
    <3>3. Found' = Found + p /\ Found \in Nat
      BY <2>6, <3>1 DEF Found
    <3> HIDE DEF p, l, part, all
    <3>4. Found' + part = all
      BY <2>5, <2>6, <2>8, <3>2, <3>3
    <3>5. grep_fd' = 0
      BY <3>1 DEF Close
    <3>6. Top'.at = "wait"
      BY <1>5, <1>7, <2>4
    <3>7. Found' + Sum(Top'.groups) = Sum(Top'.search)
      BY <1>5, <1>7, <3>4 DEF part, all
    <3> QED
      BY <3>5, <3>6, <3>7 DEF Accounted
  <2> QED
    BY <2>9, <2>10 DEF Serve
<1> QED
  BY <1>3, <1>6, <1>7 DEF Reckoned, Accounts

(* Cancel: the search is no longer a whole one.                            *)
LEMMA ReckonedCancel ==
    ASSUME TypeOK, Reckoned, Cancel
    PROVE  Reckoned'
<1>1. stack \in Seq(Frames)
  BY TypeParts DEF Parts
<1>2. Close /\ grep_canceled' = TRUE /\ UNCHANGED disturbed
  BY DEF Cancel, history
<1>3. NothingAfterEnd'
  BY <1>2 DEF Close, Closed, Reckoned, NothingAfterEnd
<1>4. ASSUME stack' # <<>>
      PROVE  stack # <<>> /\ Top'.at = Top.at /\ Top'.search = Top.search /\ Top'.groups = Top.groups
  <2>1. stack' = Woken(stack)
    BY <1>2 DEF Close
  <2>2. stack # <<>>
    <3>1. Len(Woken(stack)) = Len(stack) /\ Woken(stack) \in Seq(Frames)
      BY <1>1, WokenFrames
    <3> QED
      BY <1>1, <1>4, <2>1, <3>1, EmptySeq
  <2> QED
    BY <1>1, <2>1, <2>2, WokenTop
<1> QED
  BY <1>2, <1>3, <1>4 DEF Reckoned, Fresh, Accounts, Unharmed

LEMMA ReckonedStep ==
    ASSUME TypeOK, Nested, SearchHasWaiter, Reckoned, [Next]_vars
    PROVE  Reckoned'
<1>1. CASE AskSearch \/ RunAsked
  BY <1>1, ReckonedEnter
<1>2. CASE ClearResults
  BY <1>2, ReckonedClear
<1>3. CASE Start \/ GroupEnds
  BY <1>3, ReckonedRound
<1>4. CASE StartFails \/ FinishGrep \/ FinishFails
  BY <1>4, ReckonedReturn
<1>5. ASSUME NEW c \in Channel, Write(c) \/ End(c) PROVE Reckoned'
  BY <1>5, ReckonedGrep
<1>6. ASSUME NEW c \in Channel, Serve(c) PROVE Reckoned'
  BY <1>6, ReckonedServe
<1>7. CASE Cancel
  BY <1>7, ReckonedCancel
<1>8. CASE UNCHANGED vars
  <2>1. UNCHANGED <<stack, greps, grep_fd, grep_canceled, max_search_reached, text,
                    disturbed, dropped>>
    BY <1>8 DEF vars, driver, history
  <2>2. Top' = Top /\ Unharmed' = Unharmed /\ Found' = Found
    BY <2>1 DEF Top, Unharmed, Leaked, Found
  <2>3. Accounted(Top)' = Accounted(Top)
    BY <2>1, <2>2 DEF Accounted
  <2> QED
    BY <2>1, <2>2, <2>3 DEF Reckoned, Fresh, NothingAfterEnd, Accounts
<1> QED
  BY <1>1, <1>2, <1>3, <1>4, <1>5, <1>6, <1>7, <1>8 DEF Next, StartGrep, User

(* A search that ran by itself to its end shows every line that its greps  *)
(* wrote but those that came with the end of an output: nothing is lost    *)
(* between the groups, in a pipe that is closed or by a vwait that ends    *)
(* early, for any numbers of lines and groups and any reads of the pipe.   *)
THEOREM WholeSearchIsShown == Spec => []ResultsAreComplete
<1>1. Init => Nested
  BY DEF Init, Nested
<1>2. ASSUME TypeOK, Nested, [Next]_vars PROVE Nested'
  BY <1>2, StepEffect DEF Effect
<1>3. ASSUME TypeOK, Nested, SearchHasWaiter, Reckoned, [Next]_vars PROVE Reckoned'
  BY <1>3, ReckonedStep
<1>4. ASSUME TypeOK, Reckoned PROVE ResultsAreComplete
  <2> SUFFICES ASSUME TopAt("finish"), Unharmed PROVE Len(text) = Sum(Top.search) - dropped
    BY DEF ResultsAreComplete, Unharmed
  <2>1. stack # <<>> /\ Top.at = "finish"
    BY DEF TopAt
  <2>2. Len(text) + dropped = Sum(Top.search)
    BY <1>4, <2>1 DEF Reckoned, Accounts, Accounted, Found
  <2>3. Len(text) \in Nat /\ dropped \in Nat
    BY <1>4, TypeParts DEF Parts
  <2> DEFINE all == Sum(Top.search)
  <2>4. Len(text) + dropped = all
    BY <2>2
  <2> HIDE DEF all
  <2>5. Len(text) = all - dropped
    BY <2>3, <2>4
  <2> QED
    BY <2>5 DEF all
<1> QED
  BY <1>1, <1>2, <1>3, <1>4, ReckonedInit, TypeCorrect, RunningSearchHasWaiter, PTL DEF Spec
=============================================================================
