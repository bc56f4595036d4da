------------------------- MODULE ParseSessionProofs -------------------------
(***************************************************************************)
(* Theorems about ParseSession, for every project, every number of pipes   *)
(* and of updates.                                                         *)
(***************************************************************************)
EXTENDS ParseSession, SequenceTheorems, TLAPS

-----------------------------------------------------------------------------
(* The lists of files.                                                     *)
LEMMA SeqTypes ==
    ASSUME NEW S, NEW s \in Seq(S), s # <<>>
    PROVE  /\ Head(s) \in S /\ Tail(s) \in Seq(S) /\ Len(s) \in Nat \ {0}
           /\ Len(Tail(s)) = Len(s) - 1 /\ s[1] = Head(s)
           /\ \A i \in 1..Len(Tail(s)) : i + 1 \in 1..Len(s) /\ Tail(s)[i] = s[i + 1]
OBVIOUS

LEMMA BundlesTypes ==
    ASSUME NEW b \in Bundles
    PROVE  /\ b \in Seq(Seq(File)) /\ FilesOf(b) \subseteq File
           /\ b # <<>> => Head(b) \in Seq(File) /\ Tail(b) \in Bundles
<1>1. b \in Seq(Seq(File)) /\ \A i \in 1..Len(b) : b[i] # <<>>
  BY DEF Bundles
<1>2. FilesOf(b) \subseteq File
  <2>1. \A i \in 1..Len(b) : b[i] \in Seq(File)
    BY <1>1
  <2> QED
    BY <2>1 DEF FilesOf, Elems
<1>3. ASSUME b # <<>> PROVE Head(b) \in Seq(File) /\ Tail(b) \in Bundles
  <2>1. /\ Head(b) \in Seq(File) /\ Tail(b) \in Seq(Seq(File))
        /\ \A i \in 1..Len(Tail(b)) : i + 1 \in 1..Len(b) /\ Tail(b)[i] = b[i + 1]
    BY <1>1, <1>3, SeqTypes
  <2> QED
    BY <1>1, <2>1 DEF Bundles
<1> QED
  BY <1>1, <1>2, <1>3

LEMMA TypesTypes ==
    ASSUME NEW t \in Seq(Bundles)
    PROVE  /\ FilesIn(t) \subseteq File
           /\ t # <<>> => Head(t) \in Bundles /\ Tail(t) \in Seq(Bundles)
<1>1. \A i \in 1..Len(t) : FilesOf(t[i]) \subseteq File
  BY BundlesTypes
<1> QED
  BY <1>1, SeqTypes DEF FilesIn

LEMMA AfterType ==
    ASSUME NEW fl \in Seq(File), NEW f
    PROVE  After(fl, f) \in Seq(File)
<1> DEFINE First == {i \in 1..Len(fl) : fl[i] = f /\ \A j \in 1..(i - 1) : fl[j] # f}
<1>1. CASE First = {}
  BY <1>1 DEF After
<1>2. CASE First # {}
  <2> DEFINE n == CHOOSE i \in First : TRUE
  <2>1. n \in 1..Len(fl)
    BY <1>2
  <2>2. After(fl, f) = SubSeq(fl, n + 1, Len(fl))
    BY <1>2 DEF After
  <2> HIDE DEF n
  <2>3. SubSeq(fl, n + 1, Len(fl)) \in Seq(File)
    BY <2>1
  <2> QED
    BY <2>2, <2>3
<1> QED
  BY <1>1, <1>2

LEMMA ElemsType == \A fl \in Seq(File) : Elems(fl) \subseteq File
BY DEF Elems

-----------------------------------------------------------------------------
(* Frames and the stack.                                                   *)
LEMMA PlaceTypes == Dialogs \subseteq Places /\ Waits \subseteq Places
BY DEF Dialogs, Waits, Places

LEMMA FrameType ==
    ASSUME NEW l \in Places, NEW t \in Seq(Bundles), NEW p \in Pipe \union {NoPipe}
    PROVE  /\ Frame(l, t, p) \in FrameState
           /\ Frame(l, t, p).at = l /\ Frame(l, t, p).pipe = p
           /\ Frame(l, t, p).ran = FALSE /\ Frame(l, t, p).woken = FALSE
<1>1. <<>> \in Bundles /\ <<>> \in Seq(File)
  BY DEF Bundles
<1> QED
  BY <1>1, TypesTypes DEF Frame, FrameState

LEMMA LeaveType ==
    ASSUME NEW f \in FrameState
    PROVE  /\ Leave(f) \in FrameState /\ Leave(f).at = "closing"
           /\ Leave(f).pipe = f.pipe /\ Leave(f).ran = f.ran /\ Leave(f).woken = f.woken
           /\ Leave(f).all = f.all
<1>1. <<>> \in Bundles /\ <<>> \in Seq(File) /\ <<>> \in Seq(Bundles) /\ "closing" \in Places
  BY DEF Bundles, Places, Waits
<1> DEFINE g == [f EXCEPT !.at = "closing", !.window = FALSE, !.types = <<>>]
<1>2. /\ g \in FrameState /\ g.at = "closing" /\ g.pipe = f.pipe /\ g.ran = f.ran
      /\ g.woken = f.woken /\ g.all = f.all
  BY <1>1 DEF FrameState
<1>3. Leave(f) = [g EXCEPT !.bundles = <<>>, !.fl = <<>>]
  BY DEF Leave
<1> HIDE DEF g
<1> QED
  BY ZenonT(40), <1>1, <1>2, <1>3 DEF FrameState

LEMMA NextTypeType ==
    ASSUME NEW f \in FrameState
    PROVE  /\ NextType(f) \in FrameState /\ NextType(f).at \in {"files", "closing"}
           /\ NextType(f).pipe = f.pipe /\ NextType(f).ran = f.ran /\ NextType(f).woken = f.woken
<1>1. CASE f.types = <<>>
  BY <1>1, LeaveType DEF NextType
<1>2. CASE f.types # <<>>
  <2>1. Head(f.types) \in Bundles /\ Tail(f.types) \in Seq(Bundles)
    BY <1>2, TypesTypes DEF FrameState
  <2>2. <<>> \in Seq(File) /\ "files" \in Places
    BY DEF Places
  <2> QED
    BY <1>2, <2>1, <2>2 DEF NextType, FrameState
<1> QED
  BY <1>1, <1>2

LEMMA NextBundleType ==
    ASSUME NEW f \in FrameState
    PROVE  /\ NextBundle(f) \in FrameState /\ NextBundle(f).at \in {"part", "files", "closing"}
           /\ NextBundle(f).pipe = f.pipe /\ NextBundle(f).ran = f.ran
           /\ NextBundle(f).woken = f.woken
<1>1. CASE f.bundles = <<>>
  BY <1>1, NextTypeType DEF NextBundle
<1>2. CASE f.bundles # <<>>
  <2>1. Head(f.bundles) \in Seq(File) /\ Tail(f.bundles) \in Bundles
    BY <1>2, BundlesTypes DEF FrameState
  <2>2. "part" \in Places
    BY DEF Places
  <2> QED
    BY <1>2, <2>1, <2>2 DEF NextBundle, FrameState
<1> QED
  BY <1>1, <1>2

LEMMA PutFacts ==
    ASSUME NEW s \in Seq(FrameState), s # <<>>, NEW g \in FrameState
    PROVE  /\ [s EXCEPT ![Len(s)] = g] \in Seq(FrameState)
           /\ Len([s EXCEPT ![Len(s)] = g]) = Len(s) /\ Len(s) \in 1..Len(s)
           /\ Len(s) \in Nat
           /\ \A i \in 1..Len(s) : i < Len(s) \/ i = Len(s)
           /\ \A i \in 1..Len(s) : i # Len(s) => [s EXCEPT ![Len(s)] = g][i] = s[i]
           /\ [s EXCEPT ![Len(s)] = g][Len(s)] = g
           /\ s[Len(s)] \in FrameState
OBVIOUS

LEMMA PushFacts ==
    ASSUME NEW s \in Seq(FrameState), NEW g \in FrameState
    PROVE  /\ Append(s, g) \in Seq(FrameState)
           /\ Len(Append(s, g)) = Len(s) + 1 /\ Len(s) \in Nat
           /\ \A i \in 1..Len(s) : i \in 1..(Len(s) + 1) /\ Append(s, g)[i] = s[i] /\ i < Len(s) + 1
           /\ \A i \in 1..(Len(s) + 1) : i \in 1..Len(s) \/ i = Len(s) + 1
           /\ Append(s, g)[Len(s) + 1] = g
OBVIOUS

LEMMA PopFacts ==
    ASSUME NEW s \in Seq(FrameState), s # <<>>
    PROVE  /\ SubSeq(s, 1, Len(s) - 1) \in Seq(FrameState)
           /\ Len(SubSeq(s, 1, Len(s) - 1)) = Len(s) - 1 /\ Len(s) \in Nat \ {0}
           /\ \A i \in 1..(Len(s) - 1) : i \in 1..Len(s) /\ SubSeq(s, 1, Len(s) - 1)[i] = s[i]
<1>1. Len(s) \in Nat \ {0}
  OBVIOUS
<1> DEFINE n == Len(s) - 1
           p == SubSeq(s, 1, n)
<1>2. n \in Int /\ \A i \in 1..n : i \in 1..Len(s) /\ s[i] \in FrameState
  BY <1>1
<1>3. /\ p \in Seq(FrameState) /\ Len(p) = IF 1 <= n THEN n - 1 + 1 ELSE 0
      /\ \A i \in 1..(n - 1 + 1) : p[i] = s[1 + i - 1]
  BY <1>2, SubSeqProperties
<1> HIDE DEF p
<1>4. Len(p) = Len(s) - 1
  <2>1. Len(p) = IF 1 <= n THEN n - 1 + 1 ELSE 0
    BY <1>3
  <2>2. \A a, m : m \in Nat \ {0} /\ a = (IF 1 <= m - 1 THEN m - 1 - 1 + 1 ELSE 0) => a = m - 1
    OBVIOUS
  <2> QED
    BY <1>1, <2>1, <2>2
<1>5. ASSUME NEW i \in 1..(Len(s) - 1) PROVE p[i] = s[i]
  <2>1. i \in 1..(n - 1 + 1) /\ 1 + i - 1 = i
    BY <1>1
  <2> QED
    BY <1>3, <2>1
<1> QED
  BY <1>1, <1>2, <1>3, <1>4, <1>5 DEF p

LEMMA WakeFacts ==
    ASSUME NEW s \in Seq(FrameState), NEW l
    PROVE  /\ Wake(s, l) \in Seq(FrameState) /\ Len(Wake(s, l)) = Len(s)
           /\ \A i \in 1..Len(s) :
                /\ Wake(s, l)[i].at = s[i].at /\ Wake(s, l)[i].pipe = s[i].pipe
                /\ Wake(s, l)[i].ran = s[i].ran
                /\ s[i].at # l => Wake(s, l)[i] = s[i]
<1>1. \A i \in 1..Len(s) : s[i] \in FrameState /\ [s[i] EXCEPT !.woken = TRUE] \in FrameState
  <2>1. \A f \in FrameState : [f EXCEPT !.woken = TRUE] \in FrameState
    BY DEF FrameState
  <2>2. \A i \in 1..Len(s) : s[i] \in FrameState
    OBVIOUS
  <2> QED
    BY <2>1, <2>2
<1>2. Wake(s, l) \in [1..Len(s) -> FrameState] /\ Len(s) \in Nat
  BY <1>1 DEF Wake
<1>3. Wake(s, l) \in Seq(FrameState) /\ Len(Wake(s, l)) = Len(s)
  BY <1>2
<1>4. ASSUME NEW i \in 1..Len(s)
      PROVE  /\ Wake(s, l)[i].at = s[i].at /\ Wake(s, l)[i].pipe = s[i].pipe
             /\ Wake(s, l)[i].ran = s[i].ran
             /\ s[i].at # l => Wake(s, l)[i] = s[i]
  BY <1>1 DEF Wake, FrameState
<1> QED
  BY <1>3, <1>4

(* The topmost procedure goes on, calls, or returns.                       *)
LEMMA TopTypes ==
    ASSUME TypeOK, NEW l, At(l)
    PROVE  /\ stack # <<>> /\ Top \in FrameState /\ Top.at = l /\ Pop \in Seq(FrameState)
           /\ \A g \in FrameState : Put(g) \in Seq(FrameState)
           /\ \A m \in Places : Goto(m) \in Seq(FrameState)
           /\ \A g \in FrameState : \A m \in Places : Append(Goto(m), g) \in Seq(FrameState)
<1>1. stack \in Seq(FrameState) /\ stack # <<>> /\ Top.at = l
  BY DEF TypeOK, At
<1>2. \A g \in FrameState : Put(g) \in Seq(FrameState)
  BY <1>1, PutFacts DEF Put
<1>3. Top \in FrameState
  BY <1>1 DEF Top
<1>4. \A f \in FrameState : \A m \in Places : [f EXCEPT !.at = m] \in FrameState
  BY DEF FrameState
<1>5. \A m \in Places : Goto(m) \in Seq(FrameState)
  BY <1>2, <1>3, <1>4 DEF Goto
<1>6. Pop \in Seq(FrameState)
  BY <1>1, PopFacts DEF Pop
<1>7. \A g \in FrameState : \A m \in Places : Append(Goto(m), g) \in Seq(FrameState)
  BY <1>5, PushFacts
<1> QED
  BY <1>1, <1>2, <1>3, <1>5, <1>6, <1>7

LEMMA PlaceNames ==
    /\ {"begin", "files", "part", "check", "reopen", "xref"} \subseteq Places
    /\ {"scan", "pipe", "killed", "closing", "unload"} \subseteq Places
    /\ {"missing", "busy", "noparser", "askother", "unusable", "crash", "askskip", "xreferr"} \subseteq Places
    /\ NoPipe \in Pipe \union {NoPipe} /\ NoPipe \notin Pipe
BY NoneAssumption DEF Places, Waits, Dialogs

LEMMA PipeTypes ==
    ASSUME TypeOK, NEW p \in Pipe
    PROVE  /\ pipes[p] \in PipeState
           /\ \A r \in PipeState : [pipes EXCEPT ![p] = r] \in [Pipe -> PipeState]
           /\ Idle \in PipeState /\ Killed(p) \in PipeState
           /\ Started("unload", <<>>) \in PipeState /\ Started("xref", <<>>) \in PipeState
           /\ \A fl \in Seq(File) : Started("parse", fl) \in PipeState
<1>1. pipes \in [Pipe -> PipeState] /\ pipes[p] \in PipeState
  BY DEF TypeOK
<1>2. <<>> \in Seq(File)
  OBVIOUS
<1>3. Idle \in PipeState
  BY <1>2 DEF Idle, PipeState
<1>4. \A k \in {"parse", "xref", "unload"} : \A fl \in Seq(File) : Started(k, fl) \in PipeState
  BY <1>2 DEF Started, PipeState
<1>5. [pipes[p] EXCEPT !.st = "ended", !.todo = <<>>, !.err = "crash"] \in PipeState
  <2> DEFINE r == [pipes[p] EXCEPT !.st = "ended"]
  <2>1. r \in PipeState
    BY <1>1 DEF PipeState
  <2> HIDE DEF r
  <2>2. [r EXCEPT !.todo = <<>>, !.err = "crash"] \in PipeState
    BY <1>2, <2>1 DEF PipeState
  <2> QED
    BY <2>2 DEF r
<1> QED
  BY <1>1, <1>2, <1>3, <1>4, <1>5 DEF Killed

(* A pipe changes in two fields.                                           *)
LEMMA TodoErr ==
    ASSUME NEW P \in [Pipe -> PipeState], NEW p \in Pipe, NEW t \in Seq(File),
           NEW e \in {"no", "warns", "crash"}
    PROVE  [P EXCEPT ![p].todo = t, ![p].err = e] \in [Pipe -> PipeState]
BY ZenonT(40) DEF PipeState

LEMMA TodoOut ==
    ASSUME NEW P \in [Pipe -> PipeState], NEW p \in Pipe, NEW t \in Seq(File), NEW o \in Seq(File)
    PROVE  [P EXCEPT ![p].todo = t, ![p].out = o] \in [Pipe -> PipeState]
BY ZenonT(40) DEF PipeState

LEMMA OutOn ==
    ASSUME NEW P \in [Pipe -> PipeState], NEW p \in Pipe
    PROVE  /\ \A o \in Seq(File) : [P EXCEPT ![p].out = o] \in [Pipe -> PipeState]
           /\ [P EXCEPT ![p].on = FALSE] \in [Pipe -> PipeState]
BY ZenonT(40) DEF PipeState

LEMMA TypeInit == Init => TypeOK
<1>1. Idle \in PipeState
  BY DEF Idle, PipeState
<1> SUFFICES ASSUME Init PROVE TypeOK
  OBVIOUS
<1>2. stack \in Seq(FrameState) /\ pipes \in [Pipe -> PipeState]
  BY <1>1 DEF Init
<1>3. overlap \in BOOLEAN /\ named \in BOOLEAN /\ ~named /\ accounted \subseteq File
      /\ gaveUp \subseteq File /\ tables \subseteq Both
  BY DEF Init
<1>4. ProcessingCancelled \in 0..3 /\ lastFile \in File \union {NoFile}
      /\ SN_cross_pid \in Pipe \union {NoPipe} /\ lock \in Pipe \union {NoPipe}
  BY DEF Init
<1> QED
  BY <1>2, <1>3, <1>4 DEF TypeOK

LEMMA TypeStep == TypeOK /\ [Next]_vars => TypeOK'
<1> SUFFICES ASSUME TypeOK, [Next]_vars PROVE TypeOK'
  OBVIOUS
<1> USE PlaceNames DEF globals, history
<1>1. ASSUME NEW p \in Pipe, Work(p) \/ Fault(p) PROVE TypeOK'
  <2>0. /\ pipes \in [Pipe -> PipeState] /\ pipes[p] \in PipeState
        /\ pipes[p].todo \in Seq(File) /\ pipes[p].out \in Seq(File) /\ <<>> \in Seq(File)
    BY DEF TypeOK, PipeState
  <2>1. CASE TakeLock(p)
    <3>1. pipes' \in [Pipe -> PipeState]
      BY <2>0, <2>1 DEF TakeLock, PipeState
    <3> QED
      BY <2>1, <3>1 DEF TakeLock, TypeOK
  <2>2. CASE StoreFile(p)
    <3> DEFINE f == Head(pipes[p].todo)
    <3>1. f \in File /\ Tail(pipes[p].todo) \in Seq(File) /\ Append(pipes[p].out, f) \in Seq(File)
      BY <2>0, <2>2 DEF StoreFile
    <3>2. pipes' = [pipes EXCEPT ![p].todo = Tail(@), ![p].out = Append(@, f)]
      BY <2>2 DEF StoreFile
    <3> HIDE DEF f
    <3>3. pipes' \in [Pipe -> PipeState]
      BY <2>0, <3>1, <3>2 DEF PipeState
    <3>4. accounted' \subseteq File
      BY <2>2, <3>1 DEF StoreFile, TypeOK, f
    <3> QED
      BY <2>2, <3>3, <3>4 DEF StoreFile, TypeOK
  <2>3. CASE EndImport(p)
    <3>1. PICK e \in {"no", "warns", "crash"} :
             pipes' = [pipes EXCEPT ![p].st = "ended", ![p].err = e]
      BY <2>3 DEF EndImport
    <3>2. pipes' \in [Pipe -> PipeState]
      BY <2>0, <3>1 DEF PipeState
    <3> QED
      BY <2>3, <3>2 DEF EndImport, TypeOK
  <2>4. ASSUME NEW k \in 0..1, NEW e \in {"warns", "crash"}, Leaves(p, k, e)
        PROVE  pipes' \in [Pipe -> PipeState]
    <3> DEFINE o == pipes[p].out \o SubSeq(pipes[p].todo, 1, k)
    <3>1. k \in 0..Len(pipes[p].todo)
      BY <2>4 DEF Leaves
    <3>2. o \in Seq(File)
      BY <2>0, <3>1
    <3>3. pipes' = [pipes EXCEPT ![p].st = "ended", ![p].err = e, ![p].todo = <<>>, ![p].out = o]
      BY <2>0, <2>4 DEF Leaves
    <3> HIDE DEF o
    <3> DEFINE P == [pipes EXCEPT ![p].st = "ended", ![p].err = e]
    <3>4. P \in [Pipe -> PipeState] /\ pipes' = [P EXCEPT ![p].todo = <<>>, ![p].out = o]
      BY <2>0, <3>3 DEF PipeState
    <3> HIDE DEF P
    <3> QED
      BY <2>0, <3>2, <3>4, TodoOut
  <2>6. CASE DbimpDies(p)
    <3>1. pipes' \in [Pipe -> PipeState]
      BY <2>4, <2>6 DEF DbimpDies
    <3>2. lock' \in Pipe \union {NoPipe}
      BY <2>6 DEF DbimpDies, TypeOK
    <3> QED
      BY <2>6, <3>1, <3>2 DEF DbimpDies, TypeOK
  <2>7. CASE DbimpExits(p)
    <3>1. PICK k \in 0..1, e \in {"warns", "crash"} :
             /\ Leaves(p, k, e)
             /\ gaveUp' = gaveUp \union
                   (IF overlap \/ e = "crash" THEN {} ELSE IF k = 1 THEN {Head(pipes[p].todo)}
                    ELSE IF named \/ pipes[p].out # <<>> THEN {} ELSE Elems(pipes[p].todo))
      BY <2>7 DEF DbimpExits
    <3>2. pipes' \in [Pipe -> PipeState]
      BY <2>4, <3>1
    <3>3. gaveUp' \subseteq File
      <4>1. Elems(pipes[p].todo) \subseteq File
        BY <2>0, ElemsType
      <4>2. k = 1 => Head(pipes[p].todo) \in File
        BY <2>0, <3>1 DEF Leaves
      <4> QED
        BY <3>1, <4>1, <4>2 DEF TypeOK
    <3>4. lock' \in Pipe \union {NoPipe}
      BY <2>7 DEF DbimpExits, TypeOK
    <3> QED
      BY <2>7, <3>2, <3>3, <3>4 DEF DbimpExits, TypeOK
  <2>5. CASE ParserCrashes(p)
    <3>1. PICK k \in 0..Len(pipes[p].todo) :
             pipes' = [pipes EXCEPT ![p].err = "crash", ![p].todo = SubSeq(@, 1, k)]
      BY <2>5 DEF ParserCrashes
    <3> DEFINE o == SubSeq(pipes[p].todo, 1, k)
    <3>2. o \in Seq(File)
      BY <2>0
    <3>3. pipes' = [pipes EXCEPT ![p].err = "crash", ![p].todo = o]
      BY <2>0, <3>1
    <3> HIDE DEF o
    <3>4. pipes' \in [Pipe -> PipeState]
      BY <2>0, <3>2, <3>3 DEF PipeState
    <3> QED
      BY <2>5, <3>4 DEF ParserCrashes, TypeOK
  <2> QED
    BY <1>1, <2>1, <2>2, <2>3, <2>5, <2>6, <2>7 DEF Work, Fault
<1>2. ASSUME NEW job \in Jobs, StartUpdate(job) PROVE TypeOK'
  <2>1. job \in Seq(Bundles)
    BY JobsAssumption
  <2>2. Push(Frame("scan", job, NoPipe)) \in Seq(FrameState)
    BY <2>1, FrameType, PushFacts DEF Push, TypeOK
  <2>3. stack' \in Seq(FrameState) /\ ProcessingCancelled' \in 0..3
    BY <1>2, <2>2 DEF StartUpdate, TypeOK
  <2>4. overlap' \in BOOLEAN
    <3>1. overlap' = overlap \/ overlap' = (stack # <<>> \/ (overlap /\ ~Quiet))
      BY <1>2 DEF StartUpdate
    <3> QED
      BY <3>1 DEF TypeOK
  <2> QED
    BY <1>2, <2>3, <2>4 DEF StartUpdate, TypeOK
<1>3. CASE FilesScanned
  <2>1. stack' \in Seq(FrameState)
    BY <1>3, TopTypes DEF FilesScanned
  <2> QED
    BY <1>3, <2>1 DEF FilesScanned, TypeOK
<1>4. CASE AnswerMissing
  <2>1. \A p \in Pipe : Frame("unload", <<>>, p) \in FrameState
    <3>1. <<>> \in Seq(Bundles)
      OBVIOUS
    <3> QED
      BY <3>1, FrameType
  <2>2. stack' \in Seq(FrameState) /\ pipes' \in [Pipe -> PipeState] /\ tables' \subseteq Both
    <3>1. At("missing")
      BY <1>4 DEF AnswerMissing
    <3>2. CASE (stack' = Goto("begin") \/ stack' = Pop) /\ UNCHANGED <<pipes, tables>>
      BY <3>1, <3>2, TopTypes DEF TypeOK
    <3>3. ASSUME NEW p \in Pipe, pipes' = [pipes EXCEPT ![p] = Started("unload", <<>>)],
                 stack' = Append(Goto("begin"), Frame("unload", <<>>, p)), tables' = {}
          PROVE  stack' \in Seq(FrameState) /\ pipes' \in [Pipe -> PipeState] /\ tables' \subseteq Both
      BY <2>1, <3>1, <3>3, TopTypes, PipeTypes
    <3> QED
      BY <1>4, <3>2, <3>3 DEF AnswerMissing
  <2> QED
    BY <1>4, <2>2 DEF AnswerMissing, TypeOK
<1>5. CASE BeginParse
  <2>1. \A w \in BOOLEAN : [NextType(Top) EXCEPT !.window = w] \in FrameState
    <3>1. NextType(Top) \in FrameState
      BY <1>5, TopTypes, NextTypeType DEF BeginParse
    <3> QED
      BY <3>1 DEF FrameState
  <2>2. stack' \in Seq(FrameState)
    BY <1>5, <2>1, TopTypes DEF BeginParse
  <2> QED
    BY <1>5, <2>2 DEF BeginParse, TypeOK
<1>6. CASE LoadFiles
  <2>1. stack' \in Seq(FrameState)
    BY <1>6, TopTypes, NextBundleType DEF LoadFiles
  <2> QED
    BY <1>6, <2>1 DEF LoadFiles, TypeOK
<1>7. CASE AnswerBusy
  <2>1. Top \in FrameState /\ stack' \in Seq(FrameState)
    BY <1>7, TopTypes, LeaveType DEF AnswerBusy
  <2>2. FilesOf(Top.bundles) \subseteq File /\ FilesIn(Top.types) \subseteq File
    BY <2>1, BundlesTypes, TypesTypes DEF FrameState
  <2> QED
    BY <1>7, <2>1, <2>2 DEF AnswerBusy, TypeOK
<1>8. CASE StartPipe
  <2>1. Top \in FrameState /\ Top.fl \in Seq(File)
    BY <1>8, TopTypes DEF StartPipe, FrameState
  <2>2. CASE stack' = Goto("noparser") /\ UNCHANGED pipes
    <3>1. stack' \in Seq(FrameState)
      BY <1>8, <2>2, TopTypes DEF StartPipe
    <3> QED
      BY <1>8, <2>2, <3>1 DEF StartPipe, TypeOK
  <2>3. ASSUME NEW p \in Pipe, pipes' = [pipes EXCEPT ![p] = Started("parse", Top.fl)],
               stack' = Put([Top EXCEPT !.at = "pipe", !.pipe = p, !.ran = TRUE])
        PROVE  TypeOK'
    <3>1. [Top EXCEPT !.at = "pipe", !.pipe = p, !.ran = TRUE] \in FrameState
      <4> DEFINE g == [Top EXCEPT !.at = "pipe"]
      <4>1. g \in FrameState
        BY <2>1 DEF FrameState
      <4> HIDE DEF g
      <4>2. [g EXCEPT !.pipe = p, !.ran = TRUE] \in FrameState
        BY <4>1 DEF FrameState
      <4> QED
        BY <4>2 DEF g
    <3>2. stack' \in Seq(FrameState) /\ pipes' \in [Pipe -> PipeState]
      BY <1>8, <2>1, <2>3, <3>1, TopTypes, PipeTypes DEF StartPipe
    <3> QED
      BY <1>8, <3>2 DEF StartPipe, TypeOK
  <2> QED
    BY <1>8, <2>2, <2>3 DEF StartPipe
<1>9. CASE AnswerNoParser
  <2>1. Top \in FrameState /\ stack' \in Seq(FrameState)
    BY <1>9, TopTypes, NextBundleType DEF AnswerNoParser
  <2>2. Elems(Top.fl) \subseteq File
    BY <2>1, ElemsType DEF FrameState
  <2>3. ProcessingCancelled' \in 0..3
    BY <1>9 DEF AnswerNoParser, TypeOK
  <2> QED
    BY <1>9, <2>1, <2>2, <2>3 DEF AnswerNoParser, TypeOK
<1>10. CASE PipeEnds
  <2>1. Top \in FrameState
    BY <1>10, TopTypes DEF PipeEnds
  <2>2. /\ [Top EXCEPT !.at = "killed", !.woken = FALSE] \in FrameState
        /\ [Top EXCEPT !.at = "check", !.woken = FALSE, !.pipe = NoPipe] \in FrameState
    <3> DEFINE g == [Top EXCEPT !.at = "check"]
    <3>1. g \in FrameState /\ [Top EXCEPT !.at = "killed", !.woken = FALSE] \in FrameState
      BY <2>1 DEF FrameState
    <3> HIDE DEF g
    <3>2. [g EXCEPT !.woken = FALSE, !.pipe = NoPipe] \in FrameState
      BY <3>1 DEF FrameState
    <3> QED
      BY <3>1, <3>2 DEF g
  <2>3. stack' \in Seq(FrameState)
    BY <1>10, <2>2, TopTypes DEF PipeEnds
  <2>4. pipes' \in [Pipe -> PipeState]
    <3>1. CASE Exists(Top.pipe) /\ Top.pipe \in Pipe
      BY <1>10, <3>1, PipeTypes DEF PipeEnds
    <3>2. CASE Top.pipe \notin Pipe
      BY <1>10, <3>2 DEF PipeEnds, TypeOK
    <3>3. CASE ~Exists(Top.pipe)
      BY <1>10, <3>3 DEF PipeEnds, TypeOK
    <3> QED
      BY <3>1, <3>2, <3>3
  <2> QED
    BY <1>10, <2>3, <2>4 DEF PipeEnds, TypeOK
<1>11. CASE ClosePipe
  <2>1. Top \in FrameState
    BY <1>11, TopTypes DEF ClosePipe
  <2>2. [Top EXCEPT !.at = "check", !.pipe = NoPipe] \in FrameState
    BY <2>1 DEF FrameState
  <2>3. stack' \in Seq(FrameState)
    BY <1>11, <2>2, TopTypes DEF ClosePipe
  <2>4. pipes' \in [Pipe -> PipeState]
    BY <1>11, PipeTypes DEF ClosePipe, TypeOK
  <2> QED
    BY <1>11, <2>3, <2>4 DEF ClosePipe, TypeOK
<1>12. CASE CheckPipe
  <2>1. Top \in FrameState /\ Top.fl \in Seq(File)
    BY <1>12, TopTypes DEF CheckPipe, FrameState
  <2>3. \A fl \in Seq(File) : [Top EXCEPT !.at = "part", !.fl = fl] \in FrameState
    BY <2>1 DEF FrameState
  <2>4. stack' \in Seq(FrameState)
    <3>1. After(Top.fl, lastFile) \in Seq(File) /\ NextBundle(Top) \in FrameState
      BY <2>1, AfterType, NextBundleType
    <3>2. \/ stack' = Put([Top EXCEPT !.at = "part", !.fl = After(Top.fl, lastFile)])
          \/ stack' = Put(NextBundle(Top)) \/ stack' = Goto("askother")
      BY <1>12 DEF CheckPipe
    <3> QED
      BY <1>12, <2>3, <3>1, <3>2, TopTypes DEF CheckPipe
  <2>6. ProcessingCancelled' \in 0..3
    BY <1>12 DEF CheckPipe, TypeOK
  <2> QED
    BY <1>12, <2>4, <2>6 DEF CheckPipe, TypeOK
<1>13. CASE AnswerOtherTypes
  <2>1. Top \in FrameState /\ stack' \in Seq(FrameState)
    BY <1>13, TopTypes, NextTypeType, LeaveType DEF AnswerOtherTypes
  <2>2. /\ FilesOf(Top.bundles) \subseteq File /\ FilesIn(Top.types) \subseteq File
        /\ Elems(Top.fl) \subseteq File
    BY <2>1, BundlesTypes, TypesTypes, ElemsType DEF FrameState
  <2>3. ProcessingCancelled' \in 0..3 /\ accounted' \subseteq File
    BY <1>13, <2>2 DEF AnswerOtherTypes, TypeOK
  <2> QED
    BY <1>13, <2>1, <2>3 DEF AnswerOtherTypes, TypeOK
<1>14. CASE WindowClosed
  <2>1. stack' \in Seq(FrameState)
    BY <1>14, TopTypes DEF WindowClosed
  <2> QED
    BY <1>14, <2>1 DEF WindowClosed, TypeOK
<1>15. CASE ReopenTables \/ AnswerUnusable
  <2>1. stack' \in Seq(FrameState)
    BY <1>15, TopTypes DEF ReopenTables, AnswerUnusable
  <2>2. tables' \subseteq Both
    BY <1>15 DEF ReopenTables, AnswerUnusable, Opened, Both, TypeOK
  <2> QED
    BY <1>15, <2>1, <2>2 DEF ReopenTables, AnswerUnusable, TypeOK
<1>16. CASE FinishUpdate
  <2>1. stack' \in Seq(FrameState)
    BY <1>16, TopTypes DEF FinishUpdate
  <2>2. /\ SN_cross_pid' \in Pipe \union {NoPipe} /\ pipes' \in [Pipe -> PipeState]
        /\ tables' \subseteq Both
    BY <1>16, PipeTypes DEF FinishUpdate, TypeOK
  <2> QED
    BY <1>16, <2>1, <2>2 DEF FinishUpdate, TypeOK
<1>17. CASE UnloadEnds
  <2>1. Top \in FrameState
    BY <1>17, TopTypes DEF UnloadEnds
  <2>2. [Top EXCEPT !.at = "reopen", !.woken = FALSE, !.pipe = NoPipe] \in FrameState
    <3> DEFINE g == [Top EXCEPT !.at = "reopen"]
    <3>1. g \in FrameState
      BY <2>1 DEF FrameState
    <3> HIDE DEF g
    <3>2. [g EXCEPT !.woken = FALSE, !.pipe = NoPipe] \in FrameState
      BY <3>1 DEF FrameState
    <3> QED
      BY <3>2 DEF g
  <2>3. stack' \in Seq(FrameState)
    BY <1>17, <2>2, TopTypes DEF UnloadEnds
  <2> QED
    BY <1>17, <2>3 DEF UnloadEnds, TypeOK
<1>18. CASE AnswerCrash \/ AnswerSkip \/ AnswerXrefError
  <2>1. Pop \in Seq(FrameState) /\ stack' \in Seq(FrameState)
    BY <1>18, TopTypes, WakeFacts DEF AnswerCrash, AnswerSkip, AnswerXrefError
  <2>2. ProcessingCancelled' \in 0..3
    <3>1. ProcessingCancelled' \in {ProcessingCancelled, 1, 3}
      BY <1>18 DEF AnswerCrash, AnswerSkip, AnswerXrefError
    <3> QED
      BY <3>1 DEF TypeOK
  <2>3. lock' \in Pipe \union {NoPipe} /\ tables' \subseteq Both
    BY <1>18 DEF AnswerCrash, AnswerSkip, AnswerXrefError, AfterXref, Both, TypeOK
  <2>4. UNCHANGED <<lastFile, SN_cross_pid, pipes, starts, overlap, named, gaveUp>>
    BY <1>18 DEF AnswerCrash, AnswerSkip, AnswerXrefError
  <2>5. accounted' \subseteq File
    <3>1. Skipped \subseteq File
      <4>1. \A i \in 1..Len(stack) : Elems(stack[i].fl) \subseteq File
        <5>1. ASSUME NEW i \in 1..Len(stack) PROVE stack[i].fl \in Seq(File)
          <6>1. stack[i] \in FrameState
            BY DEF TypeOK
          <6> QED
            BY <6>1 DEF FrameState
        <5> QED
          BY <5>1, ElemsType
      <4> QED
        BY <4>1 DEF Skipped, TypeOK
    <3>2. accounted' = accounted \/ accounted' = accounted \union Skipped
      BY <1>18 DEF AnswerCrash, AnswerSkip, AnswerXrefError
    <3> QED
      BY <3>1, <3>2 DEF TypeOK
  <2> QED
    BY <2>1, <2>2, <2>3, <2>4, <2>5 DEF TypeOK
<1>19. ASSUME NEW p \in Pipe, Serve(p) \/ CancelXref(p) PROVE TypeOK'
  <2>1. \A l \in Places : Push(Frame(l, <<>>, NoPipe)) \in Seq(FrameState)
    <3>1. <<>> \in Seq(Bundles)
      OBVIOUS
    <3> QED
      BY <3>1, FrameType, PushFacts DEF Push, TypeOK
  <2>2. \A l : Wake(stack, l) \in Seq(FrameState)
    BY WakeFacts DEF TypeOK
  <2>3. CASE ServeLine(p)
    <3>1. pipes[p].out \in Seq(File) /\ pipes[p].out # <<>>
      BY <2>3, PipeTypes DEF ServeLine, PipeState
    <3>2. Head(pipes[p].out) \in File /\ Tail(pipes[p].out) \in Seq(File)
      BY <3>1
    <3>3. pipes' \in [Pipe -> PipeState]
      <4> DEFINE o == Tail(pipes[p].out)
      <4>1. pipes' = [pipes EXCEPT ![p].out = o] /\ o \in Seq(File)
        BY <2>3, <3>2 DEF ServeLine
      <4> HIDE DEF o
      <4> QED
        BY <4>1, OutOn DEF TypeOK
    <3> QED
      BY <2>3, <3>2, <3>3 DEF ServeLine, TypeOK
  <2>4. CASE ServeEof(p)
    <3>1. stack' \in Seq(FrameState) /\ pipes' \in [Pipe -> PipeState]
      <4>1. pipes' = [pipes EXCEPT ![p] = Idle]
        BY <2>4 DEF ServeEof
      <4>2. stack' = Push(Frame("crash", <<>>, NoPipe)) \/ stack' = Wake(stack, "pipe")
        BY <2>4 DEF ServeEof
      <4>3. stack' \in Seq(FrameState)
        BY <2>1, <2>2, <4>2
      <4>4. pipes' \in [Pipe -> PipeState]
        BY <4>1, PipeTypes
      <4> QED
        BY <4>3, <4>4
    <3>2. ProcessingCancelled' \in 0..3
      BY <2>4 DEF ServeEof, TypeOK
    <3> QED
      BY <2>4, <3>1, <3>2 DEF ServeEof, TypeOK
  <2>5. CASE ServeCancelled(p)
    <3>1. pipes' \in [Pipe -> PipeState]
      <4>1. pipes' = [pipes EXCEPT ![p].on = FALSE]
        BY <2>5 DEF ServeCancelled
      <4> QED
        BY <4>1, OutOn DEF TypeOK
    <3> QED
      BY <2>2, <2>5, <3>1 DEF ServeCancelled, TypeOK
  <2>6. CASE ServeFailed(p)
    <3>1. pipes' \in [Pipe -> PipeState] /\ lock' \in Pipe \union {NoPipe}
      BY <2>6, PipeTypes DEF ServeFailed, TypeOK
    <3> QED
      BY <2>2, <2>6, <3>1 DEF ServeFailed, TypeOK
  <2>7. CASE ServeXref(p) \/ CancelXref(p)
    <3>1. pipes' \in [Pipe -> PipeState]
      BY <2>7, PipeTypes DEF ServeXref, CancelXref
    <3>3. stack' = stack \/ stack' = Push(Frame("xreferr", <<>>, NoPipe))
      BY <2>7 DEF ServeXref, CancelXref
    <3>4. stack' \in Seq(FrameState)
      BY <2>1, <3>3 DEF TypeOK
    <3>2. lock' \in Pipe \union {NoPipe} /\ tables' \subseteq Both
      BY <2>7 DEF ServeXref, CancelXref, AfterXref, Both, TypeOK
    <3> QED
      <4>1. /\ SN_cross_pid' = NoPipe
            /\ UNCHANGED <<ProcessingCancelled, lastFile, starts, overlap, named, accounted, gaveUp>>
        BY <2>7 DEF ServeXref, CancelXref
      <4> QED
        BY <3>1, <3>2, <3>4, <4>1 DEF TypeOK
  <2>8. CASE ServeUnload(p)
    <3>1. pipes' \in [Pipe -> PipeState]
      BY <2>8, PipeTypes DEF ServeUnload
    <3> QED
      BY <2>2, <2>8, <3>1 DEF ServeUnload, TypeOK
  <2> QED
    BY <1>19, <2>3, <2>4, <2>5, <2>6, <2>7, <2>8 DEF Serve
<1>20. CASE StartUnload
  <2>1. PICK p \in Pipe : /\ pipes' = [pipes EXCEPT ![p] = Started("unload", <<>>)]
                          /\ stack' = Push(Frame("unload", <<>>, p))
    BY <1>20 DEF StartUnload
  <2>2. <<>> \in Seq(Bundles)
    OBVIOUS
  <2>3. stack' \in Seq(FrameState) /\ pipes' \in [Pipe -> PipeState]
    BY <2>1, <2>2, FrameType, PushFacts, PipeTypes DEF Push, TypeOK
  <2>4. overlap' \in BOOLEAN
    BY <1>20 DEF StartUnload
  <2> QED
    BY <1>20, <2>3, <2>4 DEF StartUnload, TypeOK
<1>21. CASE Cancel
  <2>1. stack' \in Seq(FrameState)
    BY <1>21, WakeFacts DEF Cancel, TypeOK
  <2> QED
    BY <1>21, <2>1 DEF Cancel, TypeOK
<1>22. CASE UNCHANGED vars
  BY <1>22 DEF vars, TypeOK
<1> QED
  BY <1>1, <1>2, <1>3, <1>4, <1>5, <1>6, <1>7, <1>8, <1>9, <1>10, <1>11, <1>12, <1>13, <1>14,
     <1>15, <1>16, <1>17, <1>18, <1>19, <1>20, <1>21, <1>22 DEF Next, Proceed, Answer

(* What hyper keeps of its procedures, their pipes and its open databases  *)
(* stays within its type, and the status of a cancel is one of the four.   *)
THEOREM TypeCorrect == Spec => []TypeOK
BY TypeInit, TypeStep, PTL DEF Spec

-----------------------------------------------------------------------------
(* What holds of the session, unless updates or unloads have been nested,  *)
(* as a predicate of a stack s, a SN_cross_pid c, open tables t, pipes P   *)
(* and a lock file L.                                                      *)
Callbacks == {"crash", "askskip", "xreferr"}
Busy      == {"part", "noparser", "pipe", "killed", "check", "askother", "unload"}
Closed    == Busy \union {"files"}

(* One procedure works; below it there are only updates from which an      *)
(* unload was started, above it only callbacks.                            *)
Shape(s) ==
    /\ \A i, j \in 1..Len(s) : i < j => s[j].at \in Callbacks \/ s[i].at = "begin"
    /\ \A i \in 1..Len(s) : i < Len(s) => s[i].at \in Waits \union {"begin"}
    /\ s # <<>> => s[1].at \notin {"crash", "askskip"}

Failed(s) == \E j \in 1..Len(s) : s[j].at = "xreferr"

FrameOK(f, c, t, P, e) ==
    /\ f.at \in Closed => t = {} /\ ~e
    /\ f.at \in Busy \/ f.ran => c = NoPipe
    /\ f.at \in {"scan", "missing", "begin"} \union Callbacks => ~f.ran
    /\ f.at = "unload" /\ f.woken /\ f.pipe \in Pipe => ~P[f.pipe].open
    /\ f.at = "xreferr" => c = NoPipe
    /\ f.at \in {"scan", "missing", "xref"} => t = Opened(c) \/ e

Frames(s, c, t, P) == \A i \in 1..Len(s) : FrameOK(s[i], c, t, P, Failed(s))

(* Whoever started a pipe is still waiting for it.                         *)
Owns(f, p, P) == /\ f.pipe = p
                 /\ \/ P[p].kind = "parse" /\ f.at \in {"pipe", "killed"}
                    \/ P[p].kind = "unload" /\ f.at = "unload"
Owned(s, c, P) ==
    \A p \in Pipe : P[p].open =>
        (P[p].kind = "xref" /\ c = p) \/ \E i \in 1..Len(s) : Owns(s[i], p, P)

Clean(r) == r.st = "ended" /\ r.err = "no"

Cross(s, c, t, P, L) ==
    /\ \A p \in Pipe : c = p => /\ P[p].open /\ P[p].kind = "xref"
                                /\ Clean(P[p]) => L = NoPipe
    /\ c # NoPipe => "xrefs" \notin t
    /\ s = <<>> => t = Opened(c)

Calm == /\ Shape(stack) /\ Frames(stack, SN_cross_pid, tables, pipes)
        /\ Owned(stack, SN_cross_pid, pipes)
        /\ Cross(stack, SN_cross_pid, tables, pipes, lock)

PipesOK == \A p \in Pipe : Runs(p) => pipes[p].open

IInv == PipesOK /\ (overlap \/ Calm)

(* A procedure that is not a callback is the only one that does not wait   *)
(* for an unload it has started itself.                                    *)
LEMMA TopAlone ==
    ASSUME TypeOK, Calm, NEW l, At(l), l \notin Callbacks
    PROVE  /\ \A i \in 1..Len(stack) : i = Len(stack) \/ stack[i].at = "begin"
           /\ ~Failed(stack) /\ Len(stack) \in 1..Len(stack) /\ Top = stack[Len(stack)]
           /\ FrameOK(Top, SN_cross_pid, tables, pipes, FALSE)
           /\ \A p \in Pipe : pipes[p].open =>
                 (pipes[p].kind = "xref" /\ SN_cross_pid = p) \/ Owns(Top, p, pipes)
<1>1. stack \in Seq(FrameState) /\ stack # <<>> /\ Top = stack[Len(stack)] /\ Top.at = l
  BY DEF TypeOK, At, Top
<1>2. Len(stack) \in 1..Len(stack) /\ \A i \in 1..Len(stack) : i < Len(stack) \/ i = Len(stack)
  BY <1>1
<1>3. \A i \in 1..Len(stack) : i = Len(stack) \/ stack[i].at = "begin"
  BY <1>1, <1>2 DEF Calm, Shape
<1>4. ~Failed(stack)
  BY <1>1, <1>3 DEF Failed, Callbacks
<1>5. FrameOK(Top, SN_cross_pid, tables, pipes, FALSE)
  <2>1. FrameOK(Top, SN_cross_pid, tables, pipes, Failed(stack))
    BY <1>1, <1>2 DEF Calm, Frames
  <2> QED
    BY <1>4, <2>1 DEF FrameOK
<1>6. ASSUME NEW p \in Pipe, pipes[p].open
      PROVE  (pipes[p].kind = "xref" /\ SN_cross_pid = p) \/ Owns(Top, p, pipes)
  BY <1>1, <1>3, <1>6 DEF Calm, Owned, Owns
<1> QED
  BY <1>1, <1>2, <1>3, <1>4, <1>5, <1>6

(* An update that waits below in begin is at peace with any state.         *)
LEMMA BeginOK ==
    ASSUME NEW f, NEW c, NEW t, NEW P, NEW e, f.at = "begin", ~f.ran
    PROVE  FrameOK(f, c, t, P, e)
BY DEF FrameOK, Closed, Busy, Callbacks

LEMMA BasePut ==
    ASSUME TypeOK, Calm, NEW l, At(l), l \notin Callbacks,
           NEW g \in FrameState, g.at \notin Callbacks,
           NEW c, NEW t, NEW P, FrameOK(g, c, t, P, FALSE)
    PROVE  /\ Shape(Put(g)) /\ Frames(Put(g), c, t, P) /\ Put(g) # <<>>
           /\ \A p \in Pipe : Owns(g, p, P) => \E i \in 1..Len(Put(g)) : Owns(Put(g)[i], p, P)
<1> DEFINE s == Put(g)
<1>1. stack \in Seq(FrameState) /\ stack # <<>>
  BY DEF TypeOK, At
<1>2. /\ s \in Seq(FrameState) /\ Len(s) = Len(stack) /\ Len(stack) \in 1..Len(stack)
      /\ \A i \in 1..Len(stack) : i < Len(stack) \/ i = Len(stack)
      /\ \A i \in 1..Len(stack) : i # Len(stack) => s[i] = stack[i]
      /\ s[Len(stack)] = g
  BY <1>1, PutFacts DEF Put
<1>3. \A i \in 1..Len(stack) : i = Len(stack) \/ stack[i].at = "begin"
  BY TopAlone
<1>4. \A i \in 1..Len(stack) : i # Len(stack) => s[i].at = "begin" /\ ~s[i].ran
  BY <1>2, <1>3 DEF Calm, Frames, FrameOK
<1> HIDE DEF s
<1>5. ~Failed(s)
  BY <1>2, <1>4 DEF Failed, Callbacks
<1>6. Frames(s, c, t, P)
  <2> SUFFICES ASSUME NEW i \in 1..Len(s) PROVE FrameOK(s[i], c, t, P, Failed(s))
    BY DEF Frames
  <2>1. CASE i = Len(stack)
    BY <1>2, <1>5, <2>1 DEF FrameOK
  <2>2. CASE i # Len(stack)
    BY <1>2, <1>4, <2>2, BeginOK
  <2> QED
    BY <2>1, <2>2
<1>7. Shape(s)
  BY <1>2, <1>4 DEF Shape, Callbacks
<1> QED
  BY <1>1, <1>2, <1>6, <1>7 DEF s

LEMMA BasePop ==
    ASSUME TypeOK, Calm, NEW l, At(l), l \notin Callbacks, NEW c, NEW t, NEW P
    PROVE  Shape(Pop) /\ Frames(Pop, c, t, P) /\ Pop \in Seq(FrameState)
<1> DEFINE s == Pop
<1>1. stack \in Seq(FrameState) /\ stack # <<>>
  BY DEF TypeOK, At
<1>2. /\ s \in Seq(FrameState) /\ Len(s) = Len(stack) - 1 /\ Len(stack) \in Nat \ {0}
      /\ \A i \in 1..(Len(stack) - 1) : i \in 1..Len(stack) /\ s[i] = stack[i]
  BY <1>1, PopFacts DEF Pop
<1>3. \A i \in 1..Len(stack) : i = Len(stack) \/ stack[i].at = "begin"
  BY TopAlone
<1>4. \A i \in 1..(Len(stack) - 1) : s[i].at = "begin" /\ ~s[i].ran
  BY <1>2, <1>3 DEF Calm, Frames, FrameOK
<1> HIDE DEF s
<1>5. Frames(s, c, t, P)
  BY <1>2, <1>4, BeginOK DEF Frames
<1>6. Shape(s)
  <2>1. s # <<>> => 1 \in 1..(Len(stack) - 1)
    BY <1>2
  <2> QED
    BY <1>2, <1>4, <2>1 DEF Shape
<1> QED
  BY <1>2, <1>5, <1>6 DEF s

(* A procedure on an empty stack.                                          *)
LEMMA Single ==
    ASSUME NEW s, s = <<>>, NEW g \in FrameState, g.at \notin {"crash", "askskip"},
           NEW c, NEW t, NEW P, FrameOK(g, c, t, P, g.at = "xreferr")
    PROVE  /\ Shape(Append(s, g)) /\ Frames(Append(s, g), c, t, P) /\ Append(s, g) # <<>>
           /\ \A p \in Pipe : Owns(g, p, P) => \E i \in 1..Len(Append(s, g)) : Owns(Append(s, g)[i], p, P)
<1> DEFINE q == Append(s, g)
<1>1. Len(q) = 1 /\ q[1] = g /\ 1 \in 1..1 /\ \A i \in 1..1 : i = 1
  OBVIOUS
<1> HIDE DEF q
<1>2. Failed(q) <=> g.at = "xreferr"
  BY <1>1 DEF Failed
<1>3. Shape(q)
  BY <1>1 DEF Shape
<1>4. Frames(q, c, t, P)
  <2>1. FrameOK(g, c, t, P, Failed(q))
    BY <1>2 DEF FrameOK
  <2> QED
    BY <1>1, <2>1 DEF Frames
<1>5. \A p \in Pipe : Owns(g, p, P) => \E i \in 1..Len(q) : Owns(q[i], p, P)
  BY <1>1
<1>6. q # <<>>
  BY <1>1
<1> QED
  BY <1>3, <1>4, <1>5, <1>6 DEF q

LEMMA WakeStep ==
    ASSUME NEW s \in Seq(FrameState), NEW l, NEW c, NEW t, NEW P, Shape(s), Frames(s, c, t, P),
           l = "unload" => \A i \in 1..Len(s) : s[i].at = "unload" /\ s[i].pipe \in Pipe
                                                  => ~P[s[i].pipe].open
    PROVE  /\ Shape(Wake(s, l)) /\ Frames(Wake(s, l), c, t, P)
           /\ Wake(s, l) = <<>> => s = <<>>
           /\ Owned(s, c, P) => Owned(Wake(s, l), c, P)
<1> DEFINE w == Wake(s, l)
<1>1. /\ w \in Seq(FrameState) /\ Len(w) = Len(s)
      /\ \A i \in 1..Len(s) : /\ w[i].at = s[i].at /\ w[i].pipe = s[i].pipe /\ w[i].ran = s[i].ran
                              /\ s[i].at # l => w[i] = s[i]
  BY WakeFacts
<1> HIDE DEF w
<1>2. Failed(w) <=> Failed(s)
  BY <1>1 DEF Failed
<1>3. w # <<>> => 1 \in 1..Len(s) /\ s # <<>>
  BY <1>1
<1>4. Shape(w)
  BY <1>1, <1>3 DEF Shape
<1>5. Frames(w, c, t, P)
  <2> SUFFICES ASSUME NEW i \in 1..Len(s) PROVE FrameOK(w[i], c, t, P, Failed(w))
    BY <1>1 DEF Frames
  <2>1. FrameOK(s[i], c, t, P, Failed(s))
    BY DEF Frames
  <2>2. w[i].at = "unload" /\ w[i].woken /\ w[i].pipe \in Pipe => ~P[w[i].pipe].open
    BY <1>1, <2>1 DEF FrameOK
  <2> QED
    BY <1>1, <1>2, <2>1, <2>2 DEF FrameOK
<1>6. Owned(s, c, P) => Owned(w, c, P)
  BY <1>1 DEF Owned, Owns
<1>7. w = <<>> => s = <<>>
  BY <1>1
<1> QED
  BY <1>4, <1>5, <1>6, <1>7 DEF w

(* Pipes that end disturb nobody.                                          *)
LEMMA FewerPipes ==
    ASSUME NEW s, NEW c, NEW t, NEW P, NEW Q, Frames(s, c, t, P),
           \A p \in Pipe : Q[p].open => P[p].open
    PROVE  Frames(s, c, t, Q)
BY DEF Frames, FrameOK

LEMMA FewerOwned ==
    ASSUME NEW s, NEW c, NEW P, NEW Q, Owned(s, c, P),
           \A p \in Pipe : Q[p].open => P[p].open /\ Q[p].kind = P[p].kind
    PROVE  Owned(s, c, Q)
BY DEF Owned, Owns

LEMMA PushCallback ==
    ASSUME NEW s \in Seq(FrameState), Shape(s), NEW g \in FrameState, g.at \in Callbacks,
           s # <<>> => s[Len(s)].at \in Waits \union {"begin"},
           s = <<>> => g.at = "xreferr"
    PROVE  Shape(Append(s, g))
<1> DEFINE q == Append(s, g)
<1>1. /\ q \in Seq(FrameState) /\ Len(q) = Len(s) + 1 /\ Len(s) \in Nat
      /\ \A i \in 1..Len(s) : i \in 1..(Len(s) + 1) /\ q[i] = s[i] /\ i < Len(s) + 1
      /\ \A i \in 1..(Len(s) + 1) : i \in 1..Len(s) \/ i = Len(s) + 1
      /\ q[Len(s) + 1] = g
  BY PushFacts
<1>2. \A i \in 1..Len(s) : s # <<>> /\ (i < Len(s) \/ i = Len(s))
  OBVIOUS
<1> HIDE DEF q
<1>3. ASSUME NEW i \in 1..Len(q), NEW j \in 1..Len(q), i < j
      PROVE  q[j].at \in Callbacks \/ q[i].at = "begin"
  <2>1. CASE j = Len(s) + 1
    BY <1>1, <2>1
  <2>2. CASE j \in 1..Len(s)
    <3>1. i \in 1..Len(s)
      BY <1>1, <1>3, <2>2
    <3> QED
      BY <1>1, <1>3, <2>2, <3>1 DEF Shape
  <2> QED
    BY <1>1, <2>1, <2>2
<1>4. ASSUME NEW i \in 1..Len(q), i < Len(q) PROVE q[i].at \in Waits \union {"begin"}
  <2>1. i \in 1..Len(s) /\ q[i] = s[i]
    BY <1>1, <1>4
  <2> QED
    BY <1>2, <2>1 DEF Shape
<1>5. q[1].at \notin {"crash", "askskip"}
  <2>1. CASE s = <<>>
    BY <1>1, <2>1
  <2>2. CASE s # <<>>
    <3>1. 1 \in 1..Len(s)
      BY <2>2
    <3> QED
      BY <1>1, <2>2, <3>1 DEF Shape
  <2> QED
    BY <2>1, <2>2
<1> QED
  BY <1>3, <1>4, <1>5 DEF Shape, q

LEMMA PopShape ==
    ASSUME NEW s \in Seq(FrameState), s # <<>>, Shape(s)
    PROVE  Shape(SubSeq(s, 1, Len(s) - 1))
<1> DEFINE q == SubSeq(s, 1, Len(s) - 1)
<1>1. /\ q \in Seq(FrameState) /\ Len(q) = Len(s) - 1 /\ Len(s) \in Nat \ {0}
      /\ \A i \in 1..(Len(s) - 1) : i \in 1..Len(s) /\ q[i] = s[i]
  BY PopFacts
<1> HIDE DEF q
<1>2. q # <<>> => 1 \in 1..(Len(s) - 1)
  BY <1>1
<1>3. \A i \in 1..Len(q) : i < Len(q) => i < Len(s)
  BY <1>1
<1> QED
  BY <1>1, <1>2, <1>3 DEF Shape, q

-----------------------------------------------------------------------------
(* What happens to one pipe.                                               *)
LEMMA OnePipe ==
    ASSUME NEW P \in [Pipe -> PipeState], NEW p \in Pipe, NEW r \in PipeState
    PROVE  /\ [P EXCEPT ![p] = r][p] = r
           /\ \A q \in Pipe : q # p => [P EXCEPT ![p] = r][q] = P[q]
OBVIOUS

LEMMA StateFields ==
    ASSUME TypeOK, NEW p \in Pipe
    PROVE  /\ ~Idle.open /\ Idle.kind = "none" /\ Idle.st = "ended"
           /\ Killed(p).open = pipes[p].open /\ Killed(p).kind = pipes[p].kind
           /\ Killed(p).st = "ended"
           /\ Clean(Killed(p)) => Clean(pipes[p])
           /\ \A k, todo : /\ Started(k, todo).open /\ Started(k, todo).kind = k
                           /\ Started(k, todo).st = "starting"
<1>1. pipes[p] \in PipeState
  BY PipeTypes
<1> QED
  BY <1>1 DEF Idle, Killed, Started, Runs, PipeState, Clean

(* A process of a pipe takes a step: who started it keeps it.              *)
LEMMA ProcessStep ==
    ASSUME TypeOK, NEW p \in Pipe, Work(p) \/ Fault(p)
    PROVE  /\ pipes[p].st \in {"starting", "locked"}
           /\ \A q \in Pipe : /\ pipes'[q].open = pipes[q].open /\ pipes'[q].kind = pipes[q].kind
                              /\ q # p => pipes'[q] = pipes[q]
           /\ Clean(pipes'[p]) /\ pipes[p].kind = "xref" => lock' = NoPipe
           /\ UNCHANGED <<stack, SN_cross_pid, tables, overlap>>
<1>1. pipes \in [Pipe -> PipeState] /\ pipes[p] \in PipeState
  BY PipeTypes DEF TypeOK
<1> USE DEF globals, history
<1>2. CASE TakeLock(p)
  BY <1>1, <1>2 DEF TakeLock, PipeState, Clean
<1>3. CASE StoreFile(p)
  BY <1>1, <1>3 DEF StoreFile, PipeState, Clean
<1>4. CASE EndImport(p)
  BY <1>1, <1>4 DEF EndImport, PipeState, Clean
<1>5. ASSUME NEW k \in 0..1, NEW e \in {"warns", "crash"}, Leaves(p, k, e)
      PROVE  /\ \A q \in Pipe : /\ pipes'[q].open = pipes[q].open /\ pipes'[q].kind = pipes[q].kind
                                /\ q # p => pipes'[q] = pipes[q]
             /\ ~Clean(pipes'[p])
  BY <1>1, <1>5 DEF Leaves, PipeState, Clean
<1>7. CASE DbimpDies(p)
  BY <1>5, <1>7 DEF DbimpDies, Runs
<1>8. CASE DbimpExits(p)
  BY <1>5, <1>8 DEF DbimpExits, Runs
<1>6. CASE ParserCrashes(p)
  BY <1>1, <1>6 DEF ParserCrashes, PipeState, Runs, Clean
<1> QED
  BY <1>2, <1>3, <1>4, <1>6, <1>7, <1>8 DEF Work, Fault

LEMMA PipesPut ==
    ASSUME TypeOK, PipesOK, NEW p \in Pipe, NEW r, r.st \in {"starting", "locked"} => r.open,
           pipes' = [pipes EXCEPT ![p] = r]
    PROVE  PipesOK'
BY DEF TypeOK, PipesOK, Runs

(* What the code does with a pipe, apart from what the processes do.       *)
LEMMA PipesStep == TypeOK /\ PipesOK /\ [Next]_vars => PipesOK'
<1> SUFFICES ASSUME TypeOK, PipesOK, [Next]_vars PROVE PipesOK'
  OBVIOUS
<1> USE DEF globals, history
<1>1. ASSUME NEW p \in Pipe, Work(p) \/ Fault(p) PROVE PipesOK'
  <2>1. pipes[p].open
    BY <1>1, ProcessStep DEF PipesOK, Runs
  <2> QED
    BY <1>1, <2>1, ProcessStep DEF PipesOK, Runs
<1>2. CASE UNCHANGED pipes
  BY <1>2 DEF PipesOK, Runs
<1>3. ASSUME NEW p \in Pipe, pipes' = [pipes EXCEPT ![p] = Idle] PROVE PipesOK'
  BY <1>3, StateFields, PipesPut
<1>4. ASSUME NEW p \in Pipe, NEW k, NEW todo, pipes' = [pipes EXCEPT ![p] = Started(k, todo)]
      PROVE  PipesOK'
  BY <1>4, StateFields, PipesPut
<1>5. ASSUME NEW p \in Pipe, pipes' = [pipes EXCEPT ![p] = Killed(p)] PROVE PipesOK'
  BY <1>5, StateFields, PipesPut DEF PipesOK, Runs
<1>6. ASSUME NEW p \in Pipe, ServeLine(p) \/ ServeCancelled(p) PROVE PipesOK'
  <2>1. pipes \in [Pipe -> PipeState]
    BY DEF TypeOK
  <2>2. /\ pipes'[p].st = pipes[p].st /\ pipes'[p].err = pipes[p].err
        /\ pipes'[p].open = pipes[p].open /\ \A q \in Pipe : q # p => pipes'[q] = pipes[q]
    BY <1>6, <2>1 DEF ServeLine, ServeCancelled, PipeState
  <2> QED
    BY <2>1, <2>2 DEF PipesOK, Runs
<1>7. ASSUME NEW p \in Pipe, Serve(p) \/ CancelXref(p) PROVE PipesOK'
  <2>1. CASE ServeLine(p) \/ ServeCancelled(p)
    BY <1>6, <2>1
  <2>2. CASE ServeEof(p) \/ ServeFailed(p) \/ ServeXref(p) \/ ServeUnload(p) \/ CancelXref(p)
    BY <1>3, <2>2 DEF ServeEof, ServeFailed, ServeXref, ServeUnload, CancelXref
  <2> QED
    BY <1>7, <2>1, <2>2 DEF Serve
<1>8. CASE AnswerMissing
  BY <1>2, <1>4, <1>8 DEF AnswerMissing
<1>9. CASE StartPipe
  BY <1>2, <1>4, <1>9 DEF StartPipe
<1>10. CASE PipeEnds
  <2> DEFINE p == Top.pipe
  <2>1. CASE Exists(p)
    <3>1. p \in Pipe \/ pipes' = pipes
      BY <1>10, <2>1 DEF PipeEnds, TypeOK
    <3> QED
      BY <1>2, <1>5, <1>10, <2>1, <3>1 DEF PipeEnds
  <2> QED
    BY <1>2, <1>10, <2>1 DEF PipeEnds
<1>11. CASE ClosePipe
  <2>1. Top.pipe \in Pipe \/ pipes' = pipes
    BY <1>11 DEF ClosePipe, TypeOK
  <2> QED
    BY <1>2, <1>3, <1>11, <2>1 DEF ClosePipe
<1>12. CASE FinishUpdate
  BY <1>2, <1>4, <1>12 DEF FinishUpdate
<1>13. CASE StartUnload
  BY <1>4, <1>13 DEF StartUnload
<1>14. CASE \/ FilesScanned \/ BeginParse \/ LoadFiles \/ CheckPipe \/ WindowClosed \/ ReopenTables
            \/ UnloadEnds \/ AnswerBusy \/ AnswerNoParser \/ AnswerOtherTypes \/ AnswerUnusable
            \/ AnswerCrash \/ AnswerSkip \/ AnswerXrefError \/ Cancel
            \/ (\E job \in Jobs : StartUpdate(job)) \/ UNCHANGED vars
  <2>1. UNCHANGED pipes
    BY <1>14 DEF FilesScanned, BeginParse, LoadFiles, CheckPipe, WindowClosed, ReopenTables,
       UnloadEnds, AnswerBusy, AnswerNoParser, AnswerOtherTypes, AnswerUnusable, AnswerCrash,
       AnswerSkip, AnswerXrefError, Cancel, StartUpdate, vars
  <2> QED
    BY <1>2, <2>1
<1> QED
  BY <1>1, <1>7, <1>8, <1>9, <1>10, <1>11, <1>12, <1>13, <1>14 DEF Next, Proceed, Answer

-----------------------------------------------------------------------------
(* A session in which nothing is left of earlier updates is calm.          *)
LEMMA QuietCalm == TypeOK /\ Quiet => Calm
<1> SUFFICES ASSUME TypeOK, Quiet PROVE Calm
  OBVIOUS
<1>1. /\ stack = <<>> /\ SN_cross_pid = NoPipe /\ tables = Both
      /\ \A p \in Pipe : ~pipes[p].open
  BY DEF Quiet, Exists
<1>2. 1..Len(stack) = {}
  BY <1>1
<1> QED
  BY <1>1, <1>2, NoneAssumption DEF Calm, Shape, Frames, Owned, Cross, Opened

(* Where the loops over types and bundles go on.                           *)
LEMMA NextFields ==
    ASSUME NEW f \in FrameState
    PROVE  /\ Leave(f).at = "closing" /\ Leave(f).ran = f.ran
           /\ NextType(f).at \in {"files", "closing"} /\ NextType(f).ran = f.ran
           /\ \A w : /\ [NextType(f) EXCEPT !.window = w].at = NextType(f).at
                     /\ [NextType(f) EXCEPT !.window = w].ran = NextType(f).ran
           /\ NextBundle(f).at \in {"part", "files", "closing"} /\ NextBundle(f).ran = f.ran
           /\ \A l : [f EXCEPT !.at = l].at = l /\ [f EXCEPT !.at = l].ran = f.ran
<1>1. Leave(f).at = "closing" /\ Leave(f).ran = f.ran
  BY DEF Leave, FrameState
<1>2. /\ NextType(f).at \in {"files", "closing"} /\ NextType(f).ran = f.ran
      /\ \A w : /\ [NextType(f) EXCEPT !.window = w].at = NextType(f).at
                /\ [NextType(f) EXCEPT !.window = w].ran = NextType(f).ran
  <2>1. CASE f.types = <<>>
    <3>1. NextType(f) = Leave(f)
      BY <2>1 DEF NextType
    <3>2. \A w : [Leave(f) EXCEPT !.window = w].at = Leave(f).at
                 /\ [Leave(f) EXCEPT !.window = w].ran = Leave(f).ran
      BY DEF Leave, FrameState
    <3> QED
      BY <1>1, <3>1, <3>2
  <2>2. CASE f.types # <<>>
    BY <2>2 DEF NextType, FrameState
  <2> QED
    BY <2>1, <2>2
<1>3. NextBundle(f).at \in {"part", "files", "closing"} /\ NextBundle(f).ran = f.ran
  <2>1. CASE f.bundles = <<>>
    BY <1>2, <2>1 DEF NextBundle
  <2>2. CASE f.bundles # <<>>
    BY <2>2 DEF NextBundle, FrameState
  <2> QED
    BY <2>1, <2>2
<1>4. \A l : [f EXCEPT !.at = l].at = l /\ [f EXCEPT !.at = l].ran = f.ran
  BY DEF FrameState
<1> QED
  BY <1>1, <1>2, <1>3, <1>4

(* The procedure that works goes on.                                       *)
LEMMA CalmPut ==
    ASSUME TypeOK, TypeOK', Calm, NEW l, At(l), l \notin Callbacks,
           NEW g, g.at \notin Callbacks, stack' = Put(g),
           FrameOK(g, SN_cross_pid', tables', pipes', FALSE),
           \A p \in Pipe : pipes'[p].open =>
                (pipes'[p].kind = "xref" /\ SN_cross_pid' = p) \/ Owns(g, p, pipes'),
           \A p \in Pipe : SN_cross_pid' = p =>
                pipes'[p].open /\ pipes'[p].kind = "xref" /\ (Clean(pipes'[p]) => lock' = NoPipe),
           SN_cross_pid' # NoPipe => "xrefs" \notin tables'
    PROVE  Calm'
<1>1. stack \in Seq(FrameState) /\ stack # <<>> /\ Put(g) \in Seq(FrameState)
  BY DEF TypeOK, At
<1>2. g \in FrameState
  <2>1. Len(Put(g)) = Len(stack) /\ Len(stack) \in 1..Len(stack) /\ Put(g)[Len(stack)] = g
    BY <1>1 DEF Put
  <2>2. Put(g)[Len(stack)] \in FrameState
    BY <1>1, <2>1
  <2> QED
    BY <2>1, <2>2
<1>3. /\ Shape(stack') /\ Frames(stack', SN_cross_pid', tables', pipes') /\ stack' # <<>>
      /\ \A p \in Pipe : Owns(g, p, pipes') => \E i \in 1..Len(stack') : Owns(stack'[i], p, pipes')
  BY <1>2, BasePut
<1> QED
  BY <1>3 DEF Calm, Owned, Cross

(* It goes on while no pipe but one for references runs.                   *)
LEMMA CalmGo ==
    ASSUME TypeOK, TypeOK', Calm, NEW l, At(l), l \notin Callbacks, l \notin {"pipe", "killed", "unload"},
           NEW g, g.at \notin Callbacks, stack' = Put(g), UNCHANGED <<SN_cross_pid, pipes, lock>>,
           FrameOK(g, SN_cross_pid, tables', pipes, FALSE),
           SN_cross_pid # NoPipe => "xrefs" \notin tables'
    PROVE  Calm'
<1>1. Top.at = l
  BY DEF At
<1>2. \A p \in Pipe : pipes[p].open => pipes[p].kind = "xref" /\ SN_cross_pid = p
  BY <1>1, TopAlone DEF Owns
<1> QED
  BY <1>2, CalmPut DEF Calm, Cross

(* The steps of an update that touch no pipe.                              *)
LEMMA CalmUpdate ==
    ASSUME TypeOK, TypeOK', Calm,
           \/ FilesScanned \/ BeginParse \/ LoadFiles \/ AnswerBusy \/ AnswerNoParser \/ CheckPipe
           \/ AnswerOtherTypes \/ WindowClosed \/ ReopenTables \/ AnswerUnusable
           \/ StartPipe /\ UNCHANGED pipes
    PROVE  Calm'
<1> USE DEF Callbacks, globals, history
<1>1. ASSUME NEW l, At(l), l \notin Callbacks
      PROVE  /\ Top \in FrameState /\ Top.at = l
             /\ FrameOK(Top, SN_cross_pid, tables, pipes, FALSE)
             /\ \A m : Goto(m) = Put([Top EXCEPT !.at = m])
             /\ SN_cross_pid # NoPipe => "xrefs" \notin tables
  BY <1>1, TopTypes, TopAlone DEF Goto, Calm, Cross
<1>2. ASSUME NEW g, g.at \in {"closing", "files", "part", "askother", "noparser"}, NEW l, At(l),
             l \in {"begin", "files", "part", "noparser", "check", "askother"},
             stack' = Put(g), UNCHANGED <<SN_cross_pid, pipes, lock>>, tables' = {},
             g.at \in {"part", "askother", "noparser"} \/ g.ran => SN_cross_pid = NoPipe
      PROVE  Calm'
  <2>1. FrameOK(g, SN_cross_pid, {}, pipes, FALSE)
    BY <1>2 DEF FrameOK, Closed, Busy
  <2> QED
    BY <1>2, <2>1, CalmGo
<1>3. CASE FilesScanned
  <2>1. PICK m \in {"begin", "missing"} : stack' = Put([Top EXCEPT !.at = m])
    BY <1>1, <1>3 DEF FilesScanned
  <2>2. At("scan")
    BY <1>3 DEF FilesScanned
  <2> DEFINE g == [Top EXCEPT !.at = m]
  <2>3. g.at = m /\ g.ran = Top.ran
    BY <1>1, <2>2, NextFields
  <2> HIDE DEF g
  <2>4. FrameOK(g, SN_cross_pid, tables, pipes, FALSE)
    BY <1>1, <2>2, <2>3 DEF FrameOK, Closed, Busy
  <2> QED
    BY <1>1, <1>3, <2>1, <2>2, <2>3, <2>4, CalmGo DEF FilesScanned, g
<1>4. CASE BeginParse
  <2>1. At("begin")
    BY <1>4 DEF BeginParse
  <2>2. PICK w \in BOOLEAN : stack' = Put([NextType(Top) EXCEPT !.window = w])
    BY <1>4 DEF BeginParse
  <2> DEFINE g == [NextType(Top) EXCEPT !.window = w]
  <2>3. g.at \in {"files", "closing"} /\ g.ran = Top.ran
    BY <1>1, <2>1, NextFields
  <2>4. ~Top.ran
    BY <1>1, <2>1 DEF FrameOK
  <2>5. stack' = Put(g) /\ UNCHANGED <<SN_cross_pid, pipes, lock>> /\ tables' = {}
    BY <1>4, <2>2 DEF BeginParse
  <2> HIDE DEF g
  <2> QED
    BY <1>2, <2>1, <2>3, <2>4, <2>5
<1>5. CASE LoadFiles
  <2>1. At("files")
    BY <1>5 DEF LoadFiles
  <2>2. tables = {} /\ (Top.ran => SN_cross_pid = NoPipe)
    BY <1>1, <2>1 DEF FrameOK, Closed
  <2>3. NextBundle(Top).at \in {"part", "files", "closing"} /\ NextBundle(Top).ran = Top.ran
    BY <1>1, <2>1, NextFields
  <2>4. CASE SN_cross_pid = NoPipe
    <3>1. stack' = Put(NextBundle(Top))
      BY <1>5, <2>4 DEF LoadFiles
    <3> QED
      BY <1>2, <1>5, <2>1, <2>2, <2>3, <2>4, <3>1 DEF LoadFiles
  <2>5. CASE SN_cross_pid # NoPipe
    <3> DEFINE g == [Top EXCEPT !.at = "busy"]
    <3>1. stack' = Put(g)
      BY <1>1, <1>5, <2>1, <2>5 DEF LoadFiles
    <3>2. g.at = "busy" /\ g.ran = Top.ran
      BY <1>1, <2>1, NextFields
    <3> HIDE DEF g
    <3>3. FrameOK(g, SN_cross_pid, tables, pipes, FALSE)
      BY <2>2, <3>2 DEF FrameOK, Closed, Busy
    <3> QED
      BY <1>1, <1>5, <2>1, <3>1, <3>2, <3>3, CalmGo DEF LoadFiles
  <2> QED
    BY <2>4, <2>5
<1>6. CASE AnswerBusy
  <2>1. At("busy")
    BY <1>6 DEF AnswerBusy
  <2> DEFINE g == Leave(Top)
  <2>2. g.at = "closing" /\ g.ran = Top.ran
    BY <1>1, <2>1, NextFields
  <2> HIDE DEF g
  <2>3. FrameOK(g, SN_cross_pid, tables, pipes, FALSE)
    BY <1>1, <2>1, <2>2 DEF FrameOK, Closed, Busy
  <2> QED
    BY <1>1, <1>6, <2>1, <2>2, <2>3, CalmGo DEF AnswerBusy, g
<1>7. ASSUME NEW l \in {"part", "noparser", "check", "askother"}, At(l), NEW g,
             g.at \in {"closing", "files", "part", "askother", "noparser"}, stack' = Put(g),
             UNCHANGED <<SN_cross_pid, pipes, lock, tables>>
      PROVE  Calm'
  <2>1. tables = {} /\ SN_cross_pid = NoPipe
    BY <1>1, <1>7 DEF FrameOK, Closed, Busy
  <2> QED
    BY <1>2, <1>7, <2>1
<1>8. ASSUME NEW l \in {"part", "noparser", "check", "askother"}, At(l)
      PROVE  /\ \A m : Goto(m) = Put([Top EXCEPT !.at = m]) /\ [Top EXCEPT !.at = m].at = m
             /\ NextBundle(Top).at \in {"part", "files", "closing"}
             /\ NextType(Top).at \in {"files", "closing"}
             /\ Leave(Top).at = "closing"
             /\ \A fl : [Top EXCEPT !.at = "part", !.fl = fl].at = "part"
  <2>1. Top \in FrameState
    BY <1>1, <1>8
  <2>2. \A fl : [Top EXCEPT !.at = "part", !.fl = fl].at = "part"
    BY <2>1 DEF FrameState
  <2> QED
    BY <1>1, <1>8, <2>1, <2>2, NextFields
<1>15. ASSUME NEW l \in {"part", "noparser", "check", "askother"}, At(l),
              UNCHANGED <<SN_cross_pid, pipes, lock, tables>>,
              \/ stack' = Put(NextBundle(Top)) \/ stack' = Put(NextType(Top)) \/ stack' = Put(Leave(Top))
              \/ stack' = Goto("noparser") \/ stack' = Goto("askother")
              \/ \E fl : stack' = Put([Top EXCEPT !.at = "part", !.fl = fl])
       PROVE  Calm'
  <2>1. CASE stack' = Put(NextBundle(Top))
    BY <1>7, <1>8, <1>15, <2>1
  <2>2. CASE stack' = Put(NextType(Top))
    BY <1>7, <1>8, <1>15, <2>2
  <2>3. CASE stack' = Put(Leave(Top))
    BY <1>7, <1>8, <1>15, <2>3
  <2>4. ASSUME NEW m \in {"noparser", "askother"}, stack' = Goto(m) PROVE Calm'
    <3> DEFINE g == [Top EXCEPT !.at = m]
    <3>1. stack' = Put(g) /\ g.at = m
      BY <1>8, <1>15, <2>4
    <3>2. At(l) /\ UNCHANGED <<SN_cross_pid, pipes, lock, tables>>
      BY <1>15
    <3> HIDE DEF g
    <3> QED
      BY <1>7, <3>1, <3>2
  <2>5. ASSUME NEW fl, stack' = Put([Top EXCEPT !.at = "part", !.fl = fl]) PROVE Calm'
    <3> DEFINE g == [Top EXCEPT !.at = "part", !.fl = fl]
    <3>1. stack' = Put(g) /\ g.at = "part"
      BY <1>8, <1>15, <2>5
    <3>2. At(l) /\ UNCHANGED <<SN_cross_pid, pipes, lock, tables>>
      BY <1>15
    <3> HIDE DEF g
    <3> QED
      BY <1>7, <3>1, <3>2
  <2> QED
    BY <1>15, <2>1, <2>2, <2>3, <2>4, <2>5
<1>9. CASE StartPipe /\ UNCHANGED pipes
  <2>1. At("part") /\ UNCHANGED <<SN_cross_pid, lock, tables>>
    BY <1>9 DEF StartPipe
  <2>2. CASE stack' = Goto("noparser")
    BY <1>9, <1>15, <2>1, <2>2
  <2>3. CASE \E p \in Pipe : stack' = Put([Top EXCEPT !.at = "pipe", !.pipe = p, !.ran = TRUE])
                             /\ Fresh(p) /\ pipes' = [pipes EXCEPT ![p] = Started("parse", Top.fl)]
    <3>1. PICK p \in Pipe : Fresh(p) /\ pipes' = [pipes EXCEPT ![p] = Started("parse", Top.fl)]
      BY <2>3
    <3>2. pipes'[p].open /\ ~pipes[p].open
      BY <3>1, StateFields DEF TypeOK, Fresh, Exists
    <3> QED
      BY <1>9, <3>2
  <2> QED
    BY <1>9, <2>2, <2>3 DEF StartPipe
<1>10. CASE AnswerNoParser
  <2>1. At("noparser") /\ UNCHANGED <<SN_cross_pid, pipes, lock, tables>>
        /\ (stack' = Put(NextBundle(Top)) \/ stack' = Goto("askother"))
    BY <1>10 DEF AnswerNoParser
  <2> QED
    BY <1>15, <2>1
<1>11. CASE CheckPipe
  <2>1. At("check") /\ UNCHANGED <<SN_cross_pid, pipes, lock, tables>>
        /\ \/ stack' = Put(NextBundle(Top)) \/ stack' = Goto("askother")
           \/ \E fl : stack' = Put([Top EXCEPT !.at = "part", !.fl = fl])
    <3> USE <1>11 DEF CheckPipe
    <3>1. At("check") /\ UNCHANGED <<SN_cross_pid, pipes, lock, tables>>
      OBVIOUS
    <3> QED
      BY <3>1
  <2> QED
    BY <1>15, <2>1
<1>12. CASE AnswerOtherTypes
  <2>1. At("askother") /\ UNCHANGED <<SN_cross_pid, pipes, lock, tables>>
        /\ (stack' = Put(NextType(Top)) \/ stack' = Put(Leave(Top)))
    BY <1>12 DEF AnswerOtherTypes
  <2> QED
    BY <1>15, <2>1
<1>13. CASE WindowClosed
  <2>1. At("closing")
    BY <1>13 DEF WindowClosed
  <2> DEFINE g == [Top EXCEPT !.at = "reopen"]
  <2>2. g.at = "reopen" /\ g.ran = Top.ran
    BY <1>1, <2>1, NextFields
  <2> HIDE DEF g
  <2>3. FrameOK(g, SN_cross_pid, tables, pipes, FALSE)
    BY <1>1, <2>1, <2>2 DEF FrameOK, Closed, Busy
  <2> QED
    BY <1>1, <1>13, <2>1, <2>2, <2>3, CalmGo DEF WindowClosed, g
<1>14. CASE ReopenTables \/ AnswerUnusable
  <2>1. PICK l \in {"reopen", "unusable"} : At(l)
    BY <1>14 DEF ReopenTables, AnswerUnusable
  <2>2. Opened(SN_cross_pid) = IF SN_cross_pid = NoPipe THEN Both ELSE {"scopes"}
    BY DEF Opened
  <2>3. CASE stack' = Goto("unusable") /\ UNCHANGED tables
    <3> DEFINE g == [Top EXCEPT !.at = "unusable"]
    <3>1. g.at = "unusable" /\ g.ran = Top.ran /\ stack' = Put(g)
      BY <1>1, <2>1, <2>3, NextFields
    <3> HIDE DEF g
    <3>2. FrameOK(g, SN_cross_pid, tables, pipes, FALSE)
      BY <1>1, <2>1, <3>1 DEF FrameOK, Closed, Busy
    <3> QED
      BY <1>1, <1>14, <2>1, <2>3, <3>1, <3>2, CalmGo DEF ReopenTables, AnswerUnusable
  <2>4. CASE stack' = Goto("xref") /\ tables' = Opened(SN_cross_pid)
    <3> DEFINE g == [Top EXCEPT !.at = "xref"]
    <3>1. g.at = "xref" /\ g.ran = Top.ran /\ stack' = Put(g)
      BY <1>1, <2>1, <2>4, NextFields
    <3> HIDE DEF g
    <3>2. FrameOK(g, SN_cross_pid, tables', pipes, FALSE)
      BY <1>1, <2>1, <2>4, <3>1 DEF FrameOK, Closed, Busy
    <3> QED
      BY <1>1, <1>14, <2>1, <2>2, <2>4, <3>1, <3>2, CalmGo DEF ReopenTables, AnswerUnusable
  <2> QED
    BY <1>14, <2>3, <2>4 DEF ReopenTables, AnswerUnusable
<1> QED
  BY <1>3, <1>4, <1>5, <1>6, <1>9, <1>10, <1>11, <1>12, <1>13, <1>14

(* It returns: nothing but an import of references runs on.                *)
LEMMA CalmPop ==
    ASSUME TypeOK, Calm, NEW l, At(l), l \notin Callbacks, stack' = Pop,
           \A p \in Pipe : pipes'[p].open => pipes'[p].kind = "xref" /\ SN_cross_pid' = p,
           \A p \in Pipe : SN_cross_pid' = p =>
                pipes'[p].open /\ pipes'[p].kind = "xref" /\ (Clean(pipes'[p]) => lock' = NoPipe),
           tables' = Opened(SN_cross_pid')
    PROVE  Calm'
<1>1. Shape(stack') /\ Frames(stack', SN_cross_pid', tables', pipes')
  BY BasePop
<1>2. SN_cross_pid' # NoPipe => "xrefs" \notin Opened(SN_cross_pid')
  BY DEF Opened
<1> QED
  BY <1>1, <1>2 DEF Calm, Owned, Cross

(* An unload is started from an update, or the user starts it.             *)
LEMMA PushUnload ==
    ASSUME NEW s \in Seq(FrameState), \A i \in 1..Len(s) : s[i].at = "begin" /\ ~s[i].ran,
           NEW h \in FrameState, h.at = "unload", NEW c, NEW t, NEW P, FrameOK(h, c, t, P, FALSE)
    PROVE  /\ Shape(Append(s, h)) /\ Frames(Append(s, h), c, t, P) /\ Append(s, h) # <<>>
           /\ \A p \in Pipe : Owns(h, p, P) => \E i \in 1..Len(Append(s, h)) : Owns(Append(s, h)[i], p, P)
<1> DEFINE q == Append(s, h)
<1>1. /\ q \in Seq(FrameState) /\ Len(q) = Len(s) + 1 /\ Len(s) \in Nat
      /\ \A i \in 1..Len(s) : i \in 1..(Len(s) + 1) /\ q[i] = s[i] /\ i < Len(s) + 1
      /\ \A i \in 1..(Len(s) + 1) : i \in 1..Len(s) \/ i = Len(s) + 1
      /\ q[Len(s) + 1] = h
  BY PushFacts
<1>2. Len(s) + 1 \in 1..Len(q) /\ \A i, j \in 1..Len(q) : i < j => i # Len(s) + 1
  BY <1>1
<1> HIDE DEF q
<1>3. \A i \in 1..Len(q) : (i # Len(s) + 1 => q[i].at = "begin" /\ ~q[i].ran)
                           /\ (i = Len(s) + 1 => q[i].at = "unload")
  BY <1>1
<1>4. ~Failed(q)
  BY <1>3 DEF Failed
<1>5. Shape(q)
  <2>1. \A i \in 1..Len(q) : i < Len(q) => i # Len(s) + 1
    BY <1>1
  <2>2. 1 \in 1..Len(q)
    BY <1>1
  <2> QED
    BY <1>2, <1>3, <2>1, <2>2 DEF Shape
<1>6. Frames(q, c, t, P)
  <2> SUFFICES ASSUME NEW i \in 1..Len(q) PROVE FrameOK(q[i], c, t, P, Failed(q))
    BY DEF Frames
  <2>1. CASE i = Len(s) + 1
    BY <1>1, <1>4, <2>1 DEF FrameOK
  <2>2. CASE i # Len(s) + 1
    BY <1>3, <2>2, BeginOK
  <2> QED
    BY <2>1, <2>2
<1>7. q # <<>>
  BY <1>1
<1> QED
  BY <1>1, <1>2, <1>5, <1>6, <1>7 DEF q

(* The steps of an update or an unload that start, await or close a pipe.  *)
LEMMA CalmPipe ==
    ASSUME TypeOK, TypeOK', Calm,
           StartPipe \/ PipeEnds \/ ClosePipe \/ UnloadEnds \/ FinishUpdate \/ AnswerMissing
    PROVE  Calm'
<1> USE NoneAssumption DEF Callbacks, globals, history
<1>1. ASSUME NEW l, At(l), l \notin Callbacks
      PROVE  /\ Top \in FrameState /\ Top.at = l
             /\ FrameOK(Top, SN_cross_pid, tables, pipes, FALSE)
             /\ \A p \in Pipe : pipes[p].open =>
                   (pipes[p].kind = "xref" /\ SN_cross_pid = p) \/ Owns(Top, p, pipes)
  BY <1>1, TopTypes, TopAlone
<1>2. ASSUME NEW l, At(l), l \notin Callbacks, l \notin {"pipe", "killed", "unload"}
      PROVE  \A p \in Pipe : pipes[p].open => pipes[p].kind = "xref" /\ SN_cross_pid = p
  BY <1>1, <1>2 DEF Owns
<1>3. CASE StartPipe
  <2>1. At("part") /\ UNCHANGED <<SN_cross_pid, lock, tables>>
    BY <1>3 DEF StartPipe
  <2>2. tables = {} /\ SN_cross_pid = NoPipe
    BY <1>1, <2>1 DEF FrameOK, Closed, Busy
  <2>3. CASE UNCHANGED pipes
    BY <1>3, <2>3, CalmUpdate
  <2>4. ASSUME NEW p \in Pipe, pipes' = [pipes EXCEPT ![p] = Started("parse", Top.fl)],
               stack' = Put([Top EXCEPT !.at = "pipe", !.pipe = p, !.ran = TRUE])
        PROVE  Calm'
    <3> DEFINE g == [Top EXCEPT !.at = "pipe", !.pipe = p, !.ran = TRUE]
    <3>1. g.at = "pipe" /\ g.pipe = p /\ stack' = Put(g)
      BY <1>1, <2>1, <2>4 DEF FrameState
    <3> HIDE DEF g
    <3>2. FrameOK(g, SN_cross_pid', tables', pipes', FALSE)
      BY <2>1, <2>2, <3>1 DEF FrameOK, Closed, Busy
    <3>3. /\ pipes'[p].open /\ pipes'[p].kind = "parse"
          /\ \A q \in Pipe : q # p => ~pipes'[q].open
      BY <1>2, <2>1, <2>2, <2>4, StateFields DEF TypeOK
    <3>4. \A q \in Pipe : pipes'[q].open => Owns(g, q, pipes')
      BY <3>1, <3>3 DEF Owns
    <3> QED
      BY <2>1, <2>2, <3>1, <3>2, <3>4, CalmPut
  <2> QED
    BY <1>3, <2>3, <2>4 DEF StartPipe
<1>4. CASE PipeEnds
  <2> DEFINE p == Top.pipe
  <2>1. At("pipe") /\ UNCHANGED <<SN_cross_pid, lock, tables>>
    BY <1>4 DEF PipeEnds
  <2>2. tables = {} /\ SN_cross_pid = NoPipe /\ Top \in FrameState
    BY <1>1, <2>1 DEF FrameOK, Closed, Busy
  <2>3. \A q \in Pipe : pipes[q].open => pipes[q].kind = "parse" /\ q = p
    <3>1. \A q \in Pipe : pipes[q].open => Owns(Top, q, pipes)
      BY <1>1, <2>1, <2>2
    <3>2. Top.at = "pipe"
      BY <2>1 DEF At
    <3> QED
      BY <3>1, <3>2 DEF Owns
  <2>4. CASE Exists(p)
    <3> DEFINE g == [Top EXCEPT !.at = "killed", !.woken = FALSE]
    <3>1. g.at = "killed" /\ g.pipe = p
      BY <2>2 DEF FrameState
    <3>2. stack' = Put(g) /\ pipes' = [pipes EXCEPT ![p] = Killed(p)]
      BY <1>4, <2>4 DEF PipeEnds
    <3> HIDE DEF g
    <3>3. FrameOK(g, SN_cross_pid', tables', pipes', FALSE)
      BY <2>1, <2>2, <3>1 DEF FrameOK, Closed, Busy
    <3>4. \A q \in Pipe : pipes'[q].open = pipes[q].open /\ pipes'[q].kind = pipes[q].kind
      <4>1. CASE p \in Pipe
        BY <3>2, <4>1, StateFields DEF TypeOK
      <4>2. CASE p \notin Pipe
        <5>1. pipes' = pipes
          BY <3>2, <4>2 DEF TypeOK
        <5> QED
          BY <5>1
      <4> QED
        BY <4>1, <4>2
    <3>5. \A q \in Pipe : pipes'[q].open => Owns(g, q, pipes')
      BY <2>3, <3>1, <3>4 DEF Owns
    <3> QED
      BY <2>1, <2>2, <3>1, <3>2, <3>3, <3>5, CalmPut
  <2>5. CASE ~Exists(p)
    <3> DEFINE g == [Top EXCEPT !.at = "check", !.woken = FALSE, !.pipe = NoPipe]
    <3>1. g.at = "check"
      BY <2>2 DEF FrameState
    <3>2. stack' = Put(g) /\ pipes' = pipes
      BY <1>4, <2>5 DEF PipeEnds
    <3> HIDE DEF g
    <3>3. FrameOK(g, SN_cross_pid', tables', pipes', FALSE)
      BY <2>1, <2>2, <3>1 DEF FrameOK, Closed, Busy
    <3>4. \A q \in Pipe : ~pipes'[q].open
      BY <2>3, <2>5, <3>2 DEF Exists
    <3> QED
      BY <2>1, <2>2, <3>1, <3>2, <3>3, <3>4, CalmPut
  <2> QED
    BY <2>4, <2>5
<1>5. CASE ClosePipe
  <2> DEFINE p == Top.pipe
  <2>1. At("killed") /\ UNCHANGED <<SN_cross_pid, lock, tables>>
    BY <1>5 DEF ClosePipe
  <2>2. tables = {} /\ SN_cross_pid = NoPipe /\ Top \in FrameState
    BY <1>1, <2>1 DEF FrameOK, Closed, Busy
  <2>3. \A q \in Pipe : pipes[q].open => q = p
    <3>1. \A q \in Pipe : pipes[q].open => Owns(Top, q, pipes)
      BY <1>1, <2>1, <2>2
    <3> QED
      BY <3>1 DEF Owns
  <2> DEFINE g == [Top EXCEPT !.at = "check", !.pipe = NoPipe]
  <2>4. stack' = Put(g) /\ pipes' = [pipes EXCEPT ![p] = Idle] /\ g.at = "check"
    BY <1>5, <2>2 DEF ClosePipe, FrameState
  <2>5. \A q \in Pipe : ~pipes'[q].open
    BY <2>3, <2>4, StateFields DEF TypeOK
  <2> HIDE DEF g
  <2>6. FrameOK(g, SN_cross_pid', tables', pipes', FALSE)
    BY <2>1, <2>2, <2>4 DEF FrameOK, Closed, Busy
  <2> QED
    BY <2>1, <2>2, <2>4, <2>5, <2>6, CalmPut
<1>6. CASE UnloadEnds
  <2> DEFINE g == [Top EXCEPT !.at = "reopen", !.woken = FALSE, !.pipe = NoPipe]
  <2>1. At("unload") /\ Top.woken /\ UNCHANGED <<SN_cross_pid, pipes, lock, tables>>
    BY <1>6 DEF UnloadEnds
  <2>2. tables = {} /\ SN_cross_pid = NoPipe /\ Top \in FrameState
    BY <1>1, <2>1 DEF FrameOK, Closed, Busy
  <2>3. \A q \in Pipe : ~pipes[q].open
    BY <1>1, <2>1, <2>2 DEF FrameOK, Owns
  <2>4. stack' = Put(g) /\ g.at = "reopen"
    BY <1>6, <2>2 DEF UnloadEnds, FrameState
  <2> HIDE DEF g
  <2>5. FrameOK(g, SN_cross_pid', tables', pipes', FALSE)
    BY <2>1, <2>2, <2>4 DEF FrameOK, Closed, Busy
  <2> QED
    BY <2>1, <2>2, <2>3, <2>4, <2>5, CalmPut
<1>7. CASE FinishUpdate
  <2>1. At("xref") /\ stack' = Pop /\ UNCHANGED lock
    BY <1>7 DEF FinishUpdate
  <2>2. tables = Opened(SN_cross_pid) /\ (Top.ran => SN_cross_pid = NoPipe)
    BY <1>1, <2>1 DEF FrameOK
  <2>3. CASE UNCHANGED <<SN_cross_pid, pipes, tables>>
    BY <1>2, <2>1, <2>2, <2>3, CalmPop DEF Calm, Cross
  <2>4. ASSUME NEW p \in Pipe, Top.ran, tables' = tables \ {"xrefs"}, SN_cross_pid' = p,
               pipes' = [pipes EXCEPT ![p] = Started("xref", <<>>)]
        PROVE  Calm'
    <3>1. SN_cross_pid = NoPipe /\ tables = Both /\ tables' = Opened(p)
      BY <2>2, <2>4 DEF Opened, Both
    <3>2. \A q \in Pipe : ~pipes[q].open
      BY <1>2, <2>1, <3>1
    <3>3. /\ pipes'[p].open /\ pipes'[p].kind = "xref" /\ pipes'[p].st = "starting"
          /\ \A q \in Pipe : q # p => ~pipes'[q].open
      BY <2>4, <3>2, StateFields DEF TypeOK
    <3> QED
      BY <2>1, <2>4, <3>1, <3>3, CalmPop DEF Clean
  <2> QED
    BY <1>7, <2>3, <2>4 DEF FinishUpdate
<1>8. CASE AnswerMissing
  <2>1. At("missing") /\ UNCHANGED <<SN_cross_pid, lock>>
    BY <1>8 DEF AnswerMissing
  <2>2. /\ tables = Opened(SN_cross_pid) /\ ~Top.ran /\ Top \in FrameState
        /\ SN_cross_pid # NoPipe => "xrefs" \notin tables
    BY <1>1, <2>1 DEF FrameOK, Opened
  <2> DEFINE g == [Top EXCEPT !.at = "begin"]
  <2>3. g.at = "begin" /\ ~g.ran /\ g \in FrameState /\ Goto("begin") = Put(g)
    BY <2>2, PlaceNames DEF Goto, FrameState
  <2> HIDE DEF g
  <2>4. CASE stack' = Goto("begin") /\ UNCHANGED <<pipes, tables>>
    <3>1. FrameOK(g, SN_cross_pid, tables, pipes, FALSE)
      BY <2>3, BeginOK
    <3> QED
      BY <2>1, <2>2, <2>3, <2>4, <3>1, CalmGo
  <2>5. CASE stack' = Pop /\ UNCHANGED <<pipes, tables>>
    BY <1>2, <2>1, <2>2, <2>5, CalmPop DEF Calm, Cross
  <2>6. ASSUME NEW p \in Pipe, SN_cross_pid = NoPipe, tables' = {},
               pipes' = [pipes EXCEPT ![p] = Started("unload", <<>>)],
               stack' = Append(Goto("begin"), Frame("unload", <<>>, p))
        PROVE  Calm'
    <3> DEFINE h == Frame("unload", <<>>, p)
    <3>1. h.at = "unload" /\ h.pipe = p /\ ~h.woken /\ ~h.ran
      BY DEF Frame
    <3>2. h \in FrameState
      <4>1. <<>> \in Seq(Bundles)
        OBVIOUS
      <4> QED
        BY <4>1, FrameType, PlaceNames
    <3>3. /\ pipes'[p].open /\ pipes'[p].kind = "unload"
          /\ \A q \in Pipe : q # p => ~pipes'[q].open
      BY <1>2, <2>1, <2>6, StateFields DEF TypeOK
    <3> HIDE DEF h
    <3>4. FrameOK(h, SN_cross_pid', tables', pipes', FALSE)
      BY <2>1, <2>6, <3>1 DEF FrameOK, Closed, Busy
    <3>5. \A q \in Pipe : pipes'[q].open => Owns(h, q, pipes')
      BY <3>1, <3>3 DEF Owns
    <3>6. Put(g) \in Seq(FrameState) /\ \A i \in 1..Len(Put(g)) : Put(g)[i].at = "begin" /\ ~Put(g)[i].ran
      <4>1. stack \in Seq(FrameState) /\ stack # <<>>
        BY <2>1 DEF TypeOK, At
      <4>2. \A i \in 1..Len(stack) : i # Len(stack) => stack[i].at = "begin" /\ ~stack[i].ran
        BY <2>1, TopAlone DEF Calm, Frames, FrameOK
      <4> QED
        BY <2>3, <4>1, <4>2, PutFacts DEF Put
    <3>7. stack' = Append(Put(g), h)
      BY <2>3, <2>6 DEF h
    <3>8. /\ Shape(stack') /\ Frames(stack', SN_cross_pid', tables', pipes') /\ stack' # <<>>
          /\ \A q \in Pipe : Owns(h, q, pipes') => \E i \in 1..Len(stack') : Owns(stack'[i], q, pipes')
      BY <3>1, <3>2, <3>4, <3>6, <3>7, PushUnload
    <3> QED
      BY <2>1, <2>6, <3>5, <3>8 DEF Calm, Owned, Cross
  <2> QED
    BY <1>8, <2>4, <2>5, <2>6 DEF AnswerMissing
<1> QED
  BY <1>3, <1>4, <1>5, <1>6, <1>7, <1>8

(* The user starts an update or an unload while none is on its way.        *)
LEMMA CalmStart ==
    ASSUME TypeOK, TypeOK', Calm, ~overlap', (\E job \in Jobs : StartUpdate(job)) \/ StartUnload
    PROVE  Calm'
<1> USE NoneAssumption DEF globals, history
<1>1. ASSUME NEW g, stack = <<>>, stack' = Push(g) PROVE g \in FrameState
  <2>1. stack' = <<g>>
    BY <1>1 DEF Push
  <2>2. Len(stack') = 1 /\ stack'[1] = g /\ 1 \in 1..1
    BY <2>1
  <2>3. stack' \in Seq(FrameState)
    BY DEF TypeOK
  <2>4. \A s \in Seq(FrameState) : Len(s) = 1 => s[1] \in FrameState
    OBVIOUS
  <2> QED
    BY <2>2, <2>3, <2>4
<1>2. \A job \in Jobs : ~StartUpdate(job) \/ stack = <<>>
                        \/ UNCHANGED <<stack, SN_cross_pid, pipes, lock, tables>>
  BY DEF StartUpdate
<1>3. CASE UNCHANGED <<stack, SN_cross_pid, pipes, lock, tables>>
  BY <1>3 DEF Calm
<1>4. ASSUME NEW job \in Jobs, StartUpdate(job), stack = <<>>, stack' # stack PROVE Calm'
  <2> DEFINE g == Frame("scan", job, NoPipe)
  <2>1. stack' = Push(g) /\ UNCHANGED <<SN_cross_pid, pipes, lock, tables>>
    BY <1>4 DEF StartUpdate
  <2>2. g \in FrameState
    BY <1>1, <1>4, <2>1
  <2>3. g.at = "scan" /\ ~g.ran
    BY DEF Frame
  <2> HIDE DEF g
  <2>4. tables = Opened(SN_cross_pid)
    BY <1>4 DEF Calm, Cross
  <2>5. FrameOK(g, SN_cross_pid, tables, pipes, FALSE)
    BY <2>3, <2>4 DEF FrameOK, Closed, Busy, Callbacks
  <2>6. Shape(stack') /\ Frames(stack', SN_cross_pid, tables, pipes) /\ stack' # <<>>
    <3>1. FrameOK(g, SN_cross_pid, tables, pipes, g.at = "xreferr")
      BY <2>3, <2>5 DEF FrameOK
    <3> QED
      BY <1>4, <2>1, <2>2, <2>3, <3>1, Single DEF Push
  <2>7. \A p \in Pipe : pipes[p].open => pipes[p].kind = "xref" /\ SN_cross_pid = p
    BY <1>4 DEF Calm, Owned
  <2> QED
    BY <2>1, <2>6, <2>7 DEF Calm, Owned, Cross
<1>5. CASE StartUnload
  <2>1. PICK p \in Pipe : /\ pipes' = [pipes EXCEPT ![p] = Started("unload", <<>>)]
                          /\ stack' = Push(Frame("unload", <<>>, p))
    BY <1>5 DEF StartUnload
  <2>2. stack = <<>> /\ SN_cross_pid = NoPipe /\ tables' = {} /\ UNCHANGED <<SN_cross_pid, lock>>
    BY <1>5 DEF StartUnload
  <2> DEFINE h == Frame("unload", <<>>, p)
  <2>3. h \in FrameState
    BY <1>1, <2>1, <2>2
  <2>4. h.at = "unload" /\ h.pipe = p /\ ~h.woken /\ ~h.ran
    BY DEF Frame
  <2>5. \A q \in Pipe : ~pipes[q].open
    BY <2>2 DEF Calm, Owned
  <2>6. /\ pipes'[p].open /\ pipes'[p].kind = "unload"
        /\ \A q \in Pipe : q # p => ~pipes'[q].open
    BY <2>1, <2>5, StateFields DEF TypeOK
  <2> HIDE DEF h
  <2>7. FrameOK(h, SN_cross_pid', tables', pipes', FALSE)
    BY <2>2, <2>4 DEF FrameOK, Closed, Busy, Callbacks
  <2>8. \A q \in Pipe : pipes'[q].open => Owns(h, q, pipes')
    BY <2>4, <2>6 DEF Owns
  <2>9. /\ Shape(stack') /\ Frames(stack', SN_cross_pid', tables', pipes') /\ stack' # <<>>
        /\ \A q \in Pipe : Owns(h, q, pipes') => \E i \in 1..Len(stack') : Owns(stack'[i], q, pipes')
    <3>1. FrameOK(h, SN_cross_pid', tables', pipes', h.at = "xreferr")
      BY <2>4, <2>7 DEF FrameOK
    <3> QED
      BY <2>1, <2>2, <2>3, <2>4, <3>1, Single DEF Push, h
  <2> QED
    BY <2>2, <2>8, <2>9 DEF Calm, Owned, Cross
<1> QED
  BY <1>2, <1>3, <1>4, <1>5 DEF StartUpdate

(* A pipe is read or closed, and who waits for it may be woken.            *)
LEMMA CalmWake ==
    ASSUME TypeOK, Calm, NEW p \in Pipe, UNCHANGED <<SN_cross_pid, tables>>,
           lock' \in {lock, NoPipe},
           stack' = Wake(stack, "pipe") \/ UNCHANGED stack,
           \A q \in Pipe : q # p => pipes'[q] = pipes[q],
           pipes[p].kind # "xref",
           pipes'[p].open => pipes[p].open /\ pipes'[p].kind = pipes[p].kind
    PROVE  Calm'
<1>1. stack \in Seq(FrameState)
  BY DEF TypeOK
<1>2. Frames(stack, SN_cross_pid, tables, pipes')
  BY FewerPipes DEF Calm
<1>3. Owned(stack, SN_cross_pid, pipes')
  BY FewerOwned DEF Calm
<1>4. /\ Shape(stack') /\ Frames(stack', SN_cross_pid, tables, pipes')
      /\ stack' = <<>> => stack = <<>>
      /\ Owned(stack', SN_cross_pid, pipes')
  BY <1>1, <1>2, <1>3, WakeStep DEF Calm
<1>5. \A q \in Pipe : SN_cross_pid = q => q # p
  BY DEF Calm, Cross
<1> QED
  BY <1>4, <1>5 DEF Calm, Cross

(* The procedure that serves events is not one that must have nothing open *)
(* and no references imported; those do not wait below others, either.     *)
LEMMA ServingXref ==
    ASSUME TypeOK, Calm, Serving, NEW p \in Pipe, SN_cross_pid = p
    PROVE  \A i \in 1..Len(stack) : stack[i].at \notin Closed
<1> SUFFICES ASSUME NEW i \in 1..Len(stack), stack[i].at \in Closed PROVE FALSE
  OBVIOUS
<1>1. stack \in Seq(FrameState) /\ (i < Len(stack) \/ i = Len(stack)) /\ stack # <<>>
  BY DEF TypeOK
<1>2. stack[i].at \in Waits \union {"begin"}
  BY <1>1 DEF Calm, Shape, Serving, Top
<1>3. SN_cross_pid # NoPipe
  BY NoneAssumption
<1>4. stack[i].at \notin Busy
  BY <1>3 DEF Calm, Frames, FrameOK
<1> QED
  BY <1>2, <1>4 DEF Closed, Waits, Dialogs

(* A callback shows a dialog.                                              *)
LEMMA CalmCallback ==
    ASSUME TypeOK, NEW g \in FrameState, g.at \in Callbacks, ~g.ran, stack' = Push(g),
           Serving, Shape(stack), stack = <<>> => g.at = "xreferr",
           NEW c, NEW t, NEW P, Owned(stack, c, P), g.at = "xreferr" => c = NoPipe,
           \A i \in 1..Len(stack) : FrameOK(stack[i], c, t, P, Failed(stack) \/ g.at = "xreferr")
    PROVE  /\ Shape(stack') /\ Frames(stack', c, t, P) /\ Owned(stack', c, P)
           /\ stack' # <<>>
<1>1. stack \in Seq(FrameState)
  BY DEF TypeOK
<1> DEFINE q == Append(stack, g)
<1>2. /\ q \in Seq(FrameState) /\ Len(q) = Len(stack) + 1 /\ Len(stack) \in Nat
      /\ \A i \in 1..Len(stack) : i \in 1..(Len(stack) + 1) /\ q[i] = stack[i] /\ i < Len(stack) + 1
      /\ \A i \in 1..(Len(stack) + 1) : i \in 1..Len(stack) \/ i = Len(stack) + 1
      /\ q[Len(stack) + 1] = g
  BY <1>1, PushFacts
<1>3. Shape(q)
  <2>1. stack # <<>> => stack[Len(stack)].at \in Waits \union {"begin"}
    BY DEF Serving, Top
  <2> QED
    BY <1>1, <2>1, PushCallback
<1> HIDE DEF q
<1>4. Len(stack) + 1 \in 1..Len(q)
  BY <1>2
<1>5. Failed(q) <=> Failed(stack) \/ g.at = "xreferr"
  <2>1. Failed(stack) => Failed(q)
    BY <1>2 DEF Failed
  <2>2. g.at = "xreferr" => Failed(q)
    BY <1>2, <1>4 DEF Failed
  <2>3. Failed(q) => Failed(stack) \/ g.at = "xreferr"
    BY <1>2 DEF Failed
  <2> QED
    BY <2>1, <2>2, <2>3
<1>6. Frames(q, c, t, P)
  <2> SUFFICES ASSUME NEW i \in 1..Len(q) PROVE FrameOK(q[i], c, t, P, Failed(q))
    BY DEF Frames
  <2>1. CASE i = Len(stack) + 1
    <3>1. q[i] = g
      BY <1>2, <2>1
    <3> QED
      BY <3>1 DEF FrameOK, Callbacks, Closed, Busy
  <2>2. CASE i \in 1..Len(stack)
    <3>1. FrameOK(stack[i], c, t, P, Failed(stack) \/ g.at = "xreferr") /\ q[i] = stack[i]
      BY <1>2, <2>2
    <3> QED
      BY <1>5, <3>1 DEF FrameOK
  <2> QED
    BY <1>2, <2>1, <2>2
<1>7. Owned(q, c, P)
  <2> SUFFICES ASSUME NEW p \in Pipe, P[p].open, NEW i \in 1..Len(stack), Owns(stack[i], p, P)
               PROVE  \E j \in 1..Len(q) : Owns(q[j], p, P)
    BY DEF Owned
  <2>1. i \in 1..Len(q) /\ q[i] = stack[i]
    BY <1>2
  <2> QED
    BY <2>1
<1>8. q # <<>>
  BY <1>2
<1> QED
  BY <1>3, <1>6, <1>7, <1>8 DEF q, Push

(* The events of the pipes, and the user's cancels.                        *)
LEMMA CalmServe ==
    ASSUME TypeOK, TypeOK', PipesOK, Calm, NEW p \in Pipe, Serve(p) \/ CancelXref(p)
    PROVE  Calm'
<1> USE NoneAssumption DEF globals, history, Served
<1>1. stack \in Seq(FrameState) /\ pipes \in [Pipe -> PipeState] /\ Serving /\ pipes[p].open
  BY DEF Serve, ServeLine, ServeEof, ServeCancelled, ServeFailed, ServeXref, ServeUnload, CancelXref, TypeOK
<1>2. CASE ServeLine(p) \/ ServeCancelled(p)
  <2>1. /\ pipes'[p].open = pipes[p].open /\ pipes'[p].kind = pipes[p].kind
        /\ \A q \in Pipe : q # p => pipes'[q] = pipes[q]
    BY <1>1, <1>2 DEF ServeLine, ServeCancelled, PipeState
  <2>2. /\ pipes[p].kind # "xref" /\ UNCHANGED <<SN_cross_pid, tables, lock>>
        /\ stack' = Wake(stack, "pipe") \/ UNCHANGED stack
    BY <1>2 DEF ServeLine, ServeCancelled
  <2> QED
    BY <2>1, <2>2, CalmWake
<1>3. ASSUME pipes' = [pipes EXCEPT ![p] = Idle]
      PROVE  /\ ~pipes'[p].open /\ \A q \in Pipe : q # p => pipes'[q] = pipes[q]
             /\ \A q \in Pipe : pipes'[q].open => pipes[q].open /\ pipes'[q].kind = pipes[q].kind
  BY <1>1, <1>3, StateFields
<1>4. CASE ServeFailed(p)
  <2>1. /\ pipes' = [pipes EXCEPT ![p] = Idle] /\ pipes[p].kind # "xref"
        /\ UNCHANGED <<SN_cross_pid, tables>> /\ lock' \in {lock, NoPipe}
        /\ stack' = Wake(stack, "pipe")
    BY <1>4 DEF ServeFailed
  <2> QED
    BY <1>3, <2>1, CalmWake
<1>5. CASE ServeEof(p)
  <2>1. /\ pipes' = [pipes EXCEPT ![p] = Idle] /\ pipes[p].kind = "parse"
        /\ UNCHANGED <<SN_cross_pid, tables, lock>>
    BY <1>5 DEF ServeEof
  <2>2. CASE pipes[p].err # "crash"
    <3>1. stack' = Wake(stack, "pipe")
      BY <1>5, <2>2 DEF ServeEof
    <3> QED
      BY <1>3, <2>1, <3>1, CalmWake
  <2>3. CASE pipes[p].err = "crash"
    <3> DEFINE g == Frame("crash", <<>>, NoPipe)
    <3>1. stack' = Push(g)
      BY <1>5, <2>3 DEF ServeEof
    <3>2. g \in FrameState /\ g.at = "crash" /\ ~g.ran
      <4>1. <<>> \in Seq(Bundles) /\ "crash" \in Places /\ NoPipe \in Pipe \union {NoPipe}
        BY PlaceNames
      <4> QED
        BY <4>1, FrameType
    <3>3. stack # <<>>
      <4>1. \E i \in 1..Len(stack) : Owns(stack[i], p, pipes)
        BY <1>1, <2>1 DEF Calm, Owned
      <4> QED
        BY <4>1
    <3>4. Frames(stack, SN_cross_pid, tables, pipes') /\ Owned(stack, SN_cross_pid, pipes')
      BY <1>3, <2>1, FewerPipes, FewerOwned DEF Calm
    <3> HIDE DEF g
    <3>5. /\ Shape(stack') /\ Frames(stack', SN_cross_pid, tables, pipes')
          /\ Owned(stack', SN_cross_pid, pipes') /\ stack' # <<>>
      <4>1. g.at \in Callbacks /\ g.at # "xreferr"
        BY <3>2 DEF Callbacks
      <4>2. \A i \in 1..Len(stack) :
               FrameOK(stack[i], SN_cross_pid, tables, pipes', Failed(stack) \/ g.at = "xreferr")
        BY <3>4, <4>1 DEF Frames, FrameOK
      <4> QED
        BY <1>1, <3>1, <3>2, <3>3, <3>4, <4>1, <4>2, CalmCallback DEF Calm
    <3>6. \A q \in Pipe : SN_cross_pid = q => q # p
      BY <2>1 DEF Calm, Cross
    <3> QED
      BY <1>3, <2>1, <3>5, <3>6 DEF Calm, Cross
  <2> QED
    BY <2>2, <2>3
<1>6. CASE ServeUnload(p)
  <2>1. /\ pipes' = [pipes EXCEPT ![p] = Idle] /\ pipes[p].kind = "unload"
        /\ UNCHANGED <<SN_cross_pid, tables, lock>> /\ stack' = Wake(stack, "unload")
    BY <1>6 DEF ServeUnload
  <2>2. PICK i \in 1..Len(stack) : Owns(stack[i], p, pipes)
    BY <1>1, <2>1 DEF Calm, Owned
  <2>3. stack[i].at = "unload" /\ stack[i].pipe = p
    BY <2>1, <2>2 DEF Owns
  <2>4. \A j \in 1..Len(stack) : stack[j].at = "unload" => j = i
    <3> SUFFICES ASSUME NEW j \in 1..Len(stack), stack[j].at = "unload", j # i PROVE FALSE
      OBVIOUS
    <3>1. i < j \/ j < i
      BY <1>1
    <3> QED
      BY <2>3, <3>1 DEF Calm, Shape, Callbacks
  <2>5. \A j \in 1..Len(stack) : stack[j].at = "unload" /\ stack[j].pipe \in Pipe
                                   => ~pipes'[stack[j].pipe].open
    BY <1>3, <2>1, <2>3, <2>4
  <2>6. Frames(stack, SN_cross_pid, tables, pipes') /\ Owned(stack, SN_cross_pid, pipes')
    BY <1>3, <2>1, FewerPipes, FewerOwned DEF Calm
  <2>7. /\ Shape(stack') /\ Frames(stack', SN_cross_pid, tables, pipes')
        /\ stack' = <<>> => stack = <<>>
        /\ Owned(stack', SN_cross_pid, pipes')
    BY <1>1, <2>1, <2>5, <2>6, WakeStep DEF Calm
  <2>8. \A q \in Pipe : SN_cross_pid = q => q # p
    BY <2>1 DEF Calm, Cross
  <2> QED
    BY <1>3, <2>1, <2>7, <2>8 DEF Calm, Cross
<1>7. CASE ServeXref(p) \/ CancelXref(p)
  <2>1. /\ pipes' = [pipes EXCEPT ![p] = Idle] /\ pipes[p].kind = "xref" /\ SN_cross_pid' = NoPipe
    BY <1>7 DEF ServeXref, CancelXref
  <2>2. SN_cross_pid = p
    BY <1>1, <2>1 DEF Calm, Owned, Owns
  <2>3. \A i \in 1..Len(stack) : stack[i].at \notin Closed
    BY <1>1, <2>2, ServingXref
  <2>4. Owned(stack, NoPipe, pipes')
    <3> SUFFICES ASSUME NEW q \in Pipe, pipes'[q].open
                 PROVE  \E i \in 1..Len(stack) : Owns(stack[i], q, pipes')
      BY DEF Owned
    <3>1. q # p /\ pipes[q].open /\ pipes'[q] = pipes[q]
      BY <1>3, <2>1
    <3> QED
      BY <2>2, <3>1 DEF Calm, Owned, Owns
  <2>5. ASSUME NEW t, t = Both \/ ~\E i \in 1..Len(stack) : stack[i].at \in {"scan", "missing", "xref"}
               \/ Failed(stack)
        PROVE  Frames(stack, NoPipe, t, pipes')
    <3> SUFFICES ASSUME NEW i \in 1..Len(stack) PROVE FrameOK(stack[i], NoPipe, t, pipes', Failed(stack))
      BY DEF Frames
    <3>1. FrameOK(stack[i], SN_cross_pid, tables, pipes, Failed(stack)) /\ stack[i].at \notin Closed
      BY <2>3 DEF Calm, Frames
    <3>2. stack[i].at # "unload"
      BY <3>1 DEF Closed, Busy
    <3> QED
      BY <2>5, <3>1, <3>2 DEF FrameOK, Opened
  <2>6. CASE UNCHANGED stack /\ AfterXref(TRUE)
    <3>1. tables' = Both
      BY <2>6 DEF AfterXref
    <3> QED
      BY <2>1, <2>4, <2>5, <2>6, <3>1 DEF Calm, Cross, Opened
  <2>7. CASE UNCHANGED stack /\ AfterXref(FALSE) /\ ServeXref(p) /\ pipes[p].err = "no"
    <3>1. Clean(pipes[p])
      BY <1>1, <2>7 DEF ServeXref, Eof, Runs, Clean, PipeState
    <3>2. lock = NoPipe
      BY <2>2, <3>1 DEF Calm, Cross
    <3>3. tables' = Both
      BY <2>7, <3>2 DEF AfterXref, PanicCheck
    <3> QED
      BY <2>1, <2>4, <2>5, <2>7, <3>3 DEF Calm, Cross, Opened
  <2>8. CASE stack' = Push(Frame("xreferr", <<>>, NoPipe)) /\ UNCHANGED <<lock, tables>>
    <3> DEFINE g == Frame("xreferr", <<>>, NoPipe)
    <3>1. g \in FrameState /\ g.at = "xreferr" /\ ~g.ran
      <4>1. <<>> \in Seq(Bundles) /\ "xreferr" \in Places /\ NoPipe \in Pipe \union {NoPipe}
        BY PlaceNames
      <4> QED
        BY <4>1, FrameType
    <3> HIDE DEF g
    <3>2. \A i \in 1..Len(stack) :
             FrameOK(stack[i], NoPipe, tables, pipes', Failed(stack) \/ g.at = "xreferr")
      <4> SUFFICES ASSUME NEW i \in 1..Len(stack)
                   PROVE  FrameOK(stack[i], NoPipe, tables, pipes', TRUE)
        BY <3>1 DEF FrameOK
      <4>1. FrameOK(stack[i], SN_cross_pid, tables, pipes, Failed(stack)) /\ stack[i].at \notin Closed
        BY <2>3 DEF Calm, Frames
      <4>2. stack[i].at # "unload"
        BY <4>1 DEF Closed, Busy
      <4> QED
        BY <4>1, <4>2 DEF FrameOK
    <3>3. /\ Shape(stack') /\ Frames(stack', NoPipe, tables, pipes')
          /\ Owned(stack', NoPipe, pipes') /\ stack' # <<>>
      BY <1>1, <2>4, <2>8, <3>1, <3>2, CalmCallback DEF Calm, Callbacks, g
    <3> QED
      BY <2>1, <2>8, <3>3 DEF Calm, Cross
  <2> QED
    BY <1>7, <2>6, <2>7, <2>8 DEF ServeXref, CancelXref
<1> QED
  BY <1>2, <1>4, <1>5, <1>6, <1>7 DEF Serve

(* A callback returns.                                                     *)
LEMMA CallbackPop ==
    ASSUME TypeOK, Calm, NEW l, At(l), l \in Callbacks
    PROVE  /\ Pop \in Seq(FrameState) /\ Shape(Pop) /\ Len(Pop) \in Nat
           /\ \A i \in 1..Len(Pop) : i \in 1..Len(stack) /\ Pop[i] = stack[i]
           /\ Owned(Pop, SN_cross_pid, pipes)
           /\ l # "xreferr" => Pop # <<>> /\ (Failed(Pop) <=> Failed(stack))
<1>1. stack \in Seq(FrameState) /\ stack # <<>> /\ stack[Len(stack)].at = l
  BY DEF TypeOK, At, Top
<1>2. /\ Pop \in Seq(FrameState) /\ Len(Pop) = Len(stack) - 1 /\ Len(stack) \in Nat \ {0}
      /\ \A i \in 1..(Len(stack) - 1) : i \in 1..Len(stack) /\ Pop[i] = stack[i]
  BY <1>1, PopFacts DEF Pop
<1>3. Shape(Pop)
  BY <1>1, PopShape DEF Pop, Calm
<1>4. \A i \in 1..Len(stack) : i = Len(stack) \/ i \in 1..Len(Pop)
  BY <1>2
<1>5. Owned(Pop, SN_cross_pid, pipes)
  <2> SUFFICES ASSUME NEW p \in Pipe, pipes[p].open, NEW i \in 1..Len(stack),
                      Owns(stack[i], p, pipes)
               PROVE  \E j \in 1..Len(Pop) : Owns(Pop[j], p, pipes)
    BY DEF Calm, Owned
  <2>1. i # Len(stack)
    BY <1>1 DEF Owns, Callbacks
  <2> QED
    BY <1>2, <1>4, <2>1
<1>6. ASSUME l # "xreferr" PROVE Pop # <<>> /\ (Failed(Pop) <=> Failed(stack))
  <2>1. Len(stack) # 1
    BY <1>1, <1>6 DEF Calm, Shape, Callbacks
  <2>2. Pop # <<>>
    BY <1>2, <2>1
  <2>3. Failed(Pop) => Failed(stack)
    BY <1>2 DEF Failed
  <2>4. Failed(stack) => Failed(Pop)
    BY <1>1, <1>2, <1>4, <1>6 DEF Failed
  <2> QED
    BY <2>2, <2>3, <2>4
<1> QED
  BY <1>2, <1>3, <1>5, <1>6

(* The dialogs of callbacks are answered, and the user cancels.            *)
LEMMA CalmAnswer ==
    ASSUME TypeOK, TypeOK', Calm, AnswerCrash \/ AnswerSkip \/ AnswerXrefError \/ Cancel
    PROVE  Calm'
<1> USE NoneAssumption DEF globals, history
<1>1. stack \in Seq(FrameState)
  BY DEF TypeOK
<1>2. CASE Cancel
  <2>1. stack' = Wake(stack, "pipe") /\ UNCHANGED <<SN_cross_pid, pipes, lock, tables>>
    BY <1>2 DEF Cancel
  <2>2. /\ Shape(stack') /\ Frames(stack', SN_cross_pid, tables, pipes)
        /\ stack' = <<>> => stack = <<>>
        /\ Owned(stack', SN_cross_pid, pipes)
    BY <1>1, <2>1, WakeStep DEF Calm
  <2> QED
    BY <2>1, <2>2 DEF Calm, Cross
<1>3. ASSUME NEW l \in {"crash", "askskip"}, At(l), stack' = Wake(Pop, "pipe"),
             UNCHANGED <<SN_cross_pid, pipes, lock, tables>>
      PROVE  Calm'
  <2>1. /\ Pop \in Seq(FrameState) /\ Shape(Pop) /\ Owned(Pop, SN_cross_pid, pipes)
        /\ \A i \in 1..Len(Pop) : i \in 1..Len(stack) /\ Pop[i] = stack[i]
        /\ Pop # <<>> /\ (Failed(Pop) <=> Failed(stack))
    <3>1. l \in Callbacks /\ l # "xreferr"
      BY DEF Callbacks
    <3> QED
      BY <1>3, <3>1, CallbackPop
  <2>2. Frames(Pop, SN_cross_pid, tables, pipes)
    BY <2>1 DEF Calm, Frames, FrameOK
  <2>3. /\ Shape(stack') /\ Frames(stack', SN_cross_pid, tables, pipes) /\ stack' # <<>>
        /\ Owned(stack', SN_cross_pid, pipes)
    BY <1>3, <2>1, <2>2, WakeStep
  <2> QED
    BY <1>3, <2>3 DEF Calm, Cross
<1>4. ASSUME At("crash"), stack' = Goto("askskip"), UNCHANGED <<SN_cross_pid, pipes, lock, tables>>
      PROVE  Calm'
  <2> DEFINE g == [Top EXCEPT !.at = "askskip"]
             n == Len(stack)
  <2>1. /\ stack # <<>> /\ Top = stack[n] /\ Top.at = "crash" /\ Top \in FrameState
    BY <1>4, TopTypes DEF Top
  <2>2. g.at = "askskip" /\ g.ran = Top.ran /\ g \in FrameState
    BY <2>1, PlaceNames DEF FrameState
  <2>3. stack' = [stack EXCEPT ![n] = g]
    BY <1>4 DEF Goto, Put
  <2> HIDE DEF g
  <2>4. /\ stack' \in Seq(FrameState) /\ Len(stack') = n /\ n \in 1..n
        /\ \A i \in 1..n : i < n \/ i = n
        /\ \A i \in 1..n : i # n => stack'[i] = stack[i]
        /\ stack'[n] = g
    BY <1>1, <2>1, <2>2, <2>3, PutFacts
  <2>5. n # 1
    BY <2>1 DEF Calm, Shape
  <2>6. Shape(stack')
    <3>1. \A i, j \in 1..n : i < j => stack'[j].at \in Callbacks \/ stack'[i].at = "begin"
      <4> SUFFICES ASSUME NEW i \in 1..n, NEW j \in 1..n, i < j
                   PROVE  stack'[j].at \in Callbacks \/ stack'[i].at = "begin"
        OBVIOUS
      <4>1. i # n
        BY <2>4
      <4>2. CASE j = n
        BY <2>2, <2>4, <4>2 DEF Callbacks
      <4>3. CASE j # n
        BY <2>4, <4>1, <4>3 DEF Calm, Shape
      <4> QED
        BY <4>2, <4>3
    <3>2. \A i \in 1..n : i < n => stack'[i].at \in Waits \union {"begin"}
      <4>1. \A i \in 1..n : i < n => i # n
        BY <2>4
      <4> QED
        BY <2>4, <4>1 DEF Calm, Shape
    <3>3. stack'[1].at \notin {"crash", "askskip"}
      <4>1. 1 \in 1..n
        BY <2>4
      <4> QED
        BY <2>1, <2>4, <2>5, <4>1 DEF Calm, Shape
    <3> QED
      BY <2>4, <3>1, <3>2, <3>3 DEF Shape
  <2>7. Failed(stack') <=> Failed(stack)
    <3>1. Failed(stack') => Failed(stack)
      BY <2>2, <2>4 DEF Failed
    <3>2. Failed(stack) => Failed(stack')
      BY <2>1, <2>4 DEF Failed
    <3> QED
      BY <3>1, <3>2
  <2>8. Frames(stack', SN_cross_pid, tables, pipes)
    <3> SUFFICES ASSUME NEW i \in 1..n PROVE FrameOK(stack'[i], SN_cross_pid, tables, pipes, Failed(stack'))
      BY <2>4 DEF Frames
    <3>1. FrameOK(stack[i], SN_cross_pid, tables, pipes, Failed(stack))
      BY DEF Calm, Frames
    <3>2. CASE i = n
      <4>1. ~g.ran
        BY <2>1, <2>2, <3>1, <3>2 DEF FrameOK, Callbacks
      <4> QED
        BY <2>2, <2>4, <3>2, <4>1 DEF FrameOK, Closed, Busy
    <3>3. CASE i # n
      BY <2>4, <2>7, <3>1, <3>3 DEF FrameOK
    <3> QED
      BY <3>2, <3>3
  <2>9. Owned(stack', SN_cross_pid, pipes)
    <3> SUFFICES ASSUME NEW p \in Pipe, pipes[p].open, NEW i \in 1..n, Owns(stack[i], p, pipes)
                 PROVE  \E j \in 1..Len(stack') : Owns(stack'[j], p, pipes)
      BY DEF Calm, Owned
    <3>1. i # n
      BY <2>1 DEF Owns
    <3> QED
      BY <2>4, <3>1
  <2>10. stack' # <<>>
    BY <2>4
  <2> QED
    BY <1>4, <2>6, <2>8, <2>9, <2>10 DEF Calm, Cross
<1>5. CASE AnswerCrash
  <2>1. /\ At("crash") /\ UNCHANGED <<SN_cross_pid, pipes, lock, tables>>
        /\ stack' = Goto("askskip") \/ stack' = Wake(Pop, "pipe")
    BY <1>5 DEF AnswerCrash
  <2> QED
    BY <1>3, <1>4, <2>1
<1>6. CASE AnswerSkip
  BY <1>3, <1>6 DEF AnswerSkip
<1>7. CASE AnswerXrefError
  <2>1. /\ At("xreferr") /\ stack' = Pop /\ UNCHANGED <<SN_cross_pid, pipes>>
        /\ lock' = NoPipe /\ tables' = Both
    BY <1>7 DEF AnswerXrefError, AfterXref
  <2>2. /\ Pop \in Seq(FrameState) /\ Shape(Pop) /\ Owned(Pop, SN_cross_pid, pipes)
        /\ \A i \in 1..Len(Pop) : i \in 1..Len(stack) /\ Pop[i] = stack[i]
    <3>1. "xreferr" \in Callbacks
      BY DEF Callbacks
    <3> QED
      BY <2>1, <3>1, CallbackPop
  <2>3. SN_cross_pid = NoPipe /\ Failed(stack)
    <3>1. Len(stack) \in 1..Len(stack) /\ stack[Len(stack)].at = "xreferr"
      BY <1>1, <2>1 DEF At, Top
    <3> QED
      BY <3>1 DEF Calm, Frames, FrameOK, Failed
  <2>4. Frames(Pop, NoPipe, Both, pipes)
    <3> SUFFICES ASSUME NEW i \in 1..Len(Pop) PROVE FrameOK(Pop[i], NoPipe, Both, pipes, Failed(Pop))
      BY DEF Frames
    <3>1. FrameOK(Pop[i], NoPipe, tables, pipes, Failed(stack))
      BY <2>2, <2>3 DEF Calm, Frames
    <3> QED
      BY <2>3, <3>1 DEF FrameOK, Opened
  <2> QED
    BY <2>1, <2>2, <2>3, <2>4 DEF Calm, Cross, Opened
<1> QED
  BY <1>2, <1>5, <1>6, <1>7

(* A process of a pipe takes a step. When references are imported, no other*)
(* dbimp can take the lock.                                                *)
LEMMA CalmProcess ==
    ASSUME TypeOK, PipesOK, Calm, NEW p \in Pipe, Work(p) \/ Fault(p)
    PROVE  Calm'
<1>1. /\ pipes[p].st \in {"starting", "locked"}
      /\ \A q \in Pipe : /\ pipes'[q].open = pipes[q].open /\ pipes'[q].kind = pipes[q].kind
                         /\ q # p => pipes'[q] = pipes[q]
      /\ Clean(pipes'[p]) /\ pipes[p].kind = "xref" => lock' = NoPipe
      /\ UNCHANGED <<stack, SN_cross_pid, tables>>
  BY ProcessStep
<1>2. Frames(stack, SN_cross_pid, tables, pipes') /\ Owned(stack, SN_cross_pid, pipes')
  BY <1>1, FewerPipes, FewerOwned DEF Calm
<1>3. ASSUME NEW q \in Pipe, SN_cross_pid = q, Clean(pipes'[q]) PROVE lock' = NoPipe
  <2>1. pipes[q].kind = "xref" /\ (Clean(pipes[q]) => lock = NoPipe)
    BY <1>3 DEF Calm, Cross
  <2>2. CASE q = p
    BY <1>1, <1>3, <2>1, <2>2
  <2>3. CASE q # p
    <3>1. pipes[p].open
      BY <1>1 DEF PipesOK, Runs
    <3>2. PICK i \in 1..Len(stack) : Owns(stack[i], p, pipes)
      BY <1>3, <2>3, <3>1 DEF Calm, Owned
    <3>3. stack[i].at \in {"pipe", "killed", "unload"}
      BY <3>2 DEF Owns
    <3>4. SN_cross_pid = NoPipe
      BY <3>3 DEF Calm, Frames, FrameOK, Busy
    <3> QED
      BY <1>3, <3>4, NoneAssumption
  <2> QED
    BY <2>2, <2>3
<1> QED
  BY <1>1, <1>2, <1>3 DEF Calm, Cross

-----------------------------------------------------------------------------
LEMMA CalmStep ==
    ASSUME TypeOK, TypeOK', PipesOK, Calm, [Next]_vars, ~overlap'
    PROVE  Calm'
<1>1. CASE \E p \in Pipe : Work(p) \/ Fault(p) \/ Serve(p) \/ CancelXref(p)
  BY <1>1, CalmProcess, CalmServe
<1>2. CASE \/ FilesScanned \/ BeginParse \/ LoadFiles \/ AnswerBusy \/ AnswerNoParser \/ CheckPipe
           \/ AnswerOtherTypes \/ WindowClosed \/ ReopenTables \/ AnswerUnusable
  BY <1>2, CalmUpdate
<1>3. CASE StartPipe \/ PipeEnds \/ ClosePipe \/ UnloadEnds \/ FinishUpdate \/ AnswerMissing
  BY <1>3, CalmPipe
<1>4. CASE (\E job \in Jobs : StartUpdate(job)) \/ StartUnload
  BY <1>4, CalmStart
<1>5. CASE AnswerCrash \/ AnswerSkip \/ AnswerXrefError \/ Cancel
  BY <1>5, CalmAnswer
<1>6. CASE UNCHANGED vars
  BY <1>6 DEF vars, globals, Calm
<1> QED
  BY <1>1, <1>2, <1>3, <1>4, <1>5, <1>6 DEF Next, Proceed, Answer

(* Nested updates are forgotten only when nothing is left of them.         *)
LEMMA OverlapEnds ==
    ASSUME [Next]_vars, overlap, ~overlap'
    PROVE  Quiet
<1> USE DEF globals, history
<1>1. CASE \E job \in Jobs : StartUpdate(job)
  BY <1>1 DEF StartUpdate
<1>2. CASE StartUnload
  BY <1>2 DEF StartUnload
<1>3. CASE \E p \in Pipe : Work(p) \/ Fault(p) \/ Serve(p) \/ CancelXref(p)
  <2>1. UNCHANGED overlap
    BY <1>3 DEF Work, TakeLock, StoreFile, EndImport, Fault, DbimpDies, DbimpExits, ParserCrashes,
       Serve, ServeLine, ServeEof, ServeCancelled, ServeFailed, ServeXref, ServeUnload, CancelXref
  <2> QED
    BY <2>1
<1>4. CASE Proceed
  <2>1. UNCHANGED overlap
    BY <1>4 DEF Proceed, Answer, FilesScanned, BeginParse, LoadFiles, StartPipe, PipeEnds,
       ClosePipe, CheckPipe, WindowClosed, ReopenTables, FinishUpdate, UnloadEnds, AnswerMissing,
       AnswerBusy, AnswerNoParser, AnswerOtherTypes, AnswerUnusable, AnswerCrash, AnswerSkip,
       AnswerXrefError
  <2> QED
    BY <2>1
<1>5. CASE Cancel \/ UNCHANGED vars
  BY <1>5 DEF Cancel, vars
<1> QED
  BY <1>1, <1>2, <1>3, <1>4, <1>5 DEF Next

LEMMA InvInit == Init => IInv
<1> SUFFICES ASSUME Init PROVE IInv
  OBVIOUS
<1>1. \A p \in Pipe : ~pipes[p].open /\ pipes[p].st = "ended"
  BY DEF Init, Idle
<1>2. Quiet
  BY <1>1 DEF Quiet, Exists, Runs, Init
<1>3. PipesOK
  BY <1>1 DEF PipesOK, Runs
<1> QED
  BY <1>2, <1>3, TypeInit, QuietCalm DEF IInv

LEMMA InvStep == TypeOK /\ IInv /\ [Next]_vars => IInv'
<1> SUFFICES ASSUME TypeOK, IInv, [Next]_vars PROVE IInv'
  OBVIOUS
<1>1. TypeOK' /\ PipesOK'
  BY TypeStep, PipesStep DEF IInv
<1>2. ASSUME ~overlap' PROVE Calm'
  <2>1. CASE overlap
    BY <1>1, <1>2, <2>1, OverlapEnds, QuietCalm, CalmStep DEF IInv
  <2>2. CASE ~overlap
    BY <1>1, <1>2, <2>2, CalmStep DEF IInv
  <2> QED
    BY <2>1, <2>2
<1> QED
  BY <1>1, <1>2 DEF IInv

LEMMA Invariant == Spec => [](TypeOK /\ IInv)
<1>1. Init => TypeOK /\ IInv
  BY TypeInit, InvInit
<1>2. TypeOK /\ IInv /\ [Next]_vars => TypeOK' /\ IInv'
  BY TypeStep, InvStep
<1> QED
  BY <1>1, <1>2, PTL DEF Spec

(* While an update or an unload waits for its dbimp, no references are     *)
(* imported, nothing is open, and nobody else waits for one.               *)
LEMMA OwnerAlone ==
    ASSUME TypeOK, Calm, NEW p \in Pipe, NEW i \in 1..Len(stack), Owns(stack[i], p, pipes)
    PROVE  /\ SN_cross_pid = NoPipe /\ tables = {}
           /\ \A j \in 1..Len(stack) : \A q \in Pipe : Owns(stack[j], q, pipes) => q = p
<1>1. stack[i].at \in {"pipe", "killed", "unload"} /\ stack[i].pipe = p
  BY DEF Owns
<1>2. SN_cross_pid = NoPipe /\ tables = {}
  BY <1>1 DEF Calm, Frames, FrameOK, Closed, Busy
<1>3. ASSUME NEW j \in 1..Len(stack), NEW q \in Pipe, Owns(stack[j], q, pipes) PROVE q = p
  <2>1. stack[j].at \in {"pipe", "killed", "unload"} /\ stack[j].pipe = q
    BY <1>3 DEF Owns
  <2>2. i < j \/ j < i \/ i = j
    BY DEF TypeOK
  <2>3. i = j
    BY <1>1, <2>1, <2>2 DEF Calm, Shape, Callbacks
  <2> QED
    BY <1>1, <2>1, <2>3
<1> QED
  BY <1>2, <1>3

(* For any number of pipes and any nesting of procedures and callbacks: no *)
(* two dbimp processes of hyper run at once, as long as no update or unload*)
(* is started inside another one (sn_load_files, sn_db_panic_check).       *)
THEOREM AtMostOneImport == Spec => []OneImport
<1>1. TypeOK /\ IInv => OneImport
  <2> SUFFICES ASSUME TypeOK, PipesOK, Calm, NEW p \in Pipe, NEW q \in Pipe, Runs(p), Runs(q)
               PROVE  p = q
    BY DEF IInv, OneImport
  <2>1. pipes[p].open /\ pipes[q].open
    BY DEF PipesOK
  <2>2. CASE SN_cross_pid = p \/ SN_cross_pid = q
    <3>1. ~\E r \in Pipe : \E i \in 1..Len(stack) : Owns(stack[i], r, pipes)
      BY <2>2, OwnerAlone, NoneAssumption
    <3> QED
      BY <2>1, <3>1 DEF Calm, Owned
  <2>3. CASE SN_cross_pid # p /\ SN_cross_pid # q
    <3>1. PICK i \in 1..Len(stack) : Owns(stack[i], p, pipes)
      BY <2>1, <2>3 DEF Calm, Owned
    <3>2. PICK j \in 1..Len(stack) : Owns(stack[j], q, pipes)
      BY <2>1, <2>3 DEF Calm, Owned
    <3> QED
      BY <3>1, <3>2, OwnerAlone
  <2> QED
    BY <2>2, <2>3
<1> QED
  BY <1>1, Invariant, PTL

(* db_close_files has closed in hyper whatever a dbimp writes to, however  *)
(* updates, imports of references and their errors follow each other.      *)
THEOREM NothingOpenIsWritten == Spec => []ClosedWhileWritten
<1>1. TypeOK /\ IInv => ClosedWhileWritten
  <2> SUFFICES ASSUME TypeOK, PipesOK, Calm, NEW p \in Pipe, Runs(p)
               PROVE  Writes(p) \intersect tables = {}
    <3>1. \A p \in Pipe : ~Runs(p) => Writes(p) = {}
      BY DEF Writes
    <3> QED
      BY <3>1 DEF IInv, ClosedWhileWritten
  <2>1. pipes[p].open
    BY DEF PipesOK
  <2>2. CASE pipes[p].kind = "xref" /\ SN_cross_pid = p
    <3>1. Writes(p) = {"xrefs"} /\ "xrefs" \notin tables
      BY <2>2, NoneAssumption DEF Writes, Calm, Cross
    <3> QED
      BY <3>1
  <2>3. CASE \E i \in 1..Len(stack) : Owns(stack[i], p, pipes)
    <3>1. tables = {}
      BY <2>3, OwnerAlone
    <3> QED
      BY <3>1
  <2> QED
    BY <2>1, <2>2, <2>3 DEF Calm, Owned
<1> QED
  BY <1>1, Invariant, PTL

(* When hyper is back in its event loop, sn_db_open_files has opened again *)
(* whatever an update, an unload or an import of references had closed, on *)
(* every path, those of errors and cancels included.                       *)
THEOREM TablesAreReopened == Spec => []TablesComeBack
<1>1. TypeOK /\ IInv => TablesComeBack
  BY DEF IInv, Calm, Cross, TablesComeBack
<1> QED
  BY <1>1, Invariant, PTL

(* SN_cross_pid names the import of references that hyper has a pipe to,   *)
(* and is unset when there is none, however the import has ended.          *)
THEOREM CrossPidIsKept == Spec => []CrossPidIsXref
<1>1. TypeOK /\ IInv => CrossPidIsXref
  <2> SUFFICES ASSUME TypeOK, Calm, NEW p \in Pipe
               PROVE  (SN_cross_pid = p) <=> (pipes[p].kind = "xref" /\ pipes[p].open)
    BY DEF IInv, CrossPidIsXref
  <2>1. SN_cross_pid = p => pipes[p].kind = "xref" /\ pipes[p].open
    BY DEF Calm, Cross
  <2>2. ASSUME pipes[p].kind = "xref", pipes[p].open PROVE SN_cross_pid = p
    BY <2>2 DEF Calm, Owned, Owns
  <2> QED
    BY <2>1, <2>2
<1> QED
  BY <1>1, Invariant, PTL
=============================================================================
