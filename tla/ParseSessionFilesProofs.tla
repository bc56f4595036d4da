---------------------- MODULE ParseSessionFilesProofs ----------------------
(***************************************************************************)
(* Theorems about what an update does with its files, for every project,   *)
(* every number of pipes and of updates: only what a dbimp gives up, and   *)
(* tells stderr alone of, is passed over in silence, and processes are     *)
(* killed only because the user has cancelled.                             *)
(***************************************************************************)
EXTENDS ParseSessionProofs, WellFoundedInduction

-----------------------------------------------------------------------------
(* What an update has done with its files, by the place where it is.       *)
Waiting  == {"scan", "missing", "begin"}
Asking   == {"files", "busy"}
Parsing  == {"part", "noparser", "pipe", "killed", "check", "askother"}
Done     == {"closing", "reopen", "unusable", "xref"}

Rest(f) == FilesOf(f.bundles) \union FilesIn(f.types)

(* The files that the update need not come back to.                        *)
Settled == accounted \union gaveUp

(* The files that are not settled (A) are still ahead of it.               *)
Ahead(f, A) ==
    /\ f.at \in Waiting => f.types # <<>> /\ f.all \subseteq FilesIn(f.types)
    /\ f.at \in Callbacks \union {"unload"} => f.all = {}
    /\ f.at \in Asking => f.all \subseteq A \union Rest(f)
    /\ f.at \in Parsing => f.all \subseteq A \union Elems(f.fl) \union Rest(f)
    /\ f.at \in Done => f.all \subseteq A

(* How far the processes r have come with the bundle fl: dbimp has passed n*)
(* of its lines on, and has stored their files, but for the one it was     *)
(* killed over; what it has still to do and what hyper has still to read   *)
(* are next to each other in the bundle, and the file accessed last (l, if *)
(* one has been named, m) is before that.  If it has given up before the   *)
(* first line, that is all there is of the bundle.                         *)
LastRead(fl, l, m, k) == IF m THEN k > 0 /\ l = fl[k] ELSE k = 0

Progress(fl, r, l, m, A) ==
    \E n \in 0..Len(fl) :
        /\ Len(r.out) <= n /\ n + Len(r.todo) <= Len(fl)
        /\ \A i \in 1..Len(r.out) : r.out[i] = fl[n - Len(r.out) + i]
        /\ \A i \in 1..Len(r.todo) : r.todo[i] = fl[n + i]
        /\ \A j \in 1..n : fl[j] \in A \/ (j = n /\ r.st = "ended" /\ r.err = "crash")
        /\ LastRead(fl, l, m, n - Len(r.out))
        /\ r.st \in {"starting", "locked"} /\ r.err # "crash" => n + Len(r.todo) = Len(fl)
        /\ r.st = "ended" /\ r.err = "no" => n = Len(fl)
        /\ r.st = "ended" /\ r.err = "warns" /\ n = 0 => Elems(fl) \subseteq A

(* The file accessed last, and all before it are settled.                  *)
Seen(fl, l, A) == \E k \in 1..Len(fl) : fl[k] = l /\ \A j \in 1..(k - 1) : fl[j] \in A

(* It can be skipped, or the bundle, if no file of it has been named.      *)
Over(fl, l, m, A) == IF m THEN l \in A ELSE Elems(fl) \subseteq A

(* A procedure f with the pipes P, ProcessingCancelled c, the file accessed*)
(* last l, named by the last pipe (n), and the files A that are settled.   *)
AtPipe(f, r, c, l, n, A) ==
    /\ c = 2 => f.window
    /\ f.woken /\ r.open => c = 2
    /\ f.woken /\ c = 0 => Elems(f.fl) \subseteq A
    /\ r.open => Progress(f.fl, r, l, n, A)

Doing(f, P, c, l, n, A) ==
    /\ Ahead(f, A)
    /\ f.woken => f.at \in {"pipe", "unload"}
    /\ f.window => f.at \in Asking \union Parsing
    /\ f.at \in Waiting \union Asking \union {"part", "noparser"} => c = 0
    /\ f.at \in {"pipe", "killed"} => f.pipe \in Pipe
    /\ f.at = "pipe" => AtPipe(f, P[f.pipe], c, l, n, A)
    /\ f.at = "killed" => c = 2 /\ f.window
    /\ f.at = "check" /\ c = 0 => Elems(f.fl) \subseteq A
    /\ f.at \in {"pipe", "check"} /\ c = 3 => Over(f.fl, l, n, A)
    /\ f.at \in {"pipe", "killed", "check"} /\ n => Seen(f.fl, l, A)
    /\ f.at = "askskip" => c # 0

Skipping(s) == \E i \in 1..Len(s) : s[i].at \in {"crash", "askskip"}

(* Only an unload is started from an update, and the dialogs of a crash are*)
(* shown over the update whose pipe has ended with it.                     *)
Order(s, P) ==
    /\ \A i \in 1..Len(s) : i > 1 => s[i].at \in {"unload", "reopen", "unusable", "xref"} \union Callbacks
    /\ Skipping(s) => s[1].at = "pipe" /\ \A p \in Pipe : P[p].open => P[p].kind # "parse"

Each(s, P, c, l, n, A) == \A i \in 1..Len(s) : Doing(s[i], P, c, l, n, A)

Orderly == /\ Order(stack, pipes)
           /\ Each(stack, pipes, ProcessingCancelled, lastFile, named, Settled)

FInv == overlap \/ Orderly

-----------------------------------------------------------------------------
(* Lists of files.                                                         *)
LEMMA NoFiles == FilesOf(<<>>) = {} /\ FilesIn(<<>>) = {} /\ Elems(<<>>) = {}
BY DEF FilesOf, FilesIn, Elems

LEMMA UnionHeadTail ==
    ASSUME NEW S, NEW s \in Seq(S), s # <<>>
    PROVE  /\ Head(s) = s[1] /\ Len(Tail(s)) = Len(s) - 1
           /\ \A i \in 1..Len(s) : i = 1 \/ (i - 1 \in 1..Len(Tail(s)) /\ s[i] = Tail(s)[i - 1])
OBVIOUS

LEMMA FilesOfNext ==
    ASSUME NEW b \in Bundles, b # <<>>
    PROVE  FilesOf(b) \subseteq Elems(Head(b)) \union FilesOf(Tail(b))
<1>1. b \in Seq(Seq(File))
  BY DEF Bundles
<1>2. \A i \in 1..Len(b) : b[i] = Head(b) \/ \E j \in 1..Len(Tail(b)) : b[i] = Tail(b)[j]
  BY <1>1, UnionHeadTail
<1> QED
  BY <1>2 DEF FilesOf

LEMMA FilesInNext ==
    ASSUME NEW t \in Seq(Bundles), t # <<>>
    PROVE  FilesIn(t) \subseteq FilesOf(Head(t)) \union FilesIn(Tail(t))
<1>1. \A i \in 1..Len(t) : t[i] = Head(t) \/ \E j \in 1..Len(Tail(t)) : t[i] = Tail(t)[j]
  BY UnionHeadTail
<1> QED
  BY <1>1 DEF FilesIn

LEMMA LeastNat ==
    ASSUME NEW T \in SUBSET Nat, T # {}
    PROVE  \E x \in T : \A y \in T : x <= y
<1> DEFINE R == OpToRel(<, Nat)
<1>1. IsWellFoundedOn(R, Nat)
  BY NatLessThanWellFounded
<1>2. \A x, y \in Nat : <<y, x>> \in R <=> y < x
  BY DEF OpToRel
<1> HIDE DEF R
<1>3. PICK x \in T : \A y \in T : ~(<<y, x>> \in R)
  BY <1>1, WFMin
<1>4. \A y \in T : x \in Nat /\ y \in Nat /\ ~(y < x)
  BY <1>2, <1>3
<1> QED
  BY <1>4

(* After the file accessed last come all that are not settled.             *)
LEMMA AfterSeen ==
    ASSUME NEW fl \in Seq(File), NEW l, NEW A, Seen(fl, l, A)
    PROVE  Elems(fl) \subseteq A \union {l} \union Elems(After(fl, l))
<1> DEFINE Where == {i \in 1..Len(fl) : fl[i] = l}
           First == {i \in 1..Len(fl) : fl[i] = l /\ \A j \in 1..(i - 1) : fl[j] # l}
<1>1. PICK k \in 1..Len(fl) : fl[k] = l /\ \A j \in 1..(k - 1) : fl[j] \in A
  BY DEF Seen
<1>2. PICK m \in Where : \A i \in Where : m <= i
  <2>1. Where \in SUBSET Nat /\ k \in Where
    BY <1>1
  <2> QED
    BY <2>1, LeastNat
<1>3. m \in First
  <2>1. ASSUME NEW j \in 1..(m - 1) PROVE j \in 1..Len(fl) /\ ~(m <= j)
    OBVIOUS
  <2> QED
    BY <1>2, <2>1
<1> DEFINE n == CHOOSE i \in First : TRUE
<1>4. n \in First /\ After(fl, l) = SubSeq(fl, n + 1, Len(fl))
  BY <1>3 DEF After
<1>5. n \in 1..Len(fl) /\ fl[n] = l /\ \A j \in 1..(n - 1) : fl[j] # l
  BY <1>4
<1> HIDE DEF n
<1>6. n <= k
  BY <1>1, <1>5
<1>7. \A i \in (n + 1)..Len(fl) : fl[i] \in Elems(SubSeq(fl, n + 1, Len(fl)))
  <2> SUFFICES ASSUME NEW i \in (n + 1)..Len(fl) PROVE fl[i] \in Elems(SubSeq(fl, n + 1, Len(fl)))
    OBVIOUS
  <2> DEFINE s == SubSeq(fl, n + 1, Len(fl))
  <2>1. i - n \in 1..Len(s) /\ s[i - n] = fl[i]
    BY <1>5
  <2> QED
    BY <2>1 DEF Elems
<1>8. ASSUME NEW i \in 1..Len(fl) PROVE fl[i] \in A \union {l} \union Elems(After(fl, l))
  <2>1. CASE i < n
    BY <1>1, <1>5, <1>6, <2>1
  <2>2. CASE i = n
    BY <1>5, <2>2
  <2>3. CASE i > n
    BY <1>4, <1>5, <1>7, <2>3
  <2> QED
    BY <1>5, <2>1, <2>2, <2>3
<1> QED
  BY <1>8 DEF Elems

(* The loops of sn_load_files and sn_parse_uptodate take what is next.     *)
LEMMA AheadNextType ==
    ASSUME NEW f \in FrameState, NEW A, f.all \subseteq A \union FilesIn(f.types)
    PROVE  Ahead(NextType(f), A) /\ NextType(f).all = f.all
<1>1. NextType(f).at \in {"files", "closing"}
  BY NextTypeType
<1>2. CASE f.types = <<>>
  <2>1. NextType(f) = Leave(f) /\ Leave(f).all = f.all /\ Leave(f).at = "closing"
    BY <1>2, LeaveType DEF NextType
  <2>2. f.all \subseteq A
    BY <1>2, NoFiles
  <2> QED
    BY <2>1, <2>2 DEF Ahead, Waiting, Asking, Parsing, Callbacks, Done
<1>3. CASE f.types # <<>>
  <2> DEFINE g == NextType(f)
  <2>1. g.at = "files" /\ g.all = f.all /\ g.bundles = Head(f.types) /\ g.types = Tail(f.types)
    BY <1>3 DEF NextType, FrameState
  <2>2. FilesIn(f.types) \subseteq Rest(g)
    BY <1>3, <2>1, FilesInNext DEF Rest, FrameState
  <2> HIDE DEF g
  <2> QED
    BY <2>1, <2>2 DEF Ahead, Waiting, Asking, Parsing, Callbacks, Done, g
<1> QED
  BY <1>2, <1>3

LEMMA AheadNextBundle ==
    ASSUME NEW f \in FrameState, NEW A, f.all \subseteq A \union Rest(f)
    PROVE  Ahead(NextBundle(f), A) /\ NextBundle(f).all = f.all
<1>1. CASE f.bundles = <<>>
  <2>1. f.all \subseteq A \union FilesIn(f.types)
    BY <1>1, NoFiles DEF Rest
  <2>2. NextBundle(f) = NextType(f)
    BY <1>1 DEF NextBundle
  <2> QED
    BY <2>1, <2>2, AheadNextType
<1>2. CASE f.bundles # <<>>
  <2> DEFINE g == NextBundle(f)
  <2>1. /\ g.at = "part" /\ g.all = f.all /\ g.fl = Head(f.bundles) /\ g.types = f.types
        /\ g.bundles = Tail(f.bundles)
    BY <1>2 DEF NextBundle, FrameState
  <2>2. Rest(f) \subseteq Elems(g.fl) \union Rest(g)
    BY <1>2, <2>1, FilesOfNext DEF Rest, FrameState
  <2> HIDE DEF g
  <2> QED
    BY <2>1, <2>2 DEF Ahead, Waiting, Asking, Parsing, Callbacks, Done, g
<1> QED
  BY <1>1, <1>2

LEMMA AheadLeave ==
    ASSUME NEW f \in FrameState, NEW A, f.all \subseteq A
    PROVE  Ahead(Leave(f), A)
BY LeaveType DEF Ahead, Waiting, Asking, Parsing, Callbacks, Done

-----------------------------------------------------------------------------
(* What disturbs nobody.                                                   *)
Others == Waiting \union Asking \union {"part", "noparser", "askskip"}

LEMMA AheadGrows ==
    ASSUME NEW f, NEW A, NEW B, A \subseteq B, Ahead(f, A)
    PROVE  Ahead(f, B)
BY DEF Ahead

LEMMA ProgressGrows ==
    ASSUME NEW fl, NEW r, NEW l, NEW m, NEW A, NEW B, A \subseteq B, Progress(fl, r, l, m, A)
    PROVE  Progress(fl, r, l, m, B)
BY DEF Progress

LEMMA SameProgress ==
    ASSUME NEW fl, NEW r, NEW l, NEW m, NEW A, Progress(fl, r, l, m, A),
           NEW q, q.out = r.out, q.todo = r.todo, q.st = r.st, q.err = r.err
    PROVE  Progress(fl, q, l, m, A)
BY DEF Progress

LEMMA OverGrows ==
    ASSUME NEW fl, NEW l, NEW m, NEW A, NEW B, A \subseteq B, Over(fl, l, m, A)
    PROVE  Over(fl, l, m, B)
BY DEF Over

LEMMA SeenGrows ==
    ASSUME NEW fl, NEW l, NEW A, NEW B, A \subseteq B, Seen(fl, l, A)
    PROVE  Seen(fl, l, B)
BY DEF Seen

LEMMA AtPipeGrows ==
    ASSUME NEW f, NEW r, NEW c, NEW l, NEW n, NEW A, NEW B, A \subseteq B, AtPipe(f, r, c, l, n, A)
    PROVE  AtPipe(f, r, c, l, n, B)
BY ProgressGrows DEF AtPipe

(* The pipe of f is as it was, or closed; more is settled.                 *)
LEMMA DoingGrows ==
    ASSUME NEW f, NEW P, NEW Q, NEW c, NEW l, NEW n, NEW A, NEW B, Doing(f, P, c, l, n, A),
           A \subseteq B,
           f.at = "pipe" /\ f.pipe \in Pipe => ~Q[f.pipe].open \/ Q[f.pipe] = P[f.pipe]
    PROVE  Doing(f, Q, c, l, n, B)
<1>1. Ahead(f, B)
  BY AheadGrows DEF Doing
<1>2. f.at = "pipe" => AtPipe(f, Q[f.pipe], c, l, n, B)
  <2> SUFFICES ASSUME f.at = "pipe" PROVE AtPipe(f, Q[f.pipe], c, l, n, B)
    OBVIOUS
  <2>1. AtPipe(f, P[f.pipe], c, l, n, B) /\ f.pipe \in Pipe
    BY AtPipeGrows DEF Doing
  <2> QED
    BY <2>1 DEF AtPipe
<1>3. f.at \in {"pipe", "killed", "check"} /\ n => Seen(f.fl, l, B)
  BY SeenGrows DEF Doing
<1>4. f.at \in {"pipe", "check"} /\ c = 3 => Over(f.fl, l, n, B)
  BY OverGrows DEF Doing
<1> QED
  BY <1>1, <1>2, <1>3, <1>4 DEF Doing

(* An update below, from which an unload was started.                      *)
LEMMA DoingBegin ==
    ASSUME NEW f, f.at = "begin", NEW P, NEW c, NEW l, NEW n, NEW A, Doing(f, P, c, l, n, A),
           NEW Q, NEW k, NEW m, NEW B
    PROVE  Doing(f, Q, c, k, m, B)
BY DEF Doing, Ahead, Waiting, Asking, Parsing, Done, Callbacks

-----------------------------------------------------------------------------
(* An update that works is the first procedure, and the only one.          *)
LEMMA UpdateAlone ==
    ASSUME TypeOK, Orderly, NEW m, At(m), m \notin Callbacks,
           m \notin {"unload", "reopen", "unusable", "xref"}
    PROVE  /\ Len(stack) = 1 /\ Top = stack[1] /\ Top.at = m /\ Top \in FrameState
           /\ Doing(Top, pipes, ProcessingCancelled, lastFile, named, Settled)
<1>1. stack \in Seq(FrameState) /\ Len(stack) \in 1..Len(stack) /\ Top = stack[Len(stack)]
      /\ Top.at = m
  BY DEF TypeOK, At, Top
<1>2. Len(stack) \in Nat \ {0} /\ ~(Len(stack) > 1)
  BY <1>1 DEF Orderly, Order
<1>3. Len(stack) = 1
  <2>1. \A n \in Nat \ {0} : ~(n > 1) => n = 1
    OBVIOUS
  <2> QED
    BY <1>2, <2>1
<1> QED
  BY <1>1, <1>3 DEF Orderly, Each

LEMMA OneFrame ==
    ASSUME NEW s \in Seq(FrameState), Len(s) = 1, s[1].at \notin {"crash", "askskip"},
           NEW P, NEW c, NEW l, NEW n, NEW A, Doing(s[1], P, c, l, n, A)
    PROVE  Order(s, P) /\ Each(s, P, c, l, n, A)
<1>1. \A i \in 1..Len(s) : i = 1 /\ ~(i > 1)
  OBVIOUS
<1> QED
  BY <1>1 DEF Order, Each, Skipping

LEMMA PutOne ==
    ASSUME TypeOK, TypeOK', Orderly, NEW m, At(m), m \notin Callbacks,
           m \notin {"unload", "reopen", "unusable", "xref"},
           NEW g, g.at \notin {"crash", "askskip"}, stack' = Put(g),
           Doing(g, pipes', ProcessingCancelled', lastFile', named', Settled')
    PROVE  Orderly'
<1>1. Len(stack) = 1 /\ stack \in Seq(FrameState)
  BY UpdateAlone DEF TypeOK
<1>2. stack' \in Seq(FrameState) /\ Len(stack') = 1 /\ stack'[1] = g
  BY <1>1 DEF Put, TypeOK
<1> QED
  BY <1>2, OneFrame DEF Orderly

(* An unload that works may have been started from an update.              *)
LEMMA PutUpper ==
    ASSUME TypeOK, TypeOK', Calm, Orderly, NEW m, At(m), m \in {"unload", "reopen", "unusable"},
           NEW g, g.at \in {"reopen", "unusable", "xref"}, g.all = Top.all, ~g.woken,
           g.window = Top.window, stack' = Put(g),
           UNCHANGED <<pipes, ProcessingCancelled, lastFile, named, Settled>>
    PROVE  Orderly'
<1>1. stack \in Seq(FrameState) /\ stack # <<>> /\ Top = stack[Len(stack)] /\ Top.at = m
  BY DEF TypeOK, At, Top
<1>2. m \notin Callbacks
  BY DEF Callbacks
<1>3. /\ Len(stack) \in 1..Len(stack)
      /\ \A i \in 1..Len(stack) : i = Len(stack) \/ stack[i].at = "begin"
  BY <1>2, TopAlone
<1>4. /\ stack' \in Seq(FrameState) /\ Len(stack') = Len(stack) /\ stack'[Len(stack)] = g
      /\ \A i \in 1..Len(stack) : i # Len(stack) => stack'[i] = stack[i]
  BY <1>1 DEF Put, TypeOK
<1>5. Doing(Top, pipes, ProcessingCancelled, lastFile, named, Settled)
  BY <1>1, <1>3 DEF Orderly, Each
<1>6. Doing(g, pipes', ProcessingCancelled', lastFile', named', Settled')
  BY <1>1, <1>5 DEF Doing, Ahead, Waiting, Asking, Parsing, Done, Callbacks
<1>7. Each(stack', pipes', ProcessingCancelled', lastFile', named', Settled')
  BY <1>3, <1>4, <1>6, DoingBegin DEF Orderly, Each
<1>8. \A i \in 1..Len(stack') : i > 1 => stack'[i].at \in {"unload", "reopen", "unusable", "xref"} \union Callbacks
  BY <1>3, <1>4 DEF Orderly, Order
<1>9. ~Skipping(stack')
  BY <1>3, <1>4 DEF Skipping
<1> QED
  BY <1>7, <1>8, <1>9 DEF Orderly, Order

(* It returns.                                                             *)
LEMMA PopUpper ==
    ASSUME TypeOK, Calm, Orderly, NEW m, At(m), m \notin Callbacks, stack' = Pop,
           UNCHANGED ProcessingCancelled
    PROVE  Orderly'
<1>1. stack \in Seq(FrameState) /\ stack # <<>>
  BY DEF TypeOK, At
<1>2. /\ Pop \in Seq(FrameState) /\ Len(Pop) = Len(stack) - 1 /\ Len(stack) \in Nat \ {0}
      /\ \A i \in 1..(Len(stack) - 1) : i \in 1..Len(stack) /\ Pop[i] = stack[i]
  BY <1>1, PopFacts DEF Pop
<1>3. \A i \in 1..Len(stack) : i = Len(stack) \/ stack[i].at = "begin"
  BY TopAlone
<1>4. \A i \in 1..Len(Pop) : i \in 1..Len(stack) /\ Pop[i] = stack[i] /\ stack[i].at = "begin"
  BY <1>2, <1>3
<1>5. Each(stack', pipes', ProcessingCancelled', lastFile', named', Settled')
  BY <1>4, DoingBegin DEF Orderly, Each
<1>6. \A i \in 1..Len(stack') : i > 1 => stack'[i].at \in {"unload", "reopen", "unusable", "xref"} \union Callbacks
  BY <1>4 DEF Orderly, Order
<1>7. ~Skipping(stack')
  BY <1>4 DEF Skipping
<1> QED
  BY <1>5, <1>6, <1>7 DEF Orderly, Order

-----------------------------------------------------------------------------
(* The steps of an update.                                                 *)
Quietly == Waiting \union Asking \union Done \union {"part", "noparser", "askother"}

LEMMA DoingQuietly ==
    ASSUME NEW g, NEW P, NEW c, NEW l, NEW n, NEW A, g.at \in Quietly, ~g.woken, Ahead(g, A),
           g.window => g.at \in Asking \union Parsing,
           g.at \in Waiting \union Asking \union {"part", "noparser"} => c = 0
    PROVE  Doing(g, P, c, l, n, A)
BY DEF Doing, Quietly, Waiting, Asking, Parsing, Done

LEMMA Windows ==
    ASSUME NEW f \in FrameState
    PROVE  /\ ~Leave(f).window
           /\ NextType(f).window => NextType(f).at = "files"
           /\ NextBundle(f).window => NextBundle(f).at \in {"part", "files"}
<1>1. ~Leave(f).window
  BY DEF Leave, FrameState
<1>2. NextType(f).window => NextType(f).at = "files"
  <2>1. CASE f.types = <<>>
    BY <1>1, <2>1 DEF NextType
  <2>2. CASE f.types # <<>>
    BY <2>2 DEF NextType, FrameState
  <2> QED
    BY <2>1, <2>2
<1>3. NextBundle(f).window => NextBundle(f).at \in {"part", "files"}
  <2>1. CASE f.bundles = <<>>
    BY <1>2, <2>1 DEF NextBundle
  <2>2. CASE f.bundles # <<>>
    BY <2>2 DEF NextBundle, FrameState
  <2> QED
    BY <2>1, <2>2
<1> QED
  BY <1>1, <1>2, <1>3

(* The next type, bundle, or none: nothing is left but what is ahead.      *)
LEMMA GoesOn ==
    ASSUME TypeOK, TypeOK', Orderly, NEW m, At(m), m \notin Callbacks,
           m \notin {"unload", "reopen", "unusable", "xref"}, ~Top.woken,
           \/ stack' = Put(NextBundle(Top)) /\ ProcessingCancelled' = 0
              /\ Top.all \subseteq Settled' \union Rest(Top)
           \/ stack' = Put(NextType(Top)) /\ ProcessingCancelled' = 0
              /\ Top.all \subseteq Settled' \union FilesIn(Top.types)
           \/ stack' = Put(Leave(Top)) /\ Top.all \subseteq Settled'
    PROVE  Orderly'
<1>1. Top \in FrameState
  BY TopTypes
<1>2. ASSUME NEW g, stack' = Put(g), g.at \in {"part", "files", "closing"}, ~g.woken,
             Ahead(g, Settled'), g.window => g.at \in {"part", "files"},
             g.at = "closing" \/ ProcessingCancelled' = 0
      PROVE  Orderly'
  <2>1. Doing(g, pipes', ProcessingCancelled', lastFile', named', Settled')
    BY <1>2, DoingQuietly DEF Quietly, Waiting, Asking, Parsing, Done
  <2> QED
    BY <1>2, <2>1, PutOne
<1>3. CASE stack' = Put(NextBundle(Top)) /\ ProcessingCancelled' = 0
           /\ Top.all \subseteq Settled' \union Rest(Top)
  BY <1>1, <1>2, <1>3, NextBundleType, AheadNextBundle, Windows
<1>4. CASE stack' = Put(NextType(Top)) /\ ProcessingCancelled' = 0
           /\ Top.all \subseteq Settled' \union FilesIn(Top.types)
  BY <1>1, <1>2, <1>4, NextTypeType, AheadNextType, Windows
<1>5. CASE stack' = Put(Leave(Top)) /\ Top.all \subseteq Settled'
  BY <1>1, <1>2, <1>5, LeaveType, AheadLeave, Windows
<1> QED
  BY <1>3, <1>4, <1>5

(* It waits at another place, or asks the user.                            *)
LEMMA GoesTo ==
    ASSUME TypeOK, TypeOK', Orderly, NEW m, At(m), m \notin Callbacks,
           m \notin {"unload", "reopen", "unusable", "xref"}, ~Top.woken,
           NEW k, stack' = Goto(k), Settled \subseteq Settled',
           \/ m \in Waiting /\ k \in Waiting /\ UNCHANGED ProcessingCancelled
           \/ m \in Asking /\ k = "busy" /\ UNCHANGED ProcessingCancelled
           \/ m \in Parsing /\ k = "noparser" /\ ProcessingCancelled' = 0
           \/ m \in Parsing /\ k = "askother"
           \/ m \in Done /\ k \in Done
    PROVE  Orderly'
<1> DEFINE g == [Top EXCEPT !.at = k]
<1>1. /\ Top \in FrameState /\ Top.at = m /\ stack' = Put(g)
      /\ Doing(Top, pipes, ProcessingCancelled, lastFile, named, Settled)
  BY UpdateAlone DEF Goto
<1>2. /\ g.at = k /\ g.types = Top.types /\ g.bundles = Top.bundles /\ g.fl = Top.fl
      /\ g.all = Top.all /\ g.woken = Top.woken /\ g.window = Top.window
  BY <1>1 DEF FrameState
<1> HIDE DEF g
<1>3. Ahead(Top, Settled')
  BY <1>1, AheadGrows DEF Doing
<1>4. Ahead(g, Settled')
  BY <1>1, <1>2, <1>3 DEF Ahead, Rest, Waiting, Asking, Parsing, Done, Callbacks
<1>5. Doing(g, pipes', ProcessingCancelled', lastFile', named', Settled')
  <2>1. /\ g.at \in Quietly /\ (g.window => g.at \in Asking \union Parsing)
        /\ g.at \in Waiting \union Asking \union {"part", "noparser"} => ProcessingCancelled' = 0
    BY <1>1, <1>2 DEF Doing, Quietly, Waiting, Asking, Parsing, Done
  <2> QED
    BY <1>2, <1>4, <2>1, DoingQuietly
<1>6. k \notin {"crash", "askskip"}
  BY DEF Waiting, Done
<1> QED
  BY <1>1, <1>2, <1>5, <1>6, PutOne

LEMMA FilesUpdate ==
    ASSUME TypeOK, TypeOK', PipesOK, Orderly,
           \/ FilesScanned \/ BeginParse \/ LoadFiles \/ AnswerBusy \/ AnswerNoParser
           \/ CheckPipe \/ AnswerOtherTypes \/ StartPipe \/ PipeEnds \/ ClosePipe
    PROVE  Orderly'
<1> USE DEF Callbacks, globals, history
<1>1. ASSUME NEW m, At(m), m \in {"scan", "begin", "files", "busy", "part", "noparser", "pipe",
                                  "killed", "check", "askother"}
      PROVE  /\ Len(stack) = 1 /\ Top = stack[1] /\ Top.at = m /\ Top \in FrameState
             /\ Doing(Top, pipes, ProcessingCancelled, lastFile, named, Settled)
             /\ Ahead(Top, Settled) /\ (m # "pipe" => ~Top.woken)
  BY <1>1, UpdateAlone DEF Doing
<1>2. CASE FilesScanned
  <2>1. PICK k \in {"begin", "missing"} : stack' = Goto(k)
    BY <1>2 DEF FilesScanned
  <2> QED
    BY <1>1, <1>2, <2>1, GoesTo DEF FilesScanned, Waiting, Settled
<1>3. CASE BeginParse
  <2>1. At("begin") /\ Top.types # <<>> /\ Top.all \subseteq FilesIn(Top.types) /\ ProcessingCancelled = 0
    BY <1>1, <1>3 DEF BeginParse, Ahead, Doing, Waiting
  <2>2. PICK w \in BOOLEAN : stack' = Put([NextType(Top) EXCEPT !.window = w])
    BY <1>3 DEF BeginParse
  <2> DEFINE f == NextType(Top)
             g == [f EXCEPT !.window = w]
  <2>3. f \in FrameState /\ f.at = "files" /\ ~f.woken /\ Ahead(f, {})
    <3>1. f.at = "files"
      BY <1>1, <2>1 DEF NextType, FrameState
    <3> QED
      BY <1>1, <2>1, <3>1, NextTypeType, AheadNextType
  <2> HIDE DEF f
  <2>4. /\ g.at = "files" /\ ~g.woken /\ g.all = f.all /\ g.bundles = f.bundles
        /\ g.types = f.types
    BY <2>3 DEF FrameState
  <2> HIDE DEF g
  <2>5. Ahead(g, {})
    BY <2>3, <2>4 DEF Ahead, Rest, Waiting, Asking, Parsing, Done
  <2>6. Settled' = {} /\ ProcessingCancelled' = 0 /\ stack' = Put(g)
    BY <1>3, <2>1, <2>2 DEF BeginParse, Settled, g, f
  <2>7. Doing(g, pipes', ProcessingCancelled', lastFile', named', Settled')
    BY <2>4, <2>5, <2>6, DoingQuietly DEF Quietly, Asking
  <2> QED
    BY <2>1, <2>4, <2>6, <2>7, PutOne
<1>4. CASE LoadFiles
  <2>1. At("files") /\ UNCHANGED <<Settled, ProcessingCancelled>>
    BY <1>4 DEF LoadFiles, Settled
  <2>2. Top.all \subseteq Settled \union Rest(Top) /\ ProcessingCancelled = 0 /\ ~Top.woken
    BY <1>1, <2>1 DEF Ahead, Doing, Asking
  <2>3. CASE stack' = Put(NextBundle(Top))
    BY <2>1, <2>2, <2>3, GoesOn
  <2>4. CASE stack' = Goto("busy")
    BY <2>1, <2>2, <2>4, GoesTo DEF Asking
  <2> QED
    BY <1>4, <2>3, <2>4 DEF LoadFiles
<1>5. CASE AnswerBusy
  <2>1. At("busy") /\ stack' = Put(Leave(Top)) /\ Settled' = Settled \union Rest(Top)
    BY <1>5 DEF AnswerBusy, Rest, Settled
  <2>2. Top.all \subseteq Settled \union Rest(Top) /\ ~Top.woken
    BY <1>1, <2>1 DEF Ahead, Asking
  <2> QED
    BY <2>1, <2>2, GoesOn
<1>6. ASSUME NEW m, At(m), m \in {"part", "noparser", "check", "askother"}
      PROVE  Top.all \subseteq Settled \union Elems(Top.fl) \union Rest(Top) /\ ~Top.woken
             /\ m \in Parsing
  BY <1>1, <1>6 DEF Ahead, Parsing
<1>7. CASE AnswerNoParser
  <2>1. At("noparser") /\ Settled' = Settled \union Elems(Top.fl)
    BY <1>7 DEF AnswerNoParser, Settled
  <2>2. CASE ProcessingCancelled' = 0 /\ stack' = Put(NextBundle(Top))
    BY <1>6, <2>1, <2>2, GoesOn
  <2>3. CASE stack' = Goto("askother")
    BY <1>6, <2>1, <2>3, GoesTo
  <2> QED
    BY <1>7, <2>2, <2>3 DEF AnswerNoParser
<1>8. CASE AnswerOtherTypes
  <2>1. At("askother")
    BY <1>8 DEF AnswerOtherTypes
  <2>2. CASE /\ ProcessingCancelled' = 0 /\ stack' = Put(NextType(Top))
             /\ Settled' = Settled \union Elems(Top.fl) \union FilesOf(Top.bundles)
    BY <1>6, <2>1, <2>2, GoesOn DEF Rest
  <2>3. CASE /\ stack' = Put(Leave(Top))
             /\ Settled' = Settled \union Elems(Top.fl) \union FilesOf(Top.bundles)
                                  \union FilesIn(Top.types)
    BY <1>6, <2>1, <2>3, GoesOn DEF Rest
  <2> QED
    BY <1>8, <2>2, <2>3 DEF AnswerOtherTypes, Settled
<1>9. CASE CheckPipe
  <2>1. At("check") /\ UNCHANGED <<lastFile, named, Settled>>
    BY <1>9 DEF CheckPipe, Settled
  <2>2. CASE /\ ProcessingCancelled = 3 /\ ProcessingCancelled' = 0
             /\ LET fl == After(Top.fl, lastFile)
                IN  stack' = IF fl # <<>> THEN Put([Top EXCEPT !.at = "part", !.fl = fl])
                             ELSE Put(NextBundle(Top))
    <3> DEFINE fl == After(Top.fl, lastFile)
               g == [Top EXCEPT !.at = "part", !.fl = fl]
    <3>1. Elems(Top.fl) \subseteq Settled \union Elems(fl)
      <4>1. Over(Top.fl, lastFile, named, Settled)
        BY <1>1, <2>1, <2>2 DEF Doing
      <4>2. CASE named
        <5>1. Top.fl \in Seq(File) /\ Seen(Top.fl, lastFile, Settled) /\ lastFile \in Settled
          BY <1>1, <2>1, <4>1, <4>2 DEF Doing, Over, FrameState
        <5> QED
          BY <5>1, AfterSeen
      <4>3. CASE ~named
        BY <4>1, <4>3 DEF Over
      <4> QED
        BY <4>2, <4>3
    <3>2. Top.all \subseteq Settled \union Elems(fl) \union Rest(Top)
      BY <1>6, <2>1, <3>1
    <3>3. CASE fl = <<>>
      <4>1. stack' = Put(NextBundle(Top)) /\ Elems(fl) = {}
        BY <2>2, <3>3, NoFiles
      <4> QED
        BY <1>6, <2>1, <2>2, <3>2, <4>1, GoesOn
    <3>4. CASE fl # <<>>
      <4>1. stack' = Put(g)
        BY <2>2, <3>4
      <4>2. /\ g.at = "part" /\ g.fl = fl /\ g.all = Top.all /\ ~g.woken
            /\ g.bundles = Top.bundles /\ g.types = Top.types
        BY <1>1, <1>6, <2>1 DEF FrameState
      <4> HIDE DEF g, fl
      <4>3. Ahead(g, Settled')
        BY <2>1, <3>2, <4>2 DEF Ahead, Rest, Waiting, Asking, Parsing, Done
      <4>4. Doing(g, pipes', ProcessingCancelled', lastFile', named', Settled')
        BY <2>2, <4>2, <4>3, DoingQuietly DEF Quietly, Parsing
      <4> QED
        BY <2>1, <4>1, <4>2, <4>4, PutOne
    <3> QED
      BY <3>3, <3>4
  <2>3. CASE stack' = Goto("askother")
    BY <1>6, <2>1, <2>3, GoesTo
  <2>4. CASE /\ ProcessingCancelled = 0 /\ stack' = Put(NextBundle(Top))
             /\ UNCHANGED ProcessingCancelled
    <3>1. Elems(Top.fl) \subseteq Settled
      BY <1>1, <2>1, <2>4 DEF Doing
    <3> QED
      BY <1>6, <2>1, <2>4, <3>1, GoesOn
  <2> QED
    BY <1>9, <2>2, <2>3, <2>4 DEF CheckPipe
<1>10. CASE StartPipe
  <2>1. At("part") /\ ~named' /\ UNCHANGED <<ProcessingCancelled, Settled>>
    BY <1>10 DEF StartPipe, Settled
  <2>2. ProcessingCancelled = 0
    BY <1>1, <2>1 DEF Doing
  <2>3. CASE stack' = Goto("noparser")
    BY <1>6, <2>1, <2>2, <2>3, GoesTo
  <2>4. ASSUME NEW p \in Pipe, pipes' = [pipes EXCEPT ![p] = Started("parse", Top.fl)],
               stack' = Put([Top EXCEPT !.at = "pipe", !.pipe = p, !.ran = TRUE])
        PROVE  Orderly'
    <3> DEFINE g == [Top EXCEPT !.at = "pipe", !.pipe = p, !.ran = TRUE]
               r == Started("parse", Top.fl)
    <3>1. /\ g.at = "pipe" /\ g.pipe = p /\ g.fl = Top.fl /\ g.all = Top.all /\ ~g.woken
          /\ g.bundles = Top.bundles /\ g.types = Top.types
      BY <1>1, <1>6, <2>1 DEF FrameState
    <3>2. pipes'[p] = r /\ Top.fl \in Seq(File) /\ stack' = Put(g)
      BY <1>1, <2>1, <2>4 DEF TypeOK, FrameState
    <3>3. /\ r.out = <<>> /\ r.todo = Top.fl /\ r.st = "starting" /\ r.err = "no"
      BY DEF Started
    <3> HIDE DEF g, r
    <3>4. Progress(Top.fl, r, lastFile', named', Settled)
      <4>1. 0 \in 0..Len(Top.fl) /\ Len(<<>>) = 0 /\ Len(Top.fl) \in Nat
        BY <3>2
      <4>2. /\ Len(r.out) <= 0 /\ 0 + Len(r.todo) = Len(Top.fl)
            /\ \A i \in 1..Len(r.out) : r.out[i] = Top.fl[0 - Len(r.out) + i]
            /\ \A i \in 1..Len(r.todo) : r.todo[i] = Top.fl[0 + i]
        BY <3>2, <3>3, <4>1
      <4>3. LastRead(Top.fl, lastFile', named', 0 - Len(r.out))
        <5>1. Len(r.out) = 0
          BY <3>3, <4>1
        <5>2. 0 - 0 = 0
          OBVIOUS
        <5> QED
          BY <2>1, <5>1, <5>2 DEF LastRead
      <4> QED
        BY <3>3, <4>1, <4>2, <4>3 DEF Progress
    <3>5. Ahead(g, Settled)
      BY <1>6, <2>1, <3>1 DEF Ahead, Rest, Waiting, Asking, Parsing, Done
    <3>6. AtPipe(g, pipes'[p], 0, lastFile', named', Settled)
      BY <3>1, <3>2, <3>4 DEF AtPipe
    <3>7. Doing(g, pipes', 0, lastFile', named', Settled)
      BY <2>1, <3>1, <3>5, <3>6 DEF Doing, Waiting, Asking, Parsing
    <3> QED
      BY <2>1, <2>2, <3>1, <3>2, <3>7, PutOne
  <2> QED
    BY <1>10, <2>3, <2>4 DEF StartPipe
<1>11. CASE PipeEnds
  <2>1. /\ At("pipe") /\ Top.woken
        /\ UNCHANGED <<ProcessingCancelled, lastFile, named, Settled>>
    BY <1>11 DEF PipeEnds, Settled
  <2>2. /\ Top.pipe \in Pipe /\ AtPipe(Top, pipes[Top.pipe], ProcessingCancelled, lastFile, named, Settled)
        /\ (ProcessingCancelled = 3 => Over(Top.fl, lastFile, named, Settled))
        /\ Top.all \subseteq Settled \union Elems(Top.fl) \union Rest(Top)
        /\ named => Seen(Top.fl, lastFile, Settled)
    BY <1>1, <2>1 DEF Doing, Ahead, Parsing
  <2>3. CASE Exists(Top.pipe)
    <3> DEFINE g == [Top EXCEPT !.at = "killed", !.woken = FALSE]
    <3>1. stack' = Put(g)
      BY <1>11, <2>3 DEF PipeEnds
    <3>2. /\ g.at = "killed" /\ g.pipe = Top.pipe /\ g.fl = Top.fl /\ g.all = Top.all /\ ~g.woken
          /\ g.bundles = Top.bundles /\ g.types = Top.types /\ g.window = Top.window
      BY <1>1, <2>1 DEF FrameState
    <3>3. ProcessingCancelled = 2 /\ Top.window
      BY <2>1, <2>2, <2>3 DEF AtPipe, Exists, PipesOK
    <3> HIDE DEF g
    <3>4. Ahead(g, Settled)
      BY <2>2, <3>2 DEF Ahead, Rest, Waiting, Asking, Parsing, Done
    <3>5. Doing(g, pipes', ProcessingCancelled', lastFile', named', Settled')
      BY <2>1, <2>2, <3>2, <3>3, <3>4 DEF Doing, Waiting, Asking, Parsing
    <3> QED
      BY <2>1, <3>1, <3>2, <3>5, PutOne
  <2>4. CASE ~Exists(Top.pipe)
    <3> DEFINE g == [Top EXCEPT !.at = "check", !.woken = FALSE, !.pipe = NoPipe]
    <3>1. stack' = Put(g)
      BY <1>11, <2>4 DEF PipeEnds
    <3>2. /\ g.at = "check" /\ g.fl = Top.fl /\ g.all = Top.all /\ ~g.woken
          /\ g.bundles = Top.bundles /\ g.types = Top.types
      BY <1>1, <2>1 DEF FrameState
    <3>3. ProcessingCancelled = 0 => Elems(Top.fl) \subseteq Settled
      BY <2>1, <2>2 DEF AtPipe
    <3> HIDE DEF g
    <3>4. Ahead(g, Settled)
      BY <2>2, <3>2 DEF Ahead, Rest, Waiting, Asking, Parsing, Done
    <3>5. Doing(g, pipes', ProcessingCancelled', lastFile', named', Settled')
      BY <2>1, <2>2, <3>2, <3>3, <3>4 DEF Doing, Waiting, Asking, Parsing
    <3> QED
      BY <2>1, <3>1, <3>2, <3>5, PutOne
  <2> QED
    BY <2>3, <2>4
<1>12. CASE ClosePipe
  <2>1. At("killed") /\ UNCHANGED <<ProcessingCancelled, lastFile, named, Settled>>
    BY <1>12 DEF ClosePipe, Settled
  <2>2. /\ Top.all \subseteq Settled \union Elems(Top.fl) \union Rest(Top) /\ ~Top.woken
        /\ (named => Seen(Top.fl, lastFile, Settled)) /\ ProcessingCancelled = 2
    BY <1>1, <2>1 DEF Doing, Ahead, Parsing
  <2> DEFINE g == [Top EXCEPT !.at = "check", !.pipe = NoPipe]
  <2>3. stack' = Put(g)
    BY <1>12 DEF ClosePipe
  <2>4. /\ g.at = "check" /\ g.fl = Top.fl /\ g.all = Top.all /\ ~g.woken
        /\ g.bundles = Top.bundles /\ g.types = Top.types
    BY <1>1, <2>1, <2>2 DEF FrameState
  <2> HIDE DEF g
  <2>5. Ahead(g, Settled)
    BY <2>2, <2>4 DEF Ahead, Rest, Waiting, Asking, Parsing, Done
  <2>6. Doing(g, pipes', ProcessingCancelled', lastFile', named', Settled')
    BY <2>1, <2>2, <2>4, <2>5 DEF Doing, Waiting, Asking, Parsing
  <2> QED
    BY <2>1, <2>3, <2>4, <2>6, PutOne
<1> QED
  BY <1>2, <1>3, <1>4, <1>5, <1>7, <1>8, <1>9, <1>10, <1>11, <1>12

-----------------------------------------------------------------------------
(* An unload, and the end of an update.                                    *)
LEMMA FilesUnload ==
    ASSUME TypeOK, TypeOK', Calm, Orderly,
           WindowClosed \/ ReopenTables \/ AnswerUnusable \/ UnloadEnds \/ FinishUpdate
    PROVE  Orderly'
<1> USE DEF Callbacks, globals, history
<1>1. ASSUME NEW m, At(m), m \in {"unload", "reopen", "unusable"}
      PROVE  /\ Top \in FrameState /\ (m # "unload" => ~Top.woken)
             /\ \A k : LET g == [Top EXCEPT !.at = k]
                       IN  g.at = k /\ g.all = Top.all /\ g.woken = Top.woken /\ g.window = Top.window
  <2>1. Top \in FrameState /\ Top = stack[Len(stack)] /\ Len(stack) \in 1..Len(stack) /\ Top.at = m
    BY <1>1, TopTypes, TopAlone
  <2>2. m # "unload" => ~Top.woken
    BY <1>1, <2>1 DEF Orderly, Each, Doing
  <2> QED
    BY <2>1, <2>2 DEF FrameState
<1>2. ASSUME NEW m, At(m), m \in {"reopen", "unusable"}, NEW k \in {"unusable", "xref"}, stack' = Goto(k),
             UNCHANGED <<pipes, ProcessingCancelled, lastFile, named, Settled>>
      PROVE  Orderly'
  <2> DEFINE g == [Top EXCEPT !.at = k]
  <2>1. /\ g.at = k /\ g.all = Top.all /\ ~g.woken /\ g.window = Top.window /\ stack' = Put(g)
    BY <1>1, <1>2 DEF Goto
  <2> HIDE DEF g
  <2> QED
    BY <1>2, <2>1, PutUpper
<1>3. CASE WindowClosed
  <2>1. At("closing") /\ stack' = Goto("reopen") /\ UNCHANGED Settled
    BY <1>3 DEF WindowClosed, Settled
  <2>2. ~Top.woken
    BY <2>1, UpdateAlone DEF Doing
  <2> QED
    BY <2>1, <2>2, GoesTo DEF Done
<1>4. CASE ReopenTables
  BY <1>2, <1>4 DEF ReopenTables, Settled
<1>5. CASE AnswerUnusable
  BY <1>2, <1>5 DEF AnswerUnusable, Settled
<1>6. CASE UnloadEnds
  <2> DEFINE g == [Top EXCEPT !.at = "reopen", !.woken = FALSE, !.pipe = NoPipe]
  <2>1. At("unload") /\ stack' = Put(g)
    BY <1>6 DEF UnloadEnds
  <2>2. g.at = "reopen" /\ g.all = Top.all /\ ~g.woken /\ g.window = Top.window
    BY <1>1, <2>1 DEF FrameState
  <2> HIDE DEF g
  <2> QED
    BY <1>6, <2>1, <2>2, PutUpper DEF UnloadEnds, Settled
<1>7. CASE FinishUpdate
  BY <1>7, PopUpper DEF FinishUpdate
<1> QED
  BY <1>3, <1>4, <1>5, <1>6, <1>7

(* The update waits below for an unload.                                   *)
LEMMA TwoFrames ==
    ASSUME NEW s \in Seq(FrameState), Len(s) = 2, NEW P, NEW c, NEW l, NEW n, NEW A,
           s[1].at = "begin", s[2].at = "unload",
           Doing(s[1], P, c, l, n, A), Doing(s[2], P, c, l, n, A)
    PROVE  Order(s, P) /\ Each(s, P, c, l, n, A)
<1>1. \A i \in 1..Len(s) : i = 1 \/ i = 2
  OBVIOUS
<1> QED
  BY <1>1 DEF Order, Each, Skipping

LEMMA DoingUnload ==
    ASSUME NEW p, NEW P, NEW c, NEW l, NEW n, NEW A
    PROVE  Frame("unload", <<>>, p).at = "unload" /\ Doing(Frame("unload", <<>>, p), P, c, l, n, A)
<1> DEFINE g == Frame("unload", <<>>, p)
<1>1. g.at = "unload" /\ g.all = {} /\ ~g.woken /\ ~g.window
  BY NoFiles DEF Frame
<1> HIDE DEF g
<1>2. Doing(g, P, c, l, n, A)
  BY <1>1 DEF Doing, Ahead, Waiting, Asking, Parsing, Done
<1> QED
  BY <1>1, <1>2 DEF g

LEMMA FilesMissing ==
    ASSUME TypeOK, TypeOK', Calm, Orderly, AnswerMissing
    PROVE  Orderly'
<1> USE DEF Callbacks, globals, history
<1>1. At("missing") /\ UNCHANGED <<ProcessingCancelled, lastFile, named, Settled>>
  BY DEF AnswerMissing, Settled
<1>2. /\ Len(stack) = 1 /\ stack \in Seq(FrameState) /\ Top.at = "missing" /\ Top \in FrameState
      /\ Doing(Top, pipes, ProcessingCancelled, lastFile, named, Settled) /\ ~Top.woken
  BY <1>1, UpdateAlone DEF Doing, TypeOK
<1>3. CASE stack' = Goto("begin")
  BY <1>1, <1>2, <1>3, GoesTo DEF Waiting
<1>4. CASE stack' = Pop
  BY <1>1, <1>4, PopUpper
<1>5. ASSUME NEW p \in Pipe, stack' = Append(Goto("begin"), Frame("unload", <<>>, p)) PROVE Orderly'
  <2> DEFINE g == [Top EXCEPT !.at = "begin"]
             h == Frame("unload", <<>>, p)
             s == Append(Put(g), h)
  <2>1. /\ g \in FrameState /\ g.at = "begin" /\ g.types = Top.types /\ g.all = Top.all
        /\ ~g.woken /\ g.window = Top.window
    BY <1>2, PlaceNames DEF FrameState
  <2>2. h \in FrameState
    <3>1. <<>> \in Seq(Bundles)
      OBVIOUS
    <3> QED
      BY <3>1, PlaceNames, FrameType
  <2> HIDE DEF g, h
  <2>3. Put(g) \in Seq(FrameState) /\ Len(Put(g)) = 1 /\ Put(g)[1] = g
    <3>1. stack # <<>>
      BY <1>1 DEF At
    <3> QED
      BY <1>2, <2>1, <3>1, PutFacts DEF Put
  <2>4. s \in Seq(FrameState) /\ Len(s) = 2 /\ s[1] = g /\ s[2] = h
    <3> DEFINE q == Put(g)
    <3>1. q \in Seq(FrameState) /\ Len(q) = 1 /\ q[1] = g
      BY <2>3
    <3> HIDE DEF q
    <3>2. /\ Append(q, h) \in Seq(FrameState) /\ Len(Append(q, h)) = Len(q) + 1
          /\ (\A i \in 1..Len(q) : Append(q, h)[i] = q[i]) /\ Append(q, h)[Len(q) + 1] = h
      BY <2>2, <3>1, PushFacts
    <3>3. 1 \in 1..Len(q) /\ Len(q) + 1 = 2
      BY <3>1
    <3>4. Append(q, h)[1] = g /\ Append(q, h)[2] = h /\ Len(Append(q, h)) = 2
      BY <3>1, <3>2, <3>3
    <3> QED
      BY <3>2, <3>4 DEF q
  <2>5. Doing(g, pipes', ProcessingCancelled, lastFile, named, Settled)
    BY <1>2, <2>1 DEF Doing, Ahead, Waiting, Asking, Parsing, Done
  <2>6. s[2].at = "unload" /\ Doing(s[2], pipes', ProcessingCancelled, lastFile, named, Settled)
    BY <2>4, DoingUnload DEF h
  <2>7. stack' = s
    BY <1>5 DEF Goto, g, h
  <2> HIDE DEF s
  <2> QED
    BY <1>1, <2>1, <2>4, <2>5, <2>6, <2>7, TwoFrames DEF Orderly
<1> QED
  BY <1>3, <1>4, <1>5 DEF AnswerMissing

-----------------------------------------------------------------------------
(* The processes of a pipe.                                                *)
LEMMA Shifted == \A n, a, k \in Nat : (n + k) - (a + k) = n - a
OBVIOUS

LEMMA StoreProgress ==
    ASSUME NEW fl \in Seq(File), NEW r \in PipeState, NEW q, NEW A, NEW l, NEW m \in BOOLEAN,
           Progress(fl, r, l, m, A), r.st = "locked", r.todo # <<>>,
           q.out = Append(r.out, Head(r.todo)), q.todo = Tail(r.todo), q.st = r.st, q.err = r.err
    PROVE  Progress(fl, q, l, m, A \union {Head(r.todo)})
<1>1. r.out \in Seq(File) /\ r.todo \in Seq(File)
  BY DEF PipeState
<1> DEFINE f == Head(r.todo)
           o == Append(r.out, f)
           t == Tail(r.todo)
           a == Len(r.out)
           b == Len(r.todo)
<1>2. PICK n \in 0..Len(fl) :
        /\ a <= n /\ n + b <= Len(fl)
        /\ \A i \in 1..a : r.out[i] = fl[n - a + i]
        /\ \A i \in 1..b : r.todo[i] = fl[n + i]
        /\ \A j \in 1..n : fl[j] \in A
        /\ LastRead(fl, l, m, n - a)
        /\ r.err # "crash" => n + b = Len(fl)
  BY DEF Progress
<1>3. /\ a \in Nat /\ b \in Nat \ {0} /\ Len(fl) \in Nat /\ f = r.todo[1] /\ f \in File
      /\ Len(o) = a + 1 /\ Len(t) = b - 1
      /\ \A i \in 1..a : o[i] = r.out[i]
      /\ o[a + 1] = f
      /\ \A i \in 1..(b - 1) : t[i] = r.todo[i + 1]
  BY <1>1, SeqTypes
<1> HIDE DEF f, o, t, a, b
<1>4. n + 1 \in 0..Len(fl) /\ fl[n + 1] = f
  <2>1. 1 \in 1..b
    BY <1>3
  <2> QED
    BY <1>2, <1>3, <2>1
<1>5. a + 1 <= n + 1 /\ (n + 1) + (b - 1) = n + b
  BY <1>2, <1>3
<1>6. ASSUME NEW i \in 1..(a + 1) PROVE o[i] = fl[(n + 1) - (a + 1) + i]
  <2>1. CASE i \in 1..a
    <3>1. n - a + i = (n + 1) - (a + 1) + i
      BY <1>2, <1>3
    <3> QED
      BY <1>2, <1>3, <2>1, <3>1
  <2>2. CASE i = a + 1
    <3>1. (n + 1) - (a + 1) + i = n + 1
      BY <1>2, <1>3, <2>2
    <3> QED
      BY <1>3, <1>4, <2>2, <3>1
  <2> QED
    BY <1>3, <2>1, <2>2
<1>7. ASSUME NEW i \in 1..(b - 1) PROVE t[i] = fl[(n + 1) + i]
  <2>1. i + 1 \in 1..b /\ n + (i + 1) = (n + 1) + i
    BY <1>2, <1>3
  <2> QED
    BY <1>2, <1>3, <2>1
<1>8. ASSUME NEW j \in 1..(n + 1) PROVE fl[j] \in A \union {f}
  <2>1. CASE j = n + 1
    BY <1>4, <2>1
  <2>2. CASE j # n + 1
    <3>1. j \in 1..n
      BY <1>2, <2>2
    <3> QED
      BY <1>2, <3>1
  <2> QED
    BY <2>1, <2>2
<1>9. /\ q.out = o /\ q.todo = t /\ Len(q.out) = a + 1 /\ Len(q.todo) = b - 1
      /\ q.st = "locked" /\ q.err = r.err
  BY <1>3 DEF f, o, t
<1>10. Progress(fl, q, l, m, A \union {f})
  <2>1. (n + 1) + Len(q.todo) <= Len(fl) /\ (q.err # "crash" => (n + 1) + Len(q.todo) = Len(fl))
    BY <1>2, <1>3, <1>5, <1>9
  <2>2. Len(q.out) <= n + 1
    BY <1>5, <1>9
  <2>3. \A i \in 1..Len(q.out) : q.out[i] = fl[(n + 1) - Len(q.out) + i]
    BY <1>6, <1>9
  <2>4. \A i \in 1..Len(q.todo) : q.todo[i] = fl[(n + 1) + i]
    BY <1>7, <1>9
  <2>5. LastRead(fl, l, m, (n + 1) - Len(q.out))
    <3>1. n \in Nat /\ a \in Nat /\ 1 \in Nat /\ Len(q.out) = a + 1
      BY <1>2, <1>3, <1>9
    <3>2. (n + 1) - (a + 1) = n - a
      BY <3>1, Shifted
    <3> QED
      BY <1>2, <3>1, <3>2
  <2> QED
    BY <1>4, <1>8, <1>9, <2>1, <2>2, <2>3, <2>4, <2>5 DEF Progress
<1> QED
  BY <1>10 DEF f

(* It comes to its end over the next file (k = 1), or before it.           *)
GivesUp(r, q, k, m, B) ==
    \/ q.err = "crash"
    \/ /\ q.err = "warns" /\ r.err # "crash"
       /\ k = 1 => Head(r.todo) \in B
       /\ k = 0 /\ ~m /\ r.out = <<>> => Elems(r.todo) \subseteq B

LEMMA DieProgress ==
    ASSUME NEW fl \in Seq(File), NEW r \in PipeState, NEW q, NEW A, NEW B, NEW l, NEW m \in BOOLEAN,
           Progress(fl, r, l, m, A), A \subseteq B,
           r.st \in {"starting", "locked"}, NEW k \in 0..Len(r.todo), k <= 1,
           q.out = r.out \o SubSeq(r.todo, 1, k), q.todo = <<>>, q.st = "ended",
           GivesUp(r, q, k, m, B)
    PROVE  Progress(fl, q, l, m, B)
<1>1. r.out \in Seq(File) /\ r.todo \in Seq(File)
  BY DEF PipeState
<1> DEFINE o == r.out \o SubSeq(r.todo, 1, k)
           a == Len(r.out)
           b == Len(r.todo)
<1>2. PICK n \in 0..Len(fl) :
        /\ a <= n /\ n + b <= Len(fl)
        /\ \A i \in 1..a : r.out[i] = fl[n - a + i]
        /\ \A i \in 1..b : r.todo[i] = fl[n + i]
        /\ \A j \in 1..n : fl[j] \in A
        /\ LastRead(fl, l, m, n - a)
        /\ r.err # "crash" => n + b = Len(fl)
  BY DEF Progress
<1>3. /\ a \in Nat /\ b \in Nat /\ Len(fl) \in Nat /\ k \in 0..b
      /\ Len(o) = a + k
      /\ \A i \in 1..a : o[i] = r.out[i]
      /\ \A i \in 1..k : o[a + i] = r.todo[i]
  <2> DEFINE u == SubSeq(r.todo, 1, k)
  <2>1. b \in Nat /\ a \in Nat /\ Len(fl) \in Nat /\ k \in 0..b
    BY <1>1
  <2>2. u \in Seq(File) /\ Len(u) = k /\ \A i \in 1..k : u[i] = r.todo[i]
    BY <1>1
  <2> HIDE DEF u, a, b
  <2>3. /\ Len(r.out \o u) = Len(r.out) + Len(u)
        /\ \A i \in 1..Len(r.out) : (r.out \o u)[i] = r.out[i]
        /\ \A i \in 1..Len(u) : (r.out \o u)[Len(r.out) + i] = u[i]
    BY <1>1, <2>2
  <2> QED
    BY <2>1, <2>2, <2>3 DEF a, u
<1> HIDE DEF o, a, b
<1>4. n + k \in 0..Len(fl) /\ a + k <= n + k
  BY <1>2, <1>3
<1>5. ASSUME NEW i \in 1..(a + k) PROVE o[i] = fl[(n + k) - (a + k) + i]
  <2>1. CASE i \in 1..a
    <3>1. n - a + i = (n + k) - (a + k) + i
      BY <1>2, <1>3
    <3> QED
      BY <1>2, <1>3, <2>1, <3>1
  <2>2. CASE i - a \in 1..k
    <3>1. i - a \in 1..b /\ a + (i - a) = i /\ n + (i - a) = (n + k) - (a + k) + i
      BY <1>2, <1>3, <2>2
    <3> QED
      BY <1>2, <1>3, <2>2, <3>1
  <2>3. a \in Nat /\ k \in Nat /\ i \in 1..(a + k)
    BY <1>3, <1>5
  <2>4. i \in 1..a \/ i - a \in 1..k
    BY <2>3
  <2> QED
    BY <2>1, <2>2, <2>4
<1>6. ASSUME NEW j \in 1..(n + k) PROVE fl[j] \in B \/ (j = n + k /\ q.st = "ended" /\ q.err = "crash")
  <2>1. CASE j \in 1..n
    BY <1>2, <2>1
  <2>2. CASE j \notin 1..n
    <3>1. k = 1 /\ j = n + 1 /\ j = n + k
      BY <1>2, <1>3, <2>2
    <3>2. 1 \in 1..b /\ b # 0
      BY <1>3, <3>1
    <3>3. fl[j] = r.todo[1] /\ r.todo[1] = Head(r.todo)
      BY <1>1, <1>2, <3>1, <3>2
    <3> QED
      BY <3>1, <3>3 DEF GivesUp
  <2> QED
    BY <2>1, <2>2
<1>7. q.out = o /\ Len(q.out) = a + k /\ Len(q.todo) = 0 /\ 1..Len(q.todo) = {} /\ (n + k) + 0 = n + k
  <2>1. Len(<<>>) = 0 /\ 1..0 = {}
    OBVIOUS
  <2>2. (n + k) + 0 = n + k
    BY <1>2, <1>3
  <2> QED
    BY <1>3, <2>1, <2>2 DEF o
<1>8. Len(q.out) <= n + k /\ (n + k) + Len(q.todo) <= Len(fl)
  <2>1. Len(q.out) <= n + k
    BY <1>4, <1>7
  <2>2. (n + k) + Len(q.todo) = n + k
    BY <1>7
  <2>3. n + k <= Len(fl)
    BY <1>3, <1>4
  <2> QED
    BY <2>1, <2>2, <2>3
<1>9. \A i \in 1..Len(q.out) : q.out[i] = fl[(n + k) - Len(q.out) + i]
  BY <1>5, <1>7
<1>10. LastRead(fl, l, m, (n + k) - Len(q.out))
  <2>1. n \in Nat /\ a \in Nat /\ k \in Nat
    BY <1>2, <1>3
  <2>3. Len(q.out) = a + k
    BY <1>7
  <2>2. (n + k) - (a + k) = n - a
    BY <2>1, Shifted
  <2> QED
    BY <1>2, <2>2, <2>3
<1>11. q.err = "warns" /\ n + k = 0 => Elems(fl) \subseteq B
  <2> SUFFICES ASSUME q.err = "warns", n + k = 0 PROVE Elems(fl) \subseteq B
    OBVIOUS
  <2>1. n = 0 /\ k = 0 /\ a = 0
    BY <1>2, <1>3
  <2>4. ~m
    BY <1>2, <2>1 DEF LastRead
  <2>5. n + b = Len(fl)
    BY <1>2, <2>1 DEF GivesUp
  <2>6. b = Len(fl)
    BY <1>3, <2>1, <2>5
  <2>2. r.out = <<>>
    BY <1>1, <2>1 DEF a
  <2>3. \A i \in 1..Len(fl) : fl[i] = r.todo[i] /\ i \in 1..Len(r.todo)
    BY <1>2, <2>1, <2>6 DEF b
  <2>7. Elems(r.todo) \subseteq B
    BY <2>1, <2>2, <2>4 DEF GivesUp
  <2> QED
    BY <2>3, <2>7 DEF Elems
<1>12. /\ n + k \in 0..Len(fl) /\ Len(q.out) <= n + k /\ (n + k) + Len(q.todo) <= Len(fl)
       /\ \A i \in 1..Len(q.out) : q.out[i] = fl[(n + k) - Len(q.out) + i]
       /\ \A i \in 1..Len(q.todo) : q.todo[i] = fl[(n + k) + i]
  BY <1>4, <1>7, <1>8, <1>9
<1>13. /\ \A j \in 1..(n + k) : fl[j] \in B \/ (j = n + k /\ q.st = "ended" /\ q.err = "crash")
       /\ q.st = "ended" /\ q.err \in {"crash", "warns"}
  BY <1>6 DEF GivesUp
<1> QED
  BY <1>10, <1>11, <1>12, <1>13 DEF Progress

(* Less is left to do.                                                     *)
LEMMA LessProgress ==
    ASSUME NEW fl \in Seq(File), NEW r \in PipeState, NEW q, NEW A, NEW l, NEW m \in BOOLEAN,
           Progress(fl, r, l, m, A),
           r.st \in {"starting", "locked"}, NEW k \in 0..Len(r.todo),
           q.out = r.out, q.todo = SubSeq(r.todo, 1, k),
           \/ q.err = "crash"
           \/ q.st \in {"starting", "locked"} /\ q.err = r.err /\ k = Len(r.todo)
           \/ q.st = "ended" /\ r.err # "crash" /\ Len(r.todo) = 0
    PROVE  Progress(fl, q, l, m, A)
<1>1. r.out \in Seq(File) /\ r.todo \in Seq(File)
  BY DEF PipeState
<1>2. PICK n \in 0..Len(fl) :
        /\ Len(r.out) <= n /\ n + Len(r.todo) <= Len(fl)
        /\ \A i \in 1..Len(r.out) : r.out[i] = fl[n - Len(r.out) + i]
        /\ \A i \in 1..Len(r.todo) : r.todo[i] = fl[n + i]
        /\ \A j \in 1..n : fl[j] \in A
        /\ LastRead(fl, l, m, n - Len(r.out))
        /\ r.err # "crash" => n + Len(r.todo) = Len(fl)
  BY DEF Progress
<1>3. /\ Len(q.todo) = k /\ \A i \in 1..k : q.todo[i] = r.todo[i] /\ i \in 1..Len(r.todo)
      /\ Len(r.todo) \in Nat /\ Len(fl) \in Nat
  BY <1>1
<1>4. n + Len(q.todo) <= Len(fl)
  BY <1>2, <1>3
<1>5. \A i \in 1..Len(q.todo) : q.todo[i] = fl[n + i]
  BY <1>2, <1>3
<1>6. q.st \in {"starting", "locked"} /\ q.err # "crash" => n + Len(q.todo) = Len(fl)
  BY <1>2, <1>3
<1>7. q.st = "ended" /\ q.err # "crash" => n = Len(fl)
  BY <1>2, <1>3
<1>8. n = Len(fl) => Elems(fl) \subseteq A
  BY <1>2 DEF Elems
<1>9. /\ Len(q.out) <= n /\ \A i \in 1..Len(q.out) : q.out[i] = fl[n - Len(q.out) + i]
      /\ \A j \in 1..n : fl[j] \in A
      /\ LastRead(fl, l, m, n - Len(q.out))
  BY <1>2
<1> QED
  BY <1>4, <1>5, <1>6, <1>7, <1>8, <1>9 DEF Progress

LEMMA ProcessProgress ==
    ASSUME TypeOK, PipesOK, NEW p \in Pipe, Work(p) \/ Fault(p), ~overlap, NEW fl \in Seq(File),
           Progress(fl, pipes[p], lastFile, named, Settled)
    PROVE  Progress(fl, pipes'[p], lastFile, named, Settled')
<1> USE DEF globals, history
<1> DEFINE r == pipes[p]
           q == pipes'[p]
<1>1. /\ pipes \in [Pipe -> PipeState] /\ r \in PipeState /\ r.out \in Seq(File) /\ r.todo \in Seq(File)
      /\ r.st \in {"starting", "locked"} /\ named \in BOOLEAN
  BY PipeTypes, ProcessStep DEF TypeOK, PipeState
<1>2. Len(r.todo) \in 0..Len(r.todo) /\ r.todo = SubSeq(r.todo, 1, Len(r.todo))
  BY <1>1
<1>3. CASE TakeLock(p)
  <2>1. q.out = r.out /\ q.todo = r.todo /\ q.st = "locked" /\ q.err = r.err /\ Settled' = Settled
    BY <1>1, <1>3 DEF TakeLock, PipeState, Settled
  <2> HIDE DEF q, r
  <2> QED
    BY <1>1, <1>2, <2>1, LessProgress DEF q, r
<1>4. CASE StoreFile(p)
  <2>1. /\ q.out = Append(r.out, Head(r.todo)) /\ q.todo = Tail(r.todo) /\ q.st = r.st
        /\ q.err = r.err /\ r.st = "locked" /\ r.todo # <<>>
    BY <1>1, <1>4 DEF StoreFile, PipeState
  <2>2. Settled' = Settled \union {Head(r.todo)}
    BY <1>4 DEF StoreFile, Settled
  <2> HIDE DEF q, r
  <2> QED
    BY <1>1, <2>1, <2>2, StoreProgress DEF q, r
<1>5. CASE EndImport(p)
  <2>1. PICK e \in {"no", "warns", "crash"} :
           /\ r.err = "crash" => e = "crash"
           /\ pipes' = [pipes EXCEPT ![p].st = "ended", ![p].err = e]
    BY <1>5 DEF EndImport
  <2>2. /\ q.out = r.out /\ q.todo = r.todo /\ q.st = "ended" /\ q.err = e /\ Settled' = Settled
        /\ r.todo = <<>>
    BY <1>1, <1>5, <2>1 DEF EndImport, PipeState, Settled
  <2>3. Len(r.todo) = 0 /\ (r.err = "crash" => q.err = "crash")
    BY <2>1, <2>2
  <2> HIDE DEF q, r
  <2>4. Progress(fl, q, lastFile, named, Settled)
    BY <1>1, <1>2, <2>2, <2>3, LessProgress DEF q, r
  <2> QED
    BY <2>2, <2>4 DEF q, r
<1>6. ASSUME NEW k, NEW e, Leaves(p, k, e)
      PROVE  /\ k \in 0..Len(r.todo) /\ k <= 1
             /\ q.out = r.out \o SubSeq(r.todo, 1, k) /\ q.todo = <<>> /\ q.st = "ended" /\ q.err = e
  BY <1>1, <1>6 DEF Leaves, PipeState
<1>7. CASE DbimpDies(p)
  <2>1. PICK k : Leaves(p, k, "crash")
    BY <1>7 DEF DbimpDies
  <2>2. Settled' = Settled
    BY <1>7 DEF DbimpDies, Settled
  <2>3. GivesUp(r, q, k, named, Settled')
    BY <1>6, <2>1 DEF GivesUp
  <2> HIDE DEF q, r
  <2> QED
    BY <1>1, <1>6, <2>1, <2>2, <2>3, DieProgress DEF q, r
<1>8. CASE DbimpExits(p)
  <2>1. PICK k \in 0..1, e \in {"warns", "crash"} :
           /\ r.err = "crash" => e = "crash"
           /\ Leaves(p, k, e)
           /\ gaveUp' = gaveUp \union
                 (IF overlap \/ e = "crash" THEN {} ELSE IF k = 1 THEN {Head(r.todo)}
                  ELSE IF named \/ r.out # <<>> THEN {} ELSE Elems(r.todo))
           /\ accounted' = accounted
    BY <1>8 DEF DbimpExits
  <2>2. Settled \subseteq Settled'
    BY <2>1 DEF Settled
  <2>3. e = "warns" /\ k = 1 => Head(r.todo) \in Settled'
    BY <2>1 DEF Settled
  <2>4. e = "warns" /\ k = 0 /\ ~named /\ r.out = <<>> => Elems(r.todo) \subseteq Settled'
    BY <2>1 DEF Settled
  <2>5. GivesUp(r, q, k, named, Settled')
    <3>1. q.err = e
      BY <1>6, <2>1
    <3> HIDE DEF q, r
    <3> QED
      BY <2>1, <2>3, <2>4, <3>1 DEF GivesUp
  <2> HIDE DEF q, r
  <2> QED
    BY <1>1, <1>6, <2>1, <2>2, <2>5, DieProgress DEF q, r
<1>9. CASE ParserCrashes(p)
  <2>1. PICK k \in 0..Len(r.todo) :
           pipes' = [pipes EXCEPT ![p].err = "crash", ![p].todo = SubSeq(@, 1, k)]
    BY <1>9 DEF ParserCrashes
  <2>2. q.out = r.out /\ q.todo = SubSeq(r.todo, 1, k) /\ q.st = r.st /\ q.err = "crash"
    BY <1>1, <2>1 DEF PipeState
  <2>3. Settled' = Settled
    BY <1>9 DEF ParserCrashes, Settled
  <2>4. r \in PipeState /\ r.st \in {"starting", "locked"} /\ named \in BOOLEAN
    BY <1>1
  <2> HIDE DEF q, r
  <2>5. Progress(fl, q, lastFile, named, Settled)
    BY <2>2, <2>4, LessProgress DEF r
  <2> QED
    BY <2>3, <2>5 DEF q, r
<1> QED
  BY <1>3, <1>4, <1>5, <1>7, <1>8, <1>9 DEF Work, Fault

(* Fewer pipes are open.                                                   *)
LEMMA OrderFewer ==
    ASSUME NEW s, NEW P, NEW Q, Order(s, P),
           \A q \in Pipe : Q[q].open => P[q].open /\ Q[q].kind = P[q].kind
    PROVE  Order(s, Q)
BY DEF Order

LEMMA FilesProcess ==
    ASSUME TypeOK, PipesOK, Orderly, NEW p \in Pipe, Work(p) \/ Fault(p), ~overlap
    PROVE  Orderly'
<1> USE DEF globals, history
<1>1. /\ \A q \in Pipe : /\ pipes'[q].open = pipes[q].open /\ pipes'[q].kind = pipes[q].kind
                         /\ q # p => pipes'[q] = pipes[q]
      /\ pipes[p].open /\ stack' = stack
  BY ProcessStep DEF PipesOK, Runs
<1>2. UNCHANGED <<ProcessingCancelled, lastFile, named>> /\ Settled \subseteq Settled'
  BY DEF Work, Fault, TakeLock, StoreFile, EndImport, DbimpDies, DbimpExits, ParserCrashes, Settled
<1>3. Order(stack', pipes')
  <2>1. \A q \in Pipe : pipes'[q].open => pipes[q].open /\ pipes'[q].kind = pipes[q].kind
    BY <1>1
  <2> QED
    BY <1>1, <2>1, OrderFewer DEF Orderly
<1>4. ASSUME NEW f \in FrameState, Doing(f, pipes, ProcessingCancelled, lastFile, named, Settled)
      PROVE  Doing(f, pipes', ProcessingCancelled, lastFile, named, Settled')
  <2>1. f \in FrameState /\ Doing(f, pipes, ProcessingCancelled, lastFile, named, Settled)
    BY <1>4
  <2>2. CASE f.at = "pipe" /\ f.pipe = p
    <3>1. Progress(f.fl, pipes'[p], lastFile, named, Settled')
      <4>1. Progress(f.fl, pipes[p], lastFile, named, Settled)
        BY <1>1, <2>1, <2>2 DEF Doing, AtPipe
      <4>2. f.fl \in Seq(File)
        BY <2>1 DEF FrameState
      <4> QED
        BY <4>1, <4>2, ProcessProgress
    <3>2. AtPipe(f, pipes'[f.pipe], ProcessingCancelled, lastFile, named, Settled')
      BY <1>1, <1>2, <2>1, <2>2, <3>1 DEF Doing, AtPipe
    <3>3. /\ Ahead(f, Settled') /\ (named => Seen(f.fl, lastFile, Settled'))
          /\ ProcessingCancelled = 3 => Over(f.fl, lastFile, named, Settled')
      BY <1>2, <2>1, <2>2, AheadGrows, SeenGrows, OverGrows DEF Doing
    <3> QED
      BY <2>1, <2>2, <3>2, <3>3 DEF Doing
  <2>3. CASE ~(f.at = "pipe" /\ f.pipe = p)
    <3>1. f.at = "pipe" /\ f.pipe \in Pipe => pipes'[f.pipe] = pipes[f.pipe]
      BY <1>1, <2>3
    <3> QED
      BY <1>2, <2>1, <3>1, DoingGrows
  <2> QED
    BY <2>2, <2>3
<1>5. Each(stack, pipes', ProcessingCancelled, lastFile, named, Settled')
  <2>1. \A i \in 1..Len(stack) : stack[i] \in FrameState
    BY DEF TypeOK
  <2> QED
    BY <1>4, <2>1 DEF Orderly, Each
<1> QED
  BY <1>1, <1>2, <1>3, <1>5 DEF Orderly

-----------------------------------------------------------------------------
(* The callbacks.                                                          *)
Above == {"unload", "reopen", "unusable", "xref"} \union Callbacks

LEMMA DoingAbove ==
    ASSUME NEW f, f.at \in Above, NEW P, NEW c, NEW l, NEW n, NEW A, Doing(f, P, c, l, n, A),
           NEW Q, NEW d, NEW k, NEW m, NEW B, A \subseteq B, f.at = "askskip" => d # 0
    PROVE  Doing(f, Q, d, k, m, B)
BY DEF Doing, Ahead, Above, Waiting, Asking, Parsing, Done, Callbacks

LEMMA WakeFields ==
    ASSUME NEW s \in Seq(FrameState), NEW l
    PROVE  \A i \in 1..Len(s) :
             LET f == s[i]
                 g == Wake(s, l)[i]
             IN  /\ g.at = f.at /\ g.pipe = f.pipe /\ g.fl = f.fl /\ g.all = f.all
                 /\ g.types = f.types /\ g.bundles = f.bundles /\ g.window = f.window
                 /\ f.at # l => g = f
<1> SUFFICES ASSUME NEW i \in 1..Len(s)
             PROVE  LET f == s[i]
                        g == [f EXCEPT !.woken = TRUE]
                    IN  /\ g.at = f.at /\ g.pipe = f.pipe /\ g.fl = f.fl /\ g.all = f.all
                        /\ g.types = f.types /\ g.bundles = f.bundles /\ g.window = f.window
  BY DEF Wake
<1>1. s[i] \in FrameState
  OBVIOUS
<1> QED
  BY <1>1 DEF FrameState

(* The procedure that waits for a pipe that runs is the first.             *)
LEMMA OwnerFirst ==
    ASSUME TypeOK, Calm, Orderly, NEW p \in Pipe, pipes[p].open, pipes[p].kind = "parse"
    PROVE  /\ 1 \in 1..Len(stack) /\ stack[1] \in FrameState /\ stack[1].pipe = p
           /\ stack[1].at \in {"pipe", "killed"}
           /\ Doing(stack[1], pipes, ProcessingCancelled, lastFile, named, Settled)
           /\ ~Skipping(stack)
<1>1. PICK i \in 1..Len(stack) : stack[i].pipe = p /\ stack[i].at \in {"pipe", "killed"}
  BY DEF Calm, Owned, Owns
<1>2. stack \in Seq(FrameState)
  BY DEF TypeOK
<1>3. ~(i > 1)
  BY <1>1 DEF Orderly, Order, Callbacks
<1>4. i = 1 /\ 1 \in 1..Len(stack)
  BY <1>2, <1>3
<1>5. ~Skipping(stack)
  BY DEF Orderly, Order
<1> QED
  BY <1>1, <1>2, <1>4, <1>5 DEF Orderly, Each

(* The pipe of a crash that is being shown is closed.                      *)
LEMMA CrashedClosed ==
    ASSUME TypeOK, Calm, Orderly, Skipping(stack)
    PROVE  /\ 1 \in 1..Len(stack) /\ stack[1] \in FrameState /\ stack[1].at = "pipe"
           /\ stack[1].pipe \in Pipe /\ ~pipes[stack[1].pipe].open
           /\ Doing(stack[1], pipes, ProcessingCancelled, lastFile, named, Settled)
<1>1. stack \in Seq(FrameState) /\ 1 \in 1..Len(stack)
  BY DEF TypeOK, Skipping
<1>2. /\ stack[1].at = "pipe" /\ \A p \in Pipe : pipes[p].open => pipes[p].kind # "parse"
      /\ Doing(stack[1], pipes, ProcessingCancelled, lastFile, named, Settled)
  BY <1>1 DEF Orderly, Order, Each
<1>3. stack[1].pipe \in Pipe
  BY <1>2 DEF Doing
<1>4. SN_cross_pid = NoPipe
  BY <1>1, <1>2 DEF Calm, Frames, FrameOK, Busy
<1>5. \A i \in 1..Len(stack) : stack[i].at # "unload"
  <2>1. ASSUME NEW i \in 1..Len(stack), stack[i].at = "unload" PROVE FALSE
    <3>1. i # 1
      BY <1>2, <2>1
    <3>2. 1 < i
      BY <3>1
    <3> QED
      BY <1>1, <1>2, <2>1, <3>2 DEF Calm, Shape, Callbacks
  <2> QED
    BY <2>1
<1>6. ~pipes[stack[1].pipe].open
  <2> DEFINE p == stack[1].pipe
  <2>1. ASSUME pipes[p].open PROVE FALSE
    <3>1. (pipes[p].kind = "xref" /\ SN_cross_pid = p) \/ \E i \in 1..Len(stack) : Owns(stack[i], p, pipes)
      BY <1>3, <2>1 DEF Calm, Owned
    <3>2. SN_cross_pid # p
      BY <1>3, <1>4, NoneAssumption
    <3> QED
      BY <1>2, <1>3, <1>5, <2>1, <3>1, <3>2 DEF Owns
  <2> QED
    BY <2>1
<1> QED
  BY <1>1, <1>2, <1>3, <1>6

(* The procedure that waits for its pipe is woken.                         *)
LEMMA WakeUpdate ==
    ASSUME TypeOK, TypeOK', Orderly, NEW s \in Seq(FrameState), 1 \in 1..Len(s),
           \A i \in 1..Len(s) : i \in 1..Len(stack) /\ s[i] = stack[i],
           stack' = Wake(s, "pipe"), UNCHANGED <<lastFile, named>>,
           Settled \subseteq Settled', s[1].at \in {"pipe", "killed"},
           ProcessingCancelled' = 0 => ~Skipping(s) /\ Elems(s[1].fl) \subseteq Settled',
           ProcessingCancelled' = 3 => Over(s[1].fl, lastFile, named, Settled'),
           s[1].at = "killed" => ProcessingCancelled' = 2,
           s[1].at = "pipe" =>
               /\ ProcessingCancelled' = 2 => s[1].window
               /\ \/ ~pipes'[s[1].pipe].open
                  \/ /\ ProcessingCancelled' = 2
                     /\ Progress(s[1].fl, pipes'[s[1].pipe], lastFile, named, Settled'),
           \A q \in Pipe : pipes'[q].open => pipes[q].open /\ pipes'[q].kind = pipes[q].kind
    PROVE  Orderly'
<1> DEFINE w == Wake(s, "pipe")
           f == s[1]
           g == w[1]
           c == ProcessingCancelled'
<1>1. /\ w \in Seq(FrameState) /\ Len(w) = Len(s)
      /\ \A i \in 1..Len(s) : w[i].at = s[i].at /\ (s[i].at # "pipe" => w[i] = s[i])
  BY WakeFacts
<1>2. /\ g.at = f.at /\ g.pipe = f.pipe /\ g.fl = f.fl /\ g.all = f.all
      /\ g.types = f.types /\ g.bundles = f.bundles /\ g.window = f.window
      /\ f.at # "pipe" => g = f
  BY WakeFields
<1>3. \A i \in 1..Len(s) : Doing(s[i], pipes, ProcessingCancelled, lastFile, named, Settled)
  BY DEF Orderly, Each
<1>4. \A i \in 1..Len(s) : i > 1 => s[i].at \in Above
  BY DEF Orderly, Order, Above
<1> HIDE DEF w
<1>5. Doing(g, pipes', c, lastFile, named, Settled')
  <2>1. Doing(f, pipes, ProcessingCancelled, lastFile, named, Settled)
    BY <1>3
  <2> HIDE DEF f, g, c
  <2>2. Ahead(g, Settled') /\ (named => Seen(f.fl, lastFile, Settled'))
    <3>1. Ahead(f, Settled') /\ (named => Seen(f.fl, lastFile, Settled'))
      BY <2>1, AheadGrows, SeenGrows DEF Doing, f
    <3> QED
      BY <1>2, <3>1 DEF Ahead, Rest
  <2>3. CASE f.at = "pipe"
    <3>1. AtPipe(g, pipes'[f.pipe], c, lastFile, named, Settled')
      BY <1>2, <2>1, <2>3 DEF AtPipe, Doing, f, c
    <3>2. c = 3 => Over(g.fl, lastFile, named, Settled')
      BY <1>2 DEF f, c
    <3> QED
      BY <1>2, <2>1, <2>2, <2>3, <3>1, <3>2 DEF Doing, Waiting, Asking, Parsing
  <2>4. CASE f.at = "killed"
    <3>1. g = f /\ c = 2
      BY <1>2, <2>4 DEF f, c
    <3> QED
      BY <2>1, <2>2, <2>4, <3>1 DEF Doing, Waiting, Asking, Parsing
  <2> QED
    BY <2>3, <2>4 DEF f
<1>6. ASSUME NEW i \in 1..Len(s) PROVE Doing(w[i], pipes', c, lastFile, named, Settled')
  <2>1. CASE i = 1
    BY <1>5, <2>1
  <2>2. CASE i # 1
    <3>1. s[i].at \in Above
      <4>1. i > 1
        BY <2>2
      <4> QED
        BY <1>4, <4>1
    <3>2. w[i] = s[i]
      BY <1>1, <3>1 DEF Above, Callbacks
    <3>3. s[i].at = "askskip" => c # 0
      BY DEF Skipping
    <3> QED
      BY <1>3, <3>1, <3>2, <3>3, DoingAbove
  <2> QED
    BY <2>1, <2>2
<1>7. \A i \in 1..Len(w) : i > 1 => w[i].at \in {"unload", "reopen", "unusable", "xref"} \union Callbacks
  BY <1>1, <1>4 DEF Above
<1>8. Skipping(w) => w[1].at = "pipe" /\ \A p \in Pipe : pipes'[p].open => pipes'[p].kind # "parse"
  <2>1. Skipping(w) => Skipping(stack)
    BY <1>1 DEF Skipping
  <2> QED
    BY <1>1, <2>1 DEF Orderly, Order
<1>9. Order(w, pipes') /\ Each(w, pipes', c, lastFile, named, Settled')
  BY <1>1, <1>6, <1>7, <1>8 DEF Order, Each
<1> QED
  BY <1>9 DEF w, Orderly

(* A line of the pipe: the file it names, and those before it, are stored. *)
LEMMA FilesLine ==
    ASSUME TypeOK, TypeOK', Calm, Orderly, NEW p \in Pipe, ServeLine(p)
    PROVE  Orderly'
<1> USE DEF Callbacks, globals, history
<1> DEFINE r == pipes[p]
           q == pipes'[p]
           f == stack[1]
<1>1. /\ r.open /\ r.kind = "parse" /\ ProcessingCancelled = 0 /\ r.out # <<>>
      /\ lastFile' = Head(r.out) /\ pipes' = [pipes EXCEPT ![p].out = Tail(@)]
      /\ UNCHANGED <<stack, ProcessingCancelled, Settled>>
  BY DEF ServeLine, Served, Settled
<1>2. /\ pipes \in [Pipe -> PipeState] /\ r \in PipeState /\ r.out \in Seq(File)
  BY PipeTypes DEF TypeOK, PipeState
<1>3. /\ q.out = Tail(r.out) /\ q.todo = r.todo /\ q.st = r.st /\ q.err = r.err
      /\ q.open = r.open /\ q.kind = r.kind
      /\ \A x \in Pipe : x # p => pipes'[x] = pipes[x]
  BY <1>1, <1>2 DEF PipeState
<1>4. /\ 1 \in 1..Len(stack) /\ f \in FrameState /\ f.pipe = p /\ f.at \in {"pipe", "killed"}
      /\ Doing(f, pipes, ProcessingCancelled, lastFile, named, Settled) /\ ~Skipping(stack)
  BY <1>1, OwnerFirst
<1>5. f.at = "pipe" /\ AtPipe(f, r, 0, lastFile, named, Settled)
  BY <1>1, <1>4 DEF Doing
<1>6. /\ Len(r.out) \in Nat \ {0} /\ Head(r.out) = r.out[1] /\ Len(Tail(r.out)) = Len(r.out) - 1
      /\ \A i \in 1..(Len(r.out) - 1) : Tail(r.out)[i] = r.out[i + 1]
      /\ f.fl \in Seq(File) /\ Len(f.fl) \in Nat
  BY <1>1, <1>2, <1>4, SeqTypes DEF FrameState
<1> HIDE DEF r, q, f
<1>7. PICK n \in 0..Len(f.fl) :
        /\ Len(r.out) <= n /\ n + Len(r.todo) <= Len(f.fl)
        /\ \A i \in 1..Len(r.out) : r.out[i] = f.fl[n - Len(r.out) + i]
        /\ \A i \in 1..Len(r.todo) : r.todo[i] = f.fl[n + i]
        /\ \A j \in 1..n : f.fl[j] \in Settled \/ (j = n /\ r.st = "ended" /\ r.err = "crash")
        /\ r.st \in {"starting", "locked"} /\ r.err # "crash" => n + Len(r.todo) = Len(f.fl)
        /\ r.st = "ended" /\ r.err = "no" => n = Len(f.fl)
        /\ r.st = "ended" /\ r.err = "warns" /\ n = 0 => Elems(f.fl) \subseteq Settled
  BY <1>1, <1>5 DEF AtPipe, Progress
<1>8. Seen(f.fl, lastFile', Settled)
  <2> DEFINE k == n - Len(r.out) + 1
  <2>1. k \in 1..Len(f.fl) /\ \A j \in 1..(k - 1) : j \in 1..n /\ j # n
    <3> DEFINE a == Len(r.out)
               b == Len(f.fl)
    <3>1. a \in Nat \ {0} /\ b \in Nat /\ n \in 0..b /\ a <= n /\ k = n - a + 1
      BY <1>6, <1>7
    <3> HIDE DEF a, b, k
    <3>2. k \in 1..b /\ \A j \in 1..(k - 1) : j \in 1..n /\ j # n
      BY <3>1
    <3> QED
      BY <3>2 DEF b
  <2>2. f.fl[k] = lastFile'
    <3>1. 1 \in 1..Len(r.out)
      BY <1>6
    <3> QED
      BY <1>1, <1>6, <1>7, <3>1 DEF r
  <2> HIDE DEF k
  <2>3. \A j \in 1..(k - 1) : f.fl[j] \in Settled
    BY <1>7, <2>1
  <2> QED
    BY <2>1, <2>2, <2>3 DEF Seen
<1>9. Progress(f.fl, q, lastFile', named', Settled)
  <2>1. \A i \in 1..Len(q.out) : q.out[i] = f.fl[n - Len(q.out) + i]
    <3>2. q.out = Tail(r.out) /\ Len(q.out) = Len(r.out) - 1
      BY <1>3, <1>6
    <3> SUFFICES ASSUME NEW i \in 1..(Len(r.out) - 1)
                 PROVE  Tail(r.out)[i] = f.fl[n - (Len(r.out) - 1) + i]
      BY <3>2
    <3>1. i + 1 \in 1..Len(r.out) /\ n - (Len(r.out) - 1) + i = n - Len(r.out) + (i + 1)
      BY <1>6
    <3> QED
      <4>1. Tail(r.out)[i] = r.out[i + 1]
        BY <1>6
      <4>2. r.out[i + 1] = f.fl[n - Len(r.out) + (i + 1)]
        BY <1>7, <3>1
      <4> QED
        BY <3>1, <4>1, <4>2
  <2>2. Len(q.out) <= n
    BY <1>3, <1>6, <1>7
  <2>3. LastRead(f.fl, lastFile', named', n - Len(q.out))
    <3>1. Len(q.out) = Len(r.out) - 1 /\ 1 \in 1..Len(r.out)
      BY <1>3, <1>6
    <3>2. n - Len(q.out) = n - Len(r.out) + 1 /\ n - Len(q.out) > 0
      <4>1. \A a \in Nat \ {0}, b \in Nat : a <= b => b - (a - 1) = b - a + 1 /\ b - (a - 1) > 0
        OBVIOUS
      <4>2. Len(r.out) \in Nat \ {0} /\ n \in Nat /\ Len(r.out) <= n
        BY <1>6, <1>7
      <4> QED
        BY <3>1, <4>1, <4>2
    <3>3. lastFile' = r.out[1] /\ r.out[1] = f.fl[n - Len(r.out) + 1]
      BY <1>1, <1>6, <1>7, <3>1 DEF r
    <3>4. lastFile' = f.fl[n - Len(q.out)]
      BY <3>2, <3>3
    <3>5. named'
      BY DEF ServeLine
    <3> QED
      BY <3>2, <3>4, <3>5 DEF LastRead
  <2> QED
    BY <1>1, <1>3, <1>7, <2>1, <2>2, <2>3 DEF Progress
<1>10. Doing(f, pipes', ProcessingCancelled', lastFile', named', Settled')
  <2>1. AtPipe(f, pipes'[f.pipe], 0, lastFile', named', Settled)
    BY <1>3, <1>4, <1>5, <1>9 DEF AtPipe, q
  <2> QED
    BY <1>1, <1>4, <1>5, <1>8, <2>1 DEF Doing
<1>11. ASSUME NEW i \in 1..Len(stack)
       PROVE  Doing(stack[i], pipes', ProcessingCancelled', lastFile', named', Settled')
  <2>1. CASE i = 1
    BY <1>10, <2>1 DEF f
  <2>2. CASE i # 1
    <3>1. stack[i].at \in Above /\ i > 1
      <4>1. i > 1
        BY <2>2
      <4> QED
        BY <4>1 DEF Orderly, Order, Above
    <3>2. stack[i].at # "askskip"
      BY <1>4 DEF Skipping
    <3>3. Doing(stack[i], pipes, ProcessingCancelled, lastFile, named, Settled)
      BY DEF Orderly, Each
    <3>4. Doing(stack[i], pipes', ProcessingCancelled', lastFile', named', Settled)
      BY <3>1, <3>2, <3>3, DoingAbove
    <3> QED
      BY <1>1, <3>4
  <2> QED
    BY <2>1, <2>2
<1>12. Order(stack, pipes')
  <2>1. \A x \in Pipe : pipes'[x].open => pipes[x].open /\ pipes'[x].kind = pipes[x].kind
    BY <1>3 DEF r, q
  <2> QED
    BY <2>1, OrderFewer DEF Orderly
<1> QED
  BY <1>1, <1>11, <1>12 DEF Orderly, Each

(* The end of a pipe without a crash, a cancel, and the failure of another.*)
LEMMA FilesServed ==
    ASSUME TypeOK, TypeOK', PipesOK, Calm, Orderly, NEW p \in Pipe,
           ServeEof(p) \/ ServeCancelled(p) \/ ServeFailed(p)
    PROVE  Orderly'
<1> USE DEF Callbacks, globals, history
<1> DEFINE r == pipes[p]
           f == stack[1]
<1>1. r.open /\ r.kind = "parse" /\ UNCHANGED <<lastFile, named, Settled>>
  BY DEF ServeEof, ServeCancelled, ServeFailed, Served, Settled
<1>2. /\ 1 \in 1..Len(stack) /\ f \in FrameState /\ f.pipe = p /\ f.at \in {"pipe", "killed"}
      /\ Doing(f, pipes, ProcessingCancelled, lastFile, named, Settled) /\ ~Skipping(stack)
  BY <1>1, OwnerFirst
<1>3. /\ pipes \in [Pipe -> PipeState] /\ r \in PipeState /\ stack \in Seq(FrameState)
      /\ \A i \in 1..Len(stack) : i \in 1..Len(stack) /\ stack[i] = stack[i]
  BY PipeTypes DEF TypeOK
<1>4. f.at = "pipe" => AtPipe(f, r, ProcessingCancelled, lastFile, named, Settled)
  BY <1>2 DEF Doing
<1>5. ASSUME pipes' = [pipes EXCEPT ![p] = Idle]
      PROVE  /\ ~pipes'[p].open /\ \A q \in Pipe : q # p => pipes'[q] = pipes[q]
             /\ \A q \in Pipe : pipes'[q].open => pipes[q].open /\ pipes'[q].kind = pipes[q].kind
  BY <1>3, <1>5, StateFields
<1> HIDE DEF r
<1>6. CASE ServeEof(p) /\ r.err # "crash"
  <2>1. /\ ProcessingCancelled = 0 /\ Eof(p) /\ pipes' = [pipes EXCEPT ![p] = Idle]
        /\ stack' = Wake(stack, "pipe") /\ ProcessingCancelled' = IF r.err = "warns" THEN 3 ELSE 0
    BY <1>6 DEF ServeEof, r
  <2>2. f.at = "pipe"
    BY <1>2, <2>1 DEF Doing
  <2>3. ProcessingCancelled' = 0 => Elems(f.fl) \subseteq Settled
    <3> SUFFICES ASSUME r.err # "warns" PROVE Elems(f.fl) \subseteq Settled
      BY <2>1
    <3>1. r.err = "no" /\ r.st = "ended"
      BY <1>3, <1>6, <2>1 DEF PipeState, Eof, Runs, r
    <3>2. PICK n \in 0..Len(f.fl) : n = Len(f.fl) /\ \A j \in 1..n : f.fl[j] \in Settled
      BY <1>1, <1>4, <2>2, <3>1 DEF AtPipe, Progress, r
    <3> QED
      BY <3>2 DEF Elems
  <2>4. ProcessingCancelled' # 2
    BY <2>1
  <2>5. ProcessingCancelled' = 3 => Over(f.fl, lastFile, named, Settled)
    <3> SUFFICES ASSUME r.err = "warns" PROVE Over(f.fl, lastFile, named, Settled)
      BY <2>1
    <3>1. r.st = "ended" /\ r.out = <<>> /\ Len(r.out) = 0
      BY <1>3, <2>1 DEF PipeState, Eof, Runs, r
    <3>2. PICK n \in 0..Len(f.fl) :
             /\ \A j \in 1..n : f.fl[j] \in Settled
             /\ LastRead(f.fl, lastFile, named, n - 0)
             /\ n = 0 => Elems(f.fl) \subseteq Settled
      BY <1>1, <1>4, <2>2, <3>1 DEF AtPipe, Progress, r
    <3>3. n - 0 = n /\ (n > 0 => n \in 1..n)
      BY <3>2
    <3> QED
      BY <3>2, <3>3 DEF Over, LastRead
  <2> QED
    BY <1>1, <1>2, <1>3, <1>5, <2>1, <2>2, <2>3, <2>4, <2>5, WakeUpdate
<1>7. CASE ServeEof(p) /\ r.err = "crash"
  <2> DEFINE g == Frame("crash", <<>>, NoPipe)
  <2>1. /\ ProcessingCancelled = 0 /\ pipes' = [pipes EXCEPT ![p] = Idle]
        /\ stack' = Append(stack, g) /\ UNCHANGED ProcessingCancelled
    BY <1>7 DEF ServeEof, Push, r
  <2>2. f.at = "pipe"
    BY <1>2, <2>1 DEF Doing
  <2>3. g \in FrameState /\ g.at = "crash" /\ g.all = {} /\ ~g.woken /\ ~g.window
    <3>1. <<>> \in Seq(Bundles)
      OBVIOUS
    <3> QED
      BY <3>1, PlaceNames, FrameType, NoFiles DEF Frame
  <2> HIDE DEF g
  <2>4. Doing(g, pipes', 0, lastFile, named, Settled)
    BY <2>3 DEF Doing, Ahead, Waiting, Asking, Parsing, Done
  <2>5. ASSUME NEW i \in 1..Len(stack) PROVE Doing(stack[i], pipes', 0, lastFile, named, Settled)
    <3>1. Doing(stack[i], pipes, 0, lastFile, named, Settled)
      BY <2>1 DEF Orderly, Each
    <3>2. stack[i].at = "pipe" /\ stack[i].pipe \in Pipe
            => ~pipes'[stack[i].pipe].open \/ pipes'[stack[i].pipe] = pipes[stack[i].pipe]
      BY <1>5, <2>1
    <3> QED
      BY <3>1, <3>2, DoingGrows
  <2>6. /\ Len(stack') = Len(stack) + 1 /\ stack'[Len(stack) + 1] = g /\ Len(stack) \in Nat
        /\ \A i \in 1..Len(stack) : stack'[i] = stack[i]
        /\ \A i \in 1..(Len(stack) + 1) : i \in 1..Len(stack) \/ i = Len(stack) + 1
    BY <1>3, <2>1, <2>3, PushFacts
  <2>7. Each(stack', pipes', ProcessingCancelled', lastFile', named', Settled')
    BY <1>1, <2>1, <2>4, <2>5, <2>6 DEF Each
  <2>8. \A i \in 1..Len(stack') : i > 1 => stack'[i].at \in {"unload", "reopen", "unusable", "xref"} \union Callbacks
    BY <2>3, <2>6 DEF Orderly, Order
  <2>9. stack'[1].at = "pipe" /\ \A q \in Pipe : pipes'[q].open => pipes'[q].kind # "parse"
    <3>1. stack'[1] = f
      BY <1>2, <2>6
    <3>2. ASSUME NEW q \in Pipe, pipes'[q].open, pipes'[q].kind = "parse" PROVE FALSE
      <4>1. pipes[q].open /\ pipes[q].kind = "parse" /\ q # p
        BY <1>5, <2>1, <3>2
      <4>2. stack[1].pipe = q
        BY <4>1, OwnerFirst
      <4> QED
        BY <1>2, <4>1, <4>2
    <3> QED
      BY <2>2, <3>1, <3>2
  <2> QED
    BY <2>7, <2>8, <2>9 DEF Orderly, Order
<1>8. CASE ServeCancelled(p)
  <2>1. /\ ProcessingCancelled = 2 /\ ProcessingCancelled' = 2 /\ pipes' = [pipes EXCEPT ![p].on = FALSE]
        /\ stack' = Wake(stack, "pipe")
    BY <1>8 DEF ServeCancelled
  <2>2. /\ pipes'[p].out = r.out /\ pipes'[p].todo = r.todo /\ pipes'[p].st = r.st
        /\ pipes'[p].err = r.err /\ pipes'[p].open = r.open /\ pipes'[p].kind = r.kind
        /\ \A q \in Pipe : q # p => pipes'[q] = pipes[q]
    BY <1>3, <2>1 DEF PipeState, r
  <2>3. \A q \in Pipe : pipes'[q].open => pipes[q].open /\ pipes'[q].kind = pipes[q].kind
    BY <2>2 DEF r
  <2>4. f.at = "pipe" => f.window /\ Progress(f.fl, pipes'[p], lastFile, named, Settled)
    <3>1. f.at = "pipe" => f.window /\ Progress(f.fl, r, lastFile, named, Settled)
      BY <1>1, <1>4, <2>1 DEF AtPipe, r
    <3> QED
      BY <2>2, <3>1, SameProgress
  <2>5. /\ ~(ProcessingCancelled' = 0) /\ stack[1].at \in {"pipe", "killed"}
        /\ stack[1].at = "pipe" =>
             /\ stack[1].window
             /\ ProcessingCancelled' = 2
             /\ Progress(stack[1].fl, pipes'[stack[1].pipe], lastFile, named, Settled')
    BY <1>1, <1>2, <2>1, <2>4
  <2>6. UNCHANGED <<lastFile, named>> /\ Settled \subseteq Settled' /\ ~(ProcessingCancelled' = 3)
        /\ (stack[1].at = "killed" => ProcessingCancelled' = 2)
    BY <1>1, <2>1
  <2> QED
    BY <1>2, <1>3, <2>1, <2>3, <2>5, <2>6, WakeUpdate
<1>9. CASE ServeFailed(p)
  <2>1. /\ ProcessingCancelled \in {1, 3} /\ UNCHANGED ProcessingCancelled
        /\ pipes' = [pipes EXCEPT ![p] = Idle] /\ stack' = Wake(stack, "pipe")
    BY <1>9 DEF ServeFailed
  <2>2. f.at = "pipe" /\ (ProcessingCancelled = 3 => Over(f.fl, lastFile, named, Settled))
    BY <1>2, <2>1 DEF Doing
  <2> QED
    BY <1>1, <1>2, <1>3, <1>5, <2>1, <2>2, WakeUpdate
<1> QED
  BY <1>6, <1>7, <1>8, <1>9

(* The import of references and an unload end.                             *)
LEMMA FilesOther ==
    ASSUME TypeOK, TypeOK', Calm, Orderly, NEW p \in Pipe,
           ServeXref(p) \/ CancelXref(p) \/ ServeUnload(p)
    PROVE  Orderly'
<1> USE DEF Callbacks, globals, history
<1>1. /\ UNCHANGED <<ProcessingCancelled, lastFile, named, Settled>>
      /\ pipes' = [pipes EXCEPT ![p] = Idle]
  BY DEF ServeXref, CancelXref, ServeUnload, Settled
<1>2. pipes \in [Pipe -> PipeState] /\ stack \in Seq(FrameState)
  BY DEF TypeOK
<1>3. /\ ~pipes'[p].open /\ \A q \in Pipe : q # p => pipes'[q] = pipes[q]
      /\ \A q \in Pipe : pipes'[q].open => pipes[q].open /\ pipes'[q].kind = pipes[q].kind
  BY <1>1, <1>2, StateFields
<1>4. ASSUME NEW i \in 1..Len(stack)
      PROVE  Doing(stack[i], pipes', ProcessingCancelled, lastFile, named, Settled)
  <2>1. Doing(stack[i], pipes, ProcessingCancelled, lastFile, named, Settled)
    BY DEF Orderly, Each
  <2>2. stack[i].at = "pipe" /\ stack[i].pipe \in Pipe
          => ~pipes'[stack[i].pipe].open \/ pipes'[stack[i].pipe] = pipes[stack[i].pipe]
    BY <1>3
  <2> QED
    BY <2>1, <2>2, DoingGrows
<1>5. Order(stack, pipes')
  BY <1>3, OrderFewer DEF Orderly
<1>6. CASE stack' = stack
  BY <1>1, <1>4, <1>5, <1>6 DEF Orderly, Each
<1>7. CASE stack' = Push(Frame("xreferr", <<>>, NoPipe))
  <2> DEFINE g == Frame("xreferr", <<>>, NoPipe)
  <2>1. g \in FrameState /\ g.at = "xreferr" /\ g.all = {} /\ ~g.woken /\ ~g.window
    <3>1. <<>> \in Seq(Bundles)
      OBVIOUS
    <3> QED
      BY <3>1, PlaceNames, FrameType, NoFiles DEF Frame
  <2>2. stack' = Append(stack, g)
    BY <1>7 DEF Push
  <2> HIDE DEF g
  <2>3. Doing(g, pipes', ProcessingCancelled, lastFile, named, Settled)
    BY <2>1 DEF Doing, Ahead, Waiting, Asking, Parsing, Done
  <2>4. /\ Len(stack') = Len(stack) + 1 /\ stack'[Len(stack) + 1] = g /\ Len(stack) \in Nat
        /\ \A i \in 1..Len(stack) : stack'[i] = stack[i]
        /\ \A i \in 1..(Len(stack) + 1) : i \in 1..Len(stack) \/ i = Len(stack) + 1
    BY <1>2, <2>1, <2>2, PushFacts
  <2>5. Each(stack', pipes', ProcessingCancelled', lastFile', named', Settled')
    BY <1>1, <1>4, <2>3, <2>4 DEF Each
  <2>6. \A i \in 1..Len(stack') : i > 1 => stack'[i].at \in {"unload", "reopen", "unusable", "xref"} \union Callbacks
    BY <1>5, <2>1, <2>4 DEF Order
  <2>7. Skipping(stack') => Skipping(stack) /\ stack'[1] = stack[1]
    <3>1. ASSUME NEW i \in 1..Len(stack'), stack'[i].at \in {"crash", "askskip"}
          PROVE  i \in 1..Len(stack) /\ stack[i].at \in {"crash", "askskip"} /\ 1 \in 1..Len(stack)
      BY <2>1, <2>4, <3>1
    <3> QED
      BY <2>4, <3>1 DEF Skipping
  <2> QED
    BY <1>5, <2>5, <2>6, <2>7 DEF Orderly, Order
<1>8. CASE stack' = Wake(stack, "unload")
  <2> DEFINE w == Wake(stack, "unload")
  <2>1. /\ w \in Seq(FrameState) /\ Len(w) = Len(stack)
        /\ \A i \in 1..Len(stack) : w[i].at = stack[i].at
    BY <1>2, WakeFacts
  <2>2. ASSUME NEW i \in 1..Len(stack)
        PROVE  Doing(w[i], pipes', ProcessingCancelled, lastFile, named, Settled)
    <3>1. LET f == stack[i]
              g == w[i]
          IN  /\ g.at = f.at /\ g.all = f.all /\ g.window = f.window
              /\ f.at # "unload" => g = f
      BY <1>2, WakeFields
    <3>2. CASE stack[i].at # "unload"
      BY <1>4, <3>1, <3>2
    <3>3. CASE stack[i].at = "unload"
      <4>1. Doing(stack[i], pipes', ProcessingCancelled, lastFile, named, Settled)
        BY <1>4
      <4> HIDE DEF w
      <4> QED
        BY <3>1, <3>3, <4>1 DEF Doing, Ahead, Waiting, Asking, Parsing, Done
    <3> QED
      BY <3>2, <3>3
  <2> HIDE DEF w
  <2>3. Order(w, pipes')
    <3>1. Skipping(w) => Skipping(stack)
      BY <2>1 DEF Skipping
    <3>2. 1 \in 1..Len(stack) => w[1].at = stack[1].at
      BY <2>1
    <3>3. Skipping(stack) => 1 \in 1..Len(stack)
      BY <1>2 DEF Skipping
    <3> QED
      BY <1>5, <2>1, <3>1, <3>2, <3>3 DEF Order
  <2> QED
    BY <1>1, <1>8, <2>1, <2>2, <2>3 DEF Orderly, Each, w
<1> QED
  BY <1>6, <1>7, <1>8 DEF ServeXref, CancelXref, ServeUnload

(* No dialog is shown: whoever works is the topmost.                       *)
LEMMA NoDialog ==
    ASSUME TypeOK, Calm, stack # <<>>, Top.at \notin Dialogs
    PROVE  /\ Len(stack) \in 1..Len(stack) /\ Top = stack[Len(stack)]
           /\ \A i \in 1..Len(stack) : i = Len(stack) \/ stack[i].at = "begin"
<1>1. stack \in Seq(FrameState) /\ Len(stack) \in 1..Len(stack) /\ Top = stack[Len(stack)]
  BY DEF TypeOK, Top
<1>2. Top.at \notin Callbacks
  BY DEF Callbacks, Dialogs
<1>3. ASSUME NEW i \in 1..Len(stack), i # Len(stack) PROVE stack[i].at = "begin"
  <2>1. i < Len(stack)
    BY <1>1, <1>3
  <2> QED
    BY <1>1, <1>2, <2>1 DEF Calm, Shape
<1> QED
  BY <1>1, <1>3

LEMMA FilesCancel ==
    ASSUME TypeOK, TypeOK', Calm, Orderly, Cancel
    PROVE  Orderly'
<1> USE DEF Callbacks, globals, history
<1>1. /\ stack # <<>> /\ Top.at \in Waits \ Dialogs /\ ProcessingCancelled' = 2
      /\ stack' = Wake(stack, "pipe") /\ UNCHANGED <<lastFile, named, Settled, pipes>>
  BY DEF Cancel, ScaleWindow, Serving, Settled
<1>2. PICK i \in 1..Len(stack) : stack[i].window
  BY DEF Cancel, ScaleWindow
<1>3. stack[i].at \in Asking \union Parsing
  BY <1>2 DEF Orderly, Each, Doing
<1>4. i = Len(stack) /\ Top = stack[i]
  BY <1>1, <1>3, NoDialog DEF Asking, Parsing
<1>5. ~(i > 1)
  BY <1>3 DEF Orderly, Order, Asking, Parsing
<1>6. stack \in Seq(FrameState) /\ i = 1 /\ \A j \in 1..Len(stack) : j \in 1..Len(stack) /\ stack[j] = stack[j]
  BY <1>4, <1>5 DEF TypeOK
<1>7. stack[1].at \in {"pipe", "killed"} /\ stack[1].window
  BY <1>1, <1>2, <1>3, <1>4, <1>6 DEF Asking, Parsing, Waits, Dialogs
<1>8. /\ ~(ProcessingCancelled' = 0)
      /\ stack[1].at = "pipe" =>
           \/ ~pipes'[stack[1].pipe].open
           \/ /\ ProcessingCancelled' = 2
              /\ Progress(stack[1].fl, pipes'[stack[1].pipe], lastFile, named, Settled)
  BY <1>1, <1>2, <1>6 DEF Orderly, Each, Doing, AtPipe
<1>9. \A q \in Pipe : pipes'[q].open => pipes[q].open /\ pipes'[q].kind = pipes[q].kind
  BY <1>1
<1> QED
  BY <1>1, <1>2, <1>6, <1>7, <1>8, <1>9, WakeUpdate

(* The user has read of a crash, and skips the file or stops.              *)
LEMMA FilesCrash ==
    ASSUME TypeOK, TypeOK', Calm, Orderly, AnswerCrash \/ AnswerSkip \/ AnswerXrefError
    PROVE  Orderly'
<1> USE DEF Callbacks, globals, history
<1>1. /\ stack \in Seq(FrameState) /\ stack # <<>> /\ Top = stack[Len(stack)]
      /\ Len(stack) \in 1..Len(stack) /\ Top.at \in {"crash", "askskip", "xreferr"}
  <2>1. At("crash") \/ At("askskip") \/ At("xreferr")
    BY DEF AnswerCrash, AnswerSkip, AnswerXrefError
  <2>2. stack \in Seq(FrameState) /\ stack # <<>> /\ Top.at \in {"crash", "askskip", "xreferr"}
    BY <2>1 DEF At, TypeOK
  <2> QED
    BY <2>2 DEF Top
<1>2. UNCHANGED <<lastFile, named, pipes>> /\ Settled \subseteq Settled'
  BY DEF AnswerCrash, AnswerSkip, AnswerXrefError, Settled
<1>3. \A q \in Pipe : pipes'[q].open => pipes[q].open /\ pipes'[q].kind = pipes[q].kind
  BY <1>2
<1>4. /\ Pop \in Seq(FrameState) /\ Len(Pop) = Len(stack) - 1 /\ Len(stack) \in Nat \ {0}
      /\ \A i \in 1..Len(Pop) : i \in 1..Len(stack) /\ Pop[i] = stack[i]
  BY <1>1, PopFacts DEF Pop
<1>5. CASE AnswerXrefError
  <2>1. stack' = Pop /\ UNCHANGED <<ProcessingCancelled, Settled>>
    BY <1>5 DEF AnswerXrefError, Settled
  <2>2. Each(Pop, pipes, ProcessingCancelled, lastFile, named, Settled)
    BY <1>4 DEF Orderly, Each
  <2>3. Skipping(Pop) => Skipping(stack) /\ Pop[1] = stack[1]
    <3>1. Skipping(Pop) => 1 \in 1..Len(Pop)
      BY <1>4 DEF Skipping
    <3> QED
      BY <1>4, <3>1 DEF Skipping
  <2>4. Order(Pop, pipes)
    BY <1>4, <2>3 DEF Orderly, Order
  <2> QED
    BY <1>2, <2>1, <2>2, <2>4 DEF Orderly
<1>6. CASE AnswerCrash \/ AnswerSkip
  <2> DEFINE f == stack[1]
  <2>1. Top.at \in {"crash", "askskip"} /\ Skipping(stack)
    BY <1>1, <1>6 DEF AnswerCrash, AnswerSkip, At, Skipping
  <2>2. /\ 1 \in 1..Len(stack) /\ f \in FrameState /\ f.at = "pipe"
        /\ f.pipe \in Pipe /\ ~pipes[f.pipe].open
        /\ Doing(f, pipes, ProcessingCancelled, lastFile, named, Settled)
    BY <2>1, CrashedClosed
  <2>3. 1 \in 1..Len(Pop) /\ Pop[1] = f
    <3>1. Len(stack) # 1
      BY <1>1, <2>1, <2>2
    <3>2. 1 \in 1..Len(Pop)
      BY <1>4, <3>1
    <3> QED
      BY <1>4, <3>2
  <2>4. ASSUME stack' = Wake(Pop, "pipe"), ProcessingCancelled' \in {ProcessingCancelled, 3},
               ProcessingCancelled # 0,
               ProcessingCancelled' = 3 => Over(f.fl, lastFile, named, Settled')
        PROVE  Orderly'
    <3>1. ProcessingCancelled' = 2 => f.window
      BY <2>2, <2>4 DEF Doing, AtPipe
    <3>2. /\ ~(ProcessingCancelled' = 0) /\ Pop[1].at = "pipe"
          /\ ~pipes'[Pop[1].pipe].open /\ (ProcessingCancelled' = 2 => Pop[1].window)
          /\ ProcessingCancelled' = 3 => Over(Pop[1].fl, lastFile, named, Settled')
      BY <1>2, <2>2, <2>3, <2>4, <3>1
    <3> HIDE DEF f
    <3> QED
      BY <1>2, <1>3, <1>4, <2>3, <2>4, <3>2, WakeUpdate
  <2>5. CASE AnswerSkip
    <3>1. Top.at = "askskip" /\ stack' = Wake(Pop, "pipe")
      BY <2>5 DEF AnswerSkip, At
    <3>2. ProcessingCancelled # 0
      BY <1>1, <3>1 DEF Orderly, Each, Doing
    <3>3. CASE ProcessingCancelled' = 3 /\ accounted' = accounted \union Skipped
      <4>1. named => lastFile \in Skipped
        BY DEF Skipped
      <4>2. ~named => Elems(f.fl) \subseteq Skipped
        BY <2>2 DEF Skipped
      <4>3. Skipped \subseteq Settled'
        BY <3>3 DEF Settled
      <4>4. Over(f.fl, lastFile, named, Settled')
        BY <4>1, <4>2, <4>3 DEF Over
      <4> QED
        BY <2>4, <3>1, <3>2, <3>3, <4>4
    <3>4. CASE UNCHANGED ProcessingCancelled
      <4>1. ProcessingCancelled = 3 => Over(f.fl, lastFile, named, Settled')
        BY <1>2, <2>2, OverGrows DEF Doing
      <4> QED
        BY <2>4, <3>1, <3>2, <3>4, <4>1
    <3> QED
      BY <2>5, <3>3, <3>4 DEF AnswerSkip
  <2>6. CASE AnswerCrash /\ ProcessingCancelled # 0
    <3>1. stack' = Wake(Pop, "pipe") /\ UNCHANGED ProcessingCancelled
      BY <2>6 DEF AnswerCrash
    <3>2. ProcessingCancelled = 3 => Over(f.fl, lastFile, named, Settled')
      BY <1>2, <2>2, OverGrows DEF Doing
    <3> QED
      BY <2>4, <2>6, <3>1, <3>2
  <2>7. CASE AnswerCrash /\ ProcessingCancelled = 0
    <3> DEFINE g == [Top EXCEPT !.at = "askskip"]
               n == Len(stack)
    <3>1. ProcessingCancelled' = 1 /\ stack' = Put(g) /\ Top.at = "crash" /\ UNCHANGED Settled
      BY <2>7 DEF AnswerCrash, Goto, At, Settled
    <3>2. Top \in FrameState /\ Doing(Top, pipes, 0, lastFile, named, Settled)
      BY <1>1, <2>7 DEF Orderly, Each
    <3>3. g \in FrameState /\ g.at = "askskip" /\ g.all = Top.all /\ g.woken = Top.woken /\ g.window = Top.window
      BY <3>2, PlaceNames DEF FrameState
    <3> HIDE DEF g
    <3>4. Doing(g, pipes, 1, lastFile, named, Settled)
      BY <3>1, <3>2, <3>3 DEF Doing, Ahead, Waiting, Asking, Parsing, Done
    <3>5. /\ Len(stack') = n /\ stack'[n] = g
          /\ \A i \in 1..n : i # n => stack'[i] = stack[i]
      BY <1>1, <3>1, <3>3, PutFacts DEF Put
    <3>6. Doing(f, pipes, 1, lastFile, named, Settled)
      BY <2>2, <2>7 DEF Doing, AtPipe, Waiting, Asking
    <3>7. n # 1
      BY <1>1, <2>2, <3>1
    <3> HIDE DEF n
    <3>8. ASSUME NEW i \in 1..n PROVE Doing(stack'[i], pipes, 1, lastFile, named, Settled)
      <4>1. CASE i = n
        BY <3>4, <3>5, <4>1
      <4>2. CASE i = 1
        BY <3>5, <3>6, <3>7, <4>2
      <4>3. CASE i # n /\ i # 1
        <5>1. i > 1 /\ i \in 1..Len(stack)
          BY <4>3 DEF n
        <5>2. stack[i].at \in Above /\ Doing(stack[i], pipes, ProcessingCancelled, lastFile, named, Settled)
          BY <5>1 DEF Orderly, Order, Each, Above
        <5> QED
          BY <3>5, <4>3, <5>2, DoingAbove
      <4> QED
        BY <4>1, <4>2, <4>3
    <3>9. \A i \in 1..n : i > 1 => stack'[i].at \in {"unload", "reopen", "unusable", "xref"} \union Callbacks
      BY <3>3, <3>5 DEF Orderly, Order, n
    <3>10. stack'[1] = f
      BY <2>2, <3>5, <3>7 DEF n
    <3>11. \A p \in Pipe : pipes[p].open => pipes[p].kind # "parse"
      BY <2>1 DEF Orderly, Order
    <3>12. Order(stack', pipes)
      BY <2>2, <3>5, <3>9, <3>10, <3>11 DEF Order
    <3>13. Each(stack', pipes, 1, lastFile, named, Settled)
      BY <3>5, <3>8 DEF Each
    <3> QED
      BY <1>2, <3>1, <3>12, <3>13 DEF Orderly
  <2> QED
    BY <1>6, <2>5, <2>6, <2>7
<1> QED
  BY <1>5, <1>6

(* The user starts an update or an unload.                                 *)
LEMMA FilesStart ==
    ASSUME TypeOK, TypeOK', Calm, Orderly, ~overlap',
           (\E job \in Jobs : StartUpdate(job)) \/ StartUnload
    PROVE  Orderly'
<1> USE DEF Callbacks, globals, history
<1>1. ASSUME NEW g, stack' = Push(g), stack = <<>>, g.at \in {"scan", "unload"},
             Doing(g, pipes', ProcessingCancelled', lastFile', named', Settled')
      PROVE  Orderly'
  <2>1. stack' \in Seq(FrameState) /\ Len(stack') = 1 /\ stack'[1] = g
    BY <1>1 DEF Push, TypeOK
  <2> QED
    BY <1>1, <2>1, OneFrame DEF Orderly
<1>2. CASE StartUnload
  <2>1. PICK p \in Pipe : stack' = Push(Frame("unload", <<>>, p))
    BY <1>2 DEF StartUnload
  <2>2. stack = <<>>
    BY <1>2 DEF StartUnload
  <2> DEFINE g == Frame("unload", <<>>, p)
  <2>3. g.at = "unload" /\ Doing(g, pipes', ProcessingCancelled', lastFile', named', Settled')
    BY DoingUnload
  <2> HIDE DEF g
  <2> QED
    BY <1>1, <2>1, <2>2, <2>3 DEF g
<1>3. ASSUME NEW job \in Jobs, StartUpdate(job), FileCheck = "ok" PROVE Orderly'
  <2> DEFINE g == Frame("scan", job, NoPipe)
  <2>1. stack' = Push(g) /\ stack = <<>> /\ ProcessingCancelled' = 0
    BY <1>3 DEF StartUpdate
  <2>2. g.at = "scan" /\ g.types = job /\ g.all = FilesIn(job) /\ ~g.woken /\ ~g.window
    BY DEF Frame
  <2>3. job # <<>>
    BY JobsAssumption
  <2> HIDE DEF g
  <2>4. Doing(g, pipes', 0, lastFile', named', Settled')
    BY <2>2, <2>3 DEF Doing, Ahead, Waiting, Asking, Parsing, Done
  <2> QED
    BY <1>1, <2>1, <2>2, <2>4
<1>4. ASSUME NEW job \in Jobs, StartUpdate(job), FileCheck # "ok" PROVE Orderly'
  <2>1. /\ FreeInput /\ ProcessingCancelled' = 0
        /\ UNCHANGED <<stack, pipes, lastFile, named, Settled>>
    BY <1>4 DEF StartUpdate, Settled
  <2>2. ASSUME NEW i \in 1..Len(stack) PROVE Doing(stack[i], pipes, 0, lastFile, named, Settled)
    <3>1. stack \in Seq(FrameState) /\ stack # <<>>
      BY <2>2 DEF TypeOK
    <3>2. Top.at \in Waits \ Dialogs /\ ~Top.woken /\ ~stack[i].window
      BY <2>1, <2>2, <3>1 DEF FreeInput, Serving
    <3>3. stack[i] = Top \/ stack[i].at = "begin"
      BY <3>1, <3>2, NoDialog
    <3>4. Doing(stack[i], pipes, ProcessingCancelled, lastFile, named, Settled)
      BY DEF Orderly, Each
    <3>5. CASE stack[i].at = "begin"
      BY <3>4, <3>5 DEF Doing, Waiting
    <3>6. CASE stack[i] = Top
      <4> DEFINE f == stack[i]
      <4>1. f.at \in {"scan", "pipe", "killed", "closing", "unload"} /\ ~f.woken /\ ~f.window
        BY <3>2, <3>6 DEF Waits
      <4>2. Doing(f, pipes, ProcessingCancelled, lastFile, named, Settled)
        BY <3>4
      <4> HIDE DEF f
      <4>3. Doing(f, pipes, 0, lastFile, named, Settled)
        BY <4>1, <4>2 DEF Doing, AtPipe, Waiting, Asking
      <4> QED
        BY <4>3 DEF f
    <3> QED
      BY <3>3, <3>5, <3>6
  <2> QED
    BY <2>1, <2>2 DEF Orderly, Each
<1> QED
  BY <1>2, <1>3, <1>4

LEMMA OrderlyStep ==
    ASSUME TypeOK, TypeOK', PipesOK, Calm, Orderly, [Next]_vars, ~overlap'
    PROVE  Orderly'
<1>1. ASSUME NEW p \in Pipe, Work(p) \/ Fault(p) \/ Serve(p) \/ CancelXref(p) PROVE Orderly'
  <2>1. CASE Work(p) \/ Fault(p)
    <3>1. overlap' = overlap
      BY <2>1 DEF Work, Fault, TakeLock, StoreFile, EndImport, DbimpDies, DbimpExits, ParserCrashes, history
    <3> QED
      BY <2>1, <3>1, FilesProcess
  <2>2. CASE ServeLine(p)
    BY <2>2, FilesLine
  <2>3. CASE ServeEof(p) \/ ServeCancelled(p) \/ ServeFailed(p)
    BY <2>3, FilesServed
  <2>4. CASE ServeXref(p) \/ CancelXref(p) \/ ServeUnload(p)
    BY <2>4, FilesOther
  <2> QED
    BY <1>1, <2>1, <2>2, <2>3, <2>4 DEF Serve
<1>2. CASE \/ FilesScanned \/ BeginParse \/ LoadFiles \/ AnswerBusy \/ AnswerNoParser
           \/ CheckPipe \/ AnswerOtherTypes \/ StartPipe \/ PipeEnds \/ ClosePipe
  BY <1>2, FilesUpdate
<1>3. CASE WindowClosed \/ ReopenTables \/ AnswerUnusable \/ UnloadEnds \/ FinishUpdate
  BY <1>3, FilesUnload
<1>4. CASE AnswerMissing
  BY <1>4, FilesMissing
<1>5. CASE AnswerCrash \/ AnswerSkip \/ AnswerXrefError
  BY <1>5, FilesCrash
<1>6. CASE (\E job \in Jobs : StartUpdate(job)) \/ StartUnload
  BY <1>6, FilesStart
<1>7. CASE Cancel
  BY <1>7, FilesCancel
<1>8. CASE UNCHANGED vars
  BY <1>8 DEF vars, globals, history, Orderly, Settled
<1> QED
  BY <1>1, <1>2, <1>3, <1>4, <1>5, <1>6, <1>7, <1>8 DEF Next, Proceed, Answer

LEMMA EmptyOrderly == TypeOK /\ stack = <<>> => Orderly
<1> SUFFICES ASSUME stack = <<>> PROVE Orderly
  OBVIOUS
<1>1. 1..Len(stack) = {}
  OBVIOUS
<1> QED
  BY <1>1 DEF Orderly, Order, Each, Skipping

LEMMA FilesStep == TypeOK /\ IInv /\ FInv /\ [Next]_vars => FInv'
<1> SUFFICES ASSUME TypeOK, IInv, FInv, [Next]_vars, ~overlap' PROVE Orderly'
  BY DEF FInv
<1>1. TypeOK'
  BY TypeStep
<1>2. Calm /\ Orderly
  <2>1. CASE overlap
    <3>1. Quiet
      BY <2>1, OverlapEnds
    <3> QED
      BY <3>1, QuietCalm, EmptyOrderly DEF Quiet
  <2>2. CASE ~overlap
    BY <2>2 DEF IInv, FInv
  <2> QED
    BY <2>1, <2>2
<1> QED
  BY <1>1, <1>2, OrderlyStep DEF IInv

LEMMA FilesInvariant == Spec => [](TypeOK /\ IInv /\ FInv)
<1>1. Init => TypeOK /\ IInv /\ FInv
  <2>1. Init => stack = <<>>
    BY DEF Init
  <2> QED
    BY <2>1, TypeInit, InvInit, EmptyOrderly DEF FInv
<1>2. TypeOK /\ IInv /\ FInv /\ [Next]_vars => TypeOK' /\ IInv' /\ FInv'
  BY TypeStep, InvStep, FilesStep
<1> QED
  BY <1>1, <1>2, PTL DEF Spec

(* Whatever crashes, is cancelled or skipped, in any project: when an      *)
(* update has gone through its files (sn_load_files, sn_load_part_files),  *)
(* each one has been stored, or the user was asked about it or has         *)
(* cancelled, or a dbimp gave it up, said so on stderr and was not killed; *)
(* as long as no update or unload is started inside another one.           *)
THEOREM OnlyGivenUpPassedOver == Spec => []FilesAccounted
<1>1. TypeOK /\ IInv /\ FInv => FilesAccounted
  <2> SUFFICES ASSUME TypeOK, Orderly, At("closing") \/ At("reopen") \/ At("xref")
               PROVE  Top.all \subseteq Settled
    BY DEF FInv, FilesAccounted, Settled
  <2>1. stack # <<>> /\ Top.at \in Done
    BY DEF At, Done
  <2>2. Top = stack[Len(stack)] /\ Len(stack) \in 1..Len(stack)
    BY <2>1 DEF Top, TypeOK
  <2>3. Ahead(Top, Settled)
    BY <2>2 DEF Orderly, Each, Doing
  <2> QED
    BY <2>1, <2>3 DEF Ahead
<1> QED
  BY <1>1, FilesInvariant, PTL

(* Processes that still run when their update goes on (sn_load_part_files) *)
(* are killed only because the user has cancelled.                         *)
THEOREM OnlyUserKills == Spec => []KilledByUser
<1>1. TypeOK /\ IInv /\ FInv => KilledByUser
  <2> SUFFICES ASSUME TypeOK, PipesOK, Orderly, At("pipe"), Top.woken, Runs(Top.pipe)
               PROVE  ProcessingCancelled = 2
    BY DEF FInv, IInv, KilledByUser
  <2>1. Top.at = "pipe" /\ Top = stack[Len(stack)] /\ Len(stack) \in 1..Len(stack)
    BY DEF At, Top, TypeOK
  <2>2. Top.pipe \in Pipe /\ AtPipe(Top, pipes[Top.pipe], ProcessingCancelled, lastFile, named, Settled)
    BY <2>1 DEF Orderly, Each, Doing
  <2> QED
    BY <2>2 DEF AtPipe, PipesOK
<1> QED
  BY <1>1, FilesInvariant, PTL
=============================================================================
