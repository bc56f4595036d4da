-------------------------- MODULE ProjectLockProofs --------------------------
(***************************************************************************)
(* What the mark in the project file guarantees, for any number of         *)
(* processes, hosts and users.                                             *)
(***************************************************************************)
EXTENDS ProjectLock, TLAPS

USE SystemAssumption, NoHyperAssumption

(* What is in memory after a project file was opened or closed.            *)
LEMMA MemoryType ==
    /\ Closed \in DbState /\ ~Closed.open
    /\ \A i \in Hyper \union {NoHyper} :
          /\ Loaded(i) \in DbState
          /\ Loaded(i).open /\ Loaded(i).info = i
  BY DEF Closed, Loaded, DbState

(* A write changes the file and the page of the process that writes; the   *)
(* others may only notice that there was one.                              *)
LEMMA WriteBackType ==
    ASSUME db \in [Hyper -> DbState], NEW p, NEW info, NEW mine \in DbState,
           WriteBack(p, info, mine)
    PROVE  /\ open_info' = info
           /\ db' \in [Hyper -> DbState]
           /\ p \in Hyper => db'[p] = mine
           /\ \A q \in Hyper : q # p => db'[q].open = db[q].open /\ db'[q].info = db[q].info
  <1>1. PICK S \in SUBSET {q \in Hyper \ {p} : db[q].open} :
               db' = [q \in Hyper |-> CASE q = p   -> mine
                                       [] q \in S -> [db[q] EXCEPT !.fresh = FALSE]
                                       [] OTHER   -> db[q]]
    BY DEF WriteBack
  <1>2. ASSUME NEW q \in Hyper, q # p
        PROVE  /\ db'[q] = IF q \in S THEN [db[q] EXCEPT !.fresh = FALSE] ELSE db[q]
               /\ db'[q] \in DbState
               /\ db'[q].open = db[q].open /\ db'[q].info = db[q].info
    <2>1. db'[q] = IF q \in S THEN [db[q] EXCEPT !.fresh = FALSE] ELSE db[q]
      BY <1>1, <1>2
    <2>2. db[q] \in DbState
      OBVIOUS
    <2> QED
      BY <2>1, <2>2 DEF DbState
  <1>3. ASSUME p \in Hyper PROVE db'[p] = mine
    BY <1>1, <1>3
  <1>4. db' \in [Hyper -> DbState]
    <2>1. db' = [q \in Hyper |-> db'[q]]
      BY <1>1
    <2>2. \A q \in Hyper : db'[q] \in DbState
      BY <1>2, <1>3
    <2> QED
      BY <2>1, <2>2
  <1>5. open_info' = info
    BY DEF WriteBack
  <1> QED
    BY <1>2, <1>3, <1>4, <1>5

(* db_close_files: the page is gone, and open_info in the file too, or it  *)
(* was not on the page and the file stays as it is.                        *)
LEMMA CloseFilesType ==
    ASSUME db \in [Hyper -> DbState], NEW p \in Hyper, CloseFiles(p)
    PROVE  /\ db' \in [Hyper -> DbState] /\ db'[p] = Closed
           /\ \A q \in Hyper : q # p => db'[q].open = db[q].open /\ db'[q].info = db[q].info
           /\ open_info' \in {open_info, NoHyper}
  <1>1. CASE db[p].info # NoHyper \/ db[p].dirty
    <2>1. WriteBack(p, NoHyper, Closed)
      BY <1>1 DEF CloseFiles
    <2> QED
      BY <2>1, MemoryType, WriteBackType
  <1>2. CASE ~(db[p].info # NoHyper \/ db[p].dirty)
    BY <1>2, MemoryType DEF CloseFiles
  <1> QED
    BY <1>1, <1>2

-----------------------------------------------------------------------------
(* No process has the project open, and nothing is marked, at first.       *)
LEMMA TypeInit == Init => TypeOK
  BY MemoryType DEF Init, TypeOK, Places, Running

(* The actions that put a process to another place and touch no page.      *)
LEMMA TypeMove ==
    ASSUME TypeOK, NEW p \in Hyper,
           StartHyper(p) \/ StartOther(p) \/ BeginOpen(p) \/ FindProject(p) \/ AnswerOk(p)
    PROVE  TypeOK'
  <1>1. /\ open_info' = open_info /\ db' = db /\ died' = died
        /\ disturbed' \in BOOLEAN
    BY DEF TypeOK, StartHyper, StartOther, BeginOpen, FindProject, AnswerOk, history
  <1>2. PICK l \in {"idle", "other", "check", "asked", "free"} : Goto(p, l)
    BY DEF StartHyper, StartOther, BeginOpen, FindProject, AnswerOk
  <1>3. pc[p] \notin {"loading", "using", "leaving"}
    BY DEF StartHyper, StartOther, BeginOpen, FindProject, AnswerOk
  <1>4. pc' \in [Hyper -> Places] /\ pc' = [pc EXCEPT ![p] = l]
    BY <1>2 DEF TypeOK, Goto, Places, Running
  <1> QED
    BY <1>1, <1>3, <1>4 DEF TypeOK

(* Force unlock, from the dialog or from the command line.                 *)
LEMMA UnlockedType ==
    ASSUME TypeOK, Unlocked
    PROVE  /\ open_info' = NoHyper /\ db' \in [Hyper -> DbState] /\ disturbed' \in BOOLEAN
           /\ \A q \in Hyper : db'[q].open = db[q].open
           /\ ~disturbed' => UNCHANGED <<open_info, db, disturbed>>
  <1>1. CASE open_info = NoHyper
    BY <1>1 DEF Unlocked, TypeOK
  <1>2. CASE open_info # NoHyper
    <2>1. WriteBack(NoHyper, NoHyper, Closed) /\ disturbed' = TRUE
      BY <1>2 DEF Unlocked
    <2> QED
      BY <2>1, MemoryType, WriteBackType DEF TypeOK
  <1> QED
    BY <1>1, <1>2

(* Every step of every process keeps the types, and the project file is    *)
(* open just while a process loads, uses or leaves the project.            *)
LEMMA TypeStep == TypeOK /\ [Next]_vars => TypeOK'
  <1> SUFFICES ASSUME TypeOK, [Next]_vars PROVE TypeOK'
    OBVIOUS
  <1>1. CASE UNCHANGED vars
    BY <1>1 DEF vars, history, TypeOK
  <1>2. CASE UnlockFromShell
    BY <1>2, UnlockedType DEF UnlockFromShell, TypeOK
  <1>3. ASSUME NEW p \in Hyper, Process(p) \/ Open(p) \/ Use(p) PROVE TypeOK'
    <2>1. CASE StartHyper(p) \/ StartOther(p) \/ BeginOpen(p) \/ FindProject(p) \/ AnswerOk(p)
      BY <2>1, TypeMove
    <2>2. CASE Dies(p)
      BY <2>2, MemoryType DEF Dies, Goto, TypeOK, Places
    <2>3. CASE AnswerUnlock(p)
      BY <2>3, UnlockedType DEF AnswerUnlock, Goto, TypeOK, Places, Running
    <2>4. CASE OpenProject(p)
      BY <2>4, MemoryType DEF OpenProject, Goto, TypeOK, Places, Running, history
    <2>5. CASE MarkProject(p)
      <3>1. WriteBack(p, p, Loaded(p)) /\ Loaded(p) \in DbState /\ Loaded(p).open
        BY <2>5, MemoryType DEF MarkProject
      <3> QED
        BY <2>5, <3>1, WriteBackType DEF MarkProject, Goto, TypeOK, Places, Running
    <2>6. CASE GiveUp(p) \/ CloseProject(p)
      <3>1. CloseFiles(p) /\ Goto(p, "idle") /\ UNCHANGED history
        BY <2>6 DEF GiveUp, CloseProject
      <3> QED
        BY <3>1, CloseFilesType, MemoryType DEF Goto, TypeOK, Places, Running, history
    <2>7. CASE Put(p)
      <3>1. /\ db' = [db EXCEPT ![p].dirty = TRUE, ![p].fresh = TRUE]
            /\ UNCHANGED <<open_info, pc, disturbed, died>>
        BY <2>7 DEF Put, history
      <3> DEFINE page == [[db[p] EXCEPT !.dirty = TRUE] EXCEPT !.fresh = TRUE]
      <3>2. db \in [Hyper -> DbState] /\ db[p] \in DbState
        BY DEF TypeOK
      <3>3. page \in DbState /\ page.open = db[p].open
        BY <3>2 DEF DbState
      <3>4. db' = [db EXCEPT ![p] = page]
        BY <3>1, <3>2
      <3>5. /\ db' \in [Hyper -> DbState]
            /\ \A q \in Hyper : db'[q].open = db[q].open
        BY <3>2, <3>3, <3>4
      <3> QED
        BY <3>1, <3>5 DEF TypeOK
    <2>8. CASE Sync(p)
      <3>1. WriteBack(p, db[p].info, Loaded(db[p].info)) /\ db[p].open
        BY <2>8 DEF Sync
      <3>2. Loaded(db[p].info) \in DbState /\ Loaded(db[p].info).open /\ db[p].info \in Hyper \union {NoHyper}
        BY MemoryType DEF TypeOK, DbState
      <3> QED
        BY <2>8, <3>1, <3>2, WriteBackType DEF Sync, TypeOK, history
    <2>9. CASE ReadAgain(p)
      <3>1. /\ db[p].open /\ db[p].info \in Hyper \union {NoHyper}
            /\ \A i \in {open_info, db[p].info} : Loaded(i) \in DbState /\ Loaded(i).open
        BY <2>9, MemoryType DEF ReadAgain, TypeOK, DbState
      <3>2. CASE db[p].dirty
        <4>1. WriteBack(p, db[p].info, Loaded(db[p].info))
          BY <2>9, <3>2 DEF ReadAgain
        <4> QED
          BY <2>9, <3>1, <4>1, WriteBackType DEF ReadAgain, TypeOK, history
      <3>3. CASE ~db[p].dirty
        BY <2>9, <3>1, <3>3 DEF ReadAgain, TypeOK, history
      <3> QED
        BY <3>2, <3>3
    <2>10. CASE SaveProject(p)
      <3>1. WriteBack(p, NoHyper, Loaded(NoHyper)) /\ Loaded(NoHyper) \in DbState /\ Loaded(NoHyper).open
        BY <2>10, MemoryType DEF SaveProject
      <3> QED
        BY <2>10, <3>1, WriteBackType DEF SaveProject, Goto, TypeOK, Places, Running, history
    <2> QED
      BY <1>3, <2>1, <2>2, <2>3, <2>4, <2>5, <2>6, <2>7, <2>8, <2>9, <2>10 DEF Process, Open, Use
  <1> QED
    BY <1>1, <1>2, <1>3 DEF Next

(* Every variable keeps its type, and a process has the project file open  *)
(* just while it loads, uses or leaves the project.                        *)
THEOREM TypeCorrect == Spec => []TypeOK
  <1> QED
    BY TypeInit, TypeStep, PTL DEF Spec

-----------------------------------------------------------------------------
(* The inductive invariant.  A process that opens, uses or leaves the      *)
(* project is alone with it; what it has in memory under open_info is      *)
(* itself while it uses the project, nothing when it leaves, and a dead    *)
(* process at most before: whatever it writes, the mark is right.          *)
Contends(p) == pc[p] \in {"free", "loading", "using", "leaving"}

ContendersAlone == \A p, q \in Hyper : Contends(p) /\ Contends(q) => p = q

PageOf(p) == /\ pc[p] = "using" => open_info = p /\ db[p].info = p
             /\ pc[p] = "leaving" => db[p].info = NoHyper
             /\ pc[p] = "loading" => db[p].info \in {NoHyper} \union died

Marks == open_info \in {NoHyper} \union Users \union died

IInv == ~disturbed => ContendersAlone /\ Marks /\ \A p \in Hyper : PageOf(p)

LEMMA IInit == Init => IInv
  BY DEF Init, IInv, ContendersAlone, Contends, Marks, PageOf

(* While p contends no other process does, has a page, or uses the project. *)
LEMMA Alone ==
    ASSUME TypeOK, IInv, ~disturbed, NEW p \in Hyper, Contends(p)
    PROVE  /\ \A q \in Hyper : q # p => ~Contends(q) /\ ~db[q].open
           /\ Users = IF pc[p] = "using" THEN {p} ELSE {}
  <1>1. \A q \in Hyper : q # p => ~Contends(q)
    BY DEF IInv, ContendersAlone
  <1>2. \A q \in Hyper : q # p => ~db[q].open /\ pc[q] # "using"
    BY <1>1 DEF TypeOK, Contends
  <1> QED
    BY <1>1, <1>2 DEF Users

(* A step of p that leaves disturbed FALSE keeps the invariant if it keeps *)
(* it for p: the others go on as before, and do not contend if p does.     *)
LEMMA StepOf ==
    ASSUME TypeOK, IInv, ~disturbed, NEW p \in Hyper, NEW l, Goto(p, l),
           l \in {"free", "loading", "using", "leaving"} =>
               \A q \in Hyper : q # p => ~Contends(q),
           \A q \in Hyper : q # p => db'[q].info = db[q].info,
           Contends(p) \/ UNCHANGED <<open_info, died>>,
           PageOf(p)', Marks'
    PROVE  IInv'
  <1>1. pc[p] \in Places /\ pc' = [pc EXCEPT ![p] = l] /\ pc'[p] = l
    BY DEF Goto, TypeOK
  <1>2. \A q \in Hyper : q # p => pc'[q] = pc[q] /\ (Contends(q)' <=> Contends(q))
    BY <1>1 DEF Contends, TypeOK
  <1>3. ContendersAlone'
    <2> SUFFICES ASSUME NEW q \in Hyper, NEW r \in Hyper, Contends(q)', Contends(r)', q # r
                 PROVE  FALSE
      BY DEF ContendersAlone
    <2>1. CASE q # p /\ r # p
      BY <1>2, <2>1 DEF IInv, ContendersAlone
    <2>2. CASE q = p \/ r = p
      BY <1>1, <1>2, <2>2 DEF Contends
    <2> QED
      BY <2>1, <2>2
  <1>4. ASSUME NEW q \in Hyper, q # p PROVE PageOf(q)'
    <2>1. CASE Contends(p)
      <3>1. ~Contends(q)'
        BY <1>2, <1>4, <2>1, Alone
      <3> QED
        BY <3>1 DEF Contends, PageOf
    <2>2. CASE UNCHANGED <<open_info, died>>
      BY <1>2, <1>4, <2>2 DEF IInv, PageOf
    <2> QED
      BY <2>1, <2>2
  <1> QED
    BY <1>3, <1>4 DEF IInv

(* The processes that use the project after a step of p.                   *)
LEMMA UsersAfter ==
    ASSUME TypeOK, NEW p \in Hyper, NEW l, Goto(p, l)
    PROVE  Users' = IF l = "using" THEN Users \union {p} ELSE Users \ {p}
  <1>1. \A q \in Hyper : pc'[q] = IF q = p THEN l ELSE pc[q]
    BY DEF Goto, TypeOK
  <1> QED
    BY <1>1 DEF Users

(* sn_is_project_busy finds no process that uses the project missing.      *)
LEMMA FreeMeansUnused ==
    ASSUME TypeOK, IInv, ~disturbed, NEW p \in Hyper, pc[p] = "check", Verdict(p) = "nobody"
    PROVE  Users = {}
  <1> SUFFICES ASSUME NEW q \in Users PROVE FALSE
    OBVIOUS
  <1>1. q \in Hyper /\ pc[q] = "using" /\ open_info = q /\ q # p /\ q # NoHyper
    BY DEF Users, IInv, PageOf
  <1>2. pc[q] \in Running
    BY <1>1 DEF Running
  <1> QED
    BY <1>1, <1>2 DEF Verdict

(* A step that moves p among the places where it has nothing to do with    *)
(* the project, or finds it free.                                          *)
LEMMA MoveKeeps ==
    ASSUME TypeOK, IInv, ~disturbed, ~disturbed', NEW p \in Hyper,
           StartHyper(p) \/ StartOther(p) \/ BeginOpen(p) \/ FindProject(p) \/ AnswerOk(p)
           \/ AnswerUnlock(p)
    PROVE  IInv'
  <1>1. UNCHANGED <<open_info, db, died>> /\ ~Contends(p)
    BY UnlockedType DEF StartHyper, StartOther, BeginOpen, FindProject, AnswerOk, AnswerUnlock,
       history, Contends
  <1>2. PICK l \in {"idle", "other", "check", "asked", "free"} :
             /\ Goto(p, l)
             /\ l = "free" => FindProject(p) /\ Verdict(p) = "nobody"
    <2>1. CASE FindProject(p)
      BY <2>1 DEF FindProject
    <2>2. CASE ~FindProject(p)
      BY <2>2 DEF StartHyper, StartOther, BeginOpen, AnswerOk, AnswerUnlock
    <2> QED
      BY <2>1, <2>2
  <1>3. l = "free" => \A q \in Hyper : q # p => ~Contends(q)
    <2> SUFFICES ASSUME l = "free", NEW q \in Hyper, q # p PROVE ~Contends(q)
      OBVIOUS
    <2>1. pc[q] \notin {"free", "loading", "leaving"}
      BY <1>2 DEF FindProject
    <2>2. pc[q] # "using"
      BY <1>2, FreeMeansUnused DEF Users, FindProject
    <2> QED
      BY <2>1, <2>2 DEF Contends
  <1>4. pc'[p] = l
    BY <1>2 DEF Goto, TypeOK
  <1>5. PageOf(p)'
    BY <1>2, <1>4 DEF PageOf
  <1>6. Marks'
    <2>1. p \notin Users /\ Users' = Users
      BY <1>1, <1>2, UsersAfter DEF Contends, Users
    <2> QED
      BY <1>1, <2>1 DEF IInv, Marks
  <1> QED
    BY <1>1, <1>2, <1>3, <1>5, <1>6, StepOf

(* The steps of a process that has the project to itself.                  *)
LEMMA ContenderKeeps ==
    ASSUME TypeOK, TypeOK', IInv, ~disturbed, ~disturbed', NEW p \in Hyper, Contends(p),
           Dies(p) \/ OpenProject(p) \/ MarkProject(p) \/ GiveUp(p) \/ Use(p)
    PROVE  IInv'
  <1> DEFINE Dead == {NoHyper} \union died
             Safe(l) == /\ Goto(p, l)
                        /\ \A q \in Hyper : q # p => db'[q].info = db[q].info
                        /\ PageOf(p)' /\ Marks'
  <1>1. /\ \A q \in Hyper : q # p => ~Contends(q)
        /\ Users = IF pc[p] = "using" THEN {p} ELSE {}
        /\ PageOf(p) /\ Marks
        /\ pc[p] # "using" => open_info \in Dead
    BY Alone DEF IInv, Marks
  <1>2. ASSUME NEW l, Safe(l) PROVE IInv'
    BY <1>1, <1>2, StepOf
  <1>3. CASE Dies(p)
    <2>1. Goto(p, "off") /\ pc'[p] = "off" /\ open_info' = open_info
      BY <1>3 DEF Dies, Goto, TypeOK
    <2>2. Users' = {} /\ open_info' \in Dead'
      BY <1>1, <1>3, <2>1, UsersAfter DEF Dies, Marks
    <2>3. \A q \in Hyper : q # p => db'[q].info = db[q].info
      BY <1>3 DEF Dies, TypeOK
    <2> QED
      BY <1>2, <2>1, <2>2, <2>3 DEF PageOf, Marks
  <1>4. CASE OpenProject(p)
    <2>1. Goto(p, "loading") /\ pc'[p] = "loading" /\ UNCHANGED <<open_info, died>>
      BY <1>4 DEF OpenProject, Goto, TypeOK, history
    <2>2. open_info \in Dead /\ db'[p] = Loaded(open_info)
      BY <1>1, <1>4 DEF OpenProject, TypeOK
    <2>3. \A q \in Hyper : q # p => db'[q].info = db[q].info
      BY <1>4 DEF OpenProject, TypeOK
    <2> QED
      BY <1>2, <2>1, <2>2, <2>3 DEF PageOf, Marks, Loaded
  <1>5. CASE MarkProject(p)
    <2>1. Goto(p, "using") /\ pc'[p] = "using" /\ WriteBack(p, p, Loaded(p))
      BY <1>5 DEF MarkProject, Goto, TypeOK
    <2>2. /\ open_info' = p /\ db'[p].info = p
          /\ \A q \in Hyper : q # p => db'[q].info = db[q].info
      BY <2>1, WriteBackType, MemoryType DEF TypeOK
    <2>3. Users' = {p}
      BY <1>1, <2>1, UsersAfter
    <2> QED
      BY <1>2, <2>1, <2>2, <2>3 DEF PageOf, Marks
  <1>6. CASE GiveUp(p) \/ CloseProject(p)
    <2>1. Goto(p, "idle") /\ pc'[p] = "idle" /\ CloseFiles(p) /\ died' = died /\ pc[p] # "using"
      BY <1>6 DEF GiveUp, CloseProject, Goto, TypeOK, history
    <2>2. /\ open_info' \in {open_info, NoHyper}
          /\ \A q \in Hyper : q # p => db'[q].info = db[q].info
      BY <2>1, CloseFilesType DEF TypeOK
    <2> QED
      BY <1>1, <1>2, <2>1, <2>2 DEF PageOf, Marks
  <1>7. CASE Put(p)
    <2>1. Goto(p, pc[p]) /\ UNCHANGED <<pc, open_info, died>>
      BY <1>7 DEF Put, Goto, TypeOK, history
    <2>2. \A q \in Hyper : db'[q].info = db[q].info
      <3>1. \A q \in Hyper : q # p => db'[q] = db[q]
        BY <1>7 DEF Put, TypeOK
      <3>2. db'[p] = [db[p] EXCEPT !.dirty = TRUE, !.fresh = TRUE]
        BY <1>7 DEF Put, TypeOK
      <3>3. db[p] \in DbState
        BY DEF TypeOK
      <3>4. db'[p].info = db[p].info
        BY <3>2, <3>3 DEF DbState
      <3> QED
        BY <3>1, <3>4
    <2>3. Users' = Users
      BY <2>1 DEF Users
    <2> QED
      BY <1>1, <1>2, <2>1, <2>2, <2>3 DEF PageOf, Marks
  <1>8. CASE Sync(p) \/ ReadAgain(p)
    <2>1. Goto(p, pc[p]) /\ UNCHANGED <<pc, died>> /\ db[p].open
      BY <1>8 DEF Sync, ReadAgain, Goto, TypeOK, history
    <2>2. /\ \A q \in Hyper : q # p => db'[q].info = db[q].info
          /\ open_info' = open_info \/ open_info' = db[p].info
          /\ db'[p].info = open_info'
      <3>1. db[p].info \in Hyper \union {NoHyper} /\ open_info \in Hyper \union {NoHyper}
        BY DEF TypeOK, DbState
      <3>2. CASE WriteBack(p, db[p].info, Loaded(db[p].info))
        BY <3>1, <3>2, WriteBackType, MemoryType DEF TypeOK
      <3>3. CASE db' = [db EXCEPT ![p] = Loaded(open_info)] /\ UNCHANGED open_info
        BY <3>1, <3>3, MemoryType DEF TypeOK
      <3> QED
        BY <1>8, <3>2, <3>3 DEF Sync, ReadAgain
    <2>3. pc[p] \in {"loading", "using", "leaving"} /\ Users' = Users
      BY <2>1 DEF TypeOK, Users
    <2>4. CASE pc[p] # "leaving"
      BY <1>1, <1>2, <2>1, <2>2, <2>3, <2>4 DEF PageOf, Marks
    <2>5. CASE pc[p] = "leaving"
      <3>1. Sync(p) /\ open_info' = NoHyper
        <4>1. Sync(p) /\ WriteBack(p, db[p].info, Loaded(db[p].info))
          BY <1>8, <2>5 DEF ReadAgain, Sync
        <4> QED
          BY <1>1, <2>5, <4>1 DEF WriteBack, PageOf
      <3> QED
        BY <1>1, <1>2, <2>1, <2>2, <2>3, <2>5, <3>1 DEF PageOf, Marks
    <2> QED
      BY <2>4, <2>5
  <1>9. CASE SaveProject(p)
    <2>1. Goto(p, "leaving") /\ pc'[p] = "leaving" /\ WriteBack(p, NoHyper, Loaded(NoHyper))
      BY <1>9 DEF SaveProject, Goto, TypeOK
    <2>2. /\ open_info' = NoHyper /\ db'[p].info = NoHyper
          /\ \A q \in Hyper : q # p => db'[q].info = db[q].info
      BY <2>1, WriteBackType, MemoryType DEF TypeOK
    <2> QED
      BY <1>2, <2>1, <2>2 DEF PageOf, Marks
  <1> QED
    BY <1>3, <1>4, <1>5, <1>6, <1>7, <1>8, <1>9 DEF Use

(* What is disturbed stays so. *)
LEMMA DisturbedStays ==
    ASSUME TypeOK, NEW p \in Hyper, Process(p) \/ Open(p) \/ Use(p), ~disturbed'
    PROVE  ~disturbed
  BY UnlockedType DEF Process, Open, Use, StartHyper, StartOther, Dies, BeginOpen,
     FindProject, AnswerOk, AnswerUnlock, OpenProject, MarkProject, GiveUp, Put, Sync,
     ReadAgain, SaveProject, CloseProject, history, TypeOK

(* Every step keeps the invariant. *)
LEMMA IStep == TypeOK /\ IInv /\ [Next]_vars => IInv'
  <1> SUFFICES ASSUME TypeOK, IInv, [Next]_vars, ~disturbed' PROVE IInv'
    BY DEF IInv
  <1>1. TypeOK'
    BY TypeStep
  <1>2. CASE UNCHANGED vars
    BY <1>2 DEF vars, history, IInv, ContendersAlone, Contends, Marks, PageOf, Users
  <1>3. CASE UnlockFromShell
    <2>1. UNCHANGED vars
      BY <1>3, UnlockedType DEF UnlockFromShell, vars, history
    <2> QED
      BY <1>2, <2>1
  <1>4. ASSUME NEW p \in Hyper, Process(p) \/ Open(p) \/ Use(p) PROVE IInv'
    <2>1. ~disturbed
      BY <1>4, DisturbedStays
    <2>2. CASE Contends(p)
      <3>1. Dies(p) \/ OpenProject(p) \/ MarkProject(p) \/ GiveUp(p) \/ Use(p)
        BY <1>4, <2>2 DEF Contends, Process, Open, StartHyper, StartOther, BeginOpen,
           FindProject, AnswerOk, AnswerUnlock
      <3> QED
        BY <1>1, <2>1, <2>2, <3>1, ContenderKeeps
    <2>3. CASE ~Contends(p)
      <3>1. ~db[p].open
        BY <2>3 DEF Contends, TypeOK
      <3>2. \/ StartHyper(p) \/ StartOther(p) \/ BeginOpen(p) \/ FindProject(p) \/ AnswerOk(p)
            \/ AnswerUnlock(p) \/ Dies(p)
        BY <1>4, <2>3, <3>1 DEF Contends, Process, Open, Use, OpenProject, MarkProject, GiveUp,
           Put, Sync, ReadAgain, SaveProject, CloseProject
      <3>3. CASE Dies(p)
        <4>1. /\ Goto(p, "off") /\ pc'[p] = "off" /\ UNCHANGED <<open_info, died>>
              /\ \A q \in Hyper : q # p => db'[q].info = db[q].info
          BY <2>3, <3>3 DEF Dies, Contends, Goto, TypeOK
        <4>2. Users' = Users
          BY <2>3, <4>1, UsersAfter DEF Contends, Users
        <4>3. Marks' /\ PageOf(p)'
          BY <2>1, <4>1, <4>2 DEF IInv, Marks, PageOf
        <4> QED
          BY <2>1, <4>1, <4>3, StepOf
      <3> QED
        BY <2>1, <3>2, <3>3, MoveKeeps
    <2> QED
      BY <2>2, <2>3
  <1> QED
    BY <1>2, <1>3, <1>4 DEF Next

LEMMA Inductive == Spec => [](TypeOK /\ IInv)
  <1> QED
    BY TypeInit, TypeStep, IInit, IStep, PTL DEF Spec

(* As long as nobody has unlocked the project by force, and no two         *)
(* processes have opened or closed it at once, the mark of a process that  *)
(* uses the project stays in the file, through all it puts, syncs and      *)
(* reads again itself (paf_db_proj).                                       *)
THEOREM UserIsMarked == Spec => []UserMarked
  <1>1. IInv => UserMarked
    BY DEF IInv, PageOf, UserMarked, Users
  <1> QED
    BY <1>1, Inductive, PTL

(* For as long, a mark in the file is that of a process that uses the      *)
(* project or has died doing so (sn_quit, db_close_files).                 *)
THEOREM NoMarkIsOrphan == Spec => []NoOrphanMark
  <1>1. IInv => NoOrphanMark
    BY DEF IInv, Marks, NoOrphanMark
  <1> QED
    BY <1>1, Inductive, PTL

-----------------------------------------------------------------------------
(* The places of a step: only MarkProject leads to "using".                *)
LEMMA MovesTo ==
    ASSUME TypeOK, NEW p \in Hyper, Process(p) \/ Open(p) \/ Use(p)
    PROVE  \E l : Goto(p, l) /\ (l = "using" => MarkProject(p) \/ pc[p] = "using")
  <1>1. CASE Put(p) \/ Sync(p) \/ ReadAgain(p)
    <2>1. Goto(p, pc[p])
      BY <1>1 DEF Put, Sync, ReadAgain, Goto, TypeOK
    <2> QED
      BY <2>1
  <1>2. CASE FindProject(p)
    <2>1. PICK l \in {"free", "asked", "idle"} : Goto(p, l)
      BY <1>2 DEF FindProject
    <2> QED
      BY <2>1
  <1>3. CASE ~(Put(p) \/ Sync(p) \/ ReadAgain(p) \/ FindProject(p))
    BY <1>3 DEF Process, Open, Use, StartHyper, StartOther, Dies, BeginOpen, AnswerOk,
       AnswerUnlock, OpenProject, MarkProject, GiveUp, SaveProject, CloseProject
  <1> QED
    BY <1>1, <1>2, <1>3

(* Each step is one of the lock that is promised, or none of its business. *)
LEMMA RefinementStep ==
    TypeOK /\ IInv /\ [Next]_vars => [Lock!Next]_(Lock!vars)
  <1> SUFFICES ASSUME TypeOK, IInv, [Next]_vars
               PROVE  Lock!Next \/ UNCHANGED <<Users, disturbed>>
    BY DEF Lock!vars
  <1>1. TypeOK'
    BY TypeStep
  <1>2. CASE UNCHANGED vars
    BY <1>2 DEF vars, history, Users
  <1>3. CASE disturbed'
    <2>1. disturbed' = TRUE /\ Users' \subseteq Hyper
      BY <1>1, <1>3 DEF TypeOK, Users
    <2> QED
      BY <2>1 DEF Lock!Next, Lock!Lose
  <1>4. CASE UnlockFromShell /\ ~disturbed'
    BY <1>4, UnlockedType DEF UnlockFromShell, Users
  <1>5. ASSUME NEW p \in Hyper, Process(p) \/ Open(p) \/ Use(p), ~disturbed'
        PROVE  Lock!Next \/ UNCHANGED <<Users, disturbed>>
    <2>1. ~disturbed /\ UNCHANGED disturbed
      BY <1>1, <1>5, DisturbedStays DEF TypeOK
    <2>2. PICK l : Goto(p, l) /\ (l = "using" => MarkProject(p) \/ pc[p] = "using")
      BY <1>5, MovesTo
    <2>3. Users' = IF l = "using" THEN Users \union {p} ELSE Users \ {p}
      BY <2>2, UsersAfter
    <2>4. CASE l = "using" /\ pc[p] # "using"
      <3>1. Users = {}
        BY <2>1, <2>2, <2>4, Alone DEF MarkProject, Contends
      <3>2. Users' = {p}
        BY <2>3, <2>4, <3>1
      <3> QED
        BY <2>1, <3>1, <3>2 DEF Lock!Next, Lock!Take
    <2>5. CASE l # "using" /\ pc[p] = "using"
      <3>1. p \in Users /\ Users' = Users \ {p}
        BY <2>3, <2>5 DEF Users
      <3> QED
        BY <2>1, <3>1 DEF Lock!Next, Lock!Leave
    <2>6. CASE l = "using" <=> pc[p] = "using"
      <3>1. Users' = Users
        BY <2>3, <2>6 DEF Users
      <3> QED
        BY <2>1, <3>1
    <2> QED
      BY <2>4, <2>5, <2>6
  <1> QED
    BY <1>2, <1>3, <1>4, <1>5 DEF Next

(* The project file implements a lock: as long as no unlock is forced and  *)
(* no two processes open or close the project at once, one process at a    *)
(* time uses it (sn_is_project_busy, sn_read_project, sn_quit).            *)
THEOREM ProjectIsExclusive == Spec => ExclusiveProject
  <1>1. Init => Lock!Init
    BY DEF Init, Lock!Init, Users
  <1> QED
    BY <1>1, RefinementStep, Inductive, PTL DEF Spec, ExclusiveProject, Lock!Spec
=============================================================================
