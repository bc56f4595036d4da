----------------------------- MODULE ProjectLock -----------------------------
(***************************************************************************)
(* Who uses a project (gui/misc.tcl, hyper/dbsym.c).                       *)
(*                                                                         *)
(* A hyper that has opened a project writes its host and pid under the key *)
(* open_info into the project file, which is a hash database, and takes    *)
(* the key away when it quits.  Nothing locks the file.  Each hyper has it *)
(* open and works on the pages it has in memory; a sync writes the whole   *)
(* page back, whatever another process has put on it, and the page is read *)
(* again only when a fetch finds that the time of the file has changed.    *)
(*                                                                         *)
(* Keys that share the page of open_info matter here, the others do not.   *)
(***************************************************************************)
EXTENDS FiniteSets

CONSTANTS
    Hyper,      \* the hyper processes (their hosts and pids)
    SystemOf,   \* the host of a process
    UserOf,     \* its user
    NoHyper     \* no mark

ASSUME SystemAssumption == DOMAIN SystemOf = Hyper /\ DOMAIN UserOf = Hyper
ASSUME NoHyperAssumption == NoHyper \notin Hyper

VARIABLES
    open_info,  \* whom the project file names
    pc,         \* what each process does
    db,         \* db[p]: paf_db_proj, the file as p has it in memory
    disturbed,  \* (history) somebody has unlocked the project by force, or two
                \* processes have opened it, or closed and opened it, at once
    died        \* (history) pids of processes that did not quit regularly

history == <<disturbed, died>>
vars    == <<open_info, pc, db, history>>

(* "off" and "other": no process has the pid, or one that is no hyper.     *)
Running == {"idle", "check", "asked", "free", "loading", "using", "leaving"}
Places  == Running \union {"off", "other"}

(* info: open_info on the page in memory.  dirty: the page was changed.    *)
(* fresh: the time of the file is the one p has noted last.                *)
Closed == [open |-> FALSE, info |-> NoHyper, dirty |-> FALSE, fresh |-> TRUE]
Loaded(i) == [open |-> TRUE, info |-> i, dirty |-> FALSE, fresh |-> TRUE]

Init ==
    /\ open_info = NoHyper
    /\ pc = [p \in Hyper |-> "off"]
    /\ db = [p \in Hyper |-> Closed]
    /\ disturbed = FALSE /\ died = {}

Goto(p, l) == pc' = [pc EXCEPT ![p] = l]

(* p changes the file.  Those that have it open see a new time, unless it  *)
(* is still the same second.                                               *)
WriteBack(p, info, mine) ==
    /\ open_info' = info
    /\ \E S \in SUBSET {q \in Hyper \ {p} : db[q].open} :
          db' = [q \in Hyper |-> CASE q = p   -> mine
                                  [] q \in S -> [db[q] EXCEPT !.fresh = FALSE]
                                  [] OTHER   -> db[q]]

-----------------------------------------------------------------------------
(* The processes.                                                          *)
StartHyper(p) ==
    /\ pc[p] \in {"off", "other"}
    /\ Goto(p, "idle")
    /\ UNCHANGED <<open_info, db, history>>

StartOther(p) ==
    /\ pc[p] = "off"
    /\ Goto(p, "other")
    /\ UNCHANGED <<open_info, db, history>>

(* A process ends, a hyper perhaps in the middle of its work.              *)
Dies(p) ==
    /\ pc[p] # "off"
    /\ Goto(p, "off")
    /\ db' = [db EXCEPT ![p] = Closed]
    /\ died' = IF pc[p] \in {"using", "leaving"} THEN died \union {p} ELSE died
    /\ UNCHANGED <<open_info, disturbed>>

-----------------------------------------------------------------------------
(* sn_is_project_busy, sn_unix_check_process: the process that is named    *)
(* may have ended, or have left its pid to another program.                *)
Verdict(p) ==
    CASE open_info = NoHyper                     -> "nobody"
      [] open_info = p                           -> "thisprocess"
      [] SystemOf[open_info] # SystemOf[p]       -> "othersystem"
      [] pc[open_info] \notin Running            -> "nobody"
      [] UserOf[open_info] = UserOf[p]           -> "thisuser"
      [] OTHER                                   -> "thissystem"

(* sn_read_project *)
BeginOpen(p) ==
    /\ pc[p] = "idle"
    /\ Goto(p, "check")
    /\ UNCHANGED <<open_info, db, history>>

(* The project is free, or the user is asked.  For the mark of another     *)
(* user or host the message has no user name (remuser is never set), and   *)
(* the procedure ends with an error.                                       *)
FindProject(p) ==
    /\ pc[p] = "check"
    /\ LET v == Verdict(p)
       IN  /\ Goto(p, CASE v = "nobody" -> "free"
                        [] v \in {"thisprocess", "thisuser"} -> "asked"
                        [] OTHER -> "idle")
           /\ disturbed' = (disturbed \/ (v = "nobody" /\ \E q \in Hyper \ {p} :
                                                          pc[q] \in {"free", "loading", "leaving"}))
    /\ UNCHANGED <<open_info, db, died>>

AnswerOk(p) ==
    /\ pc[p] = "asked"
    /\ Goto(p, "idle")
    /\ UNCHANGED <<open_info, db, history>>

(* sn_project_force_unlock: put open_info "" and close. *)
Unlocked ==
    /\ IF open_info = NoHyper THEN UNCHANGED <<open_info, db>>
       ELSE WriteBack(NoHyper, NoHyper, Closed)
    /\ disturbed' = (disturbed \/ open_info # NoHyper)

(* The button "Force unlock": the project is looked at again. *)
AnswerUnlock(p) ==
    /\ pc[p] = "asked"
    /\ Unlocked
    /\ Goto(p, "check")
    /\ UNCHANGED died

OpenProject(p) ==
    /\ pc[p] = "free"
    /\ Goto(p, "loading")
    /\ db' = [db EXCEPT ![p] = Loaded(open_info)]
    /\ UNCHANGED <<open_info, history>>

(* A mistake: the mark is put and not written.                             *)
MarkProjectUnsynced(p) ==
    /\ pc[p] = "loading"
    /\ Goto(p, "using")
    /\ db' = [db EXCEPT ![p].info = p, ![p].dirty = TRUE]
    /\ died' = died \ {p}
    /\ UNCHANGED <<open_info, disturbed>>

(* The project is loaded and perhaps parsed: it is marked at last.         *)
MarkProject(p) ==
    /\ pc[p] = "loading"
    /\ Goto(p, "using")
    /\ WriteBack(p, p, Loaded(p))
    /\ died' = died \ {p}
    /\ UNCHANGED disturbed

(* db_close_files: open_info is deleted, what was changed is written.      *)
CloseFiles(p) ==
    IF db[p].info # NoHyper \/ db[p].dirty THEN WriteBack(p, NoHyper, Closed)
    ELSE db' = [db EXCEPT ![p] = Closed] /\ UNCHANGED open_info

(* A mistake: the project file stays open.                                 *)
GiveUpOpen(p) ==
    /\ pc[p] = "loading"
    /\ Goto(p, "idle")
    /\ UNCHANGED <<open_info, db, history>>

(* sn_read_project returns 0: an error, or the user has given up.          *)
GiveUp(p) ==
    /\ pc[p] = "loading"
    /\ Goto(p, "idle")
    /\ CloseFiles(p)
    /\ UNCHANGED history

-----------------------------------------------------------------------------
(* A mistake: the settings are saved by sn_save_project with its default   *)
(* arguments, which deletes open_info.                                     *)
PutUnmarked(p) ==
    /\ db[p].open
    /\ db' = [db EXCEPT ![p].info = NoHyper, ![p].dirty = TRUE, ![p].fresh = TRUE]
    /\ UNCHANGED <<open_info, pc, history>>

(* paf_db_proj put: the time of the file is taken over unread.             *)
Put(p) ==
    /\ db[p].open
    /\ db' = [db EXCEPT ![p].dirty = TRUE, ![p].fresh = TRUE]
    /\ UNCHANGED <<open_info, pc, history>>

(* paf_db_proj sync: the page is written, with the open_info p has.        *)
Sync(p) ==
    /\ db[p].open /\ db[p].dirty
    /\ WriteBack(p, db[p].info, Loaded(db[p].info))
    /\ UNCHANGED <<pc, history>>

(* paf_db_proj get: the file has another time and is closed and opened     *)
(* again.  The close writes what was changed.                              *)
ReadAgain(p) ==
    /\ pc[p] \in {"loading", "using"} /\ ~db[p].fresh
    /\ IF db[p].dirty THEN WriteBack(p, db[p].info, Loaded(db[p].info))
       ELSE db' = [db EXCEPT ![p] = Loaded(open_info)] /\ UNCHANGED open_info
    /\ UNCHANGED <<pc, history>>

(* A mistake: sn_save_project 0.                                           *)
SaveProjectMarked(p) ==
    /\ pc[p] = "using"
    /\ Goto(p, "leaving")
    /\ WriteBack(p, db[p].info, Loaded(db[p].info))
    /\ UNCHANGED history

(* sn_quit: sn_save_project deletes open_info and writes the settings ...  *)
SaveProject(p) ==
    /\ pc[p] = "using"
    /\ Goto(p, "leaving")
    /\ WriteBack(p, NoHyper, Loaded(NoHyper))
    /\ UNCHANGED history

(* ... and after the windows have been closed the files are.               *)
CloseProject(p) ==
    /\ pc[p] = "leaving"
    /\ Goto(p, "idle")
    /\ CloseFiles(p)
    /\ UNCHANGED history

(* hyper -U: anybody, from the command line. *)
UnlockFromShell ==
    /\ Unlocked
    /\ UNCHANGED <<pc, died>>

-----------------------------------------------------------------------------
Process(p) == StartHyper(p) \/ StartOther(p) \/ Dies(p)
Open(p)    == \/ BeginOpen(p) \/ FindProject(p) \/ AnswerOk(p) \/ AnswerUnlock(p)
              \/ OpenProject(p) \/ MarkProject(p) \/ GiveUp(p)
Use(p)     == Put(p) \/ Sync(p) \/ ReadAgain(p) \/ SaveProject(p) \/ CloseProject(p)

Next == UnlockFromShell \/ \E p \in Hyper : Process(p) \/ Open(p) \/ Use(p)

Spec == Init /\ [][Next]_vars

-----------------------------------------------------------------------------
DbState == [open : BOOLEAN, info : Hyper \union {NoHyper}, dirty : BOOLEAN, fresh : BOOLEAN]

TypeOK ==
    /\ open_info \in Hyper \union {NoHyper}
    /\ pc \in [Hyper -> Places]
    /\ db \in [Hyper -> DbState]
    /\ \A p \in Hyper : db[p].open <=> pc[p] \in {"loading", "using", "leaving"}
    /\ disturbed \in BOOLEAN /\ died \subseteq Hyper

(* sn_is_project_busy: as long as nobody has unlocked it by force, and no  *)
(* two processes have opened it, or closed and opened it, at once, one     *)
(* hyper at a time uses the project, however they end and whoever gets     *)
(* their pids.                                                             *)
Users == {p \in Hyper : pc[p] = "using"}
Lock  == INSTANCE ExclusiveUse WITH Client <- Hyper, users <- Users, lost <- disturbed
ExclusiveProject == Lock!Spec

(* paf_db_proj put, sync: as long as nobody has unlocked the project by    *)
(* force, and no two processes have opened it, or closed and opened it, at *)
(* once, the mark of a process that uses the project stays in the file     *)
(* through all it writes to it, so that the next one finds it.             *)
UserMarked ==
    disturbed \/ \A p \in Users : open_info = p

(* sn_quit, db_close_files: for as long, a mark is that of a process that  *)
(* uses the project or has died doing so: a regular end leaves none, and   *)
(* nobody is kept out for no reason.                                       *)
NoOrphanMark ==
    disturbed \/ open_info \in {NoHyper} \union Users \union died
=============================================================================
