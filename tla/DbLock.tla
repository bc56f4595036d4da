------------------------------- MODULE DbLock -------------------------------
(***************************************************************************)
(* The database lock of Source-Navigator (db/dbimp.c).                     *)
(*                                                                         *)
(* Every dbimp process that is started with -H and -P writes the tables of *)
(* a project only while it owns <prefix>.lck.  It creates the file with    *)
(* O_CREAT|O_EXCL; when the file is there already it reads it, judges      *)
(* whether the locker still runs, and waits, removes the file or gives up. *)
(*                                                                         *)
(* One action is one system call on the lock file, with the local code up  *)
(* to the next one.  An open descriptor refers to a file and not to its    *)
(* name, so files have an identity (Inode), the name a current file        *)
(* (lockFile), and a file that is no longer named can still be read and    *)
(* written.  A line is the sequence of its blank separated fields.         *)
(***************************************************************************)
EXTENDS Integers, Sequences, FiniteSets

CONSTANTS
    Dbimp,      \* the dbimp processes (their pids)
    Sn,         \* the Source-Navigator (hyper) processes (their pids)
    Foreign,    \* pids named in a lock file an earlier release left behind
    MotherOf,   \* the -P argument: the Sn process that started a dbimp
    Inode,      \* the identities of lock files
    Host,       \* the -H argument
    Port,       \* the port field of the line earlier releases wrote
    NoPid,      \* the pid 0
    NoFile      \* no file, no descriptor

ASSUME MotherAssumption == MotherOf \in [Dbimp -> Sn]
ASSUME PidAssumption ==
    /\ NoPid \notin Dbimp \union Sn \union Foreign
    /\ Foreign \intersect Dbimp = {}
ASSUME FileAssumption == NoFile \notin Inode

Pid    == Dbimp \union Sn \union Foreign
Field  == Pid \union {Host, Port, NoPid}
Tries  == 3                       \* attempts of read_lock_file

(* The line create_lock_file writes and the line that marks a project as   *)
(* unusable: three fields, the port is gone.                               *)
StatusLine(p)   == <<MotherOf[p], Host, p>>
UnusableLine(p) == <<MotherOf[p], Host, NoPid>>

(* sscanf(tmp, "%lu %s %hu %lu", ...): four conversions, the fields that   *)
(* are missing keep their zero, the result is the number converted.        *)
At(line, n)   == IF n <= Len(line) THEN line[n] ELSE NoPid
ScanLine(line) ==
    [ret  |-> IF Len(line) < 4 THEN Len(line) ELSE 4,
     sn   |-> At(line, 1),
     host |-> At(line, 2),
     port |-> At(line, 3),
     db   |-> At(line, 4)]
Blank == ScanLine(<<>>)
Scan  == [ret : 0..4, sn : Field, host : Field, port : Field, db : Field]

VARIABLES
    lockFile,   \* the file <prefix>.lck names, or NoFile
    content,    \* content[i]: the line in file i
    owner,      \* owner[i]: the dbimp that created file i, or NoPid (history)
    pc,         \* pc[p]: where dbimp process p is
    fd,         \* fd[p]: the file p has open
    cou,        \* cou[p]: reads done by the current read_lock_file
    got,        \* got[p]: what the current read_lock_file has scanned
    first,      \* first[p]: result of check_running's first read, or <<>>
    killed,     \* killed[p]: "no", "yes" (TRUE) or "emergency" (-1)
    alive       \* the Sn and Foreign processes that run

vars == <<lockFile, content, owner, pc, fd, cou, got, first, killed, alive>>

Checking  == {"rdopen", "read", "access", "killsn", "killdb", "remove", "giveup"}
Creating  == {"write", "verify"}
Importing == {"held", "close", "release", "openmark", "mark"}
Final     == {"done", "panicked", "inconsistent", "denied", "crashed"}
Running   == {"open"} \union Checking \union Creating \union Importing

(* kill(pid, 0): the process exists. *)
Exists(q) == q \in alive \/ (q \in Dbimp /\ pc[q] \in Running)

-----------------------------------------------------------------------------
(* What may be on disk before the first dbimp starts: no lock, or one that *)
(* a release which still stored the port left behind when it crashed.      *)
OldLine == {<<m, Host, Port, q>> : m \in Sn \union Foreign, q \in Foreign}

Init ==
    /\ \/ lockFile = NoFile /\ content = [i \in Inode |-> <<>>]
       \/ \E i \in Inode, line \in OldLine :
             /\ lockFile = i
             /\ content = [[j \in Inode |-> <<>>] EXCEPT ![i] = line]
    /\ owner = [i \in Inode |-> NoPid]
    /\ pc = [p \in Dbimp |-> "new"]
    /\ fd = [p \in Dbimp |-> NoFile]
    /\ cou = [p \in Dbimp |-> 0]
    /\ got = [p \in Dbimp |-> Blank]
    /\ first = [p \in Dbimp |-> <<>>]
    /\ killed = [p \in Dbimp |-> "no"]
    /\ \E A \in SUBSET Foreign : alive = Sn \union A

Goto(p, l) == pc' = [pc EXCEPT ![p] = l]
Move(p, from, to) == pc[p] = from /\ Goto(p, to)
Opened(p, i) == fd' = [fd EXCEPT ![p] = i]
Closed(p) == fd' = [fd EXCEPT ![p] = NoFile]   \* or leaked, and not used again
(* check_running returns: its locals are gone. *)
Returns(p) == /\ cou' = [cou EXCEPT ![p] = 0]
              /\ got' = [got EXCEPT ![p] = Blank]
              /\ first' = [first EXCEPT ![p] = <<>>]

(* main up to create_lock_file. *)
Launch(p) ==
    /\ Move(p, "new", "open")
    /\ UNCHANGED <<lockFile, content, owner, fd, cou, got, first, killed, alive>>

-----------------------------------------------------------------------------
(* create_lock_file: open(lock_file, O_RDWR|O_CREAT|O_EXCL).               *)

(* A file nobody has open and nothing names: open makes a new, empty one. *)
Unused(i) == i # lockFile /\ \A p \in Dbimp : fd[p] # i

(* A mistake: O_EXCL is forgotten and a file that is there is taken over.  *)
CreateLockShared(p) ==
    /\ Move(p, "open", "write")
    /\ \E i \in Inode :
          /\ IF lockFile = NoFile
             THEN /\ Unused(i)
                  /\ content' = [content EXCEPT ![i] = <<>>]
                  /\ owner' = [owner EXCEPT ![i] = p]
             ELSE i = lockFile /\ UNCHANGED <<content, owner>>
          /\ lockFile' = i
          /\ Opened(p, i)
    /\ UNCHANGED <<cou, got, first, killed, alive>>

CreateLock(p) ==
    /\ lockFile = NoFile
    /\ Move(p, "open", "write")
    /\ \E i \in Inode :
          /\ Unused(i)
          /\ lockFile' = i
          /\ content' = [content EXCEPT ![i] = <<>>]
          /\ owner' = [owner EXCEPT ![i] = p]
          /\ Opened(p, i)
    /\ UNCHANGED <<cou, got, first, killed, alive>>

(* Any other error than EEXIST and EINTR: "Could not create lock". *)
CreateDenied(p) ==
    /\ lockFile = NoFile
    /\ Move(p, "open", "denied")
    /\ UNCHANGED <<lockFile, content, owner, fd, cou, got, first, killed, alive>>

(* EEXIST: check_running is called. *)
LockExists(p) ==
    /\ lockFile # NoFile
    /\ Move(p, "open", "rdopen")
    /\ UNCHANGED <<lockFile, content, owner, fd, cou, got, first, killed, alive>>

-----------------------------------------------------------------------------
(* read_lock_file, called once or twice by check_running.                  *)

OpenForRead(p) ==
    /\ pc[p] = "rdopen"
    /\ \/ /\ lockFile = NoFile        \* -1, which check_running maps to FALSE
          /\ Goto(p, "remove")
          /\ UNCHANGED <<fd, cou, got>>
       \/ /\ lockFile # NoFile
          /\ Goto(p, "read")
          /\ Opened(p, lockFile)
          /\ cou' = [cou EXCEPT ![p] = 0]
          /\ got' = [got EXCEPT ![p] = Blank]
    /\ UNCHANGED <<lockFile, content, owner, first, killed, alive>>

(* What check_running does with a line that was read: give up on an        *)
(* unusable project (db pid 0), ask for the two processes, or, on the      *)
(* second read, compare with the first.                                    *)
Verdict(p, g) ==
    IF first[p] = <<>>
    THEN IF g.sn = NoPid THEN "remove"
         ELSE IF g.db = NoPid THEN "giveup" ELSE "killsn"
    ELSE IF <<g.sn, g.host, g.port>> = <<first[p].sn, first[p].host, first[p].port>>
         THEN "giveup" ELSE "remove"

(* A mistake: an empty read is not counted as an attempt.                  *)
ReadLockForever(p) ==
    /\ pc[p] = "read"
    /\ LET g == IF content[fd[p]] = <<>> THEN got[p] ELSE ScanLine(content[fd[p]])
       IN  /\ got' = [got EXCEPT ![p] = g]
           /\ IF content[fd[p]] # <<>>
              THEN Closed(p) /\ Goto(p, Verdict(p, g)) /\ UNCHANGED cou
              ELSE UNCHANGED <<fd, pc, cou>>
    /\ UNCHANGED <<lockFile, content, owner, first, killed, alive>>

(* One read() of the loop; an empty file leaves the last scan as it is. *)
ReadLock(p) ==
    /\ pc[p] = "read"
    /\ LET g == IF content[fd[p]] = <<>> THEN got[p] ELSE ScanLine(content[fd[p]])
       IN  /\ got' = [got EXCEPT ![p] = g]
           /\ IF content[fd[p]] # <<>> /\ g.ret = 4
              THEN Closed(p) /\ Goto(p, Verdict(p, g)) /\ UNCHANGED cou
              ELSE /\ cou' = [cou EXCEPT ![p] = @ + 1]
                   /\ IF cou[p] + 1 < Tries
                      THEN UNCHANGED <<fd, pc>>
                      ELSE Closed(p) /\ Goto(p, "access")
    /\ UNCHANGED <<lockFile, content, owner, first, killed, alive>>

(* Not four fields: the file is strange (-1) if it is still there, and     *)
(* counts as read if it has gone.                                          *)
AccessLock(p) ==
    /\ pc[p] = "access"
    /\ Goto(p, IF lockFile # NoFile THEN "remove" ELSE Verdict(p, got[p]))
    /\ UNCHANGED <<lockFile, content, owner, fd, cou, got, first, killed, alive>>

(* kill(lck_sn_pid, 0) *)
TestSn(p) ==
    /\ pc[p] = "killsn"
    /\ Goto(p, IF Exists(got[p].sn) THEN "killdb" ELSE "giveup")
    /\ UNCHANGED <<lockFile, content, owner, fd, cou, got, first, killed, alive>>

(* kill(lck_db_pid, 0): the lock is active, or it is read once more. *)
TestDb(p) ==
    /\ pc[p] = "killdb"
    /\ IF Exists(got[p].db)
       THEN Goto(p, "open") /\ Returns(p)
       ELSE /\ Goto(p, "rdopen")
            /\ first' = [first EXCEPT ![p] = got[p]]
            /\ UNCHANGED <<cou, got>>
    /\ UNCHANGED <<lockFile, content, owner, fd, killed, alive>>

(* check_running said FALSE: unlink whatever has the name by now. *)
RemoveLock(p) ==
    /\ Move(p, "remove", "open")
    /\ lockFile' = NoFile
    /\ Returns(p)
    /\ UNCHANGED <<content, owner, fd, killed, alive>>

(* check_running said -1: "The database is in an inconsistent state." *)
GiveUp(p) ==
    /\ Move(p, "giveup", "inconsistent")
    /\ Returns(p)
    /\ UNCHANGED <<lockFile, content, owner, fd, killed, alive>>

-----------------------------------------------------------------------------
(* create_lock_file: write the line and read it back.                      *)

WriteLine(p) ==
    /\ Move(p, "write", "verify")
    /\ content' = [content EXCEPT ![fd[p]] = StatusLine(p)]
    /\ UNCHANGED <<lockFile, owner, fd, cou, got, first, killed, alive>>

(* A short write: sleep and start again, the file stays where it is. *)
ShortWrite(p) ==
    /\ Move(p, "write", "open")
    /\ Closed(p)
    /\ \E k \in 1..2 : content' = [content EXCEPT ![fd[p]] = SubSeq(StatusLine(p), 1, k)]
    /\ UNCHANGED <<lockFile, owner, cou, got, first, killed, alive>>

(* write() = -1: the process exits and leaves an empty lock file. *)
WriteFails(p) ==
    /\ Move(p, "write", "denied")
    /\ Closed(p)
    /\ UNCHANGED <<lockFile, content, owner, cou, got, first, killed, alive>>

VerifyLine(p) ==
    /\ pc[p] = "verify"
    /\ Goto(p, IF content[fd[p]] = StatusLine(p) THEN "held" ELSE "open")
    /\ Closed(p)
    /\ UNCHANGED <<lockFile, content, owner, cou, got, first, killed, alive>>

-----------------------------------------------------------------------------
(* main: the import and what follows it.                                   *)

(* End of input, a soft or simple panic (TRUE), an emergency panic (-1). *)
EndImport(p) ==
    /\ Move(p, "held", "close")
    /\ \E k \in {"no", "yes", "emergency"} : killed' = [killed EXCEPT ![p] = k]
    /\ UNCHANGED <<lockFile, content, owner, fd, cou, got, first, alive>>

(* Paf_db_close_tables; an error makes it an emergency. *)
CloseTables(p) ==
    /\ pc[p] = "close"
    /\ \E k \in {killed[p], "emergency"} :
          /\ killed' = [killed EXCEPT ![p] = k]
          /\ Goto(p, IF k = "emergency" THEN "openmark" ELSE "release")
    /\ UNCHANGED <<lockFile, content, owner, fd, cou, got, first, alive>>

(* A mistake: the process ends and its lock file stays.                    *)
ReleaseForgotten(p) ==
    /\ Move(p, "release", "done")
    /\ UNCHANGED <<lockFile, content, owner, fd, cou, got, first, killed, alive>>

(* "Delete the lock file to indicate, that we did not crash!" *)
ReleaseLock(p) ==
    /\ Move(p, "release", "done")
    /\ lockFile' = NoFile
    /\ UNCHANGED <<content, owner, fd, cou, got, first, killed, alive>>

(* A mistake: fd != -1 is not tested.                                      *)
OpenForMarkUntested(p) ==
    /\ Move(p, "openmark", "mark")
    /\ Opened(p, lockFile)
    /\ UNCHANGED <<lockFile, content, owner, cou, got, first, killed, alive>>

(* Mark the project as unusable: open without O_CREAT and O_TRUNC ... *)
OpenForMark(p) ==
    /\ pc[p] = "openmark"
    /\ IF lockFile = NoFile
       THEN Goto(p, "panicked") /\ UNCHANGED fd
       ELSE Goto(p, "mark") /\ Opened(p, lockFile)
    /\ UNCHANGED <<lockFile, content, owner, cou, got, first, killed, alive>>

(* ... and overwrite (lines have equal length); the result of write() is ignored. *)
MarkUnusable(p) ==
    /\ Move(p, "mark", "panicked")
    /\ Closed(p)
    /\ \/ content' = [content EXCEPT ![fd[p]] = UnusableLine(p)]
       \/ UNCHANGED content
    /\ UNCHANGED <<lockFile, owner, cou, got, first, killed, alive>>

-----------------------------------------------------------------------------
(* No signal handler is installed (set_sgns stays FALSE): any signal ends  *)
(* the process where it is.                                                *)
Crash(p) ==
    /\ pc[p] \in Running
    /\ Goto(p, "crashed")
    /\ Closed(p)
    /\ UNCHANGED <<lockFile, content, owner, cou, got, first, killed, alive>>

OtherExits ==
    /\ \E q \in alive : alive' = alive \ {q}
    /\ UNCHANGED <<lockFile, content, owner, pc, fd, cou, got, first, killed>>

Check(p)  == \/ LockExists(p) \/ OpenForRead(p) \/ ReadLock(p) \/ AccessLock(p)
             \/ TestSn(p) \/ TestDb(p) \/ RemoveLock(p) \/ GiveUp(p)
Create(p) == \/ CreateLock(p) \/ CreateDenied(p) \/ WriteLine(p) \/ ShortWrite(p)
             \/ WriteFails(p) \/ VerifyLine(p)
Import(p) == \/ EndImport(p) \/ CloseTables(p) \/ ReleaseLock(p)
             \/ OpenForMark(p) \/ MarkUnusable(p)
Step(p)   == Check(p) \/ Create(p) \/ Import(p)

Next ==
    \/ \E p \in Dbimp : Launch(p) \/ Step(p) \/ Crash(p)
    \/ OtherExits

Spec == Init /\ [][Next]_vars

(* What hyper keeps to when it runs its imports one after the other: a     *)
(* dbimp starts only when no other one runs.                               *)
OneAtATime == \A p \in Dbimp :
    pc[p] = "new" /\ pc'[p] # "new" => \A q \in Dbimp : pc[q] \notin Running

SerialSpec == Init /\ [][Next /\ OneAtATime]_vars

(* A process that is not killed keeps running; write() is not short for    *)
(* ever.                                                                   *)
Fairness == \A p \in Dbimp : WF_vars(Step(p)) /\ SF_vars(WriteLine(p))

FairSpec == Spec /\ Fairness

-----------------------------------------------------------------------------
TypeOK ==
    /\ lockFile \in Inode \union {NoFile}
    /\ content \in [Inode -> Seq(Field)]
    /\ owner \in [Inode -> Dbimp \union {NoPid}]
    /\ pc \in [Dbimp -> {"new"} \union Running \union Final]
    /\ fd \in [Dbimp -> Inode \union {NoFile}]
    /\ cou \in [Dbimp -> 0..Tries]
    /\ got \in [Dbimp -> Scan]
    /\ first \in [Dbimp -> Scan \union {<<>>}]
    /\ killed \in [Dbimp -> {"no", "yes", "emergency"}]
    /\ alive \subseteq Sn \union Foreign
    /\ \A p \in Dbimp :
          /\ pc[p] \in {"read", "write", "verify", "mark"} => fd[p] \in Inode
          /\ pc[p] = "read" => cou[p] < Tries

(* "Delete the lock file to indicate, that we did not crash!" (main): a    *)
(* dbimp that ended regularly, or that found the database inconsistent,    *)
(* has left no lock file of its own behind, whoever else created, removed, *)
(* overwrote or deleted lock files meanwhile.                              *)
NoOrphanLock ==
    \A p \in Dbimp : pc[p] \in {"done", "inconsistent"} =>
        lockFile = NoFile \/ owner[lockFile] # p

(* While imports run one at a time the lock file is the one the importing  *)
(* process created, and it names that process and its mother: this is what *)
(* sn_db_panic_check of hyper relies on.                                   *)
LockNamesHolder ==
    \A p \in Dbimp : pc[p] \in {"held", "close", "release"} =>
        /\ lockFile # NoFile
        /\ owner[lockFile] = p
        /\ content[lockFile] = StatusLine(p)

(* create_lock_file comes to an end: it gets the lock, or the process      *)
(* exits, or it waits for a live process an old lock file names.           *)
Waiting(p) == pc[p] \in {"open"} \union Checking
WaitsForOther == \E m \in alive, q \in alive :
    lockFile # NoFile /\ content[lockFile] = <<m, Host, Port, q>>
EveryContenderSettles ==
    \A p \in Dbimp : Waiting(p) ~> (pc[p] \in {"held"} \union Final \/ WaitsForOther)

-----------------------------------------------------------------------------
(* What the comments in dbimp.c promise and the code does not keep.        *)

(* "TRUE: the lock is still active.": two processes never import at once.  *)
MutualExclusion ==
    \A p, q \in Dbimp : pc[p] = "held" /\ pc[q] = "held" => p = q

(* "Is the project marked as unusable ?  Yes, it is unusable.": a project  *)
(* that is marked is not opened for an import again.                       *)
Unusable(line) == Len(line) = 3 /\ line[3] = NoPid
MarkIsRespected ==
    [][\A p \in Dbimp : pc[p] = "remove" /\ pc'[p] = "open" /\ lockFile # NoFile
          => ~Unusable(content[lockFile])]_vars
=============================================================================
