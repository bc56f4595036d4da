---------------------------- MODULE DbLockProofs ----------------------------
(***************************************************************************)
(* What holds of the dbimp lock for any number of dbimp processes.         *)
(***************************************************************************)
EXTENDS DbLock, TLAPS, SequenceTheorems

USE MotherAssumption, PidAssumption, FileAssumption

(* Lines hold fields, and sscanf yields a scan of such a line. *)
LEMMA StatusLineType ==
    \A p \in Dbimp : /\ StatusLine(p) \in Seq(Field)
                     /\ UnusableLine(p) \in Seq(Field)
                     /\ Len(StatusLine(p)) = 3 /\ Len(UnusableLine(p)) = 3
                     /\ Len(StatusLine(p)) < 4 /\ Len(UnusableLine(p)) < 4
  BY DEF StatusLine, UnusableLine, Field, Pid

(* What a short write of create_lock_file leaves in the file.              *)
LEMMA ShortLineType ==
    \A p \in Dbimp, k \in 1..2 : /\ SubSeq(StatusLine(p), 1, k) \in Seq(Field)
                                 /\ Len(SubSeq(StatusLine(p), 1, k)) < 4
  <1> SUFFICES ASSUME NEW p \in Dbimp, NEW k \in 1..2
               PROVE  /\ SubSeq(StatusLine(p), 1, k) \in Seq(Field)
                      /\ Len(SubSeq(StatusLine(p), 1, k)) < 4
    OBVIOUS
  <1>1. StatusLine(p) \in Seq(Field) /\ Len(StatusLine(p)) = 3
    BY StatusLineType
  <1> HIDE DEF StatusLine
  <1>2. SubSeq(StatusLine(p), 1, k) \in Seq(Field) /\ Len(SubSeq(StatusLine(p), 1, k)) = k
    BY <1>1, SubSeqProperties
  <1> QED
    BY <1>2

(* The numbers of fields sscanf may return when a field is missing.        *)
LEMMA BelowFour == \A n \in Nat : n < 4 => n \in 0..4 /\ n # 4
  OBVIOUS

(* read_lock_file: what is scanned of a line is a scan result, and four    *)
(* conversions need four fields.                                           *)
LEMMA ScanLineType ==
    \A line \in Seq(Field) : /\ ScanLine(line) \in Scan
                             /\ ScanLine(line).ret = 4 => Len(line) > 3
  <1> SUFFICES ASSUME NEW line \in Seq(Field)
               PROVE  ScanLine(line) \in Scan /\ (ScanLine(line).ret = 4 => Len(line) > 3)
    OBVIOUS
  <1>1. Len(line) \in Nat
    OBVIOUS
  <1>2. ASSUME NEW n \in 1..4 PROVE At(line, n) \in Field
    <2>1. CASE n <= Len(line)
      <3>1. n \in 1..Len(line)
        BY <1>1, <2>1
      <3> QED
        BY <2>1, <3>1 DEF At
    <2>2. CASE ~(n <= Len(line))
      BY <2>2 DEF At, Field
    <2> QED
      BY <2>1, <2>2
  <1>3. CASE Len(line) < 4
    <2>1. Len(line) \in 0..4 /\ Len(line) # 4
      BY <1>1, <1>3, BelowFour
    <2> QED
      BY <1>2, <1>3, <2>1 DEF ScanLine, Scan
  <1>4. CASE ~(Len(line) < 4)
    <2>1. Len(line) > 3
      BY <1>1, <1>4
    <2> QED
      BY <1>2, <1>4, <2>1 DEF ScanLine, Scan
  <1> QED
    BY <1>3, <1>4

(* read_lock_file before its first read. *)
LEMMA BlankType == Blank \in Scan
  <1>1. <<>> \in Seq(Field)
    OBVIOUS
  <1> QED
    BY <1>1, ScanLineType DEF Blank

(* check_running: every verdict is a place where it goes on.               *)
LEMMA VerdictType ==
    \A p, g : Verdict(p, g) \in {"remove", "giveup", "killsn"}
  BY DEF Verdict

-----------------------------------------------------------------------------
(* The processes start in a state of the right type, with or without an    *)
(* old lock file.                                                          *)
THEOREM TypeInit == Init => TypeOK
  <1> SUFFICES ASSUME Init PROVE TypeOK
    OBVIOUS
  <1>1. ASSUME NEW m \in Sn \union Foreign, NEW q \in Foreign
        PROVE  <<m, Host, Port, q>> \in Seq(Field)
    BY DEF Field, Pid
  <1>2. content \in [Inode -> Seq(Field)]
    <2>1. [i \in Inode |-> <<>>] \in [Inode -> Seq(Field)]
      OBVIOUS
    <2>2. CASE content = [i \in Inode |-> <<>>]
      BY <2>1, <2>2
    <2>3. CASE \E i \in Inode, line \in OldLine :
                  content = [[j \in Inode |-> <<>>] EXCEPT ![i] = line]
      <3>1. PICK i \in Inode, line \in OldLine :
                content = [[j \in Inode |-> <<>>] EXCEPT ![i] = line]
        BY <2>3
      <3>2. PICK m \in Sn \union Foreign, q \in Foreign : line = <<m, Host, Port, q>>
        BY DEF OldLine
      <3> QED
        BY <1>1, <2>1, <3>1, <3>2
    <2> QED
      BY <2>2, <2>3 DEF Init
  <1>3. lockFile \in Inode \union {NoFile}
    BY DEF Init
  <1>4. /\ owner \in [Inode -> Dbimp \union {NoPid}]
        /\ fd \in [Dbimp -> Inode \union {NoFile}]
        /\ cou \in [Dbimp -> 0..Tries]
        /\ killed \in [Dbimp -> {"no", "yes", "emergency"}]
        /\ alive \subseteq Sn \union Foreign
    BY DEF Init, Tries
  <1>5. got \in [Dbimp -> Scan] /\ first \in [Dbimp -> Scan \union {<<>>}]
    BY BlankType DEF Init
  <1>6. /\ pc \in [Dbimp -> {"new"} \union Running \union Final]
        /\ \A p \in Dbimp : pc[p] = "new"
    BY DEF Init
  <1> QED
    BY <1>2, <1>3, <1>4, <1>5, <1>6 DEF TypeOK

(* Every system call on the lock file keeps the types, and the descriptor  *)
(* that is read or written is open.                                        *)
THEOREM TypeStep == TypeOK /\ [Next]_vars => TypeOK'
  <1> SUFFICES ASSUME TypeOK, [Next]_vars PROVE TypeOK'
    OBVIOUS
  <1> USE DEF TypeOK, Goto, Move, Opened, Closed
  <1> USE DEF Running, Checking, Creating, Importing, Final
  <1>1. ASSUME NEW p \in Dbimp, Launch(p) PROVE TypeOK'
    BY <1>1 DEF Launch
  <1>2. ASSUME NEW p \in Dbimp, CreateLock(p) PROVE TypeOK'
    BY <1>2 DEF CreateLock
  <1>3. ASSUME NEW p \in Dbimp, CreateDenied(p) PROVE TypeOK'
    BY <1>3 DEF CreateDenied
  <1>4. ASSUME NEW p \in Dbimp, LockExists(p) PROVE TypeOK'
    BY <1>4 DEF LockExists
  <1>5. ASSUME NEW p \in Dbimp, OpenForRead(p) PROVE TypeOK'
    <2>1. CASE lockFile = NoFile
      BY <1>5, <2>1 DEF OpenForRead
    <2>2. CASE lockFile # NoFile
      <3>1. /\ lockFile \in Inode
            /\ fd' = [fd EXCEPT ![p] = lockFile]
            /\ pc' = [pc EXCEPT ![p] = "read"]
            /\ cou' = [cou EXCEPT ![p] = 0]
            /\ got' = [got EXCEPT ![p] = Blank]
        BY <1>5, <2>2 DEF OpenForRead
      <3>2. cou' \in [Dbimp -> 0..Tries] /\ cou'[p] < Tries
        BY <3>1 DEF Tries
      <3>3. got' \in [Dbimp -> Scan]
        BY <3>1, BlankType
      <3> QED
        BY <1>5, <3>1, <3>2, <3>3 DEF OpenForRead
    <2> QED
      BY <2>1, <2>2
  <1>6. ASSUME NEW p \in Dbimp, ReadLock(p) PROVE TypeOK'
    <2> DEFINE g == IF content[fd[p]] = <<>> THEN got[p] ELSE ScanLine(content[fd[p]])
    <2>1. g \in Scan
      BY <1>6, ScanLineType DEF ReadLock
    <2>2. got' = [got EXCEPT ![p] = g]
      BY <1>6 DEF ReadLock
    <2>3. got' \in [Dbimp -> Scan]
      BY <2>1, <2>2
    <2>4. cou[p] + 1 \in 0..Tries
      <3>1. cou[p] \in 0..Tries /\ cou[p] < Tries
        BY <1>6 DEF ReadLock
      <3> QED
        BY <3>1 DEF Tries
    <2>5. CASE content[fd[p]] # <<>> /\ g.ret = 4
      <3>1. /\ fd' = [fd EXCEPT ![p] = NoFile]
            /\ pc' = [pc EXCEPT ![p] = Verdict(p, g)]
            /\ cou' = cou
        BY <1>6, <2>5 DEF ReadLock
      <3> QED
        BY <1>6, <2>3, <3>1, VerdictType DEF ReadLock
    <2>6. CASE ~(content[fd[p]] # <<>> /\ g.ret = 4)
      <3>1. cou' = [cou EXCEPT ![p] = @ + 1]
        BY <1>6, <2>6 DEF ReadLock
      <3>2. cou' \in [Dbimp -> 0..Tries]
        BY <2>4, <3>1
      <3>3. CASE cou[p] + 1 < Tries
        <4>1. UNCHANGED <<fd, pc>> /\ cou'[p] < Tries
          BY <1>6, <2>6, <3>1, <3>3 DEF ReadLock
        <4> QED
          BY <1>6, <2>3, <3>1, <3>2, <4>1 DEF ReadLock
      <3>4. CASE ~(cou[p] + 1 < Tries)
        <4>1. fd' = [fd EXCEPT ![p] = NoFile] /\ pc' = [pc EXCEPT ![p] = "access"]
          BY <1>6, <2>6, <3>4 DEF ReadLock
        <4> QED
          BY <1>6, <2>3, <3>1, <3>2, <4>1 DEF ReadLock
      <3> QED
        BY <3>3, <3>4
    <2> QED
      BY <2>5, <2>6
  <1>7. ASSUME NEW p \in Dbimp, AccessLock(p) PROVE TypeOK'
    BY <1>7, VerdictType DEF AccessLock
  <1>8. ASSUME NEW p \in Dbimp, TestSn(p) PROVE TypeOK'
    BY <1>8 DEF TestSn
  <1>9. ASSUME NEW p \in Dbimp, TestDb(p) PROVE TypeOK'
    <2>1. CASE Exists(got[p].db)
      <3>1. /\ pc' = [pc EXCEPT ![p] = "open"]
            /\ cou' = [cou EXCEPT ![p] = 0]
            /\ got' = [got EXCEPT ![p] = Blank]
            /\ first' = [first EXCEPT ![p] = <<>>]
        BY <1>9, <2>1 DEF TestDb, Returns
      <3>2. cou' \in [Dbimp -> 0..Tries] /\ got' \in [Dbimp -> Scan]
        BY <3>1, BlankType DEF Tries
      <3>3. first' \in [Dbimp -> Scan \union {<<>>}]
        BY <3>1
      <3> QED
        BY <1>9, <3>1, <3>2, <3>3 DEF TestDb
    <2>2. CASE ~Exists(got[p].db)
      <3>1. /\ pc' = [pc EXCEPT ![p] = "rdopen"]
            /\ first' = [first EXCEPT ![p] = got[p]]
            /\ UNCHANGED <<lockFile, content, owner, fd, killed, alive, cou, got>>
        BY <1>9, <2>2 DEF TestDb
      <3>2. first' \in [Dbimp -> Scan \union {<<>>}]
        BY <3>1
      <3> QED
        BY <3>1, <3>2
    <2> QED
      BY <2>1, <2>2
  <1>10. ASSUME NEW p \in Dbimp, RemoveLock(p) PROVE TypeOK'
    BY <1>10, BlankType DEF RemoveLock, Returns, Tries
  <1>11. ASSUME NEW p \in Dbimp, GiveUp(p) PROVE TypeOK'
    BY <1>11, BlankType DEF GiveUp, Returns, Tries
  <1>12. ASSUME NEW p \in Dbimp, WriteLine(p) PROVE TypeOK'
    BY <1>12, StatusLineType DEF WriteLine
  <1>13. ASSUME NEW p \in Dbimp, ShortWrite(p) PROVE TypeOK'
    BY <1>13, ShortLineType DEF ShortWrite
  <1>14. ASSUME NEW p \in Dbimp, WriteFails(p) PROVE TypeOK'
    BY <1>14 DEF WriteFails
  <1>15. ASSUME NEW p \in Dbimp, VerifyLine(p) PROVE TypeOK'
    BY <1>15 DEF VerifyLine
  <1>16. ASSUME NEW p \in Dbimp, EndImport(p) PROVE TypeOK'
    BY <1>16 DEF EndImport
  <1>17. ASSUME NEW p \in Dbimp, CloseTables(p) PROVE TypeOK'
    <2>1. PICK k \in {killed[p], "emergency"} :
             /\ killed' = [killed EXCEPT ![p] = k]
             /\ pc' = [pc EXCEPT ![p] = IF k = "emergency" THEN "openmark" ELSE "release"]
      BY <1>17 DEF CloseTables
    <2>2. killed' \in [Dbimp -> {"no", "yes", "emergency"}]
      BY <2>1
    <2> QED
      BY <1>17, <2>1, <2>2 DEF CloseTables
  <1>18. ASSUME NEW p \in Dbimp, ReleaseLock(p) PROVE TypeOK'
    BY <1>18 DEF ReleaseLock
  <1>19. ASSUME NEW p \in Dbimp, OpenForMark(p) PROVE TypeOK'
    <2>1. CASE lockFile = NoFile
      <3>1. /\ pc' = [pc EXCEPT ![p] = "panicked"]
            /\ UNCHANGED <<lockFile, content, owner, fd, cou, got, first, killed, alive>>
        BY <1>19, <2>1 DEF OpenForMark
      <3> QED
        BY <3>1
    <2>2. CASE lockFile # NoFile
      <3>1. /\ lockFile \in Inode
            /\ fd' = [fd EXCEPT ![p] = lockFile]
            /\ pc' = [pc EXCEPT ![p] = "mark"]
        BY <1>19, <2>2 DEF OpenForMark
      <3> QED
        BY <1>19, <3>1 DEF OpenForMark
    <2> QED
      BY <2>1, <2>2
  <1>20. ASSUME NEW p \in Dbimp, MarkUnusable(p) PROVE TypeOK'
    <2>1. content' \in [Inode -> Seq(Field)]
      BY <1>20, StatusLineType DEF MarkUnusable
    <2> QED
      BY <1>20, <2>1 DEF MarkUnusable
  <1>21. ASSUME NEW p \in Dbimp, Crash(p) PROVE TypeOK'
    BY <1>21 DEF Crash
  <1>22. ASSUME OtherExits PROVE TypeOK'
    BY <1>22 DEF OtherExits
  <1>23. ASSUME UNCHANGED vars PROVE TypeOK'
    BY <1>23 DEF vars
  <1> QED
    BY <1>1, <1>2, <1>3, <1>4, <1>5, <1>6, <1>7, <1>8, <1>9, <1>10, <1>11, <1>12,
       <1>13, <1>14, <1>15, <1>16, <1>17, <1>18, <1>19, <1>20, <1>21, <1>22, <1>23
       DEF Next, Step, Check, Create, Import

(* Type correctness. *)
THEOREM TypeCorrect == Spec => []TypeOK
  BY TypeInit, TypeStep, PTL DEF Spec

-----------------------------------------------------------------------------
(***************************************************************************)
(* No orphan.  A process can only leave its own file behind when it gives  *)
(* up.  It gives up because it saw no lock file at all, or because it read *)
(* a line of four fields.  Only the file of an earlier release has such a  *)
(* line, and a name that stood for that file stands for no file of p.      *)
(***************************************************************************)
Owns(p) == lockFile # NoFile /\ owner[lockFile] = p

(* A line with the port field is in a file no dbimp of this release made. *)
LongLinesAreOld == \A i \in Inode : Len(content[i]) > 3 => owner[i] = NoPid

(* A process that reads an old file, or has judged one, owns no lock. *)
OldReaderOwnsNone ==
    \A p \in Dbimp :
        \/ pc[p] = "read" /\ owner[fd[p]] = NoPid
        \/ pc[p] \in {"killsn", "giveup", "done", "inconsistent"}
        => ~Owns(p)

NoOrphanInv == TypeOK /\ LongLinesAreOld /\ OldReaderOwnsNone

(* An old lock file is nobody's. *)
LEMMA NoOrphanInit == Init => NoOrphanInv
  <1> SUFFICES ASSUME Init PROVE NoOrphanInv
    OBVIOUS
  <1>1. TypeOK
    BY TypeInit
  <1>2. LongLinesAreOld
    BY DEF Init, LongLinesAreOld
  <1>3. OldReaderOwnsNone
    BY DEF Init, OldReaderOwnsNone
  <1> QED
    BY <1>1, <1>2, <1>3 DEF NoOrphanInv

(* A step that writes no line and creates no file keeps long lines old. *)
LEMMA SameLines ==
    LongLinesAreOld /\ UNCHANGED <<content, owner>> => LongLinesAreOld'
  BY DEF LongLinesAreOld

(* What p owns, it created: no other step makes p an owner. *)
LEMMA OwnsOnlyByCreating ==
    ASSUME TypeOK, NEW p \in Dbimp, ~Owns(p), UNCHANGED owner, lockFile' \in {lockFile, NoFile}
    PROVE  ~Owns(p)'
  BY DEF Owns

(* Only lines of old releases have four fields, so a dbimp that finds the  *)
(* lock of another one unreadable or gives up leaves none of its own.      *)
LEMMA NoOrphanStep == NoOrphanInv /\ [Next]_vars => NoOrphanInv'
  <1> SUFFICES ASSUME NoOrphanInv, [Next]_vars PROVE NoOrphanInv'
    OBVIOUS
  <1>t. TypeOK /\ TypeOK'
    BY TypeStep DEF NoOrphanInv
  <1>l. LongLinesAreOld'
    <2> USE DEF NoOrphanInv, LongLinesAreOld, TypeOK
    <2>1. ASSUME NEW p \in Dbimp, CreateLock(p) PROVE LongLinesAreOld'
      <3>1. PICK i \in Inode : /\ content' = [content EXCEPT ![i] = <<>>]
                               /\ owner' = [owner EXCEPT ![i] = p]
        BY <2>1 DEF CreateLock
      <3>2. Len(<<>>) = 0
        OBVIOUS
      <3>3. ASSUME NEW j \in Inode, Len(content'[j]) > 3 PROVE owner'[j] = NoPid
        <4>1. j # i
          BY <3>1, <3>2, <3>3
        <4> QED
          BY <3>1, <3>3, <4>1
      <3> QED
        BY <3>3
    <2>2. ASSUME NEW p \in Dbimp, NEW line, Len(line) < 4, fd[p] \in Inode,
                 content' = [content EXCEPT ![fd[p]] = line], UNCHANGED owner
          PROVE  LongLinesAreOld'
      <3>1. ASSUME NEW j \in Inode, Len(content'[j]) > 3 PROVE owner'[j] = NoPid
        <4>1. CASE j = fd[p]
          <5>1. content'[j] = line
            BY <2>2, <4>1
          <5> QED
            BY <2>2, <3>1, <5>1
        <4>2. CASE j # fd[p]
          BY <2>2, <3>1, <4>2
        <4> QED
          BY <4>1, <4>2
      <3> QED
        BY <3>1
    <2>3. ASSUME NEW p \in Dbimp, WriteLine(p) PROVE LongLinesAreOld'
      <3>1. fd[p] \in Inode
        BY <2>3 DEF WriteLine, Move
      <3>2. Len(StatusLine(p)) < 4
        BY StatusLineType
      <3> QED
        BY <2>2, <2>3, <3>1, <3>2 DEF WriteLine
    <2>4. ASSUME NEW p \in Dbimp, ShortWrite(p) PROVE LongLinesAreOld'
      BY <2>2, <2>4, ShortLineType DEF ShortWrite, Move
    <2>5. ASSUME NEW p \in Dbimp, MarkUnusable(p) PROVE LongLinesAreOld'
      <3>1. fd[p] \in Inode
        BY <2>5 DEF MarkUnusable, Move
      <3>2. Len(UnusableLine(p)) < 4
        BY StatusLineType
      <3> QED
        BY <2>2, <2>5, <3>1, <3>2, SameLines DEF MarkUnusable
    <2> QED
      BY <2>1, <2>3, <2>4, <2>5, SameLines
         DEF Next, Step, Check, Create, Import, vars, Launch, CreateDenied, LockExists,
             OpenForRead, ReadLock, AccessLock, TestSn, TestDb, RemoveLock, GiveUp,
             WriteFails, VerifyLine, EndImport, CloseTables, ReleaseLock, OpenForMark,
             Crash, OtherExits
  <1>o. OldReaderOwnsNone'
    <2> DEFINE Judged(x) == \/ pc[x] = "read" /\ owner[fd[x]] = NoPid
                            \/ pc[x] \in {"killsn", "giveup", "done", "inconsistent"}
    <2> SUFFICES ASSUME NEW x \in Dbimp, Judged(x)' PROVE ~Owns(x)'
      BY DEF OldReaderOwnsNone
    <2>1. Judged(x) => ~Owns(x)
      BY DEF NoOrphanInv, OldReaderOwnsNone
    <2> USE DEF TypeOK, Goto, Move, Opened, Closed
    <2>2. ASSUME NEW p \in Dbimp, CreateLock(p) PROVE ~Owns(x)'
      <3>1. PICK i \in Inode : lockFile' = i /\ owner' = [owner EXCEPT ![i] = p]
        BY <2>2 DEF CreateLock
      <3>2. pc' = [pc EXCEPT ![p] = "write"]
        BY <2>2 DEF CreateLock
      <3>3. x # p
        BY <1>t, <3>2
      <3> QED
        BY <1>t, <3>1, <3>3 DEF Owns
    (* Every other step leaves the owners alone and names no new file. *)
    <2>3. ASSUME UNCHANGED owner, lockFile' \in {lockFile, NoFile}, Judged(x)
          PROVE  ~Owns(x)'
      BY <1>t, <2>1, <2>3, OwnsOnlyByCreating
    <2>4. ASSUME NEW p \in Dbimp, x # p, UNCHANGED owner, lockFile' \in {lockFile, NoFile},
                 NEW l, pc' = [pc EXCEPT ![p] = l], fd'[x] = fd[x]
          PROVE  ~Owns(x)'
      <3>1. pc'[x] = pc[x]
        BY <1>t, <2>4
      <3>2. Judged(x)
        BY <2>4, <3>1
      <3> QED
        BY <2>3, <2>4, <3>2
    <2>5. ASSUME UNCHANGED <<pc, fd, owner, lockFile>> PROVE ~Owns(x)'
      <3>1. Judged(x)
        BY <2>5
      <3> QED
        BY <2>3, <2>5, <3>1
    <2>6. ASSUME NEW p \in Dbimp, OpenForRead(p) PROVE ~Owns(x)'
      <3>1. CASE x = p
        <4>1. pc'[p] = IF lockFile = NoFile THEN "remove" ELSE "read"
          BY <1>t, <2>6 DEF OpenForRead
        <4>2. lockFile # NoFile /\ fd'[p] = lockFile /\ UNCHANGED <<owner, lockFile>>
          BY <1>t, <2>6, <3>1, <4>1 DEF OpenForRead
        <4>3. owner[lockFile] = NoPid
          BY <3>1, <4>1, <4>2
        <4> QED
          BY <3>1, <4>2, <4>3 DEF Owns
      <3>2. CASE x # p
        BY <1>t, <2>4, <2>6, <3>2 DEF OpenForRead
      <3> QED
        BY <3>1, <3>2
    <2>7. ASSUME NEW p \in Dbimp, ReadLock(p) PROVE ~Owns(x)'
      <3> DEFINE c == content[fd[p]]
      <3>0. UNCHANGED <<lockFile, owner>>
        BY <2>7 DEF ReadLock
      <3>1. CASE x = p
        <4>1. CASE pc'[p] \in {"killsn", "giveup"}
          <5>1. c # <<>> /\ ScanLine(c).ret = 4
            BY <1>t, <2>7, <4>1 DEF ReadLock
          <5>2. pc[p] = "read" /\ fd[p] \in Inode /\ c \in Seq(Field)
            BY <1>t, <2>7 DEF ReadLock
          <5>3. owner[fd[p]] = NoPid
            BY <5>1, <5>2, ScanLineType DEF NoOrphanInv, LongLinesAreOld
          <5> QED
            BY <2>3, <3>0, <3>1, <5>2, <5>3
        <4>2. CASE pc'[p] \notin {"killsn", "giveup"}
          <5>1. pc'[p] = "read"
            BY <1>t, <2>7, <3>1, <4>2, VerdictType DEF ReadLock
          <5>2. pc[p] = "read" /\ fd' = fd
            BY <1>t, <2>7, <5>1, VerdictType DEF ReadLock
          <5> QED
            BY <2>3, <3>0, <3>1, <5>1, <5>2
        <4> QED
          BY <4>1, <4>2
      <3>2. CASE x # p
        <4>1. fd'[x] = fd[x] /\ pc'[x] = pc[x]
          BY <1>t, <2>7, <3>2 DEF ReadLock
        <4>2. Judged(x)
          BY <3>0, <4>1
        <4> QED
          BY <2>3, <3>0, <4>2
      <3> QED
        BY <3>1, <3>2
    <2>8. ASSUME NEW p \in Dbimp, AccessLock(p) PROVE ~Owns(x)'
      <3>1. CASE x = p
        <4>1. UNCHANGED lockFile /\ (lockFile # NoFile => pc'[p] = "remove")
          BY <1>t, <2>8 DEF AccessLock
        <4> QED
          BY <3>1, <4>1 DEF Owns
      <3>2. CASE x # p
        BY <1>t, <2>4, <2>8, <3>2 DEF AccessLock
      <3> QED
        BY <3>1, <3>2
    <2>9. ASSUME NEW p \in Dbimp, TestSn(p) PROVE ~Owns(x)'
      <3>1. CASE x = p
        BY <1>t, <2>3, <2>9, <3>1 DEF TestSn
      <3>2. CASE x # p
        BY <1>t, <2>4, <2>9, <3>2 DEF TestSn
      <3> QED
        BY <3>1, <3>2
    <2>10. ASSUME NEW p \in Dbimp, GiveUp(p) PROVE ~Owns(x)'
      <3>1. CASE x = p
        BY <1>t, <2>3, <2>10, <3>1 DEF GiveUp
      <3>2. CASE x # p
        BY <1>t, <2>4, <2>10, <3>2 DEF GiveUp
      <3> QED
        BY <3>1, <3>2
    <2>11. ASSUME NEW p \in Dbimp, ReleaseLock(p) PROVE ~Owns(x)'
      BY <2>11 DEF ReleaseLock, Owns
    (* The steps after which p has judged nothing. *)
    <2>12. ASSUME NEW p \in Dbimp, NEW l, pc' = [pc EXCEPT ![p] = l],
                  l \notin {"read", "killsn", "giveup", "done", "inconsistent"},
                  UNCHANGED owner, lockFile' \in {lockFile, NoFile},
                  \A y \in Dbimp : y # p => fd'[y] = fd[y]
           PROVE  ~Owns(x)'
      <3>1. x # p
        BY <1>t, <2>12
      <3> QED
        BY <2>4, <2>12, <3>1
    <2>13. ASSUME NEW p \in Dbimp,
                  \/ Launch(p) \/ CreateDenied(p) \/ LockExists(p) \/ RemoveLock(p)
                  \/ WriteLine(p) \/ ShortWrite(p) \/ WriteFails(p) \/ Crash(p)
                  \/ EndImport(p) \/ MarkUnusable(p)
           PROVE  ~Owns(x)'
      BY <1>t, <2>12, <2>13
         DEF Launch, CreateDenied, LockExists, RemoveLock, WriteLine, ShortWrite,
             WriteFails, Crash, EndImport, MarkUnusable
    <2>14. ASSUME NEW p \in Dbimp, TestDb(p) \/ VerifyLine(p) \/ CloseTables(p) \/ OpenForMark(p)
           PROVE  ~Owns(x)'
      <3>1. ASSUME TestDb(p) PROVE ~Owns(x)'
        BY <1>t, <2>12, <3>1 DEF TestDb
      <3>2. ASSUME VerifyLine(p) PROVE ~Owns(x)'
        BY <1>t, <2>12, <3>2 DEF VerifyLine
      <3>3. ASSUME CloseTables(p) PROVE ~Owns(x)'
        BY <1>t, <2>12, <3>3 DEF CloseTables
      <3>4. ASSUME OpenForMark(p) PROVE ~Owns(x)'
        BY <1>t, <2>12, <3>4 DEF OpenForMark
      <3> QED
        BY <2>14, <3>1, <3>2, <3>3, <3>4
    <2>15. ASSUME OtherExits PROVE ~Owns(x)'
      BY <2>5, <2>15 DEF OtherExits
    <2>16. ASSUME UNCHANGED vars PROVE ~Owns(x)'
      BY <2>5, <2>16 DEF vars
    <2> QED
      BY <2>2, <2>6, <2>7, <2>8, <2>9, <2>10, <2>11, <2>13, <2>14, <2>15, <2>16
         DEF Next, Step, Check, Create, Import
  <1> QED
    BY <1>t, <1>l, <1>o DEF NoOrphanInv

(* NoOrphanLock, for any number of processes. *)
THEOREM NoOrphan == Spec => []NoOrphanLock
  <1>1. NoOrphanInv => NoOrphanLock
    BY DEF NoOrphanInv, OldReaderOwnsNone, NoOrphanLock, Owns
  <1> QED
    BY <1>1, NoOrphanInit, NoOrphanStep, PTL DEF Spec

-----------------------------------------------------------------------------
(***************************************************************************)
(* One import at a time.  The lock file is then the one the running dbimp  *)
(* created, from the moment it created it: nobody else touches it.         *)
(***************************************************************************)
Alone == \A p, q \in Dbimp : pc[p] \in Running /\ pc[q] \in Running => p = q

CreatorHasName ==
    \A p \in Dbimp : pc[p] \in Creating =>
        /\ lockFile = fd[p]
        /\ owner[lockFile] = p
        /\ pc[p] = "verify" => content[lockFile] = StatusLine(p)

SerialInv == TypeOK /\ Alone /\ CreatorHasName /\ LockNamesHolder

SerialNext == [Next /\ OneAtATime]_vars

(* No dbimp runs and none holds the lock. *)
LEMMA SerialInit == Init => SerialInv
  <1> SUFFICES ASSUME Init PROVE SerialInv
    OBVIOUS
  <1>1. TypeOK /\ \A p \in Dbimp : pc[p] = "new"
    BY TypeInit DEF Init
  <1> QED
    BY <1>1 DEF SerialInv, Alone, CreatorHasName, LockNamesHolder, Running, Checking,
                Creating, Importing

(* A step moves one process; it starts one only when none runs. *)
LEMMA AloneStep == SerialInv /\ SerialNext => Alone'
  <1> SUFFICES ASSUME SerialInv, SerialNext PROVE Alone'
    OBVIOUS
  <1>1. ASSUME NEW p \in Dbimp, NEW l, pc' = [pc EXCEPT ![p] = l],
               pc[p] \in Running
        PROVE  Alone'
    BY <1>1 DEF SerialInv, Alone, TypeOK
  <1>2. ASSUME NEW p \in Dbimp, Launch(p), OneAtATime PROVE Alone'
    <2>1. pc' = [pc EXCEPT ![p] = "open"] /\ pc[p] = "new"
      BY <1>2 DEF Launch, Move, Goto
    <2>2. pc'[p] = "open"
      BY <2>1 DEF SerialInv, TypeOK
    <2>3. \A q \in Dbimp : pc[q] \notin Running
      BY <1>2, <2>1, <2>2 DEF OneAtATime
    <2> QED
      BY <2>1, <2>3 DEF Alone, SerialInv, TypeOK
  <1>3. ASSUME UNCHANGED pc PROVE Alone'
    BY <1>3 DEF SerialInv, Alone
  <1>4. ASSUME NEW p \in Dbimp, Check(p) PROVE Alone'
    <2>1. pc[p] \in Running
      BY <1>4 DEF Check, LockExists, OpenForRead, ReadLock, AccessLock, TestSn, TestDb,
                  RemoveLock, GiveUp, Move, Running, Checking
    <2>2. CASE UNCHANGED pc
      BY <1>3, <2>2
    <2>3. CASE \E l : pc' = [pc EXCEPT ![p] = l]
      BY <1>1, <2>1, <2>3
    <2>4. UNCHANGED pc \/ \E l : pc' = [pc EXCEPT ![p] = l]
      BY <1>4 DEF Check, LockExists, OpenForRead, ReadLock, AccessLock, TestSn, TestDb,
                  RemoveLock, GiveUp, Move, Goto
    <2> QED
      BY <2>2, <2>3, <2>4
  <1>5. ASSUME NEW p \in Dbimp, Create(p) \/ Import(p) \/ Crash(p) PROVE Alone'
    <2>1. pc[p] \in Running
      BY <1>5 DEF Create, Import, Crash, CreateLock, CreateDenied, WriteLine, ShortWrite,
                  WriteFails, VerifyLine, EndImport, CloseTables, ReleaseLock, OpenForMark,
                  MarkUnusable, Move, Running, Creating, Importing
    <2>2. \E l : pc' = [pc EXCEPT ![p] = l]
      BY <1>5 DEF Create, Import, Crash, CreateLock, CreateDenied, WriteLine, ShortWrite,
                  WriteFails, VerifyLine, EndImport, CloseTables, ReleaseLock, OpenForMark,
                  MarkUnusable, Move, Goto
    <2> QED
      BY <1>1, <2>1, <2>2
  <1> QED
    BY <1>2, <1>3, <1>4, <1>5 DEF SerialNext, Next, Step, OtherExits, vars

(* The running process p alone decides what the invariant says of it. *)
LEMMA SerialNamesStep == SerialInv /\ SerialNext => CreatorHasName' /\ LockNamesHolder'
  <1> SUFFICES ASSUME SerialInv, SerialNext PROVE CreatorHasName' /\ LockNamesHolder'
    OBVIOUS
  <1> DEFINE Named(x) ==
        /\ pc[x] \in Creating =>
              /\ lockFile = fd[x]
              /\ owner[lockFile] = x
              /\ pc[x] = "verify" => content[lockFile] = StatusLine(x)
        /\ pc[x] \in {"held", "close", "release"} =>
              /\ lockFile # NoFile
              /\ owner[lockFile] = x
              /\ content[lockFile] = StatusLine(x)
  <1>1. SUFFICES ASSUME NEW x \in Dbimp PROVE Named(x)'
    BY DEF CreatorHasName, LockNamesHolder
  <1>t. TypeOK /\ TypeOK'
    BY TypeStep DEF SerialInv, SerialNext
  <1>n. Named(x)
    BY DEF SerialInv, CreatorHasName, LockNamesHolder
  <1>a. Alone /\ Alone'
    BY AloneStep DEF SerialInv
  <1>2. CASE pc'[x] \notin Creating \union {"held", "close", "release"}
    BY <1>2
  <1>3. CASE UNCHANGED <<pc, fd, lockFile, owner, content>>
    BY <1>n, <1>3 DEF Creating
  <1>4. CASE pc'[x] \in Creating \union {"held", "close", "release"}
    <2> USE <1>4 DEF Creating, TypeOK, Move, Goto, Opened, Closed
    <2>1. ASSUME NEW p \in Dbimp, p # x, pc[p] \in Running \/ pc'[p] \in Running,
                 pc'[x] = pc[x]
          PROVE  FALSE
      BY <1>a, <2>1 DEF Alone, Running, Importing
    <2>2. ASSUME NEW p \in Dbimp, Launch(p) PROVE Named(x)'
      <3>1. CASE p = x
        BY <1>t, <2>2, <3>1 DEF Launch
      <3>2. CASE p # x
        BY <1>t, <2>1, <2>2, <3>2 DEF Launch, Running
      <3> QED
        BY <3>1, <3>2
    <2>3. ASSUME NEW p \in Dbimp, Check(p) PROVE Named(x)'
      <3>1. pc[p] \in Running /\ (p # x => pc'[x] = pc[x])
        BY <1>t, <2>3
           DEF Check, LockExists, OpenForRead, ReadLock, AccessLock, TestSn, TestDb,
               RemoveLock, GiveUp, Running, Checking
      <3>2. CASE p = x
        <4>1. pc'[p] \in {"open", "read"} \union Checking \union Final
          BY <1>t, <2>3, VerdictType
             DEF Check, LockExists, OpenForRead, ReadLock, AccessLock, TestSn, TestDb,
                 RemoveLock, GiveUp, Checking, Final
        <4> QED
          BY <3>2, <4>1 DEF Checking, Final
      <3>3. CASE p # x
        BY <2>1, <3>1, <3>3
      <3> QED
        BY <3>2, <3>3
    <2>4. ASSUME NEW p \in Dbimp, p # x, Create(p) \/ Import(p) \/ Crash(p)
          PROVE  Named(x)'
      <3>1. pc[p] \in Running /\ pc'[x] = pc[x]
        BY <1>t, <2>4
           DEF Create, Import, Crash, CreateLock, CreateDenied, WriteLine, ShortWrite,
               WriteFails, VerifyLine, EndImport, CloseTables, ReleaseLock, OpenForMark,
               MarkUnusable, Running, Importing
      <3> QED
        BY <2>1, <2>4, <3>1
    <2>5. ASSUME CreateLock(x) PROVE Named(x)'
      <3>1. PICK i \in Inode : /\ lockFile' = i
                               /\ owner' = [owner EXCEPT ![i] = x]
                               /\ fd' = [fd EXCEPT ![x] = i]
        BY <2>5 DEF CreateLock
      <3>2. pc'[x] = "write"
        BY <1>t, <2>5 DEF CreateLock
      <3> QED
        BY <1>t, <3>1, <3>2
    <2>6. ASSUME WriteLine(x) PROVE Named(x)'
      BY <1>t, <1>n, <2>6 DEF WriteLine
    <2>7. ASSUME VerifyLine(x) PROVE Named(x)'
      <3>1. lockFile = fd[x] /\ lockFile \in Inode /\ owner[lockFile] = x
            /\ content[lockFile] = StatusLine(x)
        BY <1>t, <1>n, <2>7 DEF VerifyLine
      <3> QED
        BY <1>t, <2>7, <3>1, FileAssumption DEF VerifyLine
    <2>8. ASSUME EndImport(x) \/ CloseTables(x) PROVE Named(x)'
      <3>1. /\ pc[x] \in {"held", "close"} /\ pc'[x] \notin Creating
            /\ UNCHANGED <<lockFile, owner, content>>
        BY <1>t, <2>8 DEF EndImport, CloseTables
      <3> QED
        BY <1>n, <3>1
    <2>9. ASSUME \/ CreateDenied(x) \/ ShortWrite(x) \/ WriteFails(x) \/ ReleaseLock(x)
                 \/ OpenForMark(x) \/ MarkUnusable(x) \/ Crash(x)
          PROVE  Named(x)'
      <3>1. pc'[x] \in {"denied", "open", "done", "panicked", "mark", "crashed"}
        BY <1>t, <2>9
           DEF CreateDenied, ShortWrite, WriteFails, ReleaseLock, OpenForMark,
               MarkUnusable, Crash
      <3> QED
        BY <3>1
    <2>10. CASE OtherExits \/ UNCHANGED vars
      BY <1>3, <2>10 DEF OtherExits, vars
    <2> QED
      BY <2>2, <2>3, <2>4, <2>5, <2>6, <2>7, <2>8, <2>9, <2>10
         DEF SerialNext, Next, Step, Create, Import
  <1> QED
    BY <1>2, <1>4

(* LockNamesHolder, for any number of imports one after the other. *)
THEOREM SerialLockNamesHolder == SerialSpec => []LockNamesHolder
  <1>1. SerialInv /\ SerialNext => SerialInv'
    BY TypeStep, AloneStep, SerialNamesStep DEF SerialInv, SerialNext
  <1>2. SerialInv => LockNamesHolder
    BY DEF SerialInv
  <1> QED
    BY <1>1, <1>2, SerialInit, PTL DEF SerialSpec, SerialNext

=============================================================================
