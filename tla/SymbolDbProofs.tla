--------------------------- MODULE SymbolDbProofs ---------------------------
(***************************************************************************)
(* What holds of SymbolDb for every set of files, names and contents:      *)
(* its type invariant, and that .by is the reverse of .to.                 *)
(***************************************************************************)
EXTENDS SymbolDb, TLAPS

-----------------------------------------------------------------------------
(* The records put_symbol makes of an accepted declaration are keys of the *)
(* two tables.                                                             *)
LEMMA KeyTypes ==
    ASSUME NEW f \in File, NEW d \in Decl, Accepted(d)
    PROVE  SymKey(f, d) \in SymKeys /\ FilKey(f, d) \in FilKeys
BY NoneAssumption DEF SymKey, FilKey, SymKeys, FilKeys, ScopeOf, Decl, Accepted, Kind

(* What dbimp finds in a line, by the kind of line its main loop tells.    *)
LEMMA LineTypes ==
    ASSUME NEW l \in Line
    PROVE  /\ l.op \in {"file", "delfile"} => l.file \in File
           /\ l.op = "sym" => l.sym \in SymKeys
           /\ l.op = "fil" => l.fil \in FilKeys
           /\ l.op = "xref" => l.to \in ToKeys
           /\ l.op = "delxref" => l.list \in SUBSET FilKeys
BY DEF Line, XrefLines

(* The lines that are written are lines dbimp can read.                    *)
LEMMA LinesWritten ==
    /\ \A f \in File : FileLine(f) \in Line /\ DelFileLine(f) \in Line
    /\ \A k \in SymKeys : SymLine(k) \in Line
    /\ \A r \in FilKeys : FilLine(r) \in Line
    /\ \A t \in ToKeys : XrefLine(t) \in XrefLines
    /\ \A L \in SUBSET FilKeys : DelXrefLine(L) \in Line
    /\ XrefLines \subseteq Line /\ CutLine \in Line /\ JunkLine \in Line
BY DEF Line, XrefLines, FileLine, DelFileLine, SymLine, FilLine, XrefLine, DelXrefLine,
   CutLine, JunkLine

(* put_symbol writes two lines at once.                                    *)
LEMMA TwoLines ==
    ASSUME NEW s \in Seq(Line), NEW k \in Line, NEW l \in Line
    PROVE  s \o <<k, l>> \in Seq(Line)
OBVIOUS

(* What of the buffer comes into the xfer file: n lines, and perhaps the   *)
(* start of one more.                                                      *)
LEMMA WrittenType ==
    ASSUME buffer \in Seq(XrefLines), NEW n \in 0..Len(buffer)
    PROVE  /\ Written(n) \in Seq(Line) /\ Len(Written(n)) = n
           /\ \A i \in 1..n : Written(n)[i] = IF i = 1 /\ Torn THEN JunkLine ELSE buffer[i]
           /\ NotWritten(n) \in SUBSET File
<1>1. n \in Nat /\ n <= Len(buffer) /\ \A i \in 1..Len(buffer) : buffer[i] \in XrefLines
  OBVIOUS
<1>2. \A i \in 1..n : (IF i = 1 /\ Torn THEN JunkLine ELSE buffer[i]) \in Line
  BY <1>1, LinesWritten
<1>3. Written(n) \in Seq(Line) /\ Len(Written(n)) = n
  BY <1>1, <1>2 DEF Written
<1>4. \A i \in 1..n : Written(n)[i] = IF i = 1 /\ Torn THEN JunkLine ELSE buffer[i]
  BY DEF Written
<1>5. \A i \in 1..Len(buffer) : buffer[i].to[3] \in File
  BY <1>1 DEF XrefLines, ToKeys
<1>6. NotWritten(n) \in SUBSET File
  BY <1>5 DEF NotWritten
<1> QED
  BY <1>3, <1>4, <1>6

LEMMA XferWritten ==
    ASSUME xfer \in Seq(Line), buffer \in Seq(XrefLines), NEW n \in 0..Len(buffer),
           NEW end \in {<<>>, <<CutLine>>}
    PROVE  /\ xfer \o Written(n) \o end \in Seq(Line)
           /\ xfer # <<>> => xfer \o Written(n) \o end # <<>>
<1>1. Written(n) \in Seq(Line)
  BY WrittenType
<1>2. end \in Seq(Line)
  <2>1. CutLine \in Line
    BY LinesWritten
  <2>2. \A c \in Line : <<c>> \in Seq(Line)
    OBVIOUS
  <2>3. <<>> \in Seq(Line)
    OBVIOUS
  <2>4. end = <<>> \/ end = <<CutLine>>
    OBVIOUS
  <2> QED
    BY <2>1, <2>2, <2>3, <2>4
<1>3. \A a, b, c \in Seq(Line) : a \o b \o c \in Seq(Line) /\ (a # <<>> => a \o b \o c # <<>>)
  OBVIOUS
<1> QED
  BY <1>1, <1>2, <1>3

LEMMA AllWrittenType ==
    ASSUME xfer \in Seq(Line), buffer \in Seq(XrefLines)
    PROVE  /\ AllWritten \in Seq(Line) /\ (xfer # <<>> => AllWritten # <<>>)
           /\ NotWritten(Len(buffer)) \in SUBSET File
<1>1. Len(buffer) \in 0..Len(buffer)
  OBVIOUS
<1>2. Written(Len(buffer)) \in Seq(Line) /\ NotWritten(Len(buffer)) \in SUBSET File
  BY <1>1, WrittenType
<1>3. \A a, b \in Seq(Line) : a \o b \in Seq(Line) /\ (a # <<>> => a \o b # <<>>)
  OBVIOUS
<1> QED
  BY <1>2, <1>3 DEF AllWritten

LEMMA BufferLostType ==
    ASSUME xfer \in Seq(Line), buffer \in Seq(XrefLines), dropped \in SUBSET File, BufferLost
    PROVE  /\ xfer' \in Seq(Line) /\ (xfer # <<>> => xfer' # <<>>)
           /\ buffer' \in Seq(XrefLines) /\ dropped' \in SUBSET File
<1>1. PICK n \in 0..Len(buffer), end \in {<<>>, <<CutLine>>} :
         xfer' = xfer \o Written(n) \o end /\ dropped' = dropped \union NotWritten(n)
  BY DEF BufferLost
<1>2. buffer' = <<>>
  BY DEF BufferLost
<1>3. dropped' \in SUBSET File
  BY <1>1, WrittenType
<1>4. /\ xfer \o Written(n) \o end \in Seq(Line)
      /\ xfer # <<>> => xfer \o Written(n) \o end # <<>>
  BY XferWritten
<1>5. xfer' \in Seq(Line) /\ (xfer # <<>> => xfer' # <<>>)
  BY <1>1, <1>4
<1>6. buffer' \in Seq(XrefLines)
  BY <1>2
<1> QED
  BY <1>3, <1>5, <1>6

(* Taking a line from the pipe.                                            *)
LEMMA ReadsType ==
    ASSUME queue \in Seq(Line), NEW op, Reads(op)
    PROVE  Head(queue) \in Line /\ Head(queue).op = op /\ queue' \in Seq(Line)
BY DEF Reads

(* Reverse of a .to key is a .by key.                                      *)
LEMMA ByOfType ==
    ASSUME NEW T \in SUBSET ToKeys
    PROVE  ByOf(T) \in SUBSET ByKeys
BY DEF ByOf, Reverse, ToKeys, ByKeys

-----------------------------------------------------------------------------
(* The tables, each with its type.                                         *)
LEMMA SavedTypes ==
    Saved \in Tables <=>
        /\ files \in [File -> {NoTime} \union (0..MaxTime)]
        /\ fil \in SUBSET FilKeys /\ syms \in SUBSET SymKeys
        /\ to \in SUBSET ToKeys /\ by \in SUBSET ByKeys
BY DEF Saved, Tables

(* A project starts with an empty database of the right type.              *)
THEOREM TypeInit == Init => TypeOK
<1> SUFFICES ASSUME Init PROVE TypeOK
  OBVIOUS
<1> USE NoneAssumption, ContentAssumption, TimeAssumption
<1>1. source \in [File -> Content] /\ mtime \in [File -> 0..MaxTime]
  BY DEF Init
<1>2. Saved \in Tables /\ disk \in Tables
  BY SavedTypes DEF Init
<1>3. last \in [File -> [fil : SUBSET FilKeys, refs : SUBSET ToKeys, whole : BOOLEAN]]
  BY DEF Init, Nothing
<1>4. /\ rest \in Seq(Decl \union Ref) /\ queue \in Seq(Line) /\ xfer \in Seq(Line)
      /\ buffer \in Seq(XrefLines)
  BY DEF Init
<1> QED
  BY <1>1, <1>2, <1>3, <1>4 DEF Init, TypeOK

(* Every line that is written, read and applied, and every step of hyper,  *)
(* keeps the types.                                                        *)
LEMMA TypeStep == TypeOK /\ [Next]_vars => TypeOK'
<1> SUFFICES ASSUME TypeOK, [Next]_vars PROVE TypeOK'
  OBVIOUS
<1> USE NoneAssumption, ContentAssumption, TimeAssumption
<1> USE DEF tables, parser, history
<1>0. /\ files \in [File -> {NoTime} \union (0..MaxTime)]
      /\ fil \in SUBSET FilKeys /\ syms \in SUBSET SymKeys
      /\ to \in SUBSET ToKeys /\ by \in SUBSET ByKeys
  BY SavedTypes DEF TypeOK
<1>a. ASSUME UNCHANGED tables PROVE Saved' = Saved
  BY <1>a DEF Saved
<1>1. ASSUME NEW f \in File, Save(f) PROVE TypeOK'
  BY <1>1, <1>a DEF Save, TypeOK
<1>2. CASE BeginUpdate
  <2>1. PICK F \in (SUBSET Changed) \ {{}} :
           /\ batch' = F /\ todo' = F
           /\ xfer' = <<DelXrefLine({r \in fil : r.file \in F})>>
    BY <1>2 DEF BeginUpdate
  <2>2. DelXrefLine({r \in fil : r.file \in F}) \in Line
    BY <1>0, LinesWritten
  <2>3. xfer' \in Seq(Line)
    BY <2>1, <2>2
  <2>4. batch' \in SUBSET File /\ todo' \in SUBSET batch'
    BY <2>1 DEF Changed
  <2>5. stage' = "none"
    BY <1>2 DEF BeginUpdate, TypeOK
  <2> QED
    BY <1>2, <1>a, <2>3, <2>4, <2>5 DEF BeginUpdate, TypeOK
<1>3. ASSUME NEW f \in File, ParserOpens(f) PROVE TypeOK'
  <2>1. FileLine(f) \in Line
    BY LinesWritten
  <2>2. queue' \in Seq(Line)
    BY <1>3, <2>1 DEF ParserOpens, TypeOK
  <2>3. last' \in [File -> [fil : SUBSET FilKeys, refs : SUBSET ToKeys, whole : BOOLEAN]]
    BY <1>3 DEF ParserOpens, TypeOK, Nothing
  <2> QED
    BY <1>3, <1>a, <2>2, <2>3 DEF ParserOpens, TypeOK
<1>4. ASSUME NEW f \in File, ParserSkips(f) PROVE TypeOK'
  BY <1>4, <1>a DEF ParserSkips, TypeOK
<1>5. CASE ParserReads
  <2>1. reading \in File
    BY <1>5 DEF ParserReads, TypeOK
  <2>2. source[reading] \in Seq(Decl \union Ref)
    BY <2>1 DEF TypeOK
  <2> QED
    BY <1>5, <1>a, <2>1, <2>2 DEF ParserReads, TypeOK
<1>6. CASE PutSymbol
  <2>1. reading \in File
    BY <1>6 DEF PutSymbol, TypeOK
  <2>2. Tail(rest) \in Seq(Decl \union Ref) /\ Head(rest) \in Decl \union Ref
    BY <1>6 DEF PutSymbol, TypeOK
  <2>3. Head(rest) \in Decl
    BY <1>6, <2>2 DEF PutSymbol, Ref
  <2>4. CASE Accepted(Head(rest))
    <3>1. SymKey(reading, Head(rest)) \in SymKeys /\ FilKey(reading, Head(rest)) \in FilKeys
      BY <2>1, <2>3, <2>4, KeyTypes
    <3>2. /\ SymLine(SymKey(reading, Head(rest))) \in Line
          /\ FilLine(FilKey(reading, Head(rest))) \in Line
      BY <3>1, LinesWritten
    <3>3. queue' = queue \o <<SymLine(SymKey(reading, Head(rest))), FilLine(FilKey(reading, Head(rest)))>>
      BY <1>6, <2>4 DEF PutSymbol
    <3>4. queue' \in Seq(Line)
      BY <3>2, <3>3, TwoLines DEF TypeOK
    <3>5. last' = [last EXCEPT ![reading].fil = @ \union {FilKey(reading, Head(rest))}]
      BY <1>6, <2>4 DEF PutSymbol
    <3>6. last' \in [File -> [fil : SUBSET FilKeys, refs : SUBSET ToKeys, whole : BOOLEAN]]
      BY <2>1, <3>1, <3>5 DEF TypeOK
    <3> QED
      BY <1>6, <1>a, <2>2, <3>4, <3>6 DEF PutSymbol, TypeOK
  <2>5. CASE ~Accepted(Head(rest))
    BY <1>6, <1>a, <2>2, <2>5 DEF PutSymbol, TypeOK
  <2> QED
    BY <2>4, <2>5
<1>7. CASE PutCrossRef
  <2> DEFINE t == <<Head(rest).caller, Head(rest).target, reading>>
  <2>1. reading \in File
    BY <1>7 DEF PutCrossRef, TypeOK
  <2>2. Tail(rest) \in Seq(Decl \union Ref) /\ Head(rest) \in Decl \union Ref
    BY <1>7 DEF PutCrossRef, TypeOK
  <2>3. Head(rest) \in Ref
    BY <1>7, <2>2 DEF PutCrossRef, Decl
  <2>4. t \in ToKeys
    BY <2>1, <2>3 DEF Ref, ToKeys
  <2>5. XrefLine(t) \in XrefLines
    BY <2>4, LinesWritten
  <2>6. buffer' = Append(buffer, XrefLine(t))
    BY <1>7 DEF PutCrossRef
  <2>7. buffer' \in Seq(XrefLines)
    <3>1. buffer \in Seq(XrefLines)
      BY DEF TypeOK
    <3> HIDE DEF t
    <3> QED
      BY <2>5, <2>6, <3>1
  <2>8. last' = [last EXCEPT ![reading].refs = @ \union {t}]
    BY <1>7 DEF PutCrossRef
  <2>9. last' \in [File -> [fil : SUBSET FilKeys, refs : SUBSET ToKeys, whole : BOOLEAN]]
    BY <2>1, <2>4, <2>8 DEF TypeOK
  <2> QED
    BY <1>7, <1>a, <2>2, <2>7, <2>9 DEF PutCrossRef, TypeOK
<1>8. CASE ParserCloses
  <2>1. last' \in [File -> [fil : SUBSET FilKeys, refs : SUBSET ToKeys, whole : BOOLEAN]]
    BY <1>8 DEF ParserCloses, TypeOK
  <2> QED
    BY <1>8, <1>a, <2>1 DEF ParserCloses, TypeOK
<1>9. CASE ParserCrashes
  <2>1. lost' \in SUBSET File
    BY <1>9 DEF ParserCrashes, TypeOK
  <2>2. queue' \in Seq(Line) /\ cut' \in SUBSET File
    <3>1. CASE UNCHANGED <<queue, cut>>
      BY <3>1 DEF TypeOK
    <3>2. CASE /\ stage # "none"
               /\ rest # <<>> /\ Head(rest).item = "decl" /\ Accepted(Head(rest))
               /\ queue' = Append(queue, SymLine(SymKey(reading, Head(rest))))
               /\ cut' = cut \union {reading}
      <4>1. Head(rest) \in Decl \union Ref /\ reading \in File
        BY <3>2 DEF TypeOK
      <4>2. Head(rest) \in Decl
        BY <3>2, <4>1 DEF Ref
      <4>3. SymLine(SymKey(reading, Head(rest))) \in Line
        BY <3>2, <4>1, <4>2, KeyTypes, LinesWritten
      <4> QED
        BY <3>2, <4>1, <4>3 DEF TypeOK
    <3> QED
      BY <1>9, <3>1, <3>2 DEF ParserCrashes
  <2>3. rest' \in Seq(Decl \union Ref)
    BY <1>9 DEF ParserCrashes
  <2>4. /\ xfer' \in Seq(Line) /\ (xfer # <<>> => xfer' # <<>>)
        /\ buffer' \in Seq(XrefLines) /\ dropped' \in SUBSET File
    BY <1>9, BufferLostType DEF ParserCrashes, TypeOK
  <2> QED
    BY <1>9, <1>a, <2>1, <2>2, <2>3, <2>4 DEF ParserCrashes, TypeOK
<1>10. CASE StopParse
  <2>1. xfer' \in Seq(Line) /\ xfer' # <<>> /\ buffer' \in Seq(XrefLines)
    BY <1>10 DEF StopParse, TypeOK
  <2> QED
    BY <1>10, <1>a, <2>1 DEF StopParse, TypeOK
<1>11. CASE NextPart
  <2>1. xfer' \in Seq(Line) /\ (xfer # <<>> => xfer' # <<>>) /\ dropped' \in SUBSET File
    BY <1>11, AllWrittenType DEF NextPart, TypeOK
  <2>2. buffer' \in Seq(XrefLines)
    BY <1>11 DEF NextPart
  <2> QED
    BY <1>11, <1>a, <2>1, <2>2 DEF NextPart, TypeOK
<1>12. ASSUME NEW op, Reads(op)
       PROVE  Head(queue) \in Line /\ Head(queue).op = op /\ queue' \in Seq(Line)
  BY <1>12, ReadsType DEF TypeOK
<1>13. ASSUME NEW f \in File, RemoveFileDef(f)
       PROVE  fil' \in SUBSET FilKeys /\ syms' \in SUBSET SymKeys
  BY <1>0, <1>13 DEF RemoveFileDef
<1>b. ASSUME /\ files' \in [File -> {NoTime} \union (0..MaxTime)]
             /\ fil' \in SUBSET FilKeys /\ syms' \in SUBSET SymKeys
             /\ to' \in SUBSET ToKeys /\ by' \in SUBSET ByKeys
      PROVE  Saved' \in Tables
  BY <1>b DEF Saved, Tables
<1>14. CASE ReadFileLine
  <2> DEFINE f == Head(queue).file
  <2>1. f \in File /\ queue' \in Seq(Line)
    BY <1>12, <1>14, LineTypes DEF ReadFileLine
  <2>2. files' = [files EXCEPT ![f] = mtime[f]]
    BY <1>14 DEF ReadFileLine
  <2>3. files' \in [File -> {NoTime} \union (0..MaxTime)]
    BY <1>0, <2>1, <2>2 DEF TypeOK
  <2>4. fil' \in SUBSET FilKeys /\ syms' \in SUBSET SymKeys
    <3>1. UNCHANGED <<fil, syms>> \/ RemoveFileDef(f)
      BY <1>14 DEF ReadFileLine
    <3> QED
      BY <1>0, <1>13, <2>1, <3>1
  <2>5. Saved' \in Tables
    BY <1>0, <1>14, <1>b, <2>3, <2>4 DEF ReadFileLine
  <2> QED
    BY <1>14, <2>1, <2>5 DEF ReadFileLine, TypeOK
<1>15. CASE ReadDelFileLine
  <2>1. Head(queue).file \in File /\ queue' \in Seq(Line)
    BY <1>12, <1>15, LineTypes DEF ReadDelFileLine
  <2>2. fil' \in SUBSET FilKeys /\ syms' \in SUBSET SymKeys
    BY <1>13, <1>15, <2>1 DEF ReadDelFileLine
  <2>3. Saved' \in Tables
    BY <1>0, <1>15, <1>b, <2>2 DEF ReadDelFileLine
  <2> QED
    BY <1>15, <2>1, <2>3 DEF ReadDelFileLine, TypeOK
<1>16. CASE ReadSymLine
  <2>1. Head(queue).sym \in SymKeys /\ queue' \in Seq(Line)
    BY <1>12, <1>16, LineTypes DEF ReadSymLine
  <2>2. Saved' \in Tables
    BY <1>0, <1>16, <1>b, <2>1 DEF ReadSymLine
  <2> QED
    BY <1>16, <2>1, <2>2 DEF ReadSymLine, TypeOK
<1>17. CASE ReadFilLine
  <2>1. Head(queue).fil \in FilKeys /\ queue' \in Seq(Line)
    BY <1>12, <1>17, LineTypes DEF ReadFilLine
  <2>2. Saved' \in Tables
    BY <1>0, <1>17, <1>b, <2>1 DEF ReadFilLine
  <2> QED
    BY <1>17, <2>1, <2>2 DEF ReadFilLine, TypeOK
<1>18. CASE ReadXrefLine
  <2>1. Head(queue).to \in ToKeys /\ queue' \in Seq(Line)
    BY <1>12, <1>18, LineTypes DEF ReadXrefLine
  <2>2. Reverse(Head(queue).to) \in ByKeys
    BY <2>1 DEF Reverse, ToKeys, ByKeys
  <2>3. to' \in SUBSET ToKeys /\ by' \in SUBSET ByKeys
    BY <1>0, <1>18, <2>1, <2>2 DEF ReadXrefLine
  <2>4. Saved' \in Tables
    BY <1>0, <1>18, <1>b, <2>3 DEF ReadXrefLine
  <2> QED
    BY <1>18, <2>1, <2>4 DEF ReadXrefLine, TypeOK
<1>19. CASE ReadDelXrefLine
  <2>1. queue' \in Seq(Line)
    BY <1>12, <1>19 DEF ReadDelXrefLine
  <2>2. to' \in SUBSET ToKeys /\ by' \in SUBSET ByKeys
    BY <1>0, <1>19 DEF ReadDelXrefLine
  <2>3. Saved' \in Tables
    BY <1>0, <1>19, <1>b, <2>2 DEF ReadDelXrefLine
  <2> QED
    BY <1>19, <2>1, <2>3 DEF ReadDelXrefLine, TypeOK
<1>d. CASE ReadBadLine
  <2>1. queue' \in Seq(Line)
    BY <1>12, <1>d DEF ReadBadLine
  <2> QED
    BY <1>d, <1>a, <2>1 DEF ReadBadLine, TypeOK
<1>20. CASE EndParse
  <2>4. AllWritten \in Seq(Line)
    BY AllWrittenType DEF TypeOK
  <2>5. queue' = <<>> \/ queue' = AllWritten
    BY <1>20 DEF EndParse
  <2>6. xfer' = <<>> /\ buffer' = <<>>
    BY <1>20 DEF EndParse
  <2>7. <<>> \in Seq(Line) /\ <<>> \in Seq(XrefLines)
    OBVIOUS
  <2>1. queue' \in Seq(Line) /\ xfer' \in Seq(Line) /\ buffer' \in Seq(XrefLines)
    <3> HIDE DEF AllWritten, Line, XrefLines
    <3>1. queue' \in Seq(Line)
      BY <2>4, <2>5, <2>7, Zenon
    <3>2. xfer' \in Seq(Line) /\ buffer' \in Seq(XrefLines)
      BY <2>6, <2>7, Zenon
    <3> QED
      BY <3>1, <3>2
  <2>3. dropped' \in SUBSET File
    BY <1>20, AllWrittenType DEF EndParse, TypeOK
  <2>2. batch' \in SUBSET File /\ todo' \in SUBSET batch' /\ lost' \in SUBSET File
    BY <1>20 DEF EndParse, TypeOK
  <2> QED
    BY <1>20, <1>a, <2>1, <2>2, <2>3 DEF EndParse, TypeOK
<1>c. phase # "parse" => stage = "none" /\ queue \in Seq(Line)
  BY DEF TypeOK
<1>21. CASE EndImport
  <2>1. stage' = "none" /\ todo' = {}
    BY <1>21, <1>c DEF EndImport, TypeOK
  <2> QED
    BY <1>21, <1>a, <2>1 DEF EndImport, TypeOK
<1>22. CASE CancelXref
  <2>1. Saved' \in Tables /\ disk' \in Tables
    BY <1>0, <1>22, <1>b DEF CancelXref, Saved, Tables
  <2>2. last' \in [File -> [fil : SUBSET FilKeys, refs : SUBSET ToKeys, whole : BOOLEAN]]
    BY <1>22 DEF CancelXref, TypeOK
  <2>3. queue' \in Seq(Line)
    BY <1>22 DEF CancelXref
  <2> QED
    BY <1>22, <1>c, <2>1, <2>2, <2>3 DEF CancelXref, TypeOK
<1>23. CASE BeginUnload
  <2>1. PICK f \in File :
          /\ batch' = {f}
          /\ files' = [files EXCEPT ![f] = NoTime]
          /\ queue' = <<DelFileLine(f), DelXrefLine({r \in fil : r.file = f})>>
          /\ last' = [last EXCEPT ![f] = Nothing]
    BY <1>23 DEF BeginUnload
  <2>2. files' \in [File -> {NoTime} \union (0..MaxTime)]
    BY <1>0, <2>1
  <2>3. Saved' \in Tables /\ disk' \in Tables
    BY <1>0, <1>23, <1>b, <2>2 DEF BeginUnload, Saved, Tables
  <2>4. DelFileLine(f) \in Line /\ DelXrefLine({r \in fil : r.file = f}) \in Line
    BY <1>0, LinesWritten
  <2>5. queue' \in Seq(Line)
    BY <2>1, <2>4
  <2>6. last' \in [File -> [fil : SUBSET FilKeys, refs : SUBSET ToKeys, whole : BOOLEAN]]
    BY <2>1 DEF Nothing, TypeOK
  <2>7. stage' = "none" /\ todo' = {} /\ dropped' \in SUBSET File
    BY <1>23, <1>c DEF BeginUnload, TypeOK
  <2> QED
    BY <1>23, <2>1, <2>3, <2>5, <2>6, <2>7 DEF BeginUnload, TypeOK
<1>24. CASE DbimpDiesAndEnds \/ DbimpDiesAndGoesOn
  <2>1. DbimpDies
    BY <1>24 DEF DbimpDiesAndEnds, DbimpDiesAndGoesOn
  <2>2. /\ disk.files \in [File -> {NoTime} \union (0..MaxTime)]
        /\ disk.fil \in SUBSET FilKeys /\ disk.syms \in SUBSET SymKeys
        /\ disk.to \in SUBSET ToKeys /\ disk.by \in SUBSET ByKeys
    BY DEF TypeOK, Tables
  <2>3. /\ files' \in [File -> {NoTime} \union (0..MaxTime)]
        /\ fil' \in SUBSET FilKeys /\ syms' \in SUBSET SymKeys
        /\ to' \in SUBSET ToKeys /\ by' \in SUBSET ByKeys
    BY <1>0, <2>1, <2>2 DEF DbimpDies
  <2>4. Saved' \in Tables
    BY <1>b, <2>3
  <2>5. disk' \in Tables
    BY <2>1, <2>3 DEF DbimpDies, Tables
  <2>6. rest' \in Seq(Decl \union Ref) /\ queue' \in Seq(Line)
    BY <2>1 DEF DbimpDies
  <2>7. CASE DbimpDiesAndEnds
    <3>1. /\ lck' \in BOOLEAN /\ damaged' \in BOOLEAN /\ xfer' \in Seq(Line)
          /\ buffer' \in Seq(XrefLines)
      BY <2>7 DEF DbimpDiesAndEnds, TypeOK
    <3> QED
      BY <2>1, <2>4, <2>5, <2>6, <2>7, <3>1 DEF DbimpDiesAndEnds, DbimpDies, TypeOK
  <2>8. CASE DbimpDiesAndGoesOn
    <3>1. todo' \in SUBSET batch
      BY <2>8 DEF DbimpDiesAndGoesOn, TypeOK
    <3>2. /\ xfer' \in Seq(Line) /\ (xfer # <<>> => xfer' # <<>>)
          /\ buffer' \in Seq(XrefLines) /\ dropped' \in SUBSET File
      BY <2>8, BufferLostType DEF DbimpDiesAndGoesOn, TypeOK
    <3> QED
      BY <2>1, <2>4, <2>5, <2>6, <2>8, <3>1, <3>2 DEF DbimpDiesAndGoesOn, DbimpDies, TypeOK
  <2> QED
    BY <1>24, <2>7, <2>8
<1>25. CASE Reparse
  <2>1. files' \in [File -> {NoTime} \union (0..MaxTime)]
    BY <1>25 DEF Reparse
  <2>2. Saved' \in Tables /\ disk' \in Tables
    BY <1>25, <1>b, <2>1 DEF Reparse, Tables
  <2>3. last' \in [File -> [fil : SUBSET FilKeys, refs : SUBSET ToKeys, whole : BOOLEAN]]
    BY <1>25 DEF Reparse, Nothing
  <2> QED
    BY <1>25, <2>2, <2>3 DEF Reparse, TypeOK
<1>26. CASE UNCHANGED vars
  BY <1>26, <1>a DEF vars, TypeOK
<1> QED
  BY <1>1, <1>2, <1>3, <1>4, <1>5, <1>6, <1>7, <1>8, <1>9, <1>10, <1>11, <1>14, <1>15,
     <1>16, <1>17, <1>18, <1>19, <1>d, <1>20, <1>21, <1>22, <1>23, <1>24, <1>25, <1>26
     DEF Next, Parse, DbimpReads, Session

(* Each variable of SymbolDb keeps its type, and the parser has a file of  *)
(* the update open only while files are parsed.                            *)
THEOREM TypeCorrect == Spec => []TypeOK
BY TypeInit, TypeStep, PTL DEF Spec

-----------------------------------------------------------------------------
(* .by and the reverse of .to.                                             *)

(* Two references are reversed to the same .by key only if they are the    *)
(* same: deleting by key cannot hit the entry of another one.              *)
LEMMA ReverseInjective ==
    ASSUME NEW t \in ToKeys, NEW u \in ToKeys, Reverse(t) = Reverse(u)
    PROVE  t = u
BY DEF Reverse, ToKeys

(* db_insert_entry on a reference. *)
LEMMA InsertMirrors ==
    ASSUME NEW T \in SUBSET ToKeys, NEW t \in ToKeys
    PROVE  ByOf(T \union {t}) = IF IsLocal(t) THEN ByOf(T) ELSE ByOf(T) \union {Reverse(t)}
BY DEF ByOf

(* db_remove_file_xfer_using_keys on a set of references. *)
LEMMA RemoveMirrors ==
    ASSUME NEW T \in SUBSET ToKeys, NEW D \in SUBSET T
    PROVE  ByOf(T \ D) = ByOf(T) \ ByOf(D)
<1>1. ASSUME NEW b \in ByOf(T \ D) PROVE b \in ByOf(T) /\ b \notin ByOf(D)
  BY <1>1, ReverseInjective DEF ByOf
<1>2. ASSUME NEW b \in ByOf(T), b \notin ByOf(D) PROVE b \in ByOf(T \ D)
  BY <1>2 DEF ByOf
<1> QED
  BY <1>1, <1>2

(* Every line dbimp applies keeps .by the reverse of .to; nothing else     *)
(* writes these tables but the death of a dbimp, which is not Sound.       *)
LEMMA MirrorStep == TypeOK /\ MirrorBy /\ [Next]_vars => MirrorBy'
<1> SUFFICES ASSUME TypeOK, MirrorBy, [Next]_vars, Sound' PROVE by' = ByOf(to')
  BY DEF MirrorBy
<1> USE DEF tables, parser, history
<1>0. to \in SUBSET ToKeys /\ queue \in Seq(Line)
  BY SavedTypes DEF TypeOK
<1>1. ASSUME UNCHANGED <<to, by, lck, damaged>> PROVE by' = ByOf(to')
  BY <1>1 DEF MirrorBy, Sound
<1>2. CASE ReadXrefLine
  <2>1. Sound
    BY <1>2 DEF ReadXrefLine, Sound
  <2>2. Head(queue).to \in ToKeys
    BY <1>0, <1>2, ReadsType, LineTypes DEF ReadXrefLine
  <2>3. to' = to \union {Head(queue).to}
    BY <1>2 DEF ReadXrefLine
  <2>4. by' = IF IsLocal(Head(queue).to) THEN by ELSE by \union {Reverse(Head(queue).to)}
    BY <1>2 DEF ReadXrefLine
  <2>5. by = ByOf(to)
    BY <2>1 DEF MirrorBy
  <2> QED
    BY <1>0, <2>2, <2>3, <2>4, <2>5, InsertMirrors
<1>3. CASE ReadDelXrefLine
  <2> DEFINE dead == MadeBy(to, Head(queue).list)
  <2>1. dead \in SUBSET to
    BY DEF MadeBy
  <2>2. to' = to \ dead /\ by' = by \ ByOf(dead)
    BY <1>3 DEF ReadDelXrefLine
  <2>3. by = ByOf(to)
    BY <1>3 DEF ReadDelXrefLine, MirrorBy, Sound
  <2> QED
    BY <1>0, <2>1, <2>2, <2>3, RemoveMirrors
<1>4. CASE CancelXref \/ Reparse
  BY <1>4 DEF CancelXref, Reparse, ByOf
<1>5. CASE DbimpDiesAndEnds \/ DbimpDiesAndGoesOn
  BY <1>5 DEF DbimpDiesAndEnds, DbimpDiesAndGoesOn, Sound
<1>6. CASE \E f \in File : Save(f) \/ ParserOpens(f) \/ ParserSkips(f)
  BY <1>1, <1>6 DEF Save, ParserOpens, ParserSkips
<1>7. CASE \/ ParserReads \/ PutSymbol \/ PutCrossRef \/ ParserCloses
           \/ ParserCrashes \/ StopParse \/ NextPart
  BY <1>1, <1>7 DEF ParserReads, PutSymbol, PutCrossRef, ParserCloses, ParserCrashes,
                    StopParse, NextPart
<1>8. CASE ReadFileLine \/ ReadDelFileLine \/ ReadSymLine \/ ReadFilLine \/ ReadBadLine
  BY <1>1, <1>8 DEF ReadFileLine, ReadDelFileLine, ReadSymLine, ReadFilLine, ReadBadLine
<1>9. CASE BeginUpdate \/ EndParse \/ EndImport \/ BeginUnload
  BY <1>1, <1>9 DEF BeginUpdate, EndParse, EndImport, BeginUnload
<1>10. CASE UNCHANGED vars
  BY <1>1, <1>10 DEF vars
<1> QED
  BY <1>2, <1>3, <1>4, <1>5, <1>6, <1>7, <1>8, <1>9, <1>10
     DEF Next, Parse, DbimpReads, Session

(* .by holds exactly the references of .to, reversed, but those to local   *)
(* variables, at every line, as long as no dbimp has died.                 *)
THEOREM ByMirrorsTo == Spec => []MirrorBy
<1>1. Init => MirrorBy
  BY DEF Init, MirrorBy, ByOf
<1> QED
  BY <1>1, TypeInit, TypeStep, MirrorStep, PTL DEF Spec
=============================================================================
