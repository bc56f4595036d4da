----------------------- MODULE SymbolDbRecordsProofs -----------------------
(***************************************************************************)
(* What the tables of SymbolDb hold while lines are under way in the pipe, *)
(* for every set of files, names and contents: an import leaves other      *)
(* files alone, no symbol is out of reach, the records and references of a *)
(* file are those of its last parse, an edit is lost to one race only, and *)
(* the whole is an index of the files as SourceIndex promises it.          *)
(***************************************************************************)
EXTENDS SymbolDbProofs

-----------------------------------------------------------------------------
(* The pipe, as a sequence of lines q.                                     *)
Resets(l, f)  == l.op \in {"file", "delfile"} /\ l.file = f
Lists(l, f)   == l.op = "fil" /\ l.fil.file = f
WillReset(q, f) == \E i \in 1..Len(q) : Resets(q[i], f)
Sent(q, f)    == {r \in FilKeys : r.file = f /\ \E i \in 1..Len(q) : q[i].op = "fil" /\ q[i].fil = r}
(* The lines of f follow the one that makes room for them.                 *)
Ordered(q, f) == \A i, j \in 1..Len(q) : Resets(q[i], f) /\ Lists(q[j], f) => i < j

(* A line is read.                                                         *)
LEMMA TailLines ==
    ASSUME NEW q \in Seq(Line), q # <<>>
    PROVE  /\ Tail(q) \in Seq(Line) /\ Len(q) \in Nat \ {0} /\ Len(Tail(q)) = Len(q) - 1
           /\ Head(q) = q[1] /\ Head(q) \in Line
           /\ \A i \in 1..Len(Tail(q)) : i + 1 \in 1..Len(q) /\ Tail(q)[i] = q[i + 1]
           /\ \A i \in 1..Len(q) : i = 1 \/ (i - 1 \in 1..Len(Tail(q)) /\ Tail(q)[i - 1] = q[i])
OBVIOUS

LEMMA TailFacts ==
    ASSUME NEW q \in Seq(Line), q # <<>>, NEW f \in File
    PROVE  /\ WillReset(q, f) <=> Resets(Head(q), f) \/ WillReset(Tail(q), f)
           /\ Sent(q, f) = Sent(Tail(q), f) \union {r \in FilKeys : Lists(Head(q), f) /\ r = Head(q).fil}
           /\ Ordered(q, f) => Ordered(Tail(q), f) /\ (Lists(Head(q), f) => ~WillReset(q, f))
<1> USE TailLines
<1>1. Len(q) \in Nat \ {0}
  OBVIOUS
<1>2. WillReset(q, f) <=> Resets(Head(q), f) \/ WillReset(Tail(q), f)
  <2>1. ASSUME WillReset(q, f) PROVE Resets(Head(q), f) \/ WillReset(Tail(q), f)
    BY <2>1 DEF WillReset
  <2>2. ASSUME Resets(Head(q), f) PROVE WillReset(q, f)
    BY <1>1, <2>2 DEF WillReset
  <2>3. ASSUME WillReset(Tail(q), f) PROVE WillReset(q, f)
    BY <2>3 DEF WillReset
  <2> QED
    BY <2>1, <2>2, <2>3
<1>3. Sent(q, f) = Sent(Tail(q), f) \union {r \in FilKeys : Lists(Head(q), f) /\ r = Head(q).fil}
  <2>1. ASSUME NEW r \in Sent(q, f)
        PROVE  r \in Sent(Tail(q), f) \/ (Lists(Head(q), f) /\ r = Head(q).fil)
    <3>1. PICK i \in 1..Len(q) : q[i].op = "fil" /\ q[i].fil = r
      BY DEF Sent
    <3>2. r \in FilKeys /\ r.file = f
      BY DEF Sent
    <3>3. CASE i = 1
      BY <3>1, <3>2, <3>3 DEF Lists
    <3>4. CASE i - 1 \in 1..Len(Tail(q)) /\ Tail(q)[i - 1] = q[i]
      BY <3>1, <3>2, <3>4 DEF Sent
    <3> QED
      BY <3>3, <3>4
  <2>2. Sent(Tail(q), f) \subseteq Sent(q, f)
    BY DEF Sent
  <2>3. ASSUME NEW r \in FilKeys, Lists(Head(q), f), r = Head(q).fil
        PROVE  r \in Sent(q, f)
    BY <1>1, <2>3 DEF Sent, Lists
  <2> QED
    BY <2>1, <2>2, <2>3 DEF Sent
<1>4. ASSUME Ordered(q, f) PROVE Ordered(Tail(q), f)
  <2> SUFFICES ASSUME NEW i \in 1..Len(Tail(q)), NEW j \in 1..Len(Tail(q)),
                      Resets(Tail(q)[i], f), Lists(Tail(q)[j], f)
               PROVE  i < j
    BY DEF Ordered
  <2>1. /\ i + 1 \in 1..Len(q) /\ Tail(q)[i] = q[i + 1]
        /\ j + 1 \in 1..Len(q) /\ Tail(q)[j] = q[j + 1]
    OBVIOUS
  <2>2. i + 1 < j + 1
    BY <1>4, <2>1 DEF Ordered
  <2> QED
    BY <2>2
<1>5. ASSUME Ordered(q, f), Lists(Head(q), f) PROVE ~WillReset(q, f)
  <2> SUFFICES ASSUME NEW i \in 1..Len(q), Resets(q[i], f) PROVE FALSE
    BY DEF WillReset
  <2>1. 1 \in 1..Len(q) /\ Lists(q[1], f)
    BY <1>1, <1>5
  <2>2. i < 1
    BY <1>5, <2>1 DEF Ordered
  <2> QED
    BY <2>2
<1> QED
  BY <1>2, <1>3, <1>4, <1>5

(* A line is written.                                                      *)
LEMMA AppendLines ==
    ASSUME NEW q \in Seq(Line), NEW l \in Line
    PROVE  /\ Append(q, l) \in Seq(Line) /\ Len(q) \in Nat /\ Len(Append(q, l)) = Len(q) + 1
           /\ \A i \in 1..Len(q) : i \in 1..(Len(q) + 1) /\ Append(q, l)[i] = q[i]
           /\ \A i \in 1..(Len(q) + 1) : i \in 1..Len(q) \/ i = Len(q) + 1
           /\ Append(q, l)[Len(q) + 1] = l
OBVIOUS

LEMMA AppendFacts ==
    ASSUME NEW q \in Seq(Line), NEW l \in Line, NEW f \in File
    PROVE  /\ WillReset(Append(q, l), f) <=> Resets(l, f) \/ WillReset(q, f)
           /\ Sent(Append(q, l), f) = Sent(q, f) \union {r \in FilKeys : Lists(l, f) /\ r = l.fil}
           /\ Ordered(q, f) /\ (Resets(l, f) => Sent(q, f) = {}) => Ordered(Append(q, l), f)
<1> USE AppendLines
<1>1. WillReset(Append(q, l), f) <=> Resets(l, f) \/ WillReset(q, f)
  <2>1. ASSUME WillReset(Append(q, l), f) PROVE Resets(l, f) \/ WillReset(q, f)
    BY <2>1 DEF WillReset
  <2>2. ASSUME Resets(l, f) PROVE WillReset(Append(q, l), f)
    BY <2>2 DEF WillReset
  <2>3. ASSUME WillReset(q, f) PROVE WillReset(Append(q, l), f)
    BY <2>3 DEF WillReset
  <2> QED
    BY <2>1, <2>2, <2>3
<1>2. Sent(Append(q, l), f) = Sent(q, f) \union {r \in FilKeys : Lists(l, f) /\ r = l.fil}
  <2>1. ASSUME NEW r \in Sent(Append(q, l), f) PROVE r \in Sent(q, f) \/ (Lists(l, f) /\ r = l.fil)
    BY <2>1 DEF Sent, Lists
  <2>2. Sent(q, f) \subseteq Sent(Append(q, l), f)
    BY DEF Sent
  <2>3. ASSUME NEW r \in FilKeys, Lists(l, f), r = l.fil PROVE r \in Sent(Append(q, l), f)
    BY <2>3 DEF Sent, Lists
  <2> QED
    BY <2>1, <2>2, <2>3 DEF Sent
<1>3. ASSUME Ordered(q, f), Resets(l, f) => Sent(q, f) = {} PROVE Ordered(Append(q, l), f)
  <2> SUFFICES ASSUME NEW i \in 1..(Len(q) + 1), NEW j \in 1..(Len(q) + 1),
                      Resets(Append(q, l)[i], f), Lists(Append(q, l)[j], f)
               PROVE  i < j
    BY DEF Ordered
  <2>1. CASE i \in 1..Len(q) /\ j \in 1..Len(q)
    BY <1>3, <2>1 DEF Ordered
  <2>2. CASE i \in 1..Len(q) /\ j = Len(q) + 1
    BY <2>2
  <2>3. CASE i = Len(q) + 1
    <3>1. Resets(l, f)
      BY <2>3
    <3>2. j \in 1..Len(q)
      BY <2>3, <3>1 DEF Resets, Lists
    <3>3. q[j] \in Line /\ Lists(q[j], f)
      BY <3>2
    <3>4. q[j].fil \in Sent(q, f)
      BY <3>2, <3>3, LineTypes DEF Sent, Lists
    <3> QED
      BY <1>3, <3>1, <3>4
  <2> QED
    BY <2>1, <2>2, <2>3
<1> QED
  BY <1>1, <1>2, <1>3

-----------------------------------------------------------------------------
(* Which lines are in the pipe and in the xfer file, and whose they are.   *)
Ops(ph) == CASE ph = "parse"  -> {"file", "sym", "fil"}
             [] ph = "xref"   -> {"xref", "delxref", "cut", "junk"}
             [] ph = "unload" -> {"delfile", "delxref"}
             [] OTHER         -> {}

LineFor(l, B) ==
    /\ l.op \in {"file", "delfile"} => l.file \in B
    /\ l.op = "sym" => l.sym.file \in B
    /\ l.op = "fil" => l.fil.file \in B
    /\ l.op = "xref" => l.to[3] \in B
    /\ l.op = "delxref" => \A r \in l.list : r.file \in B

Fits(q, O, B) == \A i \in 1..Len(q) : q[i].op \in O /\ LineFor(q[i], B)

Stream == /\ Fits(queue, Ops(phase), batch)
          /\ Fits(xfer, Ops("xref"), batch)
          /\ Fits(buffer, {"xref"}, batch)
          /\ phase # "parse" => xfer = <<>> /\ buffer = <<>>

LEMMA FitsEmpty ==
    /\ \A O, B : Fits(<<>>, O, B)
    /\ \A q \in Seq(Line) : \A B : Fits(q, {}, B) => q = <<>>
<1>1. \A O, B : Fits(<<>>, O, B)
  BY DEF Fits
<1>2. ASSUME NEW q \in Seq(Line), NEW B, Fits(q, {}, B) PROVE q = <<>>
  <2>1. q # <<>> => 1 \in 1..Len(q)
    OBVIOUS
  <2> QED
    BY <1>2, <2>1 DEF Fits
<1> QED
  BY <1>1, <1>2

LEMMA FitsTail ==
    ASSUME NEW q \in Seq(Line), q # <<>>, NEW O, NEW B, Fits(q, O, B)
    PROVE  Fits(Tail(q), O, B) /\ Head(q).op \in O /\ LineFor(Head(q), B)
<1>1. 1 \in 1..Len(q)
  BY TailLines
<1> QED
  BY <1>1, TailLines DEF Fits

LEMMA FitsAppend ==
    ASSUME NEW q \in Seq(Line), NEW l \in Line, NEW O, NEW B,
           Fits(q, O, B), l.op \in O, LineFor(l, B)
    PROVE  Fits(Append(q, l), O, B)
BY AppendLines DEF Fits

LEMMA FitsOne ==
    ASSUME NEW l \in Line, NEW O, NEW B, l.op \in O, LineFor(l, B)
    PROVE  Fits(<<l>>, O, B)
BY DEF Fits

(* What comes into the xfer file when a parser ends: its lines as before,  *)
(* then lines of the buffer in their order, then perhaps a cut one.        *)
LEMMA WrittenLines ==
    ASSUME TypeOK, NEW n \in 0..Len(buffer), NEW end \in {<<>>, <<CutLine>>}
    PROVE  LET y == xfer \o Written(n) \o end
           IN  /\ y \in Seq(Line) /\ Len(xfer) \in Nat /\ Len(y) = Len(xfer) + n + Len(end)
               /\ Len(end) \in {0, 1}
               /\ \A i \in 1..Len(xfer) : i \in 1..Len(y) /\ y[i] = xfer[i]
               /\ \A i \in 1..n : Len(xfer) + i \in 1..Len(y) /\ y[Len(xfer) + i] = Written(n)[i]
               /\ \A i \in 1..Len(y) : \/ i \in 1..Len(xfer) \/ i - Len(xfer) \in 1..n
                                       \/ y[i] = CutLine
<1>1. xfer \in Seq(Line) /\ buffer \in Seq(XrefLines)
  BY DEF TypeOK
<1>2. Written(n) \in Seq(Line) /\ Len(Written(n)) = n
  BY <1>1, WrittenType
<1>3. xfer \o Written(n) \o end \in Seq(Line)
  BY <1>1, XferWritten
<1>4. \A a, b \in Seq(Line) :
         LET y == a \o b \o <<>>
         IN  /\ Len(a) \in Nat /\ Len(b) \in Nat /\ Len(y) = Len(a) + Len(b)
             /\ \A i \in 1..Len(a) : i \in 1..Len(y) /\ y[i] = a[i]
             /\ \A i \in 1..Len(b) : Len(a) + i \in 1..Len(y) /\ y[Len(a) + i] = b[i]
             /\ \A i \in 1..Len(y) : i \in 1..Len(a) \/ i - Len(a) \in 1..Len(b)
  OBVIOUS
<1>5. \A a, b \in Seq(Line), c \in Line :
         LET y == a \o b \o <<c>>
         IN  /\ Len(a) \in Nat /\ Len(b) \in Nat /\ Len(y) = Len(a) + Len(b) + 1
             /\ \A i \in 1..Len(a) : i \in 1..Len(y) /\ y[i] = a[i]
             /\ \A i \in 1..Len(b) : Len(a) + i \in 1..Len(y) /\ y[Len(a) + i] = b[i]
             /\ \A i \in 1..Len(y) : i \in 1..Len(a) \/ i - Len(a) \in 1..Len(b) \/ y[i] = c
  OBVIOUS
<1>6. CASE end = <<>>
  <2> DEFINE w == Written(n)
             y == xfer \o w \o <<>>
  <2>1. Len(<<>>) = 0 /\ n \in Nat
    BY <1>1
  <2>2. w \in Seq(Line) /\ Len(w) = n
    BY <1>2
  <2> HIDE DEF w
  <2>3. /\ Len(xfer) \in Nat /\ Len(y) = Len(xfer) + n
        /\ \A i \in 1..Len(xfer) : i \in 1..Len(y) /\ y[i] = xfer[i]
        /\ \A i \in 1..n : Len(xfer) + i \in 1..Len(y) /\ y[Len(xfer) + i] = w[i]
        /\ \A i \in 1..Len(y) : i \in 1..Len(xfer) \/ i - Len(xfer) \in 1..n
    BY <1>1, <1>4, <2>2
  <2> HIDE DEF y
  <2>4. /\ y \in Seq(Line) /\ Len(y) = Len(xfer) + n + Len(end) /\ Len(end) \in {0, 1}
    BY <1>3, <1>6, <2>1, <2>3 DEF w, y
  <2>5. y = xfer \o Written(n) \o end
    BY <1>6 DEF w, y
  <2> QED
    BY <2>3, <2>4, <2>5 DEF w
<1>7. CASE end = <<CutLine>>
  <2>1. CutLine \in Line /\ Len(end) = 1
    BY <1>7, LinesWritten
  <2> DEFINE w == Written(n)
             y == xfer \o w \o <<CutLine>>
  <2>2. w \in Seq(Line) /\ Len(w) = n
    BY <1>2
  <2> HIDE DEF w
  <2>3. /\ Len(xfer) \in Nat /\ Len(y) = Len(xfer) + Len(w) + 1
        /\ \A i \in 1..Len(xfer) : i \in 1..Len(y) /\ y[i] = xfer[i]
        /\ \A i \in 1..Len(w) : Len(xfer) + i \in 1..Len(y) /\ y[Len(xfer) + i] = w[i]
        /\ \A i \in 1..Len(y) : i \in 1..Len(xfer) \/ i - Len(xfer) \in 1..Len(w) \/ y[i] = CutLine
    BY <1>1, <1>5, <2>1, <2>2, Zenon
  <2> HIDE DEF y
  <2>4. y = xfer \o Written(n) \o end
    BY <1>7 DEF w, y
  <2>5. y \in Seq(Line) /\ Len(y) = Len(xfer) + n + Len(end) /\ Len(end) \in {0, 1}
    BY <1>3, <2>1, <2>2, <2>3, <2>4
  <2> QED
    BY <2>2, <2>3, <2>4, <2>5 DEF w
<1> QED
  BY <1>6, <1>7

(* A parser that ends regularly leaves no cut line.                        *)
LEMMA AllWrittenIs ==
    ASSUME TypeOK
    PROVE  /\ Len(buffer) \in 0..Len(buffer)
           /\ AllWritten = xfer \o Written(Len(buffer)) \o <<>>
<1>1. Len(buffer) \in 0..Len(buffer)
  BY DEF TypeOK
<1>2. xfer \in Seq(Line) /\ Written(Len(buffer)) \in Seq(Line)
  BY <1>1, WrittenType DEF TypeOK
<1>3. \A a, b \in Seq(Line) : a \o b = a \o b \o <<>>
  OBVIOUS
<1> QED
  BY <1>1, <1>2, <1>3 DEF AllWritten

LEMMA AllWrittenLen ==
    ASSUME TypeOK
    PROVE  buffer = <<>> => Len(AllWritten) = Len(xfer)
<1>1. Len(AllWritten) = Len(xfer) + Len(buffer) + Len(<<>>) /\ Len(xfer) \in Nat
  BY AllWrittenIs, WrittenLines
<1> QED
  BY <1>1

LEMMA FitsWritten ==
    ASSUME TypeOK, Stream, NEW n \in 0..Len(buffer), NEW end \in {<<>>, <<CutLine>>}
    PROVE  Fits(xfer \o Written(n) \o end, Ops("xref"), batch)
<1> DEFINE y == xfer \o Written(n) \o end
<1>1. /\ \A i \in 1..Len(xfer) : y[i] = xfer[i]
      /\ \A i \in 1..n : y[Len(xfer) + i] = Written(n)[i]
      /\ \A i \in 1..Len(y) : i \in 1..Len(xfer) \/ i - Len(xfer) \in 1..n \/ y[i] = CutLine
      /\ Len(xfer) \in Nat
  BY WrittenLines
<1>2. /\ CutLine.op \in Ops("xref") /\ LineFor(CutLine, batch)
      /\ JunkLine.op \in Ops("xref") /\ LineFor(JunkLine, batch)
  BY DEF CutLine, JunkLine, Ops, LineFor
<1>3. \A i \in 1..n : Written(n)[i] \in {JunkLine, buffer[i]} /\ i \in 1..Len(buffer)
  BY WrittenType DEF TypeOK
<1>4. \A i \in 1..n : Written(n)[i].op \in Ops("xref") /\ LineFor(Written(n)[i], batch)
  BY <1>2, <1>3 DEF Stream, Fits, Ops
<1> HIDE DEF y
<1>5. ASSUME NEW i \in 1..Len(y) PROVE y[i].op \in Ops("xref") /\ LineFor(y[i], batch)
  <2>1. CASE i \in 1..Len(xfer)
    BY <1>1, <2>1 DEF Stream, Fits
  <2>2. CASE i - Len(xfer) \in 1..n
    <3>1. i = Len(xfer) + (i - Len(xfer))
      BY <1>1
    <3> QED
      BY <1>1, <1>4, <2>2, <3>1
  <2>3. CASE y[i] = CutLine
    BY <1>2, <2>3
  <2> QED
    BY <1>1, <2>1, <2>2, <2>3
<1>6. Fits(y, Ops("xref"), batch)
  BY <1>5 DEF Fits
<1> QED
  BY <1>6 DEF y

LEMMA FitsAllWritten ==
    ASSUME TypeOK, Stream
    PROVE  Fits(AllWritten, Ops("xref"), batch)
BY AllWrittenIs, FitsWritten

(* put_symbol writes its two lines one after the other.                    *)
LEMMA TwoAppends ==
    ASSUME NEW q \in Seq(Line), NEW k \in Line, NEW l \in Line
    PROVE  q \o <<k, l>> = Append(Append(q, k), l)
OBVIOUS

LEMMA LinesFor ==
    ASSUME NEW B
    PROVE  /\ \A f \in File : LineFor(FileLine(f), B) <=> f \in B
           /\ \A f \in File : LineFor(DelFileLine(f), B) <=> f \in B
           /\ \A k \in SymKeys : LineFor(SymLine(k), B) <=> k.file \in B
           /\ \A r \in FilKeys : LineFor(FilLine(r), B) <=> r.file \in B
           /\ \A t \in ToKeys : LineFor(XrefLine(t), B) <=> t[3] \in B
           /\ \A L \in SUBSET FilKeys : LineFor(DelXrefLine(L), B) <=> \A r \in L : r.file \in B
BY DEF LineFor, FileLine, DelFileLine, SymLine, FilLine, XrefLine, DelXrefLine

(* What the actions of the parser write.                                   *)
LEMMA PutSymbolLines ==
    ASSUME TypeOK, PutSymbol
    PROVE  /\ reading \in File /\ reading \in batch /\ phase = "parse"
           /\ Head(rest) \in Decl
           /\ \/ /\ ~Accepted(Head(rest)) /\ UNCHANGED <<queue, last>>
              \/ LET k == SymKey(reading, Head(rest))
                     r == FilKey(reading, Head(rest))
                 IN  /\ Accepted(Head(rest))
                     /\ k \in SymKeys /\ SymLine(k) \in Line
                     /\ r \in FilKeys /\ FilLine(r) \in Line
                     /\ queue' = Append(Append(queue, SymLine(k)), FilLine(r))
                     /\ last' = [last EXCEPT ![reading].fil = @ \union {r}]
<1>1. reading \in File /\ reading \in batch /\ phase = "parse" /\ queue \in Seq(Line)
  BY DEF PutSymbol, TypeOK
<1>2. Head(rest) \in Decl \union Ref
  BY DEF PutSymbol, TypeOK
<1>3. Head(rest) \in Decl
  BY <1>2 DEF PutSymbol, Ref
<1>4. ASSUME Accepted(Head(rest))
      PROVE  LET k == SymKey(reading, Head(rest))
                 r == FilKey(reading, Head(rest))
             IN  /\ k \in SymKeys /\ SymLine(k) \in Line
                 /\ r \in FilKeys /\ FilLine(r) \in Line
                 /\ queue' = Append(Append(queue, SymLine(k)), FilLine(r))
                 /\ last' = [last EXCEPT ![reading].fil = @ \union {r}]
  <2>1. /\ SymKey(reading, Head(rest)) \in SymKeys
        /\ FilKey(reading, Head(rest)) \in FilKeys
    BY <1>1, <1>3, <1>4, KeyTypes
  <2>2. /\ SymLine(SymKey(reading, Head(rest))) \in Line
        /\ FilLine(FilKey(reading, Head(rest))) \in Line
    BY <2>1, LinesWritten
  <2> QED
    BY <1>1, <1>4, <2>1, <2>2, TwoAppends DEF PutSymbol
<1>5. CASE Accepted(Head(rest))
  BY <1>1, <1>3, <1>4, <1>5
<1>6. CASE ~Accepted(Head(rest))
  BY <1>1, <1>3, <1>6 DEF PutSymbol
<1> QED
  BY <1>5, <1>6

LEMMA ParserCrashesLines ==
    ASSUME TypeOK, Stream, ParserCrashes
    PROVE  /\ phase = "parse" /\ buffer' = <<>>
           /\ \E n \in 0..Len(buffer), end \in {<<>>, <<CutLine>>} :
                 xfer' = xfer \o Written(n) \o end /\ dropped' = dropped \union NotWritten(n)
           /\ \/ UNCHANGED <<queue, cut>>
              \/ LET k == SymKey(reading, Head(rest))
                 IN  /\ reading \in batch
                     /\ k \in SymKeys /\ SymLine(k) \in Line
                     /\ queue' = Append(queue, SymLine(k))
                     /\ cut' = cut \union {reading}
<1>1. phase = "parse"
  BY DEF ParserCrashes, TypeOK, Stream
<1>2. ASSUME stage # "none", rest # <<>>, Head(rest).item = "decl", Accepted(Head(rest))
      PROVE  /\ SymKey(reading, Head(rest)) \in SymKeys /\ SymLine(SymKey(reading, Head(rest))) \in Line
             /\ reading \in batch
  <2>1. Head(rest) \in Decl \union Ref /\ reading \in File /\ reading \in batch
    BY <1>2 DEF TypeOK
  <2>2. Head(rest) \in Decl
    BY <1>2, <2>1 DEF Ref
  <2> QED
    BY <1>2, <2>1, <2>2, KeyTypes, LinesWritten
<1>3. /\ buffer' = <<>>
      /\ \E n \in 0..Len(buffer), end \in {<<>>, <<CutLine>>} :
            xfer' = xfer \o Written(n) \o end /\ dropped' = dropped \union NotWritten(n)
  BY DEF ParserCrashes, BufferLost
<1> QED
  BY <1>1, <1>2, <1>3 DEF ParserCrashes

(* A line is read, and the phase goes on.                                  *)
LEMMA DbimpReadsLines ==
    ASSUME TypeOK, DbimpReads
    PROVE  /\ queue # <<>> /\ queue' = Tail(queue) /\ Head(queue) \in Line
           /\ UNCHANGED <<source, mtime, disk, phase, batch, todo, reading, stage, rest, xfer,
                          buffer, lck, damaged, last, lost, dropped, cut, raced>>
BY DEF TypeOK, DbimpReads, ReadFileLine, ReadDelFileLine, ReadSymLine, ReadFilLine,
   ReadXrefLine, ReadDelXrefLine, ReadBadLine, Reads, parser, history

LEMMA BufferLines ==
    ASSUME NEW q \in Seq(XrefLines)
    PROVE  q \in Seq(Line)
<1>1. \A i \in 1..Len(q) : q[i] \in Line
  BY LinesWritten
<1>2. Len(q) \in Nat /\ q = [i \in 1..Len(q) |-> q[i]]
  OBVIOUS
<1> HIDE DEF Line
<1> QED
  BY <1>1, <1>2

LEMMA StreamStep == TypeOK /\ Stream /\ [Next]_vars => Stream'
<1> SUFFICES ASSUME TypeOK, Stream, [Next]_vars PROVE Stream'
  OBVIOUS
<1> USE DEF tables, parser, history
<1>0. /\ queue \in Seq(Line) /\ xfer \in Seq(Line) /\ buffer \in Seq(XrefLines)
      /\ fil \in SUBSET FilKeys /\ todo \in SUBSET batch
  BY SavedTypes DEF TypeOK
<1>1. ASSUME UNCHANGED <<queue, xfer, buffer, phase, batch>> PROVE Stream'
  BY <1>1 DEF Stream
<1>2. ASSUME NEW l \in Line, phase = "parse", queue' = Append(queue, l), l.op \in Ops("parse"),
             LineFor(l, batch), UNCHANGED <<xfer, buffer, phase, batch>>
      PROVE  Stream'
  BY <1>0, <1>2, FitsAppend DEF Stream
<1>3. CASE BeginUpdate
  <2>1. PICK F \in (SUBSET Changed) \ {{}} :
           /\ batch' = F /\ xfer' = <<DelXrefLine({r \in fil : r.file \in F})>>
    BY <1>3 DEF BeginUpdate
  <2>2. queue' = <<>> /\ phase' = "parse" /\ buffer' = <<>>
    <3>1. Fits(queue, {}, batch)
      BY <1>3 DEF BeginUpdate, Stream, Ops
    <3> QED
      BY <1>0, <1>3, <3>1, FitsEmpty DEF BeginUpdate, Stream
  <2>3. {r \in fil : r.file \in F} \in SUBSET FilKeys
    BY <1>0
  <2>4. /\ DelXrefLine({r \in fil : r.file \in F}) \in Line
        /\ DelXrefLine({r \in fil : r.file \in F}).op \in Ops("xref")
        /\ LineFor(DelXrefLine({r \in fil : r.file \in F}), F)
    BY <2>3, LinesWritten, LinesFor DEF DelXrefLine, Ops
  <2>5. Fits(xfer', Ops("xref"), batch')
    BY <2>1, <2>4, FitsOne
  <2> QED
    BY <2>2, <2>5, FitsEmpty DEF Stream
<1>4. ASSUME NEW f \in File, ParserOpens(f) PROVE Stream'
  <2>1. /\ phase = "parse" /\ f \in batch
        /\ queue' = Append(queue, FileLine(f)) /\ UNCHANGED <<xfer, buffer, phase, batch>>
    BY <1>0, <1>4 DEF ParserOpens
  <2>2. /\ FileLine(f) \in Line /\ FileLine(f).op \in Ops("parse")
        /\ LineFor(FileLine(f), batch)
    BY <2>1, LinesWritten, LinesFor DEF FileLine, Ops
  <2> QED
    BY <1>2, <2>1, <2>2
<1>5. CASE PutSymbol
  <2> DEFINE k == SymKey(reading, Head(rest))
             r == FilKey(reading, Head(rest))
  <2>1. UNCHANGED <<xfer, buffer, phase, batch>> /\ phase = "parse" /\ reading \in batch
    BY <1>5, PutSymbolLines DEF PutSymbol
  <2>2. CASE UNCHANGED queue
    BY <1>1, <2>1, <2>2
  <2>3. CASE /\ k \in SymKeys /\ SymLine(k) \in Line /\ r \in FilKeys /\ FilLine(r) \in Line
             /\ queue' = Append(Append(queue, SymLine(k)), FilLine(r))
    <3>1. k.file = reading /\ r.file = reading
      BY DEF SymKey, FilKey
    <3>2. LineFor(SymLine(k), batch) /\ LineFor(FilLine(r), batch)
      <4> HIDE DEF k, r
      <4> QED
        BY <2>1, <2>3, <3>1, LinesFor
    <3>3. SymLine(k).op \in Ops("parse") /\ FilLine(r).op \in Ops("parse")
      BY DEF SymLine, FilLine, Ops
    <3>4. /\ Append(queue, SymLine(k)) \in Seq(Line)
          /\ Fits(Append(queue, SymLine(k)), Ops("parse"), batch)
      BY <1>0, <2>1, <2>3, <3>2, <3>3, FitsAppend, AppendLines DEF Stream
    <3>5. Fits(queue', Ops("parse"), batch)
      <4> HIDE DEF k, r
      <4> QED
        BY <2>3, <3>2, <3>3, <3>4, FitsAppend
    <3> QED
      BY <2>1, <3>5 DEF Stream
  <2> QED
    BY <1>5, <2>2, <2>3, PutSymbolLines
<1>6. CASE PutCrossRef
  <2> DEFINE t == <<Head(rest).caller, Head(rest).target, reading>>
  <2>1. reading \in File /\ reading \in batch /\ phase = "parse"
    BY <1>6 DEF PutCrossRef, TypeOK
  <2>2. Head(rest) \in Decl \union Ref
    BY <1>6 DEF PutCrossRef, TypeOK
  <2>3. Head(rest) \in Ref
    BY <1>6, <2>2 DEF PutCrossRef, Decl
  <2>4. t \in ToKeys /\ t[3] = reading
    BY <2>1, <2>3 DEF Ref, ToKeys
  <2>5. buffer' = Append(buffer, XrefLine(t)) /\ UNCHANGED <<queue, xfer, phase, batch>>
    BY <1>6 DEF PutCrossRef
  <2>6. XrefLine(t) \in Line /\ LineFor(XrefLine(t), batch) /\ XrefLine(t).op \in {"xref"}
    BY <2>1, <2>4, LinesWritten, LinesFor DEF XrefLine
  <2>7. Fits(buffer', {"xref"}, batch)
    <3>1. buffer \in Seq(Line)
      BY <1>0, BufferLines
    <3> HIDE DEF t
    <3> QED
      BY <2>5, <2>6, <3>1, FitsAppend DEF Stream
  <2> QED
    BY <2>1, <2>5, <2>7 DEF Stream
<1>7. CASE ParserCrashes
  <2> DEFINE k == SymKey(reading, Head(rest))
  <2>1. UNCHANGED <<phase, batch>> /\ phase = "parse" /\ buffer' = <<>>
    BY <1>7, ParserCrashesLines DEF ParserCrashes
  <2>2. Fits(xfer', Ops("xref"), batch)
    BY <1>7, ParserCrashesLines, FitsWritten
  <2>3. Fits(queue', Ops("parse"), batch)
    <3>1. CASE UNCHANGED queue
      BY <2>1, <3>1 DEF Stream
    <3>2. CASE /\ k \in SymKeys /\ SymLine(k) \in Line /\ queue' = Append(queue, SymLine(k))
               /\ reading \in batch
      <4>1. k.file = reading /\ SymLine(k).op \in Ops("parse")
        BY DEF SymKey, SymLine, Ops
      <4> HIDE DEF k
      <4>2. LineFor(SymLine(k), batch)
        BY <3>2, <4>1, LinesFor
      <4> QED
        BY <1>0, <2>1, <3>2, <4>1, <4>2, FitsAppend DEF Stream
    <3> QED
      BY <1>7, <3>1, <3>2, ParserCrashesLines
  <2> QED
    BY <2>1, <2>2, <2>3, FitsEmpty DEF Stream
<1>8. CASE StopParse
  <2>1. /\ phase = "parse" /\ xfer # <<>> /\ xfer' = <<Head(xfer)>> /\ buffer' = <<>>
        /\ UNCHANGED <<queue, phase, batch>>
    BY <1>8 DEF StopParse, TypeOK
  <2>2. Head(xfer) \in Line /\ Head(xfer).op \in Ops("xref") /\ LineFor(Head(xfer), batch)
    BY <1>0, <2>1, FitsTail, TailLines DEF Stream
  <2>3. Fits(xfer', Ops("xref"), batch)
    BY <2>1, <2>2, FitsOne
  <2> QED
    BY <2>1, <2>3, FitsEmpty DEF Stream
<1>16. CASE NextPart
  <2>1. /\ phase = "parse" /\ xfer' = AllWritten /\ buffer' = <<>>
        /\ UNCHANGED <<queue, phase, batch>>
    BY <1>16 DEF NextPart
  <2> QED
    BY <2>1, FitsAllWritten, FitsEmpty DEF Stream
<1>9. CASE DbimpReads
  <2>1. queue # <<>> /\ queue' = Tail(queue) /\ UNCHANGED <<xfer, buffer, phase, batch>>
    BY <1>9, DbimpReadsLines
  <2> QED
    BY <1>0, <2>1, FitsTail DEF Stream
<1>10. CASE EndParse
  <2>1. xfer' = <<>> /\ buffer' = <<>> /\ phase = "parse"
    BY <1>10 DEF EndParse
  <2>2. \/ queue' = <<>> /\ phase' = "idle"
        \/ queue' = AllWritten /\ phase' = "xref" /\ batch' = batch
    BY <1>10 DEF EndParse
  <2>3. Fits(queue', Ops(phase'), batch')
    BY <2>2, FitsEmpty, FitsAllWritten
  <2>4. phase' # "parse"
    BY <2>2
  <2> QED
    BY <2>1, <2>3, <2>4, FitsEmpty DEF Stream
<1>11. CASE EndImport \/ CancelXref
  <2>1. queue' = <<>> /\ UNCHANGED <<xfer, buffer>> /\ phase # "parse" /\ phase' = "idle"
    BY <1>11 DEF EndImport, CancelXref
  <2>2. xfer = <<>> /\ buffer = <<>>
    BY <2>1 DEF Stream
  <2> QED
    BY <2>1, <2>2, FitsEmpty DEF Stream
<1>12. CASE BeginUnload
  <2>1. PICK f \in File :
          /\ batch' = {f}
          /\ queue' = <<DelFileLine(f), DelXrefLine({r \in fil : r.file = f})>>
    BY <1>12 DEF BeginUnload
  <2>2. {r \in fil : r.file = f} \in SUBSET FilKeys
    BY <1>0
  <2>3. /\ DelFileLine(f).op \in Ops("unload") /\ LineFor(DelFileLine(f), {f})
        /\ DelXrefLine({r \in fil : r.file = f}).op \in Ops("unload")
        /\ LineFor(DelXrefLine({r \in fil : r.file = f}), {f})
    BY <2>2, LinesFor DEF DelFileLine, DelXrefLine, Ops
  <2>4. Fits(queue', Ops("unload"), {f})
    BY <2>1, <2>3 DEF Fits
  <2>5. phase' = "unload" /\ xfer' = <<>> /\ buffer' = <<>>
    BY <1>12 DEF BeginUnload, Stream
  <2> QED
    BY <2>1, <2>4, <2>5, FitsEmpty DEF Stream
<1>13. CASE DbimpDiesAndEnds
  <2>1. queue' = <<>> /\ xfer' = <<>> /\ buffer' = <<>> /\ phase' = "idle"
    BY <1>13 DEF DbimpDiesAndEnds, DbimpDies
  <2> QED
    BY <2>1, FitsEmpty DEF Stream
<1>14. CASE DbimpDiesAndGoesOn
  <2>1. queue' = <<>> /\ buffer' = <<>> /\ phase = "parse" /\ UNCHANGED <<phase, batch>>
    BY <1>14 DEF DbimpDiesAndGoesOn, DbimpDies, BufferLost
  <2>2. Fits(xfer', Ops("xref"), batch)
    BY <1>14, FitsWritten DEF DbimpDiesAndGoesOn, BufferLost
  <2> QED
    BY <2>1, <2>2, FitsEmpty DEF Stream
<1>15. CASE \/ \E f \in File : Save(f) \/ ParserSkips(f)
            \/ ParserReads \/ ParserCloses \/ Reparse \/ UNCHANGED vars
  BY <1>1, <1>15 DEF Save, ParserSkips, ParserReads, ParserCloses, Reparse, vars
<1> QED
  BY <1>3, <1>4, <1>5, <1>6, <1>7, <1>8, <1>9, <1>10, <1>11, <1>12, <1>13, <1>14, <1>15, <1>16
     DEF Next, Parse, Session

LEMMA StreamInit == Init => Stream
BY FitsEmpty DEF Init, Stream

-----------------------------------------------------------------------------
(* A line dbimp reads is one for a file of the update, and what it removes *)
(* or adds are records of that file.                                       *)
LEMMA OthersStep ==
    ASSUME TypeOK, Stream, DbimpReads, NEW f \in File, f \notin batch
    PROVE  /\ {r \in fil' : r.file = f} = {r \in fil : r.file = f}
           /\ {k \in syms' : k.file = f} = {k \in syms : k.file = f}
           /\ {t \in to' : t[3] = f} = {t \in to : t[3] = f}
<1> DEFINE h == Head(queue)
<1>1. queue \in Seq(Line) /\ queue # <<>> /\ h \in Line
  BY DbimpReadsLines DEF TypeOK
<1>2. LineFor(h, batch)
  BY <1>1, FitsTail DEF Stream
<1>3. ASSUME NEW g, g # f, RemoveFileDef(g)
      PROVE  /\ {r \in fil' : r.file = f} = {r \in fil : r.file = f}
             /\ {k \in syms' : k.file = f} = {k \in syms : k.file = f}
  BY <1>3 DEF RemoveFileDef, DelKey
<1>4. CASE ReadFileLine \/ ReadDelFileLine
  <2>1. h.op \in {"file", "delfile"} /\ h.file # f
    BY <1>2, <1>4 DEF ReadFileLine, ReadDelFileLine, Reads, LineFor
  <2>2. UNCHANGED <<fil, syms>> \/ RemoveFileDef(h.file)
    BY <1>4 DEF ReadFileLine, ReadDelFileLine
  <2>3. to' = to
    BY <1>4 DEF ReadFileLine, ReadDelFileLine
  <2> QED
    BY <1>3, <2>1, <2>2, <2>3
<1>5. CASE ReadSymLine
  <2>1. h.sym.file # f /\ syms' = syms \union {h.sym} /\ UNCHANGED <<fil, to>>
    BY <1>2, <1>5 DEF ReadSymLine, Reads, LineFor
  <2> QED
    BY <2>1
<1>6. CASE ReadFilLine
  <2>1. h.fil.file # f /\ fil' = fil \union {h.fil} /\ UNCHANGED <<syms, to>>
    BY <1>2, <1>6 DEF ReadFilLine, Reads, LineFor
  <2> QED
    BY <2>1
<1>7. CASE ReadXrefLine
  <2>1. h.to[3] # f /\ to' = to \union {h.to} /\ UNCHANGED <<fil, syms>>
    BY <1>2, <1>7 DEF ReadXrefLine, Reads, LineFor
  <2> QED
    BY <2>1
<1>8. CASE ReadDelXrefLine
  <2>1. /\ \A r \in h.list : r.file # f
        /\ to' = to \ MadeBy(to, h.list) /\ UNCHANGED <<fil, syms>>
    BY <1>2, <1>8 DEF ReadDelXrefLine, Reads, LineFor
  <2>2. \A t \in MadeBy(to, h.list) : t[3] # f
    BY <2>1 DEF MadeBy
  <2> QED
    BY <2>1, <2>2
<1>9. CASE ReadBadLine
  BY <1>9 DEF ReadBadLine, tables
<1> QED
  BY <1>4, <1>5, <1>6, <1>7, <1>8, <1>9 DEF DbimpReads

(* An import, an unload included, touches the records of the files it is   *)
(* run for only, with lines of any number of files in the pipe.            *)
THEOREM ImportTouchesItsFiles == Spec => OthersUntouched
<1>1. ASSUME TypeOK, Stream, [Next]_vars
      PROVE  [DbimpReads => \A f \in File \ batch :
                /\ {r \in fil' : r.file = f} = {r \in fil : r.file = f}
                /\ {k \in syms' : k.file = f} = {k \in syms : k.file = f}
                /\ {t \in to' : t[3] = f} = {t \in to : t[3] = f}]_vars
  BY <1>1, OthersStep
<1> QED
  BY <1>1, TypeInit, TypeStep, StreamInit, StreamStep, PTL DEF Spec, OthersUntouched

-----------------------------------------------------------------------------
(* A symbol whose .fil record is there, or in the pipe behind it, or is    *)
(* not to be expected.                                                     *)
Exempt(k, C)   == Undeletable(k) \/ k.file \in C
Finds(l, k)    == l.op = "fil" /\ DelKey(l.fil) = k
Promised(q, k) == \E i \in 1..Len(q) : Finds(q[i], k)
Paired(q, C) ==
    \A i \in 1..Len(q) : q[i].op = "sym" =>
        Exempt(q[i].sym, C) \/ \E j \in 1..Len(q) : i < j /\ Finds(q[j], q[i].sym)

Listing == Sound =>
    /\ Paired(queue, cut)
    /\ \A k \in syms : Exempt(k, cut) \/ (\E r \in fil : DelKey(r) = k) \/ Promised(queue, k)

LEMMA PairedTail ==
    ASSUME NEW q \in Seq(Line), q # <<>>, NEW C, Paired(q, C)
    PROVE  /\ Paired(Tail(q), C)
           /\ Head(q).op = "sym" => Exempt(Head(q).sym, C) \/ Promised(Tail(q), Head(q).sym)
           /\ \A k : Promised(q, k) => Finds(Head(q), k) \/ Promised(Tail(q), k)
<1> USE TailLines
<1>1. ASSUME NEW i \in 1..Len(Tail(q)), Tail(q)[i].op = "sym", ~Exempt(Tail(q)[i].sym, C)
      PROVE  \E j \in 1..Len(Tail(q)) : i < j /\ Finds(Tail(q)[j], Tail(q)[i].sym)
  <2>1. i + 1 \in 1..Len(q) /\ Tail(q)[i] = q[i + 1]
    OBVIOUS
  <2>2. PICK j \in 1..Len(q) : i + 1 < j /\ Finds(q[j], q[i + 1].sym)
    BY <1>1, <2>1 DEF Paired
  <2>3. j - 1 \in 1..Len(Tail(q)) /\ Tail(q)[j - 1] = q[j] /\ i < j - 1
    BY <2>2
  <2> QED
    BY <2>1, <2>2, <2>3
<1>2. ASSUME Head(q).op = "sym", ~Exempt(Head(q).sym, C) PROVE Promised(Tail(q), Head(q).sym)
  <2>1. 1 \in 1..Len(q) /\ Head(q) = q[1]
    OBVIOUS
  <2>2. PICK j \in 1..Len(q) : 1 < j /\ Finds(q[j], q[1].sym)
    BY <1>2, <2>1 DEF Paired
  <2>3. j - 1 \in 1..Len(Tail(q)) /\ Tail(q)[j - 1] = q[j]
    BY <2>2
  <2> QED
    BY <2>1, <2>2, <2>3 DEF Promised
<1>3. ASSUME NEW k, Promised(q, k) PROVE Finds(Head(q), k) \/ Promised(Tail(q), k)
  BY <1>3 DEF Promised
<1> QED
  BY <1>1, <1>2, <1>3 DEF Paired

LEMMA PairedAppend ==
    ASSUME NEW q \in Seq(Line), NEW l \in Line, NEW C, Paired(q, C),
           l.op = "sym" => Exempt(l.sym, C)
    PROVE  Paired(Append(q, l), C) /\ \A k : Promised(q, k) => Promised(Append(q, l), k)
<1> USE AppendLines
<1>1. ASSUME NEW i \in 1..(Len(q) + 1), Append(q, l)[i].op = "sym", ~Exempt(Append(q, l)[i].sym, C)
      PROVE  \E j \in 1..(Len(q) + 1) : i < j /\ Finds(Append(q, l)[j], Append(q, l)[i].sym)
  <2>1. i \in 1..Len(q) /\ Append(q, l)[i] = q[i]
    BY <1>1
  <2>2. PICK j \in 1..Len(q) : i < j /\ Finds(q[j], q[i].sym)
    BY <1>1, <2>1 DEF Paired
  <2> QED
    BY <2>1, <2>2
<1>2. ASSUME NEW k, Promised(q, k) PROVE Promised(Append(q, l), k)
  BY <1>2 DEF Promised
<1> QED
  BY <1>1, <1>2 DEF Paired

(* put_symbol writes the .fil line right behind that of the symbol.        *)
LEMMA PairedTwo ==
    ASSUME NEW q \in Seq(Line), NEW a \in Line, NEW b \in Line, NEW C, Paired(q, C),
           a.op = "sym" => Exempt(a.sym, C) \/ Finds(b, a.sym), b.op # "sym"
    PROVE  /\ Paired(Append(Append(q, a), b), C)
           /\ \A k : Promised(q, k) => Promised(Append(Append(q, a), b), k)
<1> DEFINE p == Append(q, a)
           s == Append(p, b)
<1>1. /\ p \in Seq(Line) /\ Len(q) \in Nat /\ Len(p) = Len(q) + 1 /\ p[Len(q) + 1] = a
      /\ \A i \in 1..Len(q) : i \in 1..Len(p) /\ p[i] = q[i]
      /\ \A i \in 1..Len(p) : i \in 1..Len(q) \/ i = Len(q) + 1
  BY AppendLines
<1>2. /\ Len(s) = Len(p) + 1 /\ s[Len(p) + 1] = b
      /\ \A i \in 1..Len(p) : i \in 1..Len(s) /\ s[i] = p[i]
      /\ \A i \in 1..Len(s) : i \in 1..Len(p) \/ i = Len(p) + 1
  <2> HIDE DEF p
  <2> QED
    BY <1>1, AppendLines
<1> HIDE DEF p, s
<1>3. ASSUME NEW i \in 1..Len(s), s[i].op = "sym", ~Exempt(s[i].sym, C)
      PROVE  \E j \in 1..Len(s) : i < j /\ Finds(s[j], s[i].sym)
  <2>1. CASE i \in 1..Len(q)
    <3>1. s[i] = q[i]
      BY <1>1, <1>2, <2>1
    <3>2. PICK j \in 1..Len(q) : i < j /\ Finds(q[j], q[i].sym)
      BY <1>3, <2>1, <3>1 DEF Paired
    <3>3. j \in 1..Len(s) /\ s[j] = q[j]
      BY <1>1, <1>2
    <3> QED
      BY <3>1, <3>2, <3>3
  <2>2. CASE i = Len(q) + 1
    <3>1. s[i] = a /\ Len(p) + 1 \in 1..Len(s) /\ i < Len(p) + 1
      BY <1>1, <1>2, <2>2
    <3>2. Finds(b, a.sym)
      BY <1>3, <3>1
    <3> QED
      BY <1>2, <3>1, <3>2
  <2>3. CASE i = Len(p) + 1
    BY <1>2, <1>3, <2>3
  <2> QED
    BY <1>1, <1>2, <2>1, <2>2, <2>3
<1>4. ASSUME NEW k, Promised(q, k) PROVE Promised(s, k)
  BY <1>1, <1>2, <1>4 DEF Promised
<1> QED
  BY <1>3, <1>4 DEF Paired, p, s

(* The key db_remove_file_def makes of the .fil record of a symbol is that *)
(* of the symbol, but for a local variable without a class.                *)
LEMMA KeyFound ==
    ASSUME NEW f \in File, NEW d \in Decl, Accepted(d), ~Undeletable(SymKey(f, d))
    PROVE  DelKey(FilKey(f, d)) = SymKey(f, d)
BY NoneAssumption
   DEF DelKey, FilKey, SymKey, ScopeOf, Accepted, Undeletable, Decl, Kind, MemberKinds

(* A pipe without symbols makes no promise and has none to keep.           *)
LEMMA NoSymbols ==
    ASSUME NEW q, NEW O, NEW B, Fits(q, O, B), "sym" \notin O, "fil" \notin O
    PROVE  (\A C : Paired(q, C)) /\ \A k : ~Promised(q, k)
BY DEF Fits, Paired, Promised, Finds

LEMMA ListingStep == TypeOK /\ Stream /\ Listing /\ [Next]_vars => Listing'
<1> SUFFICES ASSUME TypeOK, Stream, Listing, [Next]_vars, Sound'
             PROVE  /\ Paired(queue', cut')
                    /\ \A k \in syms' : \/ Exempt(k, cut') \/ (\E r \in fil' : DelKey(r) = k)
                                        \/ Promised(queue', k)
  BY DEF Listing
<1> DEFINE Goal == /\ Paired(queue', cut')
                   /\ \A k \in syms' : \/ Exempt(k, cut') \/ (\E r \in fil' : DelKey(r) = k)
                                       \/ Promised(queue', k)
           h == Head(queue)
<1> USE DEF tables, parser, history
<1>0. queue \in Seq(Line) /\ xfer \in Seq(Line) /\ Stream'
  BY StreamStep DEF TypeOK
<1>1. ASSUME UNCHANGED <<queue, fil, syms, cut, lck, damaged>> PROVE Goal
  BY <1>1 DEF Listing, Sound
<1>2. ASSUME Fits(queue', Ops(phase'), batch'), phase # "parse" \/ queue = <<>>, phase' # "parse",
             Sound, UNCHANGED <<fil, syms, cut>>
      PROVE  Goal
  <2>1. \A C : Paired(queue', C)
    BY <1>2, NoSymbols DEF Ops
  <2>2. \A k : ~Promised(queue, k)
    <3>1. CASE phase # "parse"
      BY <3>1, NoSymbols DEF Ops, Stream
    <3>2. CASE queue = <<>>
      BY <3>2 DEF Promised
    <3> QED
      BY <1>2, <3>1, <3>2
  <2> QED
    BY <1>2, <2>1, <2>2 DEF Listing
<1>3. ASSUME NEW f \in File, ParserOpens(f) PROVE Goal
  <2>1. /\ FileLine(f) \in Line /\ FileLine(f).op # "sym" /\ queue' = Append(queue, FileLine(f))
        /\ UNCHANGED <<fil, syms, cut>> /\ Sound
    BY <1>3, LinesWritten DEF ParserOpens, FileLine, Sound
  <2> QED
    BY <1>0, <2>1, PairedAppend DEF Listing
<1>4. CASE PutSymbol
  <2> DEFINE k == SymKey(reading, Head(rest))
             r == FilKey(reading, Head(rest))
  <2>1. UNCHANGED <<fil, syms, cut, lck, damaged>>
    BY <1>4 DEF PutSymbol
  <2>2. CASE UNCHANGED queue
    BY <1>1, <2>1, <2>2
  <2>3. CASE /\ Accepted(Head(rest)) /\ SymLine(k) \in Line /\ FilLine(r) \in Line
             /\ queue' = Append(Append(queue, SymLine(k)), FilLine(r))
    <3>1. Exempt(k, cut) \/ Finds(FilLine(r), k)
      BY <1>4, <2>3, PutSymbolLines, KeyFound DEF Exempt, Finds, FilLine
    <3>2. SymLine(k).sym = k /\ FilLine(r).op # "sym"
      BY DEF SymLine, FilLine
    <3>3. Paired(queue, cut)
      BY <2>1 DEF Listing, Sound
    <3>4. /\ Paired(queue', cut) /\ \A l : Promised(queue, l) => Promised(queue', l)
      <4> HIDE DEF k, r
      <4> QED
        BY <1>0, <2>3, <3>1, <3>2, <3>3, PairedTwo
    <3> QED
      BY <2>1, <3>4 DEF Listing, Sound
  <2> QED
    BY <1>4, <2>2, <2>3, PutSymbolLines
<1>5. CASE ParserCrashes
  <2> DEFINE k == SymKey(reading, Head(rest))
  <2>1. UNCHANGED <<fil, syms, lck, damaged>>
    BY <1>5 DEF ParserCrashes
  <2>2. CASE UNCHANGED <<queue, cut>>
    BY <1>1, <2>1, <2>2
  <2>3. CASE /\ SymLine(k) \in Line /\ queue' = Append(queue, SymLine(k))
             /\ cut' = cut \union {reading}
    <3>1. SymLine(k).sym = k /\ k.file \in cut'
      BY <2>3 DEF SymLine, SymKey
    <3>2. Paired(queue, cut') /\ \A l : Exempt(l, cut) => Exempt(l, cut')
      BY <2>1, <2>3 DEF Listing, Sound, Paired, Exempt
    <3>3. Paired(queue', cut') /\ \A l : Promised(queue, l) => Promised(queue', l)
      <4>1. Exempt(SymLine(k).sym, cut')
        BY <3>1 DEF Exempt
      <4> HIDE DEF k
      <4> QED
        BY <1>0, <2>3, <3>2, <4>1, PairedAppend
    <3> QED
      BY <2>1, <3>2, <3>3 DEF Listing, Sound
  <2> QED
    BY <1>5, <2>2, <2>3, ParserCrashesLines
<1>6. CASE DbimpReads
  <2>1. queue # <<>> /\ queue' = Tail(queue) /\ cut' = cut /\ Sound
    BY <1>6, DbimpReadsLines DEF Sound
  <2>2. /\ Paired(queue', cut')
        /\ h.op = "sym" => Exempt(h.sym, cut') \/ Promised(queue', h.sym)
        /\ \A k : Promised(queue, k) => Finds(h, k) \/ Promised(queue', k)
    BY <1>0, <2>1, PairedTail DEF Listing
  <2>3. \A k \in syms : Exempt(k, cut') \/ (\E r \in fil : DelKey(r) = k) \/ Promised(queue, k)
    BY <2>1 DEF Listing
  <2>4. ASSUME NEW f, RemoveFileDef(f), NEW k \in syms', \E r \in fil : DelKey(r) = k
        PROVE  \E r \in fil' : DelKey(r) = k
    BY <2>4 DEF RemoveFileDef
  <2>5. CASE ReadFileLine \/ ReadDelFileLine
    <3>1. h.op # "fil" /\ (UNCHANGED <<fil, syms>> \/ RemoveFileDef(h.file))
      BY <2>5 DEF ReadFileLine, ReadDelFileLine, Reads
    <3>2. syms' \subseteq syms
      BY <3>1 DEF RemoveFileDef
    <3> QED
      BY <2>2, <2>3, <2>4, <3>1, <3>2 DEF Finds
  <2>6. CASE ReadSymLine
    BY <2>2, <2>3, <2>6 DEF ReadSymLine, Reads, Finds
  <2>7. CASE ReadFilLine
    BY <2>2, <2>3, <2>7 DEF ReadFilLine, Reads, Finds
  <2>8. CASE ReadXrefLine \/ ReadDelXrefLine \/ ReadBadLine
    BY <2>2, <2>3, <2>8 DEF ReadXrefLine, ReadDelXrefLine, ReadBadLine, Reads, Finds
  <2> QED
    BY <1>6, <2>5, <2>6, <2>7, <2>8 DEF DbimpReads
<1>7. CASE EndParse \/ EndImport \/ CancelXref \/ BeginUnload
  <2>1. phase # "parse" \/ queue = <<>>
    BY <1>7 DEF EndParse, EndImport, CancelXref, BeginUnload
  <2>2. phase' # "parse" /\ Sound /\ UNCHANGED <<fil, syms, cut>>
    <3>1. CASE EndParse
      <4>1. phase' = "idle" \/ phase' = "xref"
        BY <3>1 DEF EndParse
      <4> QED
        BY <3>1, <4>1 DEF EndParse, Sound
    <3>2. CASE CancelXref
      <4>1. lck => lck'
        BY <3>2 DEF CancelXref
      <4> QED
        BY <3>2, <4>1 DEF CancelXref, Sound
    <3>3. CASE EndImport \/ BeginUnload
      BY <3>3 DEF EndImport, BeginUnload, Sound
    <3> QED
      BY <1>7, <3>1, <3>2, <3>3
  <2>3. Fits(queue', Ops(phase'), batch')
    BY <1>0 DEF Stream
  <2> QED
    BY <1>2, <2>1, <2>2, <2>3
<1>8. CASE Reparse
  <2>1. queue' = <<>> /\ syms' = {}
    BY <1>0, <1>8, FitsEmpty DEF Reparse, Stream, Ops
  <2> QED
    BY <2>1 DEF Paired
<1>9. CASE DbimpDiesAndEnds \/ DbimpDiesAndGoesOn
  BY <1>9 DEF DbimpDiesAndEnds, DbimpDiesAndGoesOn, Sound
<1>10. CASE \/ \E f \in File : Save(f) \/ ParserSkips(f)
            \/ ParserReads \/ PutCrossRef \/ ParserCloses \/ StopParse \/ NextPart
            \/ BeginUpdate \/ UNCHANGED vars
  BY <1>1, <1>10 DEF Save, ParserSkips, ParserReads, PutCrossRef, ParserCloses, StopParse,
     NextPart, BeginUpdate, vars
<1> QED
  BY <1>3, <1>4, <1>5, <1>6, <1>7, <1>8, <1>9, <1>10 DEF Next, Parse, Session

(* Every symbol dbimp has stored is found again through its .fil record,   *)
(* but for those the code knows it cannot delete and those a parser died   *)
(* over: the next parse of the file can remove it.                         *)
THEOREM NoSymbolOutOfReach == Spec => []EverySymbolListed
<1>1. Init => Listing
  BY DEF Init, Listing, Paired
<1>2. TypeOK /\ Stream /\ Listing => EverySymbolListed
  <2> SUFFICES ASSUME TypeOK, Stream, Listing, Settled PROVE EverySymbolListed
    BY DEF EverySymbolListed
  <2>1. \A k : ~Promised(queue, k)
    BY NoSymbols DEF Settled, Stream, Ops
  <2> QED
    BY <2>1 DEF Listing, Settled, EverySymbolListed, Exempt
<1> QED
  BY <1>1, <1>2, TypeInit, TypeStep, StreamInit, StreamStep, ListingStep, PTL DEF Spec

-----------------------------------------------------------------------------
(* The .fil records of a file and those in the pipe are the ones its last  *)
(* parse has put out; what was there before goes with the line that names  *)
(* the file.                                                               *)
Stored(f)  == {r \in fil : r.file = f}
Parsing(f)  == stage # "none" /\ reading = f

RecordsFor(f) ==
    /\ Ordered(queue, f)
    /\ f \in todo => ~WillReset(queue, f) /\ Sent(queue, f) = {} /\ ~Parsing(f)
    /\ files[f] = NoTime => Stored(f) = {} \/ (phase = "unload" /\ WillReset(queue, f))
    /\ Sent(queue, f) # {} \/ Parsing(f) => files[f] # NoTime \/ WillReset(queue, f)
    /\ last[f].fil = IF WillReset(queue, f) THEN Sent(queue, f) ELSE Stored(f) \union Sent(queue, f)

Records == Sound => \A f \in File : RecordsFor(f)

(* A pipe without lines that replace or list symbols.                      *)
LEMMA QuietFacts ==
    ASSUME NEW q, NEW O, NEW B, Fits(q, O, B), NEW f \in File,
           O \intersect {"file", "delfile", "fil"} = {}
    PROVE  ~WillReset(q, f) /\ Sent(q, f) = {} /\ Ordered(q, f)
BY DEF Fits, WillReset, Sent, Ordered, Resets, Lists

LEMMA OtherLine ==
    ASSUME NEW q \in Seq(Line), NEW l \in Line, NEW f \in File, ~Resets(l, f), ~Lists(l, f)
    PROVE  /\ WillReset(Append(q, l), f) <=> WillReset(q, f)
           /\ Sent(Append(q, l), f) = Sent(q, f)
           /\ Ordered(q, f) => Ordered(Append(q, l), f)
<1>1. /\ WillReset(Append(q, l), f) <=> Resets(l, f) \/ WillReset(q, f)
      /\ Sent(Append(q, l), f) = Sent(q, f) \union {r \in FilKeys : Lists(l, f) /\ r = l.fil}
      /\ Ordered(q, f) /\ (Resets(l, f) => Sent(q, f) = {}) => Ordered(Append(q, l), f)
  BY AppendFacts
<1>2. {r \in FilKeys : Lists(l, f) /\ r = l.fil} = {}
  OBVIOUS
<1> QED
  BY <1>1, <1>2

(* put_symbol lists the symbol in the second of its two lines.             *)
LEMMA PutSymbolFacts ==
    ASSUME NEW q \in Seq(Line), NEW k, SymLine(k) \in Line,
           NEW r \in FilKeys, FilLine(r) \in Line, NEW f \in File, Ordered(q, f)
    PROVE  LET p == Append(Append(q, SymLine(k)), FilLine(r))
           IN  /\ WillReset(p, f) <=> WillReset(q, f)
               /\ Sent(p, f) = Sent(q, f) \union {s \in {r} : r.file = f}
               /\ Ordered(p, f)
<1> DEFINE p == Append(q, SymLine(k))
<1>1. /\ p \in Seq(Line) /\ (WillReset(p, f) <=> WillReset(q, f))
      /\ Sent(p, f) = Sent(q, f) /\ Ordered(p, f)
  <2>1. ~Resets(SymLine(k), f) /\ ~Lists(SymLine(k), f)
    BY DEF Resets, Lists, SymLine
  <2> QED
    BY <2>1, OtherLine, AppendLines
<1>2. ~Resets(FilLine(r), f) /\ (Lists(FilLine(r), f) <=> r.file = f) /\ FilLine(r).fil = r
  BY DEF Resets, Lists, FilLine
<1>3. /\ WillReset(Append(p, FilLine(r)), f) <=> WillReset(p, f)
      /\ Sent(Append(p, FilLine(r)), f) = Sent(p, f) \union {s \in FilKeys : r.file = f /\ s = r}
      /\ Ordered(Append(p, FilLine(r)), f)
  <2> HIDE DEF p
  <2> QED
    BY <1>1, <1>2, AppendFacts
<1> QED
  BY <1>1, <1>3

LEMMA RecordsStep == TypeOK /\ Stream /\ Records /\ [Next]_vars => Records'
<1> SUFFICES ASSUME TypeOK, Stream, Records, [Next]_vars, Sound', NEW f \in File
             PROVE  RecordsFor(f)'
  BY DEF Records
<1> DEFINE h == Head(queue)
<1> USE DEF tables, parser, history
<1>0. queue \in Seq(Line) /\ xfer \in Seq(Line) /\ todo \in SUBSET batch /\ Stream'
  BY StreamStep DEF TypeOK
<1>1. ASSUME Sound, WillReset(queue', f) <=> WillReset(queue, f), Sent(queue', f) = Sent(queue, f),
             Ordered(queue, f) => Ordered(queue', f), phase' = phase, files'[f] = files[f],
             Stored(f)' = Stored(f), last'[f].fil = last[f].fil,
             f \in todo' => f \in todo, Parsing(f)' => Parsing(f)
      PROVE  RecordsFor(f)'
  BY <1>1 DEF Records, RecordsFor
<1>2. ASSUME Sound, ~WillReset(queue', f), Sent(queue', f) = {}, Ordered(queue', f),
             ~Parsing(f)', files'[f] = NoTime => Stored(f)' = {}, last'[f].fil = Stored(f)'
      PROVE  RecordsFor(f)'
  BY <1>2 DEF RecordsFor
<1>3. ASSUME NEW g \in File, ParserOpens(g) PROVE RecordsFor(f)'
  <2>1. /\ FileLine(g) \in Line /\ queue' = Append(queue, FileLine(g)) /\ Sound /\ phase = "parse"
        /\ g \in todo /\ todo' = todo \ {g} /\ reading' = g /\ UNCHANGED <<files, fil, phase>>
        /\ last' = [last EXCEPT ![g] = Nothing]
    BY <1>3, LinesWritten DEF ParserOpens, Sound
  <2>2. /\ Resets(FileLine(g), f) <=> g = f
        /\ ~Lists(FileLine(g), f)
    BY DEF Resets, Lists, FileLine
  <2>3. CASE g = f
    <3>1. ~WillReset(queue, f) /\ Sent(queue, f) = {} /\ Ordered(queue, f)
      BY <2>1, <2>3 DEF Records, RecordsFor
    <3>2. WillReset(queue', f) /\ Sent(queue', f) = {} /\ Ordered(queue', f)
      BY <1>0, <2>1, <2>2, <2>3, <3>1, AppendFacts
    <3>3. last'[f].fil = {}
      BY <2>1, <2>3 DEF TypeOK, Nothing
    <3>4. files'[f] = NoTime => Stored(f)' = {}
      BY <2>1 DEF Records, RecordsFor, Stored
    <3> QED
      BY <2>1, <2>3, <3>2, <3>3, <3>4 DEF RecordsFor
  <2>4. CASE g # f
    <3>1. /\ WillReset(queue', f) <=> WillReset(queue, f)
          /\ Sent(queue', f) = Sent(queue, f) /\ (Ordered(queue, f) => Ordered(queue', f))
      BY <1>0, <2>1, <2>2, <2>4, OtherLine
    <3>2. last'[f].fil = last[f].fil /\ ~Parsing(f)' /\ Stored(f)' = Stored(f)
      BY <2>1, <2>4 DEF Parsing, Stored
    <3> QED
      BY <1>1, <2>1, <3>1, <3>2
  <2> QED
    BY <2>3, <2>4
<1>4. CASE PutSymbol
  <2> DEFINE k == SymKey(reading, Head(rest))
             r == FilKey(reading, Head(rest))
  <2>1. /\ UNCHANGED <<files, fil, phase, todo, stage, reading>> /\ Sound /\ Parsing(reading)
        /\ Stored(f)' = Stored(f) /\ (Parsing(f)' <=> Parsing(f))
    BY <1>4 DEF PutSymbol, Sound, Parsing, Stored
  <2>2. CASE UNCHANGED <<queue, last>>
    BY <1>1, <2>1, <2>2
  <2>3. CASE /\ SymLine(k) \in Line /\ r \in FilKeys /\ FilLine(r) \in Line
             /\ queue' = Append(Append(queue, SymLine(k)), FilLine(r))
             /\ last' = [last EXCEPT ![reading].fil = @ \union {r}]
    <3>1. Ordered(queue, f)
      BY <2>1 DEF Records, RecordsFor
    <3>2. /\ WillReset(queue', f) <=> WillReset(queue, f)
          /\ Sent(queue', f) = Sent(queue, f) \union {s \in {r} : r.file = f}
          /\ Ordered(queue', f)
      <4> HIDE DEF k, r
      <4> QED
        BY <1>0, <2>3, <3>1, PutSymbolFacts
    <3>3. r.file = reading
      BY DEF FilKey
    <3>4. CASE reading # f
      <4>1. Sent(queue', f) = Sent(queue, f)
        BY <3>2, <3>3, <3>4
      <4>2. last'[f].fil = last[f].fil
        BY <2>3, <3>4
      <4> QED
        BY <1>1, <2>1, <3>2, <4>1, <4>2
    <3>5. CASE reading = f
      <4>1. Sent(queue', f) = Sent(queue, f) \union {r}
        BY <3>2, <3>3, <3>5
      <4>2. last'[f].fil = last[f].fil \union {r}
        BY <2>3, <3>5 DEF TypeOK
      <4>3. f \notin todo /\ (files[f] # NoTime \/ WillReset(queue, f))
        BY <2>1, <3>5 DEF Records, RecordsFor
      <4>4. /\ files[f] = NoTime => Stored(f) = {} \/ (phase = "unload" /\ WillReset(queue, f))
            /\ last[f].fil = IF WillReset(queue, f) THEN Sent(queue, f)
                             ELSE Stored(f) \union Sent(queue, f)
        BY <2>1 DEF Records, RecordsFor
      <4> QED
        BY <2>1, <3>2, <4>1, <4>2, <4>3, <4>4 DEF RecordsFor
    <3> QED
      BY <3>4, <3>5
  <2> QED
    BY <1>4, <2>2, <2>3, PutSymbolLines
<1>5. CASE ParserCrashes
  <2> DEFINE k == SymKey(reading, Head(rest))
  <2>1. /\ UNCHANGED <<files, phase, todo, last>> /\ Sound /\ ~Parsing(f)' /\ Stored(f)' = Stored(f)
    BY <1>5 DEF ParserCrashes, Sound, Parsing, Stored
  <2>2. CASE UNCHANGED queue
    BY <1>1, <2>1, <2>2
  <2>3. CASE SymLine(k) \in Line /\ queue' = Append(queue, SymLine(k))
    <3>1. ~Resets(SymLine(k), f) /\ ~Lists(SymLine(k), f)
      BY DEF Resets, Lists, SymLine
    <3>2. /\ WillReset(queue', f) <=> WillReset(queue, f)
          /\ Sent(queue', f) = Sent(queue, f) /\ (Ordered(queue, f) => Ordered(queue', f))
      <4> HIDE DEF k
      <4> QED
        BY <1>0, <2>3, <3>1, OtherLine
    <3> QED
      BY <1>1, <2>1, <3>2
  <2> QED
    BY <1>5, <2>2, <2>3, ParserCrashesLines
<1>6. CASE DbimpReads
  <2>1. queue # <<>> /\ queue' = Tail(queue) /\ h \in Line /\ Sound /\ phase' = phase
        /\ UNCHANGED <<todo, last>> /\ (Parsing(f)' <=> Parsing(f))
    BY <1>6, DbimpReadsLines DEF Sound, Parsing
  <2>2. /\ WillReset(queue, f) <=> Resets(h, f) \/ WillReset(queue', f)
        /\ Sent(queue, f) = Sent(queue', f) \union {r \in FilKeys : Lists(h, f) /\ r = h.fil}
        /\ Ordered(queue, f) => Ordered(queue', f) /\ (Lists(h, f) => ~WillReset(queue, f))
    BY <1>0, <2>1, TailFacts
  <2>3. RecordsFor(f) /\ h.op \in Ops(phase) /\ (Parsing(f) => phase = "parse")
    BY <1>0, <2>1, FitsTail DEF Records, Stream, TypeOK, Parsing
  <2>4. ASSUME ~Resets(h, f), ~Lists(h, f), files'[f] = files[f], Stored(f)' = Stored(f)
        PROVE  RecordsFor(f)'
    <3>1. {r \in FilKeys : Lists(h, f) /\ r = h.fil} = {}
      BY <2>4
    <3>2. Sent(queue', f) = Sent(queue, f)
      BY <2>2, <3>1
    <3> QED
      BY <1>1, <2>1, <2>2, <2>4, <3>2
  <2>5. ASSUME Resets(h, f), Stored(f)' = {}, files'[f] # NoTime \/ phase = "unload"
        PROVE  RecordsFor(f)'
    <3>1. Sent(queue', f) = Sent(queue, f)
      BY <2>2, <2>5 DEF Resets, Lists
    <3>2. f \notin todo /\ last[f].fil = Sent(queue, f) /\ Ordered(queue', f)
      BY <2>2, <2>3, <2>5 DEF RecordsFor
    <3>3. phase = "unload" => Sent(queue, f) = {} /\ ~Parsing(f)
      BY <2>3 DEF Stream, Fits, Sent, Ops
    <3> QED
      BY <2>1, <2>5, <3>1, <3>2, <3>3 DEF RecordsFor
  <2>6. CASE ReadFileLine
    <3>1. /\ h.op = "file" /\ files' = [files EXCEPT ![h.file] = mtime[h.file]]
          /\ IF files[h.file] = NoTime THEN UNCHANGED <<fil, syms>> ELSE RemoveFileDef(h.file)
      BY <2>6 DEF ReadFileLine, Reads
    <3>2. phase = "parse"
      BY <2>3, <3>1 DEF Ops
    <3>3. CASE h.file = f
      <4>1. files'[f] # NoTime
        BY <3>1, <3>3, SavedTypes, TimeAssumption DEF TypeOK
      <4>2. ASSUME files[f] = NoTime PROVE Stored(f)' = {}
        BY <2>3, <3>1, <3>2, <3>3, <4>2 DEF RecordsFor, Stored
      <4>3. ASSUME RemoveFileDef(f) PROVE Stored(f)' = {}
        BY <4>3 DEF RemoveFileDef, Stored
      <4>4. Stored(f)' = {}
        BY <3>1, <3>3, <4>2, <4>3
      <4> QED
        BY <2>5, <3>1, <3>3, <4>1, <4>4 DEF Resets
    <3>4. CASE h.file # f
      <4>1. files'[f] = files[f] /\ Stored(f)' = Stored(f)
        BY <3>1, <3>4 DEF RemoveFileDef, Stored
      <4> QED
        BY <2>4, <3>1, <3>4, <4>1 DEF Resets, Lists
    <3> QED
      BY <3>3, <3>4
  <2>7. CASE ReadDelFileLine
    <3>1. h.op = "delfile" /\ files' = files /\ RemoveFileDef(h.file)
      BY <2>7 DEF ReadDelFileLine, Reads
    <3>2. phase = "unload"
      BY <2>3, <3>1 DEF Ops
    <3>3. CASE h.file = f
      <4>1. Stored(f)' = {}
        BY <3>1, <3>3 DEF RemoveFileDef, Stored
      <4> QED
        BY <2>5, <3>1, <3>2, <3>3, <4>1 DEF Resets
    <3>4. CASE h.file # f
      <4>1. Stored(f)' = Stored(f)
        BY <3>1, <3>4 DEF RemoveFileDef, Stored
      <4> QED
        BY <2>4, <3>1, <3>4, <4>1 DEF Resets, Lists
    <3> QED
      BY <3>3, <3>4
  <2>8. CASE ReadFilLine
    <3>1. h.op = "fil" /\ files' = files /\ fil' = fil \union {h.fil}
      BY <2>8 DEF ReadFilLine, Reads
    <3>2. CASE h.fil.file # f
      <4>1. Stored(f)' = Stored(f)
        BY <3>1, <3>2 DEF Stored
      <4> QED
        BY <2>4, <3>1, <3>2, <4>1 DEF Resets, Lists
    <3>3. CASE h.fil.file = f
      <4>1. Lists(h, f) /\ h.fil \in FilKeys /\ ~Resets(h, f)
        BY <2>1, <3>1, <3>3, LineTypes DEF Lists, Resets
      <4>2. Sent(queue, f) = Sent(queue', f) \union {h.fil}
        BY <2>2, <4>1
      <4>3. Stored(f)' = Stored(f) \union {h.fil}
        BY <3>1, <3>3 DEF Stored
      <4>4. ~WillReset(queue, f) /\ ~WillReset(queue', f) /\ Ordered(queue', f)
        BY <2>2, <2>3, <4>1 DEF RecordsFor
      <4>5. files[f] # NoTime /\ last[f].fil = Stored(f) \union Sent(queue, f) /\ f \notin todo
        BY <2>3, <4>2, <4>4 DEF RecordsFor
      <4>6. last[f].fil = Stored(f)' \union Sent(queue', f)
        BY <4>2, <4>3, <4>5
      <4> QED
        BY <2>1, <3>1, <4>4, <4>5, <4>6 DEF RecordsFor
    <3> QED
      BY <3>2, <3>3
  <2>9. CASE ReadSymLine \/ ReadXrefLine \/ ReadDelXrefLine \/ ReadBadLine
    <3>1. h.op \in {"sym", "xref", "delxref", "cut", "junk"} /\ UNCHANGED <<files, fil>>
      BY <2>9 DEF ReadSymLine, ReadXrefLine, ReadDelXrefLine, ReadBadLine, Reads
    <3> QED
      BY <2>4, <3>1 DEF Resets, Lists, Stored
  <2> QED
    BY <1>6, <2>6, <2>7, <2>8, <2>9 DEF DbimpReads
<1>7. CASE EndParse \/ EndImport \/ CancelXref
  <2>1. phase' \in {"idle", "xref"} /\ stage' = "none" /\ Sound /\ todo' = {}
        /\ UNCHANGED <<files, fil>> /\ last'[f].fil = last[f].fil
    <3>1. CASE EndParse
      <4>1. phase' = "idle" \/ phase' = "xref"
        BY <3>1 DEF EndParse
      <4> QED
        BY <3>1, <4>1 DEF EndParse, Sound
    <3>2. CASE EndImport
      BY <3>2 DEF EndImport, Sound, TypeOK
    <3>3. CASE CancelXref
      <4>1. lck => lck'
        BY <3>3 DEF CancelXref
      <4>2. last'[f].fil = last[f].fil
        BY <3>3 DEF CancelXref, TypeOK
      <4> QED
        BY <3>3, <4>1, <4>2 DEF CancelXref, Sound, TypeOK
    <3> QED
      BY <1>7, <3>1, <3>2, <3>3
  <2>2. ~WillReset(queue', f) /\ Sent(queue', f) = {} /\ Ordered(queue', f)
    <3>1. Ops(phase') \intersect {"file", "delfile", "fil"} = {}
      BY <2>1 DEF Ops
    <3>2. Fits(queue', Ops(phase'), batch')
      BY <1>0 DEF Stream
    <3> QED
      BY <3>1, <3>2, QuietFacts
  <2>3. ~WillReset(queue, f) /\ Sent(queue, f) = {}
    <3>1. queue = <<>> \/ phase = "xref"
      BY <1>7 DEF EndParse, EndImport, CancelXref
    <3>2. CASE queue = <<>>
      BY <3>2, FitsEmpty, QuietFacts
    <3>3. CASE phase = "xref"
      <4>1. Ops(phase) \intersect {"file", "delfile", "fil"} = {}
        BY <3>3 DEF Ops
      <4> QED
        BY <4>1, QuietFacts DEF Stream
    <3> QED
      BY <3>1, <3>2, <3>3
  <2>4. last[f].fil = Stored(f) /\ (files[f] = NoTime => Stored(f) = {})
    BY <2>1, <2>3 DEF Records, RecordsFor
  <2> QED
    BY <1>2, <2>1, <2>2, <2>4 DEF Parsing, Stored
<1>8. CASE BeginUnload
  <2>1. PICK g \in File :
          /\ files' = [files EXCEPT ![g] = NoTime]
          /\ queue' = <<DelFileLine(g), DelXrefLine({r \in fil : r.file = g})>>
          /\ last' = [last EXCEPT ![g] = Nothing]
    BY <1>8 DEF BeginUnload
  <2>2. /\ phase = "idle" /\ phase' = "unload" /\ stage' = "none" /\ todo' = {} /\ Sound
        /\ UNCHANGED fil
    BY <1>8 DEF BeginUnload, TypeOK, Sound
  <2>3. queue = <<>> /\ ~WillReset(queue, f) /\ Sent(queue, f) = {}
    BY <1>0, <2>2, FitsEmpty, QuietFacts DEF Stream, Ops
  <2>4. Sent(queue', f) = {} /\ Ordered(queue', f) /\ (WillReset(queue', f) <=> f = g)
    <3>1. \A i \in 1..Len(queue') : ~Lists(queue'[i], f) /\ queue'[i].op # "fil"
      BY <2>1 DEF Lists, DelFileLine, DelXrefLine
    <3>2. /\ Len(queue') = 2 /\ \A i \in 1..2 : Resets(queue'[i], f) <=> i = 1 /\ f = g
      BY <2>1 DEF Resets, DelFileLine, DelXrefLine
    <3> QED
      BY <3>1, <3>2 DEF Sent, Ordered, WillReset
  <2>5. last[f].fil = Stored(f) /\ (files[f] = NoTime => Stored(f) = {})
    BY <2>2, <2>3 DEF Records, RecordsFor
  <2>6. CASE f = g
    <3>1. last'[f].fil = {}
      BY <2>1, <2>6 DEF TypeOK, Nothing
    <3> QED
      BY <2>2, <2>4, <2>6, <3>1 DEF RecordsFor, Parsing
  <2>7. CASE f # g
    <3>1. files'[f] = files[f] /\ last'[f].fil = last[f].fil
      BY <2>1, <2>7
    <3> QED
      BY <1>2, <2>2, <2>4, <2>5, <2>7, <3>1 DEF Parsing, Stored
  <2> QED
    BY <2>6, <2>7
<1>9. CASE Reparse
  <2>1. /\ queue' = <<>> /\ fil' = {} /\ stage' = "none"
    BY <1>0, <1>9, FitsEmpty DEF Reparse, Stream, Ops, TypeOK
  <2>2. last'[f].fil = {} /\ todo' = {}
    BY <1>9 DEF Reparse, Nothing, TypeOK
  <2>3. ~WillReset(queue', f) /\ Sent(queue', f) = {} /\ Ordered(queue', f)
    BY <2>1, FitsEmpty, QuietFacts
  <2> QED
    BY <2>1, <2>2, <2>3 DEF RecordsFor, Stored, Parsing
<1>10. CASE BeginUpdate
  <2>1. /\ phase = "idle" /\ stage' = "none" /\ UNCHANGED <<files, fil, last, queue>> /\ Sound
    BY <1>10 DEF BeginUpdate, Sound, TypeOK
  <2>2. queue = <<>> /\ ~WillReset(queue, f) /\ Sent(queue, f) = {} /\ Ordered(queue, f)
    BY <1>0, <2>1, FitsEmpty, QuietFacts DEF Stream, Ops
  <2>3. last[f].fil = Stored(f) /\ (files[f] = NoTime => Stored(f) = {})
    BY <2>1, <2>2 DEF Records, RecordsFor
  <2> QED
    BY <1>2, <2>1, <2>2, <2>3 DEF Parsing, Stored
<1>11. CASE DbimpDiesAndEnds \/ DbimpDiesAndGoesOn
  <2>1. ~Sound'
    BY <1>11 DEF DbimpDiesAndEnds, DbimpDiesAndGoesOn, Sound, TypeOK
  <2> QED
    BY <2>1
<1>12. CASE \/ \E g \in File : Save(g) \/ ParserSkips(g)
            \/ ParserReads \/ PutCrossRef \/ ParserCloses \/ StopParse \/ NextPart
            \/ UNCHANGED vars
  <2>1. Sound /\ UNCHANGED <<queue, fil, files, phase>> /\ (f \in todo' => f \in todo)
    BY <1>12 DEF Save, ParserSkips, ParserReads, PutCrossRef, ParserCloses, StopParse,
       NextPart, vars, Sound
  <2>2. last'[f].fil = last[f].fil
    <3>1. CASE PutCrossRef
      BY <3>1 DEF PutCrossRef, TypeOK
    <3>2. CASE ParserCloses
      BY <3>2 DEF ParserCloses, TypeOK
    <3>3. CASE \E g \in File : ParserSkips(g)
      BY <3>3 DEF ParserSkips, TypeOK
    <3> QED
      BY <1>12, <3>1, <3>2, <3>3 DEF Save, ParserReads, StopParse, NextPart, vars
  <2>3. Parsing(f)' => Parsing(f)
    BY <1>12 DEF Save, ParserSkips, ParserReads, PutCrossRef, ParserCloses, StopParse,
       NextPart, vars, Parsing
  <2> QED
    BY <1>1, <2>1, <2>2, <2>3 DEF Stored
<1> QED
  BY <1>3, <1>4, <1>5, <1>6, <1>7, <1>8, <1>9, <1>10, <1>11, <1>12 DEF Next, Parse, Session

LEMMA RecordsInit == Init => Records
<1> SUFFICES ASSUME Init, NEW f \in File PROVE RecordsFor(f)
  BY DEF Records
<1>1. queue = <<>> /\ fil = {} /\ last[f].fil = {} /\ todo = {} /\ stage = "none"
  BY DEF Init, Nothing
<1>2. ~WillReset(queue, f) /\ Sent(queue, f) = {} /\ Ordered(queue, f)
  BY <1>1, FitsEmpty, QuietFacts
<1> QED
  BY <1>1, <1>2 DEF RecordsFor, Stored, Parsing

LEMMA SettledRecords ==
    ASSUME TypeOK, Stream, Records, Settled, NEW f \in File
    PROVE  Stored(f) = last[f].fil
<1>1. queue \in Seq(Line) /\ phase = "idle"
  BY DEF TypeOK, Settled
<1>2. ~WillReset(queue, f) /\ Sent(queue, f) = {}
  BY <1>1, QuietFacts DEF Stream, Ops
<1> QED
  BY <1>2 DEF Records, RecordsFor, Settled

(* The .fil records of a file never mix two parses, whatever is saved,     *)
(* skipped, stopped, cancelled or unloaded meanwhile.                      *)
THEOREM ParsesAreNotMixed == Spec => []RecordsOfLastParse
<1>1. TypeOK /\ Stream /\ Records => RecordsOfLastParse
  BY SettledRecords DEF RecordsOfLastParse, Stored
<1> QED
  BY <1>1, TypeInit, TypeStep, StreamInit, StreamStep, RecordsInit, RecordsStep, PTL DEF Spec

(* What the parser has put out of a file and what it has still to put out  *)
(* are the symbols of the file, and references of it, if the time of the   *)
(* file is or will be recorded.  (A cancelled load deletes references.)    *)
Noted(f) == InPipe(f) \/ files[f] = mtime[f]

ParsedFor(f) ==
    /\ files[f] # NoTime => files[f] <= mtime[f]
    /\ Parsing(f) => ~last[f].whole
    /\ f \notin raced /\ Noted(f) =>
          /\ Parsing(f) /\ stage = "opened" => last[f].fil = {} /\ last[f].refs = {}
          /\ Parsing(f) /\ stage = "scanning" =>
                /\ last[f].fil \union Listed(f, rest) = Listed(f, source[f])
                /\ last[f].refs \union MadeIn(f, rest) \subseteq MadeIn(f, source[f])
          /\ last[f].whole =>
                /\ last[f].fil = Listed(f, source[f])
                /\ last[f].refs \subseteq MadeIn(f, source[f])

Parses == Sound => \A f \in File : ParsedFor(f)

Opens(q, f) == \E i \in 1..Len(q) : q[i] = FileLine(f)

LEMMA OpensAppend ==
    ASSUME NEW q \in Seq(Line), NEW l \in Line, NEW f \in File
    PROVE  Opens(Append(q, l), f) <=> l = FileLine(f) \/ Opens(q, f)
BY AppendLines DEF Opens

LEMMA OpensTail ==
    ASSUME NEW q \in Seq(Line), q # <<>>, NEW f \in File
    PROVE  Opens(q, f) <=> Head(q) = FileLine(f) \/ Opens(Tail(q), f)
<1> USE TailLines
<1>1. ASSUME Opens(q, f) PROVE Head(q) = FileLine(f) \/ Opens(Tail(q), f)
  BY <1>1 DEF Opens
<1>2. ASSUME Head(q) = FileLine(f) PROVE Opens(q, f)
  <2>1. 1 \in 1..Len(q)
    OBVIOUS
  <2> QED
    BY <1>2, <2>1 DEF Opens
<1>3. ASSUME Opens(Tail(q), f) PROVE Opens(q, f)
  BY <1>3 DEF Opens
<1> QED
  BY <1>1, <1>2, <1>3

LEMMA NoneOpened ==
    ASSUME NEW q, NEW O, NEW B, Fits(q, O, B), "file" \notin O, NEW f \in File
    PROVE  ~Opens(q, f)
BY DEF Fits, Opens, FileLine

(* The symbols of a content are that of its first item, if it is one, and  *)
(* those of the rest.                                                      *)
LEMMA ListedEmpty == \A f : Listed(f, <<>>) = {}
BY DEF Listed

LEMMA ListedTail ==
    ASSUME NEW f \in File, NEW c \in Seq(Decl \union Ref), c # <<>>
    PROVE  Listed(f, c) = {r \in {FilKey(f, Head(c))} : Head(c).item = "decl" /\ Accepted(Head(c))}
                          \union Listed(f, Tail(c))
<1>1. /\ Len(c) \in Nat \ {0} /\ Len(Tail(c)) = Len(c) - 1 /\ Head(c) = c[1]
      /\ 1 \in 1..Len(c)
      /\ \A i \in 1..Len(Tail(c)) : i + 1 \in 1..Len(c) /\ Tail(c)[i] = c[i + 1]
      /\ \A i \in 1..Len(c) : i = 1 \/ (i - 1 \in 1..Len(Tail(c)) /\ Tail(c)[i - 1] = c[i])
  OBVIOUS
<1> DEFINE In(r, d) == \E j \in 1..Len(d) : d[j].item = "decl" /\ Accepted(d[j]) /\ r = FilKey(f, d[j])
<1>2. \A d : Listed(f, d) = {r \in Listed(f, d) : In(r, d)}
             /\ \A r : In(r, d) => r \in Listed(f, d)
  BY DEF Listed
<1>3. ASSUME NEW r, In(r, c)
      PROVE  (Head(c).item = "decl" /\ Accepted(Head(c)) /\ r = FilKey(f, Head(c))) \/ In(r, Tail(c))
  BY <1>1, <1>3
<1>4. ASSUME NEW r, In(r, Tail(c)) PROVE In(r, c)
  BY <1>1, <1>4
<1>5. ASSUME Head(c).item = "decl", Accepted(Head(c)) PROVE In(FilKey(f, Head(c)), c)
  BY <1>1, <1>5
<1> HIDE DEF In
<1> QED
  BY <1>2, <1>3, <1>4, <1>5

(* The same for its references.                                            *)
LEMMA MadeInEmpty == \A f : MadeIn(f, <<>>) = {}
BY DEF MadeIn

LEMMA MadeInTail ==
    ASSUME NEW f \in File, NEW c \in Seq(Decl \union Ref), c # <<>>
    PROVE  MadeIn(f, c) = {t \in {<<Head(c).caller, Head(c).target, f>>} : Head(c).item = "ref"}
                          \union MadeIn(f, Tail(c))
<1>1. /\ Len(c) \in Nat \ {0} /\ Len(Tail(c)) = Len(c) - 1 /\ Head(c) = c[1]
      /\ 1 \in 1..Len(c)
      /\ \A i \in 1..Len(Tail(c)) : i + 1 \in 1..Len(c) /\ Tail(c)[i] = c[i + 1]
      /\ \A i \in 1..Len(c) : i = 1 \/ (i - 1 \in 1..Len(Tail(c)) /\ Tail(c)[i - 1] = c[i])
  OBVIOUS
<1> DEFINE In(t, d) == \E j \in 1..Len(d) : d[j].item = "ref" /\ t = <<d[j].caller, d[j].target, f>>
<1>2. \A d : MadeIn(f, d) = {t \in MadeIn(f, d) : In(t, d)}
             /\ \A t : In(t, d) => t \in MadeIn(f, d)
  BY DEF MadeIn
<1>3. ASSUME NEW t, In(t, c)
      PROVE  (Head(c).item = "ref" /\ t = <<Head(c).caller, Head(c).target, f>>) \/ In(t, Tail(c))
  BY <1>1, <1>3
<1>4. ASSUME NEW t, In(t, Tail(c)) PROVE In(t, c)
  BY <1>1, <1>4
<1>5. ASSUME Head(c).item = "ref" PROVE In(<<Head(c).caller, Head(c).target, f>>, c)
  BY <1>1, <1>5
<1> HIDE DEF In
<1> QED
  BY <1>2, <1>3, <1>4, <1>5

LEMMA ParsesStep == TypeOK /\ Stream /\ Parses /\ [Next]_vars => Parses'
<1> SUFFICES ASSUME TypeOK, Stream, Parses, [Next]_vars, Sound', NEW f \in File
             PROVE  ParsedFor(f)'
  BY DEF Parses
<1> DEFINE h == Head(queue)
<1> USE DEF tables, parser, history
<1>0. queue \in Seq(Line) /\ Stream' /\ files[f] \in {NoTime} \union 0..MaxTime
      /\ mtime[f] \in 0..MaxTime /\ NoTime \notin 0..MaxTime /\ MaxTime \in Nat
      /\ last \in [File -> [fil : SUBSET FilKeys, refs : SUBSET ToKeys, whole : BOOLEAN]]
  BY StreamStep, SavedTypes, TimeAssumption DEF TypeOK
<1>1. ASSUME Sound, Noted(f)' => Noted(f), mtime'[f] = mtime[f], source'[f] = source[f],
             files'[f] \in {files[f], mtime[f]},
             last'[f].fil = last[f].fil, last'[f].refs \subseteq last[f].refs,
             last'[f].whole = last[f].whole, f \in raced => f \in raced',
             Parsing(f)' => Parsing(f) /\ UNCHANGED <<stage, rest>>
      PROVE  ParsedFor(f)'
  BY <1>0, <1>1 DEF Parses, ParsedFor
<1>2. ASSUME Opens(queue', f) <=> Opens(queue, f), files'[f] = files[f], mtime'[f] = mtime[f]
      PROVE  Noted(f)' <=> Noted(f)
  BY <1>2 DEF Noted, InPipe, Opens
<1>3. ASSUME NEW g \in File, Save(g) PROVE ParsedFor(f)'
  <2>1. /\ mtime' = [mtime EXCEPT ![g] = @ + 1] /\ mtime[g] < MaxTime /\ Sound
        /\ UNCHANGED <<files, last, queue, stage, reading, rest>>
        /\ raced' = IF InPipe(g) /\ ~(reading = g /\ stage = "opened")
                    THEN raced \union {g} ELSE raced
        /\ \E c \in Content : source' = [source EXCEPT ![g] = c]
        /\ InPipe(f)' = InPipe(f) /\ Parsing(f)' = Parsing(f)
    BY <1>3 DEF Save, Sound, InPipe, Parsing
  <2>2. CASE g = f
    <3>1. mtime'[f] = mtime[f] + 1
      BY <2>1, <2>2 DEF TypeOK
    <3>2. files[f] # NoTime => files[f] <= mtime[f]
      BY <2>1 DEF Parses, ParsedFor
    <3>3. mtime'[f] \in 0..MaxTime /\ files'[f] # mtime'[f]
      BY <1>0, <2>1, <2>2, <3>1, <3>2
    <3>4. files'[f] # NoTime => files'[f] <= mtime'[f]
      BY <1>0, <2>1, <3>1, <3>2
    <3>5. ASSUME f \notin raced', Noted(f)'
          PROVE  reading = f /\ stage = "opened" /\ f \notin raced /\ Noted(f)
      BY <2>1, <2>2, <3>3, <3>5 DEF Noted
    <3>6. Parsing(f) => ~last[f].whole
      BY <2>1 DEF Parses, ParsedFor
    <3>7. ASSUME f \notin raced', Noted(f)'
          PROVE  last'[f].fil = {} /\ last'[f].refs = {} /\ ~last'[f].whole /\ stage' = "opened"
      BY <2>1, <3>5, <3>6, <3>7 DEF Parses, ParsedFor, Parsing
    <3> QED
      BY <2>1, <3>4, <3>6, <3>7 DEF ParsedFor
  <2>3. CASE g # f
    <3>1. mtime'[f] = mtime[f] /\ source'[f] = source[f] /\ (f \in raced => f \in raced')
      BY <2>1, <2>3
    <3>2. Noted(f)' => Noted(f)
      BY <2>1, <3>1 DEF Noted
    <3> QED
      BY <1>1, <2>1, <3>1, <3>2
  <2> QED
    BY <2>2, <2>3
<1>4. ASSUME NEW g \in File, ParserOpens(g) PROVE ParsedFor(f)'
  <2>1. /\ FileLine(g) \in Line /\ queue' = Append(queue, FileLine(g)) /\ Sound
        /\ UNCHANGED <<source, mtime, files, rest>> /\ reading' = g /\ stage' = "opened"
        /\ last' = [last EXCEPT ![g] = Nothing] /\ raced' = raced \ {g}
    BY <1>4, LinesWritten DEF ParserOpens, Sound
  <2>2. files'[f] # NoTime => files'[f] <= mtime'[f]
    BY <2>1 DEF Parses, ParsedFor
  <2>3. CASE g = f
    <3>1. last'[f].fil = {} /\ last'[f].refs = {} /\ last'[f].whole = FALSE
      BY <1>0, <2>1, <2>3 DEF Nothing
    <3> QED
      BY <2>1, <2>2, <3>1 DEF ParsedFor
  <2>4. CASE g # f
    <3>1. FileLine(g) # FileLine(f)
      BY <2>4 DEF FileLine
    <3>2. Noted(f)' <=> Noted(f)
      BY <1>0, <1>2, <2>1, <3>1, OpensAppend
    <3>3. last'[f] = last[f] /\ ~Parsing(f)' /\ (f \in raced => f \in raced')
      BY <2>1, <2>4 DEF Parsing
    <3> QED
      BY <1>1, <2>1, <3>2, <3>3
  <2> QED
    BY <2>3, <2>4
<1>5. CASE ParserReads
  <2>1. /\ stage = "opened" /\ stage' = "scanning" /\ rest' = source[reading] /\ Sound
        /\ UNCHANGED <<source, mtime, files, queue, reading, last, raced>>
    BY <1>5 DEF ParserReads, Sound
  <2>2. Noted(f)' <=> Noted(f)
    BY <1>2, <2>1
  <2>3. CASE reading = f
    BY <2>1, <2>2, <2>3 DEF Parses, ParsedFor, Parsing
  <2>4. CASE reading # f
    <3>1. ~Parsing(f)'
      BY <2>1, <2>4 DEF Parsing
    <3> QED
      BY <1>1, <2>1, <2>2, <3>1
  <2> QED
    BY <2>3, <2>4
<1>6. CASE PutSymbol
  <2> DEFINE k == SymKey(reading, Head(rest))
             r == FilKey(reading, Head(rest))
  <2>1. /\ stage = "scanning" /\ rest # <<>> /\ Head(rest).item = "decl" /\ rest' = Tail(rest)
        /\ UNCHANGED <<source, mtime, files, reading, stage, raced>> /\ Sound
        /\ rest \in Seq(Decl \union Ref)
    BY <1>6 DEF PutSymbol, Sound, TypeOK
  <2>2. \/ ~Accepted(Head(rest)) /\ UNCHANGED <<queue, last>>
        \/ /\ Accepted(Head(rest)) /\ SymLine(k) \in Line /\ FilLine(r) \in Line
           /\ queue' = Append(Append(queue, SymLine(k)), FilLine(r))
           /\ last' = [last EXCEPT ![reading].fil = @ \union {r}]
    BY <1>6, PutSymbolLines
  <2>3. Opens(queue', f) <=> Opens(queue, f)
    <3>1. SymLine(k) # FileLine(f) /\ FilLine(r) # FileLine(f)
      BY DEF SymLine, FilLine, FileLine
    <3> HIDE DEF k, r
    <3>2. CASE SymLine(k) \in Line /\ FilLine(r) \in Line
               /\ queue' = Append(Append(queue, SymLine(k)), FilLine(r))
      <4>1. Append(queue, SymLine(k)) \in Seq(Line)
        BY <1>0, <3>2
      <4>2. Opens(Append(queue, SymLine(k)), f) <=> Opens(queue, f)
        BY <1>0, <3>1, <3>2, OpensAppend
      <4> QED
        BY <3>1, <3>2, <4>1, <4>2, OpensAppend
    <3> QED
      BY <2>2, <3>2
  <2>4. Noted(f)' <=> Noted(f)
    BY <1>2, <2>1, <2>3
  <2>5. last'[f].whole = last[f].whole /\ last'[f].refs = last[f].refs
    <3> HIDE DEF k, r
    <3>1. CASE UNCHANGED last
      BY <3>1
    <3>2. CASE last' = [last EXCEPT ![reading].fil = @ \union {r}]
      BY <1>0, <3>2
    <3> QED
      BY <2>2, <3>1, <3>2
  <2>6. CASE reading = f
    <3>1. last'[f].fil \union Listed(f, rest') = last[f].fil \union Listed(f, rest)
      <4>1. Listed(f, rest) = {s \in {r} : Accepted(Head(rest))} \union Listed(f, rest')
        BY <2>1, <2>6, ListedTail
      <4>2. last'[f].fil = last[f].fil \union {s \in {r} : Accepted(Head(rest))}
        <5>1. CASE ~Accepted(Head(rest))
          BY <2>2, <5>1
        <5>2. CASE Accepted(Head(rest))
          <6>1. last' = [last EXCEPT ![f].fil = @ \union {r}]
            BY <2>2, <2>6, <5>2
          <6> HIDE DEF r
          <6> QED
            BY <1>0, <5>2, <6>1
        <5> QED
          BY <5>1, <5>2
      <4> HIDE DEF r
      <4> QED
        BY <4>1, <4>2
    <3>2. /\ files[f] # NoTime => files[f] <= mtime[f]
          /\ ~last[f].whole
          /\ f \notin raced /\ Noted(f) =>
                /\ last[f].fil \union Listed(f, rest) = Listed(f, source[f])
                /\ last[f].refs \union MadeIn(f, rest) \subseteq MadeIn(f, source[f])
      BY <2>1, <2>6 DEF Parses, ParsedFor, Parsing
    <3>3. MadeIn(f, rest') \subseteq MadeIn(f, rest)
      BY <2>1, MadeInTail
    <3> QED
      BY <2>1, <2>4, <2>5, <3>1, <3>2, <3>3 DEF ParsedFor
  <2>7. CASE reading # f
    <3>1. ~Parsing(f)' /\ last'[f].fil = last[f].fil
      BY <1>0, <2>1, <2>2, <2>7 DEF Parsing
    <3> QED
      BY <1>1, <2>1, <2>4, <2>5, <3>1
  <2> QED
    BY <2>6, <2>7
<1>7. CASE PutCrossRef
  <2>1. /\ stage = "scanning" /\ rest # <<>> /\ Head(rest).item = "ref" /\ rest' = Tail(rest)
        /\ UNCHANGED <<source, mtime, files, reading, stage, raced, queue>> /\ Sound
        /\ rest \in Seq(Decl \union Ref)
    BY <1>7 DEF PutCrossRef, Sound, TypeOK
  <2>2. last'[f].fil = last[f].fil /\ last'[f].whole = last[f].whole
    BY <1>0, <1>7 DEF PutCrossRef
  <2>3. Noted(f)' <=> Noted(f)
    BY <1>2, <2>1
  <2>4. Listed(f, rest') = Listed(f, rest)
    <3>1. Listed(f, rest) = {r \in {FilKey(f, Head(rest))} :
                                Head(rest).item = "decl" /\ Accepted(Head(rest))}
                            \union Listed(f, Tail(rest))
      BY <2>1, ListedTail
    <3>2. Head(rest).item # "decl"
      BY <2>1
    <3> QED
      BY <2>1, <3>1, <3>2
  <2>5. CASE reading = f
    <3> DEFINE u == <<Head(rest).caller, Head(rest).target, f>>
    <3>1. last'[f].refs = last[f].refs \union {u}
      <4>1. last' = [last EXCEPT ![f].refs = @ \union {u}]
        BY <1>7, <2>5 DEF PutCrossRef
      <4> HIDE DEF u
      <4> QED
        BY <1>0, <4>1
    <3>2. MadeIn(f, rest) = {u} \union MadeIn(f, rest')
      <4>1. MadeIn(f, rest) = {t \in {u} : Head(rest).item = "ref"} \union MadeIn(f, Tail(rest))
        BY <2>1, MadeInTail
      <4> HIDE DEF u
      <4> QED
        BY <2>1, <4>1
    <3> HIDE DEF u
    <3>3. last'[f].refs \union MadeIn(f, rest') = last[f].refs \union MadeIn(f, rest)
      BY <3>1, <3>2
    <3> QED
      BY <2>1, <2>2, <2>3, <2>4, <2>5, <3>3 DEF Parses, ParsedFor, Parsing
  <2>6. CASE reading # f
    <3>1. last'[f].refs = last[f].refs
      BY <1>0, <1>7, <2>6 DEF PutCrossRef
    <3> QED
      BY <2>1, <2>2, <2>3, <2>6, <3>1 DEF Parses, ParsedFor, Parsing
  <2> QED
    BY <2>5, <2>6
<1>8. CASE ParserCloses
  <2>1. /\ stage = "scanning" /\ rest = <<>> /\ stage' = "none" /\ Sound
        /\ UNCHANGED <<source, mtime, files, raced, queue>>
        /\ last' = [last EXCEPT ![reading].whole = TRUE]
    BY <1>8 DEF ParserCloses, Sound
  <2>2. Noted(f)' <=> Noted(f)
    BY <1>2, <2>1
  <2>3. ~Parsing(f)' /\ last'[f].fil = last[f].fil /\ last'[f].refs = last[f].refs
    BY <1>0, <2>1 DEF Parsing
  <2>4. CASE reading = f
    <3>1. f \notin raced /\ Noted(f) => /\ last[f].fil = Listed(f, source[f])
                                        /\ last[f].refs \subseteq MadeIn(f, source[f])
      BY <2>1, <2>4, ListedEmpty DEF Parses, ParsedFor, Parsing
    <3>2. files[f] # NoTime => files[f] <= mtime[f]
      BY <2>1 DEF Parses, ParsedFor
    <3> QED
      BY <2>1, <2>2, <2>3, <3>1, <3>2 DEF ParsedFor
  <2>5. CASE reading # f
    <3>1. last'[f].whole = last[f].whole
      BY <1>0, <2>1, <2>5
    <3> QED
      BY <1>1, <2>1, <2>2, <2>3, <3>1
  <2> QED
    BY <2>4, <2>5
<1>9. CASE ParserCrashes
  <2> DEFINE k == SymKey(reading, Head(rest))
  <2>1. UNCHANGED <<source, mtime, files, raced, last>> /\ ~Parsing(f)' /\ Sound
    BY <1>9 DEF ParserCrashes, Sound, Parsing
  <2>2. Opens(queue', f) <=> Opens(queue, f)
    <3>1. SymLine(k) # FileLine(f)
      BY DEF SymLine, FileLine
    <3>2. UNCHANGED queue \/ (SymLine(k) \in Line /\ queue' = Append(queue, SymLine(k)))
      BY <1>9, ParserCrashesLines
    <3> HIDE DEF k
    <3>3. CASE UNCHANGED queue
      BY <3>3
    <3>4. CASE SymLine(k) \in Line /\ queue' = Append(queue, SymLine(k))
      BY <1>0, <3>1, <3>4, OpensAppend
    <3> QED
      BY <3>2, <3>3, <3>4
  <2> QED
    BY <1>1, <1>2, <2>1, <2>2
<1>10. CASE DbimpReads
  <2>1. queue # <<>> /\ queue' = Tail(queue) /\ h \in Line /\ Sound
        /\ UNCHANGED <<source, mtime, last, raced, reading, stage, rest>>
    BY <1>10, DbimpReadsLines DEF Sound
  <2>2. Opens(queue, f) <=> h = FileLine(f) \/ Opens(queue', f)
    BY <1>0, <2>1, OpensTail
  <2>3. \/ h = FileLine(f) /\ files'[f] = mtime[f]
        \/ files'[f] = files[f]
    <3>1. CASE ReadFileLine
      <4>1. h.op = "file" /\ files' = [files EXCEPT ![h.file] = mtime[h.file]]
        BY <3>1 DEF ReadFileLine, Reads
      <4>2. h = FileLine(h.file)
        BY <2>1, <4>1 DEF Line, XrefLines, FileLine
      <4>3. CASE h.file = f
        BY <4>1, <4>2, <4>3, SavedTypes DEF TypeOK
      <4>4. CASE h.file # f
        BY <4>1, <4>4
      <4> QED
        BY <4>3, <4>4
    <3>2. CASE \/ ReadDelFileLine \/ ReadSymLine \/ ReadFilLine \/ ReadXrefLine
               \/ ReadDelXrefLine \/ ReadBadLine
      BY <3>2 DEF ReadDelFileLine, ReadSymLine, ReadFilLine, ReadXrefLine, ReadDelXrefLine,
         ReadBadLine
    <3> QED
      BY <1>10, <3>1, <3>2 DEF DbimpReads
  <2>4. Noted(f)' => Noted(f)
    <3>1. InPipe(f)' <=> Opens(queue', f)
      BY DEF InPipe, Opens
    <3>2. InPipe(f) <=> Opens(queue, f)
      BY DEF InPipe, Opens
    <3> QED
      BY <2>1, <2>2, <2>3, <3>1, <3>2 DEF Noted
  <2> QED
    BY <1>1, <2>1, <2>3, <2>4 DEF Parsing
<1>11. CASE EndParse \/ EndImport \/ CancelXref
  <2>1. UNCHANGED <<source, mtime, files, raced>> /\ phase' # "parse" /\ stage' = "none" /\ Sound
        /\ last'[f].fil = last[f].fil /\ last'[f].whole = last[f].whole
        /\ last'[f].refs \subseteq last[f].refs
    <3>1. CASE EndParse
      <4>1. phase' = "idle" \/ phase' = "xref"
        BY <3>1 DEF EndParse
      <4> QED
        BY <3>1, <4>1 DEF EndParse, Sound
    <3>2. CASE EndImport
      BY <3>2 DEF EndImport, Sound, TypeOK
    <3>3. CASE CancelXref
      <4>1. lck => lck'
        BY <3>3 DEF CancelXref
      <4>2. last'[f].fil = last[f].fil /\ last'[f].whole = last[f].whole /\ last'[f].refs = {}
        BY <1>0, <3>3 DEF CancelXref
      <4> QED
        BY <3>3, <4>1, <4>2 DEF CancelXref, Sound, TypeOK
    <3> QED
      BY <1>11, <3>1, <3>2, <3>3
  <2>2. ~InPipe(f)'
    <3>1. Fits(queue', Ops(phase'), batch') /\ "file" \notin Ops(phase')
      BY <1>0, <2>1 DEF Stream, Ops
    <3> QED
      BY <3>1, NoneOpened DEF InPipe, Opens
  <2> QED
    BY <1>1, <2>1, <2>2 DEF Noted, Parsing
<1>12. CASE BeginUnload
  <2>1. PICK g \in File :
          /\ files' = [files EXCEPT ![g] = NoTime]
          /\ last' = [last EXCEPT ![g] = Nothing]
    BY <1>12 DEF BeginUnload
  <2>2. phase' = "unload" /\ stage' = "none" /\ Sound /\ UNCHANGED <<source, mtime, raced>>
    BY <1>12 DEF BeginUnload, Sound, TypeOK
  <2>3. ~InPipe(f)'
    <3>1. Fits(queue', Ops(phase'), batch') /\ "file" \notin Ops(phase')
      BY <1>0, <2>2 DEF Stream, Ops
    <3> QED
      BY <3>1, NoneOpened DEF InPipe, Opens
  <2>4. CASE f = g
    <3>1. files'[f] = NoTime /\ last'[f].fil = {} /\ last'[f].refs = {} /\ last'[f].whole = FALSE
      <4>1. files \in [File -> {NoTime} \union 0..MaxTime]
        BY SavedTypes DEF TypeOK
      <4> QED
        BY <1>0, <2>1, <2>4, <4>1 DEF Nothing
    <3> QED
      BY <2>2, <3>1 DEF ParsedFor, Parsing
  <2>5. CASE f # g
    <3>1. files'[f] = files[f] /\ last'[f] = last[f]
      BY <2>1, <2>5
    <3> QED
      BY <1>1, <2>2, <2>3, <3>1 DEF Noted, Parsing
  <2> QED
    BY <2>4, <2>5
<1>13. CASE Reparse
  <2>1. files'[f] = NoTime /\ last'[f].fil = {} /\ last'[f].refs = {} /\ last'[f].whole = FALSE
        /\ stage' = "none"
    BY <1>13 DEF Reparse, Nothing, TypeOK
  <2> QED
    BY <2>1 DEF ParsedFor, Parsing
<1>14. CASE DbimpDiesAndEnds \/ DbimpDiesAndGoesOn
  <2>1. ~Sound'
    BY <1>14 DEF DbimpDiesAndEnds, DbimpDiesAndGoesOn, Sound, TypeOK
  <2> QED
    BY <2>1
<1>15. CASE (\E g \in File : ParserSkips(g)) \/ StopParse \/ NextPart \/ BeginUpdate \/ UNCHANGED vars
  <2>1. Sound /\ UNCHANGED <<source, mtime, files, raced, queue, reading, stage, rest>>
    BY <1>15 DEF ParserSkips, StopParse, NextPart, BeginUpdate, vars, Sound
  <2>2. /\ last'[f].fil = last[f].fil /\ last'[f].refs \subseteq last[f].refs
        /\ last'[f].whole = last[f].whole
    <3>1. CASE \E g \in File : ParserSkips(g)
      BY <1>0, <3>1 DEF ParserSkips
    <3> QED
      BY <1>15, <3>1 DEF StopParse, NextPart, BeginUpdate, vars
  <2>3. Noted(f)' <=> Noted(f)
    BY <1>2, <2>1
  <2> QED
    BY <1>1, <2>1, <2>2, <2>3 DEF Parsing
<1> QED
  BY <1>3, <1>4, <1>5, <1>6, <1>7, <1>8, <1>9, <1>10, <1>11, <1>12, <1>13, <1>14, <1>15
     DEF Next, Parse, Session

LEMMA ParsesInit == Init => Parses
<1> SUFFICES ASSUME Init, NEW f \in File PROVE ParsedFor(f)
  BY DEF Parses
<1>1. last[f].fil = {} /\ last[f].whole = FALSE /\ stage = "none" /\ files[f] = NoTime
  BY DEF Init, Nothing
<1> QED
  BY <1>1 DEF ParsedFor, Parsing

(* A file whose recorded time is that of the file on the disk has its      *)
(* symbols in .fil, so the next update has not to parse it: an edit is     *)
(* lost only if it comes after the parser has read the file and before     *)
(* dbimp takes its time.                                                   *)
THEOREM OneRaceLosesEdits == Spec => []UpToDate
<1>1. TypeOK /\ Stream /\ Records /\ Parses => UpToDate
  <2> SUFFICES ASSUME TypeOK, Stream, Records, Parses, Settled,
                      NEW f \in File, f \notin raced, Parsed(f)
               PROVE  Current(f)
    BY DEF UpToDate
  <2>1. last[f].fil = Listed(f, source[f])
    BY DEF Parses, ParsedFor, Noted, Parsed, Settled
  <2> QED
    BY <2>1, SettledRecords DEF Current, Stored
<1> QED
  BY <1>1, TypeInit, TypeStep, StreamInit, StreamStep, RecordsInit, RecordsStep,
     ParsesInit, ParsesStep, PTL DEF Spec

-----------------------------------------------------------------------------
(* The cross references of a file: those in .to, those under way in a pipe *)
(* or xfer file q, and those in .to that no line of q deletes.             *)
StoredRefs(f)  == {t \in to : t[3] = f}
SentRefs(q, f) == {t \in ToKeys : t[3] = f /\ \E i \in 1..Len(q) : q[i].op = "xref" /\ q[i].to = t}
Clears(l, t)   == l.op = "delxref" /\ \E r \in l.list : r.kind \in BodyKinds /\ t[1] = EndOf(r) /\ t[3] = r.file
Survives(q, t) == \A i \in 1..Len(q) : ~Clears(q[i], t)
KeptRefs(q, f) == {t \in StoredRefs(f) : Survives(q, t)}
DelFirst(q)    == \A i, j \in 1..Len(q) : q[i].op = "delxref" /\ q[j].op = "xref" => i < j

LEMMA RefsTail ==
    ASSUME NEW q \in Seq(Line), q # <<>>, NEW f
    PROVE  /\ SentRefs(q, f) = SentRefs(Tail(q), f)
                               \union {t \in ToKeys : Head(q).op = "xref" /\ t = Head(q).to /\ t[3] = f}
           /\ \A t : Survives(q, t) <=> ~Clears(Head(q), t) /\ Survives(Tail(q), t)
           /\ DelFirst(q) => DelFirst(Tail(q))
           /\ DelFirst(q) /\ Head(q).op = "xref" => \A t : Survives(Tail(q), t)
<1> USE TailLines
<1>1. Len(q) \in Nat \ {0} /\ 1 \in 1..Len(q) /\ Head(q) = q[1]
  OBVIOUS
<1>2. SentRefs(q, f) = SentRefs(Tail(q), f)
                       \union {t \in ToKeys : Head(q).op = "xref" /\ t = Head(q).to /\ t[3] = f}
  <2>1. ASSUME NEW t \in SentRefs(q, f)
        PROVE  t \in SentRefs(Tail(q), f) \/ (Head(q).op = "xref" /\ t = Head(q).to)
    <3>1. PICK i \in 1..Len(q) : q[i].op = "xref" /\ q[i].to = t
      BY DEF SentRefs
    <3>2. t \in ToKeys /\ t[3] = f
      BY DEF SentRefs
    <3>3. CASE i = 1
      BY <3>1, <3>3
    <3>4. CASE i - 1 \in 1..Len(Tail(q)) /\ Tail(q)[i - 1] = q[i]
      BY <3>1, <3>2, <3>4 DEF SentRefs
    <3> QED
      BY <3>3, <3>4
  <2>2. SentRefs(Tail(q), f) \subseteq SentRefs(q, f)
    BY DEF SentRefs
  <2>3. ASSUME NEW t \in ToKeys, Head(q).op = "xref", t = Head(q).to, t[3] = f
        PROVE  t \in SentRefs(q, f)
    BY <1>1, <2>3 DEF SentRefs
  <2> QED
    BY <2>1, <2>2, <2>3 DEF SentRefs
<1>3. ASSUME NEW t PROVE Survives(q, t) <=> ~Clears(Head(q), t) /\ Survives(Tail(q), t)
  <2>1. ASSUME Survives(q, t) PROVE ~Clears(Head(q), t) /\ Survives(Tail(q), t)
    BY <1>1, <2>1 DEF Survives
  <2>2. ASSUME ~Clears(Head(q), t), Survives(Tail(q), t) PROVE Survives(q, t)
    BY <1>1, <2>2 DEF Survives
  <2> QED
    BY <2>1, <2>2
<1>4. ASSUME DelFirst(q) PROVE DelFirst(Tail(q))
  <2> SUFFICES ASSUME NEW i \in 1..Len(Tail(q)), NEW j \in 1..Len(Tail(q)),
                      Tail(q)[i].op = "delxref", Tail(q)[j].op = "xref"
               PROVE  i < j
    BY DEF DelFirst
  <2>1. /\ i + 1 \in 1..Len(q) /\ Tail(q)[i] = q[i + 1]
        /\ j + 1 \in 1..Len(q) /\ Tail(q)[j] = q[j + 1]
    OBVIOUS
  <2>2. i + 1 < j + 1
    BY <1>4, <2>1 DEF DelFirst
  <2> QED
    BY <2>2
<1>5. ASSUME DelFirst(q), Head(q).op = "xref", NEW t PROVE Survives(Tail(q), t)
  <2> SUFFICES ASSUME NEW i \in 1..Len(Tail(q)), Tail(q)[i].op = "delxref" PROVE FALSE
    BY DEF Survives, Clears
  <2>1. i + 1 \in 1..Len(q) /\ q[i + 1].op = "delxref"
    OBVIOUS
  <2>2. i + 1 < 1
    BY <1>1, <1>5, <2>1 DEF DelFirst
  <2> QED
    BY <2>2
<1> QED
  BY <1>2, <1>3, <1>4, <1>5

(* put_cross_ref adds a line that deletes nothing.                         *)
LEMMA RefsAppend ==
    ASSUME NEW q \in Seq(Line), NEW u \in ToKeys, NEW f \in File, DelFirst(q)
    PROVE  LET p == Append(q, XrefLine(u))
           IN  /\ SentRefs(p, f) = SentRefs(q, f) \union {t \in {u} : u[3] = f}
               /\ \A t : Survives(p, t) <=> Survives(q, t)
               /\ DelFirst(p)
<1> DEFINE l == XrefLine(u)
           p == Append(q, l)
<1>1. l \in Line /\ l.op = "xref" /\ l.to = u
  BY LinesWritten DEF XrefLine
<1>2. /\ Len(q) \in Nat /\ Len(p) = Len(q) + 1
      /\ \A i \in 1..Len(q) : i \in 1..(Len(q) + 1) /\ p[i] = q[i]
      /\ \A i \in 1..(Len(q) + 1) : i \in 1..Len(q) \/ i = Len(q) + 1
      /\ p[Len(q) + 1] = l
  <2> HIDE DEF l
  <2> QED
    BY <1>1, AppendLines
<1> HIDE DEF l, p
<1>3. Len(q) + 1 \in 1..(Len(q) + 1)
  BY <1>2
<1>4. SentRefs(p, f) = SentRefs(q, f) \union {t \in {u} : u[3] = f}
  <2>1. SentRefs(p, f) \subseteq SentRefs(q, f) \union {t \in {u} : u[3] = f}
    BY <1>1, <1>2 DEF SentRefs
  <2>2. SentRefs(q, f) \subseteq SentRefs(p, f)
    BY <1>2 DEF SentRefs
  <2>3. u[3] = f => u \in SentRefs(p, f)
    BY <1>1, <1>2, <1>3 DEF SentRefs
  <2> QED
    BY <2>1, <2>2, <2>3
<1>5. ASSUME NEW t PROVE Survives(p, t) <=> Survives(q, t)
  <2>1. ~Clears(l, t)
    BY <1>1 DEF Clears
  <2>2. ASSUME Survives(p, t) PROVE Survives(q, t)
    BY <1>2, <2>2 DEF Survives
  <2>3. ASSUME Survives(q, t) PROVE Survives(p, t)
    BY <1>2, <2>1, <2>3 DEF Survives
  <2> QED
    BY <2>2, <2>3
<1>6. DelFirst(p)
  <2> SUFFICES ASSUME NEW i \in 1..Len(p), NEW j \in 1..Len(p), p[i].op = "delxref", p[j].op = "xref"
               PROVE  i < j
    BY DEF DelFirst
  <2>1. i \in 1..Len(q) /\ q[i].op = "delxref"
    BY <1>1, <1>2
  <2>2. CASE j \in 1..Len(q)
    BY <1>2, <2>1, <2>2 DEF DelFirst
  <2>3. CASE j = Len(q) + 1
    BY <1>2, <2>1, <2>3
  <2> QED
    BY <1>2, <2>2, <2>3
<1> QED
  BY <1>4, <1>5, <1>6 DEF p, l

(* Lines of other files say nothing of a file, and the delete list alone   *)
(* brings nothing.                                                         *)
LEMMA RefsOfOthers ==
    ASSUME NEW q, NEW O, NEW B, Fits(q, O, B), NEW f \in File, f \notin B
    PROVE  SentRefs(q, f) = {} /\ \A t : t[3] = f => Survives(q, t)
<1>1. SentRefs(q, f) = {}
  BY DEF Fits, LineFor, SentRefs
<1>2. ASSUME NEW t, t[3] = f PROVE Survives(q, t)
  BY <1>2 DEF Fits, LineFor, Survives, Clears
<1> QED
  BY <1>1, <1>2

LEMMA NoRefs ==
    ASSUME NEW q, NEW O, NEW B, Fits(q, O, B), "xref" \notin O, NEW f
    PROVE  SentRefs(q, f) = {} /\ DelFirst(q)
BY DEF Fits, SentRefs, DelFirst

(* The lines a parser writes at its end are those it had in its memory, in *)
(* their order, but for those it loses (NotWritten).                       *)
LEMMA RefsWritten ==
    ASSUME TypeOK, DelFirst(xfer), NEW n \in 0..Len(buffer), NEW end \in {<<>>, <<CutLine>>}
    PROVE  LET y == xfer \o Written(n) \o end
           IN  /\ \A f \in File :
                     /\ SentRefs(xfer, f) \subseteq SentRefs(y, f)
                     /\ SentRefs(y, f) \subseteq SentRefs(xfer, f) \union SentRefs(buffer, f)
                     /\ f \notin NotWritten(n) => SentRefs(buffer, f) \subseteq SentRefs(y, f)
               /\ \A t : Survives(y, t) <=> Survives(xfer, t)
               /\ DelFirst(y)
<1> DEFINE y == xfer \o Written(n) \o end
<1>1. /\ Len(xfer) \in Nat
      /\ \A i \in 1..Len(xfer) : i \in 1..Len(y) /\ y[i] = xfer[i]
      /\ \A i \in 1..n : Len(xfer) + i \in 1..Len(y) /\ y[Len(xfer) + i] = Written(n)[i]
      /\ \A i \in 1..Len(y) : i \in 1..Len(xfer) \/ i - Len(xfer) \in 1..n \/ y[i] = CutLine
  BY WrittenLines
<1>2. /\ CutLine.op = "cut" /\ JunkLine.op = "junk"
      /\ \A i \in 1..Len(buffer) : buffer[i] \in XrefLines /\ buffer[i].op = "xref"
      /\ Len(buffer) \in Nat /\ n \in Nat /\ n <= Len(buffer)
  <2>1. buffer \in Seq(XrefLines)
    BY DEF TypeOK
  <2>2. \A i \in 1..Len(buffer) : buffer[i] \in XrefLines
    BY <2>1
  <2>3. \A l \in XrefLines : l.op = "xref"
    BY DEF XrefLines
  <2>4. CutLine.op = "cut" /\ JunkLine.op = "junk"
    BY DEF CutLine, JunkLine
  <2>5. Len(buffer) \in Nat /\ n \in Nat /\ n <= Len(buffer)
    BY <2>1
  <2> QED
    BY <2>2, <2>3, <2>4, <2>5
<1>3. \A i \in 1..n : /\ i \in 1..Len(buffer)
                      /\ Written(n)[i] = IF i = 1 /\ Torn THEN JunkLine ELSE buffer[i]
  BY <1>2, WrittenType DEF TypeOK
<1> HIDE DEF y
(* A line of y is one of the xfer file, or no delete list.                 *)
<1>4. ASSUME NEW i \in 1..Len(y)
      PROVE  \/ i \in 1..Len(xfer) /\ y[i] = xfer[i]
             \/ i > Len(xfer) /\ y[i].op \in {"cut", "junk"}
             \/ /\ i > Len(xfer) /\ y[i].op = "xref"
                /\ \E j \in 1..Len(buffer) : y[i] = buffer[j]
  <2>1. CASE i \in 1..Len(xfer)
    BY <1>1, <2>1
  <2>2. CASE i - Len(xfer) \in 1..n
    <3>1. i = Len(xfer) + (i - Len(xfer)) /\ i > Len(xfer)
      BY <1>1, <2>2
    <3>2. y[i] = Written(n)[i - Len(xfer)]
      BY <1>1, <2>2, <3>1
    <3>3. y[i] = JunkLine \/ (y[i] = buffer[i - Len(xfer)] /\ i - Len(xfer) \in 1..Len(buffer))
      BY <1>3, <2>2, <3>2
    <3> QED
      BY <1>2, <3>1, <3>3
  <2>3. CASE i \notin 1..Len(xfer) /\ y[i] = CutLine
    <3>1. i > Len(xfer)
      BY <1>1, <2>3
    <3> QED
      BY <1>2, <2>3, <3>1
  <2> QED
    BY <1>1, <2>1, <2>2, <2>3
<1>5. ASSUME NEW f \in File
      PROVE  /\ SentRefs(xfer, f) \subseteq SentRefs(y, f)
             /\ SentRefs(y, f) \subseteq SentRefs(xfer, f) \union SentRefs(buffer, f)
             /\ f \notin NotWritten(n) => SentRefs(buffer, f) \subseteq SentRefs(y, f)
  <2>1. SentRefs(xfer, f) \subseteq SentRefs(y, f)
    BY <1>1 DEF SentRefs
  <2>2. ASSUME NEW t \in SentRefs(y, f) PROVE t \in SentRefs(xfer, f) \union SentRefs(buffer, f)
    <3>1. PICK i \in 1..Len(y) : y[i].op = "xref" /\ y[i].to = t
      BY DEF SentRefs
    <3>2. t \in ToKeys /\ t[3] = f
      BY DEF SentRefs
    <3>3. CASE i \in 1..Len(xfer) /\ y[i] = xfer[i]
      BY <3>1, <3>2, <3>3 DEF SentRefs
    <3>4. CASE \E j \in 1..Len(buffer) : y[i] = buffer[j]
      BY <3>1, <3>2, <3>4 DEF SentRefs
    <3> QED
      BY <1>4, <3>1, <3>3, <3>4
  <2>3. ASSUME f \notin NotWritten(n), NEW t \in SentRefs(buffer, f) PROVE t \in SentRefs(y, f)
    <3>1. PICK j \in 1..Len(buffer) : buffer[j].op = "xref" /\ buffer[j].to = t
      BY DEF SentRefs
    <3>2. t \in ToKeys /\ t[3] = f
      BY DEF SentRefs
    <3>3. ~(j > n \/ (j = 1 /\ Torn))
      BY <2>3, <3>1, <3>2 DEF NotWritten
    <3>4. j \in 1..n /\ Written(n)[j] = buffer[j]
      BY <1>2, <1>3, <3>3
    <3>5. Len(xfer) + j \in 1..Len(y) /\ y[Len(xfer) + j] = buffer[j]
      BY <1>1, <3>4
    <3> QED
      BY <3>1, <3>2, <3>5 DEF SentRefs
  <2> QED
    BY <2>1, <2>2, <2>3
<1>6. ASSUME NEW t PROVE Survives(y, t) <=> Survives(xfer, t)
  <2>1. ASSUME Survives(y, t) PROVE Survives(xfer, t)
    BY <1>1, <2>1 DEF Survives
  <2>2. ASSUME Survives(xfer, t) PROVE Survives(y, t)
    <3>1. ASSUME NEW i \in 1..Len(y), y[i].op = "delxref" PROVE i \in 1..Len(xfer) /\ y[i] = xfer[i]
      BY <1>4, <3>1
    <3> QED
      BY <2>2, <3>1 DEF Survives, Clears
  <2> QED
    BY <2>1, <2>2
<1>7. DelFirst(y)
  <2> SUFFICES ASSUME NEW i \in 1..Len(y), NEW j \in 1..Len(y), y[i].op = "delxref", y[j].op = "xref"
               PROVE  i < j
    BY DEF DelFirst
  <2>1. i \in 1..Len(xfer) /\ y[i] = xfer[i]
    BY <1>4
  <2>2. CASE j \in 1..Len(xfer) /\ y[j] = xfer[j]
    BY <2>1, <2>2 DEF DelFirst
  <2>3. CASE j > Len(xfer)
    BY <1>1, <2>1, <2>3
  <2> QED
    BY <1>4, <2>2, <2>3
<1> QED
  BY <1>5, <1>6, <1>7 DEF y

LEMMA EmptyRefs ==
    \A f : SentRefs(<<>>, f) = {} /\ KeptRefs(<<>>, f) = StoredRefs(f) /\ DelFirst(<<>>)
BY DEF SentRefs, KeptRefs, Survives, DelFirst

-----------------------------------------------------------------------------
(* The symbols listed for a file cover the references of its last parse,   *)
(* while it is being parsed together with what is still to come.           *)
ToCome(f) == IF Parsing(f) /\ stage = "scanning" THEN rest ELSE <<>>

CoveredFor(f) ==
    f \notin lost => \A t \in last[f].refs \union MadeIn(f, ToCome(f)) :
                        Covers(last[f].fil \union Listed(f, ToCome(f)), t)

Covered == Sound => \A f \in File : CoveredFor(f)

LEMMA CoversMore ==
    ASSUME NEW L, NEW M, L \subseteq M, NEW t, Covers(L, t)
    PROVE  Covers(M, t)
BY DEF Covers

LEMMA CoveredStep ==
    ASSUME CallersListed, TypeOK, Covered, [Next]_vars
    PROVE  Covered'
<1> SUFFICES ASSUME Sound', NEW f \in File, f \notin lost'
             PROVE  \A t \in last'[f].refs \union MadeIn(f, ToCome(f)') :
                       Covers(last'[f].fil \union Listed(f, ToCome(f)'), t)
  BY DEF Covered, CoveredFor
<1> USE DEF tables, parser, history
<1>0. /\ last \in [File -> [fil : SUBSET FilKeys, refs : SUBSET ToKeys, whole : BOOLEAN]]
      /\ rest \in Seq(Decl \union Ref) /\ stage # "none" => reading \in File
  BY DEF TypeOK
<1>1. ASSUME Sound, f \notin lost,
             last'[f].refs \union MadeIn(f, ToCome(f)') \subseteq last[f].refs \union MadeIn(f, ToCome(f)),
             last[f].fil \union Listed(f, ToCome(f)) \subseteq last'[f].fil \union Listed(f, ToCome(f)')
      PROVE  \A t \in last'[f].refs \union MadeIn(f, ToCome(f)') :
                Covers(last'[f].fil \union Listed(f, ToCome(f)'), t)
  <2> TAKE t \in last'[f].refs \union MadeIn(f, ToCome(f)')
  <2>1. t \in last[f].refs \union MadeIn(f, ToCome(f))
    BY <1>1
  <2>2. Covers(last[f].fil \union Listed(f, ToCome(f)), t)
    BY <1>1, <2>1 DEF Covered, CoveredFor
  <2> QED
    BY <1>1, <2>2, CoversMore
<1>2. ASSUME last'[f].refs = {}, ToCome(f)' = <<>>
      PROVE  \A t \in last'[f].refs \union MadeIn(f, ToCome(f)') :
                Covers(last'[f].fil \union Listed(f, ToCome(f)'), t)
  BY <1>2, MadeInEmpty
<1>3. ASSUME Sound, f \notin lost, last'[f].refs = last[f].refs, last'[f].fil = last[f].fil,
             ToCome(f)' = ToCome(f)
      PROVE  \A t \in last'[f].refs \union MadeIn(f, ToCome(f)') :
                Covers(last'[f].fil \union Listed(f, ToCome(f)'), t)
  BY <1>1, <1>3
<1>4. ASSUME NEW g \in File, ParserOpens(g)
      PROVE  \A t \in last'[f].refs \union MadeIn(f, ToCome(f)') :
                Covers(last'[f].fil \union Listed(f, ToCome(f)'), t)
  <2>1. /\ last' = [last EXCEPT ![g] = Nothing] /\ stage = "none" /\ stage' = "opened"
        /\ Sound /\ lost' = lost
    BY <1>4 DEF ParserOpens, Sound
  <2>2. ToCome(f)' = <<>> /\ ToCome(f) = <<>>
    BY <2>1 DEF ToCome
  <2>3. CASE g = f
    <3>1. last'[f].refs = {}
      BY <1>0, <2>1, <2>3 DEF Nothing
    <3> QED
      BY <1>2, <2>2, <3>1
  <2>4. CASE g # f
    <3>1. last'[f] = last[f]
      BY <2>1, <2>4
    <3> QED
      BY <1>3, <2>1, <2>2, <3>1
  <2> QED
    BY <2>3, <2>4
<1>5. CASE ParserReads
  <2>1. /\ stage = "opened" /\ stage' = "scanning" /\ rest' = source[reading] /\ Sound
        /\ UNCHANGED <<reading, last, lost>>
    BY <1>5 DEF ParserReads, Sound
  <2>2. ToCome(f) = <<>>
    BY <2>1 DEF ToCome
  <2>3. CASE reading = f
    <3>1. ToCome(f)' = source[f] /\ source[f] \in Content
      BY <2>1, <2>3 DEF ToCome, Parsing, TypeOK
    <3>2. \A t \in last[f].refs : Covers(last[f].fil, t)
      BY <2>1, <2>2, MadeInEmpty, ListedEmpty DEF Covered, CoveredFor
    <3>3. \A t \in MadeIn(f, source[f]) : Covers(Listed(f, source[f]), t)
      BY <3>1 DEF CallersListed
    <3> QED
      BY <2>1, <3>1, <3>2, <3>3, CoversMore
  <2>4. CASE reading # f
    <3>1. ToCome(f)' = <<>>
      BY <2>1, <2>4 DEF ToCome, Parsing
    <3> QED
      BY <1>3, <2>1, <2>2, <3>1
  <2> QED
    BY <2>3, <2>4
<1>6. CASE PutSymbol
  <2> DEFINE r == FilKey(reading, Head(rest))
  <2>1. /\ stage = "scanning" /\ rest # <<>> /\ Head(rest).item = "decl" /\ rest' = Tail(rest)
        /\ UNCHANGED <<reading, stage, lost>> /\ Sound /\ rest \in Seq(Decl \union Ref)
    BY <1>6 DEF PutSymbol, Sound, TypeOK
  <2>2. \/ ~Accepted(Head(rest)) /\ UNCHANGED last
        \/ Accepted(Head(rest)) /\ last' = [last EXCEPT ![reading].fil = @ \union {r}]
    BY <1>6, PutSymbolLines
  <2>3. last'[f].refs = last[f].refs
    <3> HIDE DEF r
    <3> QED
      BY <1>0, <2>2
  <2>4. CASE reading = f
    <3>1. ToCome(f) = rest /\ ToCome(f)' = Tail(rest)
      BY <2>1, <2>4 DEF ToCome, Parsing
    <3>2. MadeIn(f, rest) = MadeIn(f, Tail(rest))
      <4>1. Head(rest).item # "ref"
        BY <2>1
      <4>2. MadeIn(f, rest) = {t \in {<<Head(rest).caller, Head(rest).target, f>>} : Head(rest).item = "ref"}
                              \union MadeIn(f, Tail(rest))
        BY <2>1, MadeInTail
      <4> QED
        BY <4>1, <4>2
    <3>3. Listed(f, rest) = {s \in {r} : Accepted(Head(rest))} \union Listed(f, Tail(rest))
      BY <2>1, <2>4, ListedTail
    <3>4. last'[f].fil = last[f].fil \union {s \in {r} : Accepted(Head(rest))}
      <4>1. CASE ~Accepted(Head(rest))
        BY <2>2, <4>1
      <4>2. CASE Accepted(Head(rest))
        <5>1. last' = [last EXCEPT ![f].fil = @ \union {r}]
          BY <2>2, <2>4, <4>2
        <5> HIDE DEF r
        <5> QED
          BY <1>0, <4>2, <5>1
      <4> QED
        BY <4>1, <4>2
    <3>5. last[f].fil \union Listed(f, rest) \subseteq last'[f].fil \union Listed(f, Tail(rest))
      <4> HIDE DEF r
      <4> QED
        BY <3>3, <3>4
    <3> QED
      BY <1>1, <2>1, <2>3, <3>1, <3>2, <3>5
  <2>5. CASE reading # f
    <3>1. ToCome(f)' = <<>> /\ ToCome(f) = <<>>
      BY <2>1, <2>5 DEF ToCome, Parsing
    <3>2. last'[f].fil = last[f].fil
      <4> HIDE DEF r
      <4> QED
        BY <1>0, <2>2, <2>5
    <3> QED
      BY <1>3, <2>1, <2>3, <3>1, <3>2
  <2> QED
    BY <2>4, <2>5
<1>7. CASE PutCrossRef
  <2> DEFINE u == <<Head(rest).caller, Head(rest).target, reading>>
  <2>1. /\ stage = "scanning" /\ rest # <<>> /\ Head(rest).item = "ref" /\ rest' = Tail(rest)
        /\ UNCHANGED <<reading, stage, lost>> /\ Sound /\ rest \in Seq(Decl \union Ref)
        /\ last' = [last EXCEPT ![reading].refs = @ \union {u}]
    BY <1>7 DEF PutCrossRef, Sound, TypeOK
  <2>2. last'[f].fil = last[f].fil
    <3> HIDE DEF u
    <3> QED
      BY <1>0, <2>1
  <2>3. CASE reading = f
    <3>1. ToCome(f) = rest /\ ToCome(f)' = Tail(rest)
      BY <2>1, <2>3 DEF ToCome, Parsing
    <3>2. MadeIn(f, rest) = {u} \union MadeIn(f, Tail(rest))
      <4>1. MadeIn(f, rest) = {t \in {u} : Head(rest).item = "ref"} \union MadeIn(f, Tail(rest))
        BY <2>1, <2>3, MadeInTail
      <4> HIDE DEF u
      <4> QED
        BY <2>1, <4>1
    <3>3. last'[f].refs = last[f].refs \union {u}
      <4> HIDE DEF u
      <4> QED
        BY <1>0, <2>1, <2>3
    <3>4. Listed(f, rest) = Listed(f, Tail(rest))
      <4>1. Listed(f, rest) = {r \in {FilKey(f, Head(rest))} :
                                  Head(rest).item = "decl" /\ Accepted(Head(rest))}
                              \union Listed(f, Tail(rest))
        BY <2>1, ListedTail
      <4>2. Head(rest).item # "decl"
        BY <2>1
      <4> QED
        BY <4>1, <4>2
    <3> HIDE DEF u
    <3> QED
      BY <1>1, <2>1, <2>2, <3>1, <3>2, <3>3, <3>4
  <2>4. CASE reading # f
    <3>1. ToCome(f)' = <<>> /\ ToCome(f) = <<>>
      BY <2>1, <2>4 DEF ToCome, Parsing
    <3>2. last'[f].refs = last[f].refs
      <4> HIDE DEF u
      <4> QED
        BY <1>0, <2>1, <2>4
    <3> QED
      BY <1>3, <2>1, <2>2, <3>1, <3>2
  <2> QED
    BY <2>3, <2>4
<1>8. CASE ParserCloses
  <2>1. /\ stage = "scanning" /\ rest = <<>> /\ stage' = "none" /\ Sound /\ lost' = lost
        /\ last' = [last EXCEPT ![reading].whole = TRUE]
    BY <1>8 DEF ParserCloses, Sound
  <2>2. ToCome(f)' = <<>> /\ ToCome(f) = <<>>
    BY <2>1 DEF ToCome
  <2>3. last'[f].refs = last[f].refs /\ last'[f].fil = last[f].fil
    BY <1>0, <2>1
  <2> QED
    BY <1>3, <2>1, <2>2, <2>3
<1>9. CASE ParserCrashes
  <2>1. /\ stage' = "none" /\ lost' = lost \union (File \intersect {reading}) /\ Sound
        /\ last' = last
    BY <1>9 DEF ParserCrashes, Sound
  <2>2. f \notin lost /\ f # reading
    BY <2>1
  <2>3. ToCome(f)' = <<>> /\ ToCome(f) = <<>>
    BY <2>1, <2>2 DEF ToCome, Parsing
  <2> QED
    BY <1>3, <2>1, <2>2, <2>3
<1>10. CASE CancelXref
  <2>1. stage = "none" /\ stage' = "none" /\ last'[f].refs = {}
    BY <1>0, <1>10 DEF CancelXref, TypeOK
  <2> QED
    BY <1>2, <2>1 DEF ToCome, Parsing
<1>11. CASE BeginUnload
  <2>1. PICK g \in File : last' = [last EXCEPT ![g] = Nothing]
    BY <1>11 DEF BeginUnload
  <2>2. stage = "none" /\ stage' = "none" /\ Sound /\ lost' = lost
    BY <1>11 DEF BeginUnload, Sound, TypeOK
  <2>3. ToCome(f)' = <<>> /\ ToCome(f) = <<>>
    BY <2>2 DEF ToCome, Parsing
  <2>4. CASE g = f
    <3>1. last'[f].refs = {}
      BY <1>0, <2>1, <2>4 DEF Nothing
    <3> QED
      BY <1>2, <2>3, <3>1
  <2>5. CASE g # f
    <3>1. last'[f] = last[f]
      BY <2>1, <2>5
    <3> QED
      BY <1>3, <2>2, <2>3, <3>1
  <2> QED
    BY <2>4, <2>5
<1>12. CASE Reparse
  <2>1. last'[f].refs = {} /\ stage' = "none"
    BY <1>12 DEF Reparse, Nothing, TypeOK
  <2> QED
    BY <1>2, <2>1 DEF ToCome, Parsing
<1>13. CASE DbimpDiesAndEnds \/ DbimpDiesAndGoesOn
  <2>1. ~Sound'
    BY <1>13 DEF DbimpDiesAndEnds, DbimpDiesAndGoesOn, Sound, TypeOK
  <2> QED
    BY <2>1
<1>14. CASE \/ \E g \in File : Save(g)
            \/ StopParse \/ NextPart \/ DbimpReads \/ BeginUpdate \/ EndParse \/ EndImport
            \/ UNCHANGED vars
  <2>1. Sound /\ (f \notin lost' => f \notin lost) /\ UNCHANGED <<last, reading, stage, rest>>
    <3>1. CASE DbimpReads
      BY <3>1, DbimpReadsLines DEF Sound
    <3>2. CASE EndParse
      BY <3>2 DEF EndParse, Sound
    <3> QED
      BY <1>14, <3>1, <3>2
         DEF Save, StopParse, NextPart, BeginUpdate, EndImport, vars, Sound
  <2>2. ToCome(f)' = ToCome(f)
    BY <2>1 DEF ToCome, Parsing
  <2> QED
    BY <1>3, <2>1, <2>2
<1>15. ASSUME NEW g \in File, ParserSkips(g)
       PROVE  \A t \in last'[f].refs \union MadeIn(f, ToCome(f)') :
                 Covers(last'[f].fil \union Listed(f, ToCome(f)'), t)
  <2>1. /\ last' = [last EXCEPT ![g].refs = {}] /\ Sound
        /\ UNCHANGED <<reading, stage, rest, lost>>
    BY <1>15 DEF ParserSkips, Sound
  <2>2. last'[f].refs \subseteq last[f].refs /\ last'[f].fil = last[f].fil
    BY <1>0, <2>1
  <2>3. ToCome(f)' = ToCome(f)
    BY <2>1 DEF ToCome, Parsing
  <2> QED
    BY <1>1, <2>1, <2>2, <2>3
<1> QED
  BY <1>4, <1>5, <1>6, <1>7, <1>8, <1>9, <1>10, <1>11, <1>12, <1>13, <1>14, <1>15
     DEF Next, Parse, Session

LEMMA CoveredInit == Init => Covered
<1> SUFFICES ASSUME Init, NEW f \in File PROVE CoveredFor(f)
  BY DEF Covered
<1>1. last[f].refs = {} /\ ToCome(f) = <<>>
  BY DEF Init, Nothing, ToCome, Parsing
<1> QED
  BY <1>1, MadeInEmpty DEF CoveredFor

(* The references of a file are, in the end, what its last parse has put   *)
(* out: those that will still be in .to and those under way, in the xfer   *)
(* file or in the memory of the parser.  What it had before goes with the  *)
(* delete list, as a whole, because the list was made when .fil covered it. *)
Pending   == IF phase = "parse" THEN xfer ELSE queue
ToSend(f) == SentRefs(Pending, f) \union SentRefs(buffer, f)

(* The parsing has ended without a reference, and the xfer file will not   *)
(* be loaded.                                                              *)
Stopped == phase = "parse" /\ todo = {} /\ stage = "none" /\ Len(xfer) = 1 /\ buffer = <<>>

(* S are the references of the last parse of f, or some of them if the     *)
(* death of a parser lost others.                                          *)
Agrees(f, S) == S \subseteq last[f].refs /\ (f \notin dropped => last[f].refs \subseteq S)

RefsFor(f) ==
    f \notin lost /\ ~(Stopped /\ f \in batch) =>
        /\ f \in todo => ToSend(f) = {}
        /\ f \notin todo => Agrees(f, KeptRefs(Pending, f) \union ToSend(f))
        /\ phase = "parse" /\ f \in batch => KeptRefs(Pending, f) = {}

Refs == Sound => DelFirst(Pending) /\ \A f \in File : RefsFor(f)

(* Between updates .to holds the references of the last parse, each made   *)
(* in the body of a symbol that .fil lists.                                *)
LEMMA SettledRefs ==
    ASSUME TypeOK, Stream, Records, Covered, Refs, Settled, NEW f \in File, f \notin lost
    PROVE  /\ Agrees(f, StoredRefs(f))
           /\ \A t \in StoredRefs(f) : Covers(Stored(f), t)
<1>1. queue \in Seq(Line) /\ phase = "idle" /\ todo = {} /\ stage = "none" /\ Sound
  BY DEF TypeOK, Settled
<1>2. queue = <<>> /\ buffer = <<>>
  BY <1>1, FitsEmpty DEF Stream, Ops
<1>3. Agrees(f, StoredRefs(f))
  <2>1. Pending = <<>> /\ ~Stopped
    BY <1>1, <1>2 DEF Pending, Stopped
  <2>2. KeptRefs(Pending, f) \union ToSend(f) = StoredRefs(f)
    BY <1>2, <2>1, EmptyRefs DEF ToSend
  <2> QED
    BY <1>1, <2>1, <2>2 DEF Refs, RefsFor
<1>4. ToCome(f) = <<>> /\ Stored(f) = last[f].fil
  BY <1>1, SettledRecords DEF ToCome, Parsing
<1>5. \A t \in last[f].refs : Covers(last[f].fil, t)
  BY <1>1, <1>4, ListedEmpty, MadeInEmpty DEF Covered, CoveredFor
<1> QED
  BY <1>3, <1>4, <1>5 DEF Agrees

(* The delete list of a set of files takes all references of its files.    *)
LEMMA ListClears ==
    ASSUME TypeOK, Stream, Records, Covered, Refs, Settled, NEW f \in File, f \notin lost,
           NEW L, Stored(f) \subseteq L, NEW t \in StoredRefs(f)
    PROVE  Clears(DelXrefLine(L), t)
<1>1. Covers(Stored(f), t)
  BY SettledRefs
<1>2. PICK r \in Stored(f) : r.kind \in BodyKinds /\ t[1] = EndOf(r)
  BY <1>1 DEF Covers
<1>3. r \in L /\ r.file = f /\ t[3] = f
  BY <1>2 DEF Stored, StoredRefs
<1> QED
  BY <1>2, <1>3 DEF Clears, DelXrefLine

LEMMA RefsStep ==
    ASSUME TypeOK, Stream, Records, Covered, Refs, [Next]_vars
    PROVE  Refs'
<1> SUFFICES ASSUME Sound' PROVE DelFirst(Pending') /\ \A f \in File : RefsFor(f)'
  BY DEF Refs
<1> USE DEF tables, parser, history
<1>0. /\ queue \in Seq(Line) /\ xfer \in Seq(Line) /\ todo \in SUBSET batch
      /\ (phase # "parse" => buffer = <<>>) /\ (phase' # "parse" => buffer' = <<>>)
      /\ last \in [File -> [fil : SUBSET FilKeys, refs : SUBSET ToKeys, whole : BOOLEAN]]
      /\ fil \in SUBSET FilKeys /\ Stream' /\ (phase # "parse" => todo = {} /\ stage = "none")
  BY StreamStep, SavedTypes DEF TypeOK, Stream
<1>1. ASSUME Sound, Pending' = Pending, buffer' = buffer, to' = to, phase' = phase, batch' = batch,
             \A f \in File : last'[f].refs = last[f].refs,
             \A f \in File \ lost' : f \notin lost /\ (f \in todo' <=> f \in todo),
             dropped \subseteq dropped', Stopped => Stopped'
      PROVE  DelFirst(Pending') /\ \A f \in File : RefsFor(f)'
  <2>1. DelFirst(Pending')
    BY <1>1 DEF Refs
  <2>2. ASSUME NEW f \in File PROVE RefsFor(f)'
    <3>1. KeptRefs(Pending, f)' = KeptRefs(Pending, f) /\ ToSend(f)' = ToSend(f)
      BY <1>1 DEF KeptRefs, StoredRefs, ToSend
    <3> QED
      BY <1>1, <3>1 DEF Refs, RefsFor, Agrees
  <2> QED
    BY <2>1, <2>2
(* No parsing any more: what is under way is in the pipe.                  *)
<1>2. ASSUME NEW f \in File, phase' # "parse", todo' = {},
             f \notin lost' => Agrees(f, KeptRefs(Pending, f) \union SentRefs(Pending, f))'
      PROVE  RefsFor(f)'
  <2>1. buffer' = <<>>
    BY <1>0, <1>2
  <2>2. ToSend(f)' = SentRefs(Pending, f)'
    BY <2>1, EmptyRefs DEF ToSend
  <2> QED
    BY <1>2, <2>2 DEF RefsFor
<1>3. ASSUME queue' = <<>>, phase' # "parse", todo' = {},
             \A f \in File \ lost' : Agrees(f, StoredRefs(f))'
      PROVE  DelFirst(Pending') /\ \A f \in File : RefsFor(f)'
  <2>1. Pending' = <<>>
    BY <1>3 DEF Pending
  <2>2. ASSUME NEW f \in File
        PROVE  (KeptRefs(Pending, f) \union SentRefs(Pending, f))' = StoredRefs(f)'
    BY <2>1, EmptyRefs DEF KeptRefs, Survives
  <2>3. ASSUME NEW f \in File PROVE RefsFor(f)'
    BY <1>2, <1>3, <2>2 DEF Agrees
  <2> QED
    BY <2>1, <2>3, EmptyRefs
<1>4. CASE BeginUpdate
  <2>1. PICK F \in (SUBSET Changed) \ {{}} :
           /\ batch' = F /\ todo' = F /\ xfer' = <<DelXrefLine({r \in fil : r.file \in F})>>
    BY <1>4 DEF BeginUpdate
  <2>2. /\ Settled /\ phase = "idle" /\ phase' = "parse" /\ buffer = <<>>
        /\ UNCHANGED <<to, last, lost, dropped, buffer>>
    BY <1>0, <1>4 DEF BeginUpdate, Settled, Sound
  <2> DEFINE L == {r \in fil : r.file \in F}
  <2>3. DelXrefLine(L) \in Line /\ L \in SUBSET FilKeys
    BY <1>0, LinesWritten
  <2>4. Pending' = <<DelXrefLine(L)>>
    BY <2>1, <2>2 DEF Pending
  <2>5. Fits(Pending', {"delxref"}, F)
    <3>1. LineFor(DelXrefLine(L), F)
      BY <2>3, LinesFor
    <3>2. DelXrefLine(L).op = "delxref"
      BY DEF DelXrefLine
    <3> HIDE DEF L
    <3> QED
      BY <2>3, <2>4, <3>1, <3>2, FitsOne
  <2>6. DelFirst(Pending') /\ \A f \in File : ToSend(f)' = {}
    BY <2>2, <2>5, NoRefs, EmptyRefs DEF ToSend
  <2>7. ASSUME NEW f \in File, f \notin lost PROVE RefsFor(f)'
    <3>1. CASE f \in F
      <4>1. ASSUME NEW t \in StoredRefs(f) PROVE Clears(DelXrefLine(L), t)
        <5>1. Stored(f) \subseteq L
          BY <3>1 DEF Stored
        <5> QED
          BY <2>2, <2>7, <4>1, <5>1, ListClears
      <4>2. KeptRefs(Pending, f)' = {}
        <5>1. 1 \in 1..Len(Pending') /\ Pending'[1] = DelXrefLine(L)
          BY <2>4
        <5>2. StoredRefs(f)' = StoredRefs(f)
          BY <2>2 DEF StoredRefs
        <5> HIDE DEF L
        <5> QED
          BY <4>1, <5>1, <5>2 DEF KeptRefs, Survives
      <4> QED
        BY <2>1, <2>6, <3>1, <4>2 DEF RefsFor
    <3>2. CASE f \notin F
      <4>1. Agrees(f, StoredRefs(f))
        BY <2>2, <2>7, SettledRefs
      <4>2. KeptRefs(Pending, f)' = StoredRefs(f)
        <5>1. \A t : t[3] = f => Survives(Pending', t)
          BY <2>5, <3>2, RefsOfOthers
        <5> QED
          BY <2>2, <5>1 DEF KeptRefs, StoredRefs
      <4> QED
        BY <2>1, <2>2, <2>6, <3>2, <4>1, <4>2 DEF RefsFor, Agrees
    <3> QED
      BY <3>1, <3>2
  <2>8. ASSUME NEW f \in File, f \in lost PROVE RefsFor(f)'
    BY <2>2, <2>8 DEF RefsFor
  <2> QED
    BY <2>6, <2>7, <2>8
<1>5. ASSUME NEW g \in File, ParserOpens(g) PROVE DelFirst(Pending') /\ \A f \in File : RefsFor(f)'
  <2>1. /\ phase = "parse" /\ g \in todo /\ todo' = todo \ {g} /\ stage' = "opened" /\ Sound
        /\ last' = [last EXCEPT ![g] = Nothing] /\ dropped' = dropped \ {g}
        /\ UNCHANGED <<phase, batch, xfer, buffer, to, lost>>
    BY <1>5 DEF ParserOpens, Sound
  <2>2. /\ ~Stopped /\ Pending' = Pending
        /\ \A f \in File : /\ KeptRefs(Pending, f)' = KeptRefs(Pending, f)
                           /\ ToSend(f)' = ToSend(f)
    BY <2>1 DEF Stopped, Pending, KeptRefs, StoredRefs, ToSend
  <2>3. ASSUME NEW f \in File, f # g PROVE RefsFor(f)'
    <3>1. last'[f] = last[f] /\ (f \in todo' <=> f \in todo) /\ (f \in dropped' <=> f \in dropped)
      BY <2>1, <2>3
    <3> QED
      BY <2>1, <2>2, <3>1 DEF Refs, RefsFor, Agrees
  <2>4. RefsFor(g)'
    <3>1. last'[g].refs = {} /\ g \notin todo' /\ g \in batch
      BY <1>0, <2>1 DEF Nothing
    <3> QED
      BY <2>1, <2>2, <3>1 DEF Refs, RefsFor, Agrees
  <2> QED
    BY <2>1, <2>2, <2>3, <2>4 DEF Refs
<1>6. ASSUME NEW g \in File, ParserSkips(g) PROVE DelFirst(Pending') /\ \A f \in File : RefsFor(f)'
  <2>1. /\ phase = "parse" /\ g \in todo /\ todo' = todo \ {g} /\ Sound
        /\ last' = [last EXCEPT ![g].refs = {}] /\ dropped' = dropped \ {g}
        /\ UNCHANGED <<phase, batch, xfer, buffer, to, lost>>
    BY <1>6 DEF ParserSkips, Sound
  <2>2. /\ ~Stopped /\ Pending' = Pending
        /\ \A f \in File : /\ KeptRefs(Pending, f)' = KeptRefs(Pending, f)
                           /\ ToSend(f)' = ToSend(f)
    BY <2>1 DEF Stopped, Pending, KeptRefs, StoredRefs, ToSend
  <2>3. ASSUME NEW f \in File, f # g PROVE RefsFor(f)'
    <3>1. last'[f] = last[f] /\ (f \in todo' <=> f \in todo) /\ (f \in dropped' <=> f \in dropped)
      BY <2>1, <2>3
    <3> QED
      BY <2>1, <2>2, <3>1 DEF Refs, RefsFor, Agrees
  <2>4. RefsFor(g)'
    <3>1. last'[g].refs = {} /\ g \notin todo' /\ g \in batch
      BY <1>0, <2>1
    <3> QED
      BY <2>1, <2>2, <3>1 DEF Refs, RefsFor, Agrees
  <2> QED
    BY <2>1, <2>2, <2>3, <2>4 DEF Refs
<1>7. CASE PutCrossRef
  <2> DEFINE u == <<Head(rest).caller, Head(rest).target, reading>>
  <2>1. /\ stage = "scanning" /\ rest # <<>> /\ Head(rest).item = "ref" /\ Sound
        /\ buffer' = Append(buffer, XrefLine(u)) /\ last' = [last EXCEPT ![reading].refs = @ \union {u}]
        /\ UNCHANGED <<to, phase, batch, todo, stage, xfer, lost, dropped>>
    BY <1>7 DEF PutCrossRef, Sound
  <2>2. /\ phase = "parse" /\ reading \in File /\ Pending = xfer /\ Pending' = xfer
        /\ buffer \in Seq(Line)
    BY <2>1, BufferLines DEF Pending, TypeOK
  <2>3. u \in ToKeys /\ u[3] = reading
    <3>1. Head(rest) \in Decl \union Ref
      BY <2>1 DEF TypeOK
    <3>2. Head(rest) \in Ref
      BY <2>1, <3>1 DEF Decl
    <3> QED
      BY <2>2, <3>2 DEF Ref, ToKeys
  <2> HIDE DEF u
  <2>4. DelFirst(buffer)
    BY DEF Stream, Fits, DelFirst
  <2>5. \A f \in File : SentRefs(buffer', f) = SentRefs(buffer, f) \union {t \in {u} : u[3] = f}
    BY <2>1, <2>2, <2>3, <2>4, RefsAppend
  <2>6. \A f \in File : KeptRefs(Pending, f)' = KeptRefs(Pending, f)
    BY <2>1, <2>2 DEF KeptRefs, StoredRefs
  <2>7. ~Stopped
    BY <2>1 DEF Stopped
  <2>8. ASSUME NEW f \in File, f # reading PROVE RefsFor(f)'
    <3>1. last'[f].refs = last[f].refs
      BY <1>0, <2>1, <2>8
    <3>2. ToSend(f)' = ToSend(f)
      BY <2>2, <2>3, <2>5, <2>8 DEF ToSend
    <3> QED
      BY <2>1, <2>6, <2>7, <3>1, <3>2 DEF Refs, RefsFor, Agrees
  <2>9. ASSUME NEW f \in File, f = reading PROVE RefsFor(f)'
    <3>1. last'[f].refs = last[f].refs \union {u}
      BY <1>0, <2>1, <2>9
    <3>2. ToSend(f)' = ToSend(f) \union {u}
      BY <2>2, <2>3, <2>5, <2>9 DEF ToSend
    <3>3. f \notin todo
      BY <2>1, <2>9 DEF Records, RecordsFor, Parsing
    <3>4. f \notin lost => /\ Agrees(f, KeptRefs(Pending, f) \union ToSend(f))
                           /\ phase = "parse" /\ f \in batch => KeptRefs(Pending, f) = {}
      BY <2>1, <2>7, <3>3 DEF Refs, RefsFor
    <3>5. f \notin lost => Agrees(f, KeptRefs(Pending, f) \union ToSend(f))'
      BY <2>1, <2>6, <3>1, <3>2, <3>4 DEF Agrees
    <3> QED
      BY <2>1, <2>6, <3>3, <3>4, <3>5 DEF RefsFor
  <2> QED
    BY <2>1, <2>2, <2>8, <2>9 DEF Refs
(* A parser ends: what it had in its memory comes into the xfer file, or   *)
(* is lost.                                                                *)
<1>17. ASSUME Sound, phase = "parse", buffer' = <<>>,
              NEW n \in 0..Len(buffer), NEW end \in {<<>>, <<CutLine>>},
              xfer' = xfer \o Written(n) \o end, dropped' = dropped \union NotWritten(n),
              UNCHANGED <<phase, batch, todo, to, last>>, lost \subseteq lost',
              Stopped => Stopped'
       PROVE  DelFirst(Pending') /\ \A f \in File : RefsFor(f)'
  <2>1. Pending = xfer /\ Pending' = xfer' /\ DelFirst(xfer)
    BY <1>17 DEF Pending, Refs
  <2>2. /\ DelFirst(xfer') /\ \A t : Survives(xfer', t) <=> Survives(xfer, t)
        /\ \A f \in File :
              /\ SentRefs(xfer, f) \subseteq SentRefs(xfer', f)
              /\ SentRefs(xfer', f) \subseteq SentRefs(xfer, f) \union SentRefs(buffer, f)
              /\ f \notin NotWritten(n) => SentRefs(buffer, f) \subseteq SentRefs(xfer', f)
    BY <1>17, <2>1, RefsWritten
  <2>3. ASSUME NEW f \in File PROVE RefsFor(f)'
    <3>1. KeptRefs(Pending, f)' = KeptRefs(Pending, f)
      BY <1>17, <2>1, <2>2 DEF KeptRefs, StoredRefs
    <3>2. ToSend(f)' = SentRefs(xfer', f) /\ ToSend(f) = SentRefs(xfer, f) \union SentRefs(buffer, f)
      BY <1>17, <2>1, EmptyRefs DEF ToSend
    <3>3. ToSend(f)' \subseteq ToSend(f) /\ (f \notin dropped' => ToSend(f)' = ToSend(f))
      BY <1>17, <2>2, <3>2
    <3>4. ASSUME Agrees(f, KeptRefs(Pending, f) \union ToSend(f))
          PROVE  Agrees(f, KeptRefs(Pending, f) \union ToSend(f))'
      BY <1>17, <3>1, <3>3, <3>4 DEF Agrees
    <3> QED
      BY <1>17, <3>1, <3>3, <3>4 DEF Refs, RefsFor
  <2> QED
    BY <2>1, <2>2, <2>3
<1>18. CASE ParserCrashes
  <2>1. /\ Sound /\ phase = "parse" /\ buffer' = <<>>
        /\ UNCHANGED <<phase, batch, todo, to, last>> /\ lost \subseteq lost'
    BY <1>18, ParserCrashesLines DEF ParserCrashes, Sound
  <2>2. ~Stopped
    BY <1>18 DEF ParserCrashes, Stopped
  <2>3. PICK n \in 0..Len(buffer), end \in {<<>>, <<CutLine>>} :
           xfer' = xfer \o Written(n) \o end /\ dropped' = dropped \union NotWritten(n)
    BY <1>18, ParserCrashesLines
  <2> QED
    BY <1>17, <2>1, <2>2, <2>3
<1>19. CASE NextPart
  <2>1. /\ Sound /\ phase = "parse" /\ buffer' = <<>> /\ xfer' = AllWritten
        /\ dropped' = dropped \union NotWritten(Len(buffer))
        /\ UNCHANGED <<phase, batch, todo, stage, to, last, lost>>
    BY <1>19 DEF NextPart, Sound
  <2>2. Len(buffer) \in 0..Len(buffer) /\ xfer' = xfer \o Written(Len(buffer)) \o <<>>
    BY <2>1, AllWrittenIs
  <2>3. Stopped => Stopped'
    <3>1. buffer = <<>> => Len(xfer') = Len(xfer)
      BY <2>1, AllWrittenLen
    <3> QED
      BY <2>1, <3>1 DEF Stopped
  <2> QED
    BY <1>17, <2>1, <2>2, <2>3
<1>8. CASE StopParse
  <2>1. /\ phase = "parse" /\ stage = "none" /\ todo' = {} /\ xfer' = <<Head(xfer)>> /\ Sound
        /\ xfer # <<>> /\ todo # {} /\ buffer' = <<>>
        /\ UNCHANGED <<phase, batch, stage, to, last, lost, dropped>>
    BY <1>8 DEF StopParse, Sound, TypeOK
  <2>2. Stopped' /\ Pending' = xfer' /\ Pending = xfer /\ ~Stopped
    BY <2>1 DEF Stopped, Pending
  <2>3. DelFirst(xfer')
    <3>1. Len(xfer') = 1 /\ \A i \in 1..1 : xfer'[i] = Head(xfer)
      BY <2>1
    <3> QED
      BY <3>1 DEF DelFirst
  <2>4. ASSUME NEW f \in File, f \notin batch, f \notin lost PROVE RefsFor(f)'
    <3>1. f \notin todo /\ Agrees(f, KeptRefs(xfer, f) \union ToSend(f))
      BY <1>0, <2>1, <2>2, <2>4 DEF Refs, RefsFor
    <3>2. /\ SentRefs(xfer, f) = {} /\ SentRefs(buffer, f) = {}
          /\ \A t : t[3] = f => Survives(xfer, t)
      BY <2>4, RefsOfOthers DEF Stream
    <3>3. /\ SentRefs(xfer', f) = {} /\ SentRefs(buffer', f) = {}
          /\ \A t : t[3] = f => Survives(xfer', t)
      BY <1>0, <2>1, <2>4, RefsOfOthers DEF Stream
    <3>4. KeptRefs(xfer, f) = StoredRefs(f) /\ KeptRefs(Pending, f)' = StoredRefs(f)
      BY <2>1, <2>2, <3>2, <3>3 DEF KeptRefs, StoredRefs
    <3>5. ToSend(f) = {} /\ ToSend(f)' = {}
      BY <2>2, <3>2, <3>3 DEF ToSend
    <3> QED
      BY <2>1, <2>2, <2>4, <3>1, <3>4, <3>5 DEF RefsFor, Agrees
  <2>5. ASSUME NEW f \in File, f \in batch \/ f \in lost PROVE RefsFor(f)'
    BY <2>1, <2>2, <2>5 DEF RefsFor
  <2> QED
    BY <2>2, <2>3, <2>4, <2>5
<1>9. CASE DbimpReads
  <2> DEFINE h == Head(queue)
  <2>1. queue # <<>> /\ queue' = Tail(queue) /\ h \in Line /\ Sound
        /\ UNCHANGED <<phase, batch, todo, stage, xfer, buffer, last, lost, dropped>>
    BY <1>9, DbimpReadsLines DEF Sound
  <2>2. h.op \in Ops(phase)
    BY <1>0, <2>1, FitsTail DEF Stream
  <2>3. \/ h.op \notin {"xref", "delxref"} /\ to' = to
        \/ h.op = "xref" /\ to' = to \union {h.to}
        \/ h.op = "delxref" /\ to' = to \ MadeBy(to, h.list)
    BY <1>9 DEF DbimpReads, ReadFileLine, ReadDelFileLine, ReadSymLine, ReadFilLine,
       ReadXrefLine, ReadDelXrefLine, ReadBadLine, Reads
  <2>4. CASE phase = "parse"
    <3>1. to' = to
      BY <2>2, <2>3, <2>4 DEF Ops
    <3>2. Pending' = Pending /\ (Stopped => Stopped')
      BY <2>1, <2>4 DEF Pending, Stopped
    <3> QED
      BY <1>1, <2>1, <3>1, <3>2
  <2>5. CASE phase # "parse"
    <3>1. Pending = queue /\ Pending' = Tail(queue) /\ ~Stopped /\ todo = {} /\ todo' = {}
      BY <1>0, <2>1, <2>5 DEF Pending, Stopped
    <3>2. DelFirst(queue)
      BY <2>1, <3>1 DEF Refs
    <3>3. DelFirst(Pending')
      BY <1>0, <2>1, <3>1, <3>2, RefsTail
    <3>4. ASSUME NEW f \in File, f \notin lost
          PROVE  Agrees(f, KeptRefs(Pending, f) \union SentRefs(Pending, f))'
      <4>1. Agrees(f, KeptRefs(queue, f) \union SentRefs(queue, f))
        <5>1. ToSend(f) = SentRefs(queue, f)
          BY <1>0, <2>5, <3>1, EmptyRefs DEF ToSend
        <5> QED
          BY <2>1, <3>1, <3>4, <5>1 DEF Refs, RefsFor
      <4>0. ASSUME KeptRefs(Pending, f)' \union SentRefs(Pending', f)
                      = KeptRefs(queue, f) \union SentRefs(queue, f)
            PROVE  Agrees(f, KeptRefs(Pending, f) \union SentRefs(Pending, f))'
        BY <2>1, <4>0, <4>1 DEF Agrees
      <4>2. /\ SentRefs(queue, f) = SentRefs(Tail(queue), f)
                                    \union {t \in ToKeys : h.op = "xref" /\ t = h.to /\ t[3] = f}
            /\ \A t : Survives(queue, t) <=> ~Clears(h, t) /\ Survives(Tail(queue), t)
            /\ h.op = "xref" => \A t : Survives(Tail(queue), t)
        BY <1>0, <2>1, <3>2, RefsTail
      <4>3. KeptRefs(Pending, f)' = {t \in to' : t[3] = f /\ Survives(Tail(queue), t)}
        BY <3>1 DEF KeptRefs, StoredRefs
      <4>4. CASE h.op = "xref"
        <5>1. h.to \in ToKeys
          BY <2>1, <4>4, LineTypes
        <5>2. to' = to \union {h.to} /\ \A t : ~Clears(h, t)
          BY <2>3, <4>4 DEF Clears
        <5>3. KeptRefs(queue, f) = {t \in to : t[3] = f}
          BY <4>2, <4>4, <5>2 DEF KeptRefs, StoredRefs
        <5>4. KeptRefs(Pending, f)' = KeptRefs(queue, f) \union {t \in {h.to} : t[3] = f}
          BY <4>2, <4>3, <4>4, <5>2, <5>3
        <5>5. SentRefs(queue, f) = SentRefs(Tail(queue), f) \union {t \in {h.to} : t[3] = f}
          BY <4>2, <4>4, <5>1
        <5> QED
          BY <3>1, <4>0, <5>4, <5>5
      <4>5. CASE h.op # "xref"
        <5>1. SentRefs(queue, f) = SentRefs(Tail(queue), f)
          BY <4>2, <4>5
        <5>2. KeptRefs(Pending, f)' = KeptRefs(queue, f)
          <6>1. CASE h.op = "delxref"
            <7>1. to' = to \ MadeBy(to, h.list)
              BY <2>3, <6>1
            <7>2. \A t \in to : t \in MadeBy(to, h.list) <=> Clears(h, t)
              BY <6>1 DEF MadeBy, Clears
            <7> QED
              BY <4>2, <4>3, <7>1, <7>2 DEF KeptRefs, StoredRefs
          <6>2. CASE h.op # "delxref"
            <7>1. to' = to /\ \A t : ~Clears(h, t)
              BY <2>3, <4>5, <6>2 DEF Clears
            <7> QED
              BY <4>2, <4>3, <7>1 DEF KeptRefs, StoredRefs
          <6> QED
            BY <6>1, <6>2
        <5> QED
          BY <3>1, <4>0, <5>1, <5>2
      <4> QED
        BY <4>4, <4>5
    <3>5. \A f \in File : RefsFor(f)'
      BY <1>2, <2>1, <2>5, <3>1, <3>4
    <3> QED
      BY <3>3, <3>5
  <2> QED
    BY <2>4, <2>5
<1>10. CASE EndParse
  <2>1. /\ phase = "parse" /\ todo = {} /\ stage = "none" /\ todo' = {} /\ Sound
        /\ UNCHANGED <<to, last>> /\ Pending = xfer /\ phase' # "parse"
        /\ dropped' = dropped \union NotWritten(Len(buffer))
    <3>1. phase' = "idle" \/ phase' = "xref"
      BY <1>10 DEF EndParse
    <3> QED
      BY <1>10, <3>1 DEF EndParse, Sound, Pending
  <2>2. CASE Len(AllWritten) = 1
    <3>1. queue' = <<>> /\ lost' = lost \union batch
      BY <1>10, <2>2 DEF EndParse
    <3>2. ASSUME NEW f \in File, f \notin lost' PROVE Agrees(f, StoredRefs(f))'
      <4>1. Agrees(f, KeptRefs(xfer, f) \union ToSend(f))
        BY <2>1, <3>1, <3>2 DEF Refs, RefsFor
      <4>2. /\ SentRefs(xfer, f) = {} /\ SentRefs(buffer, f) = {}
            /\ \A t : t[3] = f => Survives(xfer, t)
        BY <3>1, <3>2, RefsOfOthers DEF Stream
      <4>3. KeptRefs(xfer, f) \union ToSend(f) = StoredRefs(f) /\ StoredRefs(f)' = StoredRefs(f)
        BY <2>1, <4>2 DEF KeptRefs, StoredRefs, ToSend
      <4> QED
        BY <2>1, <4>1, <4>3 DEF Agrees
    <3> QED
      BY <1>3, <2>1, <3>1, <3>2
  <2>3. CASE Len(AllWritten) # 1
    <3>1. queue' = AllWritten /\ lost' = lost
      BY <1>10, <2>3 DEF EndParse
    <3>2. Pending' = AllWritten /\ ~Stopped
      <4>1. buffer = <<>> => Len(AllWritten) = Len(xfer)
        BY AllWrittenLen
      <4> QED
        BY <2>1, <2>3, <3>1, <4>1 DEF Pending, Stopped
    <3> DEFINE n == Len(buffer)
               y == AllWritten
    <3>3. /\ DelFirst(y) /\ \A t : Survives(y, t) <=> Survives(xfer, t)
          /\ \A f \in File :
                /\ SentRefs(xfer, f) \subseteq SentRefs(y, f)
                /\ SentRefs(y, f) \subseteq SentRefs(xfer, f) \union SentRefs(buffer, f)
                /\ f \notin NotWritten(n) => SentRefs(buffer, f) \subseteq SentRefs(y, f)
      <4>1. DelFirst(xfer)
        BY <2>1 DEF Refs
      <4>2. n \in 0..Len(buffer) /\ y = xfer \o Written(n) \o <<>>
        BY AllWrittenIs
      <4> QED
        BY <4>1, <4>2, RefsWritten
    <3>4. ASSUME NEW f \in File, f \notin lost'
          PROVE  Agrees(f, KeptRefs(Pending, f) \union SentRefs(Pending, f))'
      <4>1. Agrees(f, KeptRefs(xfer, f) \union (SentRefs(xfer, f) \union SentRefs(buffer, f)))
        BY <2>1, <3>1, <3>2, <3>4 DEF Refs, RefsFor, ToSend
      <4>2. KeptRefs(Pending, f)' = KeptRefs(xfer, f)
        BY <2>1, <3>2, <3>3 DEF KeptRefs, StoredRefs
      <4>3. SentRefs(Pending, f)' = SentRefs(y, f)
        BY <3>2
      <4> HIDE DEF n, y
      <4> QED
        BY <2>1, <3>3, <4>1, <4>2, <4>3 DEF Agrees, n
    <3>5. DelFirst(Pending')
      BY <3>2, <3>3
    <3> QED
      BY <1>2, <2>1, <3>4, <3>5
  <2> QED
    BY <2>2, <2>3
<1>11. CASE EndImport
  <2>1. /\ phase # "parse" /\ phase' = "idle" /\ queue = <<>> /\ Sound /\ todo' = {}
        /\ UNCHANGED <<queue, to, last, lost, dropped>>
    BY <1>0, <1>11 DEF EndImport, Sound
  <2>2. Pending = <<>> /\ ~Stopped
    BY <2>1 DEF Pending, Stopped
  <2>3. ASSUME NEW f \in File, f \notin lost PROVE Agrees(f, StoredRefs(f))
    <3>1. KeptRefs(Pending, f) \union ToSend(f) = StoredRefs(f)
      BY <1>0, <2>1, <2>2, EmptyRefs DEF ToSend
    <3> QED
      BY <1>0, <2>1, <2>2, <2>3, <3>1 DEF Refs, RefsFor
  <2> QED
    BY <1>3, <2>1, <2>3 DEF StoredRefs, Agrees
<1>12. CASE CancelXref
  <2>1. /\ phase' = "idle" /\ queue' = <<>> /\ to' = {} /\ todo' = {}
        /\ last' = [f \in File |-> [last[f] EXCEPT !.refs = {}]]
    BY <1>0, <1>12 DEF CancelXref
  <2>2. \A f \in File : last'[f].refs = {} /\ StoredRefs(f)' = {}
    BY <1>0, <2>1 DEF StoredRefs
  <2> QED
    BY <1>3, <2>1, <2>2 DEF Agrees
<1>13. CASE BeginUnload
  <2>1. PICK g \in File :
          /\ batch' = {g}
          /\ queue' = <<DelFileLine(g), DelXrefLine({r \in fil : r.file = g})>>
          /\ last' = [last EXCEPT ![g] = Nothing] /\ dropped' = dropped \ {g}
    BY <1>13 DEF BeginUnload
  <2>2. /\ Settled /\ phase' = "unload" /\ todo' = {} /\ UNCHANGED <<to, lost>>
    BY <1>0, <1>13 DEF BeginUnload, Settled, Sound
  <2>3. Pending' = queue'
    BY <2>2 DEF Pending
  <2>4. Fits(Pending', {"delfile", "delxref"}, {g})
    BY <1>0, <2>1, <2>2, <2>3 DEF Stream, Ops
  <2>5. DelFirst(Pending') /\ \A f \in File : SentRefs(Pending', f) = {}
    BY <2>4, NoRefs
  <2>6. ASSUME NEW f \in File, f \notin lost', f = g PROVE RefsFor(f)'
    <3> DEFINE L == {r \in fil : r.file = f}
    <3>1. last'[f].refs = {}
      BY <1>0, <2>1, <2>6 DEF Nothing
    <3>2. ASSUME NEW t \in StoredRefs(f) PROVE Clears(DelXrefLine(L), t)
      <4>1. Stored(f) \subseteq L
        BY DEF Stored
      <4> QED
        BY <2>2, <2>6, <3>2, <4>1, ListClears
    <3>3. KeptRefs(Pending, f)' = {}
      <4>1. 2 \in 1..Len(Pending') /\ Pending'[2] = DelXrefLine(L)
        BY <2>1, <2>3, <2>6
      <4>2. StoredRefs(f)' = StoredRefs(f)
        BY <2>2 DEF StoredRefs
      <4> HIDE DEF L
      <4> QED
        BY <3>2, <4>1, <4>2 DEF KeptRefs, Survives
    <3> QED
      BY <1>2, <2>2, <2>5, <3>1, <3>3 DEF Agrees
  <2>7. ASSUME NEW f \in File, f \notin lost', f # g PROVE RefsFor(f)'
    <3>1. /\ Agrees(f, StoredRefs(f)) /\ last'[f].refs = last[f].refs
          /\ (f \in dropped' <=> f \in dropped)
      BY <2>1, <2>2, <2>7, SettledRefs
    <3>2. \A t : t[3] = f => Survives(Pending', t)
      BY <2>4, <2>7, RefsOfOthers
    <3>3. KeptRefs(Pending, f)' = StoredRefs(f)
      BY <2>2, <3>2 DEF KeptRefs, StoredRefs
    <3> QED
      BY <1>2, <2>2, <2>5, <3>1, <3>3 DEF Agrees
  <2>8. ASSUME NEW f \in File, f \in lost' PROVE RefsFor(f)'
    BY <2>8 DEF RefsFor
  <2> QED
    BY <2>5, <2>6, <2>7, <2>8
<1>14. CASE Reparse
  <2>1. /\ phase' = "idle" /\ to' = {} /\ todo' = {} /\ last' = [f \in File |-> Nothing]
    BY <1>0, <1>14 DEF Reparse
  <2>2. queue' = <<>>
    BY <1>0, <1>14, FitsEmpty DEF Reparse, Stream, Ops
  <2>3. \A f \in File : last'[f].refs = {} /\ StoredRefs(f)' = {}
    BY <2>1 DEF StoredRefs, Nothing
  <2> QED
    BY <1>3, <2>1, <2>2, <2>3 DEF Agrees
<1>15. CASE DbimpDiesAndEnds \/ DbimpDiesAndGoesOn
  <2>1. ~Sound'
    BY <1>15 DEF DbimpDiesAndEnds, DbimpDiesAndGoesOn, Sound, TypeOK
  <2> QED
    BY <2>1
<1>16. CASE \/ \E g \in File : Save(g)
            \/ ParserReads \/ PutSymbol \/ ParserCloses \/ UNCHANGED vars
  <2>1. /\ Sound /\ UNCHANGED <<to, phase, batch, todo, xfer, buffer, lost, dropped>>
        /\ (stage = "none" \/ phase = "parse") /\ (phase # "parse" => queue' = queue)
        /\ (stage # "none" \/ stage' = "none")
    BY <1>0, <1>16 DEF Save, ParserReads, PutSymbol, ParserCloses, vars, Sound
  <2>2. \A f \in File : last'[f].refs = last[f].refs
    <3>1. CASE PutSymbol
      <4> DEFINE r == FilKey(reading, Head(rest))
      <4>1. UNCHANGED last \/ last' = [last EXCEPT ![reading].fil = @ \union {r}]
        BY <3>1, PutSymbolLines
      <4> HIDE DEF r
      <4> QED
        BY <1>0, <4>1
    <3>2. CASE ParserCloses
      <4>1. last' = [last EXCEPT ![reading].whole = TRUE]
        BY <3>2 DEF ParserCloses
      <4> QED
        BY <1>0, <4>1
    <3> QED
      BY <1>16, <3>1, <3>2 DEF Save, ParserReads, vars
  <2>3. Pending' = Pending /\ (Stopped => Stopped')
    BY <2>1 DEF Pending, Stopped
  <2> QED
    BY <1>1, <2>1, <2>2, <2>3
<1> QED
  BY <1>4, <1>5, <1>6, <1>7, <1>8, <1>9, <1>10, <1>11, <1>12, <1>13, <1>14, <1>15, <1>16,
     <1>18, <1>19
     DEF Next, Parse, Session

LEMMA RefsInit == Init => Refs
<1> SUFFICES ASSUME Init PROVE DelFirst(Pending) /\ \A f \in File : RefsFor(f)
  BY DEF Refs
<1>1. /\ phase = "idle" /\ queue = <<>> /\ buffer = <<>> /\ to = {} /\ todo = {}
      /\ \A f \in File : last[f].refs = {}
  BY DEF Init, Nothing
<1>2. Pending = <<>> /\ \A f : StoredRefs(f) = {}
  BY <1>1 DEF Pending, StoredRefs
<1>3. \A f : KeptRefs(Pending, f) = {} /\ ToSend(f) = {}
  BY <1>1, <1>2, EmptyRefs DEF ToSend
<1> QED
  BY <1>1, <1>2, <1>3, EmptyRefs DEF RefsFor, Agrees

(* When the callers are listed, the cross references of a file are those   *)
(* of its last parse, whatever is saved, skipped, stopped, cancelled or    *)
(* unloaded meanwhile: none is left of the parse before, and none is       *)
(* missing but of the files of which a parser that died still had lines in *)
(* its memory (dropped); the files whose references the update gave up     *)
(* (lost) are left out.                                                    *)
THEOREM RefsAreNotMixed == CallersListed /\ Spec => []XrefsOfLastParse
<1>1. TypeOK /\ Stream /\ Records /\ Covered /\ Refs => XrefsOfLastParse
  BY SettledRefs DEF XrefsOfLastParse, StoredRefs, Agrees
<1>2. ASSUME CallersListed
      PROVE  Spec => []XrefsOfLastParse
  <2>1. TypeOK /\ Covered /\ [Next]_vars => Covered'
    BY <1>2, CoveredStep
  <2> QED
    BY <1>1, <2>1, TypeInit, TypeStep, StreamInit, StreamStep, RecordsInit, RecordsStep,
       CoveredInit, RefsInit, RefsStep, PTL DEF Spec
<1> QED
  BY <1>2

(* A reference a file does not contain any more is left only of a file     *)
(* whose references an update gave up, or that was saved in the one moment *)
(* dbimp does not see: the keys in the delete list of the xfer file do     *)
(* delete what they were made for.                                         *)
THEOREM OnlyGivenUpRefsAreStale == CallersListed /\ Spec => []OnlyLostGoStale
<1>1. ASSUME TypeOK, Stream, Records, Parses, Covered, Refs, Settled,
             NEW t \in to, t[3] \notin raced \union lost, Parsed(t[3])
      PROVE  Contains(t[3], t)
  <2> DEFINE f == t[3]
  <2>1. f \in File
    BY <1>1, SavedTypes DEF TypeOK, ToKeys
  <2>2. t \in last[f].refs
    BY <1>1, <2>1, SettledRefs DEF StoredRefs, Agrees
  <2>3. last[f].refs \subseteq MadeIn(f, source[f])
    BY <1>1, <2>1 DEF Parses, ParsedFor, Noted, Parsed, Settled
  <2> QED
    BY <2>2, <2>3 DEF MadeIn, Contains
<1>2. TypeOK /\ Stream /\ Records /\ Parses /\ Covered /\ Refs => OnlyLostGoStale
  BY <1>1 DEF OnlyLostGoStale
<1>3. ASSUME CallersListed
      PROVE  Spec => []OnlyLostGoStale
  <2>1. TypeOK /\ Covered /\ [Next]_vars => Covered'
    BY <1>3, CoveredStep
  <2> QED
    BY <1>2, <2>1, TypeInit, TypeStep, StreamInit, StreamStep, RecordsInit, RecordsStep,
       ParsesInit, ParsesStep, CoveredInit, RefsInit, RefsStep, PTL DEF Spec
<1> QED
  BY <1>3
-----------------------------------------------------------------------------
(* What the parser has put out of a file is the symbols of the first items *)
(* of one content, and what it has still to read is the rest of it.        *)
PutOut(f, c, n) ==
    /\ last[f].fil = Listed(f, SubSeq(c, 1, n))
    /\ Parsing(f) /\ stage = "opened" => n = 0
    /\ Parsing(f) /\ stage = "scanning" =>
          Len(rest) = Len(c) - n /\ \A i \in 1..Len(rest) : rest[i] = c[n + i]

OneContent == \A f \in File : \E c \in Content : \E n \in 0..Len(c) : PutOut(f, c, n)

LEMMA ListedFirst ==
    ASSUME NEW f \in File, NEW c \in Seq(Decl \union Ref)
    PROVE  /\ Listed(f, SubSeq(c, 1, 0)) = {}
           /\ \A n \in 0..Len(c) : n # Len(c) =>
                 /\ n + 1 \in 0..Len(c)
                 /\ Listed(f, SubSeq(c, 1, n + 1)) =
                       Listed(f, SubSeq(c, 1, n))
                       \union {r \in {FilKey(f, c[n + 1])} : c[n + 1].item = "decl" /\ Accepted(c[n + 1])}
<1> DEFINE In(r, d) == \E j \in 1..Len(d) : d[j].item = "decl" /\ Accepted(d[j]) /\ r = FilKey(f, d[j])
<1>1. \A d : Listed(f, d) = {r \in Listed(f, d) : In(r, d)}
             /\ \A r : In(r, d) => r \in Listed(f, d)
  BY DEF Listed
<1>2. \A n \in 0..Len(c) : Len(SubSeq(c, 1, n)) = n /\ \A i \in 1..n : SubSeq(c, 1, n)[i] = c[i]
  OBVIOUS
<1>3. SubSeq(c, 1, 0) = <<>>
  OBVIOUS
<1>4. ASSUME NEW n \in 0..Len(c), n # Len(c)
      PROVE  /\ n + 1 \in 0..Len(c)
             /\ Listed(f, SubSeq(c, 1, n + 1)) =
                   Listed(f, SubSeq(c, 1, n))
                   \union {r \in {FilKey(f, c[n + 1])} : c[n + 1].item = "decl" /\ Accepted(c[n + 1])}
  <2> DEFINE d == SubSeq(c, 1, n)  e == SubSeq(c, 1, n + 1)
             New(r) == c[n + 1].item = "decl" /\ Accepted(c[n + 1]) /\ r = FilKey(f, c[n + 1])
  <2>1. n \in Nat /\ Len(c) \in Nat /\ n + 1 \in 0..Len(c)
    BY <1>4
  <2>2. /\ Len(d) = n /\ Len(e) = n + 1
        /\ \A i \in 1..n : d[i] = c[i]
        /\ \A i \in 1..n + 1 : e[i] = c[i]
    BY <1>2, <2>1
  <2> HIDE DEF d, e
  <2>3. \A r : In(r, e) <=> In(r, d) \/ New(r)
    <3>1. ASSUME NEW r, In(r, e) PROVE In(r, d) \/ New(r)
      BY <2>1, <2>2, <3>1
    <3>2. ASSUME NEW r, In(r, d) PROVE In(r, e)
      BY <2>1, <2>2, <3>2
    <3>3. ASSUME NEW r, New(r) PROVE In(r, e)
      <4>1. n + 1 \in 1..Len(e)
        BY <2>1, <2>2
      <4> QED
        BY <2>2, <3>3, <4>1
    <3> QED
      BY <3>1, <3>2, <3>3
  <2>4. {r \in {FilKey(f, c[n + 1])} : c[n + 1].item = "decl" /\ Accepted(c[n + 1])} = {r \in {FilKey(f, c[n + 1])} : New(r)}
    OBVIOUS
  <2>5. \A r : r \in {s \in {FilKey(f, c[n + 1])} : New(s)} <=> New(r)
    OBVIOUS
  <2> HIDE DEF In, New
  <2>6. Listed(f, e) = Listed(f, d) \union {r \in {FilKey(f, c[n + 1])} : New(r)}
    BY <1>1, <2>3, <2>5
  <2> QED
    BY <2>1, <2>4, <2>6 DEF d, e
<1> QED
  BY <1>3, <1>4, ListedEmpty

LEMMA OneContentInit == Init => OneContent
<1> SUFFICES ASSUME Init, NEW f \in File
             PROVE  \E c \in Content : \E n \in 0..Len(c) : PutOut(f, c, n)
  BY DEF OneContent
<1>1. source[f] \in Content /\ source[f] \in Seq(Decl \union Ref)
  BY ContentAssumption DEF Init
<1>2. 0 \in 0..Len(source[f])
  BY <1>1
<1>3. last[f].fil = {} /\ stage = "none"
  BY DEF Init, Nothing
<1>4. PutOut(f, source[f], 0)
  BY <1>1, <1>3, ListedFirst DEF PutOut, Parsing
<1> QED
  BY <1>1, <1>2, <1>4

LEMMA OneContentStep == TypeOK /\ OneContent /\ [Next]_vars => OneContent'
<1> SUFFICES ASSUME TypeOK, OneContent, [Next]_vars, NEW f \in File
             PROVE  \E c \in Content : \E n \in 0..Len(c) : PutOut(f, c, n)'
  BY DEF OneContent
<1> USE DEF tables, parser, history
<1>0. /\ last \in [File -> [fil : SUBSET FilKeys, refs : SUBSET ToKeys, whole : BOOLEAN]]
      /\ reading \in File \union {NoFile} /\ NoFile \notin File
      /\ rest \in Seq(Decl \union Ref) /\ source[f] \in Content
      /\ stage # "none" => phase = "parse"
  BY NoneAssumption DEF TypeOK
<1>1. PICK c \in Content : \E n \in 0..Len(c) : PutOut(f, c, n)
  BY DEF OneContent
<1>2. PICK n \in 0..Len(c) : PutOut(f, c, n)
  BY <1>1
<1>3. c \in Seq(Decl \union Ref) /\ Len(c) \in Nat /\ n \in Nat
  BY ContentAssumption
(* What is put out of f stays, and the parser leaves f alone or is done.   *)
<1>4. ASSUME last'[f].fil = last[f].fil, UNCHANGED parser \/ ~Parsing(f)'
      PROVE  \E d \in Content : \E m \in 0..Len(d) : PutOut(f, d, m)'
  <2>1. PutOut(f, c, n)'
    BY <1>2, <1>4 DEF PutOut, Parsing
  <2> QED
    BY <2>1
(* Nothing is put out of f yet.                                            *)
<1>5. ASSUME NEW d \in Content, last'[f].fil = {},
             Parsing(f)' => stage' = "opened" \/ (stage' = "scanning" /\ rest' = d)
      PROVE  \E e \in Content : \E m \in 0..Len(e) : PutOut(f, e, m)'
  <2>1. d \in Seq(Decl \union Ref) /\ 0 \in 0..Len(d) /\ Listed(f, SubSeq(d, 1, 0)) = {}
    BY ContentAssumption, ListedFirst
  <2>2. PutOut(f, d, 0)'
    BY <1>5, <2>1 DEF PutOut
  <2> QED
    BY <2>1, <2>2
(* An item of f is read, and is put out if it is a symbol.                 *)
<1>6. ASSUME Parsing(f), stage = "scanning", rest # <<>>, rest' = Tail(rest),
             UNCHANGED <<reading, stage>>,
             last'[f].fil = last[f].fil \union
                {r \in {FilKey(f, Head(rest))} : Head(rest).item = "decl" /\ Accepted(Head(rest))}
      PROVE  \E d \in Content : \E m \in 0..Len(d) : PutOut(f, d, m)'
  <2>1. Len(rest) = Len(c) - n /\ \A i \in 1..Len(rest) : rest[i] = c[n + i]
    BY <1>2, <1>6 DEF PutOut
  <2>2. /\ Len(rest) \in Nat \ {0} /\ Head(rest) = rest[1] /\ 1 \in 1..Len(rest)
        /\ Len(rest') = Len(rest) - 1
        /\ \A i \in 1..Len(rest') : i + 1 \in 1..Len(rest) /\ rest'[i] = rest[i + 1]
    BY <1>0, <1>6
  <2>3. n # Len(c) /\ Head(rest) = c[n + 1]
    BY <1>3, <2>1, <2>2
  <2>4. /\ n + 1 \in 0..Len(c)
        /\ last'[f].fil = Listed(f, SubSeq(c, 1, n + 1))
    <3>1. /\ n + 1 \in 0..Len(c)
          /\ Listed(f, SubSeq(c, 1, n + 1)) =
                Listed(f, SubSeq(c, 1, n))
                \union {r \in {FilKey(f, c[n + 1])} : c[n + 1].item = "decl" /\ Accepted(c[n + 1])}
      BY <1>3, <2>3, ListedFirst
    <3>2. last[f].fil = Listed(f, SubSeq(c, 1, n))
      BY <1>2 DEF PutOut
    <3> QED
      BY <1>6, <2>3, <3>1, <3>2
  <2>5. /\ Len(rest') = Len(c) - (n + 1)
        /\ \A i \in 1..Len(rest') : rest'[i] = c[(n + 1) + i]
    <3>1. ASSUME NEW i \in 1..Len(rest') PROVE rest'[i] = c[(n + 1) + i]
      <4>1. i + 1 \in 1..Len(rest) /\ rest'[i] = rest[i + 1] /\ i \in Int
        BY <2>2
      <4>2. n + (i + 1) = (n + 1) + i
        BY <1>3, <4>1
      <4> QED
        BY <2>1, <4>1, <4>2
    <3> QED
      BY <1>3, <2>1, <2>2, <3>1
  <2>6. PutOut(f, c, n + 1)'
    BY <1>6, <2>4, <2>5 DEF PutOut, Parsing
  <2> QED
    BY <2>4, <2>6
<1>7. CASE UNCHANGED vars
  BY <1>4, <1>7 DEF vars
<1>8. CASE (\E g \in File : Save(g)) \/ StopParse \/ NextPart \/ DbimpReads
           \/ BeginUpdate \/ EndParse \/ EndImport
  BY <1>4, <1>8 DEF Save, StopParse, NextPart, BeginUpdate, EndParse, EndImport,
     DbimpReads, ReadFileLine, ReadDelFileLine, ReadSymLine, ReadFilLine, ReadXrefLine, ReadDelXrefLine,
     ReadBadLine
<1>9. CASE ParserCrashes \/ DbimpDiesAndEnds \/ DbimpDiesAndGoesOn
  <2>1. last' = last /\ stage' = "none"
    BY <1>9 DEF ParserCrashes, DbimpDiesAndEnds, DbimpDiesAndGoesOn, DbimpDies
  <2> QED
    BY <1>4, <2>1 DEF Parsing
<1>10. CASE ParserCloses
  <2>1. last'[f].fil = last[f].fil /\ stage' = "none"
    BY <1>0, <1>10 DEF ParserCloses
  <2> QED
    BY <1>4, <2>1 DEF Parsing
<1>11. CASE CancelXref \/ \E g \in File : ParserSkips(g)
  <2>1. last'[f].fil = last[f].fil
    <3>1. CASE CancelXref
      BY <1>0, <3>1 DEF CancelXref
    <3>2. CASE \E g \in File : ParserSkips(g)
      BY <1>0, <3>2 DEF ParserSkips
    <3> QED
      BY <1>11, <3>1, <3>2
  <2>2. UNCHANGED parser
    BY <1>11 DEF CancelXref, ParserSkips
  <2> QED
    BY <1>4, <2>1, <2>2
<1>12. ASSUME NEW g \in File, ParserOpens(g)
       PROVE  \E d \in Content : \E m \in 0..Len(d) : PutOut(f, d, m)'
  <2>1. CASE g = f
    BY <1>0, <1>5, <1>12, <2>1 DEF ParserOpens, Nothing
  <2>2. CASE g # f
    BY <1>0, <1>4, <1>12, <2>2 DEF ParserOpens, Parsing
  <2> QED
    BY <2>1, <2>2
<1>13. CASE ParserReads
  <2>1. CASE Parsing(f)
    <3>1. n = 0
      BY <1>2, <1>13, <2>1 DEF PutOut, ParserReads
    <3>2. last[f].fil = {}
      BY <1>2, <1>3, <3>1, ListedFirst DEF PutOut
    <3> QED
      BY <1>0, <1>5, <1>13, <2>1, <3>2 DEF ParserReads, Parsing
  <2>2. CASE ~Parsing(f)
    BY <1>4, <1>13, <2>2 DEF ParserReads, Parsing
  <2> QED
    BY <2>1, <2>2
<1>14. CASE PutSymbol \/ PutCrossRef
  <2>1. /\ stage = "scanning" /\ rest # <<>> /\ rest' = Tail(rest) /\ UNCHANGED <<reading, stage>>
        /\ Head(rest).item \in {"decl", "ref"}
    BY <1>14 DEF PutSymbol, PutCrossRef
  <2>2. CASE Parsing(f)
    <3>1. last'[f].fil = last[f].fil \union
             {r \in {FilKey(f, Head(rest))} : Head(rest).item = "decl" /\ Accepted(Head(rest))}
      <4>1. CASE PutSymbol /\ Accepted(Head(rest))
        BY <1>0, <2>2, <4>1 DEF PutSymbol, Parsing
      <4>2. CASE PutSymbol /\ ~Accepted(Head(rest))
        BY <1>0, <2>2, <4>2 DEF PutSymbol, Parsing
      <4>3. CASE PutCrossRef
        BY <1>0, <2>2, <4>3 DEF PutCrossRef, Parsing
      <4> QED
        BY <1>14, <4>1, <4>2, <4>3
    <3> QED
      BY <1>6, <2>1, <2>2, <3>1
  <2>3. CASE ~Parsing(f)
    <3>1. reading # f /\ last'[f].fil = last[f].fil
      BY <1>0, <1>14, <2>1, <2>3 DEF PutSymbol, PutCrossRef, Parsing
    <3> QED
      BY <1>4, <2>1, <3>1 DEF Parsing
  <2> QED
    BY <2>2, <2>3
<1>15. CASE BeginUnload \/ Reparse
  <2>1. UNCHANGED parser /\ stage = "none" /\ last'[f] \in {last[f], Nothing}
    BY <1>0, <1>15 DEF BeginUnload, Reparse
  <2> QED
    BY <1>0, <1>4, <1>5, <2>1 DEF Nothing, Parsing
<1> QED
  BY <1>7, <1>8, <1>9, <1>10, <1>11, <1>12, <1>13, <1>14, <1>15 DEF Next, Parse, Session

(* There are files to work on as long as a dbimp runs, and its copy of the *)
(* tables is no different for the other ones.                              *)
OthersKept ==
    /\ phase = "idle" <=> batch = {}
    /\ \A f \in File \ batch : {r \in disk.fil : r.file = f} = Stored(f)

LEMMA OthersKeptInit == Init => OthersKept
BY DEF Init, OthersKept, Stored, Saved

LEMMA OthersKeptStep == TypeOK /\ Stream /\ OthersKept /\ [Next]_vars => OthersKept'
<1> SUFFICES ASSUME TypeOK, Stream, OthersKept, [Next]_vars PROVE OthersKept'
  OBVIOUS
<1> USE DEF tables, parser, history
<1>1. ASSUME UNCHANGED <<phase, batch>> \/ (phase' = "idle" /\ batch' = {})
                                        \/ (phase' # "idle" /\ batch' # {}),
             UNCHANGED <<fil, disk, batch>> \/ disk'.fil = fil'
      PROVE  OthersKept'
  BY <1>1 DEF OthersKept, Stored
<1>2. CASE UNCHANGED vars
  BY <1>1, <1>2 DEF vars
<1>3. CASE \E f \in File : Save(f) \/ ParserOpens(f) \/ ParserSkips(f)
  BY <1>1, <1>3 DEF Save, ParserOpens, ParserSkips
<1>4. CASE ParserReads \/ PutSymbol \/ PutCrossRef \/ ParserCloses \/ ParserCrashes \/ StopParse
  BY <1>1, <1>4 DEF ParserReads, PutSymbol, PutCrossRef, ParserCloses, ParserCrashes, StopParse
<1>5. CASE NextPart \/ EndParse \/ EndImport \/ CancelXref \/ BeginUpdate \/ BeginUnload \/ Reparse
  <2>1. disk'.fil = fil'
    <3>1. CASE NextPart \/ EndParse \/ EndImport \/ BeginUpdate
      BY <3>1 DEF NextPart, EndParse, EndImport, BeginUpdate, Saved
    <3>2. CASE CancelXref
      BY <3>2 DEF CancelXref, Saved
    <3>3. CASE BeginUnload
      BY <3>3 DEF BeginUnload, Saved
    <3>4. CASE Reparse
      BY <3>4 DEF Reparse
    <3> QED
      BY <1>5, <3>1, <3>2, <3>3, <3>4
  <2>2. \/ UNCHANGED <<phase, batch>> \/ (phase' = "idle" /\ batch' = {})
        \/ (phase' # "idle" /\ batch' # {})
    <3>1. CASE EndParse
      BY <1>5, <3>1 DEF EndParse, OthersKept
    <3>2. CASE ~EndParse
      BY <1>5, <3>2 DEF NextPart, EndImport, CancelXref, BeginUpdate, BeginUnload, Reparse
    <3> QED
      BY <3>1, <3>2
  <2> QED
    BY <1>1, <2>1, <2>2
<1>6. CASE DbimpReads
  <2>1. UNCHANGED <<phase, batch, disk>>
    BY <1>6 DEF DbimpReads, ReadFileLine, ReadDelFileLine, ReadSymLine, ReadFilLine,
       ReadXrefLine, ReadDelXrefLine, ReadBadLine
  <2>2. \A f \in File \ batch : {r \in fil' : r.file = f} = {r \in fil : r.file = f}
    BY <1>6, OthersStep
  <2> QED
    BY <2>1, <2>2 DEF OthersKept, Stored
<1>7. CASE DbimpDiesAndEnds \/ DbimpDiesAndGoesOn
  BY <1>1, <1>7 DEF DbimpDiesAndEnds, DbimpDiesAndGoesOn, DbimpDies
<1> QED
  BY <1>2, <1>3, <1>4, <1>5, <1>6, <1>7 DEF Next, Parse, Session

(* When nothing is in the pipe that lists symbols of f, .fil lists those   *)
(* of the first items of a content.                                        *)
LEMMA Outcome ==
    ASSUME OneContent, Records, Sound, NEW f \in File,
           ~WillReset(queue, f), Sent(queue, f) = {}
    PROVE  Stored(f) \in Outcomes[f]
<1>1. PICK c \in Content : \E n \in 0..Len(c) : PutOut(f, c, n)
  BY DEF OneContent
<1>2. PICK n \in 0..Len(c) : PutOut(f, c, n)
  BY <1>1
<1>3. Stored(f) = Listed(f, SubSeq(c, 1, n))
  BY <1>2 DEF Records, RecordsFor, PutOut
<1>4. Outcomes[f] = UNION {{Listed(f, SubSeq(d, 1, m)) : m \in 0..Len(d)} : d \in Content}
  BY DEF Outcomes
<1> QED
  BY <1>3, <1>4

(* Each step is one of the index that is promised, or none of its business. *)
LEMMA IndexStep ==
    TypeOK /\ Stream /\ Records /\ OneContent /\ OthersKept /\ [Next]_vars
       => [Index!Next]_(Index!vars)
<1> DEFINE E == [f \in File |-> {r \in fil : r.file = f}]
<1> SUFFICES ASSUME TypeOK, Stream, Records, OneContent, OthersKept, [Next]_vars
             PROVE  Index!Next \/ UNCHANGED <<E, batch, Sound>>
  BY DEF Index!vars
<1> USE DEF tables, parser, history
<1>1. /\ batch \in SUBSET File /\ batch' \in SUBSET File
      /\ fil \in SUBSET FilKeys /\ fil' \in SUBSET FilKeys
      /\ lck \in BOOLEAN /\ damaged \in BOOLEAN
  <2>1. TypeOK'
    BY TypeStep
  <2>2. Saved \in Tables /\ Saved' \in Tables
    BY <2>1 DEF TypeOK
  <2>3. fil \in SUBSET FilKeys /\ fil' \in SUBSET FilKeys
    BY <2>2 DEF Saved, Tables
  <2> QED
    BY <2>1, <2>3 DEF TypeOK
<1>2. E \in [File -> SUBSET FilKeys] /\ E' \in [File -> SUBSET FilKeys]
  BY <1>1
<1>3. phase = "idle" <=> batch = {}
  BY DEF OthersKept
<1>4. ASSUME UNCHANGED <<fil, batch, lck, damaged>> PROVE UNCHANGED <<E, batch, Sound>>
  BY <1>4 DEF Sound
<1>5. CASE UNCHANGED vars
  BY <1>4, <1>5 DEF vars
<1>6. CASE \E f \in File : Save(f) \/ ParserOpens(f) \/ ParserSkips(f)
  BY <1>4, <1>6 DEF Save, ParserOpens, ParserSkips
<1>7. CASE ParserReads \/ PutSymbol \/ PutCrossRef \/ ParserCloses \/ ParserCrashes
           \/ StopParse \/ NextPart
  BY <1>4, <1>7 DEF ParserReads, PutSymbol, PutCrossRef, ParserCloses, ParserCrashes, StopParse,
     NextPart
<1>8. CASE BeginUpdate \/ BeginUnload
  <2>1. /\ phase = "idle" /\ batch' \in (SUBSET File) \ {{}}
        /\ UNCHANGED <<fil, lck, damaged>>
    BY <1>1, <1>8 DEF BeginUpdate, BeginUnload
  <2> QED
    BY <1>3, <2>1 DEF Index!Next, Index!Start, Sound
<1>9. CASE DbimpReads
  <2>1. UNCHANGED <<batch, lck, damaged>>
    BY <1>9 DEF DbimpReads, ReadFileLine, ReadDelFileLine, ReadSymLine, ReadFilLine,
       ReadXrefLine, ReadDelXrefLine, ReadBadLine
  <2>2. \A f \in File \ batch : E'[f] = E[f]
    BY <1>9, OthersStep
  <2>3. batch # {}
    <3>1. queue \in Seq(Line) /\ queue # <<>>
      BY <1>9, DbimpReadsLines DEF TypeOK
    <3>2. phase # "idle"
      BY <3>1, FitsEmpty DEF Stream, Ops
    <3> QED
      BY <1>3, <3>2
  <2>4. Index!Worked
    BY <1>2, <2>2, <2>3 DEF Index!Worked
  <2> QED
    BY <2>1, <2>4 DEF Index!Next, Index!Work, Sound
<1>10. CASE EndParse \/ EndImport \/ CancelXref
  <2>1. UNCHANGED <<fil, damaged>> /\ phase # "idle" /\ (Sound' => Sound)
    BY <1>1, <1>10 DEF EndParse, EndImport, CancelXref, Sound
  <2>2. CASE UNCHANGED <<batch, lck>>
    BY <1>4, <2>1, <2>2
  <2>3. CASE batch' = {}
    <3>1. ASSUME NEW f \in batch, Sound PROVE E[f] \in Outcomes[f]
      <4>1. ~WillReset(queue, f) /\ Sent(queue, f) = {}
        <5>1. CASE EndParse \/ EndImport
          <6>1. queue = <<>>
            BY <5>1 DEF EndParse, EndImport
          <6>2. Fits(queue, {}, batch) /\ {} \intersect {"file", "delfile", "fil"} = {}
            BY <6>1, FitsEmpty
          <6> QED
            BY <1>1, <6>2, QuietFacts
        <5>2. CASE CancelXref
          <6>1. /\ Fits(queue, Ops("xref"), batch)
                /\ Ops("xref") \intersect {"file", "delfile", "fil"} = {}
            BY <5>2 DEF CancelXref, Stream, Ops
          <6> QED
            BY <1>1, <6>1, QuietFacts
        <5> QED
          BY <1>10, <5>1, <5>2
      <4>2. Stored(f) \in Outcomes[f]
        BY <1>1, <3>1, <4>1, Outcome
      <4> QED
        BY <1>1, <4>2 DEF Stored
    <3>2. batch # {} /\ E' = E
      BY <1>3, <2>1
    <3>3. Sound' => Sound /\ \A f \in batch : E[f] \in Outcomes[f]
      BY <2>1, <3>1
    <3>4. Sound' \in BOOLEAN
      BY DEF Sound
    <3>5. Index!Finish
      BY <2>3, <3>2, <3>3, <3>4 DEF Index!Finish
    <3> QED
      BY <3>5 DEF Index!Next
  <2> QED
    BY <1>10, <2>2, <2>3 DEF EndParse, EndImport, CancelXref
<1>11. CASE DbimpDiesAndEnds \/ DbimpDiesAndGoesOn
  <2>1. fil' \in {disk.fil, fil} /\ phase # "idle" /\ batch' \in {batch, {}}
    BY <1>11 DEF DbimpDiesAndEnds, DbimpDiesAndGoesOn, DbimpDies
  <2>2. Sound' = FALSE
    BY <1>1, <1>11 DEF DbimpDiesAndEnds, DbimpDiesAndGoesOn, Sound
  <2>3. \A f \in File \ batch : E'[f] = E[f]
    BY <2>1 DEF OthersKept, Stored
  <2>4. Index!Worked
    BY <1>2, <1>3, <2>1, <2>3 DEF Index!Worked
  <2> QED
    BY <2>1, <2>2, <2>4 DEF Index!Next, Index!Lose
<1>12. CASE Reparse
  <2>1. phase = "idle" /\ batch' = batch /\ fil' = {} /\ Sound'
    BY <1>12 DEF Reparse, Sound
  <2>2. E' = Index!Empty
    BY <2>1 DEF Index!Empty
  <2> QED
    BY <1>3, <2>1, <2>2 DEF Index!Next, Index!Reset
<1> QED
  BY <1>5, <1>6, <1>7, <1>8, <1>9, <1>10, <1>11, <1>12 DEF Next, Parse, Session

(* The database implements an index of the files: an update or an unload   *)
(* touches the symbols of its files only, and when it ends each of them    *)
(* has the symbols of one content, from the first one on, whatever is      *)
(* saved, skipped, stopped or cancelled meanwhile (sn_parse_uptodate).     *)
THEOREM DatabaseIsIndex == Spec => IsIndex
<1>1. Init => Index!Init
  BY DEF Init, Index!Init, Index!Empty, Sound
<1> QED
  BY <1>1, IndexStep, TypeInit, TypeStep, StreamInit, StreamStep, RecordsInit, RecordsStep,
     OneContentInit, OneContentStep, OthersKeptInit, OthersKeptStep, PTL DEF Spec, IsIndex, Index!Spec
=============================================================================
