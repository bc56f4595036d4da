----------------------------- MODULE MCSymbolDb -----------------------------
(* Small projects for the model checker. *)
EXTENDS SymbolDb, TLC

CONSTANTS A, m, v, g

D(k, c, n)    == [item |-> "decl", kind |-> k, class |-> c, name |-> n]
E(k, s, n)    == [kind |-> k, scope |-> s, name |-> n]
R(from, into) == [item |-> "ref", caller |-> from, target |-> into]

(* A class member that uses a local variable. *)
Local == << D("mi", A, m), R(E("mi", A, m), E("lv", Hash, v)) >>
(* A function that shares the member's name and calls it; the parser gives *)
(* it a class, which put_symbol drops. *)
Function == << D("fu", A, m), R(E("fu", Hash, m), E("mi", A, m)) >>
(* No references: variables, one of them local without a class, and a      *)
(* member that put_symbol refuses. *)
Variables == << D("lv", None, v), D("mi", None, m), D("gv", None, g) >>

(* No references, and nothing special. *)
Constant == << D("gv", None, g) >>

AllContents == {Local, Function, Variables}
TwoContents == {Function, Constant}

(* Every reference above is made in the body of a symbol of its file.      *)
ASSUME ContentsListCallers == CallersListed

Symmetry == Permutations(File)

(* A database that is damaged, or locked for good, is not explored further: *)
(* only Reparse leads back, and to an empty database. *)
Usable == ~damaged /\ (lck => phase = "idle")

(* What the steps and the properties of the run with two files depend on:  *)
(* of the history, the cross references only. *)
ViewOfRefs == <<source, mtime, tables, disk, phase, batch, todo, parser, queue,
                xfer, buffer, lck, damaged, [f \in File |-> last[f].refs], lost, dropped>>
=============================================================================
