--------------------------- MODULE MCExecGrepPane ---------------------------
(* Instances of ExecGrepPane for TLC.                                      *)
EXTENDS ExecGrepPane

(* Two groups, one of which fills the buffer and one gives nothing; and a  *)
(* group that goes beyond the limit of two lines.                          *)
SomeSearches == {<<2, 0>>, <<3>>}
=============================================================================
