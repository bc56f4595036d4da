--------------------------- MODULE MCParseSession ---------------------------
(* Small updates for the model checker. *)
EXTENDS ParseSession

CONSTANTS f1, f2

(* One bundle of two files; one file for each of two types. *)
TwoFiles == {<< << <<f1, f2>> >> >>}
TwoBundles == TwoFiles \union {<< << <<f1>> >>, << <<f2>> >> >>}
=============================================================================
