---------------------------- MODULE MCGrepPane ----------------------------
(* Small projects with grep panes for the model checker. *)
EXTENDS GrepPane, TLC

CONSTANTS f1, f2

(* One list meets the limit of lines, the other one exceeds it. *)
SmallLists == {<<f1, f2>>, <<f2>>}
SmallHits  == (f1 :> 1) @@ (f2 :> 2)
=============================================================================
