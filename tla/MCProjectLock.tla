---------------------------- MODULE MCProjectLock ----------------------------
(* Three processes on one host, two of them of the same user. *)
EXTENDS ProjectLock

CONSTANTS h1, h2, h3, host, user1, user2

OneSystem == [p \in Hyper |-> host]
TwoUsers  == [p \in Hyper |-> IF p = h3 THEN user2 ELSE user1]
=============================================================================
