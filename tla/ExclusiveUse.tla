---------------------------- MODULE ExclusiveUse ----------------------------
(***************************************************************************)
(* What a lock promises its clients: one of them at a time uses what it    *)
(* protects.  The promise may be lost, by somebody who breaks the lock or  *)
(* by clients that took it at once, and then nothing is said until there   *)
(* is one client at most again.                                            *)
(***************************************************************************)
EXTENDS FiniteSets

CONSTANT Client     \* whoever may use what is protected

VARIABLES
    users,          \* the clients that use it
    lost            \* is the promise lost?

vars == <<users, lost>>

Alone(S) == \A p, q \in S : p = q

Init == users = {} /\ lost = FALSE

(* A client begins, if there is no other. *)
Take == ~lost /\ UNCHANGED lost /\ users = {} /\ \E p \in Client : users' = {p}

Leave == ~lost /\ UNCHANGED lost /\ \E p \in users : users' = users \ {p}

(* Once the promise is lost anybody may come and go. *)
Lose == lost' = TRUE /\ users' \subseteq Client

Regain == lost' = FALSE /\ lost /\ users' \subseteq Client /\ Alone(users')

Next == Take \/ Leave \/ Lose \/ Regain

Spec == Init /\ [][Next]_vars
=============================================================================
