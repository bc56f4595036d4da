---------------------------- MODULE SourceIndex ----------------------------
(***************************************************************************)
(* What the database promises to whoever looks up the symbols of a source: *)
(* they change only while it is being worked on, and when the work is done *)
(* they are what came out of it once, never a mixture.  The promise is     *)
(* lost when the work is cut short, and comes back with an empty index.    *)
(***************************************************************************)
CONSTANTS
    Source,         \* the sources
    Entry,          \* what may be listed for a source
    Results         \* Results[f]: the sets of entries that may come out of f

VARIABLES
    entries,        \* entries[f]: what is listed for f
    working,        \* the sources that are being worked on
    sound           \* is the promise kept?

vars == <<entries, working, sound>>

Empty == [f \in Source |-> {}]

Init == entries = Empty /\ working = {} /\ sound = TRUE

(* Work begins on some sources when the work before has ended.             *)
Start ==
    /\ working = {}
    /\ working' \in (SUBSET Source) \ {{}}
    /\ UNCHANGED <<entries, sound>>

(* Only the sources that are being worked on may change.                   *)
Worked ==
    /\ working # {}
    /\ entries' \in [Source -> SUBSET Entry]
    /\ \A f \in Source \ working : entries'[f] = entries[f]

Work == Worked /\ UNCHANGED <<working, sound>>

Finish ==
    /\ working # {} /\ working' = {}
    /\ sound' => sound /\ \A f \in working : entries[f] \in Results[f]
    /\ sound' \in BOOLEAN
    /\ UNCHANGED entries

Lose == Worked /\ working' \in {working, {}} /\ sound' = FALSE

Reset == working = {} /\ working' = {} /\ entries' = Empty /\ sound' = TRUE

Next == Start \/ Work \/ Finish \/ Lose \/ Reset

Spec == Init /\ [][Next]_vars
=============================================================================
