----------------------------- MODULE AtLeastOnce ----------------------------
(***************************************************************************)
(* What the transport port promises its consumers (transport.Completion):  *)
(* the position of the group moves over a message only after some consumer *)
(* reported that message Done, and it never moves back.                    *)
(***************************************************************************)
EXTENDS Integers

CONSTANT MaxOffset      \* bound on published messages

VARIABLES
    published,          \* messages 1..published are in the log
    finished,           \* messages whose outcome was Done at least once
    cursor              \* the next message the group starts from

vars == <<published, finished, cursor>>

Init == published = 0 /\ finished = {} /\ cursor = 1

Publish ==
    /\ published < MaxOffset
    /\ published' = published + 1
    /\ UNCHANGED <<finished, cursor>>

Finish ==
    /\ \E o \in cursor..published \cup finished : finished' = finished \cup {o}
    /\ UNCHANGED <<published, cursor>>

Advance ==
    /\ \E n \in cursor..(published + 1) :
         /\ cursor..(n - 1) \subseteq finished
         /\ cursor' = n
    /\ UNCHANGED <<published, finished>>

Next == Publish \/ Finish \/ Advance

Spec == Init /\ [][Next]_vars
=============================================================================
