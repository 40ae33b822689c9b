------------------------------- MODULE Mirror -------------------------------
(* What a search index kept beside a database promises: it may be behind,  *)
(* entity by entity, and every step that changes it takes over what the    *)
(* database says at that moment, never what it said before.                *)
CONSTANTS
    Entities,  \* what is indexed
    Texts,     \* what an entity may say
    Missing    \* not a text: the entity does not exist

VARIABLES
    source,    \* what the database says of each entity
    mirror,    \* what the index says
    behind     \* the entities whose change is announced and not taken over

Init ==
    /\ source = [e \in Entities |-> Missing]
    /\ mirror = [e \in Entities |-> Missing]
    /\ behind = {}

\* A transaction announces everything it changes.
Publish(announced) ==
    /\ source' \in [Entities -> Texts \cup {Missing}]
    /\ \A e \in Entities \ announced : source'[e] = source[e]
    /\ behind' = behind \cup announced
    /\ UNCHANGED mirror

\* One of several announcements may be left.
CatchUp(e) ==
    /\ e \in behind
    /\ mirror' = [mirror EXCEPT ![e] = source[e]]
    /\ behind' \in {behind, behind \ {e}}
    /\ UNCHANGED source

Next ==
    \/ \E announced \in SUBSET Entities : Publish(announced)
    \/ \E e \in Entities : CatchUp(e)

Spec == Init /\ [][Next]_<< source, mirror, behind >>

=============================================================================
