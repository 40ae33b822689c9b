----------------------------- MODULE PoliteLock -----------------------------
(* What the heavy-model lock promises (imsg.heavy_lock, "Waiting commands  *)
(* go first"): one owner at a time, and a command that yields never        *)
(* becomes the owner while another command has announced that it waits.    *)
CONSTANTS
    Commands,  \* every command that loads a large model
    Yielding,  \* those that step aside for waiting commands (enrich)
    NoOne      \* no command

VARIABLES
    owner,     \* the command whose models may be loaded
    announced  \* the command that waits, as the others can see it

Init ==
    /\ owner = NoOne
    /\ announced = NoOne

Announce(c) ==
    /\ c \notin Yielding
    /\ announced = NoOne
    /\ announced' = c
    /\ UNCHANGED owner

\* The command that announced itself is served, gives up or dies.
StopWaiting(c) ==
    /\ announced = c
    /\ announced' = NoOne
    /\ owner' = owner \/ (owner = c /\ owner' = NoOne)

Own(c) ==
    /\ owner = NoOne
    /\ c \in Yielding => announced = NoOne
    /\ owner' = c
    /\ UNCHANGED announced

Disown(c) ==
    /\ owner = c
    /\ owner' = NoOne
    /\ UNCHANGED announced

Next == \E c \in Commands : Announce(c) \/ StopWaiting(c) \/ Own(c) \/ Disown(c)

Spec == Init /\ [][Next]_<< owner, announced >>

=============================================================================
