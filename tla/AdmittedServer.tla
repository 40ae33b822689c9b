--------------------------- MODULE AdmittedServer ---------------------------
(* What a live server and the memory admission owe each other: the server  *)
(* asks only when it has nothing, loads only what was admitted, and gives  *)
(* the reservation back only when its models are gone, unless it is ending;*)
(* a notice goes up with a refusal, with an admission past background jobs *)
(* or to ask for a reload, and never in between.                           *)
VARIABLES
    loaded,    \* whether models are in memory
    reserved,  \* whether the reservation stands
    notice,    \* why the server's notice is up, or "none"
    stopping   \* whether the server is ending or has ended

Init ==
    /\ loaded = FALSE
    /\ reserved = FALSE
    /\ notice = "none"
    /\ stopping = FALSE

HasNothing == ~loaded /\ ~reserved

Admitted ==
    /\ HasNothing
    /\ ~stopping
    /\ reserved' = TRUE
    /\ notice' \in {"none", "past_background"}
    /\ UNCHANGED << loaded, stopping >>

Refused ==
    /\ HasNothing
    /\ ~stopping
    /\ notice' = "waiting"
    /\ UNCHANGED << loaded, reserved, stopping >>

Load ==
    /\ reserved
    /\ ~stopping
    /\ loaded' = TRUE
    /\ UNCHANGED << reserved, notice, stopping >>

Unload ==
    /\ ~stopping
    /\ loaded' = FALSE
    /\ UNCHANGED << reserved, notice, stopping >>

\* The notice may follow later (Withdraw, AskForReload).
GiveBack ==
    /\ ~loaded \/ stopping
    /\ reserved' = FALSE
    /\ notice' \in {notice, "none", "reload_pending"}
    /\ UNCHANGED << loaded, stopping >>

AskForReload ==
    /\ HasNothing
    /\ ~stopping
    /\ notice' = "reload_pending"
    /\ UNCHANGED << loaded, reserved, stopping >>

Withdraw ==
    /\ notice' = "none"
    /\ UNCHANGED << loaded, reserved, stopping >>

Stop ==
    /\ stopping' = TRUE
    /\ UNCHANGED << loaded, reserved, notice >>

\* The process ends, or is killed.
End ==
    /\ loaded' = FALSE
    /\ reserved' = FALSE
    /\ notice' = "none"
    /\ stopping' = TRUE

\* A new process has nothing.
Restart ==
    /\ HasNothing
    /\ notice = "none"
    /\ stopping' = FALSE
    /\ UNCHANGED << loaded, reserved, notice >>

Next ==
    \/ Admitted \/ Refused \/ Load \/ Unload \/ GiveBack
    \/ AskForReload \/ Withdraw \/ Stop \/ End \/ Restart

Spec == Init /\ [][Next]_<< loaded, reserved, notice, stopping >>

=============================================================================
