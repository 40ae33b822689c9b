------------------------- MODULE MCMemoryAdmission -------------------------
(* Instances of MemoryAdmission for TLC: the public and a local server, a  *)
(* command that works in units and a batch command (eval).                 *)
EXTENDS MemoryAdmission

CONSTANTS public, local, sync, eval

\* Two units for the large model sets, one for the small ones.
MCFootprint == [p \in Procs |-> IF p \in {public, sync} THEN 2 ELSE 1]

============================================================================
