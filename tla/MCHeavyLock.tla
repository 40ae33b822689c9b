---------------------------- MODULE MCHeavyLock ----------------------------
(* Instances of HeavyLock for TLC: two enrichment workers, which yield, one*)
(* of them with --no-wait, and commands that do not yield, one with it.    *)
EXTENDS HeavyLock

CONSTANTS enrich, enrich2, sync, embed, eval, status

============================================================================
