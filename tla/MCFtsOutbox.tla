---------------------------- MODULE MCFtsOutbox ----------------------------
(* Instances of FtsOutbox for TLC: two segments and a chunk, sync in both  *)
(* of its roles, enrichment, and embed.                                    *)
EXTENDS FtsOutbox

CONSTANTS session, reply, caption, sync, enrich, embed, short, long

============================================================================
