--------------------------- MODULE MCServerModels ---------------------------
(* Small instances of ServerModels: a local server, and the public one with *)
(* and without an idle period.                                              *)
EXTENDS ServerModels

CONSTANTS c1, c2

MCCallers == {c1, c2}

OneCaller == {c1}

LocalServer == [warm_at_start |-> FALSE, rewarm |-> FALSE, holdable |-> FALSE,
                idle_unload |-> TRUE, release |-> TRUE]

PublicServer == [warm_at_start |-> TRUE, rewarm |-> TRUE, holdable |-> TRUE,
                 idle_unload |-> FALSE, release |-> TRUE]

IdlingPublicServer == [PublicServer EXCEPT !.idle_unload = TRUE]

MCConfigs == {LocalServer, PublicServer, IdlingPublicServer}

PublicOnly == {PublicServer}
=============================================================================
