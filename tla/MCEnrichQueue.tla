--------------------------- MODULE MCEnrichQueue ---------------------------
(* Instances of EnrichQueue for TLC: the two kinds of a PDF, of which the  *)
(* second is only ever a follow-up, and the caption of a photo.            *)
EXTENDS EnrichQueue

CONSTANTS pdf, ocr, caption, nightly, manual

MCFollowUps == [t \in Tasks |-> IF t = pdf THEN {ocr} ELSE {}]

MCRank == [t \in Tasks |-> CASE t = pdf -> 1 [] t = ocr -> 2 [] t = caption -> 3]

============================================================================
