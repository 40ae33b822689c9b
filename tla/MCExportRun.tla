---------------------------- MODULE MCExportRun ----------------------------
(* Instances of ExportRun for TLC: two chats, one of them with a photo.     *)
EXTENDS ExportRun

CONSTANTS ann, bob, family, work, trip, budget, photo, jpeg, cli

MCChatOf == [s \in Segments |-> IF s = trip THEN family ELSE work]
MCSegmentOf == [a \in Attachments |-> trip]
MCSenderOf == [a \in Attachments |-> ann]
MCMimeOf == [a \in Attachments |-> jpeg]
MCFirstMembers == [c \in Chats |-> IF c = family THEN {ann} ELSE {ann, bob}]
MCBothAllowed == [p \in People |-> IF p = ann THEN "all" ELSE "text"]
MCOnlyAnn == [p \in People |-> IF p = ann THEN "all" ELSE "none"]

============================================================================
