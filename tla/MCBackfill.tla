----------------------------- MODULE MCBackfill -----------------------------
(* Instances of Backfill for TLC: a photo with a certain copy on a drive    *)
(* and a probable one in another Mac's folder, which is also the certain    *)
(* copy of a clip that a NAS holds as well.                                 *)
EXTENDS Backfill

CONSTANTS photo, clip, right, wrong, fileHere, fileWalk, fileDrive, fileMac, fileNas, pusher

MCRows == 1 .. 5
MCAttachmentOf == << photo, photo, clip, clip, clip >>
MCLocationOf == << "drive", "mac", "mac", "nas", "here" >>
MCFileOf == << fileDrive, fileMac, fileMac, fileNas, fileWalk >>
MCReach == [here |-> "local", drive |-> "push", mac |-> "push", nas |-> "pull"]
MCOwnFile == [a \in Attachments |-> fileHere]
MCSizeOf == [c \in Contents |-> IF c = right THEN 1 ELSE 2]
MCFirstDisk == [f \in {fileHere, fileWalk, fileDrive, fileMac, fileNas} |->
                   IF f \in {fileHere, fileWalk} THEN None ELSE right]
MCFirstListed == 
    << [size |-> 1, sha |-> None], [size |-> 1, sha |-> None], [size |-> 1, sha |-> right],
       None, [size |-> 1, sha |-> None] >>
MCFirstPath == [a \in Attachments |-> IF a = photo THEN "inside" ELSE "none"]

=============================================================================
