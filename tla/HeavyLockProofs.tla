-------------------------- MODULE HeavyLockProofs --------------------------
(***************************************************************************)
(* Proofs about HeavyLock, for every set of commands, of yielding commands,*)
(* of readers and of commands that may be killed.                          *)
(*                                                                         *)
(* The flocks follow from the program points (LockInv, RoomInv): a command *)
(* holds the lock exactly from the grant to the release, and the room      *)
(* exactly while it waits.  Memory, file content and the history of passed *)
(* units are then tied to program points in the same way.                  *)
(***************************************************************************)
EXTENDS HeavyLock, TLAPS

LockInv == \A c \in Commands : lock = c <=> pc[c] \in OwnerPoints \cup {"checking"}

RoomInv == \A c \in Commands : room = c <=> pc[c] \in {"waiting", "served"}

\* Only a command that does not yield queues for the room.
QueueInv == \A c \in Commands : pc[c] \in {"queueing", "waiting", "served"} => c \in Plain

\* A hand-over in progress has unloaded before it releases.
LoadedInv ==
    \A c \in Commands :
        /\ loaded[c] => pc[c] \in {"between", "claiming", "unit", "unloading",
                                  "blanking", "unlocking", "leaving"}
        /\ loaded[c] /\ pc[c] = "unlocking" => ~back[c]

\* The file names a command only between its writing and its blanking.
InfoInv ==
    \A c \in Commands \ MayCrash :
        info = c => pc[c] \in {"between", "claiming", "unit", "unloading",
                              "handing", "blanking"}

\* Once a unit has begun past the command in the room, no yielding command is
\* past its last look.
PassedInv ==
    passed # 0 =>
        /\ room # NoOne
        /\ passed = 1
        /\ \A c \in Yielding : pc[c] # "claiming" /\ ~(pc[c] = "taken" /\ back[c])

IInv ==
    TypeOK /\ LockInv /\ RoomInv /\ QueueInv /\ LoadedInv /\ InfoInv /\ PassedInv

----------------------------------------------------------------------------
(* Each part of the invariant is kept by every action.                     *)

\* Every action keeps the types; a command in the queue never yields.
LEMMA TypeStep ==
    ASSUME TypeOK, QueueInv, [Next]_vars
    PROVE  TypeOK'
  <1> USE CommandsAssumption DEF TypeOK, Points, QueueInv, Plain, PassedCap
  <1>1. CASE UNCHANGED vars BY <1>1 DEF vars, files, told
  <1>2. ASSUME NEW c \in Commands, Start(c) PROVE TypeOK'
    BY <1>2 DEF Start, Goto, files, told
  <1>3. ASSUME NEW c \in Commands, TakeAtOnce(c) PROVE TypeOK'
    BY <1>3 DEF TakeAtOnce, Goto, Free, told
  <1>4. ASSUME NEW c \in Commands, FindBusy(c) PROVE TypeOK'
    BY <1>4 DEF FindBusy, Goto, Free, files, told
  <1>5. ASSUME NEW c \in Commands, EnterRoom(c) PROVE TypeOK'
    BY <1>5 DEF EnterRoom, Goto, RoomEmpty, told
  <1>6. ASSUME NEW c \in Commands, TakeInTurn(c) PROVE TypeOK'
    BY <1>6 DEF TakeInTurn, Goto, Free, told
  <1>7. ASSUME NEW c \in Commands, LeaveRoom(c) PROVE TypeOK'
    BY <1>7 DEF LeaveRoom, Goto, told
  <1>8. ASSUME NEW c \in Commands, Interrupt(c) PROVE TypeOK'
    BY <1>8 DEF Interrupt, Goto, told
  <1>9. ASSUME NEW c \in Commands, LookAndTry(c) PROVE TypeOK'
    BY <1>9 DEF LookAndTry, Goto, RoomEmpty, files, told
  <1>10. ASSUME NEW c \in Commands, SeeWaiter(c) PROVE TypeOK'
    BY <1>10 DEF SeeWaiter, Goto, RoomEmpty, GivesUp, files, told
  <1>11. ASSUME NEW c \in Commands, TryToTake(c) PROVE TypeOK'
    BY <1>11 DEF TryToTake, Goto, Free, Retry, GivesUp, told
  <1>12. ASSUME NEW c \in Commands, Keep(c) PROVE TypeOK'
    BY <1>12 DEF Keep, Goto, RoomEmpty, files, told
  <1>13. ASSUME NEW c \in Commands, GiveBack(c) PROVE TypeOK'
    BY <1>13 DEF GiveBack, Goto, RoomEmpty, Retry, GivesUp, told
  <1>14. ASSUME NEW c \in Commands, WriteHolder(c) PROVE TypeOK'
    BY <1>14 DEF WriteHolder, Goto, files, told
  <1>15. ASSUME NEW c \in Commands, LookForWaiter(c) PROVE TypeOK'
    BY <1>15 DEF LookForWaiter, Goto, RoomEmpty, files, told
  <1>16. ASSUME NEW c \in Commands, BeginUnit(c) PROVE TypeOK'
    BY <1>16 DEF BeginUnit, Goto, RoomEmpty, files, told
  <1>17. ASSUME NEW c \in Commands, EndUnit(c) PROVE TypeOK'
    BY <1>17 DEF EndUnit, Goto, files, told
  <1>18. ASSUME NEW c \in Commands, StepAside(c) PROVE TypeOK'
    BY <1>18 DEF StepAside, Goto, RoomEmpty, files, told
  <1>19. ASSUME NEW c \in Commands, UnloadModels(c) PROVE TypeOK'
    BY <1>19 DEF UnloadModels, Goto, files, told
  <1>20. ASSUME NEW c \in Commands, Finish(c) PROVE TypeOK'
    BY <1>20 DEF Finish, Goto, files, told
  <1>21. ASSUME NEW c \in Commands, BlankHolder(c) PROVE TypeOK'
    BY <1>21 DEF BlankHolder, Goto, files, told
  <1>22. ASSUME NEW c \in Commands, Unlock(c) PROVE TypeOK'
    BY <1>22 DEF Unlock, Goto, told
  <1>23. ASSUME NEW c \in Commands, Exit(c) PROVE TypeOK'
    BY <1>23 DEF Exit, Goto, files, told
  <1>24. ASSUME NEW c \in Commands, Crash(c) PROVE TypeOK'
    BY <1>24 DEF Crash, Goto, told
  <1>25. ASSUME NEW r \in Readers, ProbeFree(r) PROVE TypeOK'
    BY <1>25 DEF ProbeFree
  <1>26. ASSUME NEW r \in Readers, EndProbe(r) PROVE TypeOK'
    BY <1>26 DEF EndProbe, told
  <1>27. ASSUME NEW r \in Readers, ProbeHeld(r) PROVE TypeOK'
    BY <1>27 DEF ProbeHeld, files, told
  <1>28. ASSUME NEW r \in Readers, ReadHolder(r) PROVE TypeOK'
    BY <1>28 DEF ReadHolder, files, told
  <1> QED BY <1>1, <1>2, <1>3, <1>4, <1>5, <1>6, <1>7, <1>8, <1>9, <1>10, <1>11,
  <1>12, <1>13, <1>14, <1>15, <1>16, <1>17, <1>18, <1>19, <1>20, <1>21,
  <1>22, <1>23, <1>24, <1>25, <1>26, <1>27, <1>28 DEF Next, Take, Hold,
  Probe

\* The exclusive flock is granted only when free, and dropped by its holder.
LEMMA LockStep ==
    ASSUME TypeOK, LockInv, [Next]_vars
    PROVE  LockInv'
  <1> USE CommandsAssumption DEF TypeOK, LockInv, OwnerPoints
  <1>1. CASE UNCHANGED vars BY <1>1 DEF vars, files, told
  <1>2. ASSUME NEW c \in Commands, Start(c) PROVE LockInv'
    BY <1>2 DEF Start, Goto, files, told
  <1>3. ASSUME NEW c \in Commands, TakeAtOnce(c) PROVE LockInv'
    BY <1>3 DEF TakeAtOnce, Goto, Free, Plain, told
  <1>4. ASSUME NEW c \in Commands, FindBusy(c) PROVE LockInv'
    BY <1>4 DEF FindBusy, Goto, Free, Plain, files, told
  <1>5. ASSUME NEW c \in Commands, EnterRoom(c) PROVE LockInv'
    BY <1>5 DEF EnterRoom, Goto, RoomEmpty, told
  <1>6. ASSUME NEW c \in Commands, TakeInTurn(c) PROVE LockInv'
    BY <1>6 DEF TakeInTurn, Goto, Free, told
  <1>7. ASSUME NEW c \in Commands, LeaveRoom(c) PROVE LockInv'
    BY <1>7 DEF LeaveRoom, Goto, told
  <1>8. ASSUME NEW c \in Commands, Interrupt(c) PROVE LockInv'
    BY <1>8 DEF Interrupt, Goto, told
  <1>9. ASSUME NEW c \in Commands, LookAndTry(c) PROVE LockInv'
    BY <1>9 DEF LookAndTry, Goto, RoomEmpty, files, told
  <1>10. ASSUME NEW c \in Commands, SeeWaiter(c) PROVE LockInv'
    BY <1>10 DEF SeeWaiter, Goto, RoomEmpty, GivesUp, files, told
  <1>11. ASSUME NEW c \in Commands, TryToTake(c) PROVE LockInv'
    BY <1>11 DEF TryToTake, Goto, Free, Retry, GivesUp, told
  <1>12. ASSUME NEW c \in Commands, Keep(c) PROVE LockInv'
    BY <1>12 DEF Keep, Goto, RoomEmpty, files, told
  <1>13. ASSUME NEW c \in Commands, GiveBack(c) PROVE LockInv'
    BY <1>13 DEF GiveBack, Goto, RoomEmpty, Retry, GivesUp, told
  <1>14. ASSUME NEW c \in Commands, WriteHolder(c) PROVE LockInv'
    BY <1>14 DEF WriteHolder, Goto, Plain, files, told
  <1>15. ASSUME NEW c \in Commands, LookForWaiter(c) PROVE LockInv'
    BY <1>15 DEF LookForWaiter, Goto, RoomEmpty, files, told
  <1>16. ASSUME NEW c \in Commands, BeginUnit(c) PROVE LockInv'
    BY <1>16 DEF BeginUnit, Goto, RoomEmpty, files, told, PassedCap
  <1>17. ASSUME NEW c \in Commands, EndUnit(c) PROVE LockInv'
    BY <1>17 DEF EndUnit, Goto, files, told
  <1>18. ASSUME NEW c \in Commands, StepAside(c) PROVE LockInv'
    BY <1>18 DEF StepAside, Goto, RoomEmpty, files, told
  <1>19. ASSUME NEW c \in Commands, UnloadModels(c) PROVE LockInv'
    BY <1>19 DEF UnloadModels, Goto, files, told
  <1>20. ASSUME NEW c \in Commands, Finish(c) PROVE LockInv'
    BY <1>20 DEF Finish, Goto, files, told
  <1>21. ASSUME NEW c \in Commands, BlankHolder(c) PROVE LockInv'
    BY <1>21 DEF BlankHolder, Goto, files, told
  <1>22. ASSUME NEW c \in Commands, Unlock(c) PROVE LockInv'
    BY <1>22 DEF Unlock, Goto, told
  <1>23. ASSUME NEW c \in Commands, Exit(c) PROVE LockInv'
    BY <1>23 DEF Exit, Goto, files, told
  <1>24. ASSUME NEW c \in Commands, Crash(c) PROVE LockInv'
    BY <1>24 DEF Crash, Goto, told
  <1>25. ASSUME NEW r \in Readers, ProbeFree(r) PROVE LockInv'
    BY <1>25 DEF ProbeFree
  <1>26. ASSUME NEW r \in Readers, EndProbe(r) PROVE LockInv'
    BY <1>26 DEF EndProbe, told
  <1>27. ASSUME NEW r \in Readers, ProbeHeld(r) PROVE LockInv'
    BY <1>27 DEF ProbeHeld, files, told
  <1>28. ASSUME NEW r \in Readers, ReadHolder(r) PROVE LockInv'
    BY <1>28 DEF ReadHolder, files, told
  <1> QED BY <1>1, <1>2, <1>3, <1>4, <1>5, <1>6, <1>7, <1>8, <1>9, <1>10, <1>11,
  <1>12, <1>13, <1>14, <1>15, <1>16, <1>17, <1>18, <1>19, <1>20, <1>21,
  <1>22, <1>23, <1>24, <1>25, <1>26, <1>27, <1>28 DEF Next, Take, Hold,
  Probe

\* So is the waiting file.
LEMMA RoomStep ==
    ASSUME TypeOK, RoomInv, [Next]_vars
    PROVE  RoomInv'
  <1> USE CommandsAssumption DEF TypeOK, RoomInv
  <1>1. CASE UNCHANGED vars BY <1>1 DEF vars, files, told
  <1>2. ASSUME NEW c \in Commands, Start(c) PROVE RoomInv'
    BY <1>2 DEF Start, Goto, files, told
  <1>3. ASSUME NEW c \in Commands, TakeAtOnce(c) PROVE RoomInv'
    BY <1>3 DEF TakeAtOnce, Goto, Free, Plain, told
  <1>4. ASSUME NEW c \in Commands, FindBusy(c) PROVE RoomInv'
    BY <1>4 DEF FindBusy, Goto, Free, Plain, files, told
  <1>5. ASSUME NEW c \in Commands, EnterRoom(c) PROVE RoomInv'
    BY <1>5 DEF EnterRoom, Goto, RoomEmpty, told
  <1>6. ASSUME NEW c \in Commands, TakeInTurn(c) PROVE RoomInv'
    BY <1>6 DEF TakeInTurn, Goto, Free, told
  <1>7. ASSUME NEW c \in Commands, LeaveRoom(c) PROVE RoomInv'
    BY <1>7 DEF LeaveRoom, Goto, told
  <1>8. ASSUME NEW c \in Commands, Interrupt(c) PROVE RoomInv'
    BY <1>8 DEF Interrupt, Goto, told
  <1>9. ASSUME NEW c \in Commands, LookAndTry(c) PROVE RoomInv'
    BY <1>9 DEF LookAndTry, Goto, RoomEmpty, files, told
  <1>10. ASSUME NEW c \in Commands, SeeWaiter(c) PROVE RoomInv'
    BY <1>10 DEF SeeWaiter, Goto, RoomEmpty, GivesUp, files, told
  <1>11. ASSUME NEW c \in Commands, TryToTake(c) PROVE RoomInv'
    BY <1>11 DEF TryToTake, Goto, Free, Retry, GivesUp, told
  <1>12. ASSUME NEW c \in Commands, Keep(c) PROVE RoomInv'
    BY <1>12 DEF Keep, Goto, RoomEmpty, files, told
  <1>13. ASSUME NEW c \in Commands, GiveBack(c) PROVE RoomInv'
    BY <1>13 DEF GiveBack, Goto, RoomEmpty, Retry, GivesUp, told
  <1>14. ASSUME NEW c \in Commands, WriteHolder(c) PROVE RoomInv'
    BY <1>14 DEF WriteHolder, Goto, Plain, files, told
  <1>15. ASSUME NEW c \in Commands, LookForWaiter(c) PROVE RoomInv'
    BY <1>15 DEF LookForWaiter, Goto, RoomEmpty, files, told
  <1>16. ASSUME NEW c \in Commands, BeginUnit(c) PROVE RoomInv'
    BY <1>16 DEF BeginUnit, Goto, RoomEmpty, files, told, PassedCap
  <1>17. ASSUME NEW c \in Commands, EndUnit(c) PROVE RoomInv'
    BY <1>17 DEF EndUnit, Goto, files, told
  <1>18. ASSUME NEW c \in Commands, StepAside(c) PROVE RoomInv'
    BY <1>18 DEF StepAside, Goto, RoomEmpty, files, told
  <1>19. ASSUME NEW c \in Commands, UnloadModels(c) PROVE RoomInv'
    BY <1>19 DEF UnloadModels, Goto, files, told
  <1>20. ASSUME NEW c \in Commands, Finish(c) PROVE RoomInv'
    BY <1>20 DEF Finish, Goto, files, told
  <1>21. ASSUME NEW c \in Commands, BlankHolder(c) PROVE RoomInv'
    BY <1>21 DEF BlankHolder, Goto, files, told
  <1>22. ASSUME NEW c \in Commands, Unlock(c) PROVE RoomInv'
    BY <1>22 DEF Unlock, Goto, told
  <1>23. ASSUME NEW c \in Commands, Exit(c) PROVE RoomInv'
    BY <1>23 DEF Exit, Goto, files, told
  <1>24. ASSUME NEW c \in Commands, Crash(c) PROVE RoomInv'
    BY <1>24 DEF Crash, Goto, told
  <1>25. ASSUME NEW r \in Readers, ProbeFree(r) PROVE RoomInv'
    BY <1>25 DEF ProbeFree
  <1>26. ASSUME NEW r \in Readers, EndProbe(r) PROVE RoomInv'
    BY <1>26 DEF EndProbe, told
  <1>27. ASSUME NEW r \in Readers, ProbeHeld(r) PROVE RoomInv'
    BY <1>27 DEF ProbeHeld, files, told
  <1>28. ASSUME NEW r \in Readers, ReadHolder(r) PROVE RoomInv'
    BY <1>28 DEF ReadHolder, files, told
  <1> QED BY <1>1, <1>2, <1>3, <1>4, <1>5, <1>6, <1>7, <1>8, <1>9, <1>10, <1>11,
  <1>12, <1>13, <1>14, <1>15, <1>16, <1>17, <1>18, <1>19, <1>20, <1>21,
  <1>22, <1>23, <1>24, <1>25, <1>26, <1>27, <1>28 DEF Next, Take, Hold,
  Probe

\* A yielding command polls and never queues.
LEMMA QueueStep ==
    ASSUME TypeOK, QueueInv, [Next]_vars
    PROVE  QueueInv'
  <1> USE CommandsAssumption DEF TypeOK, QueueInv, Plain
  <1>1. CASE UNCHANGED vars BY <1>1 DEF vars, files, told
  <1>2. ASSUME NEW c \in Commands, Start(c) PROVE QueueInv'
    BY <1>2 DEF Start, Goto, files, told
  <1>3. ASSUME NEW c \in Commands, TakeAtOnce(c) PROVE QueueInv'
    BY <1>3 DEF TakeAtOnce, Goto, Free, told
  <1>4. ASSUME NEW c \in Commands, FindBusy(c) PROVE QueueInv'
    BY <1>4 DEF FindBusy, Goto, Free, files, told
  <1>5. ASSUME NEW c \in Commands, EnterRoom(c) PROVE QueueInv'
    BY <1>5 DEF EnterRoom, Goto, RoomEmpty, told
  <1>6. ASSUME NEW c \in Commands, TakeInTurn(c) PROVE QueueInv'
    BY <1>6 DEF TakeInTurn, Goto, Free, told
  <1>7. ASSUME NEW c \in Commands, LeaveRoom(c) PROVE QueueInv'
    BY <1>7 DEF LeaveRoom, Goto, told
  <1>8. ASSUME NEW c \in Commands, Interrupt(c) PROVE QueueInv'
    BY <1>8 DEF Interrupt, Goto, told
  <1>9. ASSUME NEW c \in Commands, LookAndTry(c) PROVE QueueInv'
    BY <1>9 DEF LookAndTry, Goto, RoomEmpty, files, told
  <1>10. ASSUME NEW c \in Commands, SeeWaiter(c) PROVE QueueInv'
    BY <1>10 DEF SeeWaiter, Goto, RoomEmpty, GivesUp, files, told
  <1>11. ASSUME NEW c \in Commands, TryToTake(c) PROVE QueueInv'
    BY <1>11 DEF TryToTake, Goto, Free, Retry, GivesUp, told
  <1>12. ASSUME NEW c \in Commands, Keep(c) PROVE QueueInv'
    BY <1>12 DEF Keep, Goto, RoomEmpty, files, told
  <1>13. ASSUME NEW c \in Commands, GiveBack(c) PROVE QueueInv'
    BY <1>13 DEF GiveBack, Goto, RoomEmpty, Retry, GivesUp, told
  <1>14. ASSUME NEW c \in Commands, WriteHolder(c) PROVE QueueInv'
    BY <1>14 DEF WriteHolder, Goto, files, told
  <1>15. ASSUME NEW c \in Commands, LookForWaiter(c) PROVE QueueInv'
    BY <1>15 DEF LookForWaiter, Goto, RoomEmpty, files, told
  <1>16. ASSUME NEW c \in Commands, BeginUnit(c) PROVE QueueInv'
    BY <1>16 DEF BeginUnit, Goto, RoomEmpty, files, told, PassedCap
  <1>17. ASSUME NEW c \in Commands, EndUnit(c) PROVE QueueInv'
    BY <1>17 DEF EndUnit, Goto, files, told
  <1>18. ASSUME NEW c \in Commands, StepAside(c) PROVE QueueInv'
    BY <1>18 DEF StepAside, Goto, RoomEmpty, files, told
  <1>19. ASSUME NEW c \in Commands, UnloadModels(c) PROVE QueueInv'
    BY <1>19 DEF UnloadModels, Goto, files, told
  <1>20. ASSUME NEW c \in Commands, Finish(c) PROVE QueueInv'
    BY <1>20 DEF Finish, Goto, files, told
  <1>21. ASSUME NEW c \in Commands, BlankHolder(c) PROVE QueueInv'
    BY <1>21 DEF BlankHolder, Goto, files, told
  <1>22. ASSUME NEW c \in Commands, Unlock(c) PROVE QueueInv'
    BY <1>22 DEF Unlock, Goto, told
  <1>23. ASSUME NEW c \in Commands, Exit(c) PROVE QueueInv'
    BY <1>23 DEF Exit, Goto, files, told
  <1>24. ASSUME NEW c \in Commands, Crash(c) PROVE QueueInv'
    BY <1>24 DEF Crash, Goto, told
  <1>25. ASSUME NEW r \in Readers, ProbeFree(r) PROVE QueueInv'
    BY <1>25 DEF ProbeFree
  <1>26. ASSUME NEW r \in Readers, EndProbe(r) PROVE QueueInv'
    BY <1>26 DEF EndProbe, told
  <1>27. ASSUME NEW r \in Readers, ProbeHeld(r) PROVE QueueInv'
    BY <1>27 DEF ProbeHeld, files, told
  <1>28. ASSUME NEW r \in Readers, ReadHolder(r) PROVE QueueInv'
    BY <1>28 DEF ReadHolder, files, told
  <1> QED BY <1>1, <1>2, <1>3, <1>4, <1>5, <1>6, <1>7, <1>8, <1>9, <1>10, <1>11,
  <1>12, <1>13, <1>14, <1>15, <1>16, <1>17, <1>18, <1>19, <1>20, <1>21,
  <1>22, <1>23, <1>24, <1>25, <1>26, <1>27, <1>28 DEF Next, Take, Hold,
  Probe

\* Models are in memory from the first unit to the unloading or the exit.
LEMMA LoadedStep ==
    ASSUME TypeOK, LoadedInv, [Next]_vars
    PROVE  LoadedInv'
  <1> USE CommandsAssumption DEF TypeOK, LoadedInv
  <1>1. CASE UNCHANGED vars BY <1>1 DEF vars, files, told
  <1>2. ASSUME NEW c \in Commands, Start(c) PROVE LoadedInv'
    BY <1>2 DEF Start, Goto, files, told
  <1>3. ASSUME NEW c \in Commands, TakeAtOnce(c) PROVE LoadedInv'
    BY <1>3 DEF TakeAtOnce, Goto, Free, Plain, told
  <1>4. ASSUME NEW c \in Commands, FindBusy(c) PROVE LoadedInv'
    BY <1>4 DEF FindBusy, Goto, Free, Plain, files, told
  <1>5. ASSUME NEW c \in Commands, EnterRoom(c) PROVE LoadedInv'
    BY <1>5 DEF EnterRoom, Goto, RoomEmpty, told
  <1>6. ASSUME NEW c \in Commands, TakeInTurn(c) PROVE LoadedInv'
    BY <1>6 DEF TakeInTurn, Goto, Free, told
  <1>7. ASSUME NEW c \in Commands, LeaveRoom(c) PROVE LoadedInv'
    BY <1>7 DEF LeaveRoom, Goto, told
  <1>8. ASSUME NEW c \in Commands, Interrupt(c) PROVE LoadedInv'
    BY <1>8 DEF Interrupt, Goto, told
  <1>9. ASSUME NEW c \in Commands, LookAndTry(c) PROVE LoadedInv'
    BY <1>9 DEF LookAndTry, Goto, RoomEmpty, files, told
  <1>10. ASSUME NEW c \in Commands, SeeWaiter(c) PROVE LoadedInv'
    BY <1>10 DEF SeeWaiter, Goto, RoomEmpty, GivesUp, files, told
  <1>11. ASSUME NEW c \in Commands, TryToTake(c) PROVE LoadedInv'
    BY <1>11 DEF TryToTake, Goto, Free, Retry, GivesUp, told
  <1>12. ASSUME NEW c \in Commands, Keep(c) PROVE LoadedInv'
    BY <1>12 DEF Keep, Goto, RoomEmpty, files, told
  <1>13. ASSUME NEW c \in Commands, GiveBack(c) PROVE LoadedInv'
    BY <1>13 DEF GiveBack, Goto, RoomEmpty, Retry, GivesUp, told
  <1>14. ASSUME NEW c \in Commands, WriteHolder(c) PROVE LoadedInv'
    BY <1>14 DEF WriteHolder, Goto, Plain, files, told
  <1>15. ASSUME NEW c \in Commands, LookForWaiter(c) PROVE LoadedInv'
    BY <1>15 DEF LookForWaiter, Goto, RoomEmpty, files, told
  <1>16. ASSUME NEW c \in Commands, BeginUnit(c) PROVE LoadedInv'
    BY <1>16 DEF BeginUnit, Goto, RoomEmpty, files, told, PassedCap
  <1>17. ASSUME NEW c \in Commands, EndUnit(c) PROVE LoadedInv'
    BY <1>17 DEF EndUnit, Goto, files, told
  <1>18. ASSUME NEW c \in Commands, StepAside(c) PROVE LoadedInv'
    BY <1>18 DEF StepAside, Goto, RoomEmpty, files, told
  <1>19. ASSUME NEW c \in Commands, UnloadModels(c) PROVE LoadedInv'
    BY <1>19 DEF UnloadModels, Goto, files, told
  <1>20. ASSUME NEW c \in Commands, Finish(c) PROVE LoadedInv'
    BY <1>20 DEF Finish, Goto, files, told
  <1>21. ASSUME NEW c \in Commands, BlankHolder(c) PROVE LoadedInv'
    BY <1>21 DEF BlankHolder, Goto, files, told
  <1>22. ASSUME NEW c \in Commands, Unlock(c) PROVE LoadedInv'
    BY <1>22 DEF Unlock, Goto, told
  <1>23. ASSUME NEW c \in Commands, Exit(c) PROVE LoadedInv'
    BY <1>23 DEF Exit, Goto, files, told
  <1>24. ASSUME NEW c \in Commands, Crash(c) PROVE LoadedInv'
    BY <1>24 DEF Crash, Goto, told
  <1>25. ASSUME NEW r \in Readers, ProbeFree(r) PROVE LoadedInv'
    BY <1>25 DEF ProbeFree
  <1>26. ASSUME NEW r \in Readers, EndProbe(r) PROVE LoadedInv'
    BY <1>26 DEF EndProbe, told
  <1>27. ASSUME NEW r \in Readers, ProbeHeld(r) PROVE LoadedInv'
    BY <1>27 DEF ProbeHeld, files, told
  <1>28. ASSUME NEW r \in Readers, ReadHolder(r) PROVE LoadedInv'
    BY <1>28 DEF ReadHolder, files, told
  <1> QED BY <1>1, <1>2, <1>3, <1>4, <1>5, <1>6, <1>7, <1>8, <1>9, <1>10, <1>11,
  <1>12, <1>13, <1>14, <1>15, <1>16, <1>17, <1>18, <1>19, <1>20, <1>21,
  <1>22, <1>23, <1>24, <1>25, <1>26, <1>27, <1>28 DEF Next, Take, Hold,
  Probe

\* The holder writes its details after the grant and blanks them before the release.
LEMMA InfoStep ==
    ASSUME TypeOK, LockInv, InfoInv, [Next]_vars
    PROVE  InfoInv'
  <1> USE CommandsAssumption DEF TypeOK, LockInv, InfoInv, OwnerPoints
  <1>1. CASE UNCHANGED vars BY <1>1 DEF vars, files, told
  <1>2. ASSUME NEW c \in Commands, Start(c) PROVE InfoInv'
    BY <1>2 DEF Start, Goto, files, told
  <1>3. ASSUME NEW c \in Commands, TakeAtOnce(c) PROVE InfoInv'
    BY <1>3 DEF TakeAtOnce, Goto, Free, Plain, told
  <1>4. ASSUME NEW c \in Commands, FindBusy(c) PROVE InfoInv'
    BY <1>4 DEF FindBusy, Goto, Free, Plain, files, told
  <1>5. ASSUME NEW c \in Commands, EnterRoom(c) PROVE InfoInv'
    BY <1>5 DEF EnterRoom, Goto, RoomEmpty, told
  <1>6. ASSUME NEW c \in Commands, TakeInTurn(c) PROVE InfoInv'
    BY <1>6 DEF TakeInTurn, Goto, Free, told
  <1>7. ASSUME NEW c \in Commands, LeaveRoom(c) PROVE InfoInv'
    BY <1>7 DEF LeaveRoom, Goto, told
  <1>8. ASSUME NEW c \in Commands, Interrupt(c) PROVE InfoInv'
    BY <1>8 DEF Interrupt, Goto, told
  <1>9. ASSUME NEW c \in Commands, LookAndTry(c) PROVE InfoInv'
    BY <1>9 DEF LookAndTry, Goto, RoomEmpty, files, told
  <1>10. ASSUME NEW c \in Commands, SeeWaiter(c) PROVE InfoInv'
    BY <1>10 DEF SeeWaiter, Goto, RoomEmpty, GivesUp, files, told
  <1>11. ASSUME NEW c \in Commands, TryToTake(c) PROVE InfoInv'
    BY <1>11 DEF TryToTake, Goto, Free, Retry, GivesUp, told
  <1>12. ASSUME NEW c \in Commands, Keep(c) PROVE InfoInv'
    BY <1>12 DEF Keep, Goto, RoomEmpty, files, told
  <1>13. ASSUME NEW c \in Commands, GiveBack(c) PROVE InfoInv'
    BY <1>13 DEF GiveBack, Goto, RoomEmpty, Retry, GivesUp, told
  <1>14. ASSUME NEW c \in Commands, WriteHolder(c) PROVE InfoInv'
    BY <1>14 DEF WriteHolder, Goto, Plain, files, told
  <1>15. ASSUME NEW c \in Commands, LookForWaiter(c) PROVE InfoInv'
    BY <1>15 DEF LookForWaiter, Goto, RoomEmpty, files, told
  <1>16. ASSUME NEW c \in Commands, BeginUnit(c) PROVE InfoInv'
    BY <1>16 DEF BeginUnit, Goto, RoomEmpty, files, told, PassedCap
  <1>17. ASSUME NEW c \in Commands, EndUnit(c) PROVE InfoInv'
    BY <1>17 DEF EndUnit, Goto, files, told
  <1>18. ASSUME NEW c \in Commands, StepAside(c) PROVE InfoInv'
    BY <1>18 DEF StepAside, Goto, RoomEmpty, files, told
  <1>19. ASSUME NEW c \in Commands, UnloadModels(c) PROVE InfoInv'
    BY <1>19 DEF UnloadModels, Goto, files, told
  <1>20. ASSUME NEW c \in Commands, Finish(c) PROVE InfoInv'
    BY <1>20 DEF Finish, Goto, files, told
  <1>21. ASSUME NEW c \in Commands, BlankHolder(c) PROVE InfoInv'
    BY <1>21 DEF BlankHolder, Goto, files, told
  <1>22. ASSUME NEW c \in Commands, Unlock(c) PROVE InfoInv'
    BY <1>22 DEF Unlock, Goto, told
  <1>23. ASSUME NEW c \in Commands, Exit(c) PROVE InfoInv'
    BY <1>23 DEF Exit, Goto, files, told
  <1>24. ASSUME NEW c \in Commands, Crash(c) PROVE InfoInv'
    BY <1>24 DEF Crash, Goto, told
  <1>25. ASSUME NEW r \in Readers, ProbeFree(r) PROVE InfoInv'
    BY <1>25 DEF ProbeFree
  <1>26. ASSUME NEW r \in Readers, EndProbe(r) PROVE InfoInv'
    BY <1>26 DEF EndProbe, told
  <1>27. ASSUME NEW r \in Readers, ProbeHeld(r) PROVE InfoInv'
    BY <1>27 DEF ProbeHeld, files, told
  <1>28. ASSUME NEW r \in Readers, ReadHolder(r) PROVE InfoInv'
    BY <1>28 DEF ReadHolder, files, told
  <1> QED BY <1>1, <1>2, <1>3, <1>4, <1>5, <1>6, <1>7, <1>8, <1>9, <1>10, <1>11,
  <1>12, <1>13, <1>14, <1>15, <1>16, <1>17, <1>18, <1>19, <1>20, <1>21,
  <1>22, <1>23, <1>24, <1>25, <1>26, <1>27, <1>28 DEF Next, Take, Hold,
  Probe

\* The second look into the room comes before anything that starts a unit.
LEMMA PassedStep ==
    ASSUME TypeOK, LockInv, RoomInv, PassedInv, [Next]_vars
    PROVE  PassedInv'
  <1> USE CommandsAssumption DEF TypeOK, LockInv, RoomInv, PassedInv, OwnerPoints, PassedCap
  <1>1. CASE UNCHANGED vars BY <1>1 DEF vars, files, told
  <1>2. ASSUME NEW c \in Commands, Start(c) PROVE PassedInv'
    BY <1>2 DEF Start, Goto, files, told
  <1>3. ASSUME NEW c \in Commands, TakeAtOnce(c) PROVE PassedInv'
    BY <1>3 DEF TakeAtOnce, Goto, Free, Plain, told
  <1>4. ASSUME NEW c \in Commands, FindBusy(c) PROVE PassedInv'
    BY <1>4 DEF FindBusy, Goto, Free, Plain, files, told
  <1>5. ASSUME NEW c \in Commands, EnterRoom(c) PROVE PassedInv'
    BY <1>5 DEF EnterRoom, Goto, RoomEmpty, told
  <1>6. ASSUME NEW c \in Commands, TakeInTurn(c) PROVE PassedInv'
    BY <1>6 DEF TakeInTurn, Goto, Free, told
  <1>7. ASSUME NEW c \in Commands, LeaveRoom(c) PROVE PassedInv'
    BY <1>7 DEF LeaveRoom, Goto, told
  <1>8. ASSUME NEW c \in Commands, Interrupt(c) PROVE PassedInv'
    BY <1>8 DEF Interrupt, Goto, told
  <1>9. ASSUME NEW c \in Commands, LookAndTry(c) PROVE PassedInv'
    BY <1>9 DEF LookAndTry, Goto, RoomEmpty, files, told
  <1>10. ASSUME NEW c \in Commands, SeeWaiter(c) PROVE PassedInv'
    BY <1>10 DEF SeeWaiter, Goto, RoomEmpty, GivesUp, files, told
  <1>11. ASSUME NEW c \in Commands, TryToTake(c) PROVE PassedInv'
    BY <1>11 DEF TryToTake, Goto, Free, Retry, GivesUp, told
  <1>12. ASSUME NEW c \in Commands, Keep(c) PROVE PassedInv'
    BY <1>12 DEF Keep, Goto, RoomEmpty, files, told
  <1>13. ASSUME NEW c \in Commands, GiveBack(c) PROVE PassedInv'
    BY <1>13 DEF GiveBack, Goto, RoomEmpty, Retry, GivesUp, told
  <1>14. ASSUME NEW c \in Commands, WriteHolder(c) PROVE PassedInv'
    BY <1>14 DEF WriteHolder, Goto, Plain, files, told
  <1>15. ASSUME NEW c \in Commands, LookForWaiter(c) PROVE PassedInv'
    BY <1>15 DEF LookForWaiter, Goto, RoomEmpty, files, told
  <1>16. ASSUME NEW c \in Commands, BeginUnit(c) PROVE PassedInv'
    BY <1>16 DEF BeginUnit, Goto, RoomEmpty, files, told
  <1>17. ASSUME NEW c \in Commands, EndUnit(c) PROVE PassedInv'
    BY <1>17 DEF EndUnit, Goto, files, told
  <1>18. ASSUME NEW c \in Commands, StepAside(c) PROVE PassedInv'
    BY <1>18 DEF StepAside, Goto, RoomEmpty, files, told
  <1>19. ASSUME NEW c \in Commands, UnloadModels(c) PROVE PassedInv'
    BY <1>19 DEF UnloadModels, Goto, files, told
  <1>20. ASSUME NEW c \in Commands, Finish(c) PROVE PassedInv'
    BY <1>20 DEF Finish, Goto, files, told
  <1>21. ASSUME NEW c \in Commands, BlankHolder(c) PROVE PassedInv'
    BY <1>21 DEF BlankHolder, Goto, files, told
  <1>22. ASSUME NEW c \in Commands, Unlock(c) PROVE PassedInv'
    BY <1>22 DEF Unlock, Goto, told
  <1>23. ASSUME NEW c \in Commands, Exit(c) PROVE PassedInv'
    BY <1>23 DEF Exit, Goto, files, told
  <1>24. ASSUME NEW c \in Commands, Crash(c) PROVE PassedInv'
    BY <1>24 DEF Crash, Goto, told
  <1>25. ASSUME NEW r \in Readers, ProbeFree(r) PROVE PassedInv'
    BY <1>25 DEF ProbeFree
  <1>26. ASSUME NEW r \in Readers, EndProbe(r) PROVE PassedInv'
    BY <1>26 DEF EndProbe, told
  <1>27. ASSUME NEW r \in Readers, ProbeHeld(r) PROVE PassedInv'
    BY <1>27 DEF ProbeHeld, files, told
  <1>28. ASSUME NEW r \in Readers, ReadHolder(r) PROVE PassedInv'
    BY <1>28 DEF ReadHolder, files, told
  <1> QED BY <1>1, <1>2, <1>3, <1>4, <1>5, <1>6, <1>7, <1>8, <1>9, <1>10, <1>11,
  <1>12, <1>13, <1>14, <1>15, <1>16, <1>17, <1>18, <1>19, <1>20, <1>21,
  <1>22, <1>23, <1>24, <1>25, <1>26, <1>27, <1>28 DEF Next, Take, Hold,
  Probe

\* The first state satisfies the invariant.
LEMMA InitInv == Init => IInv
  BY CommandsAssumption
  DEF Init, IInv, TypeOK, Points, LockInv, RoomInv, QueueInv, LoadedInv, InfoInv,
      PassedInv, OwnerPoints, PassedCap

\* The inductive invariant holds in every reachable state.
THEOREM InductiveInvariant == Spec => []IInv
  <1>1. IInv /\ [Next]_vars => IInv'
    BY TypeStep, LockStep, RoomStep, QueueStep, LoadedStep, InfoStep, PassedStep DEF IInv
  <1> QED BY InitInv, <1>1, PTL DEF Spec

\* Every variable keeps its type in every reachable state, and only commands
\* that do not yield are ever in the waiting room.
THEOREM TypeCorrect == Spec => []TypeOK
  <1>1. IInv => TypeOK BY DEF IInv
  <1> QED BY InductiveInvariant, <1>1, PTL

\* Two commands have models in memory only while one of them has released the
\* lock and exits: hand-overs unload first.
THEOREM OneModelSetAtATime == Spec => []OneModelSet
  <1>1. IInv => OneModelSet
    <2> SUFFICES ASSUME IInv, NEW c \in Commands, NEW d \in Commands,
                        loaded[c], loaded[d], c # d, "leaving" \notin {pc[c], pc[d]}
                 PROVE  FALSE
      BY DEF OneModelSet
    <2>1. pc[c] \in OwnerPoints /\ pc[d] \in OwnerPoints
      BY DEF IInv, LoadedInv, OwnerPoints
    <2>2. lock = c /\ lock = d
      BY <2>1 DEF IInv, LockInv
    <2> QED BY <2>2
  <1> QED BY InductiveInvariant, <1>1, PTL

\* At most one unit of yielding work begins while a command waits.
THEOREM OvertakenAtMostOnce == Spec => []OvertakenOnce
  <1>1. IInv => OvertakenOnce
    BY DEF IInv, TypeOK, PassedInv, OvertakenOnce, PassedCap
  <1> QED BY InductiveInvariant, <1>1, PTL

\* The lock file never describes a command that has released the lock.
THEOREM ReleasedDetailsAreBlank == Spec => []ReleasedInfoIsBlank
  <1>1. IInv => ReleasedInfoIsBlank
    BY DEF IInv, TypeOK, LockInv, InfoInv, ReleasedInfoIsBlank, OwnerPoints
  <1> QED BY InductiveInvariant, <1>1, PTL

----------------------------------------------------------------------------
(* The refinement.                                                         *)

\* The owner, as the abstract lock sees it.
Owner == IF \E c \in Commands : lock = c /\ pc[c] \in OwnerPoints THEN lock ELSE NoOne

\* A command owns the lock exactly when it is at an owner's point.
LEMMA OwnerPoint ==
    ASSUME TypeOK, LockInv, NEW c \in Commands
    PROVE  /\ Owner = c <=> pc[c] \in OwnerPoints
           /\ Owner = NoOne <=> \A d \in Commands : pc[d] \notin OwnerPoints
  BY CommandsAssumption DEF Owner, TypeOK, LockInv

\* A step that moves no command to or from an owner's point keeps the owner.
LEMMA SameOwner ==
    ASSUME TypeOK, LockInv, TypeOK', LockInv',
           \A d \in Commands : pc'[d] \in OwnerPoints <=> pc[d] \in OwnerPoints
    PROVE  Owner' = Owner
  <1>1. CASE \E d \in Commands : pc[d] \in OwnerPoints
    <2>1. PICK d \in Commands : pc[d] \in OwnerPoints BY <1>1
    <2>2. Owner = d BY <2>1, OwnerPoint
    <2>3. lock' = d BY <2>1 DEF LockInv
    <2> QED BY <2>1, <2>2, <2>3 DEF Owner
  <1>2. CASE \A d \in Commands : pc[d] \notin OwnerPoints
    <2>1. Owner = NoOne BY <1>2 DEF Owner
    <2>2. Owner' = NoOne BY <1>2, CommandsAssumption DEF Owner
    <2> QED BY <2>1, <2>2
  <1> QED BY <1>1, <1>2

\* Every step of the two flocks is a step of the polite lock, or none.
LEMMA PoliteStep ==
    ASSUME IInv, IInv', [Next]_vars
    PROVE  [PL!Next]_<< Owner, room >>
  <1> USE CommandsAssumption
  <1>0. /\ TypeOK /\ LockInv /\ RoomInv /\ QueueInv
        /\ TypeOK' /\ LockInv'
    BY DEF IInv
  <1>a. ASSUME \A d \in Commands : pc'[d] \in OwnerPoints <=> pc[d] \in OwnerPoints
        PROVE  Owner' = Owner
    BY <1>0, <1>a, SameOwner
  <1>1. CASE UNCHANGED vars BY <1>1 DEF vars, files, told, Owner
  <1>2. ASSUME NEW c \in Commands, Start(c) PROVE [PL!Next]_<< Owner, room >>
    BY <1>2, <1>0, <1>a DEF Start, Goto, files, told, TypeOK, OwnerPoints
  <1>3. ASSUME NEW c \in Commands, TakeAtOnce(c) PROVE [PL!Next]_<< Owner, room >>
    <2>1. Owner = NoOne
      BY <1>3, <1>0 DEF TakeAtOnce, Free, Owner
    <2>2. Owner' = c
      BY <1>3, <1>0 DEF TakeAtOnce, Goto, Free, Owner, TypeOK, OwnerPoints
    <2>3. PL!Own(c)
      BY <1>3, <2>1, <2>2 DEF TakeAtOnce, Plain, PL!Own, Owner
    <2> QED BY <2>3 DEF PL!Next
  <1>4. ASSUME NEW c \in Commands, FindBusy(c) PROVE [PL!Next]_<< Owner, room >>
    BY <1>4, <1>0, <1>a DEF FindBusy, Goto, Free, Plain, files, told, TypeOK,
        OwnerPoints
  <1>5. ASSUME NEW c \in Commands, EnterRoom(c) PROVE [PL!Next]_<< Owner, room >>
    <2>1. Owner' = Owner
      BY <1>5, <1>0, <1>a DEF EnterRoom, Goto, TypeOK, OwnerPoints
    <2>2. PL!Announce(c)
      BY <1>5, <1>0, <2>1 DEF EnterRoom, RoomEmpty, QueueInv, Plain, PL!Announce, Owner
    <2> QED BY <2>2 DEF PL!Next
  <1>6. ASSUME NEW c \in Commands, TakeInTurn(c) PROVE [PL!Next]_<< Owner, room >>
    <2>1. Owner = NoOne
      BY <1>6, <1>0 DEF TakeInTurn, Free, Owner
    <2>2. Owner' = c
      BY <1>6, <1>0 DEF TakeInTurn, Goto, Free, Owner, TypeOK, OwnerPoints
    <2>3. PL!Own(c)
      BY <1>6, <1>0, <2>1, <2>2 DEF TakeInTurn, Plain, QueueInv, PL!Own, Owner
    <2> QED BY <2>3 DEF PL!Next
  <1>7. ASSUME NEW c \in Commands, LeaveRoom(c) PROVE [PL!Next]_<< Owner, room >>
    <2>1. room = c
      BY <1>7, <1>0 DEF LeaveRoom, RoomInv
    <2>2. Owner' = Owner
      BY <1>7, <1>0, <1>a DEF LeaveRoom, Goto, TypeOK, OwnerPoints
    <2>3. PL!StopWaiting(c)
      BY <1>7, <2>1, <2>2 DEF LeaveRoom, PL!StopWaiting, Owner
    <2> QED BY <2>3 DEF PL!Next
  <1>8. ASSUME NEW c \in Commands, Interrupt(c) PROVE [PL!Next]_<< Owner, room >>
    <2>1. Owner' = Owner
      BY <1>8, <1>0, <1>a DEF Interrupt, Goto, TypeOK, OwnerPoints
    <2>2. CASE room = c
      <3>1. PL!StopWaiting(c)
        BY <1>8, <2>1, <2>2 DEF Interrupt, PL!StopWaiting, Owner
      <3> QED BY <3>1 DEF PL!Next
    <2>3. CASE room # c
      BY <1>8, <2>1, <2>3 DEF Interrupt
    <2> QED BY <2>2, <2>3
  <1>9. ASSUME NEW c \in Commands, LookAndTry(c) PROVE [PL!Next]_<< Owner, room >>
    BY <1>9, <1>0, <1>a DEF LookAndTry, Goto, RoomEmpty, files, told, TypeOK,
        OwnerPoints
  <1>10. ASSUME NEW c \in Commands, SeeWaiter(c) PROVE [PL!Next]_<< Owner, room >>
    BY <1>10, <1>0, <1>a DEF SeeWaiter, Goto, RoomEmpty, GivesUp, files, told,
        TypeOK, OwnerPoints
  <1>11. ASSUME NEW c \in Commands, TryToTake(c) PROVE [PL!Next]_<< Owner, room >>
    BY <1>11, <1>0, <1>a DEF TryToTake, Goto, Free, Retry, GivesUp, told, files,
        TypeOK, OwnerPoints
  <1>12. ASSUME NEW c \in Commands, Keep(c) PROVE [PL!Next]_<< Owner, room >>
    <2>1. lock = c /\ lock' = c
      BY <1>12, <1>0 DEF Keep, LockInv, files
    <2>2. Owner = NoOne
      BY <1>12, <2>1 DEF Keep, Owner, OwnerPoints
    <2>3. Owner' = c
      BY <1>12, <1>0, <2>1 DEF Keep, Goto, Owner, TypeOK, OwnerPoints
    <2>4. PL!Own(c)
      BY <1>12, <2>2, <2>3 DEF Keep, RoomEmpty, files, PL!Own, Owner
    <2> QED BY <2>4 DEF PL!Next
  <1>13. ASSUME NEW c \in Commands, GiveBack(c) PROVE [PL!Next]_<< Owner, room >>
    BY <1>13, <1>0, <1>a DEF GiveBack, Goto, RoomEmpty, Retry, GivesUp, told,
        files, TypeOK, OwnerPoints
  <1>14. ASSUME NEW c \in Commands, WriteHolder(c) PROVE [PL!Next]_<< Owner, room >>
    BY <1>14, <1>0, <1>a DEF WriteHolder, Goto, Plain, files, told, TypeOK,
        OwnerPoints
  <1>15. ASSUME NEW c \in Commands, LookForWaiter(c) PROVE [PL!Next]_<< Owner, room >>
    BY <1>15, <1>0, <1>a DEF LookForWaiter, Goto, RoomEmpty, files, told, TypeOK,
        OwnerPoints
  <1>16. ASSUME NEW c \in Commands, BeginUnit(c) PROVE [PL!Next]_<< Owner, room >>
    BY <1>16, <1>0, <1>a DEF BeginUnit, Goto, RoomEmpty, files, told, PassedCap,
        TypeOK, OwnerPoints
  <1>17. ASSUME NEW c \in Commands, EndUnit(c) PROVE [PL!Next]_<< Owner, room >>
    BY <1>17, <1>0, <1>a DEF EndUnit, Goto, files, told, TypeOK, OwnerPoints
  <1>18. ASSUME NEW c \in Commands, StepAside(c) PROVE [PL!Next]_<< Owner, room >>
    BY <1>18, <1>0, <1>a DEF StepAside, Goto, RoomEmpty, files, told, TypeOK,
        OwnerPoints
  <1>19. ASSUME NEW c \in Commands, UnloadModels(c) PROVE [PL!Next]_<< Owner, room >>
    BY <1>19, <1>0, <1>a DEF UnloadModels, Goto, files, told, TypeOK, OwnerPoints
  <1>20. ASSUME NEW c \in Commands, Finish(c) PROVE [PL!Next]_<< Owner, room >>
    BY <1>20, <1>0, <1>a DEF Finish, Goto, files, told, TypeOK, OwnerPoints
  <1>21. ASSUME NEW c \in Commands, BlankHolder(c) PROVE [PL!Next]_<< Owner, room >>
    BY <1>21, <1>0, <1>a DEF BlankHolder, Goto, files, told, TypeOK, OwnerPoints
  <1>22. ASSUME NEW c \in Commands, Unlock(c) PROVE [PL!Next]_<< Owner, room >>
    <2>1. Owner = c
      BY <1>22, <1>0, OwnerPoint DEF Unlock, OwnerPoints
    <2>2. Owner' = NoOne
      BY <1>22 DEF Unlock, Owner
    <2>3. PL!Disown(c)
      BY <1>22, <2>1, <2>2 DEF Unlock, PL!Disown, Owner
    <2> QED BY <2>3 DEF PL!Next
  <1>23. ASSUME NEW c \in Commands, Exit(c) PROVE [PL!Next]_<< Owner, room >>
    BY <1>23, <1>0, <1>a DEF Exit, Goto, files, told, TypeOK, OwnerPoints
  <1>24. ASSUME NEW c \in Commands, Crash(c) PROVE [PL!Next]_<< Owner, room >>
    <2>1. Owner' = Owner \/ (Owner = c /\ Owner' = NoOne)
      <3>1. CASE pc[c] \in OwnerPoints
        BY <1>24, <1>0, <3>1, OwnerPoint DEF Crash, LockInv, Owner
      <3>2. CASE pc[c] \notin OwnerPoints
        BY <1>24, <1>0, <1>a, <3>2 DEF Crash, Goto, TypeOK, OwnerPoints
      <3> QED BY <3>1, <3>2
    <2>2. CASE room = c
      <3>1. PL!StopWaiting(c)
        BY <1>24, <2>1, <2>2 DEF Crash, PL!StopWaiting, Owner
      <3> QED BY <3>1 DEF PL!Next
    <2>3. CASE room # c
      <3>1. UNCHANGED << Owner, room >> \/ PL!Disown(c)
        BY <1>24, <2>1, <2>3 DEF Crash, PL!Disown, Owner
      <3> QED BY <3>1 DEF PL!Next
    <2> QED BY <2>2, <2>3
  <1>25. ASSUME NEW r \in Readers, ProbeFree(r) PROVE [PL!Next]_<< Owner, room >>
    BY <1>25, <1>0, <1>a DEF ProbeFree, files, TypeOK, OwnerPoints
  <1>26. ASSUME NEW r \in Readers, EndProbe(r) PROVE [PL!Next]_<< Owner, room >>
    BY <1>26, <1>0, <1>a DEF EndProbe, told, files, TypeOK, OwnerPoints
  <1>27. ASSUME NEW r \in Readers, ProbeHeld(r) PROVE [PL!Next]_<< Owner, room >>
    BY <1>27, <1>0, <1>a DEF ProbeHeld, files, told, TypeOK, OwnerPoints
  <1>28. ASSUME NEW r \in Readers, ReadHolder(r) PROVE [PL!Next]_<< Owner, room >>
    BY <1>28, <1>0, <1>a DEF ReadHolder, files, told, TypeOK, OwnerPoints
  <1> QED BY <1>1, <1>2, <1>3, <1>4, <1>5, <1>6, <1>7, <1>8, <1>9, <1>10, <1>11,
  <1>12, <1>13, <1>14, <1>15, <1>16, <1>17, <1>18, <1>19, <1>20, <1>21,
  <1>22, <1>23, <1>24, <1>25, <1>26, <1>27, <1>28 DEF Next, Take, Hold,
  Probe

\* HeavyLock implements PoliteLock: mutual exclusion, and a yielding command
\* never becomes the owner while a command is announced.
THEOREM ImplementsPoliteLock == Spec => PoliteLockSpec
  <1>1. Init => PL!Init
    BY CommandsAssumption DEF Init, PL!Init, OwnerPoints
  <1>2. IInv /\ IInv' /\ [Next]_vars => [PL!Next]_<< Owner, room >>
    BY PoliteStep
  <1> QED
    BY InductiveInvariant, <1>1, <1>2, PTL DEF Spec, PoliteLockSpec, PL!Spec, Owner

============================================================================
