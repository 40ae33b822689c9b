----------------------------- MODULE HeavyLock -----------------------------
(***************************************************************************)
(* The host-wide heavy-model lock and its waiting room (imsg.heavy_lock),  *)
(* with the enrichment worker's hand-over (imsg.enrich.worker).            *)
(*                                                                         *)
(* Both are flocks.  A command that finds the lock taken waits in the room:*)
(* it holds the waiting file exclusively, waits for the lock, and leaves   *)
(* the room.  A yielding command looks into the room before it takes the   *)
(* lock, looks again once it has it and gives it straight back if someone  *)
(* is there, and looks between units of work.  imsg status probes the lock *)
(* with a shared flock, and reads who wrote itself into the lock file.     *)
(***************************************************************************)
EXTENDS Naturals, FiniteSets

CONSTANTS
    Commands,  \* every command that loads a large model
    Yielding,  \* those that step aside for waiting commands (enrich)
    NoWait,    \* those started with --no-wait
    Readers,   \* processes that ask for the lock's status
    MayCrash,  \* the commands that may be killed
    NoOne      \* no process, and an empty lock file

Plain == Commands \ Yielding

ASSUME CommandsAssumption ==
    /\ Yielding \subseteq Commands
    /\ NoWait \subseteq Commands
    /\ MayCrash \subseteq Commands
    /\ NoOne \notin Commands

VARIABLES
    pc,       \* where each command is
    lock,     \* who holds the lock exclusively
    probing,  \* the readers holding it shared, for an instant
    room,     \* who holds the waiting file
    loaded,   \* whether each command's models are in memory
    back,     \* whether a yielding command is taking the lock back
    info,     \* who the lock file names
    report,   \* what each reader was last told, or "probed" in between
    passed    \* history: units begun since the command in the room entered

vars == << pc, lock, probing, room, loaded, back, info, report, passed >>

files == << lock, probing, room >>
told  == << info, report >>

Points == {"idle", "trying", "queueing", "waiting", "served", "polling", "checking",
           "taken", "between", "claiming", "unit", "unloading", "handing",
           "blanking", "unlocking", "leaving"}

\* Holding the lock for good: a yielding command that has yet to look into
\* the room again ("checking") may still give it back.
OwnerPoints == {"served", "taken", "between", "claiming", "unit", "unloading",
                "handing", "blanking", "unlocking"}

Init ==
    /\ pc = [c \in Commands |-> "idle"]
    /\ lock = NoOne
    /\ probing = {}
    /\ room = NoOne
    /\ loaded = [c \in Commands |-> FALSE]
    /\ back = [c \in Commands |-> FALSE]
    /\ info = NoOne
    /\ report = [r \in Readers |-> NoOne]
    /\ passed = 0

Goto(c, where) == pc' = [pc EXCEPT ![c] = where]

\* Bound: the history stops counting here.
PassedCap == 2

\* An exclusive flock is granted when nobody holds the file in any way.
Free == lock = NoOne /\ probing = {}

RoomEmpty == room = NoOne

----------------------------------------------------------------------------
(* A command that does not yield (_take_announced).                        *)

Start(c) ==
    /\ pc[c] = "idle"
    /\ Goto(c, IF c \in Yielding THEN "polling" ELSE "trying")
    /\ UNCHANGED << files, loaded, back, told, passed >>

TakeAtOnce(c) ==
    /\ c \in Plain
    /\ pc[c] = "trying"
    /\ Free
    /\ lock' = c
    /\ Goto(c, "taken")
    /\ UNCHANGED << probing, room, loaded, back, told, passed >>

\* Busy: queue, or fail at once with --no-wait.
FindBusy(c) ==
    /\ c \in Plain
    /\ pc[c] = "trying"
    /\ ~Free
    /\ Goto(c, IF c \in NoWait THEN "idle" ELSE "queueing")
    /\ UNCHANGED << files, loaded, back, told, passed >>

\* Mutant: a second command walks into the room.
EnterRoomCrowded(c) ==
    /\ pc[c] = "queueing"
    /\ room' = c
    /\ passed' = 0
    /\ Goto(c, "waiting")
    /\ UNCHANGED << lock, probing, loaded, back, told >>

EnterRoom(c) ==
    /\ pc[c] = "queueing"
    /\ RoomEmpty
    /\ room' = c
    /\ passed' = 0
    /\ Goto(c, "waiting")
    /\ UNCHANGED << lock, probing, loaded, back, told >>

TakeInTurn(c) ==
    /\ pc[c] = "waiting"
    /\ Free
    /\ lock' = c
    /\ Goto(c, "served")
    /\ UNCHANGED << probing, room, loaded, back, told, passed >>

LeaveRoom(c) ==
    /\ pc[c] = "served"
    /\ room' = NoOne
    /\ passed' = 0
    /\ Goto(c, "taken")
    /\ UNCHANGED << lock, probing, loaded, back, told >>

\* Ctrl-C ends a wait and closes the room.
Interrupt(c) ==
    /\ pc[c] \in {"queueing", "waiting"}
    /\ room' = IF room = c THEN NoOne ELSE room
    /\ passed' = IF room = c THEN 0 ELSE passed
    /\ Goto(c, "idle")
    /\ UNCHANGED << lock, probing, loaded, back, told >>

----------------------------------------------------------------------------
(* A yielding command (_take_when_nobody_waits).                           *)

\* --no-wait counts for the first acquire, never for taking the lock back.
GivesUp(c) == c \in NoWait /\ ~back[c]

\* Mutant: a yielding command queues in the room like any other.
RetryInTheRoom(c) == IF GivesUp(c) THEN "idle" ELSE "queueing"

Retry(c) == IF GivesUp(c) THEN "idle" ELSE "polling"

\* waiter_present said no: try.
LookAndTry(c) ==
    /\ pc[c] = "polling"
    /\ RoomEmpty
    /\ Goto(c, "trying")
    /\ UNCHANGED << files, loaded, back, told, passed >>

SeeWaiter(c) ==
    /\ pc[c] = "polling"
    /\ ~RoomEmpty
    /\ GivesUp(c)
    /\ Goto(c, "idle")
    /\ UNCHANGED << files, loaded, back, told, passed >>

TryToTake(c) ==
    /\ c \in Yielding
    /\ pc[c] = "trying"
    /\ IF Free
       THEN lock' = c /\ Goto(c, "checking")
       ELSE Goto(c, Retry(c)) /\ UNCHANGED lock
    /\ UNCHANGED << probing, room, loaded, back, told, passed >>

\* Mutant: no second look once the lock is taken.
KeepUnseen(c) ==
    /\ pc[c] = "checking"
    /\ Goto(c, "taken")
    /\ UNCHANGED << files, loaded, back, told, passed >>

Keep(c) ==
    /\ pc[c] = "checking"
    /\ RoomEmpty
    /\ Goto(c, "taken")
    /\ UNCHANGED << files, loaded, back, told, passed >>

GiveBack(c) ==
    /\ pc[c] = "checking"
    /\ ~RoomEmpty
    /\ lock' = NoOne
    /\ Goto(c, Retry(c))
    /\ UNCHANGED << probing, room, loaded, back, told, passed >>

----------------------------------------------------------------------------
(* Holding the lock.                                                       *)

\* After a hand-over the worker claims its next task without looking again.
WriteHolder(c) ==
    /\ pc[c] = "taken"
    /\ info' = c
    /\ back' = [back EXCEPT ![c] = FALSE]
    /\ Goto(c, IF back[c] \/ c \in Plain THEN "claiming" ELSE "between")
    /\ UNCHANGED << files, loaded, report, passed >>

\* Mutant: the worker never looks into the room.
LookNowhere(c) ==
    /\ pc[c] = "between"
    /\ Goto(c, "claiming")
    /\ UNCHANGED << files, loaded, back, told, passed >>

\* A yielding command looks into the room right before each claim.
LookForWaiter(c) ==
    /\ pc[c] = "between"
    /\ c \in Yielding => RoomEmpty
    /\ Goto(c, "claiming")
    /\ UNCHANGED << files, loaded, back, told, passed >>

\* Models load with the first unit that needs them.
BeginUnit(c) ==
    /\ pc[c] = "claiming"
    /\ loaded' = [loaded EXCEPT ![c] = TRUE]
    /\ passed' = IF c \in Yielding /\ ~RoomEmpty /\ passed < PassedCap
                THEN passed + 1 ELSE passed
    /\ Goto(c, "unit")
    /\ UNCHANGED << files, back, told >>

EndUnit(c) ==
    /\ pc[c] = "unit"
    /\ Goto(c, "between")
    /\ UNCHANGED << files, loaded, back, told, passed >>

\* HeavyLockHandoff: unload, release the lock, take it back.
StepAside(c) ==
    /\ c \in Yielding
    /\ pc[c] = "between"
    /\ ~RoomEmpty
    /\ Goto(c, "unloading")
    /\ UNCHANGED << files, loaded, back, told, passed >>

\* Mutant: the lock is handed over with the models still in memory.
UnloadNothing(c) ==
    /\ pc[c] = "unloading"
    /\ Goto(c, "handing")
    /\ UNCHANGED << files, loaded, back, told, passed >>

UnloadModels(c) ==
    /\ pc[c] = "unloading"
    /\ loaded' = [loaded EXCEPT ![c] = FALSE]
    /\ Goto(c, "handing")
    /\ UNCHANGED << files, back, told, passed >>

\* The work is done, stopped or deferred: release, with the models loaded.
Finish(c) ==
    /\ pc[c] \in {"between", "claiming"}
    /\ Goto(c, "blanking")
    /\ UNCHANGED << files, loaded, back, told, passed >>

\* Mutant: a hand-over leaves the holder's details behind.
BlankAtTheEndOnly(c) ==
    /\ pc[c] \in {"blanking", "handing"}
    /\ info' = IF pc[c] = "handing" THEN info ELSE NoOne
    /\ back' = [back EXCEPT ![c] = pc[c] = "handing"]
    /\ Goto(c, "unlocking")
    /\ UNCHANGED << files, loaded, report, passed >>

BlankHolder(c) ==
    /\ pc[c] \in {"blanking", "handing"}
    /\ info' = NoOne
    /\ back' = [back EXCEPT ![c] = pc[c] = "handing"]
    /\ Goto(c, "unlocking")
    /\ UNCHANGED << files, loaded, report, passed >>

Unlock(c) ==
    /\ pc[c] = "unlocking"
    /\ lock' = NoOne
    /\ Goto(c, IF back[c] THEN "polling" ELSE "leaving")
    /\ UNCHANGED << probing, room, loaded, back, told, passed >>

\* The process ends, and its models with it.
Exit(c) ==
    /\ pc[c] = "leaving"
    /\ loaded' = [loaded EXCEPT ![c] = FALSE]
    /\ Goto(c, "idle")
    /\ UNCHANGED << files, back, told, passed >>

\* Killed: the kernel drops its flocks, the lock file keeps its content.
Crash(c) ==
    /\ c \in MayCrash
    /\ pc[c] # "idle"
    /\ lock' = IF lock = c THEN NoOne ELSE lock
    /\ room' = IF room = c THEN NoOne ELSE room
    /\ passed' = IF room = c THEN 0 ELSE passed
    /\ loaded' = [loaded EXCEPT ![c] = FALSE]
    /\ back' = [back EXCEPT ![c] = FALSE]
    /\ Goto(c, "idle")
    /\ UNCHANGED << probing, told >>

----------------------------------------------------------------------------
(* imsg status (inspect_heavy_lock).                                       *)

\* Not held: the shared lock is dropped at once.
ProbeFree(r) ==
    /\ r \notin probing
    /\ report[r] # "probed"
    /\ lock = NoOne
    /\ probing' = probing \cup {r}
    /\ report' = [report EXCEPT ![r] = NoOne]
    /\ UNCHANGED << pc, lock, room, loaded, back, info, passed >>

EndProbe(r) ==
    /\ r \in probing
    /\ probing' = probing \ {r}
    /\ UNCHANGED << pc, lock, room, loaded, back, told, passed >>

\* Held: its content is read next.
ProbeHeld(r) ==
    /\ r \notin probing
    /\ report[r] # "probed"
    /\ lock # NoOne
    /\ report' = [report EXCEPT ![r] = "probed"]
    /\ UNCHANGED << pc, files, loaded, back, info, passed >>

ReadHolder(r) ==
    /\ report[r] = "probed"
    /\ report' = [report EXCEPT ![r] = info]
    /\ UNCHANGED << pc, files, loaded, back, info, passed >>

----------------------------------------------------------------------------
Take(c) ==
    \/ Start(c) \/ TakeAtOnce(c) \/ FindBusy(c) \/ EnterRoom(c) \/ TakeInTurn(c)
    \/ LeaveRoom(c) \/ Interrupt(c) \/ LookAndTry(c) \/ SeeWaiter(c)
    \/ TryToTake(c) \/ Keep(c) \/ GiveBack(c)

Hold(c) ==
    \/ WriteHolder(c) \/ LookForWaiter(c) \/ BeginUnit(c) \/ EndUnit(c) \/ StepAside(c)
    \/ UnloadModels(c) \/ Finish(c) \/ BlankHolder(c) \/ Unlock(c)
    \/ Exit(c) \/ Crash(c)

Probe(r) == ProbeFree(r) \/ EndProbe(r) \/ ProbeHeld(r) \/ ReadHolder(r)

Next ==
    \/ \E c \in Commands : Take(c) \/ Hold(c)
    \/ \E r \in Readers : Probe(r)

Spec == Init /\ [][Next]_vars

\* A process that may run does; a blocked flock is granted when the file is
\* free often enough; work that does not yield ends.  Nobody has to start,
\* interrupt, crash or finish a yielding run.
Fairness ==
    /\ \A c \in Commands :
        /\ WF_vars(FindBusy(c) \/ TakeAtOnce(c))
        /\ SF_vars(EnterRoom(c))
        /\ SF_vars(TakeInTurn(c))
        /\ WF_vars(LeaveRoom(c) \/ Keep(c) \/ GiveBack(c) \/ TryToTake(c))
        /\ WF_vars(WriteHolder(c) \/ BeginUnit(c) \/ EndUnit(c))
        /\ WF_vars(LookForWaiter(c) \/ StepAside(c))
        /\ WF_vars(UnloadModels(c) \/ BlankHolder(c) \/ Unlock(c) \/ Exit(c))
    /\ \A c \in Plain : SF_vars(Finish(c))
    /\ \A r \in Readers : WF_vars(EndProbe(r) \/ ReadHolder(r))

FairSpec == Spec /\ Fairness

----------------------------------------------------------------------------
(* Properties.                                                             *)

\* The variables keep their types; only a command that does not yield is
\* ever in the room.
TypeOK ==
    /\ pc \in [Commands -> Points]
    /\ lock \in Commands \cup {NoOne}
    /\ probing \subseteq Readers
    /\ room \in Plain \cup {NoOne}
    /\ loaded \in [Commands -> BOOLEAN]
    /\ back \in [Commands -> BOOLEAN]
    /\ info \in Commands \cup {NoOne}
    /\ report \in [Readers -> Commands \cup {NoOne, "probed"}]
    /\ passed \in 0 .. PassedCap

\* "The two model sets are never both loaded under it": of two commands with
\* models in memory one has released the lock for good and is about to exit,
\* whatever hand-overs and kills came before (heavy_lock.py:57-59).
OneModelSet ==
    \A c, d \in Commands :
        loaded[c] /\ loaded[d] /\ c # d => "leaving" \in {pc[c], pc[d]}

\* "Such a holder never overtakes a waiter": while one command waits, at most
\* one unit of yielding work begins, the one whose claim followed the last
\* look into the room (heavy_lock.py:53-55, worker.py:94-110).
OvertakenOnce == passed <= 1

\* "A reader never sees a released lock's details as if they described a live
\* holder" (heavy_lock.py:391-392): whoever the file names still holds the
\* lock, unless that command was killed.
ReleasedInfoIsBlank == info # NoOne /\ info \notin MayCrash => lock = info

\* The lock and the room implement the polite lock: whoever holds the lock for
\* good owns it, whoever is in the room is announced, and a yielding command
\* keeps the lock only if nobody was in the room when it looked a second time.
PL == INSTANCE PoliteLock WITH
          owner <- IF \E c \in Commands : lock = c /\ pc[c] \in OwnerPoints
                   THEN lock ELSE NoOne,
          announced <- room

PoliteLockSpec == PL!Spec

\* A command that found the lock taken gets it, however long the enrichment
\* worker's run is and however often others come between, unless it is
\* interrupted or killed (heavy_lock.py:41-55).
WaiterIsServed ==
    \A c \in Plain : pc[c] \in {"queueing", "waiting"} ~> pc[c] \in {"taken", "idle"}

============================================================================
