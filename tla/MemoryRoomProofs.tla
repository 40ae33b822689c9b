-------------------------- MODULE MemoryRoomProofs --------------------------
(***************************************************************************)
(* What running processes hold or were promised leaves the reserve free:   *)
(* RoomForAll of MemoryAdmission, for any finite number of processes, any  *)
(* footprints and any amount of memory.                                    *)
(*                                                                         *)
(* A check decides on numbers that are old when it decides: the processes  *)
(* it counted load, unload, release and die under its eyes.  MeasuredInv   *)
(* says what the measured amount is still worth until the others are       *)
(* counted, CountedInv what the two numbers are worth from then on: no     *)
(* group of processes (but for those set aside) claims more than they      *)
(* account for, because claims only fall while the lock is held            *)
(* (ClaimsFall).  RoomInv is the rule itself, of every group of processes  *)
(* that were not admitted past one another, which is what an admission     *)
(* needs to find true of the others.                                       *)
(***************************************************************************)
EXTENDS MemoryAdmissionProofs

Deciding == {"counted", "noticed"}

\* Nobody in S was admitted past another one in S.
PastFree(S) == \A l \in S \cap Live : past[l] \cap S = {}

\* A process loads under a reservation, and a dead one holds nothing.
GrantInv ==
    \A p \in Procs :
        /\ pc[p] \in {"loaded", "unit"} => reserved[p]
        /\ pc[p] = "dead" => held[p] = 0

\* The host has at least what was measured, but for the growth since.
MeasuredInv ==
    \A p \in Procs : pc[p] = "measured" => look.avail <= Available + drift

\* Until the check ends, the claims of any others, but for the jobs set
\* aside, fit into what it measured and counted.
CountedInv ==
    \A p \in Procs : pc[p] \in Deciding =>
        /\ p \in Background => look.aside = {}
        /\ \A S \in SUBSET (Procs \ {p}) :
               S \cap {b \in look.aside : HasClaim(b)} = {} =>
                   Units(Claim, S) + look.avail <= Total + look.promised + Drift

RoomInv ==
    \A S \in SUBSET Procs : PastFree(S) /\ Units(Claim, S) > 0 =>
        Units(Claim, S) + Reserve <= Total + Drift

RoomIInv ==
    /\ IInv
    /\ GrantInv
    /\ MeasuredInv
    /\ CountedInv
    /\ RoomInv

----------------------------------------------------------------------------
(* Claims.                                                                 *)

\* A claim is a number, not zero exactly for a process that has one, and the
\* units of a group are a number too.
ClaimOK ==
    /\ Claim \in [Procs -> Nat]
    /\ \A q \in Procs : Claim[q] # 0 <=> HasClaim(q)
    /\ \A S \in SUBSET Procs : Units(Claim, S) \in Nat

LEMMA ClaimFacts == TypeOK /\ GrantInv => ClaimOK
  <1> SUFFICES ASSUME TypeOK, GrantInv PROVE ClaimOK
    OBVIOUS
  <1>1. /\ Claim \in [Procs -> Nat]
        /\ \A q \in Procs : Claim[q] # 0 <=> HasClaim(q)
    BY MemoryAssumption DEF TypeOK, GrantInv, Claim, Granted, HasClaim, Running, Procs
  <1>2. ASSUME NEW S \in SUBSET Procs PROVE Units(Claim, S) \in Nat
    <2>1. \A q \in S : Claim[q] \in Int
      BY <1>1
    <2> QED
      BY <2>1, ProcsFinite, UnitsType
  <1> QED
    BY <1>1, <1>2 DEF ClaimOK

\* One process alone accounts for its amount.
LEMMA UnitsOne ==
    ASSUME NEW q, NEW h, h[q] \in Nat
    PROVE  Units(h, {q}) = h[q]
  <1>1. IsFiniteSet({}) /\ Cardinality({}) = 0
    BY FS_EmptySet
  <1>2. Cells(h, {}) = {}
    BY DEF Cells
  <1>3. Units(h, {}) = Cardinality(Cells(h, {}))
    BY DEF Units, Cells
  <1>4. Units(h, {}) = 0
    BY <1>1, <1>2, <1>3
  <1>5. Units(h, {} \cup {q}) = Units(h, {}) + h[q]
    BY <1>1, UnitsAdd
  <1>6. {} \cup {q} = {q}
    OBVIOUS
  <1> QED
    BY <1>4, <1>5, <1>6

\* A step that admits nobody takes claims away, and remembers whom a server
\* was admitted past for as long as both have a claim.
ClaimsFall ==
    /\ \A q \in Procs : Claim'[q] <= Claim[q]
    /\ \A l \in Live : \A b \in past[l] :
           b \in past'[l] \/ Claim'[l] = 0 \/ Claim'[b] = 0

Admission ==
    \/ \E l \in Live : AdmitLive(l)
    \/ \E b \in Background : AdmitBackground(b)

\* A decision is taken on what its own check measured and counted.
CountKept ==
    \A p \in Procs : pc'[p] \in Deciding =>
        \/ CountOthers(p)
        \/ /\ pc[p] \in Deciding
           /\ look'.avail = look.avail
           /\ look'.promised = look.promised
           /\ look'.aside = look.aside

\* While a check has only measured, memory is given back or grows by the
\* unit that drift counts.
Loaded(q) == drift' = drift + 1 /\ held' = [held EXCEPT ![q] = held[q] + 1]

MeasureKept ==
    \A p \in Procs : pc'[p] = "measured" =>
        \/ Measure(p)
        \/ /\ pc[p] = "measured"
           /\ look' = look
           /\ \/ drift' = drift /\ \A q \in Procs : held'[q] <= held[q]
              \/ \E q \in Procs : Loaded(q)

----------------------------------------------------------------------------
(* What every step does to claims and reads.                               *)

\* Reservations go only where nothing is loaded any more.
LEMMA GrantStep ==
    TypeOK /\ GrantInv /\ [Next]_vars => GrantInv'
  <1> SUFFICES ASSUME TypeOK, GrantInv, [Next]_vars PROVE GrantInv'
    OBVIOUS
  <1> USE ProcsAssumption
  <1>1. ASSUME NEW p \in Procs, TakeAdmissionLock(p) PROVE GrantInv'
    BY <1>1
      DEF GrantInv, TypeOK, Procs, TakeAdmissionLock, Goto, noticeVars, hostVars,
          history
  <1>2. ASSUME NEW p \in Procs, Measure(p) PROVE GrantInv'
    BY <1>2
      DEF GrantInv, TypeOK, Procs, Measure, NothingRead, Goto, noticeVars, history
  <1>3. ASSUME NEW p \in Procs, CountOthers(p) PROVE GrantInv'
    BY <1>3
      DEF GrantInv, TypeOK, Procs, CountOthers, Running, Goto, noticeVars, history
  <1>4. ASSUME NEW p \in Procs, CheckFails(p) PROVE GrantInv'
    BY <1>4
      DEF GrantInv, TypeOK, Procs, CheckFails, CheckPoints, LeaveCheck, Goto, history,
          NothingRead
  <1>5. ASSUME NEW p \in Procs, Load(p) PROVE GrantInv'
    BY <1>5
      DEF GrantInv, TypeOK, Procs, Load, Measuring, noticeVars, history
  <1>6. ASSUME NEW p \in Procs, Crash(p) PROVE GrantInv'
    BY <1>6
      DEF GrantInv, TypeOK, Procs, Crash, Running, Dies, LeaveCheck, Goto, NothingRead
  <1>7. ASSUME NEW p \in Procs, Restart(p) PROVE GrantInv'
    BY <1>7
      DEF GrantInv, TypeOK, Procs, Restart, Goto, noticeVars, hostVars, history
  <1>8. ASSUME NEW l \in Live, StartLiveCheck(l) PROVE GrantInv'
    BY <1>8
      DEF GrantInv, TypeOK, Procs, StartLiveCheck, Goto, Posted, noticeVars, hostVars,
          history
  <1>9. ASSUME NEW l \in Live, AdmitLive(l) PROVE GrantInv'
    BY <1>9
      DEF GrantInv, TypeOK, Procs, AdmitLive, Reservation, Settle, LeaveCheck, Goto,
          Post, Withdraw, NothingRead, Posted
  <1>10. ASSUME NEW l \in Live, RefuseLive(l) PROVE GrantInv'
    BY <1>10
      DEF GrantInv, TypeOK, Procs, RefuseLive, Settle, LeaveCheck, Goto, history, Post,
          Withdraw, NothingRead, Posted
  <1>11. ASSUME NEW l \in Live, UnloadIdle(l) PROVE GrantInv'
    BY <1>11
      DEF GrantInv, TypeOK, Procs, UnloadIdle, Goto, noticeVars, hostVars, history
  <1>12. ASSUME NEW l \in Live, UnloadForPressure(l) PROVE GrantInv'
    BY <1>12
      DEF GrantInv, TypeOK, Procs, UnloadForPressure, Goto, noticeVars, hostVars,
          history
  <1>13. ASSUME NEW l \in Live, StopRetrying(l) PROVE GrantInv'
    BY <1>13
      DEF GrantInv, TypeOK, Procs, StopRetrying, Goto, noticeVars, hostVars, history
  <1>14. ASSUME NEW l \in Live, Close(l) PROVE GrantInv'
    BY <1>14
      DEF GrantInv, TypeOK, Procs, Close, Goto, noticeVars, hostVars, history
  <1>15. ASSUME NEW l \in Live, ReleaseLive(l) PROVE GrantInv'
    BY <1>15
      DEF GrantInv, TypeOK, Procs, ReleaseLive, AfterRelease, RemoveReservation, Goto,
          noticeVars, hostVars
  <1>16. ASSUME NEW l \in Live, WithdrawNotice(l) PROVE GrantInv'
    BY <1>16
      DEF GrantInv, TypeOK, Procs, WithdrawNotice, Withdraw, Goto, hostVars, history
  <1>17. ASSUME NEW l \in Live, PostReloadNotice(l) PROVE GrantInv'
    BY <1>17
      DEF GrantInv, TypeOK, Procs, PostReloadNotice, Post, Goto, hostVars, history,
          Posted
  <1>18. ASSUME NEW l \in Live, Tick(l) PROVE GrantInv'
    BY <1>18
      DEF GrantInv, TypeOK, Procs, Tick, Running, Withdraw, hostVars, history
  <1>19. ASSUME NEW l \in Live, NoticeAges(l) PROVE GrantInv'
    BY <1>19
      DEF GrantInv, TypeOK, Procs, NoticeAges, Posted, hostVars, history
  <1>20. ASSUME NEW l \in Live, RefusalLapses(l) PROVE GrantInv'
    BY <1>20
      DEF GrantInv, TypeOK, Procs, RefusalLapses, hostVars, history
  <1>21. ASSUME NEW l \in Live, Exit(l) PROVE GrantInv'
    BY <1>21
      DEF GrantInv, TypeOK, Procs, Exit, Dies, Goto
  <1>22. ASSUME NEW b \in Background, TakeHeavyLock(b) PROVE GrantInv'
    BY <1>22
      DEF GrantInv, TypeOK, Procs, TakeHeavyLock, Goto, noticeVars, history
  <1>23. ASSUME NEW b \in Background, PassGate(b) PROVE GrantInv'
    BY <1>23
      DEF GrantInv, TypeOK, Procs, PassGate, Goto, noticeVars, hostVars, history
  <1>24. ASSUME NEW b \in Background, LeaveGate(b) PROVE GrantInv'
    BY <1>24
      DEF GrantInv, TypeOK, Procs, LeaveGate, Goto, noticeVars, hostVars, history
  <1>25. ASSUME NEW b \in Background, ReadNotices(b) PROVE GrantInv'
    BY <1>25
      DEF GrantInv, TypeOK, Procs, ReadNotices, PostedNotices, Goto, noticeVars,
          hostVars, history, Posted
  <1>26. ASSUME NEW b \in Background, AdmitBackground(b) PROVE GrantInv'
    BY <1>26
      DEF GrantInv, TypeOK, Procs, AdmitBackground, Reservation, LeaveCheck, Goto,
          noticeVars, NothingRead
  <1>27. ASSUME NEW b \in Background, RefuseBackground(b) PROVE GrantInv'
    BY <1>27
      DEF GrantInv, TypeOK, Procs, RefuseBackground, LeaveCheck, Goto, noticeVars,
          history, NothingRead
  <1>28. ASSUME NEW b \in Background, AskAgain(b) PROVE GrantInv'
    BY <1>28
      DEF GrantInv, TypeOK, Procs, AskAgain, Goto, noticeVars, hostVars, history
  <1>29. ASSUME NEW b \in Background, Defer(b) PROVE GrantInv'
    BY <1>29
      DEF GrantInv, TypeOK, Procs, Defer, Goto, noticeVars, hostVars, history
  <1>30. ASSUME NEW b \in Background, StopForLiveServer(b) PROVE GrantInv'
    BY <1>30
      DEF GrantInv, TypeOK, Procs, StopForLiveServer, PostedNotices, Goto, EndOfWork,
          noticeVars, hostVars, history, Posted
  <1>31. ASSUME NEW b \in Background, EndWork(b) PROVE GrantInv'
    BY <1>31
      DEF GrantInv, TypeOK, Procs, EndWork, Goto, EndOfWork, noticeVars, hostVars,
          history
  <1>32. ASSUME NEW b \in Background, EndStep(b) PROVE GrantInv'
    BY <1>32
      DEF GrantInv, TypeOK, Procs, EndStep, Goto, noticeVars, hostVars, history
  <1>33. ASSUME NEW b \in Background, ReleaseStep(b) PROVE GrantInv'
    BY <1>33
      DEF GrantInv, TypeOK, Procs, ReleaseStep, RemoveReservation, NoLongerPast, Goto,
          noticeVars, hostVars
  <1>34. ASSUME NEW b \in Background, ReleaseBackground(b) PROVE GrantInv'
    BY <1>34
      DEF GrantInv, TypeOK, Procs, ReleaseBackground, RemoveReservation, Goto,
          noticeVars, hostVars
  <1>35. ASSUME NEW b \in Background, ReleaseHeavyLock(b) PROVE GrantInv'
    BY <1>35
      DEF GrantInv, TypeOK, Procs, ReleaseHeavyLock, Goto, noticeVars, history
  <1>36. ASSUME NEW b \in Background, LeaveHost(b) PROVE GrantInv'
    BY <1>36
      DEF GrantInv, TypeOK, Procs, LeaveHost, NoLongerPast, Goto, noticeVars, hostVars
  <1>37. CASE UNCHANGED vars
    BY <1>37
      DEF vars, hostVars, noticeVars, history, GrantInv, TypeOK, Procs
  <1> QED
    BY <1>1, <1>2, <1>3, <1>4, <1>5, <1>6, <1>7, <1>8, <1>9, <1>10, <1>11, <1>12,
       <1>13, <1>14, <1>15, <1>16, <1>17, <1>18, <1>19, <1>20, <1>21, <1>22, <1>23,
       <1>24, <1>25, <1>26, <1>27, <1>28, <1>29, <1>30, <1>31, <1>32, <1>33, <1>34,
       <1>35, <1>36, <1>37
      DEF Next, Check, LiveNext, BackgroundNext

\* Only an admission makes a claim.
LEMMA ClaimsStep ==
    TypeOK /\ GrantInv /\ BackgroundClaimInv /\ [Next]_vars => (Admission \/ ClaimsFall)
  <1> SUFFICES ASSUME TypeOK, GrantInv, BackgroundClaimInv, [Next]_vars PROVE Admission \/ ClaimsFall
    OBVIOUS
  <1> USE ProcsAssumption, MemoryAssumption
  <1>1. ASSUME NEW p \in Procs, TakeAdmissionLock(p) PROVE Admission \/ ClaimsFall
    BY <1>1
      DEF ClaimsFall, Claim, Granted, GrantInv, BackgroundClaimInv, HasClaim, Running,
          TypeOK, Procs, TakeAdmissionLock, Goto, noticeVars, hostVars, history
  <1>2. ASSUME NEW p \in Procs, Measure(p) PROVE Admission \/ ClaimsFall
    BY <1>2
      DEF ClaimsFall, Claim, Granted, GrantInv, BackgroundClaimInv, HasClaim, Running,
          TypeOK, Procs, Measure, NothingRead, Goto, noticeVars, history
  <1>3. ASSUME NEW p \in Procs, CountOthers(p) PROVE Admission \/ ClaimsFall
    BY <1>3
      DEF ClaimsFall, Claim, Granted, GrantInv, BackgroundClaimInv, HasClaim, Running,
          TypeOK, Procs, CountOthers, Goto, noticeVars, history
  <1>4. ASSUME NEW p \in Procs, CheckFails(p) PROVE Admission \/ ClaimsFall
    BY <1>4
      DEF ClaimsFall, Claim, Granted, GrantInv, BackgroundClaimInv, HasClaim, Running,
          TypeOK, Procs, CheckFails, CheckPoints, LeaveCheck, Goto, history, NothingRead
  <1>5. ASSUME NEW p \in Procs, Load(p) PROVE Admission \/ ClaimsFall
    BY <1>5
      DEF ClaimsFall, Claim, Granted, GrantInv, BackgroundClaimInv, HasClaim, Running,
          TypeOK, Procs, Load, Measuring, noticeVars, history
  <1>6. ASSUME NEW p \in Procs, Crash(p) PROVE Admission \/ ClaimsFall
    BY <1>6
      DEF ClaimsFall, Claim, Granted, GrantInv, BackgroundClaimInv, HasClaim, Running,
          TypeOK, Procs, Crash, Dies, LeaveCheck, Goto, NothingRead
  <1>7. ASSUME NEW p \in Procs, Restart(p) PROVE Admission \/ ClaimsFall
    BY <1>7
      DEF ClaimsFall, Claim, Granted, GrantInv, BackgroundClaimInv, HasClaim, Running,
          TypeOK, Procs, Restart, Goto, noticeVars, hostVars, history
  <1>8. ASSUME NEW l \in Live, StartLiveCheck(l) PROVE Admission \/ ClaimsFall
    BY <1>8
      DEF ClaimsFall, Claim, Granted, GrantInv, BackgroundClaimInv, HasClaim, Running,
          TypeOK, Procs, StartLiveCheck, Goto, Posted, noticeVars, hostVars, history
  <1>9. ASSUME NEW l \in Live, AdmitLive(l) PROVE Admission \/ ClaimsFall
    BY <1>9 DEF Admission
  <1>10. ASSUME NEW l \in Live, RefuseLive(l) PROVE Admission \/ ClaimsFall
    BY <1>10
      DEF ClaimsFall, Claim, Granted, GrantInv, BackgroundClaimInv, HasClaim, Running,
          TypeOK, Procs, RefuseLive, Settle, LeaveCheck, Goto, history, Post, Withdraw,
          NothingRead, Posted
  <1>11. ASSUME NEW l \in Live, UnloadIdle(l) PROVE Admission \/ ClaimsFall
    BY <1>11
      DEF ClaimsFall, Claim, Granted, GrantInv, BackgroundClaimInv, HasClaim, Running,
          TypeOK, Procs, UnloadIdle, Goto, noticeVars, hostVars, history
  <1>12. ASSUME NEW l \in Live, UnloadForPressure(l) PROVE Admission \/ ClaimsFall
    BY <1>12
      DEF ClaimsFall, Claim, Granted, GrantInv, BackgroundClaimInv, HasClaim, Running,
          TypeOK, Procs, UnloadForPressure, Goto, noticeVars, hostVars, history
  <1>13. ASSUME NEW l \in Live, StopRetrying(l) PROVE Admission \/ ClaimsFall
    BY <1>13
      DEF ClaimsFall, Claim, Granted, GrantInv, BackgroundClaimInv, HasClaim, Running,
          TypeOK, Procs, StopRetrying, Goto, noticeVars, hostVars, history
  <1>14. ASSUME NEW l \in Live, Close(l) PROVE Admission \/ ClaimsFall
    BY <1>14
      DEF ClaimsFall, Claim, Granted, GrantInv, BackgroundClaimInv, HasClaim, Running,
          TypeOK, Procs, Close, Goto, noticeVars, hostVars, history
  <1>15. ASSUME NEW l \in Live, ReleaseLive(l) PROVE Admission \/ ClaimsFall
    BY <1>15
      DEF ClaimsFall, Claim, Granted, GrantInv, BackgroundClaimInv, HasClaim, Running,
          TypeOK, Procs, ReleaseLive, AfterRelease, RemoveReservation, Goto,
          noticeVars, hostVars
  <1>16. ASSUME NEW l \in Live, WithdrawNotice(l) PROVE Admission \/ ClaimsFall
    BY <1>16
      DEF ClaimsFall, Claim, Granted, GrantInv, BackgroundClaimInv, HasClaim, Running,
          TypeOK, Procs, WithdrawNotice, Withdraw, Goto, hostVars, history
  <1>17. ASSUME NEW l \in Live, PostReloadNotice(l) PROVE Admission \/ ClaimsFall
    BY <1>17
      DEF ClaimsFall, Claim, Granted, GrantInv, BackgroundClaimInv, HasClaim, Running,
          TypeOK, Procs, PostReloadNotice, Post, Goto, hostVars, history, Posted
  <1>18. ASSUME NEW l \in Live, Tick(l) PROVE Admission \/ ClaimsFall
    BY <1>18
      DEF ClaimsFall, Claim, Granted, GrantInv, BackgroundClaimInv, HasClaim, Running,
          TypeOK, Procs, Tick, Withdraw, hostVars, history
  <1>19. ASSUME NEW l \in Live, NoticeAges(l) PROVE Admission \/ ClaimsFall
    BY <1>19
      DEF ClaimsFall, Claim, Granted, GrantInv, BackgroundClaimInv, HasClaim, Running,
          TypeOK, Procs, NoticeAges, Posted, hostVars, history
  <1>20. ASSUME NEW l \in Live, RefusalLapses(l) PROVE Admission \/ ClaimsFall
    BY <1>20
      DEF ClaimsFall, Claim, Granted, GrantInv, BackgroundClaimInv, HasClaim, Running,
          TypeOK, Procs, RefusalLapses, hostVars, history
  <1>21. ASSUME NEW l \in Live, Exit(l) PROVE Admission \/ ClaimsFall
    BY <1>21
      DEF ClaimsFall, Claim, Granted, GrantInv, BackgroundClaimInv, HasClaim, Running,
          TypeOK, Procs, Exit, Dies, Goto
  <1>22. ASSUME NEW b \in Background, TakeHeavyLock(b) PROVE Admission \/ ClaimsFall
    BY <1>22
      DEF ClaimsFall, Claim, Granted, GrantInv, BackgroundClaimInv, HasClaim, Running,
          TypeOK, Procs, TakeHeavyLock, Goto, noticeVars, history
  <1>23. ASSUME NEW b \in Background, PassGate(b) PROVE Admission \/ ClaimsFall
    BY <1>23
      DEF ClaimsFall, Claim, Granted, GrantInv, BackgroundClaimInv, HasClaim, Running,
          TypeOK, Procs, PassGate, Goto, noticeVars, hostVars, history
  <1>24. ASSUME NEW b \in Background, LeaveGate(b) PROVE Admission \/ ClaimsFall
    BY <1>24
      DEF ClaimsFall, Claim, Granted, GrantInv, BackgroundClaimInv, HasClaim, Running,
          TypeOK, Procs, LeaveGate, Goto, noticeVars, hostVars, history
  <1>25. ASSUME NEW b \in Background, ReadNotices(b) PROVE Admission \/ ClaimsFall
    BY <1>25
      DEF ClaimsFall, Claim, Granted, GrantInv, BackgroundClaimInv, HasClaim, Running,
          TypeOK, Procs, ReadNotices, PostedNotices, Goto, noticeVars, hostVars,
          history, Posted
  <1>26. ASSUME NEW b \in Background, AdmitBackground(b) PROVE Admission \/ ClaimsFall
    BY <1>26 DEF Admission
  <1>27. ASSUME NEW b \in Background, RefuseBackground(b) PROVE Admission \/ ClaimsFall
    BY <1>27
      DEF ClaimsFall, Claim, Granted, GrantInv, BackgroundClaimInv, HasClaim, Running,
          TypeOK, Procs, RefuseBackground, LeaveCheck, Goto, noticeVars, history,
          NothingRead
  <1>28. ASSUME NEW b \in Background, AskAgain(b) PROVE Admission \/ ClaimsFall
    BY <1>28
      DEF ClaimsFall, Claim, Granted, GrantInv, BackgroundClaimInv, HasClaim, Running,
          TypeOK, Procs, AskAgain, Goto, noticeVars, hostVars, history
  <1>29. ASSUME NEW b \in Background, Defer(b) PROVE Admission \/ ClaimsFall
    BY <1>29
      DEF ClaimsFall, Claim, Granted, GrantInv, BackgroundClaimInv, HasClaim, Running,
          TypeOK, Procs, Defer, Goto, noticeVars, hostVars, history
  <1>30. ASSUME NEW b \in Background, StopForLiveServer(b) PROVE Admission \/ ClaimsFall
    BY <1>30
      DEF ClaimsFall, Claim, Granted, GrantInv, BackgroundClaimInv, HasClaim, Running,
          TypeOK, Procs, StopForLiveServer, PostedNotices, Goto, EndOfWork, noticeVars,
          hostVars, history, Posted
  <1>31. ASSUME NEW b \in Background, EndWork(b) PROVE Admission \/ ClaimsFall
    BY <1>31
      DEF ClaimsFall, Claim, Granted, GrantInv, BackgroundClaimInv, HasClaim, Running,
          TypeOK, Procs, EndWork, Goto, EndOfWork, noticeVars, hostVars, history
  <1>32. ASSUME NEW b \in Background, EndStep(b) PROVE Admission \/ ClaimsFall
    BY <1>32
      DEF ClaimsFall, Claim, Granted, GrantInv, BackgroundClaimInv, HasClaim, Running,
          TypeOK, Procs, EndStep, Goto, noticeVars, hostVars, history
  <1>33. ASSUME NEW b \in Background, ReleaseStep(b) PROVE Admission \/ ClaimsFall
    BY <1>33
      DEF ClaimsFall, Claim, Granted, GrantInv, BackgroundClaimInv, HasClaim, Running,
          TypeOK, Procs, ReleaseStep, RemoveReservation, NoLongerPast, Goto,
          noticeVars, hostVars
  <1>34. ASSUME NEW b \in Background, ReleaseBackground(b) PROVE Admission \/ ClaimsFall
    BY <1>34
      DEF ClaimsFall, Claim, Granted, GrantInv, BackgroundClaimInv, HasClaim, Running,
          TypeOK, Procs, ReleaseBackground, RemoveReservation, Goto, noticeVars,
          hostVars
  <1>35. ASSUME NEW b \in Background, ReleaseHeavyLock(b) PROVE Admission \/ ClaimsFall
    BY <1>35
      DEF ClaimsFall, Claim, Granted, GrantInv, BackgroundClaimInv, HasClaim, Running,
          TypeOK, Procs, ReleaseHeavyLock, Goto, noticeVars, history
  <1>36. ASSUME NEW b \in Background, LeaveHost(b) PROVE Admission \/ ClaimsFall
    BY <1>36
      DEF ClaimsFall, Claim, Granted, GrantInv, BackgroundClaimInv, HasClaim, Running,
          TypeOK, Procs, LeaveHost, NoLongerPast, Goto, noticeVars, hostVars
  <1>37. CASE UNCHANGED vars
    BY <1>37
      DEF vars, hostVars, noticeVars, history, ClaimsFall, Claim, Granted, GrantInv,
          BackgroundClaimInv, HasClaim, Running, TypeOK, Procs
  <1> QED
    BY <1>1, <1>2, <1>3, <1>4, <1>5, <1>6, <1>7, <1>8, <1>9, <1>10, <1>11, <1>12,
       <1>13, <1>14, <1>15, <1>16, <1>17, <1>18, <1>19, <1>20, <1>21, <1>22, <1>23,
       <1>24, <1>25, <1>26, <1>27, <1>28, <1>29, <1>30, <1>31, <1>32, <1>33, <1>34,
       <1>35, <1>36, <1>37
      DEF Next, Check, LiveNext, BackgroundNext

\* Only the process under the lock changes what the check has read.
LEMMA CountStep ==
    TypeOK /\ LockInv /\ [Next]_vars => CountKept
  <1> SUFFICES ASSUME TypeOK, LockInv, [Next]_vars PROVE CountKept
    OBVIOUS
  <1> USE ProcsAssumption
  <1>1. ASSUME NEW p \in Procs, TakeAdmissionLock(p) PROVE CountKept
    BY <1>1
      DEF CountKept, Deciding, LockInv, CheckPoints, TypeOK, Procs, TakeAdmissionLock,
          Goto, noticeVars, hostVars, history
  <1>2. ASSUME NEW p \in Procs, Measure(p) PROVE CountKept
    BY <1>2
      DEF CountKept, Deciding, LockInv, CheckPoints, TypeOK, Procs, Measure,
          NothingRead, Goto, noticeVars, history
  <1>3. ASSUME NEW p \in Procs, CountOthers(p) PROVE CountKept
    BY <1>3
      DEF CountKept, Deciding, LockInv, CheckPoints, TypeOK, Procs, CountOthers,
          Running, Goto, noticeVars, history
  <1>4. ASSUME NEW p \in Procs, CheckFails(p) PROVE CountKept
    BY <1>4
      DEF CountKept, Deciding, LockInv, CheckPoints, TypeOK, Procs, CheckFails,
          LeaveCheck, Goto, history, NothingRead
  <1>5. ASSUME NEW p \in Procs, Load(p) PROVE CountKept
    BY <1>5
      DEF CountKept, Deciding, LockInv, CheckPoints, TypeOK, Procs, Load, Measuring,
          noticeVars, history
  <1>6. ASSUME NEW p \in Procs, Crash(p) PROVE CountKept
    BY <1>6
      DEF CountKept, Deciding, LockInv, CheckPoints, TypeOK, Procs, Crash, Running,
          Dies, LeaveCheck, Goto, NothingRead
  <1>7. ASSUME NEW p \in Procs, Restart(p) PROVE CountKept
    BY <1>7
      DEF CountKept, Deciding, LockInv, CheckPoints, TypeOK, Procs, Restart, Goto,
          noticeVars, hostVars, history
  <1>8. ASSUME NEW l \in Live, StartLiveCheck(l) PROVE CountKept
    BY <1>8
      DEF CountKept, Deciding, LockInv, CheckPoints, TypeOK, Procs, StartLiveCheck,
          Goto, Posted, noticeVars, hostVars, history
  <1>9. ASSUME NEW l \in Live, AdmitLive(l) PROVE CountKept
    BY <1>9
      DEF CountKept, Deciding, LockInv, CheckPoints, TypeOK, Procs, AdmitLive,
          Reservation, Settle, LeaveCheck, Goto, Post, Withdraw, NothingRead, Posted
  <1>10. ASSUME NEW l \in Live, RefuseLive(l) PROVE CountKept
    BY <1>10
      DEF CountKept, Deciding, LockInv, CheckPoints, TypeOK, Procs, RefuseLive, Settle,
          LeaveCheck, Goto, history, Post, Withdraw, NothingRead, Posted
  <1>11. ASSUME NEW l \in Live, UnloadIdle(l) PROVE CountKept
    BY <1>11
      DEF CountKept, Deciding, LockInv, CheckPoints, TypeOK, Procs, UnloadIdle, Goto,
          noticeVars, hostVars, history
  <1>12. ASSUME NEW l \in Live, UnloadForPressure(l) PROVE CountKept
    BY <1>12
      DEF CountKept, Deciding, LockInv, CheckPoints, TypeOK, Procs, UnloadForPressure,
          Goto, noticeVars, hostVars, history
  <1>13. ASSUME NEW l \in Live, StopRetrying(l) PROVE CountKept
    BY <1>13
      DEF CountKept, Deciding, LockInv, CheckPoints, TypeOK, Procs, StopRetrying, Goto,
          noticeVars, hostVars, history
  <1>14. ASSUME NEW l \in Live, Close(l) PROVE CountKept
    BY <1>14
      DEF CountKept, Deciding, LockInv, CheckPoints, TypeOK, Procs, Close, Goto,
          noticeVars, hostVars, history
  <1>15. ASSUME NEW l \in Live, ReleaseLive(l) PROVE CountKept
    BY <1>15
      DEF CountKept, Deciding, LockInv, CheckPoints, TypeOK, Procs, ReleaseLive,
          AfterRelease, RemoveReservation, Goto, noticeVars, hostVars
  <1>16. ASSUME NEW l \in Live, WithdrawNotice(l) PROVE CountKept
    BY <1>16
      DEF CountKept, Deciding, LockInv, CheckPoints, TypeOK, Procs, WithdrawNotice,
          Withdraw, Goto, hostVars, history
  <1>17. ASSUME NEW l \in Live, PostReloadNotice(l) PROVE CountKept
    BY <1>17
      DEF CountKept, Deciding, LockInv, CheckPoints, TypeOK, Procs, PostReloadNotice,
          Post, Goto, hostVars, history, Posted
  <1>18. ASSUME NEW l \in Live, Tick(l) PROVE CountKept
    BY <1>18
      DEF CountKept, Deciding, LockInv, CheckPoints, TypeOK, Procs, Tick, Running,
          Withdraw, hostVars, history
  <1>19. ASSUME NEW l \in Live, NoticeAges(l) PROVE CountKept
    BY <1>19
      DEF CountKept, Deciding, LockInv, CheckPoints, TypeOK, Procs, NoticeAges, Posted,
          hostVars, history
  <1>20. ASSUME NEW l \in Live, RefusalLapses(l) PROVE CountKept
    BY <1>20
      DEF CountKept, Deciding, LockInv, CheckPoints, TypeOK, Procs, RefusalLapses,
          hostVars, history
  <1>21. ASSUME NEW l \in Live, Exit(l) PROVE CountKept
    BY <1>21
      DEF CountKept, Deciding, LockInv, CheckPoints, TypeOK, Procs, Exit, Dies, Goto
  <1>22. ASSUME NEW b \in Background, TakeHeavyLock(b) PROVE CountKept
    BY <1>22
      DEF CountKept, Deciding, LockInv, CheckPoints, TypeOK, Procs, TakeHeavyLock,
          Goto, noticeVars, history
  <1>23. ASSUME NEW b \in Background, PassGate(b) PROVE CountKept
    BY <1>23
      DEF CountKept, Deciding, LockInv, CheckPoints, TypeOK, Procs, PassGate, Goto,
          noticeVars, hostVars, history
  <1>24. ASSUME NEW b \in Background, LeaveGate(b) PROVE CountKept
    BY <1>24
      DEF CountKept, Deciding, LockInv, CheckPoints, TypeOK, Procs, LeaveGate, Goto,
          noticeVars, hostVars, history
  <1>25. ASSUME NEW b \in Background, ReadNotices(b) PROVE CountKept
    BY <1>25
      DEF CountKept, Deciding, LockInv, CheckPoints, TypeOK, Procs, ReadNotices,
          PostedNotices, Goto, noticeVars, hostVars, history, Posted
  <1>26. ASSUME NEW b \in Background, AdmitBackground(b) PROVE CountKept
    BY <1>26
      DEF CountKept, Deciding, LockInv, CheckPoints, TypeOK, Procs, AdmitBackground,
          Reservation, LeaveCheck, Goto, noticeVars, NothingRead
  <1>27. ASSUME NEW b \in Background, RefuseBackground(b) PROVE CountKept
    BY <1>27
      DEF CountKept, Deciding, LockInv, CheckPoints, TypeOK, Procs, RefuseBackground,
          LeaveCheck, Goto, noticeVars, history, NothingRead
  <1>28. ASSUME NEW b \in Background, AskAgain(b) PROVE CountKept
    BY <1>28
      DEF CountKept, Deciding, LockInv, CheckPoints, TypeOK, Procs, AskAgain, Goto,
          noticeVars, hostVars, history
  <1>29. ASSUME NEW b \in Background, Defer(b) PROVE CountKept
    BY <1>29
      DEF CountKept, Deciding, LockInv, CheckPoints, TypeOK, Procs, Defer, Goto,
          noticeVars, hostVars, history
  <1>30. ASSUME NEW b \in Background, StopForLiveServer(b) PROVE CountKept
    BY <1>30
      DEF CountKept, Deciding, LockInv, CheckPoints, TypeOK, Procs, StopForLiveServer,
          PostedNotices, Goto, EndOfWork, noticeVars, hostVars, history, Posted
  <1>31. ASSUME NEW b \in Background, EndWork(b) PROVE CountKept
    BY <1>31
      DEF CountKept, Deciding, LockInv, CheckPoints, TypeOK, Procs, EndWork, Goto,
          EndOfWork, noticeVars, hostVars, history
  <1>32. ASSUME NEW b \in Background, EndStep(b) PROVE CountKept
    BY <1>32
      DEF CountKept, Deciding, LockInv, CheckPoints, TypeOK, Procs, EndStep, Goto,
          noticeVars, hostVars, history
  <1>33. ASSUME NEW b \in Background, ReleaseStep(b) PROVE CountKept
    BY <1>33
      DEF CountKept, Deciding, LockInv, CheckPoints, TypeOK, Procs, ReleaseStep,
          RemoveReservation, NoLongerPast, Goto, noticeVars, hostVars
  <1>34. ASSUME NEW b \in Background, ReleaseBackground(b) PROVE CountKept
    BY <1>34
      DEF CountKept, Deciding, LockInv, CheckPoints, TypeOK, Procs, ReleaseBackground,
          RemoveReservation, Goto, noticeVars, hostVars
  <1>35. ASSUME NEW b \in Background, ReleaseHeavyLock(b) PROVE CountKept
    BY <1>35
      DEF CountKept, Deciding, LockInv, CheckPoints, TypeOK, Procs, ReleaseHeavyLock,
          Goto, noticeVars, history
  <1>36. ASSUME NEW b \in Background, LeaveHost(b) PROVE CountKept
    BY <1>36
      DEF CountKept, Deciding, LockInv, CheckPoints, TypeOK, Procs, LeaveHost,
          NoLongerPast, Goto, noticeVars, hostVars
  <1>37. CASE UNCHANGED vars
    BY <1>37
      DEF vars, hostVars, noticeVars, history, CountKept, Deciding, LockInv,
          CheckPoints, TypeOK, Procs
  <1> QED
    BY <1>1, <1>2, <1>3, <1>4, <1>5, <1>6, <1>7, <1>8, <1>9, <1>10, <1>11, <1>12,
       <1>13, <1>14, <1>15, <1>16, <1>17, <1>18, <1>19, <1>20, <1>21, <1>22, <1>23,
       <1>24, <1>25, <1>26, <1>27, <1>28, <1>29, <1>30, <1>31, <1>32, <1>33, <1>34,
       <1>35, <1>36, <1>37
      DEF Next, Check, LiveNext, BackgroundNext

\* The same of the measured amount, and memory grows by what drift counts.
LEMMA MeasureStep ==
    TypeOK /\ LockInv /\ [Next]_vars => MeasureKept
  <1> SUFFICES ASSUME TypeOK, LockInv, [Next]_vars PROVE MeasureKept
    OBVIOUS
  <1> USE ProcsAssumption
  <1>1. ASSUME NEW p \in Procs, TakeAdmissionLock(p) PROVE MeasureKept
    BY <1>1
      DEF MeasureKept, Loaded, LockInv, CheckPoints, TypeOK, Procs, TakeAdmissionLock,
          Goto, noticeVars, hostVars, history
  <1>2. ASSUME NEW p \in Procs, Measure(p) PROVE MeasureKept
    BY <1>2
      DEF MeasureKept, Loaded, LockInv, CheckPoints, TypeOK, Procs, Measure,
          NothingRead, Goto, noticeVars, history
  <1>3. ASSUME NEW p \in Procs, CountOthers(p) PROVE MeasureKept
    BY <1>3
      DEF MeasureKept, Loaded, LockInv, CheckPoints, TypeOK, Procs, CountOthers,
          Running, Goto, noticeVars, history
  <1>4. ASSUME NEW p \in Procs, CheckFails(p) PROVE MeasureKept
    BY <1>4
      DEF MeasureKept, Loaded, LockInv, CheckPoints, TypeOK, Procs, CheckFails,
          LeaveCheck, Goto, history, NothingRead
  <1>5. ASSUME NEW p \in Procs, Load(p) PROVE MeasureKept
    BY <1>5
      DEF MeasureKept, Loaded, LockInv, CheckPoints, TypeOK, Procs, Load, Measuring,
          noticeVars, history
  <1>6. ASSUME NEW p \in Procs, Crash(p) PROVE MeasureKept
    BY <1>6
      DEF MeasureKept, Loaded, LockInv, CheckPoints, TypeOK, Procs, Crash, Running,
          Dies, LeaveCheck, Goto, NothingRead
  <1>7. ASSUME NEW p \in Procs, Restart(p) PROVE MeasureKept
    BY <1>7
      DEF MeasureKept, Loaded, LockInv, CheckPoints, TypeOK, Procs, Restart, Goto,
          noticeVars, hostVars, history
  <1>8. ASSUME NEW l \in Live, StartLiveCheck(l) PROVE MeasureKept
    BY <1>8
      DEF MeasureKept, Loaded, LockInv, CheckPoints, TypeOK, Procs, StartLiveCheck,
          Goto, Posted, noticeVars, hostVars, history
  <1>9. ASSUME NEW l \in Live, AdmitLive(l) PROVE MeasureKept
    BY <1>9
      DEF MeasureKept, Loaded, LockInv, CheckPoints, TypeOK, Procs, AdmitLive,
          Reservation, Settle, LeaveCheck, Goto, Post, Withdraw, NothingRead, Posted
  <1>10. ASSUME NEW l \in Live, RefuseLive(l) PROVE MeasureKept
    BY <1>10
      DEF MeasureKept, Loaded, LockInv, CheckPoints, TypeOK, Procs, RefuseLive, Settle,
          LeaveCheck, Goto, history, Post, Withdraw, NothingRead, Posted
  <1>11. ASSUME NEW l \in Live, UnloadIdle(l) PROVE MeasureKept
    BY <1>11
      DEF MeasureKept, Loaded, LockInv, CheckPoints, TypeOK, Procs, UnloadIdle, Goto,
          noticeVars, hostVars, history
  <1>12. ASSUME NEW l \in Live, UnloadForPressure(l) PROVE MeasureKept
    BY <1>12
      DEF MeasureKept, Loaded, LockInv, CheckPoints, TypeOK, Procs, UnloadForPressure,
          Goto, noticeVars, hostVars, history
  <1>13. ASSUME NEW l \in Live, StopRetrying(l) PROVE MeasureKept
    BY <1>13
      DEF MeasureKept, Loaded, LockInv, CheckPoints, TypeOK, Procs, StopRetrying, Goto,
          noticeVars, hostVars, history
  <1>14. ASSUME NEW l \in Live, Close(l) PROVE MeasureKept
    BY <1>14
      DEF MeasureKept, Loaded, LockInv, CheckPoints, TypeOK, Procs, Close, Goto,
          noticeVars, hostVars, history
  <1>15. ASSUME NEW l \in Live, ReleaseLive(l) PROVE MeasureKept
    BY <1>15
      DEF MeasureKept, Loaded, LockInv, CheckPoints, TypeOK, Procs, ReleaseLive,
          AfterRelease, RemoveReservation, Goto, noticeVars, hostVars
  <1>16. ASSUME NEW l \in Live, WithdrawNotice(l) PROVE MeasureKept
    BY <1>16
      DEF MeasureKept, Loaded, LockInv, CheckPoints, TypeOK, Procs, WithdrawNotice,
          Withdraw, Goto, hostVars, history
  <1>17. ASSUME NEW l \in Live, PostReloadNotice(l) PROVE MeasureKept
    BY <1>17
      DEF MeasureKept, Loaded, LockInv, CheckPoints, TypeOK, Procs, PostReloadNotice,
          Post, Goto, hostVars, history, Posted
  <1>18. ASSUME NEW l \in Live, Tick(l) PROVE MeasureKept
    BY <1>18
      DEF MeasureKept, Loaded, LockInv, CheckPoints, TypeOK, Procs, Tick, Running,
          Withdraw, hostVars, history
  <1>19. ASSUME NEW l \in Live, NoticeAges(l) PROVE MeasureKept
    BY <1>19
      DEF MeasureKept, Loaded, LockInv, CheckPoints, TypeOK, Procs, NoticeAges, Posted,
          hostVars, history
  <1>20. ASSUME NEW l \in Live, RefusalLapses(l) PROVE MeasureKept
    BY <1>20
      DEF MeasureKept, Loaded, LockInv, CheckPoints, TypeOK, Procs, RefusalLapses,
          hostVars, history
  <1>21. ASSUME NEW l \in Live, Exit(l) PROVE MeasureKept
    BY <1>21
      DEF MeasureKept, Loaded, LockInv, CheckPoints, TypeOK, Procs, Exit, Dies, Goto
  <1>22. ASSUME NEW b \in Background, TakeHeavyLock(b) PROVE MeasureKept
    BY <1>22
      DEF MeasureKept, Loaded, LockInv, CheckPoints, TypeOK, Procs, TakeHeavyLock,
          Goto, noticeVars, history
  <1>23. ASSUME NEW b \in Background, PassGate(b) PROVE MeasureKept
    BY <1>23
      DEF MeasureKept, Loaded, LockInv, CheckPoints, TypeOK, Procs, PassGate, Goto,
          noticeVars, hostVars, history
  <1>24. ASSUME NEW b \in Background, LeaveGate(b) PROVE MeasureKept
    BY <1>24
      DEF MeasureKept, Loaded, LockInv, CheckPoints, TypeOK, Procs, LeaveGate, Goto,
          noticeVars, hostVars, history
  <1>25. ASSUME NEW b \in Background, ReadNotices(b) PROVE MeasureKept
    BY <1>25
      DEF MeasureKept, Loaded, LockInv, CheckPoints, TypeOK, Procs, ReadNotices,
          PostedNotices, Goto, noticeVars, hostVars, history, Posted
  <1>26. ASSUME NEW b \in Background, AdmitBackground(b) PROVE MeasureKept
    BY <1>26
      DEF MeasureKept, Loaded, LockInv, CheckPoints, TypeOK, Procs, AdmitBackground,
          Reservation, LeaveCheck, Goto, noticeVars, NothingRead
  <1>27. ASSUME NEW b \in Background, RefuseBackground(b) PROVE MeasureKept
    BY <1>27
      DEF MeasureKept, Loaded, LockInv, CheckPoints, TypeOK, Procs, RefuseBackground,
          LeaveCheck, Goto, noticeVars, history, NothingRead
  <1>28. ASSUME NEW b \in Background, AskAgain(b) PROVE MeasureKept
    BY <1>28
      DEF MeasureKept, Loaded, LockInv, CheckPoints, TypeOK, Procs, AskAgain, Goto,
          noticeVars, hostVars, history
  <1>29. ASSUME NEW b \in Background, Defer(b) PROVE MeasureKept
    BY <1>29
      DEF MeasureKept, Loaded, LockInv, CheckPoints, TypeOK, Procs, Defer, Goto,
          noticeVars, hostVars, history
  <1>30. ASSUME NEW b \in Background, StopForLiveServer(b) PROVE MeasureKept
    BY <1>30
      DEF MeasureKept, Loaded, LockInv, CheckPoints, TypeOK, Procs, StopForLiveServer,
          PostedNotices, Goto, EndOfWork, noticeVars, hostVars, history, Posted
  <1>31. ASSUME NEW b \in Background, EndWork(b) PROVE MeasureKept
    BY <1>31
      DEF MeasureKept, Loaded, LockInv, CheckPoints, TypeOK, Procs, EndWork, Goto,
          EndOfWork, noticeVars, hostVars, history
  <1>32. ASSUME NEW b \in Background, EndStep(b) PROVE MeasureKept
    BY <1>32
      DEF MeasureKept, Loaded, LockInv, CheckPoints, TypeOK, Procs, EndStep, Goto,
          noticeVars, hostVars, history
  <1>33. ASSUME NEW b \in Background, ReleaseStep(b) PROVE MeasureKept
    BY <1>33
      DEF MeasureKept, Loaded, LockInv, CheckPoints, TypeOK, Procs, ReleaseStep,
          RemoveReservation, NoLongerPast, Goto, noticeVars, hostVars
  <1>34. ASSUME NEW b \in Background, ReleaseBackground(b) PROVE MeasureKept
    BY <1>34
      DEF MeasureKept, Loaded, LockInv, CheckPoints, TypeOK, Procs, ReleaseBackground,
          RemoveReservation, Goto, noticeVars, hostVars
  <1>35. ASSUME NEW b \in Background, ReleaseHeavyLock(b) PROVE MeasureKept
    BY <1>35
      DEF MeasureKept, Loaded, LockInv, CheckPoints, TypeOK, Procs, ReleaseHeavyLock,
          Goto, noticeVars, history
  <1>36. ASSUME NEW b \in Background, LeaveHost(b) PROVE MeasureKept
    BY <1>36
      DEF MeasureKept, Loaded, LockInv, CheckPoints, TypeOK, Procs, LeaveHost,
          NoLongerPast, Goto, noticeVars, hostVars
  <1>37. CASE UNCHANGED vars
    BY <1>37
      DEF vars, hostVars, noticeVars, history, MeasureKept, Loaded, LockInv,
          CheckPoints, TypeOK, Procs
  <1> QED
    BY <1>1, <1>2, <1>3, <1>4, <1>5, <1>6, <1>7, <1>8, <1>9, <1>10, <1>11, <1>12,
       <1>13, <1>14, <1>15, <1>16, <1>17, <1>18, <1>19, <1>20, <1>21, <1>22, <1>23,
       <1>24, <1>25, <1>26, <1>27, <1>28, <1>29, <1>30, <1>31, <1>32, <1>33, <1>34,
       <1>35, <1>36, <1>37
      DEF Next, Check, LiveNext, BackgroundNext

----------------------------------------------------------------------------
(* The invariant.                                                          *)

\* What was measured is worth what the host still has and the growth.
LEMMA MeasuredStep ==
    ASSUME TypeOK, LockInv, MeasuredInv, [Next]_vars
    PROVE  MeasuredInv'
  <1> SUFFICES ASSUME NEW p \in Procs, pc'[p] = "measured"
               PROVE  look'.avail <= Available' + drift'
    BY DEF MeasuredInv
  <1> USE DEF TypeOK
  <1>1. TypeOK'
    BY TypeStep
  <1>2. Available \in Int /\ (Available \in Int)'
    BY <1>1, AvailableType, PTL
  <1>3. /\ look.avail \in Int
        /\ drift \in Int
        /\ \A q \in Procs : held[q] \in Nat
        /\ \A q \in Procs : held'[q] \in Nat
    BY <1>1
  <1>4. /\ Available = Total - Units(held, Procs)
        /\ Available' = Total - Units(held', Procs)
        /\ Units(held, Procs) \in Nat
        /\ Units(held', Procs) \in Nat
        /\ Total \in Int
    BY <1>3, MemoryAssumption, ProcsFinite, UnitsType DEF Available
  <1>5. CASE Measure(p)
    <2>1. look'.avail = Available /\ held' = held /\ drift' = 0
      BY <1>5 DEF Measure, NothingRead
    <2>2. Available' = Available
      BY <2>1, <1>4
    <2> QED
      BY <2>1, <2>2, <1>2
  <1>6. ASSUME pc[p] = "measured", look' = look, drift' = drift,
               \A q \in Procs : held'[q] <= held[q]
        PROVE  look'.avail <= Available' + drift'
    <2>1. Units(held', Procs) <= Units(held, Procs)
      BY <1>3, <1>6, ProcsFinite, UnitsMonotone
    <2>2. look.avail <= Available + drift
      BY <1>6 DEF MeasuredInv
    <2> HIDE DEF TypeOK
    <2> QED
      BY <2>1, <2>2, <1>2, <1>3, <1>4, <1>6
  <1>7. ASSUME pc[p] = "measured", look' = look, NEW q \in Procs, Loaded(q)
        PROVE  look'.avail <= Available' + drift'
    <2> DEFINE one == [x \in {q} |-> 1]
    <2>1. /\ \A x \in Procs : held'[x] <= held[x] \/ (x \in {q} /\ held'[x] <= held[x] + one[x])
          /\ \A x \in {q} : one[x] \in Nat
          /\ one[q] = 1
      BY <1>3, <1>7 DEF Loaded
    <2>2. IsFiniteSet({q})
      BY FS_Singleton
    <2> HIDE DEF one
    <2>3. Units(one, {q}) = 1
      BY <2>1, UnitsOne
    <2>4. Units(held', Procs) <= Units(held, Procs) + Units(one, {q})
      BY <1>3, <2>1, <2>2, ProcsFinite, UnitsSplit
    <2>5. look.avail <= Available + drift /\ drift' = drift + 1
      BY <1>7 DEF MeasuredInv, Loaded
    <2> HIDE DEF TypeOK
    <2> QED
      BY <2>3, <2>4, <2>5, <1>2, <1>3, <1>4, <1>7
  <1> QED
    BY <1>5, <1>6, <1>7, MeasureStep DEF MeasureKept

\* Counting the others turns what was measured into what they may claim.
LEMMA CountedHere ==
    ASSUME IInv, GrantInv, MeasuredInv, [Next]_vars, ClaimsFall,
           NEW p \in Procs, CountOthers(p),
           NEW S \in SUBSET (Procs \ {p}),
           S \cap {b \in look'.aside : HasClaim(b)'} = {}
    PROVE  Units(Claim', S) + look'.avail <= Total + look'.promised + Drift
  <1>1. TypeOK /\ TypeOK'
    BY StepInv DEF IInv
  <1>2. ClaimOK /\ ClaimOK'
    BY <1>1, GrantStep, ClaimFacts, PTL
  <1>3. PICK unread \in SUBSET Others(p) :
            /\ look'.avail = look.avail
            /\ look'.aside = SetAside(p, unread)
            /\ look'.promised = Units(Promised(unread), Others(p) \ SetAside(p, unread))
    BY <1>1 DEF CountOthers, TypeOK
  <1> DEFINE T == Others(p) \ SetAside(p, unread)
  <1>4. S \cap SetAside(p, unread) = {}
    <2>1. ASSUME NEW b \in SetAside(p, unread) PROVE HasClaim(b)'
      BY <1>1 DEF SetAside, Others, HasClaim, Running, CountOthers, Goto, TypeOK, Procs
    <2> QED
      BY <1>3, <2>1
  <1>5. ASSUME NEW q \in S
        PROVE  \/ Claim[q] <= held[q]
               \/ q \in T /\ Claim[q] <= held[q] + Promised(unread)[q]
    <2>1. CASE Granted(q)
      <3>1. q \in T
        BY <2>1, <1>4 DEF Granted, Others
      <3>2. held[q] \in Nat /\ Footprint[q] \in Nat /\ Claim[q] = Footprint[q]
        BY <1>1, <2>1, MemoryAssumption DEF TypeOK, Claim, Procs
      <3>3. Promised(unread)[q] = Footprint[q] - (IF q \in unread THEN 0 ELSE held[q])
        BY DEF Promised
      <3> QED
        BY <3>1, <3>2, <3>3
    <2>2. CASE ~Granted(q)
      BY <1>1, <2>2 DEF Claim, TypeOK
    <2> QED
      BY <2>1, <2>2
  <1>6. /\ S \in SUBSET Procs
        /\ T \in SUBSET Procs
        /\ IsFiniteSet(T)
    BY ProcsFinite DEF Others
  <1>7. /\ \A q \in Procs : held[q] \in Nat
        /\ \A q \in T : Promised(unread)[q] \in Nat
        /\ \A q \in S : Claim[q] \in Nat /\ Claim'[q] \in Nat /\ Claim'[q] <= Claim[q]
    <2>1. \A q \in Procs : held[q] \in Nat /\ Footprint[q] \in Nat /\ held[q] <= Footprint[q]
      BY <1>1, MemoryAssumption DEF TypeOK, Procs
    <2>2. \A q \in Procs : Promised(unread)[q] \in Nat
      BY <2>1 DEF Promised
    <2>3. \A q \in Procs : Claim[q] \in Nat /\ Claim'[q] \in Nat
      BY <1>2 DEF ClaimOK
    <2>4. \A q \in Procs : Claim'[q] <= Claim[q]
      BY DEF ClaimsFall
    <2> HIDE DEF T
    <2> QED
      BY <1>6, <2>1, <2>2, <2>3, <2>4
  <1>8. Units(Claim', S) <= Units(Claim, S)
    BY <1>6, <1>7, ProcsFinite, UnitsMonotone
  <1>9. Units(Claim, S) <= Units(held, Procs) + Units(Promised(unread), T)
    <2> HIDE DEF T
    <2> QED
      BY <1>5, <1>6, <1>7, ProcsFinite, UnitsSplit
  <1>10. look.avail <= Available + drift
    BY DEF MeasuredInv, CountOthers
  <1>11. /\ Units(Claim', S) \in Nat
         /\ Units(Claim, S) \in Nat
         /\ Units(held, Procs) \in Nat
         /\ Units(Promised(unread), T) \in Nat
    <2>1. \A q \in Procs : held[q] \in Int
      BY <1>7
    <2>2. Units(Claim', S) \in Nat /\ Units(Claim, S) \in Nat
      BY <1>2, <1>6 DEF ClaimOK
    <2> QED
      BY <1>1, <1>6, <2>1, <2>2, ProcsFinite, UnitsType, PromisedType
  <1>12. /\ Total \in Int /\ Drift \in Int /\ look.avail \in Int
         /\ drift \in Int /\ drift <= Drift
    BY <1>1, MemoryAssumption DEF TypeOK
  <1>13. Available = Total - Units(held, Procs)
    BY DEF Available
  <1>14. look'.promised = Units(Promised(unread), T)
    BY <1>3
  <1> HIDE DEF T
  <1> QED
    BY <1>3, <1>8, <1>9, <1>10, <1>11, <1>12, <1>13, <1>14

\* The processes of a group that still have a claim claim as much as the group.
LEMMA ClaimantsOnly ==
    ASSUME ClaimOK, ClaimOK', ClaimsFall, NEW S \in SUBSET Procs
    PROVE  Units(Claim', S) <= Units(Claim, {q \in S : Claim'[q] # 0})
  <1> DEFINE T == {q \in S : Claim'[q] # 0}
  <1>1. \A q \in Procs : Claim[q] \in Nat /\ Claim'[q] \in Nat
    BY DEF ClaimOK
  <1>2. \A q \in Procs : Claim'[q] <= Claim[q]
    BY DEF ClaimsFall
  <1>3. Units(Claim', S) = Units(Claim', T)
    BY <1>1, UnitsSupport
  <1>4. T \in SUBSET Procs /\ IsFiniteSet(T)
    BY ProcsFinite
  <1> HIDE DEF T
  <1>5. Units(Claim', T) <= Units(Claim, T)
    BY <1>1, <1>2, <1>4, UnitsMonotone
  <1> QED
    BY <1>3, <1>5 DEF T

\* What was counted stays enough for the claims of the others.
LEMMA CountedStep ==
    ASSUME IInv, GrantInv, MeasuredInv, CountedInv, [Next]_vars
    PROVE  CountedInv'
  <1>1. TypeOK /\ TypeOK' /\ LockInv /\ BackgroundClaimInv
    BY StepInv DEF IInv
  <1>2. ClaimOK /\ ClaimOK'
    BY <1>1, GrantStep, ClaimFacts, PTL
  <1> SUFFICES ASSUME NEW p \in Procs, pc'[p] \in Deciding
               PROVE  /\ p \in Background => look'.aside = {}
                      /\ \A S \in SUBSET (Procs \ {p}) :
                             S \cap {b \in look'.aside : HasClaim(b)'} = {} =>
                                 Units(Claim', S) + look'.avail <= Total + look'.promised + Drift
    BY DEF CountedInv
  <1>3. ClaimsFall
    <2>1. ASSUME NEW q \in Procs, pc[q] \in Deciding, pc'[q] \notin Deciding,
                 \A r \in Procs : r # q => pc'[r] = pc[r]
          PROVE  FALSE
      BY <1>1, <2>1 DEF LockInv, CheckPoints, Deciding
    <2>2. ASSUME NEW l \in Live, AdmitLive(l) PROVE FALSE
      BY <1>1, <2>1, <2>2 DEF AdmitLive, Goto, TypeOK, Deciding, Procs
    <2>3. ASSUME NEW b \in Background, AdmitBackground(b) PROVE FALSE
      BY <1>1, <2>1, <2>3 DEF AdmitBackground, Goto, TypeOK, Deciding, Procs
    <2> QED
      BY <1>1, <2>2, <2>3, ClaimsStep DEF Admission
  <1>4. CASE CountOthers(p)
    <2>1. p \in Background => look'.aside = {}
      <3>1. PICK unread \in SUBSET Others(p) : look'.aside = SetAside(p, unread)
        BY <1>1, <1>4 DEF CountOthers, TypeOK
      <3> QED
        BY <3>1, ProcsAssumption DEF SetAside
    <2> QED
      BY <1>3, <1>4, <2>1, CountedHere
  <1>5. CASE /\ pc[p] \in Deciding
             /\ look'.avail = look.avail
             /\ look'.promised = look.promised
             /\ look'.aside = look.aside
    <2>1. p \in Background => look'.aside = {}
      BY <1>5 DEF CountedInv
    <2>2. ASSUME NEW S \in SUBSET (Procs \ {p}),
                 S \cap {b \in look'.aside : HasClaim(b)'} = {}
          PROVE  Units(Claim', S) + look'.avail <= Total + look'.promised + Drift
      <3> DEFINE T == {q \in S : Claim'[q] # 0}
      <3>1. Units(Claim', S) <= Units(Claim, T)
        BY <1>2, <1>3, ClaimantsOnly
      <3>2. \A q \in Procs : Claim'[q] # 0 => HasClaim(q)'
        BY <1>2 DEF ClaimOK
      <3>3. T \in SUBSET (Procs \ {p}) /\ T \cap {b \in look.aside : HasClaim(b)} = {}
        BY <1>5, <2>2, <3>2
      <3>4. Units(Claim, T) \in Nat /\ Units(Claim', S) \in Nat
        BY <1>2, <3>3 DEF ClaimOK
      <3> HIDE DEF T
      <3>5. Units(Claim, T) + look.avail <= Total + look.promised + Drift
        BY <1>5, <3>3 DEF CountedInv
      <3>6. look.avail \in Int /\ look.promised \in Int /\ Total \in Int /\ Drift \in Int
        BY <1>1, MemoryAssumption DEF TypeOK
      <3> QED
        BY <1>5, <3>1, <3>4, <3>5, <3>6
    <2> QED
      BY <2>1, <2>2
  <1> QED
    BY <1>1, <1>4, <1>5, CountStep DEF CountKept

\* An admission leaves room for everyone who was counted.
LEMMA AdmissionRoom ==
    ASSUME IInv, GrantInv, CountedInv, RoomInv, [Next]_vars,
           NEW p \in Procs, pc[p] \in Deciding, Admits(p),
           Claim'[p] = Footprint[p],
           \A q \in Procs \ {p} : Claim'[q] = Claim[q],
           \A l \in Live \ {p} : past'[l] = past[l],
           p \in Live => past'[p] = {b \in look.aside : HasClaim(b)}
    PROVE  RoomInv'
  <1>1. TypeOK /\ TypeOK'
    BY StepInv DEF IInv
  <1>2. ClaimOK /\ ClaimOK'
    BY <1>1, GrantStep, ClaimFacts, PTL
  <1>3. \A q \in Procs : Claim[q] \in Nat /\ Claim'[q] \in Nat
    BY <1>2 DEF ClaimOK
  <1>4. /\ look.avail \in Int /\ look.promised \in Int /\ Footprint[p] \in Nat
        /\ Total \in Int /\ Drift \in Int /\ Reserve \in Int
    BY <1>1, MemoryAssumption DEF TypeOK, Procs
  <1> SUFFICES ASSUME NEW S \in SUBSET Procs, PastFree(S)', Units(Claim', S) > 0
               PROVE  Units(Claim', S) + Reserve <= Total + Drift
    BY DEF RoomInv
  <1>5. CASE p \in S
    <2> DEFINE T == S \ {p}
    <2>1. T \in SUBSET (Procs \ {p}) /\ p \notin T /\ T \cup {p} = S /\ IsFiniteSet(T)
      BY <1>5, ProcsFinite
    <2>2. T \cap {b \in look.aside : HasClaim(b)} = {}
      <3>1. CASE p \in Live
        BY <1>5, <3>1 DEF PastFree
      <3>2. CASE p \in Background
        BY <3>2 DEF CountedInv
      <3> QED
        BY <3>1, <3>2 DEF Procs
    <2> HIDE DEF T
    <2>3. Units(Claim', T \cup {p}) = Units(Claim', T) + Claim'[p]
      <3>1. \A q \in T : Claim'[q] \in Int
        BY <1>3, <2>1
      <3> QED
        BY <1>4, <2>1, <3>1, UnitsAdd
    <2>4. Units(Claim', T) <= Units(Claim, T)
      BY <1>3, <2>1, UnitsMonotone
    <2>5. Units(Claim, T) + look.avail <= Total + look.promised + Drift
      BY <2>1, <2>2 DEF CountedInv
    <2>6. look.avail - look.promised >= Footprint[p] + Reserve
      BY DEF Admits
    <2>7. Units(Claim, T) \in Nat /\ Units(Claim', T) \in Nat
      BY <1>2, <2>1 DEF ClaimOK
    <2>8. Units(Claim', S) = Units(Claim', T) + Footprint[p]
      BY <2>1, <2>3
    <2> QED
      BY <1>4, <2>4, <2>5, <2>6, <2>7, <2>8
  <1>6. CASE p \notin S
    <2>1. PastFree(S)
      BY <1>6 DEF PastFree
    <2>2. Units(Claim', S) <= Units(Claim, S)
      BY <1>3, <1>6, ProcsFinite, UnitsMonotone
    <2>3. Units(Claim, S) \in Nat /\ Units(Claim', S) \in Nat
      BY <1>2 DEF ClaimOK
    <2>4. Units(Claim, S) + Reserve <= Total + Drift
      BY <2>1, <2>2, <2>3 DEF RoomInv
    <2> QED
      BY <1>4, <2>2, <2>3, <2>4
  <1> QED
    BY <1>5, <1>6

\* The rule is kept: by an admission because the check found room, by any
\* other step because claims fall.
LEMMA RoomStep ==
    ASSUME IInv, GrantInv, CountedInv, RoomInv, [Next]_vars
    PROVE  RoomInv'
  <1>1. TypeOK /\ TypeOK' /\ BackgroundClaimInv
    BY StepInv DEF IInv
  <1>2. ClaimOK /\ ClaimOK'
    BY <1>1, GrantStep, ClaimFacts, PTL
  <1>3. ASSUME NEW l \in Live, AdmitLive(l) PROVE RoomInv'
    <2>1. l \in Procs /\ pc[l] \in Deciding /\ Admits(l)
      BY <1>3 DEF AdmitLive, Deciding, Procs
    <2>2. Claim'[l] = Footprint[l] /\ \A q \in Procs \ {l} : Claim'[q] = Claim[q]
      BY <1>1, <1>3 DEF AdmitLive, Reservation, Goto, Claim, Granted, Running, TypeOK, Procs
    <2>3. /\ \A k \in Live \ {l} : past'[k] = past[k]
          /\ past'[l] = {b \in look.aside : HasClaim(b)}
      BY <1>1, <1>3 DEF AdmitLive, TypeOK
    <2> QED
      BY <2>1, <2>2, <2>3, AdmissionRoom
  <1>4. ASSUME NEW b \in Background, AdmitBackground(b) PROVE RoomInv'
    <2>1. b \in Procs /\ b \notin Live /\ pc[b] \in Deciding /\ Admits(b)
      BY <1>4, ProcsAssumption DEF AdmitBackground, Deciding, Procs
    <2>2. Claim'[b] = Footprint[b] /\ \A q \in Procs \ {b} : Claim'[q] = Claim[q]
      BY <1>1, <1>4
        DEF AdmitBackground, Reservation, Goto, Claim, Granted, Running, TypeOK, Procs
    <2>3. past' = past
      BY <1>4 DEF AdmitBackground
    <2> QED
      BY <2>1, <2>2, <2>3, AdmissionRoom
  <1>5. CASE ClaimsFall
    <2> SUFFICES ASSUME NEW S \in SUBSET Procs, PastFree(S)', Units(Claim', S) > 0
                 PROVE  Units(Claim', S) + Reserve <= Total + Drift
      BY DEF RoomInv
    <2> DEFINE T == {q \in S : Claim'[q] # 0}
    <2>1. Units(Claim', S) <= Units(Claim, T)
      BY <1>2, <1>5, ClaimantsOnly
    <2>2. PastFree(T)
      BY <1>5 DEF PastFree, ClaimsFall
    <2>3. T \in SUBSET Procs
      OBVIOUS
    <2>4. Units(Claim, T) \in Nat /\ Units(Claim', S) \in Nat
      BY <1>2, <2>3 DEF ClaimOK
    <2> HIDE DEF T
    <2>5. Units(Claim, T) + Reserve <= Total + Drift
      BY <2>1, <2>2, <2>3, <2>4 DEF RoomInv
    <2>6. Total \in Int /\ Drift \in Int /\ Reserve \in Int
      BY MemoryAssumption
    <2> QED
      BY <2>1, <2>4, <2>5, <2>6
  <1> QED
    BY <1>1, <1>3, <1>4, <1>5, ClaimsStep DEF Admission

\* The initial state satisfies the invariant.
LEMMA InitRoom == Init => RoomIInv
  <1> SUFFICES ASSUME Init PROVE RoomIInv
    OBVIOUS
  <1>1. IInv
    BY InitInv
  <1>2. GrantInv /\ MeasuredInv /\ CountedInv
    BY DEF Init, GrantInv, MeasuredInv, CountedInv, Deciding, Procs
  <1>3. RoomInv
    <2> SUFFICES ASSUME NEW S \in SUBSET Procs PROVE ~(Units(Claim, S) > 0)
      BY DEF RoomInv
    <2>1. \A q \in S : Claim[q] = 0
      BY DEF Init, Claim, Granted, Procs
    <2>2. Units(Claim, S) = Units(Claim, {q \in S : Claim[q] # 0})
      BY <2>1, UnitsSupport
    <2>3. {q \in S : Claim[q] # 0} = {}
      BY <2>1
    <2>4. Units(Claim, {}) = 0
      <3>1. Cardinality({}) = 0
        BY FS_EmptySet
      <3>2. Cells(Claim, {}) = {}
        BY DEF Cells
      <3>3. Units(Claim, {}) = Cardinality(Cells(Claim, {}))
        BY DEF Units, Cells
      <3> QED
        BY <3>1, <3>2, <3>3
    <2> QED
      BY <2>2, <2>3, <2>4
  <1> QED
    BY <1>1, <1>2, <1>3 DEF RoomIInv

\* Every step keeps the invariant.
LEMMA StepRoom == RoomIInv /\ [Next]_vars => RoomIInv'
  <1> SUFFICES ASSUME RoomIInv, [Next]_vars PROVE RoomIInv'
    OBVIOUS
  <1>1. IInv /\ IInv' /\ TypeOK /\ LockInv /\ GrantInv
    BY StepInv DEF RoomIInv, IInv
  <1>2. GrantInv'
    BY <1>1, GrantStep
  <1>3. MeasuredInv'
    BY <1>1, MeasuredStep DEF RoomIInv
  <1>4. CountedInv'
    BY <1>1, CountedStep DEF RoomIInv
  <1>5. RoomInv'
    BY <1>1, RoomStep DEF RoomIInv
  <1> QED
    BY <1>1, <1>2, <1>3, <1>4, <1>5 DEF RoomIInv

----------------------------------------------------------------------------
(* The theorems.                                                           *)

\* The room invariant holds in every reachable state.
THEOREM RoomInductive == Spec => []RoomIInv
  BY InitRoom, StepRoom, PTL DEF Spec

\* What running processes hold or were promised leaves the reserve free, the
\* jobs a live server was admitted past aside.
THEOREM RoomForEveryClaim == Spec => []RoomForAll
  <1>1. RoomIInv => RoomForAll
    <2> SUFFICES ASSUME RoomIInv PROVE RoomForAll
      OBVIOUS
    <2>1. PastFree(Procs \ WentPast)
      BY DEF PastFree, WentPast
    <2>2. Procs \ WentPast \in SUBSET Procs
      OBVIOUS
    <2> HIDE DEF WentPast
    <2> QED
      BY <2>1, <2>2 DEF RoomIInv, RoomInv, RoomForAll
  <1> QED
    BY <1>1, RoomInductive, PTL

============================================================================
