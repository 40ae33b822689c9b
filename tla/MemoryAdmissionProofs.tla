----------------------- MODULE MemoryAdmissionProofs -----------------------
(***************************************************************************)
(* Proofs about MemoryAdmission, for every set of processes, every         *)
(* footprint and every amount of memory.                                   *)
(*                                                                         *)
(* IInv is inductive.  Its centre is the admission lock: LockInv says that *)
(* the process inside a check is the one that holds it, so what a check    *)
(* read about the others can only be overtaken by steps the lock does not  *)
(* cover, and those only take reservations and notices away (SeenInv,      *)
(* WaitInv).  The claim invariants tie reservations to program points, so  *)
(* that a job a server was admitted past is the same job for as long as it *)
(* is remembered (PastInv).                                                *)
(***************************************************************************)
EXTENDS MemoryAdmission, FiniteSetTheorems, TLAPS

\* Where a background command may hold memory or a reservation.
WorkPoints == {"unit", "stepping", "dropping", "unlocking", "leaving"}

LockInv == \A p \in Procs : pc[p] \in CheckPoints <=> lock = p

LiveClaimInv ==
    \A l \in Live : Granted(l) => pc[l] \in {"loaded", "idled", "pressed", "closing"}

BackgroundClaimInv ==
    \A b \in Background :
        /\ HasClaim(b) => pc[b] \in WorkPoints
        /\ pc[b] = "dead" => held[b] = 0
        /\ pc[b] = "stepping" => held[b] = 0
        /\ pc[b] = "leaving" => ~reserved[b]
        /\ pc[b] = "unlocking" /\ b \notin Batch => ~reserved[b]

\* Once the others are counted, no reservation appears that was not.
SeenInv ==
    \A p \in Procs : pc[p] \in {"counted", "noticed"} =>
        \A q \in Procs \ {p} : Granted(q) => q \in look.seen

\* Once no notice was read, no check posts one.
WaitInv ==
    \A b \in Background : pc[b] = "noticed" /\ look.waiting = {} =>
        \A l \in Live : ~PostedByCheck(l)

PastInv == \A l \in Live : \A b \in past[l] : pc[b] \in WorkPoints

IInv ==
    /\ TypeOK
    /\ LockInv
    /\ LiveClaimInv
    /\ BackgroundClaimInv
    /\ SeenInv
    /\ NoBlindPair
    /\ WaitInv
    /\ PastInv
    /\ PastNoticeStaysUp

----------------------------------------------------------------------------
(* Memory in units.                                                        *)

\* The units that Units counts.
Cells(amount, S) == UNION {{p} \X (1 .. amount[p]) : p \in S}

\* A unit is the process it belongs to and its number.
LEMMA CellsElements ==
    ASSUME NEW f, NEW S, NEW x
    PROVE  x \in Cells(f, S) <=>
               \E p \in S, i \in Int : i \in 1 .. f[p] /\ x = << p, i >>
  <1>1. ASSUME x \in Cells(f, S)
        PROVE  \E p \in S, i \in Int : i \in 1 .. f[p] /\ x = << p, i >>
    <2>1. PICK p \in S : x \in {p} \X (1 .. f[p])
      BY <1>1 DEF Cells
    <2> QED
      BY <2>1
  <1>2. ASSUME NEW p \in S, NEW i \in Int, i \in 1 .. f[p], x = << p, i >>
        PROVE  x \in Cells(f, S)
    <2>1. x \in {p} \X (1 .. f[p])
      BY <1>2
    <2> QED
      BY <2>1 DEF Cells
  <1> QED
    BY <1>1, <1>2

\* Finitely many processes account for finitely many units.
LEMMA CellsFinite ==
    ASSUME NEW S, IsFiniteSet(S), NEW f, \A p \in S : f[p] \in Int
    PROVE  IsFiniteSet(Cells(f, S))
  <1> DEFINE column == [p \in S |-> {p} \X (1 .. f[p])]
             columns == {{p} \X (1 .. f[p]) : p \in S}
  <1>1. column \in Surjection(S, columns)
    BY DEF Surjection
  <1>2. IsFiniteSet(columns)
    <2> HIDE DEF column, columns
    <2> QED
      BY <1>1, FS_Surjection
  <1>3. ASSUME NEW p \in S PROVE IsFiniteSet({p} \X (1 .. f[p]))
    <2>1. IsFiniteSet({p})
      BY FS_Singleton
    <2>2. f[p] \in Int
      OBVIOUS
    <2>3. IsFiniteSet(1 .. f[p])
      BY <2>2, FS_Interval
    <2> QED
      BY <2>1, <2>3, FS_Product
  <1>4. \A T \in columns : IsFiniteSet(T)
    BY <1>3
  <1>5. Cells(f, S) = UNION columns
    BY DEF Cells
  <1> HIDE DEF columns
  <1> QED
    BY <1>2, <1>4, <1>5, FS_UNION

\* Finitely many processes account for a natural number of units.
LEMMA UnitsType ==
    ASSUME NEW S, IsFiniteSet(S), NEW f, \A p \in S : f[p] \in Int
    PROVE  Units(f, S) \in Nat
  BY CellsFinite, FS_CardinalityType DEF Units, Cells

\* More processes with more each account for more.
LEMMA UnitsMonotone ==
    ASSUME NEW T, IsFiniteSet(T), NEW S \in SUBSET T,
           NEW f, \A p \in S : f[p] \in Int,
           NEW g, \A p \in T : g[p] \in Int,
           \A p \in S : f[p] <= g[p]
    PROVE  Units(f, S) <= Units(g, T)
  <1>1. Cells(f, S) \subseteq Cells(g, T)
    <2> SUFFICES ASSUME NEW x \in Cells(f, S) PROVE x \in Cells(g, T)
      OBVIOUS
    <2>1. PICK p \in S, i \in Int : i \in 1 .. f[p] /\ x = << p, i >>
      BY CellsElements
    <2>2. p \in T /\ i \in 1 .. g[p]
      BY <2>1
    <2> QED
      BY <2>1, <2>2, CellsElements
  <1>2. IsFiniteSet(Cells(g, T))
    BY CellsFinite
  <1> QED
    BY <1>1, <1>2, FS_Subset DEF Units, Cells

\* One more process accounts for its own amount.
LEMMA UnitsAdd ==
    ASSUME NEW S, IsFiniteSet(S), NEW p, p \notin S,
           NEW f, \A q \in S : f[q] \in Int, f[p] \in Nat
    PROVE  Units(f, S \cup {p}) = Units(f, S) + f[p]
  <1> DEFINE own == {p} \X (1 .. f[p])
  <1>1. IsFiniteSet(own) /\ Cardinality(own) = f[p]
    <2>1. IsFiniteSet({p}) /\ Cardinality({p}) = 1
      BY FS_Singleton
    <2>2. IsFiniteSet(1 .. f[p]) /\ Cardinality(1 .. f[p]) = f[p]
      BY FS_Interval
    <2>3. IsFiniteSet(own) /\ Cardinality(own) = 1 * f[p]
      BY <2>1, <2>2, FS_Product
    <2> QED
      BY <2>3
  <1>2. Cells(f, S \cup {p}) = Cells(f, S) \cup own
    BY DEF Cells
  <1>3. Cells(f, S) \cap own = {}
    <2> SUFFICES ASSUME NEW x \in Cells(f, S), x \in own PROVE FALSE
      OBVIOUS
    <2>1. PICK q \in S, i \in Int : i \in 1 .. f[q] /\ x = << q, i >>
      BY CellsElements
    <2> QED
      BY <2>1
  <1>4. IsFiniteSet(Cells(f, S)) /\ Cardinality(Cells(f, S)) \in Nat
    BY CellsFinite, FS_CardinalityType
  <1>5. Cardinality(Cells(f, S) \cap own) = 0
    BY <1>3, FS_EmptySet
  <1> HIDE DEF own
  <1>6. Cardinality(Cells(f, S) \cup own) =
            Cardinality(Cells(f, S)) + Cardinality(own) - Cardinality(Cells(f, S) \cap own)
    BY <1>1, <1>4, FS_Union
  <1>7. Cardinality(Cells(f, S) \cup own) = Cardinality(Cells(f, S)) + f[p]
    BY <1>1, <1>4, <1>5, <1>6
  <1>8. /\ Units(f, S \cup {p}) = Cardinality(Cells(f, S \cup {p}))
        /\ Units(f, S) = Cardinality(Cells(f, S))
    BY DEF Units, Cells
  <1> QED
    BY <1>2, <1>7, <1>8

\* Processes that account for nothing can be left out.
LEMMA UnitsSupport ==
    ASSUME NEW S, NEW f, \A p \in S : f[p] \in Nat
    PROVE  Units(f, S) = Units(f, {p \in S : f[p] # 0})
  <1> DEFINE T == {p \in S : f[p] # 0}
  <1>1. ASSUME NEW x PROVE x \in Cells(f, S) <=> x \in Cells(f, T)
    <2>1. ASSUME NEW p \in S, NEW i \in 1 .. f[p] PROVE p \in T
      OBVIOUS
    <2> HIDE DEF T
    <2>2. T \subseteq S
      BY DEF T
    <2> QED
      BY <2>1, <2>2, CellsElements
  <1>2. Cells(f, S) = Cells(f, T)
    BY <1>1
  <1> QED
    BY <1>2 DEF Units, Cells

\* What each process of S accounts for is split between g and, for those
\* of T, h: so are the units.
LEMMA UnitsSplit ==
    ASSUME NEW S, NEW U, IsFiniteSet(U), S \subseteq U,
           NEW T, IsFiniteSet(T),
           NEW f, \A p \in S : f[p] \in Nat,
           NEW g, \A p \in U : g[p] \in Nat,
           NEW h, \A p \in T : h[p] \in Nat,
           \A p \in S : f[p] <= g[p] \/ (p \in T /\ f[p] <= g[p] + h[p])
    PROVE  Units(f, S) <= Units(g, U) + Units(h, T)
  <1> DEFINE F == Cells(f, S)
             G == Cells(g, U)
             H == Cells(h, T)
             rest == F \ G
             shift == [x \in rest |-> << x[1], x[2] - g[x[1]] >>]
  <1>1. IsFiniteSet(S)
    BY FS_Subset
  <1>2. IsFiniteSet(F) /\ IsFiniteSet(G) /\ IsFiniteSet(H)
    BY <1>1, CellsFinite
  <1>3. ASSUME NEW x \in rest
        PROVE  \E p \in S, i \in Nat :
                   /\ x = << p, i >>
                   /\ g[p] < i
                   /\ << p, i - g[p] >> \in H
    <2>1. PICK p \in S, i \in Int : i \in 1 .. f[p] /\ x = << p, i >>
      BY CellsElements
    <2>2. p \in U /\ ~(i \in 1 .. g[p])
      BY <2>1, CellsElements
    <2>3. g[p] < i /\ i \in Nat
      BY <2>1, <2>2
    <2>4. p \in T /\ i - g[p] \in 1 .. h[p]
      BY <2>1, <2>2, <2>3
    <2> QED
      BY <2>1, <2>3, <2>4, CellsElements
  <1>4. shift \in Injection(rest, H)
    <2>1. ASSUME NEW x \in rest PROVE shift[x] \in H
      <3>1. PICK p \in S, i \in Nat : x = << p, i >> /\ << p, i - g[p] >> \in H
        BY <1>3
      <3>2. shift[x] = << p, i - g[p] >>
        BY <3>1
      <3> QED
        BY <3>1, <3>2
    <2>2. ASSUME NEW x \in rest, NEW y \in rest, shift[x] = shift[y] PROVE x = y
      <3>1. PICK p \in S, i \in Nat : x = << p, i >> /\ g[p] < i
        BY <1>3
      <3>2. PICK q \in S, j \in Nat : y = << q, j >> /\ g[q] < j
        BY <1>3
      <3>3. shift[x] = << p, i - g[p] >> /\ shift[y] = << q, j - g[q] >>
        BY <3>1, <3>2
      <3>4. p = q /\ i - g[p] = j - g[q]
        BY <3>3, <2>2
      <3>5. g[p] \in Nat
        OBVIOUS
      <3> QED
        BY <3>1, <3>2, <3>4, <3>5
    <2> QED
      BY <2>1, <2>2 DEF Injection, IsInjective
  <1>5. Cardinality(rest) <= Cardinality(H) /\ IsFiniteSet(rest)
    <2> HIDE DEF shift, rest, H
    <2> QED
      BY <1>2, <1>4, FS_Injection
  <1>6. IsFiniteSet(F \cap G) /\ Cardinality(F \cap G) <= Cardinality(G)
    BY <1>2, FS_Intersection
  <1>7. Cardinality(rest) = Cardinality(F) - Cardinality(F \cap G)
    BY <1>2, FS_Difference
  <1>8. /\ Cardinality(F) \in Nat /\ Cardinality(G) \in Nat /\ Cardinality(H) \in Nat
        /\ Cardinality(F \cap G) \in Nat /\ Cardinality(rest) \in Nat
    BY <1>2, <1>5, <1>6, FS_CardinalityType
  <1> HIDE DEF F, G, H, rest
  <1>9. Cardinality(F) <= Cardinality(G) + Cardinality(H)
    BY <1>5, <1>6, <1>7, <1>8
  <1> QED
    BY <1>9 DEF F, G, H, Units, Cells
----------------------------------------------------------------------------
(* Type correctness.                                                       *)

\* There are finitely many processes.
LEMMA ProcsFinite ==
    /\ IsFiniteSet(Procs)
    /\ \A S \in SUBSET Procs : IsFiniteSet(S)
  BY ProcsAssumption, FS_Subset DEF Procs

\* What a check reads of the host's memory is a number.
LEMMA AvailableType == TypeOK => Available \in Int
  <1> SUFFICES ASSUME TypeOK PROVE Available \in Int
    OBVIOUS
  <1>1. \A p \in Procs : held[p] \in Int
    BY DEF TypeOK
  <1>2. Units(held, Procs) \in Nat
    BY <1>1, ProcsFinite, UnitsType
  <1> QED
    BY <1>2, MemoryAssumption DEF Available

\* So is what it counts as promised.
LEMMA PromisedType ==
    ASSUME TypeOK, NEW S \in SUBSET Procs, NEW unread
    PROVE  Units(Promised(unread), S) \in Nat
  <1>1. \A q \in S : Promised(unread)[q] \in Int
    BY MemoryAssumption DEF TypeOK, Promised, Procs
  <1> QED
    BY <1>1, ProcsFinite, UnitsType

\* settle keeps the type of the notice, its age and the last refusal.
LEMMA SettleType ==
    ASSUME TypeOK, NEW l \in Live, NEW admitted \in BOOLEAN, Settle(l, admitted)
    PROVE  /\ notice' \in [Live -> Notices]
           /\ aged' \in [Live -> BOOLEAN]
           /\ refusal' \in [Live -> {"fresh", "unheard", "lapsed"}]
  <1>1. /\ notice \in [Live -> Notices]
      /\ aged \in [Live -> BOOLEAN]
      /\ refusal \in [Live -> {"fresh", "unheard", "lapsed"}]
    BY DEF TypeOK
  <1>2. ASSUME NEW cause \in Notices, Post(l, cause)
      PROVE  notice' \in [Live -> Notices] /\ aged' \in [Live -> BOOLEAN]
    BY <1>1, <1>2 DEF Post, Posted
  <1>3. CASE Withdraw(l)
    BY <1>1, <1>3 DEF Settle, Withdraw, Notices
  <1> QED
    BY <1>1, <1>2, <1>3 DEF Settle, Notices

\* Leaving a check leaves nothing untyped behind.
LEMMA LeaveCheckType ==
    ASSUME LeaveCheck
    PROVE  /\ lock' \in Procs \cup {NoOne}
           /\ drift' \in 0 .. Drift
           /\ look' \in [avail : Int, level : DOMAIN Severity,
                seen : SUBSET Procs, promised : Nat,
                aside : SUBSET Background, waiting : SUBSET Live]
  BY MemoryAssumption DEF LeaveCheck, NothingRead, Severity

\* Every step keeps every variable in its type.
LEMMA TypeStep ==
    TypeOK /\ [Next]_vars => TypeOK'
  <1> SUFFICES ASSUME TypeOK, [Next]_vars PROVE TypeOK'
    OBVIOUS
  <1> USE ProcsAssumption, MemoryAssumption
  <1>1. ASSUME NEW p \in Procs, TakeAdmissionLock(p) PROVE TypeOK'
    BY <1>1
      DEF TypeOK, Procs, LivePoints, BackgroundPoints, Notices, Severity,
          TakeAdmissionLock, Goto, noticeVars, hostVars, history
  <1>2. ASSUME NEW p \in Procs, Measure(p) PROVE TypeOK'
    <2>1. PICK level \in PressureLevels :
              look' = [NothingRead EXCEPT !.avail = Available, !.level = level]
      BY <1>2 DEF Measure
    <2>0. Available \in Int
      BY AvailableType
    <2>2. look' = [avail |-> Available, level |-> level, seen |-> {}, promised |-> 0,
                   aside |-> {}, waiting |-> {}]
      BY <2>1 DEF NothingRead
    <2> HIDE DEF Available
    <2>3. look' \in [avail : Int, level : DOMAIN Severity,
                  seen : SUBSET Procs, promised : Nat,
                  aside : SUBSET Background, waiting : SUBSET Live]
      BY <2>0, <2>2
    <2> QED
      BY <1>2, <2>3 DEF TypeOK, Measure, Goto, Procs, hostVars, noticeVars, history, LivePoints, BackgroundPoints
  <1>3. ASSUME NEW p \in Procs, CountOthers(p) PROVE TypeOK'
    <2>1. PICK unread \in SUBSET Others(p) :
              look' = [look EXCEPT !.seen = Others(p), !.aside = SetAside(p, unread),
                           !.promised = Units(Promised(unread), Others(p) \ SetAside(p, unread))]
      BY <1>3 DEF CountOthers
    <2>2. Others(p) \in SUBSET Procs /\ SetAside(p, unread) \in SUBSET Background
      BY DEF Others, SetAside, Procs
    <2>4. Units(Promised(unread), Others(p) \ SetAside(p, unread)) \in Nat
      BY <2>2, PromisedType
    <2>3. look' \in [avail : Int, level : DOMAIN Severity,
                  seen : SUBSET Procs, promised : Nat,
                  aside : SUBSET Background, waiting : SUBSET Live]
      BY <2>1, <2>2, <2>4 DEF TypeOK
    <2> QED
      BY <1>3, <2>3 DEF TypeOK, CountOthers, Goto, Procs, hostVars, noticeVars, history, LivePoints, BackgroundPoints
  <1>4. ASSUME NEW p \in Procs, CheckFails(p) PROVE TypeOK'
    BY <1>4
      DEF TypeOK, Procs, LivePoints, BackgroundPoints, Notices, Severity, CheckFails,
          CheckPoints, LeaveCheck, Goto, history, NothingRead
  <1>5. ASSUME NEW p \in Procs, Load(p) PROVE TypeOK'
    BY <1>5
      DEF TypeOK, Procs, LivePoints, BackgroundPoints, Notices, Severity, Load,
          noticeVars, history
  <1>6. ASSUME NEW p \in Procs, Crash(p) PROVE TypeOK'
    BY <1>6
      DEF TypeOK, Procs, LivePoints, BackgroundPoints, Notices, Severity, Crash, Running,
          Dies, LeaveCheck, Goto, NothingRead
  <1>7. ASSUME NEW p \in Procs, Restart(p) PROVE TypeOK'
    BY <1>7
      DEF TypeOK, Procs, LivePoints, BackgroundPoints, Notices, Severity, Restart, Goto,
          noticeVars, hostVars, history
  <1>8. ASSUME NEW l \in Live, StartLiveCheck(l) PROVE TypeOK'
    BY <1>8
      DEF TypeOK, Procs, LivePoints, BackgroundPoints, Notices, Severity, StartLiveCheck,
          Goto, Posted, noticeVars, hostVars, history
  <1>9. ASSUME NEW l \in Live, AdmitLive(l) PROVE TypeOK'
    <2>1. LeaveCheck /\ Settle(l, TRUE)
      BY <1>9 DEF AdmitLive
    <2> QED
      BY <1>9, <2>1, SettleType, LeaveCheckType
      DEF TypeOK, AdmitLive, Reservation, Goto, Procs, LivePoints, BackgroundPoints
  <1>10. ASSUME NEW l \in Live, RefuseLive(l) PROVE TypeOK'
    <2>1. LeaveCheck /\ Settle(l, FALSE)
      BY <1>10 DEF RefuseLive
    <2> QED
      BY <1>10, <2>1, SettleType, LeaveCheckType
      DEF TypeOK, RefuseLive, history, Goto, Procs, LivePoints, BackgroundPoints
  <1>11. ASSUME NEW l \in Live, UnloadIdle(l) PROVE TypeOK'
    BY <1>11
      DEF TypeOK, Procs, LivePoints, BackgroundPoints, Notices, Severity, UnloadIdle,
          Goto, noticeVars, hostVars, history
  <1>12. ASSUME NEW l \in Live, UnloadForPressure(l) PROVE TypeOK'
    BY <1>12
      DEF TypeOK, Procs, LivePoints, BackgroundPoints, Notices, Severity,
          UnloadForPressure, Goto, noticeVars, hostVars, history
  <1>13. ASSUME NEW l \in Live, StopRetrying(l) PROVE TypeOK'
    BY <1>13
      DEF TypeOK, Procs, LivePoints, BackgroundPoints, Notices, Severity, StopRetrying,
          Goto, noticeVars, hostVars, history
  <1>14. ASSUME NEW l \in Live, Close(l) PROVE TypeOK'
    BY <1>14
      DEF TypeOK, Procs, LivePoints, BackgroundPoints, Notices, Severity, Close, Goto,
          noticeVars, hostVars, history
  <1>15. ASSUME NEW l \in Live, ReleaseLive(l) PROVE TypeOK'
    BY <1>15
      DEF TypeOK, Procs, LivePoints, BackgroundPoints, Notices, Severity, ReleaseLive,
          AfterRelease, RemoveReservation, Goto, noticeVars, hostVars
  <1>16. ASSUME NEW l \in Live, WithdrawNotice(l) PROVE TypeOK'
    BY <1>16
      DEF TypeOK, Procs, LivePoints, BackgroundPoints, Notices, Severity, WithdrawNotice,
          Withdraw, Goto, hostVars, history
  <1>17. ASSUME NEW l \in Live, PostReloadNotice(l) PROVE TypeOK'
    BY <1>17
      DEF TypeOK, Procs, LivePoints, BackgroundPoints, Notices, Severity,
          PostReloadNotice, Post, Goto, hostVars, history, Posted
  <1>18. ASSUME NEW l \in Live, Tick(l) PROVE TypeOK'
    BY <1>18
      DEF TypeOK, Procs, LivePoints, BackgroundPoints, Notices, Severity, Tick, Running,
          Withdraw, hostVars, history
  <1>19. ASSUME NEW l \in Live, NoticeAges(l) PROVE TypeOK'
    BY <1>19
      DEF TypeOK, Procs, LivePoints, BackgroundPoints, Notices, Severity, NoticeAges,
          Posted, hostVars, history
  <1>20. ASSUME NEW l \in Live, RefusalLapses(l) PROVE TypeOK'
    BY <1>20
      DEF TypeOK, Procs, LivePoints, BackgroundPoints, Notices, Severity, RefusalLapses,
          hostVars, history
  <1>21. ASSUME NEW l \in Live, Exit(l) PROVE TypeOK'
    BY <1>21
      DEF TypeOK, Procs, LivePoints, BackgroundPoints, Notices, Severity, Exit, Dies, Goto
  <1>22. ASSUME NEW b \in Background, TakeHeavyLock(b) PROVE TypeOK'
    BY <1>22
      DEF TypeOK, Procs, LivePoints, BackgroundPoints, Notices, Severity, TakeHeavyLock,
          Goto, noticeVars, history
  <1>23. ASSUME NEW b \in Background, PassGate(b) PROVE TypeOK'
    BY <1>23
      DEF TypeOK, Procs, LivePoints, BackgroundPoints, Notices, Severity, PassGate, Goto,
          noticeVars, hostVars, history
  <1>24. ASSUME NEW b \in Background, LeaveGate(b) PROVE TypeOK'
    BY <1>24
      DEF TypeOK, Procs, LivePoints, BackgroundPoints, Notices, Severity, LeaveGate,
          Goto, noticeVars, hostVars, history
  <1>25. ASSUME NEW b \in Background, ReadNotices(b) PROVE TypeOK'
    BY <1>25
      DEF TypeOK, Procs, LivePoints, BackgroundPoints, Notices, Severity, ReadNotices,
          PostedNotices, Goto, noticeVars, hostVars, history, Posted
  <1>26. ASSUME NEW b \in Background, AdmitBackground(b) PROVE TypeOK'
    BY <1>26
      DEF TypeOK, Procs, LivePoints, BackgroundPoints, Notices, Severity,
          AdmitBackground, Reservation, LeaveCheck, Goto, noticeVars, NothingRead
  <1>27. ASSUME NEW b \in Background, RefuseBackground(b) PROVE TypeOK'
    BY <1>27
      DEF TypeOK, Procs, LivePoints, BackgroundPoints, Notices, Severity,
          RefuseBackground, LeaveCheck, Goto, noticeVars, history, NothingRead
  <1>28. ASSUME NEW b \in Background, AskAgain(b) PROVE TypeOK'
    BY <1>28
      DEF TypeOK, Procs, LivePoints, BackgroundPoints, Notices, Severity, AskAgain, Goto,
          noticeVars, hostVars, history
  <1>29. ASSUME NEW b \in Background, Defer(b) PROVE TypeOK'
    BY <1>29
      DEF TypeOK, Procs, LivePoints, BackgroundPoints, Notices, Severity, Defer, Goto,
          noticeVars, hostVars, history
  <1>30. ASSUME NEW b \in Background, StopForLiveServer(b) PROVE TypeOK'
    BY <1>30
      DEF TypeOK, Procs, LivePoints, BackgroundPoints, Notices, Severity,
          StopForLiveServer, PostedNotices, Goto, EndOfWork, noticeVars, hostVars,
          history, Posted
  <1>31. ASSUME NEW b \in Background, EndWork(b) PROVE TypeOK'
    BY <1>31
      DEF TypeOK, Procs, LivePoints, BackgroundPoints, Notices, Severity, EndWork, Goto,
          EndOfWork, noticeVars, hostVars, history
  <1>32. ASSUME NEW b \in Background, EndStep(b) PROVE TypeOK'
    BY <1>32
      DEF TypeOK, Procs, LivePoints, BackgroundPoints, Notices, Severity, EndStep, Goto,
          noticeVars, hostVars, history
  <1>33. ASSUME NEW b \in Background, ReleaseStep(b) PROVE TypeOK'
    BY <1>33
      DEF TypeOK, Procs, LivePoints, BackgroundPoints, Notices, Severity, ReleaseStep,
          RemoveReservation, NoLongerPast, Goto, noticeVars, hostVars
  <1>34. ASSUME NEW b \in Background, ReleaseBackground(b) PROVE TypeOK'
    BY <1>34
      DEF TypeOK, Procs, LivePoints, BackgroundPoints, Notices, Severity,
          ReleaseBackground, RemoveReservation, Goto, noticeVars, hostVars
  <1>35. ASSUME NEW b \in Background, ReleaseHeavyLock(b) PROVE TypeOK'
    BY <1>35
      DEF TypeOK, Procs, LivePoints, BackgroundPoints, Notices, Severity,
          ReleaseHeavyLock, Goto, noticeVars, history
  <1>36. ASSUME NEW b \in Background, LeaveHost(b) PROVE TypeOK'
    BY <1>36
      DEF TypeOK, Procs, LivePoints, BackgroundPoints, Notices, Severity, LeaveHost,
          NoLongerPast, Goto, noticeVars, hostVars
  <1>37. CASE UNCHANGED vars
    BY <1>37 DEF vars, hostVars, noticeVars, history, TypeOK, Procs, LivePoints, BackgroundPoints, Notices, Severity
  <1> QED
    BY <1>1, <1>2, <1>3, <1>4, <1>5, <1>6, <1>7, <1>8, <1>9, <1>10, <1>11, <1>12,
  <1>13, <1>14, <1>15, <1>16, <1>17, <1>18, <1>19, <1>20, <1>21, <1>22,
  <1>23, <1>24, <1>25, <1>26, <1>27, <1>28, <1>29, <1>30, <1>31, <1>32,
  <1>33, <1>34, <1>35, <1>36, <1>37
DEF Next, Check, LiveNext, BackgroundNext

----------------------------------------------------------------------------
(* One lemma per part of the invariant.                                    *)

\* A process is inside a check exactly while it holds the admission lock.
LEMMA LockStep ==
    TypeOK /\ LockInv /\ [Next]_vars => LockInv'
  <1> SUFFICES ASSUME TypeOK, LockInv, [Next]_vars PROVE LockInv'
    OBVIOUS
  <1> USE ProcsAssumption
  <1>1. ASSUME NEW p \in Procs, TakeAdmissionLock(p) PROVE LockInv'
    BY <1>1
      DEF LockInv, TypeOK, Procs, CheckPoints, TakeAdmissionLock, Goto, noticeVars,
          hostVars, history
  <1>2. ASSUME NEW p \in Procs, Measure(p) PROVE LockInv'
    BY <1>2
      DEF LockInv, TypeOK, Procs, CheckPoints, Measure, NothingRead, Goto, noticeVars,
          history
  <1>3. ASSUME NEW p \in Procs, CountOthers(p) PROVE LockInv'
    BY <1>3
      DEF LockInv, TypeOK, Procs, CheckPoints, CountOthers, Running, Goto, noticeVars,
          history
  <1>4. ASSUME NEW p \in Procs, CheckFails(p) PROVE LockInv'
    BY <1>4
      DEF LockInv, TypeOK, Procs, CheckPoints, CheckFails, LeaveCheck, Goto, history,
          NothingRead
  <1>5. ASSUME NEW p \in Procs, Load(p) PROVE LockInv'
    BY <1>5
      DEF LockInv, TypeOK, Procs, CheckPoints, Load, noticeVars, history
  <1>6. ASSUME NEW p \in Procs, Crash(p) PROVE LockInv'
    BY <1>6
      DEF LockInv, TypeOK, Procs, CheckPoints, Crash, Running, Dies, LeaveCheck, Goto,
          NothingRead
  <1>7. ASSUME NEW p \in Procs, Restart(p) PROVE LockInv'
    BY <1>7
      DEF LockInv, TypeOK, Procs, CheckPoints, Restart, Goto, noticeVars, hostVars,
          history
  <1>8. ASSUME NEW l \in Live, StartLiveCheck(l) PROVE LockInv'
    BY <1>8
      DEF LockInv, TypeOK, Procs, CheckPoints, StartLiveCheck, Goto, noticeVars,
          hostVars, history
  <1>9. ASSUME NEW l \in Live, AdmitLive(l) PROVE LockInv'
    BY <1>9
      DEF LockInv, TypeOK, Procs, CheckPoints, AdmitLive, Reservation, HasClaim,
          LeaveCheck, Goto, Running, NothingRead
  <1>10. ASSUME NEW l \in Live, RefuseLive(l) PROVE LockInv'
    BY <1>10
      DEF LockInv, TypeOK, Procs, CheckPoints, RefuseLive, LeaveCheck, Goto, history,
          NothingRead
  <1>11. ASSUME NEW l \in Live, UnloadIdle(l) PROVE LockInv'
    BY <1>11
      DEF LockInv, TypeOK, Procs, CheckPoints, UnloadIdle, Goto, noticeVars, hostVars,
          history
  <1>12. ASSUME NEW l \in Live, UnloadForPressure(l) PROVE LockInv'
    BY <1>12
      DEF LockInv, TypeOK, Procs, CheckPoints, UnloadForPressure, Goto, noticeVars,
          hostVars, history
  <1>13. ASSUME NEW l \in Live, StopRetrying(l) PROVE LockInv'
    BY <1>13
      DEF LockInv, TypeOK, Procs, CheckPoints, StopRetrying, Goto, noticeVars, hostVars,
          history
  <1>14. ASSUME NEW l \in Live, Close(l) PROVE LockInv'
    BY <1>14
      DEF LockInv, TypeOK, Procs, CheckPoints, Close, Goto, noticeVars, hostVars, history
  <1>15. ASSUME NEW l \in Live, ReleaseLive(l) PROVE LockInv'
    BY <1>15
      DEF LockInv, TypeOK, Procs, CheckPoints, ReleaseLive, AfterRelease,
          RemoveReservation, Goto, noticeVars, hostVars
  <1>16. ASSUME NEW l \in Live, WithdrawNotice(l) PROVE LockInv'
    BY <1>16
      DEF LockInv, TypeOK, Procs, CheckPoints, WithdrawNotice, Goto, hostVars, history
  <1>17. ASSUME NEW l \in Live, PostReloadNotice(l) PROVE LockInv'
    BY <1>17
      DEF LockInv, TypeOK, Procs, CheckPoints, PostReloadNotice, Goto, hostVars, history
  <1>18. ASSUME NEW l \in Live, Tick(l) PROVE LockInv'
    BY <1>18
      DEF LockInv, TypeOK, Procs, CheckPoints, Tick, Running, hostVars, history
  <1>19. ASSUME NEW l \in Live, NoticeAges(l) PROVE LockInv'
    BY <1>19
      DEF LockInv, TypeOK, Procs, CheckPoints, NoticeAges, hostVars, history
  <1>20. ASSUME NEW l \in Live, RefusalLapses(l) PROVE LockInv'
    BY <1>20
      DEF LockInv, TypeOK, Procs, CheckPoints, RefusalLapses, hostVars, history
  <1>21. ASSUME NEW l \in Live, Exit(l) PROVE LockInv'
    BY <1>21
      DEF LockInv, TypeOK, Procs, CheckPoints, Exit, Dies, Goto
  <1>22. ASSUME NEW b \in Background, TakeHeavyLock(b) PROVE LockInv'
    BY <1>22
      DEF LockInv, TypeOK, Procs, CheckPoints, TakeHeavyLock, Goto, noticeVars, history
  <1>23. ASSUME NEW b \in Background, PassGate(b) PROVE LockInv'
    BY <1>23
      DEF LockInv, TypeOK, Procs, CheckPoints, PassGate, Goto, noticeVars, hostVars,
          history
  <1>24. ASSUME NEW b \in Background, LeaveGate(b) PROVE LockInv'
    BY <1>24
      DEF LockInv, TypeOK, Procs, CheckPoints, LeaveGate, Goto, noticeVars, hostVars,
          history
  <1>25. ASSUME NEW b \in Background, ReadNotices(b) PROVE LockInv'
    BY <1>25
      DEF LockInv, TypeOK, Procs, CheckPoints, ReadNotices, Goto, noticeVars, hostVars,
          history
  <1>26. ASSUME NEW b \in Background, AdmitBackground(b) PROVE LockInv'
    BY <1>26
      DEF LockInv, TypeOK, Procs, CheckPoints, AdmitBackground, Reservation, LeaveCheck,
          Goto, noticeVars, NothingRead
  <1>27. ASSUME NEW b \in Background, RefuseBackground(b) PROVE LockInv'
    BY <1>27
      DEF LockInv, TypeOK, Procs, CheckPoints, RefuseBackground, LeaveCheck, Goto,
          noticeVars, history, NothingRead
  <1>28. ASSUME NEW b \in Background, AskAgain(b) PROVE LockInv'
    BY <1>28
      DEF LockInv, TypeOK, Procs, CheckPoints, AskAgain, Goto, noticeVars, hostVars,
          history
  <1>29. ASSUME NEW b \in Background, Defer(b) PROVE LockInv'
    BY <1>29
      DEF LockInv, TypeOK, Procs, CheckPoints, Defer, Goto, noticeVars, hostVars, history
  <1>30. ASSUME NEW b \in Background, StopForLiveServer(b) PROVE LockInv'
    BY <1>30
      DEF LockInv, TypeOK, Procs, CheckPoints, StopForLiveServer, Goto, EndOfWork,
          noticeVars, hostVars, history
  <1>31. ASSUME NEW b \in Background, EndWork(b) PROVE LockInv'
    BY <1>31
      DEF LockInv, TypeOK, Procs, CheckPoints, EndWork, Goto, EndOfWork, noticeVars,
          hostVars, history
  <1>32. ASSUME NEW b \in Background, EndStep(b) PROVE LockInv'
    BY <1>32
      DEF LockInv, TypeOK, Procs, CheckPoints, EndStep, Goto, noticeVars, hostVars,
          history
  <1>33. ASSUME NEW b \in Background, ReleaseStep(b) PROVE LockInv'
    BY <1>33
      DEF LockInv, TypeOK, Procs, CheckPoints, ReleaseStep, RemoveReservation,
          NoLongerPast, Goto, noticeVars, hostVars
  <1>34. ASSUME NEW b \in Background, ReleaseBackground(b) PROVE LockInv'
    BY <1>34
      DEF LockInv, TypeOK, Procs, CheckPoints, ReleaseBackground, RemoveReservation,
          Goto, noticeVars, hostVars
  <1>35. ASSUME NEW b \in Background, ReleaseHeavyLock(b) PROVE LockInv'
    BY <1>35
      DEF LockInv, TypeOK, Procs, CheckPoints, ReleaseHeavyLock, Goto, noticeVars, history
  <1>36. ASSUME NEW b \in Background, LeaveHost(b) PROVE LockInv'
    BY <1>36
      DEF LockInv, TypeOK, Procs, CheckPoints, LeaveHost, NoLongerPast, Goto, noticeVars,
          hostVars
  <1>37. CASE UNCHANGED vars
    BY <1>37 DEF vars, hostVars, noticeVars, history, LockInv, TypeOK, Procs, CheckPoints
  <1> QED
    BY <1>1, <1>2, <1>3, <1>4, <1>5, <1>6, <1>7, <1>8, <1>9, <1>10, <1>11, <1>12,
  <1>13, <1>14, <1>15, <1>16, <1>17, <1>18, <1>19, <1>20, <1>21, <1>22,
  <1>23, <1>24, <1>25, <1>26, <1>27, <1>28, <1>29, <1>30, <1>31, <1>32,
  <1>33, <1>34, <1>35, <1>36, <1>37
DEF Next, Check, LiveNext, BackgroundNext

\* A live server holds a reservation only from its admission to its release.
LEMMA LiveClaimStep ==
    TypeOK /\ LiveClaimInv /\ [Next]_vars => LiveClaimInv'
  <1> SUFFICES ASSUME TypeOK, LiveClaimInv, [Next]_vars PROVE LiveClaimInv'
    OBVIOUS
  <1> USE ProcsAssumption
  <1>1. ASSUME NEW p \in Procs, TakeAdmissionLock(p) PROVE LiveClaimInv'
    BY <1>1
      DEF LiveClaimInv, Granted, TypeOK, Procs, Running, TakeAdmissionLock, Goto,
          noticeVars, hostVars, history
  <1>2. ASSUME NEW p \in Procs, Measure(p) PROVE LiveClaimInv'
    BY <1>2
      DEF LiveClaimInv, Granted, TypeOK, Procs, Running, Measure, NothingRead, Goto,
          noticeVars, history
  <1>3. ASSUME NEW p \in Procs, CountOthers(p) PROVE LiveClaimInv'
    BY <1>3
      DEF LiveClaimInv, Granted, TypeOK, Procs, Running, CountOthers, Goto, noticeVars,
          history
  <1>4. ASSUME NEW p \in Procs, CheckFails(p) PROVE LiveClaimInv'
    BY <1>4
      DEF LiveClaimInv, Granted, TypeOK, Procs, Running, CheckFails, CheckPoints,
          LeaveCheck, Goto, history, NothingRead
  <1>5. ASSUME NEW p \in Procs, Load(p) PROVE LiveClaimInv'
    BY <1>5
      DEF LiveClaimInv, Granted, TypeOK, Procs, Running, Load, noticeVars, history
  <1>6. ASSUME NEW p \in Procs, Crash(p) PROVE LiveClaimInv'
    BY <1>6
      DEF LiveClaimInv, Granted, TypeOK, Procs, Running, Crash, Dies, LeaveCheck, Goto,
          NothingRead
  <1>7. ASSUME NEW p \in Procs, Restart(p) PROVE LiveClaimInv'
    BY <1>7
      DEF LiveClaimInv, Granted, TypeOK, Procs, Running, Restart, Goto, noticeVars,
          hostVars, history
  <1>8. ASSUME NEW l \in Live, StartLiveCheck(l) PROVE LiveClaimInv'
    BY <1>8
      DEF LiveClaimInv, Granted, TypeOK, Procs, Running, StartLiveCheck, Goto,
          noticeVars, hostVars, history
  <1>9. ASSUME NEW l \in Live, AdmitLive(l) PROVE LiveClaimInv'
    BY <1>9
      DEF LiveClaimInv, Granted, TypeOK, Procs, Running, AdmitLive, Reservation,
          HasClaim, LeaveCheck, Goto, NothingRead
  <1>10. ASSUME NEW l \in Live, RefuseLive(l) PROVE LiveClaimInv'
    BY <1>10
      DEF LiveClaimInv, Granted, TypeOK, Procs, Running, RefuseLive, LeaveCheck, Goto,
          history, NothingRead
  <1>11. ASSUME NEW l \in Live, UnloadIdle(l) PROVE LiveClaimInv'
    BY <1>11
      DEF LiveClaimInv, Granted, TypeOK, Procs, Running, UnloadIdle, Goto, noticeVars,
          hostVars, history
  <1>12. ASSUME NEW l \in Live, UnloadForPressure(l) PROVE LiveClaimInv'
    BY <1>12
      DEF LiveClaimInv, Granted, TypeOK, Procs, Running, UnloadForPressure, Goto,
          noticeVars, hostVars, history
  <1>13. ASSUME NEW l \in Live, StopRetrying(l) PROVE LiveClaimInv'
    BY <1>13
      DEF LiveClaimInv, Granted, TypeOK, Procs, Running, StopRetrying, Goto, noticeVars,
          hostVars, history
  <1>14. ASSUME NEW l \in Live, Close(l) PROVE LiveClaimInv'
    BY <1>14
      DEF LiveClaimInv, Granted, TypeOK, Procs, Running, Close, Goto, noticeVars,
          hostVars, history
  <1>15. ASSUME NEW l \in Live, ReleaseLive(l) PROVE LiveClaimInv'
    BY <1>15
      DEF LiveClaimInv, Granted, TypeOK, Procs, Running, ReleaseLive, AfterRelease,
          RemoveReservation, Goto, noticeVars, hostVars
  <1>16. ASSUME NEW l \in Live, WithdrawNotice(l) PROVE LiveClaimInv'
    BY <1>16
      DEF LiveClaimInv, Granted, TypeOK, Procs, Running, WithdrawNotice, Goto, hostVars,
          history
  <1>17. ASSUME NEW l \in Live, PostReloadNotice(l) PROVE LiveClaimInv'
    BY <1>17
      DEF LiveClaimInv, Granted, TypeOK, Procs, Running, PostReloadNotice, Goto,
          hostVars, history
  <1>18. ASSUME NEW l \in Live, Tick(l) PROVE LiveClaimInv'
    BY <1>18
      DEF LiveClaimInv, Granted, TypeOK, Procs, Running, Tick, hostVars, history
  <1>19. ASSUME NEW l \in Live, NoticeAges(l) PROVE LiveClaimInv'
    BY <1>19
      DEF LiveClaimInv, Granted, TypeOK, Procs, Running, NoticeAges, hostVars, history
  <1>20. ASSUME NEW l \in Live, RefusalLapses(l) PROVE LiveClaimInv'
    BY <1>20
      DEF LiveClaimInv, Granted, TypeOK, Procs, Running, RefusalLapses, hostVars, history
  <1>21. ASSUME NEW l \in Live, Exit(l) PROVE LiveClaimInv'
    BY <1>21
      DEF LiveClaimInv, Granted, TypeOK, Procs, Running, Exit, Dies, Goto
  <1>22. ASSUME NEW b \in Background, TakeHeavyLock(b) PROVE LiveClaimInv'
    BY <1>22
      DEF LiveClaimInv, Granted, TypeOK, Procs, Running, TakeHeavyLock, Goto, noticeVars,
          history
  <1>23. ASSUME NEW b \in Background, PassGate(b) PROVE LiveClaimInv'
    BY <1>23
      DEF LiveClaimInv, Granted, TypeOK, Procs, Running, PassGate, Goto, noticeVars,
          hostVars, history
  <1>24. ASSUME NEW b \in Background, LeaveGate(b) PROVE LiveClaimInv'
    BY <1>24
      DEF LiveClaimInv, Granted, TypeOK, Procs, Running, LeaveGate, Goto, noticeVars,
          hostVars, history
  <1>25. ASSUME NEW b \in Background, ReadNotices(b) PROVE LiveClaimInv'
    BY <1>25
      DEF LiveClaimInv, Granted, TypeOK, Procs, Running, ReadNotices, Goto, noticeVars,
          hostVars, history
  <1>26. ASSUME NEW b \in Background, AdmitBackground(b) PROVE LiveClaimInv'
    BY <1>26
      DEF LiveClaimInv, Granted, TypeOK, Procs, Running, AdmitBackground, Reservation,
          LeaveCheck, Goto, noticeVars, NothingRead
  <1>27. ASSUME NEW b \in Background, RefuseBackground(b) PROVE LiveClaimInv'
    BY <1>27
      DEF LiveClaimInv, Granted, TypeOK, Procs, Running, RefuseBackground, LeaveCheck,
          Goto, noticeVars, history, NothingRead
  <1>28. ASSUME NEW b \in Background, AskAgain(b) PROVE LiveClaimInv'
    BY <1>28
      DEF LiveClaimInv, Granted, TypeOK, Procs, Running, AskAgain, Goto, noticeVars,
          hostVars, history
  <1>29. ASSUME NEW b \in Background, Defer(b) PROVE LiveClaimInv'
    BY <1>29
      DEF LiveClaimInv, Granted, TypeOK, Procs, Running, Defer, Goto, noticeVars,
          hostVars, history
  <1>30. ASSUME NEW b \in Background, StopForLiveServer(b) PROVE LiveClaimInv'
    BY <1>30
      DEF LiveClaimInv, Granted, TypeOK, Procs, Running, StopForLiveServer, Goto,
          EndOfWork, noticeVars, hostVars, history
  <1>31. ASSUME NEW b \in Background, EndWork(b) PROVE LiveClaimInv'
    BY <1>31
      DEF LiveClaimInv, Granted, TypeOK, Procs, Running, EndWork, Goto, EndOfWork,
          noticeVars, hostVars, history
  <1>32. ASSUME NEW b \in Background, EndStep(b) PROVE LiveClaimInv'
    BY <1>32
      DEF LiveClaimInv, Granted, TypeOK, Procs, Running, EndStep, Goto, noticeVars,
          hostVars, history
  <1>33. ASSUME NEW b \in Background, ReleaseStep(b) PROVE LiveClaimInv'
    BY <1>33
      DEF LiveClaimInv, Granted, TypeOK, Procs, Running, ReleaseStep, RemoveReservation,
          NoLongerPast, Goto, noticeVars, hostVars
  <1>34. ASSUME NEW b \in Background, ReleaseBackground(b) PROVE LiveClaimInv'
    BY <1>34
      DEF LiveClaimInv, Granted, TypeOK, Procs, Running, ReleaseBackground,
          RemoveReservation, Goto, noticeVars, hostVars
  <1>35. ASSUME NEW b \in Background, ReleaseHeavyLock(b) PROVE LiveClaimInv'
    BY <1>35
      DEF LiveClaimInv, Granted, TypeOK, Procs, Running, ReleaseHeavyLock, Goto,
          noticeVars, history
  <1>36. ASSUME NEW b \in Background, LeaveHost(b) PROVE LiveClaimInv'
    BY <1>36
      DEF LiveClaimInv, Granted, TypeOK, Procs, Running, LeaveHost, NoLongerPast, Goto,
          noticeVars, hostVars
  <1>37. CASE UNCHANGED vars
    BY <1>37 DEF vars, hostVars, noticeVars, history, LiveClaimInv, Granted, TypeOK, Procs, Running
  <1> QED
    BY <1>1, <1>2, <1>3, <1>4, <1>5, <1>6, <1>7, <1>8, <1>9, <1>10, <1>11, <1>12,
  <1>13, <1>14, <1>15, <1>16, <1>17, <1>18, <1>19, <1>20, <1>21, <1>22,
  <1>23, <1>24, <1>25, <1>26, <1>27, <1>28, <1>29, <1>30, <1>31, <1>32,
  <1>33, <1>34, <1>35, <1>36, <1>37
DEF Next, Check, LiveNext, BackgroundNext

\* A background command holds memory or a reservation only while at work.
LEMMA BackgroundClaimStep ==
    TypeOK /\ BackgroundClaimInv /\ [Next]_vars => BackgroundClaimInv'
  <1> SUFFICES ASSUME TypeOK, BackgroundClaimInv, [Next]_vars PROVE BackgroundClaimInv'
    OBVIOUS
  <1> USE ProcsAssumption
  <1>1. ASSUME NEW p \in Procs, TakeAdmissionLock(p) PROVE BackgroundClaimInv'
    BY <1>1
      DEF BackgroundClaimInv, WorkPoints, HasClaim, TypeOK, Procs, Running,
          TakeAdmissionLock, Goto, noticeVars, hostVars, history
  <1>2. ASSUME NEW p \in Procs, Measure(p) PROVE BackgroundClaimInv'
    BY <1>2
      DEF BackgroundClaimInv, WorkPoints, HasClaim, TypeOK, Procs, Running, Measure,
          NothingRead, Goto, noticeVars, history
  <1>3. ASSUME NEW p \in Procs, CountOthers(p) PROVE BackgroundClaimInv'
    BY <1>3
      DEF BackgroundClaimInv, WorkPoints, HasClaim, TypeOK, Procs, Running, CountOthers,
          Goto, noticeVars, history
  <1>4. ASSUME NEW p \in Procs, CheckFails(p) PROVE BackgroundClaimInv'
    BY <1>4
      DEF BackgroundClaimInv, WorkPoints, HasClaim, TypeOK, Procs, Running, CheckFails,
          CheckPoints, LeaveCheck, Goto, history, NothingRead
  <1>5. ASSUME NEW p \in Procs, Load(p) PROVE BackgroundClaimInv'
    BY <1>5
      DEF BackgroundClaimInv, WorkPoints, HasClaim, TypeOK, Procs, Running, BackgroundPoints,
          Load, noticeVars, history
  <1>6. ASSUME NEW p \in Procs, Crash(p) PROVE BackgroundClaimInv'
    BY <1>6
      DEF BackgroundClaimInv, WorkPoints, HasClaim, TypeOK, Procs, Running, Crash, Dies,
          LeaveCheck, Goto, NothingRead
  <1>7. ASSUME NEW p \in Procs, Restart(p) PROVE BackgroundClaimInv'
    BY <1>7
      DEF BackgroundClaimInv, WorkPoints, HasClaim, TypeOK, Procs, Running, Restart,
          Goto, noticeVars, hostVars, history
  <1>8. ASSUME NEW l \in Live, StartLiveCheck(l) PROVE BackgroundClaimInv'
    BY <1>8
      DEF BackgroundClaimInv, WorkPoints, HasClaim, TypeOK, Procs, Running,
          StartLiveCheck, Goto, noticeVars, hostVars, history
  <1>9. ASSUME NEW l \in Live, AdmitLive(l) PROVE BackgroundClaimInv'
    BY <1>9
      DEF BackgroundClaimInv, WorkPoints, HasClaim, TypeOK, Procs, Running, AdmitLive,
          Reservation, LeaveCheck, Goto, NothingRead
  <1>10. ASSUME NEW l \in Live, RefuseLive(l) PROVE BackgroundClaimInv'
    BY <1>10
      DEF BackgroundClaimInv, WorkPoints, HasClaim, TypeOK, Procs, Running, RefuseLive,
          LeaveCheck, Goto, history, NothingRead
  <1>11. ASSUME NEW l \in Live, UnloadIdle(l) PROVE BackgroundClaimInv'
    BY <1>11
      DEF BackgroundClaimInv, WorkPoints, HasClaim, TypeOK, Procs, Running, UnloadIdle,
          Goto, noticeVars, hostVars, history
  <1>12. ASSUME NEW l \in Live, UnloadForPressure(l) PROVE BackgroundClaimInv'
    BY <1>12
      DEF BackgroundClaimInv, WorkPoints, HasClaim, TypeOK, Procs, Running,
          UnloadForPressure, Goto, noticeVars, hostVars, history
  <1>13. ASSUME NEW l \in Live, StopRetrying(l) PROVE BackgroundClaimInv'
    BY <1>13
      DEF BackgroundClaimInv, WorkPoints, HasClaim, TypeOK, Procs, Running, StopRetrying,
          Goto, noticeVars, hostVars, history
  <1>14. ASSUME NEW l \in Live, Close(l) PROVE BackgroundClaimInv'
    BY <1>14
      DEF BackgroundClaimInv, WorkPoints, HasClaim, TypeOK, Procs, Running, Close, Goto,
          noticeVars, hostVars, history
  <1>15. ASSUME NEW l \in Live, ReleaseLive(l) PROVE BackgroundClaimInv'
    BY <1>15
      DEF BackgroundClaimInv, WorkPoints, HasClaim, TypeOK, Procs, Running, ReleaseLive,
          AfterRelease, RemoveReservation, Goto, noticeVars, hostVars
  <1>16. ASSUME NEW l \in Live, WithdrawNotice(l) PROVE BackgroundClaimInv'
    BY <1>16
      DEF BackgroundClaimInv, WorkPoints, HasClaim, TypeOK, Procs, Running,
          WithdrawNotice, Goto, hostVars, history
  <1>17. ASSUME NEW l \in Live, PostReloadNotice(l) PROVE BackgroundClaimInv'
    BY <1>17
      DEF BackgroundClaimInv, WorkPoints, HasClaim, TypeOK, Procs, Running,
          PostReloadNotice, Goto, hostVars, history
  <1>18. ASSUME NEW l \in Live, Tick(l) PROVE BackgroundClaimInv'
    BY <1>18
      DEF BackgroundClaimInv, WorkPoints, HasClaim, TypeOK, Procs, Running, Tick,
          hostVars, history
  <1>19. ASSUME NEW l \in Live, NoticeAges(l) PROVE BackgroundClaimInv'
    BY <1>19
      DEF BackgroundClaimInv, WorkPoints, HasClaim, TypeOK, Procs, Running, NoticeAges,
          hostVars, history
  <1>20. ASSUME NEW l \in Live, RefusalLapses(l) PROVE BackgroundClaimInv'
    BY <1>20
      DEF BackgroundClaimInv, WorkPoints, HasClaim, TypeOK, Procs, Running,
          RefusalLapses, hostVars, history
  <1>21. ASSUME NEW l \in Live, Exit(l) PROVE BackgroundClaimInv'
    BY <1>21
      DEF BackgroundClaimInv, WorkPoints, HasClaim, TypeOK, Procs, Running, Exit, Dies,
          Goto
  <1>22. ASSUME NEW b \in Background, TakeHeavyLock(b) PROVE BackgroundClaimInv'
    BY <1>22
      DEF BackgroundClaimInv, WorkPoints, HasClaim, TypeOK, Procs, Running,
          TakeHeavyLock, Goto, noticeVars, history
  <1>23. ASSUME NEW b \in Background, PassGate(b) PROVE BackgroundClaimInv'
    BY <1>23
      DEF BackgroundClaimInv, WorkPoints, HasClaim, TypeOK, Procs, Running, PassGate,
          Goto, noticeVars, hostVars, history
  <1>24. ASSUME NEW b \in Background, LeaveGate(b) PROVE BackgroundClaimInv'
    BY <1>24
      DEF BackgroundClaimInv, WorkPoints, HasClaim, TypeOK, Procs, Running, LeaveGate,
          Goto, noticeVars, hostVars, history
  <1>25. ASSUME NEW b \in Background, ReadNotices(b) PROVE BackgroundClaimInv'
    BY <1>25
      DEF BackgroundClaimInv, WorkPoints, HasClaim, TypeOK, Procs, Running, ReadNotices,
          Goto, noticeVars, hostVars, history
  <1>26. ASSUME NEW b \in Background, AdmitBackground(b) PROVE BackgroundClaimInv'
    BY <1>26
      DEF BackgroundClaimInv, WorkPoints, HasClaim, TypeOK, Procs, Running,
          AdmitBackground, Reservation, LeaveCheck, Goto, noticeVars, NothingRead
  <1>27. ASSUME NEW b \in Background, RefuseBackground(b) PROVE BackgroundClaimInv'
    BY <1>27
      DEF BackgroundClaimInv, WorkPoints, HasClaim, TypeOK, Procs, Running,
          RefuseBackground, LeaveCheck, Goto, noticeVars, history, NothingRead
  <1>28. ASSUME NEW b \in Background, AskAgain(b) PROVE BackgroundClaimInv'
    BY <1>28
      DEF BackgroundClaimInv, WorkPoints, HasClaim, TypeOK, Procs, Running, AskAgain,
          Goto, noticeVars, hostVars, history
  <1>29. ASSUME NEW b \in Background, Defer(b) PROVE BackgroundClaimInv'
    BY <1>29
      DEF BackgroundClaimInv, WorkPoints, HasClaim, TypeOK, Procs, Running, Defer, Goto,
          noticeVars, hostVars, history
  <1>30. ASSUME NEW b \in Background, StopForLiveServer(b) PROVE BackgroundClaimInv'
    BY <1>30
      DEF BackgroundClaimInv, WorkPoints, HasClaim, TypeOK, Procs, Running,
          StopForLiveServer, Goto, EndOfWork, noticeVars, hostVars, history
  <1>31. ASSUME NEW b \in Background, EndWork(b) PROVE BackgroundClaimInv'
    BY <1>31
      DEF BackgroundClaimInv, WorkPoints, HasClaim, TypeOK, Procs, Running, EndWork,
          Goto, EndOfWork, noticeVars, hostVars, history
  <1>32. ASSUME NEW b \in Background, EndStep(b) PROVE BackgroundClaimInv'
    BY <1>32
      DEF BackgroundClaimInv, WorkPoints, HasClaim, TypeOK, Procs, Running, EndStep,
          Goto, noticeVars, hostVars, history
  <1>33. ASSUME NEW b \in Background, ReleaseStep(b) PROVE BackgroundClaimInv'
    BY <1>33
      DEF BackgroundClaimInv, WorkPoints, HasClaim, TypeOK, Procs, Running, ReleaseStep,
          RemoveReservation, NoLongerPast, Goto, noticeVars, hostVars
  <1>34. ASSUME NEW b \in Background, ReleaseBackground(b) PROVE BackgroundClaimInv'
    BY <1>34
      DEF BackgroundClaimInv, WorkPoints, HasClaim, TypeOK, Procs, Running,
          ReleaseBackground, RemoveReservation, Goto, noticeVars, hostVars
  <1>35. ASSUME NEW b \in Background, ReleaseHeavyLock(b) PROVE BackgroundClaimInv'
    BY <1>35
      DEF BackgroundClaimInv, WorkPoints, HasClaim, TypeOK, Procs, Running,
          ReleaseHeavyLock, Goto, noticeVars, history
  <1>36. ASSUME NEW b \in Background, LeaveHost(b) PROVE BackgroundClaimInv'
    BY <1>36
      DEF BackgroundClaimInv, WorkPoints, HasClaim, TypeOK, Procs, Running, LeaveHost,
          NoLongerPast, Goto, noticeVars, hostVars
  <1>37. CASE UNCHANGED vars
    BY <1>37 DEF vars, hostVars, noticeVars, history, BackgroundClaimInv, WorkPoints, HasClaim, TypeOK, Procs, Running
  <1> QED
    BY <1>1, <1>2, <1>3, <1>4, <1>5, <1>6, <1>7, <1>8, <1>9, <1>10, <1>11, <1>12,
  <1>13, <1>14, <1>15, <1>16, <1>17, <1>18, <1>19, <1>20, <1>21, <1>22,
  <1>23, <1>24, <1>25, <1>26, <1>27, <1>28, <1>29, <1>30, <1>31, <1>32,
  <1>33, <1>34, <1>35, <1>36, <1>37
DEF Next, Check, LiveNext, BackgroundNext

\* No reservation appears behind the back of a check.
LEMMA SeenStep ==
    TypeOK /\ LockInv /\ SeenInv /\ [Next]_vars => SeenInv'
  <1> SUFFICES ASSUME TypeOK, LockInv, SeenInv, [Next]_vars PROVE SeenInv'
    OBVIOUS
  <1> USE ProcsAssumption
  <1>1. ASSUME NEW p \in Procs, TakeAdmissionLock(p) PROVE SeenInv'
    BY <1>1
      DEF SeenInv, LockInv, Granted, TypeOK, Procs, Running, CheckPoints,
          TakeAdmissionLock, Goto, noticeVars, hostVars, history
  <1>2. ASSUME NEW p \in Procs, Measure(p) PROVE SeenInv'
    BY <1>2
      DEF SeenInv, LockInv, Granted, TypeOK, Procs, Running, CheckPoints, Measure,
          NothingRead, Goto, noticeVars, history
  <1>3. ASSUME NEW p \in Procs, CountOthers(p) PROVE SeenInv'
    BY <1>3
      DEF SeenInv, LockInv, Granted, TypeOK, Procs, Running, CheckPoints, CountOthers,
          Others, Goto, noticeVars, history
  <1>4. ASSUME NEW p \in Procs, CheckFails(p) PROVE SeenInv'
    BY <1>4
      DEF SeenInv, LockInv, Granted, TypeOK, Procs, Running, CheckPoints, CheckFails,
          LeaveCheck, Goto, history, NothingRead
  <1>5. ASSUME NEW p \in Procs, Load(p) PROVE SeenInv'
    BY <1>5
      DEF SeenInv, LockInv, Granted, TypeOK, Procs, Running, CheckPoints, Load,
          noticeVars, history
  <1>6. ASSUME NEW p \in Procs, Crash(p) PROVE SeenInv'
    BY <1>6
      DEF SeenInv, LockInv, Granted, TypeOK, Procs, Running, CheckPoints, Crash, Dies,
          LeaveCheck, Goto, NothingRead
  <1>7. ASSUME NEW p \in Procs, Restart(p) PROVE SeenInv'
    BY <1>7
      DEF SeenInv, LockInv, Granted, TypeOK, Procs, Running, CheckPoints, Restart, Goto,
          noticeVars, hostVars, history
  <1>8. ASSUME NEW l \in Live, StartLiveCheck(l) PROVE SeenInv'
    BY <1>8
      DEF SeenInv, LockInv, Granted, TypeOK, Procs, Running, CheckPoints, StartLiveCheck,
          Goto, noticeVars, hostVars, history
  <1>9. ASSUME NEW l \in Live, AdmitLive(l) PROVE SeenInv'
    BY <1>9
      DEF SeenInv, LockInv, Granted, TypeOK, Procs, Running, CheckPoints, AdmitLive,
          Reservation, HasClaim, LeaveCheck, Goto, NothingRead
  <1>10. ASSUME NEW l \in Live, RefuseLive(l) PROVE SeenInv'
    BY <1>10
      DEF SeenInv, LockInv, Granted, TypeOK, Procs, Running, CheckPoints, RefuseLive,
          LeaveCheck, Goto, history, NothingRead
  <1>11. ASSUME NEW l \in Live, UnloadIdle(l) PROVE SeenInv'
    BY <1>11
      DEF SeenInv, LockInv, Granted, TypeOK, Procs, Running, CheckPoints, UnloadIdle,
          Goto, noticeVars, hostVars, history
  <1>12. ASSUME NEW l \in Live, UnloadForPressure(l) PROVE SeenInv'
    BY <1>12
      DEF SeenInv, LockInv, Granted, TypeOK, Procs, Running, CheckPoints,
          UnloadForPressure, Goto, noticeVars, hostVars, history
  <1>13. ASSUME NEW l \in Live, StopRetrying(l) PROVE SeenInv'
    BY <1>13
      DEF SeenInv, LockInv, Granted, TypeOK, Procs, Running, CheckPoints, StopRetrying,
          Goto, noticeVars, hostVars, history
  <1>14. ASSUME NEW l \in Live, Close(l) PROVE SeenInv'
    BY <1>14
      DEF SeenInv, LockInv, Granted, TypeOK, Procs, Running, CheckPoints, Close, Goto,
          noticeVars, hostVars, history
  <1>15. ASSUME NEW l \in Live, ReleaseLive(l) PROVE SeenInv'
    BY <1>15
      DEF SeenInv, LockInv, Granted, TypeOK, Procs, Running, CheckPoints, ReleaseLive,
          AfterRelease, RemoveReservation, Goto, noticeVars, hostVars
  <1>16. ASSUME NEW l \in Live, WithdrawNotice(l) PROVE SeenInv'
    BY <1>16
      DEF SeenInv, LockInv, Granted, TypeOK, Procs, Running, CheckPoints, WithdrawNotice,
          Goto, hostVars, history
  <1>17. ASSUME NEW l \in Live, PostReloadNotice(l) PROVE SeenInv'
    BY <1>17
      DEF SeenInv, LockInv, Granted, TypeOK, Procs, Running, CheckPoints,
          PostReloadNotice, Goto, hostVars, history
  <1>18. ASSUME NEW l \in Live, Tick(l) PROVE SeenInv'
    BY <1>18
      DEF SeenInv, LockInv, Granted, TypeOK, Procs, Running, CheckPoints, Tick, hostVars,
          history
  <1>19. ASSUME NEW l \in Live, NoticeAges(l) PROVE SeenInv'
    BY <1>19
      DEF SeenInv, LockInv, Granted, TypeOK, Procs, Running, CheckPoints, NoticeAges,
          hostVars, history
  <1>20. ASSUME NEW l \in Live, RefusalLapses(l) PROVE SeenInv'
    BY <1>20
      DEF SeenInv, LockInv, Granted, TypeOK, Procs, Running, CheckPoints, RefusalLapses,
          hostVars, history
  <1>21. ASSUME NEW l \in Live, Exit(l) PROVE SeenInv'
    BY <1>21
      DEF SeenInv, LockInv, Granted, TypeOK, Procs, Running, CheckPoints, Exit, Dies, Goto
  <1>22. ASSUME NEW b \in Background, TakeHeavyLock(b) PROVE SeenInv'
    BY <1>22
      DEF SeenInv, LockInv, Granted, TypeOK, Procs, Running, CheckPoints, TakeHeavyLock,
          Goto, noticeVars, history
  <1>23. ASSUME NEW b \in Background, PassGate(b) PROVE SeenInv'
    BY <1>23
      DEF SeenInv, LockInv, Granted, TypeOK, Procs, Running, CheckPoints, PassGate, Goto,
          noticeVars, hostVars, history
  <1>24. ASSUME NEW b \in Background, LeaveGate(b) PROVE SeenInv'
    BY <1>24
      DEF SeenInv, LockInv, Granted, TypeOK, Procs, Running, CheckPoints, LeaveGate,
          Goto, noticeVars, hostVars, history
  <1>25. ASSUME NEW b \in Background, ReadNotices(b) PROVE SeenInv'
    BY <1>25
      DEF SeenInv, LockInv, Granted, TypeOK, Procs, Running, CheckPoints, ReadNotices,
          Goto, noticeVars, hostVars, history
  <1>26. ASSUME NEW b \in Background, AdmitBackground(b) PROVE SeenInv'
    BY <1>26
      DEF SeenInv, LockInv, Granted, TypeOK, Procs, Running, CheckPoints,
          AdmitBackground, Reservation, LeaveCheck, Goto, noticeVars, NothingRead
  <1>27. ASSUME NEW b \in Background, RefuseBackground(b) PROVE SeenInv'
    BY <1>27
      DEF SeenInv, LockInv, Granted, TypeOK, Procs, Running, CheckPoints,
          RefuseBackground, LeaveCheck, Goto, noticeVars, history, NothingRead
  <1>28. ASSUME NEW b \in Background, AskAgain(b) PROVE SeenInv'
    BY <1>28
      DEF SeenInv, LockInv, Granted, TypeOK, Procs, Running, CheckPoints, AskAgain, Goto,
          noticeVars, hostVars, history
  <1>29. ASSUME NEW b \in Background, Defer(b) PROVE SeenInv'
    BY <1>29
      DEF SeenInv, LockInv, Granted, TypeOK, Procs, Running, CheckPoints, Defer, Goto,
          noticeVars, hostVars, history
  <1>30. ASSUME NEW b \in Background, StopForLiveServer(b) PROVE SeenInv'
    BY <1>30
      DEF SeenInv, LockInv, Granted, TypeOK, Procs, Running, CheckPoints,
          StopForLiveServer, Goto, EndOfWork, noticeVars, hostVars, history
  <1>31. ASSUME NEW b \in Background, EndWork(b) PROVE SeenInv'
    BY <1>31
      DEF SeenInv, LockInv, Granted, TypeOK, Procs, Running, CheckPoints, EndWork, Goto,
          EndOfWork, noticeVars, hostVars, history
  <1>32. ASSUME NEW b \in Background, EndStep(b) PROVE SeenInv'
    BY <1>32
      DEF SeenInv, LockInv, Granted, TypeOK, Procs, Running, CheckPoints, EndStep, Goto,
          noticeVars, hostVars, history
  <1>33. ASSUME NEW b \in Background, ReleaseStep(b) PROVE SeenInv'
    BY <1>33
      DEF SeenInv, LockInv, Granted, TypeOK, Procs, Running, CheckPoints, ReleaseStep,
          RemoveReservation, NoLongerPast, Goto, noticeVars, hostVars
  <1>34. ASSUME NEW b \in Background, ReleaseBackground(b) PROVE SeenInv'
    BY <1>34
      DEF SeenInv, LockInv, Granted, TypeOK, Procs, Running, CheckPoints,
          ReleaseBackground, RemoveReservation, Goto, noticeVars, hostVars
  <1>35. ASSUME NEW b \in Background, ReleaseHeavyLock(b) PROVE SeenInv'
    BY <1>35
      DEF SeenInv, LockInv, Granted, TypeOK, Procs, Running, CheckPoints,
          ReleaseHeavyLock, Goto, noticeVars, history
  <1>36. ASSUME NEW b \in Background, LeaveHost(b) PROVE SeenInv'
    BY <1>36
      DEF SeenInv, LockInv, Granted, TypeOK, Procs, Running, CheckPoints, LeaveHost,
          NoLongerPast, Goto, noticeVars, hostVars
  <1>37. CASE UNCHANGED vars
    BY <1>37 DEF vars, hostVars, noticeVars, history, SeenInv, LockInv, Granted, TypeOK, Procs, Running, CheckPoints
  <1> QED
    BY <1>1, <1>2, <1>3, <1>4, <1>5, <1>6, <1>7, <1>8, <1>9, <1>10, <1>11, <1>12,
  <1>13, <1>14, <1>15, <1>16, <1>17, <1>18, <1>19, <1>20, <1>21, <1>22,
  <1>23, <1>24, <1>25, <1>26, <1>27, <1>28, <1>29, <1>30, <1>31, <1>32,
  <1>33, <1>34, <1>35, <1>36, <1>37
DEF Next, Check, LiveNext, BackgroundNext

\* Two granted processes never both overlooked the other.
LEMMA PairStep ==
    TypeOK /\ SeenInv /\ NoBlindPair /\ [Next]_vars => NoBlindPair'
  <1> SUFFICES ASSUME TypeOK, SeenInv, NoBlindPair, [Next]_vars PROVE NoBlindPair'
    OBVIOUS
  <1> USE ProcsAssumption
  <1>1. ASSUME NEW p \in Procs, TakeAdmissionLock(p) PROVE NoBlindPair'
    BY <1>1
      DEF NoBlindPair, SeenInv, Granted, TypeOK, Procs, Running, TakeAdmissionLock, Goto,
          noticeVars, hostVars, history
  <1>2. ASSUME NEW p \in Procs, Measure(p) PROVE NoBlindPair'
    BY <1>2
      DEF NoBlindPair, SeenInv, Granted, TypeOK, Procs, Running, Measure, NothingRead,
          Goto, noticeVars, history
  <1>3. ASSUME NEW p \in Procs, CountOthers(p) PROVE NoBlindPair'
    BY <1>3
      DEF NoBlindPair, SeenInv, Granted, TypeOK, Procs, Running, CountOthers, Goto,
          noticeVars, history
  <1>4. ASSUME NEW p \in Procs, CheckFails(p) PROVE NoBlindPair'
    BY <1>4
      DEF NoBlindPair, SeenInv, Granted, TypeOK, Procs, Running, CheckFails, CheckPoints,
          LeaveCheck, Goto, history, NothingRead
  <1>5. ASSUME NEW p \in Procs, Load(p) PROVE NoBlindPair'
    BY <1>5
      DEF NoBlindPair, SeenInv, Granted, TypeOK, Procs, Running, Load, noticeVars, history
  <1>6. ASSUME NEW p \in Procs, Crash(p) PROVE NoBlindPair'
    BY <1>6
      DEF NoBlindPair, SeenInv, Granted, TypeOK, Procs, Running, Crash, Dies, LeaveCheck,
          Goto, NothingRead
  <1>7. ASSUME NEW p \in Procs, Restart(p) PROVE NoBlindPair'
    BY <1>7
      DEF NoBlindPair, SeenInv, Granted, TypeOK, Procs, Running, Restart, Goto,
          noticeVars, hostVars, history
  <1>8. ASSUME NEW l \in Live, StartLiveCheck(l) PROVE NoBlindPair'
    BY <1>8
      DEF NoBlindPair, SeenInv, Granted, TypeOK, Procs, Running, StartLiveCheck, Goto,
          noticeVars, hostVars, history
  <1>9. ASSUME NEW l \in Live, AdmitLive(l) PROVE NoBlindPair'
    BY <1>9
      DEF NoBlindPair, SeenInv, Granted, TypeOK, Procs, Running, AdmitLive, Reservation,
          HasClaim, LeaveCheck, Goto, NothingRead
  <1>10. ASSUME NEW l \in Live, RefuseLive(l) PROVE NoBlindPair'
    BY <1>10
      DEF NoBlindPair, SeenInv, Granted, TypeOK, Procs, Running, RefuseLive, LeaveCheck,
          Goto, history, NothingRead
  <1>11. ASSUME NEW l \in Live, UnloadIdle(l) PROVE NoBlindPair'
    BY <1>11
      DEF NoBlindPair, SeenInv, Granted, TypeOK, Procs, Running, UnloadIdle, Goto,
          noticeVars, hostVars, history
  <1>12. ASSUME NEW l \in Live, UnloadForPressure(l) PROVE NoBlindPair'
    BY <1>12
      DEF NoBlindPair, SeenInv, Granted, TypeOK, Procs, Running, UnloadForPressure, Goto,
          noticeVars, hostVars, history
  <1>13. ASSUME NEW l \in Live, StopRetrying(l) PROVE NoBlindPair'
    BY <1>13
      DEF NoBlindPair, SeenInv, Granted, TypeOK, Procs, Running, StopRetrying, Goto,
          noticeVars, hostVars, history
  <1>14. ASSUME NEW l \in Live, Close(l) PROVE NoBlindPair'
    BY <1>14
      DEF NoBlindPair, SeenInv, Granted, TypeOK, Procs, Running, Close, Goto, noticeVars,
          hostVars, history
  <1>15. ASSUME NEW l \in Live, ReleaseLive(l) PROVE NoBlindPair'
    BY <1>15
      DEF NoBlindPair, SeenInv, Granted, TypeOK, Procs, Running, ReleaseLive,
          AfterRelease, RemoveReservation, Goto, noticeVars, hostVars
  <1>16. ASSUME NEW l \in Live, WithdrawNotice(l) PROVE NoBlindPair'
    BY <1>16
      DEF NoBlindPair, SeenInv, Granted, TypeOK, Procs, Running, WithdrawNotice, Goto,
          hostVars, history
  <1>17. ASSUME NEW l \in Live, PostReloadNotice(l) PROVE NoBlindPair'
    BY <1>17
      DEF NoBlindPair, SeenInv, Granted, TypeOK, Procs, Running, PostReloadNotice, Goto,
          hostVars, history
  <1>18. ASSUME NEW l \in Live, Tick(l) PROVE NoBlindPair'
    BY <1>18
      DEF NoBlindPair, SeenInv, Granted, TypeOK, Procs, Running, Tick, hostVars, history
  <1>19. ASSUME NEW l \in Live, NoticeAges(l) PROVE NoBlindPair'
    BY <1>19
      DEF NoBlindPair, SeenInv, Granted, TypeOK, Procs, Running, NoticeAges, hostVars,
          history
  <1>20. ASSUME NEW l \in Live, RefusalLapses(l) PROVE NoBlindPair'
    BY <1>20
      DEF NoBlindPair, SeenInv, Granted, TypeOK, Procs, Running, RefusalLapses, hostVars,
          history
  <1>21. ASSUME NEW l \in Live, Exit(l) PROVE NoBlindPair'
    BY <1>21
      DEF NoBlindPair, SeenInv, Granted, TypeOK, Procs, Running, Exit, Dies, Goto
  <1>22. ASSUME NEW b \in Background, TakeHeavyLock(b) PROVE NoBlindPair'
    BY <1>22
      DEF NoBlindPair, SeenInv, Granted, TypeOK, Procs, Running, TakeHeavyLock, Goto,
          noticeVars, history
  <1>23. ASSUME NEW b \in Background, PassGate(b) PROVE NoBlindPair'
    BY <1>23
      DEF NoBlindPair, SeenInv, Granted, TypeOK, Procs, Running, PassGate, Goto,
          noticeVars, hostVars, history
  <1>24. ASSUME NEW b \in Background, LeaveGate(b) PROVE NoBlindPair'
    BY <1>24
      DEF NoBlindPair, SeenInv, Granted, TypeOK, Procs, Running, LeaveGate, Goto,
          noticeVars, hostVars, history
  <1>25. ASSUME NEW b \in Background, ReadNotices(b) PROVE NoBlindPair'
    BY <1>25
      DEF NoBlindPair, SeenInv, Granted, TypeOK, Procs, Running, ReadNotices, Goto,
          noticeVars, hostVars, history
  <1>26. ASSUME NEW b \in Background, AdmitBackground(b) PROVE NoBlindPair'
    BY <1>26
      DEF NoBlindPair, SeenInv, Granted, TypeOK, Procs, Running, AdmitBackground,
          Reservation, LeaveCheck, Goto, noticeVars, NothingRead
  <1>27. ASSUME NEW b \in Background, RefuseBackground(b) PROVE NoBlindPair'
    BY <1>27
      DEF NoBlindPair, SeenInv, Granted, TypeOK, Procs, Running, RefuseBackground,
          LeaveCheck, Goto, noticeVars, history, NothingRead
  <1>28. ASSUME NEW b \in Background, AskAgain(b) PROVE NoBlindPair'
    BY <1>28
      DEF NoBlindPair, SeenInv, Granted, TypeOK, Procs, Running, AskAgain, Goto,
          noticeVars, hostVars, history
  <1>29. ASSUME NEW b \in Background, Defer(b) PROVE NoBlindPair'
    BY <1>29
      DEF NoBlindPair, SeenInv, Granted, TypeOK, Procs, Running, Defer, Goto, noticeVars,
          hostVars, history
  <1>30. ASSUME NEW b \in Background, StopForLiveServer(b) PROVE NoBlindPair'
    BY <1>30
      DEF NoBlindPair, SeenInv, Granted, TypeOK, Procs, Running, StopForLiveServer, Goto,
          EndOfWork, noticeVars, hostVars, history
  <1>31. ASSUME NEW b \in Background, EndWork(b) PROVE NoBlindPair'
    BY <1>31
      DEF NoBlindPair, SeenInv, Granted, TypeOK, Procs, Running, EndWork, Goto,
          EndOfWork, noticeVars, hostVars, history
  <1>32. ASSUME NEW b \in Background, EndStep(b) PROVE NoBlindPair'
    BY <1>32
      DEF NoBlindPair, SeenInv, Granted, TypeOK, Procs, Running, EndStep, Goto,
          noticeVars, hostVars, history
  <1>33. ASSUME NEW b \in Background, ReleaseStep(b) PROVE NoBlindPair'
    BY <1>33
      DEF NoBlindPair, SeenInv, Granted, TypeOK, Procs, Running, ReleaseStep,
          RemoveReservation, NoLongerPast, Goto, noticeVars, hostVars
  <1>34. ASSUME NEW b \in Background, ReleaseBackground(b) PROVE NoBlindPair'
    BY <1>34
      DEF NoBlindPair, SeenInv, Granted, TypeOK, Procs, Running, ReleaseBackground,
          RemoveReservation, Goto, noticeVars, hostVars
  <1>35. ASSUME NEW b \in Background, ReleaseHeavyLock(b) PROVE NoBlindPair'
    BY <1>35
      DEF NoBlindPair, SeenInv, Granted, TypeOK, Procs, Running, ReleaseHeavyLock, Goto,
          noticeVars, history
  <1>36. ASSUME NEW b \in Background, LeaveHost(b) PROVE NoBlindPair'
    BY <1>36
      DEF NoBlindPair, SeenInv, Granted, TypeOK, Procs, Running, LeaveHost, NoLongerPast,
          Goto, noticeVars, hostVars
  <1>37. CASE UNCHANGED vars
    BY <1>37 DEF vars, hostVars, noticeVars, history, NoBlindPair, SeenInv, Granted, TypeOK, Procs, Running
  <1> QED
    BY <1>1, <1>2, <1>3, <1>4, <1>5, <1>6, <1>7, <1>8, <1>9, <1>10, <1>11, <1>12,
  <1>13, <1>14, <1>15, <1>16, <1>17, <1>18, <1>19, <1>20, <1>21, <1>22,
  <1>23, <1>24, <1>25, <1>26, <1>27, <1>28, <1>29, <1>30, <1>31, <1>32,
  <1>33, <1>34, <1>35, <1>36, <1>37
DEF Next, Check, LiveNext, BackgroundNext

\* No check posts a notice while a background check has read there is none.
LEMMA WaitStep ==
    TypeOK /\ LockInv /\ WaitInv /\ [Next]_vars => WaitInv'
  <1> SUFFICES ASSUME TypeOK, LockInv, WaitInv, [Next]_vars PROVE WaitInv'
    OBVIOUS
  <1> USE ProcsAssumption
  <1>1. ASSUME NEW p \in Procs, TakeAdmissionLock(p) PROVE WaitInv'
    BY <1>1
      DEF WaitInv, LockInv, PostedByCheck, TypeOK, Procs, CheckPoints, TakeAdmissionLock,
          Goto, noticeVars, hostVars, history
  <1>2. ASSUME NEW p \in Procs, Measure(p) PROVE WaitInv'
    BY <1>2
      DEF WaitInv, LockInv, PostedByCheck, TypeOK, Procs, CheckPoints, Measure,
          NothingRead, Goto, noticeVars, history
  <1>3. ASSUME NEW p \in Procs, CountOthers(p) PROVE WaitInv'
    BY <1>3
      DEF WaitInv, LockInv, PostedByCheck, TypeOK, Procs, CheckPoints, CountOthers,
          Others, SetAside, Running, Goto, noticeVars, history
  <1>4. ASSUME NEW p \in Procs, CheckFails(p) PROVE WaitInv'
    BY <1>4
      DEF WaitInv, LockInv, PostedByCheck, TypeOK, Procs, CheckPoints, CheckFails,
          LeaveCheck, Goto, history, NothingRead
  <1>5. ASSUME NEW p \in Procs, Load(p) PROVE WaitInv'
    BY <1>5
      DEF WaitInv, LockInv, PostedByCheck, TypeOK, Procs, CheckPoints, Load, noticeVars,
          history
  <1>6. ASSUME NEW p \in Procs, Crash(p) PROVE WaitInv'
    BY <1>6
      DEF WaitInv, LockInv, PostedByCheck, TypeOK, Procs, CheckPoints, Crash, Running,
          Dies, LeaveCheck, Goto, NothingRead
  <1>7. ASSUME NEW p \in Procs, Restart(p) PROVE WaitInv'
    BY <1>7
      DEF WaitInv, LockInv, PostedByCheck, TypeOK, Procs, CheckPoints, Restart, Goto,
          noticeVars, hostVars, history
  <1>8. ASSUME NEW l \in Live, StartLiveCheck(l) PROVE WaitInv'
    BY <1>8
      DEF WaitInv, LockInv, PostedByCheck, TypeOK, Procs, CheckPoints, StartLiveCheck,
          Goto, Posted, noticeVars, hostVars, history
  <1>9. ASSUME NEW l \in Live, AdmitLive(l) PROVE WaitInv'
    BY <1>9
      DEF WaitInv, LockInv, PostedByCheck, TypeOK, Procs, CheckPoints, AdmitLive,
          Reservation, HasClaim, Settle, LeaveCheck, Goto, Running, Post, Withdraw,
          NothingRead, Posted
  <1>10. ASSUME NEW l \in Live, RefuseLive(l) PROVE WaitInv'
    BY <1>10
      DEF WaitInv, LockInv, PostedByCheck, TypeOK, Procs, CheckPoints, RefuseLive,
          Settle, LeaveCheck, Goto, history, Post, Withdraw, NothingRead, Posted
  <1>11. ASSUME NEW l \in Live, UnloadIdle(l) PROVE WaitInv'
    BY <1>11
      DEF WaitInv, LockInv, PostedByCheck, TypeOK, Procs, CheckPoints, UnloadIdle, Goto,
          noticeVars, hostVars, history
  <1>12. ASSUME NEW l \in Live, UnloadForPressure(l) PROVE WaitInv'
    BY <1>12
      DEF WaitInv, LockInv, PostedByCheck, TypeOK, Procs, CheckPoints, UnloadForPressure,
          Goto, noticeVars, hostVars, history
  <1>13. ASSUME NEW l \in Live, StopRetrying(l) PROVE WaitInv'
    BY <1>13
      DEF WaitInv, LockInv, PostedByCheck, TypeOK, Procs, CheckPoints, StopRetrying,
          Goto, noticeVars, hostVars, history
  <1>14. ASSUME NEW l \in Live, Close(l) PROVE WaitInv'
    BY <1>14
      DEF WaitInv, LockInv, PostedByCheck, TypeOK, Procs, CheckPoints, Close, Goto,
          noticeVars, hostVars, history
  <1>15. ASSUME NEW l \in Live, ReleaseLive(l) PROVE WaitInv'
    BY <1>15
      DEF WaitInv, LockInv, PostedByCheck, TypeOK, Procs, CheckPoints, ReleaseLive,
          AfterRelease, RemoveReservation, Goto, noticeVars, hostVars
  <1>16. ASSUME NEW l \in Live, WithdrawNotice(l) PROVE WaitInv'
    BY <1>16
      DEF WaitInv, LockInv, PostedByCheck, TypeOK, Procs, CheckPoints, WithdrawNotice,
          Withdraw, Goto, hostVars, history
  <1>17. ASSUME NEW l \in Live, PostReloadNotice(l) PROVE WaitInv'
    BY <1>17
      DEF WaitInv, LockInv, PostedByCheck, TypeOK, Procs, CheckPoints, PostReloadNotice,
          Post, Goto, hostVars, history, Posted
  <1>18. ASSUME NEW l \in Live, Tick(l) PROVE WaitInv'
    BY <1>18
      DEF WaitInv, LockInv, PostedByCheck, TypeOK, Procs, CheckPoints, Tick, Running,
          Withdraw, hostVars, history
  <1>19. ASSUME NEW l \in Live, NoticeAges(l) PROVE WaitInv'
    BY <1>19
      DEF WaitInv, LockInv, PostedByCheck, TypeOK, Procs, CheckPoints, NoticeAges,
          Posted, hostVars, history
  <1>20. ASSUME NEW l \in Live, RefusalLapses(l) PROVE WaitInv'
    BY <1>20
      DEF WaitInv, LockInv, PostedByCheck, TypeOK, Procs, CheckPoints, RefusalLapses,
          hostVars, history
  <1>21. ASSUME NEW l \in Live, Exit(l) PROVE WaitInv'
    BY <1>21
      DEF WaitInv, LockInv, PostedByCheck, TypeOK, Procs, CheckPoints, Exit, Dies, Goto
  <1>22. ASSUME NEW b \in Background, TakeHeavyLock(b) PROVE WaitInv'
    BY <1>22
      DEF WaitInv, LockInv, PostedByCheck, TypeOK, Procs, CheckPoints, TakeHeavyLock,
          Goto, noticeVars, history
  <1>23. ASSUME NEW b \in Background, PassGate(b) PROVE WaitInv'
    BY <1>23
      DEF WaitInv, LockInv, PostedByCheck, TypeOK, Procs, CheckPoints, PassGate, Goto,
          noticeVars, hostVars, history
  <1>24. ASSUME NEW b \in Background, LeaveGate(b) PROVE WaitInv'
    BY <1>24
      DEF WaitInv, LockInv, PostedByCheck, TypeOK, Procs, CheckPoints, LeaveGate, Goto,
          noticeVars, hostVars, history
  <1>25. ASSUME NEW b \in Background, ReadNotices(b) PROVE WaitInv'
    BY <1>25
      DEF WaitInv, LockInv, PostedByCheck, TypeOK, Procs, CheckPoints, ReadNotices,
          PostedNotices, Goto, noticeVars, hostVars, history, Posted
  <1>26. ASSUME NEW b \in Background, AdmitBackground(b) PROVE WaitInv'
    BY <1>26
      DEF WaitInv, LockInv, PostedByCheck, TypeOK, Procs, CheckPoints, AdmitBackground,
          Reservation, LeaveCheck, Goto, noticeVars, NothingRead
  <1>27. ASSUME NEW b \in Background, RefuseBackground(b) PROVE WaitInv'
    BY <1>27
      DEF WaitInv, LockInv, PostedByCheck, TypeOK, Procs, CheckPoints, RefuseBackground,
          LeaveCheck, Goto, noticeVars, history, NothingRead
  <1>28. ASSUME NEW b \in Background, AskAgain(b) PROVE WaitInv'
    BY <1>28
      DEF WaitInv, LockInv, PostedByCheck, TypeOK, Procs, CheckPoints, AskAgain, Goto,
          noticeVars, hostVars, history
  <1>29. ASSUME NEW b \in Background, Defer(b) PROVE WaitInv'
    BY <1>29
      DEF WaitInv, LockInv, PostedByCheck, TypeOK, Procs, CheckPoints, Defer, Goto,
          noticeVars, hostVars, history
  <1>30. ASSUME NEW b \in Background, StopForLiveServer(b) PROVE WaitInv'
    BY <1>30
      DEF WaitInv, LockInv, PostedByCheck, TypeOK, Procs, CheckPoints, StopForLiveServer,
          PostedNotices, Goto, EndOfWork, noticeVars, hostVars, history, Posted
  <1>31. ASSUME NEW b \in Background, EndWork(b) PROVE WaitInv'
    BY <1>31
      DEF WaitInv, LockInv, PostedByCheck, TypeOK, Procs, CheckPoints, EndWork, Goto,
          EndOfWork, noticeVars, hostVars, history
  <1>32. ASSUME NEW b \in Background, EndStep(b) PROVE WaitInv'
    BY <1>32
      DEF WaitInv, LockInv, PostedByCheck, TypeOK, Procs, CheckPoints, EndStep, Goto,
          noticeVars, hostVars, history
  <1>33. ASSUME NEW b \in Background, ReleaseStep(b) PROVE WaitInv'
    BY <1>33
      DEF WaitInv, LockInv, PostedByCheck, TypeOK, Procs, CheckPoints, ReleaseStep,
          RemoveReservation, NoLongerPast, Goto, noticeVars, hostVars
  <1>34. ASSUME NEW b \in Background, ReleaseBackground(b) PROVE WaitInv'
    BY <1>34
      DEF WaitInv, LockInv, PostedByCheck, TypeOK, Procs, CheckPoints, ReleaseBackground,
          RemoveReservation, Goto, noticeVars, hostVars
  <1>35. ASSUME NEW b \in Background, ReleaseHeavyLock(b) PROVE WaitInv'
    BY <1>35
      DEF WaitInv, LockInv, PostedByCheck, TypeOK, Procs, CheckPoints, ReleaseHeavyLock,
          Goto, noticeVars, history
  <1>36. ASSUME NEW b \in Background, LeaveHost(b) PROVE WaitInv'
    BY <1>36
      DEF WaitInv, LockInv, PostedByCheck, TypeOK, Procs, CheckPoints, LeaveHost,
          NoLongerPast, Goto, noticeVars, hostVars
  <1>37. CASE UNCHANGED vars
    BY <1>37 DEF vars, hostVars, noticeVars, history, WaitInv, LockInv, PostedByCheck, TypeOK, Procs, CheckPoints
  <1> QED
    BY <1>1, <1>2, <1>3, <1>4, <1>5, <1>6, <1>7, <1>8, <1>9, <1>10, <1>11, <1>12,
  <1>13, <1>14, <1>15, <1>16, <1>17, <1>18, <1>19, <1>20, <1>21, <1>22,
  <1>23, <1>24, <1>25, <1>26, <1>27, <1>28, <1>29, <1>30, <1>31, <1>32,
  <1>33, <1>34, <1>35, <1>36, <1>37
DEF Next, Check, LiveNext, BackgroundNext

\* A job a server is past is still at work.
LEMMA PastStep ==
    TypeOK /\ BackgroundClaimInv /\ PastInv /\ [Next]_vars => PastInv'
  <1> SUFFICES ASSUME TypeOK, BackgroundClaimInv, PastInv, [Next]_vars PROVE PastInv'
    OBVIOUS
  <1> USE ProcsAssumption
  <1>1. ASSUME NEW p \in Procs, TakeAdmissionLock(p) PROVE PastInv'
    BY <1>1
      DEF PastInv, BackgroundClaimInv, WorkPoints, TypeOK, Procs, HasClaim,
          TakeAdmissionLock, Goto, noticeVars, hostVars, history
  <1>2. ASSUME NEW p \in Procs, Measure(p) PROVE PastInv'
    BY <1>2
      DEF PastInv, BackgroundClaimInv, WorkPoints, TypeOK, Procs, HasClaim, Measure,
          NothingRead, Goto, noticeVars, history
  <1>3. ASSUME NEW p \in Procs, CountOthers(p) PROVE PastInv'
    BY <1>3
      DEF PastInv, BackgroundClaimInv, WorkPoints, TypeOK, Procs, HasClaim, CountOthers,
          Running, Goto, noticeVars, history
  <1>4. ASSUME NEW p \in Procs, CheckFails(p) PROVE PastInv'
    BY <1>4
      DEF PastInv, BackgroundClaimInv, WorkPoints, TypeOK, Procs, HasClaim, CheckFails,
          CheckPoints, LeaveCheck, Goto, history, NothingRead
  <1>5. ASSUME NEW p \in Procs, Load(p) PROVE PastInv'
    BY <1>5
      DEF PastInv, BackgroundClaimInv, WorkPoints, TypeOK, Procs, HasClaim, Load,
          noticeVars, history
  <1>6. ASSUME NEW p \in Procs, Crash(p) PROVE PastInv'
    BY <1>6
      DEF PastInv, BackgroundClaimInv, WorkPoints, TypeOK, Procs, HasClaim, Crash,
          Running, Dies, LeaveCheck, Goto, NothingRead
  <1>7. ASSUME NEW p \in Procs, Restart(p) PROVE PastInv'
    BY <1>7
      DEF PastInv, BackgroundClaimInv, WorkPoints, TypeOK, Procs, HasClaim, Restart,
          Goto, noticeVars, hostVars, history
  <1>8. ASSUME NEW l \in Live, StartLiveCheck(l) PROVE PastInv'
    BY <1>8
      DEF PastInv, BackgroundClaimInv, WorkPoints, TypeOK, Procs, HasClaim,
          StartLiveCheck, Goto, noticeVars, hostVars, history
  <1>9. ASSUME NEW l \in Live, AdmitLive(l) PROVE PastInv'
    BY <1>9
      DEF PastInv, BackgroundClaimInv, WorkPoints, TypeOK, Procs, HasClaim, AdmitLive,
          Reservation, LeaveCheck, Goto, Running, NothingRead
  <1>10. ASSUME NEW l \in Live, RefuseLive(l) PROVE PastInv'
    BY <1>10
      DEF PastInv, BackgroundClaimInv, WorkPoints, TypeOK, Procs, HasClaim, RefuseLive,
          LeaveCheck, Goto, history, NothingRead
  <1>11. ASSUME NEW l \in Live, UnloadIdle(l) PROVE PastInv'
    BY <1>11
      DEF PastInv, BackgroundClaimInv, WorkPoints, TypeOK, Procs, HasClaim, UnloadIdle,
          Goto, noticeVars, hostVars, history
  <1>12. ASSUME NEW l \in Live, UnloadForPressure(l) PROVE PastInv'
    BY <1>12
      DEF PastInv, BackgroundClaimInv, WorkPoints, TypeOK, Procs, HasClaim,
          UnloadForPressure, Goto, noticeVars, hostVars, history
  <1>13. ASSUME NEW l \in Live, StopRetrying(l) PROVE PastInv'
    BY <1>13
      DEF PastInv, BackgroundClaimInv, WorkPoints, TypeOK, Procs, HasClaim, StopRetrying,
          Goto, noticeVars, hostVars, history
  <1>14. ASSUME NEW l \in Live, Close(l) PROVE PastInv'
    BY <1>14
      DEF PastInv, BackgroundClaimInv, WorkPoints, TypeOK, Procs, HasClaim, Close, Goto,
          noticeVars, hostVars, history
  <1>15. ASSUME NEW l \in Live, ReleaseLive(l) PROVE PastInv'
    BY <1>15
      DEF PastInv, BackgroundClaimInv, WorkPoints, TypeOK, Procs, HasClaim, ReleaseLive,
          AfterRelease, RemoveReservation, Goto, noticeVars, hostVars
  <1>16. ASSUME NEW l \in Live, WithdrawNotice(l) PROVE PastInv'
    BY <1>16
      DEF PastInv, BackgroundClaimInv, WorkPoints, TypeOK, Procs, HasClaim,
          WithdrawNotice, Goto, hostVars, history
  <1>17. ASSUME NEW l \in Live, PostReloadNotice(l) PROVE PastInv'
    BY <1>17
      DEF PastInv, BackgroundClaimInv, WorkPoints, TypeOK, Procs, HasClaim,
          PostReloadNotice, Goto, hostVars, history
  <1>18. ASSUME NEW l \in Live, Tick(l) PROVE PastInv'
    BY <1>18
      DEF PastInv, BackgroundClaimInv, WorkPoints, TypeOK, Procs, HasClaim, Tick,
          Running, hostVars, history
  <1>19. ASSUME NEW l \in Live, NoticeAges(l) PROVE PastInv'
    BY <1>19
      DEF PastInv, BackgroundClaimInv, WorkPoints, TypeOK, Procs, HasClaim, NoticeAges,
          hostVars, history
  <1>20. ASSUME NEW l \in Live, RefusalLapses(l) PROVE PastInv'
    BY <1>20
      DEF PastInv, BackgroundClaimInv, WorkPoints, TypeOK, Procs, HasClaim,
          RefusalLapses, hostVars, history
  <1>21. ASSUME NEW l \in Live, Exit(l) PROVE PastInv'
    BY <1>21
      DEF PastInv, BackgroundClaimInv, WorkPoints, TypeOK, Procs, HasClaim, Exit, Dies,
          Goto
  <1>22. ASSUME NEW b \in Background, TakeHeavyLock(b) PROVE PastInv'
    BY <1>22
      DEF PastInv, BackgroundClaimInv, WorkPoints, TypeOK, Procs, HasClaim,
          TakeHeavyLock, Goto, noticeVars, history
  <1>23. ASSUME NEW b \in Background, PassGate(b) PROVE PastInv'
    BY <1>23
      DEF PastInv, BackgroundClaimInv, WorkPoints, TypeOK, Procs, HasClaim, PassGate,
          Goto, noticeVars, hostVars, history
  <1>24. ASSUME NEW b \in Background, LeaveGate(b) PROVE PastInv'
    BY <1>24
      DEF PastInv, BackgroundClaimInv, WorkPoints, TypeOK, Procs, HasClaim, LeaveGate,
          Goto, noticeVars, hostVars, history
  <1>25. ASSUME NEW b \in Background, ReadNotices(b) PROVE PastInv'
    BY <1>25
      DEF PastInv, BackgroundClaimInv, WorkPoints, TypeOK, Procs, HasClaim, ReadNotices,
          Goto, noticeVars, hostVars, history
  <1>26. ASSUME NEW b \in Background, AdmitBackground(b) PROVE PastInv'
    BY <1>26
      DEF PastInv, BackgroundClaimInv, WorkPoints, TypeOK, Procs, HasClaim,
          AdmitBackground, Reservation, LeaveCheck, Goto, noticeVars, NothingRead
  <1>27. ASSUME NEW b \in Background, RefuseBackground(b) PROVE PastInv'
    BY <1>27
      DEF PastInv, BackgroundClaimInv, WorkPoints, TypeOK, Procs, HasClaim,
          RefuseBackground, LeaveCheck, Goto, noticeVars, history, NothingRead
  <1>28. ASSUME NEW b \in Background, AskAgain(b) PROVE PastInv'
    BY <1>28
      DEF PastInv, BackgroundClaimInv, WorkPoints, TypeOK, Procs, HasClaim, AskAgain,
          Goto, noticeVars, hostVars, history
  <1>29. ASSUME NEW b \in Background, Defer(b) PROVE PastInv'
    BY <1>29
      DEF PastInv, BackgroundClaimInv, WorkPoints, TypeOK, Procs, HasClaim, Defer, Goto,
          noticeVars, hostVars, history
  <1>30. ASSUME NEW b \in Background, StopForLiveServer(b) PROVE PastInv'
    BY <1>30
      DEF PastInv, BackgroundClaimInv, WorkPoints, TypeOK, Procs, HasClaim,
          StopForLiveServer, Goto, EndOfWork, noticeVars, hostVars, history
  <1>31. ASSUME NEW b \in Background, EndWork(b) PROVE PastInv'
    BY <1>31
      DEF PastInv, BackgroundClaimInv, WorkPoints, TypeOK, Procs, HasClaim, EndWork,
          Goto, EndOfWork, noticeVars, hostVars, history
  <1>32. ASSUME NEW b \in Background, EndStep(b) PROVE PastInv'
    BY <1>32
      DEF PastInv, BackgroundClaimInv, WorkPoints, TypeOK, Procs, HasClaim, EndStep,
          Goto, noticeVars, hostVars, history
  <1>33. ASSUME NEW b \in Background, ReleaseStep(b) PROVE PastInv'
    BY <1>33
      DEF PastInv, BackgroundClaimInv, WorkPoints, TypeOK, Procs, HasClaim, ReleaseStep,
          RemoveReservation, NoLongerPast, Goto, noticeVars, hostVars
  <1>34. ASSUME NEW b \in Background, ReleaseBackground(b) PROVE PastInv'
    BY <1>34
      DEF PastInv, BackgroundClaimInv, WorkPoints, TypeOK, Procs, HasClaim,
          ReleaseBackground, RemoveReservation, Goto, noticeVars, hostVars
  <1>35. ASSUME NEW b \in Background, ReleaseHeavyLock(b) PROVE PastInv'
    BY <1>35
      DEF PastInv, BackgroundClaimInv, WorkPoints, TypeOK, Procs, HasClaim,
          ReleaseHeavyLock, Goto, noticeVars, history
  <1>36. ASSUME NEW b \in Background, LeaveHost(b) PROVE PastInv'
    BY <1>36
      DEF PastInv, BackgroundClaimInv, WorkPoints, TypeOK, Procs, HasClaim, LeaveHost,
          NoLongerPast, Goto, noticeVars, hostVars
  <1>37. CASE UNCHANGED vars
    BY <1>37 DEF vars, hostVars, noticeVars, history, PastInv, BackgroundClaimInv, WorkPoints, TypeOK, Procs, HasClaim
  <1> QED
    BY <1>1, <1>2, <1>3, <1>4, <1>5, <1>6, <1>7, <1>8, <1>9, <1>10, <1>11, <1>12,
  <1>13, <1>14, <1>15, <1>16, <1>17, <1>18, <1>19, <1>20, <1>21, <1>22,
  <1>23, <1>24, <1>25, <1>26, <1>27, <1>28, <1>29, <1>30, <1>31, <1>32,
  <1>33, <1>34, <1>35, <1>36, <1>37
DEF Next, Check, LiveNext, BackgroundNext

\* The notice of a server admitted past a job stays while the job does.
LEMMA PastNoticeStep ==
    TypeOK /\ LiveClaimInv /\ BackgroundClaimInv /\ PastInv /\ PastNoticeStaysUp /\ [Next]_vars => PastNoticeStaysUp'
  <1> SUFFICES ASSUME TypeOK, LiveClaimInv, BackgroundClaimInv, PastInv, PastNoticeStaysUp, [Next]_vars PROVE PastNoticeStaysUp'
    OBVIOUS
  <1> USE ProcsAssumption
  <1>1. ASSUME NEW p \in Procs, TakeAdmissionLock(p) PROVE PastNoticeStaysUp'
    BY <1>1
      DEF PastNoticeStaysUp, Granted, LiveClaimInv, BackgroundClaimInv, PastInv,
          WorkPoints, TypeOK, Procs, Running, HasClaim, TakeAdmissionLock, Goto,
          noticeVars, hostVars, history
  <1>2. ASSUME NEW p \in Procs, Measure(p) PROVE PastNoticeStaysUp'
    BY <1>2
      DEF PastNoticeStaysUp, Granted, LiveClaimInv, BackgroundClaimInv, PastInv,
          WorkPoints, TypeOK, Procs, Running, HasClaim, Measure, NothingRead, Goto,
          noticeVars, history
  <1>3. ASSUME NEW p \in Procs, CountOthers(p) PROVE PastNoticeStaysUp'
    BY <1>3
      DEF PastNoticeStaysUp, Granted, LiveClaimInv, BackgroundClaimInv, PastInv,
          WorkPoints, TypeOK, Procs, Running, HasClaim, CountOthers, Others, SetAside,
          Goto, noticeVars, history
  <1>4. ASSUME NEW p \in Procs, CheckFails(p) PROVE PastNoticeStaysUp'
    BY <1>4
      DEF PastNoticeStaysUp, Granted, LiveClaimInv, BackgroundClaimInv, PastInv,
          WorkPoints, TypeOK, Procs, Running, HasClaim, CheckFails, CheckPoints,
          LeaveCheck, Goto, history, NothingRead
  <1>5. ASSUME NEW p \in Procs, Load(p) PROVE PastNoticeStaysUp'
    BY <1>5
      DEF PastNoticeStaysUp, Granted, LiveClaimInv, BackgroundClaimInv, PastInv,
          WorkPoints, TypeOK, Procs, Running, HasClaim, Load, noticeVars, history
  <1>6. ASSUME NEW p \in Procs, Crash(p) PROVE PastNoticeStaysUp'
    BY <1>6
      DEF PastNoticeStaysUp, Granted, LiveClaimInv, BackgroundClaimInv, PastInv,
          WorkPoints, TypeOK, Procs, Running, HasClaim, Crash, Dies, LeaveCheck, Goto,
          NothingRead
  <1>7. ASSUME NEW p \in Procs, Restart(p) PROVE PastNoticeStaysUp'
    BY <1>7
      DEF PastNoticeStaysUp, Granted, LiveClaimInv, BackgroundClaimInv, PastInv,
          WorkPoints, TypeOK, Procs, Running, HasClaim, Restart, Goto, noticeVars,
          hostVars, history
  <1>8. ASSUME NEW l \in Live, StartLiveCheck(l) PROVE PastNoticeStaysUp'
    BY <1>8
      DEF PastNoticeStaysUp, Granted, LiveClaimInv, BackgroundClaimInv, PastInv,
          WorkPoints, TypeOK, Procs, Running, HasClaim, StartLiveCheck, Goto, Posted,
          noticeVars, hostVars, history
  <1>9. ASSUME NEW l \in Live, AdmitLive(l) PROVE PastNoticeStaysUp'
    BY <1>9
      DEF PastNoticeStaysUp, Granted, LiveClaimInv, BackgroundClaimInv, PastInv,
          WorkPoints, TypeOK, Procs, Running, HasClaim, AdmitLive, Reservation, Settle,
          LeaveCheck, Goto, Post, Withdraw, NothingRead, Posted
  <1>10. ASSUME NEW l \in Live, RefuseLive(l) PROVE PastNoticeStaysUp'
    BY <1>10
      DEF PastNoticeStaysUp, Granted, LiveClaimInv, BackgroundClaimInv, PastInv,
          WorkPoints, TypeOK, Procs, Running, HasClaim, RefuseLive, Settle, LeaveCheck,
          Goto, history, Post, Withdraw, NothingRead, Posted
  <1>11. ASSUME NEW l \in Live, UnloadIdle(l) PROVE PastNoticeStaysUp'
    BY <1>11
      DEF PastNoticeStaysUp, Granted, LiveClaimInv, BackgroundClaimInv, PastInv,
          WorkPoints, TypeOK, Procs, Running, HasClaim, UnloadIdle, Goto, noticeVars,
          hostVars, history
  <1>12. ASSUME NEW l \in Live, UnloadForPressure(l) PROVE PastNoticeStaysUp'
    BY <1>12
      DEF PastNoticeStaysUp, Granted, LiveClaimInv, BackgroundClaimInv, PastInv,
          WorkPoints, TypeOK, Procs, Running, HasClaim, UnloadForPressure, Goto,
          noticeVars, hostVars, history
  <1>13. ASSUME NEW l \in Live, StopRetrying(l) PROVE PastNoticeStaysUp'
    BY <1>13
      DEF PastNoticeStaysUp, Granted, LiveClaimInv, BackgroundClaimInv, PastInv,
          WorkPoints, TypeOK, Procs, Running, HasClaim, StopRetrying, Goto, noticeVars,
          hostVars, history
  <1>14. ASSUME NEW l \in Live, Close(l) PROVE PastNoticeStaysUp'
    BY <1>14
      DEF PastNoticeStaysUp, Granted, LiveClaimInv, BackgroundClaimInv, PastInv,
          WorkPoints, TypeOK, Procs, Running, HasClaim, Close, Goto, noticeVars,
          hostVars, history
  <1>15. ASSUME NEW l \in Live, ReleaseLive(l) PROVE PastNoticeStaysUp'
    BY <1>15
      DEF PastNoticeStaysUp, Granted, LiveClaimInv, BackgroundClaimInv, PastInv,
          WorkPoints, TypeOK, Procs, Running, HasClaim, ReleaseLive, AfterRelease,
          RemoveReservation, Goto, noticeVars, hostVars
  <1>16. ASSUME NEW l \in Live, WithdrawNotice(l) PROVE PastNoticeStaysUp'
    BY <1>16
      DEF PastNoticeStaysUp, Granted, LiveClaimInv, BackgroundClaimInv, PastInv,
          WorkPoints, TypeOK, Procs, Running, HasClaim, WithdrawNotice, Withdraw, Goto,
          hostVars, history
  <1>17. ASSUME NEW l \in Live, PostReloadNotice(l) PROVE PastNoticeStaysUp'
    BY <1>17
      DEF PastNoticeStaysUp, Granted, LiveClaimInv, BackgroundClaimInv, PastInv,
          WorkPoints, TypeOK, Procs, Running, HasClaim, PostReloadNotice, Post, Goto,
          hostVars, history, Posted
  <1>18. ASSUME NEW l \in Live, Tick(l) PROVE PastNoticeStaysUp'
    BY <1>18
      DEF PastNoticeStaysUp, Granted, LiveClaimInv, BackgroundClaimInv, PastInv,
          WorkPoints, TypeOK, Procs, Running, HasClaim, Tick, BackgroundJobsRunning,
          Withdraw, hostVars, history, Others
  <1>19. ASSUME NEW l \in Live, NoticeAges(l) PROVE PastNoticeStaysUp'
    BY <1>19
      DEF PastNoticeStaysUp, Granted, LiveClaimInv, BackgroundClaimInv, PastInv,
          WorkPoints, TypeOK, Procs, Running, HasClaim, NoticeAges, Posted, hostVars,
          history
  <1>20. ASSUME NEW l \in Live, RefusalLapses(l) PROVE PastNoticeStaysUp'
    BY <1>20
      DEF PastNoticeStaysUp, Granted, LiveClaimInv, BackgroundClaimInv, PastInv,
          WorkPoints, TypeOK, Procs, Running, HasClaim, RefusalLapses, hostVars, history
  <1>21. ASSUME NEW l \in Live, Exit(l) PROVE PastNoticeStaysUp'
    BY <1>21
      DEF PastNoticeStaysUp, Granted, LiveClaimInv, BackgroundClaimInv, PastInv,
          WorkPoints, TypeOK, Procs, Running, HasClaim, Exit, Dies, Goto
  <1>22. ASSUME NEW b \in Background, TakeHeavyLock(b) PROVE PastNoticeStaysUp'
    BY <1>22
      DEF PastNoticeStaysUp, Granted, LiveClaimInv, BackgroundClaimInv, PastInv,
          WorkPoints, TypeOK, Procs, Running, HasClaim, TakeHeavyLock, Goto, noticeVars,
          history
  <1>23. ASSUME NEW b \in Background, PassGate(b) PROVE PastNoticeStaysUp'
    BY <1>23
      DEF PastNoticeStaysUp, Granted, LiveClaimInv, BackgroundClaimInv, PastInv,
          WorkPoints, TypeOK, Procs, Running, HasClaim, PassGate, Goto, noticeVars,
          hostVars, history
  <1>24. ASSUME NEW b \in Background, LeaveGate(b) PROVE PastNoticeStaysUp'
    BY <1>24
      DEF PastNoticeStaysUp, Granted, LiveClaimInv, BackgroundClaimInv, PastInv,
          WorkPoints, TypeOK, Procs, Running, HasClaim, LeaveGate, Goto, noticeVars,
          hostVars, history
  <1>25. ASSUME NEW b \in Background, ReadNotices(b) PROVE PastNoticeStaysUp'
    BY <1>25
      DEF PastNoticeStaysUp, Granted, LiveClaimInv, BackgroundClaimInv, PastInv,
          WorkPoints, TypeOK, Procs, Running, HasClaim, ReadNotices, PostedNotices, Goto,
          noticeVars, hostVars, history, Posted
  <1>26. ASSUME NEW b \in Background, AdmitBackground(b) PROVE PastNoticeStaysUp'
    BY <1>26
      DEF PastNoticeStaysUp, Granted, LiveClaimInv, BackgroundClaimInv, PastInv,
          WorkPoints, TypeOK, Procs, Running, HasClaim, AdmitBackground, Reservation,
          LeaveCheck, Goto, noticeVars, NothingRead
  <1>27. ASSUME NEW b \in Background, RefuseBackground(b) PROVE PastNoticeStaysUp'
    BY <1>27
      DEF PastNoticeStaysUp, Granted, LiveClaimInv, BackgroundClaimInv, PastInv,
          WorkPoints, TypeOK, Procs, Running, HasClaim, RefuseBackground, LeaveCheck,
          Goto, noticeVars, history, NothingRead
  <1>28. ASSUME NEW b \in Background, AskAgain(b) PROVE PastNoticeStaysUp'
    BY <1>28
      DEF PastNoticeStaysUp, Granted, LiveClaimInv, BackgroundClaimInv, PastInv,
          WorkPoints, TypeOK, Procs, Running, HasClaim, AskAgain, Goto, noticeVars,
          hostVars, history
  <1>29. ASSUME NEW b \in Background, Defer(b) PROVE PastNoticeStaysUp'
    BY <1>29
      DEF PastNoticeStaysUp, Granted, LiveClaimInv, BackgroundClaimInv, PastInv,
          WorkPoints, TypeOK, Procs, Running, HasClaim, Defer, Goto, noticeVars,
          hostVars, history
  <1>30. ASSUME NEW b \in Background, StopForLiveServer(b) PROVE PastNoticeStaysUp'
    BY <1>30
      DEF PastNoticeStaysUp, Granted, LiveClaimInv, BackgroundClaimInv, PastInv,
          WorkPoints, TypeOK, Procs, Running, HasClaim, StopForLiveServer, PostedNotices,
          Goto, EndOfWork, noticeVars, hostVars, history, Posted
  <1>31. ASSUME NEW b \in Background, EndWork(b) PROVE PastNoticeStaysUp'
    BY <1>31
      DEF PastNoticeStaysUp, Granted, LiveClaimInv, BackgroundClaimInv, PastInv,
          WorkPoints, TypeOK, Procs, Running, HasClaim, EndWork, Goto, EndOfWork,
          noticeVars, hostVars, history
  <1>32. ASSUME NEW b \in Background, EndStep(b) PROVE PastNoticeStaysUp'
    BY <1>32
      DEF PastNoticeStaysUp, Granted, LiveClaimInv, BackgroundClaimInv, PastInv,
          WorkPoints, TypeOK, Procs, Running, HasClaim, EndStep, Goto, noticeVars,
          hostVars, history
  <1>33. ASSUME NEW b \in Background, ReleaseStep(b) PROVE PastNoticeStaysUp'
    BY <1>33
      DEF PastNoticeStaysUp, Granted, LiveClaimInv, BackgroundClaimInv, PastInv,
          WorkPoints, TypeOK, Procs, Running, HasClaim, ReleaseStep, RemoveReservation,
          NoLongerPast, Goto, noticeVars, hostVars
  <1>34. ASSUME NEW b \in Background, ReleaseBackground(b) PROVE PastNoticeStaysUp'
    BY <1>34
      DEF PastNoticeStaysUp, Granted, LiveClaimInv, BackgroundClaimInv, PastInv,
          WorkPoints, TypeOK, Procs, Running, HasClaim, ReleaseBackground,
          RemoveReservation, Goto, noticeVars, hostVars
  <1>35. ASSUME NEW b \in Background, ReleaseHeavyLock(b) PROVE PastNoticeStaysUp'
    BY <1>35
      DEF PastNoticeStaysUp, Granted, LiveClaimInv, BackgroundClaimInv, PastInv,
          WorkPoints, TypeOK, Procs, Running, HasClaim, ReleaseHeavyLock, Goto,
          noticeVars, history
  <1>36. ASSUME NEW b \in Background, LeaveHost(b) PROVE PastNoticeStaysUp'
    BY <1>36
      DEF PastNoticeStaysUp, Granted, LiveClaimInv, BackgroundClaimInv, PastInv,
          WorkPoints, TypeOK, Procs, Running, HasClaim, LeaveHost, NoLongerPast, Goto,
          noticeVars, hostVars
  <1>37. CASE UNCHANGED vars
    BY <1>37 DEF vars, hostVars, noticeVars, history, PastNoticeStaysUp, Granted, LiveClaimInv, BackgroundClaimInv, PastInv, WorkPoints, TypeOK, Procs, Running, HasClaim
  <1> QED
    BY <1>1, <1>2, <1>3, <1>4, <1>5, <1>6, <1>7, <1>8, <1>9, <1>10, <1>11, <1>12,
  <1>13, <1>14, <1>15, <1>16, <1>17, <1>18, <1>19, <1>20, <1>21, <1>22,
  <1>23, <1>24, <1>25, <1>26, <1>27, <1>28, <1>29, <1>30, <1>31, <1>32,
  <1>33, <1>34, <1>35, <1>36, <1>37
DEF Next, Check, LiveNext, BackgroundNext

\* A background reservation appears only where no check's notice is up.
GivesWayNow ==
    \A c \in Background : ~Granted(c) /\ Granted(c)' => \A k \in Live : ~PostedByCheck(k)

\* The only step that grants a background command is its own admission.
LEMMA GivesWayStep == TypeOK /\ WaitInv /\ [Next]_vars => GivesWayNow
  <1> SUFFICES ASSUME TypeOK, WaitInv, [Next]_vars PROVE GivesWayNow
    OBVIOUS
  <1> USE ProcsAssumption
  <1>1. ASSUME NEW p \in Procs, TakeAdmissionLock(p) PROVE GivesWayNow
    BY <1>1
      DEF GivesWayNow, WaitInv, Granted, TypeOK, Procs, Running, TakeAdmissionLock, Goto,
          noticeVars, hostVars, history
  <1>2. ASSUME NEW p \in Procs, Measure(p) PROVE GivesWayNow
    BY <1>2
      DEF GivesWayNow, WaitInv, Granted, TypeOK, Procs, Running, Measure, NothingRead,
          Goto, noticeVars, history
  <1>3. ASSUME NEW p \in Procs, CountOthers(p) PROVE GivesWayNow
    BY <1>3
      DEF GivesWayNow, WaitInv, Granted, TypeOK, Procs, Running, CountOthers, Goto,
          noticeVars, history
  <1>4. ASSUME NEW p \in Procs, CheckFails(p) PROVE GivesWayNow
    BY <1>4
      DEF GivesWayNow, WaitInv, Granted, TypeOK, Procs, Running, CheckFails, CheckPoints,
          LeaveCheck, Goto, history, NothingRead
  <1>5. ASSUME NEW p \in Procs, Load(p) PROVE GivesWayNow
    BY <1>5
      DEF GivesWayNow, WaitInv, Granted, TypeOK, Procs, Running, Load, noticeVars, history
  <1>6. ASSUME NEW p \in Procs, Crash(p) PROVE GivesWayNow
    BY <1>6
      DEF GivesWayNow, WaitInv, Granted, TypeOK, Procs, Running, Crash, Dies, LeaveCheck,
          Goto, NothingRead
  <1>7. ASSUME NEW p \in Procs, Restart(p) PROVE GivesWayNow
    BY <1>7
      DEF GivesWayNow, WaitInv, Granted, TypeOK, Procs, Running, Restart, Goto,
          noticeVars, hostVars, history
  <1>8. ASSUME NEW l \in Live, StartLiveCheck(l) PROVE GivesWayNow
    BY <1>8
      DEF GivesWayNow, WaitInv, Granted, TypeOK, Procs, Running, StartLiveCheck, Goto,
          noticeVars, hostVars, history
  <1>9. ASSUME NEW l \in Live, AdmitLive(l) PROVE GivesWayNow
    BY <1>9
      DEF GivesWayNow, WaitInv, Granted, TypeOK, Procs, Running, AdmitLive, Reservation,
          HasClaim, LeaveCheck, Goto, NothingRead
  <1>10. ASSUME NEW l \in Live, RefuseLive(l) PROVE GivesWayNow
    BY <1>10
      DEF GivesWayNow, WaitInv, Granted, TypeOK, Procs, Running, RefuseLive, LeaveCheck,
          Goto, history, NothingRead
  <1>11. ASSUME NEW l \in Live, UnloadIdle(l) PROVE GivesWayNow
    BY <1>11
      DEF GivesWayNow, WaitInv, Granted, TypeOK, Procs, Running, UnloadIdle, Goto,
          noticeVars, hostVars, history
  <1>12. ASSUME NEW l \in Live, UnloadForPressure(l) PROVE GivesWayNow
    BY <1>12
      DEF GivesWayNow, WaitInv, Granted, TypeOK, Procs, Running, UnloadForPressure, Goto,
          noticeVars, hostVars, history
  <1>13. ASSUME NEW l \in Live, StopRetrying(l) PROVE GivesWayNow
    BY <1>13
      DEF GivesWayNow, WaitInv, Granted, TypeOK, Procs, Running, StopRetrying, Goto,
          noticeVars, hostVars, history
  <1>14. ASSUME NEW l \in Live, Close(l) PROVE GivesWayNow
    BY <1>14
      DEF GivesWayNow, WaitInv, Granted, TypeOK, Procs, Running, Close, Goto, noticeVars,
          hostVars, history
  <1>15. ASSUME NEW l \in Live, ReleaseLive(l) PROVE GivesWayNow
    BY <1>15
      DEF GivesWayNow, WaitInv, Granted, TypeOK, Procs, Running, ReleaseLive,
          AfterRelease, RemoveReservation, Goto, noticeVars, hostVars
  <1>16. ASSUME NEW l \in Live, WithdrawNotice(l) PROVE GivesWayNow
    BY <1>16
      DEF GivesWayNow, WaitInv, Granted, TypeOK, Procs, Running, WithdrawNotice, Goto,
          hostVars, history
  <1>17. ASSUME NEW l \in Live, PostReloadNotice(l) PROVE GivesWayNow
    BY <1>17
      DEF GivesWayNow, WaitInv, Granted, TypeOK, Procs, Running, PostReloadNotice, Goto,
          hostVars, history
  <1>18. ASSUME NEW l \in Live, Tick(l) PROVE GivesWayNow
    BY <1>18
      DEF GivesWayNow, WaitInv, Granted, TypeOK, Procs, Running, Tick, hostVars, history
  <1>19. ASSUME NEW l \in Live, NoticeAges(l) PROVE GivesWayNow
    BY <1>19
      DEF GivesWayNow, WaitInv, Granted, TypeOK, Procs, Running, NoticeAges, hostVars,
          history
  <1>20. ASSUME NEW l \in Live, RefusalLapses(l) PROVE GivesWayNow
    BY <1>20
      DEF GivesWayNow, WaitInv, Granted, TypeOK, Procs, Running, RefusalLapses, hostVars,
          history
  <1>21. ASSUME NEW l \in Live, Exit(l) PROVE GivesWayNow
    BY <1>21
      DEF GivesWayNow, WaitInv, Granted, TypeOK, Procs, Running, Exit, Dies, Goto
  <1>22. ASSUME NEW b \in Background, TakeHeavyLock(b) PROVE GivesWayNow
    BY <1>22
      DEF GivesWayNow, WaitInv, Granted, TypeOK, Procs, Running, TakeHeavyLock, Goto,
          noticeVars, history
  <1>23. ASSUME NEW b \in Background, PassGate(b) PROVE GivesWayNow
    BY <1>23
      DEF GivesWayNow, WaitInv, Granted, TypeOK, Procs, Running, PassGate, Goto,
          noticeVars, hostVars, history
  <1>24. ASSUME NEW b \in Background, LeaveGate(b) PROVE GivesWayNow
    BY <1>24
      DEF GivesWayNow, WaitInv, Granted, TypeOK, Procs, Running, LeaveGate, Goto,
          noticeVars, hostVars, history
  <1>25. ASSUME NEW b \in Background, ReadNotices(b) PROVE GivesWayNow
    BY <1>25
      DEF GivesWayNow, WaitInv, Granted, TypeOK, Procs, Running, ReadNotices, Goto,
          noticeVars, hostVars, history
  <1>26. ASSUME NEW b \in Background, AdmitBackground(b) PROVE GivesWayNow
    BY <1>26
      DEF GivesWayNow, WaitInv, Granted, TypeOK, Procs, Running, AdmitBackground, Admits,
          Reservation, Goto
  <1>27. ASSUME NEW b \in Background, RefuseBackground(b) PROVE GivesWayNow
    BY <1>27
      DEF GivesWayNow, WaitInv, Granted, TypeOK, Procs, Running, RefuseBackground,
          LeaveCheck, Goto, noticeVars, history, NothingRead
  <1>28. ASSUME NEW b \in Background, AskAgain(b) PROVE GivesWayNow
    BY <1>28
      DEF GivesWayNow, WaitInv, Granted, TypeOK, Procs, Running, AskAgain, Goto,
          noticeVars, hostVars, history
  <1>29. ASSUME NEW b \in Background, Defer(b) PROVE GivesWayNow
    BY <1>29
      DEF GivesWayNow, WaitInv, Granted, TypeOK, Procs, Running, Defer, Goto, noticeVars,
          hostVars, history
  <1>30. ASSUME NEW b \in Background, StopForLiveServer(b) PROVE GivesWayNow
    BY <1>30
      DEF GivesWayNow, WaitInv, Granted, TypeOK, Procs, Running, StopForLiveServer, Goto,
          EndOfWork, noticeVars, hostVars, history
  <1>31. ASSUME NEW b \in Background, EndWork(b) PROVE GivesWayNow
    BY <1>31
      DEF GivesWayNow, WaitInv, Granted, TypeOK, Procs, Running, EndWork, Goto,
          EndOfWork, noticeVars, hostVars, history
  <1>32. ASSUME NEW b \in Background, EndStep(b) PROVE GivesWayNow
    BY <1>32
      DEF GivesWayNow, WaitInv, Granted, TypeOK, Procs, Running, EndStep, Goto,
          noticeVars, hostVars, history
  <1>33. ASSUME NEW b \in Background, ReleaseStep(b) PROVE GivesWayNow
    BY <1>33
      DEF GivesWayNow, WaitInv, Granted, TypeOK, Procs, Running, ReleaseStep,
          RemoveReservation, NoLongerPast, Goto, noticeVars, hostVars
  <1>34. ASSUME NEW b \in Background, ReleaseBackground(b) PROVE GivesWayNow
    BY <1>34
      DEF GivesWayNow, WaitInv, Granted, TypeOK, Procs, Running, ReleaseBackground,
          RemoveReservation, Goto, noticeVars, hostVars
  <1>35. ASSUME NEW b \in Background, ReleaseHeavyLock(b) PROVE GivesWayNow
    BY <1>35
      DEF GivesWayNow, WaitInv, Granted, TypeOK, Procs, Running, ReleaseHeavyLock, Goto,
          noticeVars, history
  <1>36. ASSUME NEW b \in Background, LeaveHost(b) PROVE GivesWayNow
    BY <1>36
      DEF GivesWayNow, WaitInv, Granted, TypeOK, Procs, Running, LeaveHost, NoLongerPast,
          Goto, noticeVars, hostVars
  <1>37. CASE UNCHANGED vars
    BY <1>37 DEF vars, hostVars, noticeVars, history, GivesWayNow, WaitInv, Granted, TypeOK, Procs, Running
  <1> QED
    BY <1>1, <1>2, <1>3, <1>4, <1>5, <1>6, <1>7, <1>8, <1>9, <1>10, <1>11, <1>12,
  <1>13, <1>14, <1>15, <1>16, <1>17, <1>18, <1>19, <1>20, <1>21, <1>22,
  <1>23, <1>24, <1>25, <1>26, <1>27, <1>28, <1>29, <1>30, <1>31, <1>32,
  <1>33, <1>34, <1>35, <1>36, <1>37
DEF Next, Check, LiveNext, BackgroundNext

----------------------------------------------------------------------------
(* The theorems.                                                           *)

\* The initial state satisfies the invariant.
LEMMA InitInv == Init => IInv
  <1> SUFFICES ASSUME Init PROVE IInv
    OBVIOUS
  <1> USE ProcsAssumption, MemoryAssumption DEF Init, NothingRead, Procs
  <1>1. TypeOK
    BY DEF TypeOK, LivePoints, BackgroundPoints, Notices, Severity
  <1>2. LockInv /\ LiveClaimInv /\ BackgroundClaimInv
    BY DEF LockInv, LiveClaimInv, BackgroundClaimInv, CheckPoints, Granted, HasClaim
  <1>3. SeenInv /\ NoBlindPair /\ WaitInv
    BY DEF SeenInv, NoBlindPair, WaitInv, Granted
  <1>4. PastInv /\ PastNoticeStaysUp
    BY DEF PastInv, PastNoticeStaysUp
  <1> QED
    BY <1>1, <1>2, <1>3, <1>4 DEF IInv

\* Every step keeps the invariant.
LEMMA StepInv == IInv /\ [Next]_vars => IInv'
  BY TypeStep, LockStep, LiveClaimStep, BackgroundClaimStep, SeenStep, PairStep,
 WaitStep, PastStep, PastNoticeStep DEF IInv

\* The inductive invariant holds in every reachable state.
THEOREM InductiveInvariant == Spec => []IInv
  BY InitInv, StepInv, PTL DEF Spec

\* Type correctness of admission.
THEOREM TypeCorrect == Spec => []TypeOK
  <1>1. IInv => TypeOK
    BY DEF IInv
  <1> QED
    BY <1>1, InductiveInvariant, PTL

\* No two running processes hold reservations that were granted in
\* ignorance of each other: the flock around a check is enough.
THEOREM NoDoublePromise == Spec => []NoBlindPair
  <1>1. IInv => NoBlindPair
    BY DEF IInv
  <1> QED
    BY <1>1, InductiveInvariant, PTL

\* A server admitted past background promises keeps its notice up until
\* those jobs have given their reservations back.
THEOREM NoticeOutlivesJobs == Spec => []PastNoticeStaysUp
  <1>1. IInv => PastNoticeStaysUp
    BY DEF IInv
  <1> QED
    BY <1>1, InductiveInvariant, PTL

\* No background load is admitted while a refused live server, or one
\* admitted past background work, has its notice up.
THEOREM LiveServersFirst == Spec => BackgroundGivesWay
  <1>1. IInv /\ [Next]_vars
        => [\A b \in Background :
              ~Granted(b) /\ Granted(b)' => \A l \in Live : ~PostedByCheck(l)]_vars
    BY GivesWayStep DEF IInv, GivesWayNow
  <1> QED
    BY <1>1, InductiveInvariant, PTL DEF Spec, BackgroundGivesWay

----------------------------------------------------------------------------
(* The contract of every live server.                                      *)

\* Where a server may have models, when it has a reservation for them, and
\* that a dead one has no notice.
ServerInv ==
    \A l \in Live :
        /\ HasModels(l) => pc[l] \in {"loaded", "closing", "closed"}
        /\ pc[l] = "loaded" => reserved[l]
        /\ pc[l] = "dead" => notice[l] = "none"

LEMMA ServerStep == TypeOK /\ ServerInv /\ [Next]_vars => ServerInv'
  <1> SUFFICES ASSUME TypeOK, ServerInv, [Next]_vars PROVE ServerInv'
    OBVIOUS
  <1> USE ProcsAssumption
  <1>1. ASSUME NEW p \in Procs, TakeAdmissionLock(p) PROVE ServerInv'
    BY <1>1
      DEF ServerInv, TypeOK, Procs, HasModels, TakeAdmissionLock, Goto, noticeVars,
          hostVars, history
  <1>2. ASSUME NEW p \in Procs, Measure(p) PROVE ServerInv'
    BY <1>2
      DEF ServerInv, TypeOK, Procs, HasModels, Measure, NothingRead, Goto, noticeVars,
          history
  <1>3. ASSUME NEW p \in Procs, CountOthers(p) PROVE ServerInv'
    BY <1>3
      DEF ServerInv, TypeOK, Procs, HasModels, CountOthers, Running, Goto, noticeVars,
          history
  <1>4. ASSUME NEW p \in Procs, CheckFails(p) PROVE ServerInv'
    BY <1>4
      DEF ServerInv, TypeOK, Procs, HasModels, CheckFails, CheckPoints, LeaveCheck,
          Goto, history, NothingRead
  <1>5. ASSUME NEW p \in Procs, Load(p) PROVE ServerInv'
    <2>1. ASSUME NEW l \in Live, HasModels(l)' PROVE pc[l] \in {"loaded", "closing", "closed"}
      <3>1. CASE l = p
        BY <1>5, <3>1 DEF Load, TypeOK, LivePoints
      <3>2. CASE l # p
        <4>1. HasModels(l)
          BY <1>5, <2>1, <3>2 DEF Load, HasModels, TypeOK, Procs
        <4> QED
          BY <4>1 DEF ServerInv
      <3> QED
        BY <3>1, <3>2
    <2>2. UNCHANGED << pc, reserved, notice >>
      BY <1>5 DEF Load, noticeVars
    <2> QED
      BY <2>1, <2>2 DEF ServerInv
  <1>6. ASSUME NEW p \in Procs, Crash(p) PROVE ServerInv'
    BY <1>6
      DEF ServerInv, TypeOK, Procs, HasModels, Crash, Running, Dies, LeaveCheck, Goto,
          NothingRead
  <1>7. ASSUME NEW p \in Procs, Restart(p) PROVE ServerInv'
    BY <1>7
      DEF ServerInv, TypeOK, Procs, HasModels, Restart, Goto, noticeVars, hostVars,
          history
  <1>8. ASSUME NEW l \in Live, StartLiveCheck(l) PROVE ServerInv'
    BY <1>8
      DEF ServerInv, TypeOK, Procs, HasModels, StartLiveCheck, Goto, Posted,
          noticeVars, hostVars, history
  <1>9. ASSUME NEW l \in Live, AdmitLive(l) PROVE ServerInv'
    BY <1>9
      DEF ServerInv, TypeOK, Procs, HasModels, AdmitLive, Reservation, Settle,
          LeaveCheck, Goto, Post, Withdraw, NothingRead, Posted
  <1>10. ASSUME NEW l \in Live, RefuseLive(l) PROVE ServerInv'
    BY <1>10
      DEF ServerInv, TypeOK, Procs, HasModels, RefuseLive, Settle, LeaveCheck, Goto,
          history, Post, Withdraw, NothingRead, Posted
  <1>11. ASSUME NEW l \in Live, UnloadIdle(l) PROVE ServerInv'
    BY <1>11
      DEF ServerInv, TypeOK, Procs, HasModels, UnloadIdle, Goto, noticeVars, hostVars,
          history
  <1>12. ASSUME NEW l \in Live, UnloadForPressure(l) PROVE ServerInv'
    BY <1>12
      DEF ServerInv, TypeOK, Procs, HasModels, UnloadForPressure, Goto, noticeVars,
          hostVars, history
  <1>13. ASSUME NEW l \in Live, StopRetrying(l) PROVE ServerInv'
    BY <1>13
      DEF ServerInv, TypeOK, Procs, HasModels, StopRetrying, Goto, noticeVars,
          hostVars, history
  <1>14. ASSUME NEW l \in Live, Close(l) PROVE ServerInv'
    BY <1>14
      DEF ServerInv, TypeOK, Procs, HasModels, Close, Goto, noticeVars, hostVars,
          history
  <1>15. ASSUME NEW l \in Live, ReleaseLive(l) PROVE ServerInv'
    BY <1>15
      DEF ServerInv, TypeOK, Procs, HasModels, ReleaseLive, AfterRelease,
          RemoveReservation, Goto, noticeVars, hostVars
  <1>16. ASSUME NEW l \in Live, WithdrawNotice(l) PROVE ServerInv'
    BY <1>16
      DEF ServerInv, TypeOK, Procs, HasModels, WithdrawNotice, Withdraw, Goto,
          hostVars, history
  <1>17. ASSUME NEW l \in Live, PostReloadNotice(l) PROVE ServerInv'
    BY <1>17
      DEF ServerInv, TypeOK, Procs, HasModels, PostReloadNotice, Post, Goto, hostVars,
          history, Posted
  <1>18. ASSUME NEW l \in Live, Tick(l) PROVE ServerInv'
    BY <1>18
      DEF ServerInv, TypeOK, Procs, HasModels, Tick, Running, Withdraw, hostVars,
          history
  <1>19. ASSUME NEW l \in Live, NoticeAges(l) PROVE ServerInv'
    BY <1>19
      DEF ServerInv, TypeOK, Procs, HasModels, NoticeAges, Posted, hostVars, history
  <1>20. ASSUME NEW l \in Live, RefusalLapses(l) PROVE ServerInv'
    BY <1>20
      DEF ServerInv, TypeOK, Procs, HasModels, RefusalLapses, hostVars, history
  <1>21. ASSUME NEW l \in Live, Exit(l) PROVE ServerInv'
    BY <1>21
      DEF ServerInv, TypeOK, Procs, HasModels, Exit, Dies, Goto
  <1>22. ASSUME NEW b \in Background, TakeHeavyLock(b) PROVE ServerInv'
    BY <1>22
      DEF ServerInv, TypeOK, Procs, HasModels, TakeHeavyLock, Goto, noticeVars, history
  <1>23. ASSUME NEW b \in Background, PassGate(b) PROVE ServerInv'
    BY <1>23
      DEF ServerInv, TypeOK, Procs, HasModels, PassGate, Goto, noticeVars, hostVars,
          history
  <1>24. ASSUME NEW b \in Background, LeaveGate(b) PROVE ServerInv'
    BY <1>24
      DEF ServerInv, TypeOK, Procs, HasModels, LeaveGate, Goto, noticeVars, hostVars,
          history
  <1>25. ASSUME NEW b \in Background, ReadNotices(b) PROVE ServerInv'
    BY <1>25
      DEF ServerInv, TypeOK, Procs, HasModels, ReadNotices, PostedNotices, Goto,
          noticeVars, hostVars, history, Posted
  <1>26. ASSUME NEW b \in Background, AdmitBackground(b) PROVE ServerInv'
    BY <1>26
      DEF ServerInv, TypeOK, Procs, HasModels, AdmitBackground, Reservation,
          LeaveCheck, Goto, noticeVars, NothingRead
  <1>27. ASSUME NEW b \in Background, RefuseBackground(b) PROVE ServerInv'
    BY <1>27
      DEF ServerInv, TypeOK, Procs, HasModels, RefuseBackground, LeaveCheck, Goto,
          noticeVars, history, NothingRead
  <1>28. ASSUME NEW b \in Background, AskAgain(b) PROVE ServerInv'
    BY <1>28
      DEF ServerInv, TypeOK, Procs, HasModels, AskAgain, Goto, noticeVars, hostVars,
          history
  <1>29. ASSUME NEW b \in Background, Defer(b) PROVE ServerInv'
    BY <1>29
      DEF ServerInv, TypeOK, Procs, HasModels, Defer, Goto, noticeVars, hostVars,
          history
  <1>30. ASSUME NEW b \in Background, StopForLiveServer(b) PROVE ServerInv'
    BY <1>30
      DEF ServerInv, TypeOK, Procs, HasModels, StopForLiveServer, PostedNotices, Goto,
          EndOfWork, noticeVars, hostVars, history, Posted
  <1>31. ASSUME NEW b \in Background, EndWork(b) PROVE ServerInv'
    BY <1>31
      DEF ServerInv, TypeOK, Procs, HasModels, EndWork, Goto, EndOfWork, noticeVars,
          hostVars, history
  <1>32. ASSUME NEW b \in Background, EndStep(b) PROVE ServerInv'
    BY <1>32
      DEF ServerInv, TypeOK, Procs, HasModels, EndStep, Goto, noticeVars, hostVars,
          history
  <1>33. ASSUME NEW b \in Background, ReleaseStep(b) PROVE ServerInv'
    BY <1>33
      DEF ServerInv, TypeOK, Procs, HasModels, ReleaseStep, RemoveReservation,
          NoLongerPast, Goto, noticeVars, hostVars
  <1>34. ASSUME NEW b \in Background, ReleaseBackground(b) PROVE ServerInv'
    BY <1>34
      DEF ServerInv, TypeOK, Procs, HasModels, ReleaseBackground, RemoveReservation,
          Goto, noticeVars, hostVars
  <1>35. ASSUME NEW b \in Background, ReleaseHeavyLock(b) PROVE ServerInv'
    BY <1>35
      DEF ServerInv, TypeOK, Procs, HasModels, ReleaseHeavyLock, Goto, noticeVars,
          history
  <1>36. ASSUME NEW b \in Background, LeaveHost(b) PROVE ServerInv'
    BY <1>36
      DEF ServerInv, TypeOK, Procs, HasModels, LeaveHost, NoLongerPast, Goto,
          noticeVars, hostVars
  <1>37. CASE UNCHANGED vars
    BY <1>37
      DEF vars, hostVars, noticeVars, history, ServerInv, TypeOK, Procs, HasModels
  <1> QED
    BY <1>1, <1>2, <1>3, <1>4, <1>5, <1>6, <1>7, <1>8, <1>9, <1>10, <1>11, <1>12,
       <1>13, <1>14, <1>15, <1>16, <1>17, <1>18, <1>19, <1>20, <1>21, <1>22, <1>23,
       <1>24, <1>25, <1>26, <1>27, <1>28, <1>29, <1>30, <1>31, <1>32, <1>33, <1>34,
       <1>35, <1>36, <1>37
      DEF Next, Check, LiveNext, BackgroundNext

\* ServersKeepContract, as a property of one step; what the contract does not
\* see keeps it.
ContractNow == \A l \in Live : UNCHANGED View(l) \/ Server(l)!Next
Unseen == \A l \in Live : View(l)' = View(l)

LEMMA SameViews == Unseen => ContractNow
  BY DEF Unseen, ContractNow

\* So does a step of one server that the contract allows.
LEMMA OneServer ==
    ASSUME NEW l \in Live, Server(l)!Next,
           \A m \in Live \ {l} : View(m)' = View(m)
    PROVE  ContractNow
  BY DEF ContractNow

\* Every step is one of the contract for the server that takes it, and shows
\* in no other server's.
LEMMA ContractStep == IInv /\ ServerInv /\ [Next]_vars => ContractNow
  <1> SUFFICES ASSUME IInv, ServerInv, [Next]_vars PROVE ContractNow
    OBVIOUS
  <1> USE ProcsAssumption
  <1>1. ASSUME NEW p \in Procs, TakeAdmissionLock(p) PROVE ContractNow
    BY <1>1, SameViews
      DEF IInv, TypeOK, Procs, Unseen, View, HasModels, Granted, Running, Stopping,
          TakeAdmissionLock, Goto, noticeVars, hostVars, history
  <1>2. ASSUME NEW p \in Procs, Measure(p) PROVE ContractNow
    BY <1>2, SameViews
      DEF IInv, TypeOK, Procs, Unseen, View, HasModels, Granted, Running, Stopping,
          Measure, NothingRead, Goto, noticeVars, history
  <1>3. ASSUME NEW p \in Procs, CountOthers(p) PROVE ContractNow
    BY <1>3, SameViews
      DEF IInv, TypeOK, Procs, Unseen, View, HasModels, Granted, Running, Stopping,
          CountOthers, Goto, noticeVars, history
  <1>4. ASSUME NEW p \in Procs, CheckFails(p) PROVE ContractNow
    BY <1>4, SameViews
      DEF IInv, TypeOK, Procs, Unseen, View, HasModels, Granted, Running, Stopping,
          CheckFails, CheckPoints, LeaveCheck, Goto, history, NothingRead
  <1>5. ASSUME NEW p \in Procs, Load(p) PROVE ContractNow
    <2>1. CASE p \in Live
      <3>1. Server(p)!Load
        <4>1. held[p] \in Nat /\ held'[p] = held[p] + 1
          BY <1>5, <2>1 DEF Load, IInv, TypeOK, Procs
        <4>2. HasModels(p)'
          BY <4>1 DEF HasModels
        <4>3. Granted(p) /\ UNCHANGED << Granted(p), notice[p], Stopping(p) >> /\ ~Stopping(p)
          BY <1>5, <2>1 
            DEF Load, IInv, TypeOK, LivePoints, ServerInv, Granted, Running, Stopping, noticeVars
        <4> QED
          BY <4>2, <4>3 DEF Server!Load
      <3>2. \A m \in Live \ {p} : View(m)' = View(m)
        BY <1>5, <2>1
          DEF IInv, TypeOK, Procs, View, HasModels, Granted, Running, Stopping, Load,
              Measuring, noticeVars, history
      <3> QED
        BY <2>1, <3>1, <3>2, OneServer DEF Server!Next
    <2>2. CASE p \notin Live
      BY <1>5, <2>2, SameViews
        DEF IInv, TypeOK, Procs, View, HasModels, Granted, Running, Stopping, Unseen,
            Load, Measuring, noticeVars, history
    <2> QED
      BY <2>1, <2>2
  <1>6. ASSUME NEW p \in Procs, Crash(p) PROVE ContractNow
    <2>1. CASE p \in Live
      <3>1. Server(p)!End
        BY <1>6, <2>1
          DEF IInv, TypeOK, LiveClaimInv, ServerInv, Procs, HasModels, Granted, Running,
              Stopping, Server!End, Crash, Dies, LeaveCheck, Goto, NothingRead
      <3>2. \A m \in Live \ {p} : View(m)' = View(m)
        BY <1>6, <2>1
          DEF IInv, TypeOK, Procs, View, HasModels, Granted, Running, Stopping, Crash,
              Dies, LeaveCheck, Goto, NothingRead
      <3> QED
        BY <2>1, <3>1, <3>2, OneServer DEF Server!Next
    <2>2. CASE p \notin Live
      BY <1>6, <2>2, SameViews
        DEF IInv, TypeOK, Procs, View, HasModels, Granted, Running, Stopping, Unseen,
            Crash, Dies, LeaveCheck, Goto, NothingRead
    <2> QED
      BY <2>1, <2>2
  <1>7. ASSUME NEW p \in Procs, Restart(p) PROVE ContractNow
    <2>1. CASE p \in Live
      <3>1. Server(p)!Restart
        BY <1>7, <2>1
          DEF IInv, TypeOK, LiveClaimInv, ServerInv, Procs, HasModels, Granted, Running,
              Stopping, Server!Restart, Server!HasNothing, Restart, Goto, noticeVars,
              hostVars, history
      <3>2. \A m \in Live \ {p} : View(m)' = View(m)
        BY <1>7, <2>1
          DEF IInv, TypeOK, Procs, View, HasModels, Granted, Running, Stopping, Restart,
              Goto, noticeVars, hostVars, history
      <3> QED
        BY <2>1, <3>1, <3>2, OneServer DEF Server!Next
    <2>2. CASE p \notin Live
      BY <1>7, <2>2, SameViews
        DEF IInv, TypeOK, Procs, View, HasModels, Granted, Running, Stopping, Unseen,
            Restart, Goto, noticeVars, hostVars, history
    <2> QED
      BY <2>1, <2>2
  <1>8. ASSUME NEW l \in Live, StartLiveCheck(l) PROVE ContractNow
    BY <1>8, SameViews
      DEF IInv, TypeOK, Procs, Unseen, View, HasModels, Granted, Running, Stopping,
          StartLiveCheck, Goto, Posted, noticeVars, hostVars, history
  <1>9. ASSUME NEW l \in Live, AdmitLive(l) PROVE ContractNow
    <2>1. Server(l)!Admitted
      BY <1>9
        DEF IInv, TypeOK, LiveClaimInv, ServerInv, Procs, HasModels, Granted, Running,
            Stopping, Server!Admitted, Server!HasNothing, AdmitLive, Reservation,
            Settle, LeaveCheck, Goto, Post, Withdraw, NothingRead, Posted
    <2>2. \A m \in Live \ {l} : View(m)' = View(m)
      BY <1>9
        DEF IInv, TypeOK, Procs, View, HasModels, Granted, Running, Stopping,
            AdmitLive, Reservation, Settle, LeaveCheck, Goto, Post, Withdraw,
            NothingRead, Posted
    <2> QED
      BY <2>1, <2>2, OneServer DEF Server!Next
  <1>10. ASSUME NEW l \in Live, RefuseLive(l) PROVE ContractNow
    <2>1. Server(l)!Refused
      BY <1>10
        DEF IInv, TypeOK, LiveClaimInv, ServerInv, Procs, HasModels, Granted, Running,
            Stopping, Server!Refused, Server!HasNothing, RefuseLive, Settle,
            LeaveCheck, Goto, history, Post, Withdraw, NothingRead, Posted
    <2>2. \A m \in Live \ {l} : View(m)' = View(m)
      BY <1>10
        DEF IInv, TypeOK, Procs, View, HasModels, Granted, Running, Stopping,
            RefuseLive, Settle, LeaveCheck, Goto, history, Post, Withdraw, NothingRead,
            Posted
    <2> QED
      BY <2>1, <2>2, OneServer DEF Server!Next
  <1>11. ASSUME NEW l \in Live, UnloadIdle(l) PROVE ContractNow
    <2>1. Server(l)!Unload
      BY <1>11
        DEF IInv, TypeOK, LiveClaimInv, ServerInv, Procs, HasModels, Granted, Running,
            Stopping, Server!Unload, UnloadIdle, Goto, noticeVars, hostVars, history
    <2>2. \A m \in Live \ {l} : View(m)' = View(m)
      BY <1>11
        DEF IInv, TypeOK, Procs, View, HasModels, Granted, Running, Stopping,
            UnloadIdle, Goto, noticeVars, hostVars, history
    <2> QED
      BY <2>1, <2>2, OneServer DEF Server!Next
  <1>12. ASSUME NEW l \in Live, UnloadForPressure(l) PROVE ContractNow
    <2>1. Server(l)!Unload
      BY <1>12
        DEF IInv, TypeOK, LiveClaimInv, ServerInv, Procs, HasModels, Granted, Running,
            Stopping, Server!Unload, UnloadForPressure, Goto, noticeVars, hostVars,
            history
    <2>2. \A m \in Live \ {l} : View(m)' = View(m)
      BY <1>12
        DEF IInv, TypeOK, Procs, View, HasModels, Granted, Running, Stopping,
            UnloadForPressure, Goto, noticeVars, hostVars, history
    <2> QED
      BY <2>1, <2>2, OneServer DEF Server!Next
  <1>13. ASSUME NEW l \in Live, StopRetrying(l) PROVE ContractNow
    BY <1>13, SameViews
      DEF IInv, TypeOK, Procs, Unseen, View, HasModels, Granted, Running, Stopping,
          StopRetrying, Goto, noticeVars, hostVars, history
  <1>14. ASSUME NEW l \in Live, Close(l) PROVE ContractNow
    <2>1. Server(l)!Stop
      BY <1>14
        DEF IInv, TypeOK, LiveClaimInv, ServerInv, Procs, HasModels, Granted, Running,
            Stopping, Server!Stop, Close, Goto, noticeVars, hostVars, history
    <2>2. \A m \in Live \ {l} : View(m)' = View(m)
      BY <1>14
        DEF IInv, TypeOK, Procs, View, HasModels, Granted, Running, Stopping, Close,
            Goto, noticeVars, hostVars, history
    <2> QED
      BY <2>1, <2>2, OneServer DEF Server!Next
  <1>15. ASSUME NEW l \in Live, ReleaseLive(l) PROVE ContractNow
    <2>1. Server(l)!GiveBack
      BY <1>15
        DEF IInv, TypeOK, LiveClaimInv, ServerInv, Procs, HasModels, Granted, Running,
            Stopping, Server!GiveBack, ReleaseLive, AfterRelease, RemoveReservation,
            Goto, noticeVars, hostVars
    <2>2. \A m \in Live \ {l} : View(m)' = View(m)
      BY <1>15
        DEF IInv, TypeOK, Procs, View, HasModels, Granted, Running, Stopping,
            ReleaseLive, AfterRelease, RemoveReservation, Goto, noticeVars, hostVars
    <2> QED
      BY <2>1, <2>2, OneServer DEF Server!Next
  <1>16. ASSUME NEW l \in Live, WithdrawNotice(l) PROVE ContractNow
    <2>1. Server(l)!Withdraw
      BY <1>16
        DEF IInv, TypeOK, LiveClaimInv, ServerInv, Procs, HasModels, Granted, Running,
            Stopping, Server!Withdraw, WithdrawNotice, Withdraw, Goto, hostVars, history
    <2>2. \A m \in Live \ {l} : View(m)' = View(m)
      BY <1>16
        DEF IInv, TypeOK, Procs, View, HasModels, Granted, Running, Stopping,
            WithdrawNotice, Withdraw, Goto, hostVars, history
    <2> QED
      BY <2>1, <2>2, OneServer DEF Server!Next
  <1>17. ASSUME NEW l \in Live, PostReloadNotice(l) PROVE ContractNow
    <2>1. Server(l)!AskForReload
      BY <1>17
        DEF IInv, TypeOK, LiveClaimInv, ServerInv, Procs, HasModels, Granted, Running,
            Stopping, Server!AskForReload, Server!HasNothing, PostReloadNotice, Post,
            Goto, hostVars, history, Posted
    <2>2. \A m \in Live \ {l} : View(m)' = View(m)
      BY <1>17
        DEF IInv, TypeOK, Procs, View, HasModels, Granted, Running, Stopping,
            PostReloadNotice, Post, Goto, hostVars, history, Posted
    <2> QED
      BY <2>1, <2>2, OneServer DEF Server!Next
  <1>18. ASSUME NEW l \in Live, Tick(l) PROVE ContractNow
    <2>1. Server(l)!Withdraw
      BY <1>18
        DEF IInv, TypeOK, LiveClaimInv, ServerInv, Procs, HasModels, Granted, Running,
            Stopping, Server!Withdraw, Tick, Withdraw, hostVars, history
    <2>2. \A m \in Live \ {l} : View(m)' = View(m)
      BY <1>18
        DEF IInv, TypeOK, Procs, View, HasModels, Granted, Running, Stopping, Tick,
            Withdraw, hostVars, history
    <2> QED
      BY <2>1, <2>2, OneServer DEF Server!Next
  <1>19. ASSUME NEW l \in Live, NoticeAges(l) PROVE ContractNow
    BY <1>19, SameViews
      DEF IInv, TypeOK, Procs, Unseen, View, HasModels, Granted, Running, Stopping,
          NoticeAges, Posted, hostVars, history
  <1>20. ASSUME NEW l \in Live, RefusalLapses(l) PROVE ContractNow
    BY <1>20, SameViews
      DEF IInv, TypeOK, Procs, Unseen, View, HasModels, Granted, Running, Stopping,
          RefusalLapses, hostVars, history
  <1>21. ASSUME NEW l \in Live, Exit(l) PROVE ContractNow
    <2>1. Server(l)!End
      BY <1>21
        DEF IInv, TypeOK, LiveClaimInv, ServerInv, Procs, HasModels, Granted, Running,
            Stopping, Server!End, Exit, Dies, Goto
    <2>2. \A m \in Live \ {l} : View(m)' = View(m)
      BY <1>21
        DEF IInv, TypeOK, Procs, View, HasModels, Granted, Running, Stopping, Exit,
            Dies, Goto
    <2> QED
      BY <2>1, <2>2, OneServer DEF Server!Next
  <1>22. ASSUME NEW b \in Background, TakeHeavyLock(b) PROVE ContractNow
    BY <1>22, SameViews
      DEF IInv, TypeOK, Procs, Unseen, View, HasModels, Granted, Running, Stopping,
          TakeHeavyLock, Goto, noticeVars, history
  <1>23. ASSUME NEW b \in Background, PassGate(b) PROVE ContractNow
    BY <1>23, SameViews
      DEF IInv, TypeOK, Procs, Unseen, View, HasModels, Granted, Running, Stopping,
          PassGate, Goto, noticeVars, hostVars, history
  <1>24. ASSUME NEW b \in Background, LeaveGate(b) PROVE ContractNow
    BY <1>24, SameViews
      DEF IInv, TypeOK, Procs, Unseen, View, HasModels, Granted, Running, Stopping,
          LeaveGate, Goto, noticeVars, hostVars, history
  <1>25. ASSUME NEW b \in Background, ReadNotices(b) PROVE ContractNow
    BY <1>25, SameViews
      DEF IInv, TypeOK, Procs, Unseen, View, HasModels, Granted, Running, Stopping,
          ReadNotices, PostedNotices, Goto, noticeVars, hostVars, history, Posted
  <1>26. ASSUME NEW b \in Background, AdmitBackground(b) PROVE ContractNow
    BY <1>26, SameViews
      DEF IInv, TypeOK, Procs, Unseen, View, HasModels, Granted, Running, Stopping,
          AdmitBackground, Reservation, LeaveCheck, Goto, noticeVars, NothingRead
  <1>27. ASSUME NEW b \in Background, RefuseBackground(b) PROVE ContractNow
    BY <1>27, SameViews
      DEF IInv, TypeOK, Procs, Unseen, View, HasModels, Granted, Running, Stopping,
          RefuseBackground, LeaveCheck, Goto, noticeVars, history, NothingRead
  <1>28. ASSUME NEW b \in Background, AskAgain(b) PROVE ContractNow
    BY <1>28, SameViews
      DEF IInv, TypeOK, Procs, Unseen, View, HasModels, Granted, Running, Stopping,
          AskAgain, Goto, noticeVars, hostVars, history
  <1>29. ASSUME NEW b \in Background, Defer(b) PROVE ContractNow
    BY <1>29, SameViews
      DEF IInv, TypeOK, Procs, Unseen, View, HasModels, Granted, Running, Stopping,
          Defer, Goto, noticeVars, hostVars, history
  <1>30. ASSUME NEW b \in Background, StopForLiveServer(b) PROVE ContractNow
    BY <1>30, SameViews
      DEF IInv, TypeOK, Procs, Unseen, View, HasModels, Granted, Running, Stopping,
          StopForLiveServer, PostedNotices, Goto, EndOfWork, noticeVars, hostVars,
          history, Posted
  <1>31. ASSUME NEW b \in Background, EndWork(b) PROVE ContractNow
    BY <1>31, SameViews
      DEF IInv, TypeOK, Procs, Unseen, View, HasModels, Granted, Running, Stopping,
          EndWork, Goto, EndOfWork, noticeVars, hostVars, history
  <1>32. ASSUME NEW b \in Background, EndStep(b) PROVE ContractNow
    BY <1>32, SameViews
      DEF IInv, TypeOK, Procs, Unseen, View, HasModels, Granted, Running, Stopping,
          EndStep, Goto, noticeVars, hostVars, history
  <1>33. ASSUME NEW b \in Background, ReleaseStep(b) PROVE ContractNow
    BY <1>33, SameViews
      DEF IInv, TypeOK, Procs, Unseen, View, HasModels, Granted, Running, Stopping,
          ReleaseStep, RemoveReservation, NoLongerPast, Goto, noticeVars, hostVars
  <1>34. ASSUME NEW b \in Background, ReleaseBackground(b) PROVE ContractNow
    BY <1>34, SameViews
      DEF IInv, TypeOK, Procs, Unseen, View, HasModels, Granted, Running, Stopping,
          ReleaseBackground, RemoveReservation, Goto, noticeVars, hostVars
  <1>35. ASSUME NEW b \in Background, ReleaseHeavyLock(b) PROVE ContractNow
    BY <1>35, SameViews
      DEF IInv, TypeOK, Procs, Unseen, View, HasModels, Granted, Running, Stopping,
          ReleaseHeavyLock, Goto, noticeVars, history
  <1>36. ASSUME NEW b \in Background, LeaveHost(b) PROVE ContractNow
    BY <1>36, SameViews
      DEF IInv, TypeOK, Procs, Unseen, View, HasModels, Granted, Running, Stopping,
          LeaveHost, NoLongerPast, Goto, noticeVars, hostVars
  <1>37. CASE UNCHANGED vars
    BY <1>37, SameViews
      DEF vars, hostVars, noticeVars, history, IInv, TypeOK, Procs, Unseen, View,
          HasModels, Granted, Running, Stopping
  <1> QED
    BY <1>1, <1>2, <1>3, <1>4, <1>5, <1>6, <1>7, <1>8, <1>9, <1>10, <1>11, <1>12,
       <1>13, <1>14, <1>15, <1>16, <1>17, <1>18, <1>19, <1>20, <1>21, <1>22, <1>23,
       <1>24, <1>25, <1>26, <1>27, <1>28, <1>29, <1>30, <1>31, <1>32, <1>33, <1>34,
       <1>35, <1>36, <1>37
      DEF Next, Check, LiveNext, BackgroundNext

\* Each live server keeps to the contract, however many there are and whatever
\* the others, the background commands and the crashes do.
THEOREM EveryServerKeepsContract == Spec => ServersKeepContract
  <1>1. Init => ServerInv
    BY ProcsAssumption DEF Init, ServerInv, HasModels, Procs
  <1>2. Spec => []ServerInv
    <2>1. IInv /\ ServerInv /\ [Next]_vars => ServerInv'
      BY ServerStep DEF IInv
    <2> QED
      BY <1>1, <2>1, InductiveInvariant, PTL DEF Spec
  <1>3. Init => \A l \in Live : Server(l)!Init
    BY ProcsAssumption
      DEF Init, Server!Init, HasModels, Granted, Stopping, Procs
  <1>4. IInv /\ ServerInv /\ [Next]_vars
           => [\A l \in Live : UNCHANGED View(l) \/ Server(l)!Next]_vars
    BY ContractStep DEF ContractNow
  <1> QED
    BY <1>2, <1>3, <1>4, InductiveInvariant, PTL DEF Spec, ServersKeepContract

============================================================================
