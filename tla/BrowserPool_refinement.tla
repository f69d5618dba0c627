------------------------ MODULE BrowserPool_refinement ------------------------
(***************************************************************************)
(* The pool implements TabLease, for every value of the constants: its     *)
(* channel, flags and goroutines keep the promise that a leased tab has a  *)
(* browser, that nobody takes the browser away and that no worker leases   *)
(* more than TabCap tabs.                                                  *)
(*                                                                         *)
(* Commit is TabLease's Acquire, Release its GiveBackTab, a repair its     *)
(* Retire, NewWorker and the end of replaceInst its Revive, Shutdown its   *)
(* Shut.  Every other step of the pool changes nothing TabLease can see.   *)
(***************************************************************************)
EXTENDS BrowserPool_proofs, Induction

(* TabLease and the pool agree on who holds a tab. *)
LEMMA HoldersAreLeases ==
  ASSUME NEW w \in Workers
  PROVE  Lease!Holders(w) = Leases(w)
BY WorkerFacts DEF Lease!Holders, LeaseOf, Leases

(* The Cardinality that TabLease has instantiated is the usual one. *)
LEMMA SameCardinality == \A S : Lease!Cardinality(S) = Cardinality(S)
BY Zenon DEF Lease!Cardinality, Cardinality

(* A worker without tabs in use is idle for TabLease, and one with a single *)
(* tab left has a single holder.                                            *)
LEMMA IdleWhenNoTabs ==
  ASSUME PoolInv, NEW w \in Workers
  PROVE  /\ activeTabs[w] = 0 <=> Lease!Idle(w)
         /\ \A j \in Leases(w) : activeTabs[w] = 1 => Lease!Holders(w) = {j}
<1>1. activeTabs[w] = Cardinality(Leases(w)) /\ IsFiniteSet(Leases(w))
  BY Parts, LeasesFinite DEF TabsMatchLeases
<1>2. activeTabs[w] = 0 <=> Leases(w) = {}
  BY <1>1, FS_EmptySet
<1>3. ASSUME NEW j \in Leases(w), activeTabs[w] = 1
      PROVE  Leases(w) = {j}
  <2>1. Cardinality(Leases(w) \ {j}) = Cardinality(Leases(w)) - 1 /\ IsFiniteSet(Leases(w) \ {j})
    BY <1>1, FS_RemoveElement
  <2>2. Leases(w) \ {j} = {}
    BY <1>1, <1>3, <2>1, FS_EmptySet
  <2> QED BY <2>2
<1> QED BY <1>2, <1>3, HoldersAreLeases DEF Lease!Idle

(* The initial states of the pool are initial states of TabLease. *)
LEMMA InitRefines == Init => Lease!LeaseInit
BY ProcFacts DEF Init, Lease!LeaseInit, LeaseOf

(* A step of the pool is a step of TabLease, or none. *)
LEMMA StepRefines == PoolInv /\ [Next]_vars => [Lease!LeaseNext]_(Lease!leaseVars)
<1> SUFFICES ASSUME PoolInv, [Next]_vars PROVE [Lease!LeaseNext]_(Lease!leaseVars)
  OBVIOUS
<1>0. WorkersTyped /\ ProcsTyped /\ MainTyped /\ Quiet /\ TypeInv
  BY Parts
<1> USE ProcFacts
<1>1. CASE UNCHANGED vars
  BY <1>1 DEF vars, workerVars, procVars, Lease!leaseVars, LeaseOf
<1>2. CASE NewWorker
  <2>1. PICK i \in FreshInst :
          /\ cursor \in Workers /\ main = "launch"
          /\ instance' = [instance EXCEPT ![cursor] = i]
          /\ UNCHANGED <<closing, pc, worker>>
    BY <1>2, <1>0 DEF NewWorker, procVars, MainTyped
  <2>2. instance[cursor] = NoInst /\ ~closing[cursor]
    BY <1>0, <2>1, WorkerFacts DEF Quiet
  <2>3. LeaseOf' = LeaseOf
    BY <2>1 DEF LeaseOf
  <2>4. Lease!Revive(cursor)
    BY <2>1, <2>2, <2>3, FreshFacts DEF Lease!Revive
  <2> QED BY <2>1, <2>4 DEF Lease!LeaseNext
<1>3. CASE NewWorkerFails
  <2>1. LeaseOf' = LeaseOf /\ UNCHANGED <<instance, closing>>
    BY <1>3, <1>0 DEF NewWorkerFails, Goto, workerVars, procVars, mainVars, ProcsTyped, LeaseOf
  <2> QED BY <2>1 DEF Lease!leaseVars
<1>4. CASE FillSlots
  <2>1. LeaseOf' = LeaseOf /\ UNCHANGED <<instance, closing>>
    BY <1>4, <1>0 DEF FillSlots, Goto, workerVars, procVars, mainVars, ProcsTyped, LeaseOf
  <2> QED BY <2>1 DEF Lease!leaseVars
<1>5. CASE Signal
  <2>1. LeaseOf' = LeaseOf /\ UNCHANGED <<instance, closing>>
    BY <1>5, <1>0 DEF Signal, Goto, workerVars, procVars, mainVars, ProcsTyped, LeaseOf
  <2> QED BY <2>1 DEF Lease!leaseVars
<1>6. CASE Close
  <2>1. LeaseOf' = LeaseOf /\ UNCHANGED <<instance, closing>>
    BY <1>6, <1>0 DEF Close, Goto, workerVars, procVars, mainVars, ProcsTyped, LeaseOf
  <2> QED BY <2>1 DEF Lease!leaseVars
<1>7. CASE Shutdown
  <2>1. /\ cursor \in Workers /\ main = "closing"
        /\ closing' = [closing EXCEPT ![cursor] = TRUE]
        /\ instance' = IF activeTabs[cursor] = 0
                       THEN [instance EXCEPT ![cursor] = NoInst] ELSE instance
        /\ UNCHANGED <<pc, worker>>
    BY <1>7, <1>0 DEF Shutdown, Shuts, MainTyped, procVars
  <2>2. ~closing[cursor]
    BY <1>0, <2>1, WorkerFacts DEF Quiet
  <2>3. LeaseOf' = LeaseOf
    BY <2>1 DEF LeaseOf
  <2>4. Lease!Shut(cursor)
    BY <2>1, <2>2, <2>3, IdleWhenNoTabs DEF Lease!Shut
  <2> QED BY <2>1, <2>4 DEF Lease!LeaseNext
<1>8. ASSUME NEW j \in Jobs, Submit(j)
      PROVE  [Lease!LeaseNext]_(Lease!leaseVars)
  <2>1. LeaseOf' = LeaseOf /\ UNCHANGED <<instance, closing>>
    BY <1>8, <1>0 DEF Submit, Goto, workerVars, procVars, mainVars, ProcsTyped, LeaseOf
  <2> QED BY <2>1 DEF Lease!leaseVars
<1>9. ASSUME NEW j \in Jobs, GiveUp(j)
      PROVE  [Lease!LeaseNext]_(Lease!leaseVars)
  <2>1. LeaseOf' = LeaseOf /\ UNCHANGED <<instance, closing>>
    BY <1>9, <1>0 DEF GiveUp, Goto, workerVars, procVars, mainVars, ProcsTyped, LeaseOf
  <2> QED BY <2>1 DEF Lease!leaseVars
<1>10. ASSUME NEW j \in Jobs, Receive(j)
      PROVE  [Lease!LeaseNext]_(Lease!leaseVars)
  <2>1. LeaseOf' = LeaseOf /\ UNCHANGED <<instance, closing>>
    BY <1>10, <1>0 DEF Receive, Goto, workerVars, procVars, mainVars, ProcsTyped, LeaseOf
  <2> QED BY <2>1 DEF Lease!leaseVars
<1>11. ASSUME NEW j \in Jobs, NoteTaken(j)
      PROVE  [Lease!LeaseNext]_(Lease!leaseVars)
  <2>1. LeaseOf' = LeaseOf /\ UNCHANGED <<instance, closing>>
    BY <1>11, <1>0 DEF NoteTaken, Goto, workerVars, procVars, mainVars, ProcsTyped, LeaseOf
  <2> QED BY <2>1 DEF Lease!leaseVars
<1>12. ASSUME NEW j \in Jobs, TryRefused(j)
      PROVE  [Lease!LeaseNext]_(Lease!leaseVars)
  <2>1. LeaseOf' = LeaseOf /\ UNCHANGED <<instance, closing>>
    BY <1>12, <1>0 DEF TryRefused, Goto, workerVars, procVars, mainVars, ProcsTyped, LeaseOf
  <2> QED BY <2>1 DEF Lease!leaseVars
<1>13. ASSUME NEW j \in Jobs, TryFirst(j)
      PROVE  [Lease!LeaseNext]_(Lease!leaseVars)
  <2>1. LeaseOf' = LeaseOf /\ UNCHANGED <<instance, closing>>
    BY <1>13, <1>0 DEF TryFirst, Goto, workerVars, procVars, mainVars, ProcsTyped, LeaseOf
  <2> QED BY <2>1 DEF Lease!leaseVars
<1>14. ASSUME NEW j \in Jobs, HealthOk(j)
      PROVE  [Lease!LeaseNext]_(Lease!leaseVars)
  <2>1. LeaseOf' = LeaseOf /\ UNCHANGED <<instance, closing>>
    BY <1>14, <1>0 DEF HealthOk, Goto, workerVars, procVars, mainVars, ProcsTyped, LeaseOf
  <2> QED BY <2>1 DEF Lease!leaseVars
<1>15. ASSUME NEW j \in Jobs, HealthFails(j)
      PROVE  [Lease!LeaseNext]_(Lease!leaseVars)
  <2>1. LeaseOf' = LeaseOf /\ UNCHANGED <<instance, closing>>
    BY <1>15, <1>0 DEF HealthFails, Goto, workerVars, procVars, mainVars, ProcsTyped, LeaseOf
  <2> QED BY <2>1 DEF Lease!leaseVars
<1>16. ASSUME NEW j \in Jobs, Repair(j)
      PROVE  [Lease!LeaseNext]_(Lease!leaseVars)
  <2>1. worker[j] \in Workers /\ old[j] # NoInst
    BY <1>16, <1>0, HasWorker, Parts DEF Repair, BrowserWhereNeeded
  <2>2. LeaseOf' = LeaseOf /\ UNCHANGED closing
    BY <1>16, <1>0 DEF Repair, StartReplacement, IdleReplacers, Goto, ProcsTyped, LeaseOf
  <2>3. CASE RepairRefused(worker[j], old[j])
    BY <1>16, <2>2, <2>3 DEF Repair, Lease!leaseVars
  <2>4. CASE ~RepairRefused(worker[j], old[j])
    <3>1. /\ instance' = [instance EXCEPT ![worker[j]] = NoInst]
          /\ instance[worker[j]] # NoInst /\ ~closing[worker[j]] /\ activeTabs[worker[j]] = 0
      BY <1>16, <2>1, <2>4 DEF Repair, RepairRefused, StartReplacement
    <3>2. Lease!Retire(worker[j])
      BY <2>1, <2>2, <3>1, IdleWhenNoTabs DEF Lease!Retire
    <3> QED BY <2>1, <3>2 DEF Lease!LeaseNext
  <2> QED BY <2>3, <2>4
<1>17. ASSUME NEW j \in Jobs, Commit(j)
      PROVE  [Lease!LeaseNext]_(Lease!leaseVars)
  <2>1. worker[j] \in Workers
    BY <1>17, <1>0, HasWorker DEF Commit
  <2>2. /\ pc[j] = "commit" /\ pc' = [pc EXCEPT ![j] = "solve"]
        /\ ~closing[worker[j]] /\ instance[worker[j]] # NoInst /\ activeTabs[worker[j]] < TabCap
        /\ UNCHANGED <<worker, instance, closing>>
    BY <1>17, <1>0, <2>1, PoolAssumption DEF Commit, Unusable, Goto, WorkersTyped
  <2>3. LeaseOf[j] = NoWorker /\ LeaseOf' = [LeaseOf EXCEPT ![j] = worker[j]]
    BY <1>0, <2>2 DEF LeaseOf, ProcsTyped
  <2>4. Cardinality(Lease!Holders(worker[j])) < TabCap
    BY <2>1, <2>2, HoldersAreLeases, Parts DEF TabsMatchLeases
  <2>5. PICK w \in Workers : w = worker[j]
    BY <2>1
  <2>6. Lease!Acquire(j, w)
    BY SameCardinality, <2>2, <2>3, <2>4, <2>5 DEF Lease!Acquire
  <2> QED BY <2>6 DEF Lease!LeaseNext
<1>18. ASSUME NEW j \in Jobs, SolveFails(j)
      PROVE  [Lease!LeaseNext]_(Lease!leaseVars)
  <2>1. LeaseOf' = LeaseOf /\ UNCHANGED <<instance, closing>>
    BY <1>18, <1>0 DEF SolveFails, Goto, workerVars, procVars, mainVars, ProcsTyped, LeaseOf
  <2> QED BY <2>1 DEF Lease!leaseVars
<1>19. ASSUME NEW j \in Jobs, LoadCount(j)
      PROVE  [Lease!LeaseNext]_(Lease!leaseVars)
  <2>1. LeaseOf' = LeaseOf /\ UNCHANGED <<instance, closing>>
    BY <1>19, <1>0 DEF LoadCount, Goto, workerVars, procVars, mainVars, ProcsTyped, LeaseOf
  <2> QED BY <2>1 DEF Lease!leaseVars
<1>20. ASSUME NEW j \in Jobs, StoreCount(j)
      PROVE  [Lease!LeaseNext]_(Lease!leaseVars)
  <2>1. LeaseOf' = LeaseOf /\ UNCHANGED <<instance, closing>>
    BY <1>20, <1>0 DEF StoreCount, Goto, workerVars, procVars, mainVars, ProcsTyped, LeaseOf
  <2> QED BY <2>1 DEF Lease!leaseVars
<1>21. ASSUME NEW j \in Jobs, Release(j)
      PROVE  [Lease!LeaseNext]_(Lease!leaseVars)
  <2>1. worker[j] \in Workers /\ pc[j] = "release" /\ UNCHANGED closing
    BY <1>21, <1>0, HasWorker DEF Release
  <2>2. /\ \A k \in Jobs : k # j => pc'[k] = pc[k] /\ worker'[k] = worker[k]
        /\ pc'[j] \in {"idle", "note"}
    BY <1>21, <1>0 DEF Release, StartReplacement, IdleReplacers, Goto, ProcsTyped
  <2>3. LeaseOf[j] = worker[j] /\ LeaseOf' = [LeaseOf EXCEPT ![j] = NoWorker]
    BY <2>1, <2>2 DEF LeaseOf
  <2>4. CASE UNCHANGED instance
    <3>1. Lease!GiveBackTab(j, worker[j])
      BY <2>1, <2>3, <2>4 DEF Lease!GiveBackTab
    <3> QED BY <2>1, <3>1 DEF Lease!LeaseNext
  <2>5. CASE ~UNCHANGED instance
    <3>1. /\ instance' = [instance EXCEPT ![worker[j]] = NoInst] /\ ~closing[worker[j]]
          /\ Dec(activeTabs[worker[j]]) = 0
      BY <1>21, <2>5 DEF Release, Retires, StartReplacement
    <3>2. j \in Leases(worker[j])
      BY <2>1 DEF Leases
    <3>3. activeTabs[worker[j]] = 1
      <4>1. activeTabs[worker[j]] # 0
        BY <2>1, <3>2, IdleWhenNoTabs, HoldersAreLeases DEF Lease!Idle
      <4> QED BY <1>0, <2>1, <3>1, <4>1 DEF Dec, WorkersTyped
    <3>4. Lease!Holders(worker[j]) = {j}
      BY <2>1, <3>2, <3>3, IdleWhenNoTabs
    <3>5. Lease!GiveBackTab(j, worker[j])
      BY <2>1, <2>3, <3>1, <3>4 DEF Lease!GiveBackTab
    <3> QED BY <2>1, <3>5 DEF Lease!LeaseNext
  <2> QED BY <2>4, <2>5
<1>22. ASSUME NEW p \in Procs, NoteQueued(p)
      PROVE  [Lease!LeaseNext]_(Lease!leaseVars)
  <2>1. LeaseOf' = LeaseOf /\ UNCHANGED <<instance, closing>>
    BY <1>22, <1>0 DEF NoteQueued, Goto, workerVars, procVars, mainVars, ProcsTyped, LeaseOf
  <2> QED BY <2>1 DEF Lease!leaseVars
<1>23. ASSUME NEW p \in Procs, Send(p)
      PROVE  [Lease!LeaseNext]_(Lease!leaseVars)
  <2>1. LeaseOf' = LeaseOf /\ UNCHANGED <<instance, closing>>
    BY <1>23, <1>0 DEF Send, Goto, AfterSlots, workerVars, procVars, mainVars, ProcsTyped, LeaseOf
  <2> QED BY <2>1 DEF Lease!leaseVars
<1>24. ASSUME NEW p \in Procs, Abandon(p)
      PROVE  [Lease!LeaseNext]_(Lease!leaseVars)
  <2>1. LeaseOf' = LeaseOf /\ UNCHANGED <<instance, closing>>
    BY <1>24, <1>0 DEF Abandon, Goto, AfterSlots, workerVars, procVars, mainVars, ProcsTyped,
         LeaseOf
  <2> QED BY <2>1 DEF Lease!leaseVars
<1>25. ASSUME NEW r \in Replacers, LaunchOk(r)
      PROVE  [Lease!LeaseNext]_(Lease!leaseVars)
  <2>1. LeaseOf' = LeaseOf /\ UNCHANGED <<instance, closing>>
    BY <1>25, <1>0 DEF LaunchOk, Goto, workerVars, procVars, mainVars, ProcsTyped, LeaseOf
  <2> QED BY <2>1 DEF Lease!leaseVars
<1>26. ASSUME NEW r \in Replacers, LaunchFails(r)
      PROVE  [Lease!LeaseNext]_(Lease!leaseVars)
  <2>1. LeaseOf' = LeaseOf /\ UNCHANGED <<instance, closing>>
    BY <1>26, <1>0 DEF LaunchFails, Goto, workerVars, procVars, mainVars, ProcsTyped, LeaseOf
  <2> QED BY <2>1 DEF Lease!leaseVars
<1>27. ASSUME NEW r \in Replacers, Publish(r)
      PROVE  [Lease!LeaseNext]_(Lease!leaseVars)
  <2>1. worker[r] \in Workers /\ new[r] # NoInst /\ new[r] \in Inst /\ Settling(r)
    BY <1>27, <1>0, HasWorker, Parts DEF Publish, BrowserWhereNeeded, ProcsTyped, Settling
  <2>2. LeaseOf' = LeaseOf /\ UNCHANGED closing
    BY <1>27, <1>0 DEF Publish, Readvertise, Goto, ProcsTyped, LeaseOf
  <2>3. CASE closing[worker[r]]
    BY <1>27, <2>2, <2>3 DEF Publish, Lease!leaseVars
  <2>4. CASE ~closing[worker[r]]
    <3>1. instance' = [instance EXCEPT ![worker[r]] = new[r]]
      BY <1>27, <2>4 DEF Publish
    <3>2. instance[worker[r]] = NoInst /\ \A w \in Workers : instance[w] # new[r]
      BY <2>1, Parts DEF ReplacingOwned, SoleOwner
    <3>3. Lease!Revive(worker[r])
      BY <2>1, <2>2, <2>4, <3>1, <3>2 DEF Lease!Revive
    <3> QED BY <2>1, <3>3 DEF Lease!LeaseNext
  <2> QED BY <2>3, <2>4
<1>28. ASSUME NEW r \in Replacers, GiveBack(r)
      PROVE  [Lease!LeaseNext]_(Lease!leaseVars)
  <2>1. worker[r] \in Workers /\ old[r] # NoInst /\ old[r] \in Inst /\ Settling(r)
    BY <1>28, <1>0, HasWorker, Parts DEF GiveBack, BrowserWhereNeeded, ProcsTyped, Settling
  <2>2. LeaseOf' = LeaseOf /\ UNCHANGED closing
    BY <1>28, <1>0 DEF GiveBack, Readvertise, Goto, ProcsTyped, LeaseOf
  <2>3. CASE closing[worker[r]]
    BY <1>28, <2>2, <2>3 DEF GiveBack, Lease!leaseVars
  <2>4. CASE ~closing[worker[r]]
    <3>1. instance' = [instance EXCEPT ![worker[r]] = old[r]]
      BY <1>28, <2>4 DEF GiveBack
    <3>2. instance[worker[r]] = NoInst /\ \A w \in Workers : instance[w] # old[r]
      BY <2>1, Parts DEF ReplacingOwned, SoleOwner
    <3>3. Lease!Revive(worker[r])
      BY <2>1, <2>2, <2>4, <3>1, <3>2 DEF Lease!Revive
    <3> QED BY <2>1, <3>3 DEF Lease!LeaseNext
  <2> QED BY <2>3, <2>4
<1>29. ASSUME NEW r \in Replacers, Reap(r)
      PROVE  [Lease!LeaseNext]_(Lease!leaseVars)
  <2>1. LeaseOf' = LeaseOf /\ UNCHANGED <<instance, closing>>
    BY <1>29, <1>0 DEF Reap, Goto, workerVars, procVars, mainVars, ProcsTyped, LeaseOf
  <2> QED BY <2>1 DEF Lease!leaseVars
<1>30. ASSUME NEW w \in Workers, BrowserAges(w)
      PROVE  [Lease!LeaseNext]_(Lease!leaseVars)
  <2>1. LeaseOf' = LeaseOf /\ UNCHANGED <<instance, closing>>
    BY <1>30, <1>0 DEF BrowserAges, Goto, workerVars, procVars, mainVars, ProcsTyped, LeaseOf
  <2> QED BY <2>1 DEF Lease!leaseVars
<1>31. CASE Exited
  <2>1. LeaseOf' = LeaseOf /\ UNCHANGED <<instance, closing>>
    BY <1>31, <1>0 DEF Exited, Goto, vars, workerVars, procVars, mainVars, ProcsTyped, LeaseOf
  <2> QED BY <2>1 DEF Lease!leaseVars
<1> QED
  BY <1>1, <1>2, <1>3, <1>4, <1>5, <1>6, <1>7, <1>8, <1>9, <1>10, <1>11,
     <1>12, <1>13, <1>14, <1>15, <1>16, <1>17, <1>18, <1>19, <1>20, <1>21,
     <1>22, <1>23, <1>24, <1>25, <1>26, <1>27, <1>28, <1>29, <1>30, <1>31
  DEF Next, Construct, JobStep, SlotStep, ReplaceStep

(* Every behaviour of the pool is one of TabLease: see LeasesRefined. *)
THEOREM PoolImplementsLease == Spec => LeasesRefined
BY InitRefines, StepRefines, PoolInvHolds, PTL DEF Spec, LeasesRefined, Lease!LeaseSpec

(* While a request keeps its tab, the worker keeps its browser: the two      *)
(* times runSolveDirect reads w.instance without the lock (solve.go:79, 197) *)
(* it finds the same browser.                                                *)
LeasedBrowserStays ==
  [][\A w \in Workers : Leases(w) \cap Leases(w)' # {} => instance'[w] = instance[w]]_vars

(* Every behaviour of the pool leaves a browser in use in its place: of the  *)
(* steps of TabLease only those of an idle worker, and of the last request   *)
(* to leave one, change its browser.                                         *)
THEOREM BrowserStaysUnderLease == Spec => LeasedBrowserStays
<1>1. ASSUME PoolInv, [Next]_vars, NEW w \in Workers, NEW j \in Leases(w), j \in Leases(w)'
      PROVE  instance'[w] = instance[w]
  <2>1. j \in Jobs /\ LeaseOf[j] = w /\ LeaseOf'[j] = w /\ w # NoWorker
    BY <1>1, WorkerFacts DEF Leases, LeaseOf
  <2>2. j \in Lease!Holders(w) /\ instance[w] # NoInst
    <3>1. j \in Lease!Holders(w)
      BY <2>1 DEF Lease!Holders
    <3>2. activeTabs[w] # 0
      BY <1>1, <3>1, IdleWhenNoTabs DEF Lease!Idle
    <3>3. activeTabs[w] > 0
      BY <1>1, <3>2, Parts, PoolAssumption DEF WorkersTyped
    <3> QED BY <1>1, <3>1, <3>3, Parts DEF TabsHoldBrowser
  <2>3. LeaseOf \in [Jobs -> Workers \cup {NoWorker}] /\ instance \in [Workers -> Inst \cup {NoInst}]
    BY <1>1, Parts, ProcFacts DEF LeaseOf, ProcsTyped, WorkersTyped
  <2>4. CASE UNCHANGED Lease!leaseVars
    BY <2>4 DEF Lease!leaseVars
  <2>5. ASSUME NEW v \in Workers, NEW i \in Jobs, Lease!Acquire(i, v) PROVE UNCHANGED instance
    BY <2>5 DEF Lease!Acquire
  <2>6. ASSUME NEW v \in Workers, NEW i \in Jobs, Lease!GiveBackTab(i, v)
        PROVE  instance'[w] = instance[w]
    <3>1. CASE v = w
      <4>1. i # j
        BY <2>1, <2>3, <2>6, <3>1 DEF Lease!GiveBackTab
      <4>2. Lease!Holders(w) # {i}
        BY <2>2, <4>1
      <4> QED BY <2>6, <3>1, <4>2 DEF Lease!GiveBackTab
    <3>2. CASE v # w
      BY <2>3, <2>6, <3>2 DEF Lease!GiveBackTab
    <3> QED BY <3>1, <3>2
  <2>7. ASSUME NEW v \in Workers, Lease!Retire(v) \/ Lease!Revive(v) \/ Lease!Shut(v)
        PROVE  instance'[w] = instance[w]
    BY <2>2, <2>3, <2>7 DEF Lease!Retire, Lease!Revive, Lease!Shut, Lease!Idle
  <2> QED BY <1>1, <2>4, <2>5, <2>6, <2>7, StepRefines DEF Lease!LeaseNext
<1>2. PoolInv /\ [Next]_vars =>
        [\A w \in Workers : Leases(w) \cap Leases(w)' # {} => instance'[w] = instance[w]]_vars
  BY <1>1
<1> QED BY <1>2, PoolInvHolds, PTL DEF Spec, LeasedBrowserStays

-----------------------------------------------------------------------------
(* The pool implements SolveSlots, by way of TabLease.                       *)

(* Sets of at most TabCap requests, one for each worker, have at most        *)
(* Capacity requests in all.                                                 *)
LEMMA SharesFit ==
  ASSUME NEW F \in [Workers -> SUBSET Jobs], \A w \in Workers : Cardinality(F[w]) <= TabCap
  PROVE  /\ IsFiniteSet(UNION {F[w] : w \in Workers})
         /\ Cardinality(UNION {F[w] : w \in Workers}) <= Capacity
<1> DEFINE U(n) == UNION {F[w] : w \in 1..n}
           S == {n \in 0..PoolSize : Cardinality(U(n)) <= n * TabCap}
<1>1. \A w \in Workers : IsFiniteSet(F[w]) /\ Cardinality(F[w]) \in Nat
  BY PoolAssumption, FS_Subset, FS_CardinalityType
<1>2. ASSUME NEW n \in 0..PoolSize PROVE IsFiniteSet(U(n)) /\ Cardinality(U(n)) \in Nat
  <2>1. U(n) \subseteq Jobs
    BY PoolAssumption DEF Workers
  <2> HIDE DEF U
  <2>2. IsFiniteSet(U(n))
    BY <2>1, PoolAssumption, FS_Subset
  <2> QED BY <2>2, FS_CardinalityType
<1>3. 0 \in S
  <2>1. U(0) = {}
    OBVIOUS
  <2>2. Cardinality(U(0)) = 0
    BY <2>1, FS_EmptySet
  <2> HIDE DEF U
  <2> QED BY <2>2, PoolAssumption
<1>4. ASSUME NEW n \in 0..PoolSize - 1, n \in S PROVE n + 1 \in S
  <2>1. n + 1 \in Workers /\ n \in 0..PoolSize /\ n + 1 \in 0..PoolSize
    BY PoolAssumption DEF Workers
  <2>2. U(n + 1) = U(n) \cup F[n + 1]
    <3>1. 1..n + 1 = 1..n \cup {n + 1}
      BY PoolAssumption
    <3> QED BY <3>1
  <2>3. Cardinality(U(n)) <= n * TabCap
    BY <1>4
  <2> HIDE DEF U
  <2>4. /\ Cardinality(U(n + 1))
             = Cardinality(U(n)) + Cardinality(F[n + 1]) - Cardinality(U(n) \cap F[n + 1])
    BY <1>1, <1>2, <2>1, <2>2, FS_Union
  <2>5. Cardinality(U(n) \cap F[n + 1]) \in Nat
    <3>1. IsFiniteSet(U(n) \cap F[n + 1])
      BY <1>2, <2>1, FS_Intersection
    <3> QED BY <3>1, FS_CardinalityType
  <2>6. (n + 1) * TabCap = n * TabCap + TabCap /\ n * TabCap \in Nat
    BY PoolAssumption
  <2>7. /\ Cardinality(U(n)) \in Nat /\ Cardinality(F[n + 1]) \in Nat
        /\ Cardinality(F[n + 1]) <= TabCap
    BY <1>1, <1>2, <2>1
  <2>8. Cardinality(U(n + 1)) <= (n + 1) * TabCap
    BY <2>3, <2>4, <2>5, <2>6, <2>7, PoolAssumption
  <2> QED BY <2>1, <2>8
<1>5. 0..PoolSize \subseteq S
  <2> HIDE DEF S
  <2> QED BY <1>3, <1>4, PoolAssumption, InductionUpTo
<1>6. PoolSize \in S
  BY <1>5, PoolAssumption
<1> QED BY <1>2, <1>6, PoolAssumption DEF Workers, Capacity

(* So no more requests than that hold a tab. *)
LEMMA SolvingFits ==
  PoolInv => IsFiniteSet(Solving) /\ Cardinality(Solving) <= Capacity
<1> SUFFICES ASSUME PoolInv PROVE IsFiniteSet(Solving) /\ Cardinality(Solving) <= Capacity
  OBVIOUS
<1> DEFINE F == [w \in Workers |-> Leases(w)]
<1>1. ProcsTyped /\ WorkersTyped /\ TypeInv /\ TabsMatchLeases
  BY Parts
<1>2. F \in [Workers -> SUBSET Jobs]
  BY DEF Leases
<1>3. ASSUME NEW w \in Workers PROVE Cardinality(F[w]) <= TabCap
  BY <1>1, PoolAssumption DEF TabsMatchLeases, WorkersTyped
<1>4. \A j \in Jobs : LeaseOf[j] # NoWorker <=> \E w \in Workers : j \in Leases(w)
  BY <1>1, HasWorker, ProcFacts, WorkerFacts DEF LeaseOf, Leases
<1>5. Solving = UNION {F[w] : w \in Workers}
  BY <1>2, <1>4 DEF Solving
<1> HIDE DEF F
<1> QED BY <1>2, <1>3, <1>5, SharesFit

(* The Cardinality that SolveSlots has instantiated is the usual one. *)
LEMMA SameSlotCardinality == \A S : Slot!Cardinality(S) = Cardinality(S)
BY Zenon DEF Slot!Cardinality, Cardinality

(* A step of TabLease takes a slot, gives one back or does neither. *)
LEMMA StepRefinesSlots ==
  PoolInv /\ PoolInv' /\ [Next]_vars => [Slot!SlotsNext]_(Slot!slotVars)
<1> SUFFICES ASSUME PoolInv, PoolInv', [Next]_vars
             PROVE  [Slot!SlotsNext]_(Slot!slotVars)
  OBVIOUS
<1>1. [Lease!LeaseNext]_(Lease!leaseVars)
  BY StepRefines
<1>2. LeaseOf \in [Jobs -> Workers \cup {NoWorker}]
  BY Parts, ProcFacts DEF LeaseOf, ProcsTyped
<1>3. UNCHANGED Capacity
  BY DEF Capacity
<1>4. CASE UNCHANGED LeaseOf
  BY <1>3, <1>4 DEF Solving, Slot!slotVars
<1>5. ASSUME NEW w \in Workers, NEW j \in Jobs, Lease!Acquire(j, w)
      PROVE  Slot!Take(j)
  <2>1. LeaseOf[j] = NoWorker /\ LeaseOf' = [LeaseOf EXCEPT ![j] = w] /\ w # NoWorker
    BY <1>5, WorkerFacts DEF Lease!Acquire
  <2>2. j \notin Solving /\ Solving' = Solving \cup {j}
    BY <1>2, <2>1 DEF Solving
  <2>3. Cardinality(Solving) < Capacity
    <3>1. IsFiniteSet(Solving) /\ Cardinality(Solving) \in Nat
      BY SolvingFits, FS_CardinalityType
    <3>2. (IsFiniteSet(Solving) /\ Cardinality(Solving) <= Capacity)'
      BY SolvingFits, PTL
    <3>3. Cardinality(Solving') = Cardinality(Solving) + 1
      BY <2>2, <3>1, FS_AddElement
    <3> QED BY <3>1, <3>2, <3>3, CapacityNat, <1>3
  <2> QED BY <1>3, <2>2, <2>3, SameSlotCardinality DEF Slot!Take
<1>6. ASSUME NEW w \in Workers, NEW j \in Jobs, Lease!GiveBackTab(j, w)
      PROVE  Slot!Give(j)
  <2>1. LeaseOf[j] = w /\ LeaseOf' = [LeaseOf EXCEPT ![j] = NoWorker] /\ w # NoWorker
    BY <1>6, WorkerFacts DEF Lease!GiveBackTab
  <2> QED BY <1>2, <1>3, <2>1 DEF Solving, Slot!Give
<1>7. ASSUME NEW w \in Workers, Lease!Retire(w) \/ Lease!Revive(w) \/ Lease!Shut(w)
      PROVE  UNCHANGED LeaseOf
  BY <1>7 DEF Lease!Retire, Lease!Revive, Lease!Shut
<1> QED BY <1>1, <1>4, <1>5, <1>6, <1>7
        DEF Lease!LeaseNext, Lease!leaseVars, Slot!SlotsNext

(* Every behaviour of the pool is one of SolveSlots with                     *)
(* PoolSize * TabCap slots: this is the pool that Service is built on.       *)
THEOREM PoolImplementsSlots == Spec => SlotsRefined
<1>1. Init => Slot!SlotsInit
  BY ProcFacts, CapacityNat DEF Init, Slot!SlotsInit, Solving, LeaseOf
<1> QED BY <1>1, StepRefinesSlots, PoolInvHolds, PTL DEF Spec, SlotsRefined, Slot!SlotsSpec

=============================================================================
