------------------------- MODULE BrowserPool_proofs -------------------------
(***************************************************************************)
(* The invariants of the browser pool, proved for every pool size, every   *)
(* number of tabs per browser, every solve limit and any number of         *)
(* requests, replaceInst goroutines and browsers.                          *)
(*                                                                         *)
(* TypeOK, LocalsOK and Quiet are inductive together (StepTypeInv).  With *)
(* ReplacingOwned, SoleOwner, OwnedOpen, TabsHoldBrowser and               *)
(* TabsMatchLeases they make up PoolInv, which is inductive again          *)
(* (PoolInvHolds); StepEffects says once what each step does to the owners *)
(* of the browsers, so that those five need not look at every action.      *)
(***************************************************************************)
EXTENDS BrowserPool, SequenceTheorems, FiniteSetTheorems, TLAPS

TypeInv == TypeOK /\ LocalsOK /\ Quiet

-----------------------------------------------------------------------------
(* Facts about the constants and the channel.                              *)

(* Workers are the numbers 1 to PoolSize, and none of them is NoWorker. *)
LEMMA WorkerFacts == /\ 1 \in Workers
                     /\ NoWorker \notin Workers
                     /\ \A w \in Workers : w \in Nat /\ 1 <= w /\ w <= PoolSize
BY PoolAssumption DEF Workers, NoWorker

(* make(chan) gets a length. *)
LEMMA CapacityNat == Capacity \in Nat
BY PoolAssumption DEF Capacity

(* The slots of the first c workers fit into the channel. *)
LEMMA RoomForSlots ==
  ASSUME NEW c \in Workers
  PROVE  /\ (c - 1) * TabCap \in Nat
         /\ (c - 1) * TabCap + TabCap = c * TabCap
         /\ (c - 1) * TabCap + TabCap <= Capacity
<1>1. c \in Nat /\ c - 1 \in Nat /\ PoolSize - c \in Nat /\ TabCap \in Nat /\ PoolSize \in Nat
  BY PoolAssumption DEF Workers
<1>2. (c - 1) * TabCap \in Nat /\ (PoolSize - c) * TabCap \in Nat
  BY <1>1
<1>3. (c - 1) * TabCap + TabCap = c * TabCap
  BY <1>1
<1>4. (PoolSize - c) * TabCap = PoolSize * TabCap - c * TabCap
  BY <1>1
<1> QED BY <1>1, <1>2, <1>3, <1>4 DEF Capacity

(* The slots FillSlots adds are a sequence of workers. *)
LEMMA Repeated ==
  ASSUME NEW w \in Workers, NEW n \in Nat
  PROVE  /\ [k \in 1..n |-> w] \in Seq(Workers)
         /\ Len([k \in 1..n |-> w]) = n
OBVIOUS

-----------------------------------------------------------------------------
(* The pool starts well-typed. *)
LEMMA InitTypes == Init => TypeInv
<1> SUFFICES ASSUME Init PROVE TypeInv
  OBVIOUS
<1> USE PoolAssumption, WorkerFacts, CapacityNat DEF Init, Procs
<1>1. ChannelTyped
  BY EmptySeq DEF ChannelTyped
<1>2. WorkersTyped
  BY DEF WorkersTyped
<1>3. BrowsersTyped
  BY DEF BrowsersTyped, BrowserRec, ClosedBrowser, CountCap
<1>4. MainTyped
  BY DEF MainTyped
<1>5. ProcsTyped
  <2>1. loaded \in [Jobs -> 0..CountCap] /\ left \in [Procs -> 0..TabCap]
    BY DEF CountCap
  <2> QED BY <2>1 DEF ProcsTyped, Labels
<1>6. LocalsOK
  BY DEF LocalsOK, WorkerWhereNeeded, BrowserWhereNeeded, JobLabels, ReplacerLabels
<1>7. Quiet
  BY DEF Quiet
<1> QED BY <1>1, <1>2, <1>3, <1>4, <1>5, <1>6, <1>7 DEF TypeInv, TypeOK

(* A goroutine anywhere but at idle, acquire and reap has a worker. *)
LEMMA HasWorker ==
  ASSUME TypeInv, NEW p \in Procs, pc[p] \notin {"idle", "acquire", "reap"}
  PROVE  worker[p] \in Workers
BY DEF TypeInv, TypeOK, ProcsTyped, LocalsOK, WorkerWhereNeeded

(* The two browsers the actions write are browsers. *)
LEMMA BrowserFacts == ClosedBrowser \in BrowserRec /\ NewBrowser \in BrowserRec
BY PoolAssumption DEF ClosedBrowser, NewBrowser, BrowserRec, CountCap

(* A goroutine is a request or a replaceInst, never both. *)
LEMMA ProcFacts == /\ \A j \in Jobs : j \in Procs /\ j \notin Replacers
                   /\ \A r \in Replacers : r \in Procs /\ r \notin Jobs
BY PoolAssumption DEF Procs

(* Only Commit increments activeTabs, below TabCap. *)
LEMMA StepWorkersTyped == TypeInv /\ [Next]_vars => WorkersTyped'
<1> SUFFICES ASSUME TypeInv, [Next]_vars PROVE WorkersTyped'
  OBVIOUS
<1> USE PoolAssumption, WorkerFacts DEF TypeInv, TypeOK, WorkersTyped
<1>1. CASE UNCHANGED vars
  BY <1>1 DEF vars, workerVars, procVars, mainVars
<1>2. CASE NewWorkerFails \/ Signal \/ Close
  BY <1>2 DEF NewWorkerFails, Signal, Close, workerVars, procVars, mainVars, vars
<1>3. CASE NewWorker
  BY <1>3 DEF NewWorker, FreshInst, MainTyped, procVars
<1>4. CASE FillSlots
  <2>1. PICK n \in 0..TabCap : advertisedSlots' = [advertisedSlots EXCEPT ![cursor] = n]
    BY <1>4 DEF FillSlots
  <2> QED BY <1>4, <2>1 DEF FillSlots, MainTyped
<1>5. CASE Shutdown
  BY <1>5 DEF Shutdown, workerVars, procVars, mainVars
<1>6. ASSUME NEW j \in Jobs,
              Submit(j) \/ GiveUp(j) \/ Receive(j) \/ TryRefused(j) \/ TryFirst(j) \/
              HealthOk(j) \/ HealthFails(j) \/ SolveFails(j) \/ LoadCount(j) \/
              StoreCount(j)
      PROVE  WorkersTyped'
  BY <1>6 DEF Submit, GiveUp, Receive, TryRefused, TryFirst, HealthOk, HealthFails, SolveFails,
       LoadCount, StoreCount, workerVars, procVars, mainVars, vars
<1>7. ASSUME NEW j \in Jobs, NoteTaken(j)
      PROVE  WorkersTyped'
  <2>1. j \in Procs /\ worker[j] \in Workers
    BY <1>7, HasWorker, ProcFacts DEF NoteTaken
  <2> QED BY <1>7, <2>1 DEF NoteTaken, Dec
<1>8. ASSUME NEW j \in Jobs, Repair(j)
      PROVE  WorkersTyped'
  <2>1. j \in Procs /\ worker[j] \in Workers
    BY <1>8, HasWorker, ProcFacts DEF Repair
  <2> QED BY <1>8, <2>1 DEF Repair, StartReplacement
<1>9. ASSUME NEW j \in Jobs, Commit(j)
      PROVE  WorkersTyped'
  <2>1. j \in Procs /\ worker[j] \in Workers
    BY <1>9, HasWorker, ProcFacts DEF Commit
  <2> QED BY <1>9, <2>1 DEF Commit, Unusable
<1>10. ASSUME NEW j \in Jobs, Release(j)
      PROVE  WorkersTyped'
  <2>1. j \in Procs /\ worker[j] \in Workers
    BY <1>10, HasWorker, ProcFacts DEF Release
  <2>2. Dec(activeTabs[worker[j]]) \in 0..TabCap
    BY <2>1 DEF Dec
  <2> QED BY <1>10, <2>1, <2>2 DEF Release, StartReplacement
<1>11. ASSUME NEW p \in Procs, Send(p)
      PROVE  WorkersTyped'
  BY <1>11 DEF Send, workerVars, procVars, mainVars, vars
<1>12. ASSUME NEW p \in Procs, NoteQueued(p)
      PROVE  WorkersTyped'
  <2>1. worker[p] \in Workers
    BY <1>12, HasWorker DEF NoteQueued
  <2> QED BY <1>12, <2>1 DEF NoteQueued
<1>13. ASSUME NEW p \in Procs, Abandon(p)
      PROVE  WorkersTyped'
  <2>1. worker[p] \in Workers
    BY <1>13, HasWorker DEF Abandon
  <2> QED BY <1>13, <2>1 DEF Abandon, Dec
<1>14. ASSUME NEW r \in Replacers, LaunchOk(r) \/ LaunchFails(r) \/ Reap(r)
      PROVE  WorkersTyped'
  BY <1>14 DEF LaunchOk, LaunchFails, Reap, workerVars, procVars, mainVars, vars
<1>15. ASSUME NEW r \in Replacers, Publish(r)
      PROVE  WorkersTyped'
  <2>1. r \in Procs /\ worker[r] \in Workers
    BY <1>15, HasWorker, ProcFacts DEF Publish
  <2> QED BY <1>15, <2>1 DEF Publish, Readvertise, ProcsTyped
<1>16. ASSUME NEW r \in Replacers, GiveBack(r)
      PROVE  WorkersTyped'
  <2>1. r \in Procs /\ worker[r] \in Workers
    BY <1>16, HasWorker, ProcFacts DEF GiveBack
  <2> QED BY <1>16, <2>1 DEF GiveBack, Readvertise, ProcsTyped
<1>17. ASSUME NEW w \in Workers, BrowserAges(w)
      PROVE  WorkersTyped'
  BY <1>17 DEF BrowserAges, workerVars, procVars, mainVars, vars
<1>18. CASE Exited
  BY <1>18 DEF Exited, workerVars, procVars, mainVars, vars
<1> QED
  BY <1>1, <1>2, <1>3, <1>4, <1>5, <1>6, <1>7, <1>8, <1>9, <1>10, <1>11,
     <1>12, <1>13, <1>14, <1>15, <1>16, <1>17, <1>18
  DEF Next, Construct, JobStep, SlotStep, ReplaceStep

(* Only Send and FillSlots add to the channel, and both find room. *)
LEMMA StepChannelTyped == TypeInv /\ [Next]_vars => ChannelTyped'
<1> SUFFICES ASSUME TypeInv, [Next]_vars PROVE ChannelTyped'
  OBVIOUS
<1> USE PoolAssumption, WorkerFacts DEF TypeInv, TypeOK, ChannelTyped
<1>1. CASE UNCHANGED vars
  BY <1>1 DEF vars, workerVars, procVars, mainVars
<1>2. CASE NewWorker \/ NewWorkerFails \/ Signal \/ Close \/ Shutdown
  BY <1>2 DEF NewWorker, NewWorkerFails, Signal, Close, Shutdown, workerVars, procVars,
       mainVars, vars
<1>3. CASE FillSlots
  <2>1. PICK n \in 0..TabCap : available' = available \o [k \in 1..n |-> cursor]
    BY <1>3 DEF FillSlots
  <2>2. cursor \in Workers /\ Len(available) \in Nat /\ Len(available) <= (cursor - 1) * TabCap
    BY <1>3 DEF FillSlots, MainTyped, Quiet
  <2>3. [k \in 1..n |-> cursor] \in Seq(Workers) /\ Len([k \in 1..n |-> cursor]) = n
    BY <2>2, Repeated
  <2>4. available' \in Seq(Workers) /\ Len(available') = Len(available) + n
    BY <2>1, <2>3, ConcatProperties
  <2>5. Len(available') <= Capacity
    <3> DEFINE room == (cursor - 1) * TabCap
    <3>1. room \in Nat /\ room + TabCap <= Capacity
      BY <2>2, RoomForSlots
    <3>2. Len(available) <= room
      BY <2>2
    <3> HIDE DEF room
    <3> QED BY <2>2, <2>4, <3>1, <3>2, CapacityNat
  <2> QED BY <2>4, <2>5
<1>4. ASSUME NEW j \in Jobs,
              Submit(j) \/ GiveUp(j) \/ NoteTaken(j) \/ TryRefused(j) \/ TryFirst(j) \/
              HealthOk(j) \/ HealthFails(j) \/ Repair(j) \/ Commit(j) \/ SolveFails(j) \/
              LoadCount(j) \/ StoreCount(j) \/ Release(j)
      PROVE  ChannelTyped'
  BY <1>4 DEF Submit, GiveUp, NoteTaken, TryRefused, TryFirst, HealthOk, HealthFails, Repair,
       Commit, SolveFails, LoadCount, StoreCount, Release, workerVars, procVars, mainVars,
       vars
<1>5. ASSUME NEW j \in Jobs, Receive(j)
      PROVE  ChannelTyped'
  <2>1. available # <<>> /\ available' = Tail(available)
    BY <1>5 DEF Receive
  <2>2. available' \in Seq(Workers) /\ Len(available') = Len(available) - 1
    BY <2>1, HeadTailProperties
  <2> QED BY <2>2, CapacityNat
<1>6. ASSUME NEW p \in Procs, NoteQueued(p) \/ Abandon(p)
      PROVE  ChannelTyped'
  BY <1>6 DEF NoteQueued, Abandon, workerVars, procVars, mainVars, vars
<1>7. ASSUME NEW p \in Procs, Send(p)
      PROVE  ChannelTyped'
  <2>1. worker[p] \in Workers /\ available' = Append(available, worker[p]) /\ Len(available) < Capacity
    BY <1>7, HasWorker DEF Send
  <2>2. available' \in Seq(Workers) /\ Len(available') = Len(available) + 1
    BY <2>1, AppendProperties
  <2> QED BY <2>1, <2>2, CapacityNat
<1>8. ASSUME NEW r \in Replacers,
              LaunchOk(r) \/ LaunchFails(r) \/ Publish(r) \/ GiveBack(r) \/ Reap(r)
      PROVE  ChannelTyped'
  BY <1>8 DEF LaunchOk, LaunchFails, Publish, GiveBack, Reap, workerVars, procVars, mainVars, vars
<1>9. ASSUME NEW w \in Workers, BrowserAges(w)
      PROVE  ChannelTyped'
  BY <1>9 DEF BrowserAges, workerVars, procVars, mainVars, vars
<1>10. CASE Exited
  BY <1>10 DEF Exited, workerVars, procVars, mainVars, vars
<1> QED
  BY <1>1, <1>2, <1>3, <1>4, <1>5, <1>6, <1>7, <1>8, <1>9, <1>10
  DEF Next, Construct, JobStep, SlotStep, ReplaceStep

(* StoreCount stops at CountCap. *)
LEMMA StepBrowsersTyped == TypeInv /\ [Next]_vars => BrowsersTyped'
<1> SUFFICES ASSUME TypeInv, [Next]_vars PROVE BrowsersTyped'
  OBVIOUS
<1> USE PoolAssumption, WorkerFacts DEF TypeInv, TypeOK, BrowsersTyped
<1>1. CASE UNCHANGED vars
  BY <1>1 DEF vars, workerVars, procVars, mainVars
<1>2. CASE NewWorkerFails \/ FillSlots \/ Signal \/ Close
  BY <1>2 DEF NewWorkerFails, FillSlots, Signal, Close, workerVars, procVars, mainVars, vars
<1>3. CASE NewWorker
  BY <1>3, BrowserFacts DEF NewWorker, FreshInst
<1>4. CASE Shutdown
  BY <1>4, BrowserFacts DEF Shutdown
<1>5. ASSUME NEW j \in Jobs,
              Submit(j) \/ GiveUp(j) \/ Receive(j) \/ NoteTaken(j) \/ TryRefused(j) \/
              TryFirst(j) \/ HealthOk(j) \/ HealthFails(j) \/ Repair(j) \/ Commit(j) \/
              SolveFails(j) \/ LoadCount(j) \/ Release(j)
      PROVE  BrowsersTyped'
  BY <1>5 DEF Submit, GiveUp, Receive, NoteTaken, TryRefused, TryFirst, HealthOk, HealthFails,
       Repair, Commit, SolveFails, LoadCount, Release, workerVars, procVars, mainVars, vars
<1>6. ASSUME NEW j \in Jobs, StoreCount(j)
      PROVE  BrowsersTyped'
  <2>1. old[j] \in Inst
    BY <1>6, ProcFacts DEF StoreCount, LocalsOK, BrowserWhereNeeded, ProcsTyped
  <2>2. browser[old[j]] \in BrowserRec /\ loaded[j] \in 0..CountCap
    BY <2>1 DEF ProcsTyped
  <2>3. (IF loaded[j] < CountCap THEN loaded[j] + 1 ELSE CountCap) \in 0..CountCap
    BY <2>2 DEF CountCap
  <2> QED BY <1>6, <2>1, <2>2, <2>3 DEF StoreCount, BrowserRec
<1>7. ASSUME NEW p \in Procs, NoteQueued(p) \/ Send(p) \/ Abandon(p)
      PROVE  BrowsersTyped'
  BY <1>7 DEF NoteQueued, Send, Abandon, workerVars, procVars, mainVars, vars
<1>8. ASSUME NEW r \in Replacers, LaunchFails(r) \/ GiveBack(r)
      PROVE  BrowsersTyped'
  BY <1>8 DEF LaunchFails, GiveBack, workerVars, procVars, mainVars, vars
<1>9. ASSUME NEW r \in Replacers, LaunchOk(r)
      PROVE  BrowsersTyped'
  BY <1>9, BrowserFacts DEF LaunchOk, FreshInst
<1>10. ASSUME NEW r \in Replacers, Publish(r)
      PROVE  BrowsersTyped'
  BY <1>10, BrowserFacts DEF Publish
<1>11. ASSUME NEW r \in Replacers, Reap(r)
      PROVE  BrowsersTyped'
  BY <1>11, BrowserFacts DEF Reap
<1>12. ASSUME NEW w \in Workers, BrowserAges(w)
      PROVE  BrowsersTyped'
  <2>1. instance[w] \in Inst
    BY <1>12 DEF BrowserAges, WorkersTyped
  <2>2. browser[instance[w]] \in BrowserRec
    BY <2>1
  <2> QED BY <1>12, <2>1, <2>2 DEF BrowserAges, BrowserRec
<1>13. CASE Exited
  BY <1>13 DEF Exited, workerVars, procVars, mainVars, vars
<1> QED
  BY <1>1, <1>2, <1>3, <1>4, <1>5, <1>6, <1>7, <1>8, <1>9, <1>10, <1>11,
     <1>12, <1>13
  DEF Next, Construct, JobStep, SlotStep, ReplaceStep

(* The cursor stays among the workers. *)
LEMMA StepMainTyped == TypeInv /\ [Next]_vars => MainTyped'
<1> SUFFICES ASSUME TypeInv, [Next]_vars PROVE MainTyped'
  OBVIOUS
<1> USE PoolAssumption, WorkerFacts DEF TypeInv, TypeOK, MainTyped
<1>1. CASE UNCHANGED vars
  BY <1>1 DEF vars, workerVars, procVars, mainVars
<1>2. CASE NewWorker
  BY <1>2 DEF NewWorker, workerVars, procVars, mainVars
<1>3. CASE NewWorkerFails
  BY <1>3 DEF NewWorkerFails, workerVars, procVars, mainVars
<1>4. CASE FillSlots
  <2>1. cursor \in Workers /\ (cursor # PoolSize => cursor + 1 \in Workers)
    BY DEF Workers
  <2> QED BY <1>4, <2>1 DEF FillSlots
<1>5. CASE Signal
  BY <1>5 DEF Signal, workerVars, procVars, mainVars
<1>6. CASE Close
  BY <1>6 DEF Close, workerVars, procVars, mainVars
<1>7. CASE Shutdown
  <2>1. cursor \in Workers /\ (cursor # PoolSize => cursor + 1 \in Workers)
    BY DEF Workers
  <2> QED BY <1>7, <2>1 DEF Shutdown
<1>8. ASSUME NEW j \in Jobs,
              Submit(j) \/ GiveUp(j) \/ Receive(j) \/ NoteTaken(j) \/ TryRefused(j) \/
              TryFirst(j) \/ HealthOk(j) \/ HealthFails(j) \/ Repair(j) \/ Commit(j) \/
              SolveFails(j) \/ LoadCount(j) \/ StoreCount(j) \/ Release(j)
      PROVE  MainTyped'
  BY <1>8 DEF Submit, GiveUp, Receive, NoteTaken, TryRefused, TryFirst, HealthOk, HealthFails,
       Repair, Commit, SolveFails, LoadCount, StoreCount, Release, workerVars, procVars,
       mainVars, vars
<1>9. ASSUME NEW p \in Procs, NoteQueued(p) \/ Send(p) \/ Abandon(p)
      PROVE  MainTyped'
  BY <1>9 DEF NoteQueued, Send, Abandon, workerVars, procVars, mainVars, vars
<1>10. ASSUME NEW r \in Replacers,
              LaunchOk(r) \/ LaunchFails(r) \/ Publish(r) \/ GiveBack(r) \/ Reap(r)
      PROVE  MainTyped'
  BY <1>10 DEF LaunchOk, LaunchFails, Publish, GiveBack, Reap, workerVars, procVars, mainVars, vars
<1>11. ASSUME NEW w \in Workers, BrowserAges(w)
      PROVE  MainTyped'
  BY <1>11 DEF BrowserAges, workerVars, procVars, mainVars, vars
<1>12. CASE Exited
  BY <1>12 DEF Exited, workerVars, procVars, mainVars, vars
<1> QED
  BY <1>1, <1>2, <1>3, <1>4, <1>5, <1>6, <1>7, <1>8, <1>9, <1>10, <1>11, <1>12
  DEF Next, Construct, JobStep, SlotStep, ReplaceStep

(* The locals of a goroutine keep their types. *)
LEMMA StepProcsTyped == TypeInv /\ [Next]_vars => ProcsTyped'
<1> SUFFICES ASSUME TypeInv, [Next]_vars PROVE ProcsTyped'
  OBVIOUS
<1> USE PoolAssumption, WorkerFacts DEF TypeInv, TypeOK, ProcsTyped, Labels
<1>1. CASE UNCHANGED vars
  BY <1>1 DEF vars, workerVars, procVars, mainVars
<1>2. CASE NewWorker \/ NewWorkerFails \/ FillSlots \/ Signal \/ Close \/ Shutdown
  BY <1>2 DEF NewWorker, NewWorkerFails, FillSlots, Signal, Close, Shutdown, workerVars,
       procVars, mainVars, vars
<1>3. ASSUME NEW j \in Jobs, Submit(j)
      PROVE  ProcsTyped'
  BY <1>3, ProcFacts DEF Submit, Goto
<1>4. ASSUME NEW j \in Jobs, GiveUp(j)
      PROVE  ProcsTyped'
  BY <1>4, ProcFacts DEF GiveUp, Goto
<1>5. ASSUME NEW j \in Jobs, Receive(j)
      PROVE  ProcsTyped'
  <2>1. Head(available) \in Workers
    BY <1>5, HeadTailProperties DEF Receive, ChannelTyped
  <2> QED BY <1>5, <2>1, ProcFacts DEF Receive, Goto
<1>6. ASSUME NEW j \in Jobs, NoteTaken(j)
      PROVE  ProcsTyped'
  BY <1>6, ProcFacts DEF NoteTaken, Goto
<1>7. ASSUME NEW j \in Jobs, TryRefused(j)
      PROVE  ProcsTyped'
  BY <1>7, ProcFacts DEF TryRefused, Goto
<1>8. ASSUME NEW j \in Jobs, TryFirst(j)
      PROVE  ProcsTyped'
  <2>1. worker[j] \in Workers /\ instance[worker[j]] \in Inst \cup {NoInst}
    BY <1>8, HasWorker, ProcFacts DEF TryFirst, WorkersTyped
  <2> QED BY <1>8, <2>1, ProcFacts DEF TryFirst, Goto
<1>9. ASSUME NEW j \in Jobs, HealthOk(j)
      PROVE  ProcsTyped'
  BY <1>9, ProcFacts DEF HealthOk, Goto
<1>10. ASSUME NEW j \in Jobs, HealthFails(j)
      PROVE  ProcsTyped'
  BY <1>10, ProcFacts DEF HealthFails, Goto
<1>11. ASSUME NEW j \in Jobs, Repair(j)
      PROVE  ProcsTyped'
  <2>1. worker[j] \in Workers /\ instance[worker[j]] \in Inst \cup {NoInst}
    BY <1>11, HasWorker, ProcFacts DEF Repair, WorkersTyped
  <2> QED BY <1>11, <2>1, ProcFacts DEF Repair, StartReplacement, IdleReplacers, Goto
<1>12. ASSUME NEW j \in Jobs, Commit(j)
      PROVE  ProcsTyped'
  BY <1>12, ProcFacts DEF Commit, Goto
<1>13. ASSUME NEW j \in Jobs, SolveFails(j)
      PROVE  ProcsTyped'
  BY <1>13, ProcFacts DEF SolveFails, Goto
<1>14. ASSUME NEW j \in Jobs, LoadCount(j)
      PROVE  ProcsTyped'
  <2>1. worker[j] \in Workers /\ instance[worker[j]] \in Inst
    BY <1>14, HasWorker, ProcFacts DEF LoadCount, WorkersTyped
  <2>2. browser[instance[worker[j]]].solveCount \in 0..CountCap
    BY <2>1 DEF BrowsersTyped, BrowserRec
  <2> QED BY <1>14, <2>1, <2>2, ProcFacts DEF LoadCount, Goto
<1>15. ASSUME NEW j \in Jobs, StoreCount(j)
      PROVE  ProcsTyped'
  BY <1>15, ProcFacts DEF StoreCount, Goto, CountCap
<1>16. ASSUME NEW j \in Jobs, Release(j)
      PROVE  ProcsTyped'
  <2>1. worker[j] \in Workers /\ instance[worker[j]] \in Inst \cup {NoInst}
    BY <1>16, HasWorker, ProcFacts DEF Release, WorkersTyped
  <2>2. CASE StartReplacement(j, "idle") /\ UNCHANGED <<left, new, loaded>>
    BY <2>1, <2>2, ProcFacts DEF StartReplacement, IdleReplacers
  <2>3. CASE ~(StartReplacement(j, "idle") /\ UNCHANGED <<left, new, loaded>>)
    BY <1>16, <2>1, <2>3, ProcFacts DEF Release, Goto
  <2> QED BY <2>2, <2>3
<1>17. ASSUME NEW p \in Procs, NoteQueued(p)
      PROVE  ProcsTyped'
  BY <1>17, ProcFacts DEF NoteQueued, Goto
<1>18. ASSUME NEW p \in Procs, Send(p)
      PROVE  ProcsTyped'
  <2>1. left[p] - 1 \in 0..TabCap
    BY <1>18 DEF Send, LocalsOK, WorkerWhereNeeded
  <2> QED BY <1>18, <2>1 DEF Send, Goto, AfterSlots
<1>19. ASSUME NEW p \in Procs, Abandon(p)
      PROVE  ProcsTyped'
  BY <1>19 DEF Abandon, Goto, AfterSlots
<1>20. ASSUME NEW r \in Replacers, LaunchOk(r)
      PROVE  ProcsTyped'
  BY <1>20, ProcFacts DEF LaunchOk, Goto, FreshInst
<1>21. ASSUME NEW r \in Replacers, LaunchFails(r)
      PROVE  ProcsTyped'
  BY <1>21, ProcFacts DEF LaunchFails, Goto
<1>22. ASSUME NEW r \in Replacers, Publish(r)
      PROVE  ProcsTyped'
  <2>1. worker[r] \in Workers
    BY <1>22, HasWorker, ProcFacts DEF Publish
  <2>2. Remaining(worker[r]) \in 0..TabCap
    BY <2>1 DEF Remaining, WorkersTyped
  <2> QED BY <1>22, <2>1, <2>2, ProcFacts DEF Publish, Goto, Readvertise, Condemned
<1>23. ASSUME NEW r \in Replacers, GiveBack(r)
      PROVE  ProcsTyped'
  <2>1. worker[r] \in Workers
    BY <1>23, HasWorker, ProcFacts DEF GiveBack
  <2>2. Remaining(worker[r]) \in 0..TabCap
    BY <2>1 DEF Remaining, WorkersTyped
  <2> QED BY <1>23, <2>1, <2>2, ProcFacts DEF GiveBack, Goto, Readvertise, Condemned
<1>24. ASSUME NEW r \in Replacers, Reap(r)
      PROVE  ProcsTyped'
  BY <1>24, ProcFacts DEF Reap, Goto
<1>25. ASSUME NEW w \in Workers, BrowserAges(w)
      PROVE  ProcsTyped'
  BY <1>25 DEF BrowserAges, workerVars, procVars, mainVars, vars
<1>26. CASE Exited
  BY <1>26 DEF Exited, workerVars, procVars, mainVars, vars
<1> QED
  BY <1>1, <1>2, <1>3, <1>4, <1>5, <1>6, <1>7, <1>8, <1>9, <1>10, <1>11,
     <1>12, <1>13, <1>14, <1>15, <1>16, <1>17, <1>18, <1>19, <1>20, <1>21,
     <1>22, <1>23, <1>24, <1>25, <1>26
  DEF Next, Construct, JobStep, SlotStep, ReplaceStep

(* A goroutine gets its worker and loses it where its code does. *)
LEMMA StepWorkerWhereNeeded == TypeInv /\ [Next]_vars => WorkerWhereNeeded'
<1> SUFFICES ASSUME TypeInv, [Next]_vars PROVE WorkerWhereNeeded'
  OBVIOUS
<1> USE PoolAssumption, WorkerFacts, ProcFacts DEF TypeInv, TypeOK, ProcsTyped, LocalsOK,
     WorkerWhereNeeded
<1>1. CASE UNCHANGED vars
  BY <1>1 DEF vars, workerVars, procVars, mainVars
<1>2. CASE NewWorker \/ NewWorkerFails \/ FillSlots \/ Signal \/ Close \/ Shutdown
  BY <1>2 DEF NewWorker, NewWorkerFails, FillSlots, Signal, Close, Shutdown, workerVars,
       procVars, mainVars, vars
<1>3. ASSUME NEW j \in Jobs, Submit(j)
      PROVE  WorkerWhereNeeded'
  BY <1>3 DEF Submit, Goto, procVars
<1>4. ASSUME NEW j \in Jobs, GiveUp(j)
      PROVE  WorkerWhereNeeded'
  BY <1>4 DEF GiveUp, Goto, procVars
<1>5. ASSUME NEW j \in Jobs, Receive(j)
      PROVE  WorkerWhereNeeded'
  <2>1. Head(available) \in Workers
    BY <1>5, HeadTailProperties DEF Receive, ChannelTyped
  <2> QED BY <1>5, <2>1 DEF Receive, Goto
<1>6. ASSUME NEW j \in Jobs, NoteTaken(j)
      PROVE  WorkerWhereNeeded'
  BY <1>6 DEF NoteTaken, Goto, procVars
<1>7. ASSUME NEW j \in Jobs, TryRefused(j)
      PROVE  WorkerWhereNeeded'
  BY <1>7 DEF TryRefused, Goto, procVars
<1>8. ASSUME NEW j \in Jobs, TryFirst(j)
      PROVE  WorkerWhereNeeded'
  BY <1>8 DEF TryFirst, Goto, procVars
<1>9. ASSUME NEW j \in Jobs, HealthOk(j)
      PROVE  WorkerWhereNeeded'
  BY <1>9 DEF HealthOk, Goto, procVars
<1>10. ASSUME NEW j \in Jobs, HealthFails(j)
      PROVE  WorkerWhereNeeded'
  BY <1>10 DEF HealthFails, Goto, procVars
<1>11. ASSUME NEW j \in Jobs, Repair(j)
      PROVE  WorkerWhereNeeded'
  <2>1. worker[j] \in Workers
    BY <1>11, HasWorker DEF Repair
  <2> QED BY <1>11, <2>1 DEF Repair, Goto, StartReplacement, IdleReplacers
<1>12. ASSUME NEW j \in Jobs, Commit(j)
      PROVE  WorkerWhereNeeded'
  BY <1>12 DEF Commit, Goto, procVars
<1>13. ASSUME NEW j \in Jobs, SolveFails(j)
      PROVE  WorkerWhereNeeded'
  BY <1>13 DEF SolveFails, Goto, procVars
<1>14. ASSUME NEW j \in Jobs, LoadCount(j)
      PROVE  WorkerWhereNeeded'
  BY <1>14 DEF LoadCount, Goto, procVars
<1>15. ASSUME NEW j \in Jobs, StoreCount(j)
      PROVE  WorkerWhereNeeded'
  BY <1>15 DEF StoreCount, Goto, procVars
<1>16. ASSUME NEW j \in Jobs, Release(j)
      PROVE  WorkerWhereNeeded'
  <2>1. worker[j] \in Workers
    BY <1>16, HasWorker DEF Release
  <2>2. CASE StartReplacement(j, "idle") /\ UNCHANGED <<left, new, loaded>>
    BY <2>1, <2>2 DEF StartReplacement, IdleReplacers
  <2>3. CASE ~(StartReplacement(j, "idle") /\ UNCHANGED <<left, new, loaded>>)
    BY <1>16, <2>1, <2>3 DEF Release, Goto
  <2> QED BY <2>2, <2>3
<1>17. ASSUME NEW p \in Procs, NoteQueued(p)
      PROVE  WorkerWhereNeeded'
  BY <1>17 DEF NoteQueued, Goto, procVars
<1>18. ASSUME NEW p \in Procs, Send(p)
      PROVE  WorkerWhereNeeded'
  BY <1>18 DEF Send, Goto, procVars, AfterSlots
<1>19. ASSUME NEW p \in Procs, Abandon(p)
      PROVE  WorkerWhereNeeded'
  BY <1>19 DEF Abandon, Goto, procVars, AfterSlots
<1>20. ASSUME NEW r \in Replacers, LaunchOk(r)
      PROVE  WorkerWhereNeeded'
  BY <1>20 DEF LaunchOk, Goto, procVars
<1>21. ASSUME NEW r \in Replacers, LaunchFails(r)
      PROVE  WorkerWhereNeeded'
  BY <1>21 DEF LaunchFails, Goto, procVars
<1>22. ASSUME NEW r \in Replacers, Publish(r)
      PROVE  WorkerWhereNeeded'
  <2>1. worker[r] \in Workers
    BY <1>22, HasWorker DEF Publish
  <2>2. Remaining(worker[r]) \in 0..TabCap
    BY <2>1 DEF Remaining, WorkersTyped
  <2> QED BY <1>22, <2>1, <2>2 DEF Publish, Goto, Readvertise, Condemned
<1>23. ASSUME NEW r \in Replacers, GiveBack(r)
      PROVE  WorkerWhereNeeded'
  <2>1. worker[r] \in Workers
    BY <1>23, HasWorker DEF GiveBack
  <2>2. Remaining(worker[r]) \in 0..TabCap
    BY <2>1 DEF Remaining, WorkersTyped
  <2> QED BY <1>23, <2>1, <2>2 DEF GiveBack, Goto, Readvertise, Condemned
<1>24. ASSUME NEW r \in Replacers, Reap(r)
      PROVE  WorkerWhereNeeded'
  BY <1>24 DEF Reap, Goto, procVars
<1>25. ASSUME NEW w \in Workers, BrowserAges(w)
      PROVE  WorkerWhereNeeded'
  BY <1>25 DEF BrowserAges, workerVars, procVars, mainVars, vars
<1>26. CASE Exited
  BY <1>26 DEF Exited, workerVars, procVars, mainVars, vars
<1> QED
  BY <1>1, <1>2, <1>3, <1>4, <1>5, <1>6, <1>7, <1>8, <1>9, <1>10, <1>11,
     <1>12, <1>13, <1>14, <1>15, <1>16, <1>17, <1>18, <1>19, <1>20, <1>21,
     <1>22, <1>23, <1>24, <1>25, <1>26
  DEF Next, Construct, JobStep, SlotStep, ReplaceStep

(* The same of the browsers a goroutine holds. *)
LEMMA StepBrowserWhereNeeded == TypeInv /\ [Next]_vars => BrowserWhereNeeded'
<1> SUFFICES ASSUME TypeInv, [Next]_vars PROVE BrowserWhereNeeded'
  OBVIOUS
<1> USE PoolAssumption, WorkerFacts, ProcFacts DEF TypeInv, TypeOK, ProcsTyped, LocalsOK,
     BrowserWhereNeeded, JobLabels, ReplacerLabels
<1>1. CASE UNCHANGED vars
  BY <1>1 DEF vars, workerVars, procVars, mainVars
<1>2. CASE NewWorker \/ NewWorkerFails \/ FillSlots \/ Signal \/ Close \/ Shutdown
  BY <1>2 DEF NewWorker, NewWorkerFails, FillSlots, Signal, Close, Shutdown, workerVars,
       procVars, mainVars, vars
<1>3. ASSUME NEW j \in Jobs, Submit(j)
      PROVE  BrowserWhereNeeded'
  BY <1>3 DEF Submit, Goto, procVars
<1>4. ASSUME NEW j \in Jobs, GiveUp(j)
      PROVE  BrowserWhereNeeded'
  BY <1>4 DEF GiveUp, Goto, procVars
<1>5. ASSUME NEW j \in Jobs, Receive(j)
      PROVE  BrowserWhereNeeded'
  BY <1>5 DEF Receive, Goto, procVars
<1>6. ASSUME NEW j \in Jobs, NoteTaken(j)
      PROVE  BrowserWhereNeeded'
  BY <1>6 DEF NoteTaken, Goto, procVars
<1>7. ASSUME NEW j \in Jobs, TryRefused(j)
      PROVE  BrowserWhereNeeded'
  BY <1>7 DEF TryRefused, Goto, procVars
<1>8. ASSUME NEW j \in Jobs, TryFirst(j)
      PROVE  BrowserWhereNeeded'
  <2>1. worker[j] \in Workers /\ instance[worker[j]] \in Inst \cup {NoInst}
    BY <1>8, HasWorker DEF TryFirst, WorkersTyped, WorkerWhereNeeded
  <2> QED BY <1>8, <2>1 DEF TryFirst, Unusable, Goto
<1>9. ASSUME NEW j \in Jobs, HealthOk(j)
      PROVE  BrowserWhereNeeded'
  BY <1>9 DEF HealthOk, Goto, procVars
<1>10. ASSUME NEW j \in Jobs, HealthFails(j)
      PROVE  BrowserWhereNeeded'
  BY <1>10 DEF HealthFails, Goto, procVars
<1>11. ASSUME NEW j \in Jobs, Repair(j)
      PROVE  BrowserWhereNeeded'
  <2>1. worker[j] \in Workers /\ instance[worker[j]] \in Inst \cup {NoInst}
    BY <1>11, HasWorker DEF Repair, WorkersTyped, WorkerWhereNeeded
  <2> QED BY <1>11, <2>1 DEF Repair, RepairRefused, StartReplacement, IdleReplacers, Goto
<1>12. ASSUME NEW j \in Jobs, Commit(j)
      PROVE  BrowserWhereNeeded'
  BY <1>12 DEF Commit, Goto, procVars
<1>13. ASSUME NEW j \in Jobs, SolveFails(j)
      PROVE  BrowserWhereNeeded'
  BY <1>13 DEF SolveFails, Goto, procVars
<1>14. ASSUME NEW j \in Jobs, LoadCount(j)
      PROVE  BrowserWhereNeeded'
  <2>1. worker[j] \in Workers /\ instance[worker[j]] \in Inst \cup {NoInst}
    BY <1>14, HasWorker DEF LoadCount, WorkersTyped, WorkerWhereNeeded
  <2> QED BY <1>14, <2>1 DEF LoadCount, Goto
<1>15. ASSUME NEW j \in Jobs, StoreCount(j)
      PROVE  BrowserWhereNeeded'
  BY <1>15 DEF StoreCount, Goto, procVars
<1>16. ASSUME NEW j \in Jobs, Release(j)
      PROVE  BrowserWhereNeeded'
  <2>1. worker[j] \in Workers /\ instance[worker[j]] \in Inst \cup {NoInst}
    BY <1>16, HasWorker DEF Release, WorkersTyped, WorkerWhereNeeded
  <2>2. CASE StartReplacement(j, "idle") /\ UNCHANGED <<left, new, loaded>> /\ instance[worker[j]] # NoInst
    BY <1>16, <2>1, <2>2 DEF Release, StartReplacement, IdleReplacers
  <2>3. CASE ~(StartReplacement(j, "idle") /\ UNCHANGED <<left, new, loaded>> /\ instance[worker[j]] # NoInst)
    BY <1>16, <2>1, <2>3 DEF Release, Goto
  <2> QED BY <2>2, <2>3
<1>17. ASSUME NEW p \in Procs, NoteQueued(p)
      PROVE  BrowserWhereNeeded'
  BY <1>17 DEF NoteQueued, Goto, procVars
<1>18. ASSUME NEW p \in Procs, Send(p)
      PROVE  BrowserWhereNeeded'
  BY <1>18 DEF Send, Goto, procVars, AfterSlots
<1>19. ASSUME NEW p \in Procs, Abandon(p)
      PROVE  BrowserWhereNeeded'
  BY <1>19 DEF Abandon, Goto, procVars, AfterSlots
<1>20. ASSUME NEW r \in Replacers, LaunchOk(r)
      PROVE  BrowserWhereNeeded'
  BY <1>20 DEF LaunchOk, Goto, procVars, FreshInst
<1>21. ASSUME NEW r \in Replacers, LaunchFails(r)
      PROVE  BrowserWhereNeeded'
  BY <1>21 DEF LaunchFails, Goto, procVars
<1>22. ASSUME NEW r \in Replacers, Publish(r)
      PROVE  BrowserWhereNeeded'
  BY <1>22 DEF Publish, Goto, procVars, Readvertise, Condemned
<1>23. ASSUME NEW r \in Replacers, GiveBack(r)
      PROVE  BrowserWhereNeeded'
  BY <1>23 DEF GiveBack, Goto, procVars, Readvertise, Condemned
<1>24. ASSUME NEW r \in Replacers, Reap(r)
      PROVE  BrowserWhereNeeded'
  BY <1>24 DEF Reap, Goto, procVars
<1>25. ASSUME NEW w \in Workers, BrowserAges(w)
      PROVE  BrowserWhereNeeded'
  BY <1>25 DEF BrowserAges, workerVars, procVars, mainVars, vars
<1>26. CASE Exited
  BY <1>26 DEF Exited, workerVars, procVars, mainVars, vars
<1> QED
  BY <1>1, <1>2, <1>3, <1>4, <1>5, <1>6, <1>7, <1>8, <1>9, <1>10, <1>11,
     <1>12, <1>13, <1>14, <1>15, <1>16, <1>17, <1>18, <1>19, <1>20, <1>21,
     <1>22, <1>23, <1>24, <1>25, <1>26
  DEF Next, Construct, JobStep, SlotStep, ReplaceStep

(* While NewPool runs nothing else does, and Close visits the workers in turn. *)
LEMMA StepQuiet == TypeInv /\ [Next]_vars => Quiet'
<1> SUFFICES ASSUME TypeInv, [Next]_vars PROVE Quiet'
  OBVIOUS
<1> USE PoolAssumption, WorkerFacts, ProcFacts DEF TypeInv, TypeOK, Quiet
<1>1. CASE UNCHANGED vars
  BY <1>1 DEF vars, workerVars, procVars, mainVars
<1>2. CASE NewWorkerFails
  BY <1>2 DEF NewWorkerFails, workerVars, procVars, mainVars, vars
<1>3. CASE NewWorker
  <2>1. PICK i \in FreshInst : instance' = [instance EXCEPT ![cursor] = i]
    BY <1>3 DEF NewWorker
  <2>2. i # NoInst /\ cursor \in Workers
    BY <2>1 DEF FreshInst, MainTyped
  <2>3. \A w \in Workers : instance'[w] = IF w = cursor THEN i ELSE instance[w]
    BY <2>1, <2>2 DEF WorkersTyped
  <2> QED BY <1>3, <2>2, <2>3 DEF NewWorker, procVars
<1>4. CASE FillSlots
  <2>1. PICK n \in 0..TabCap : available' = available \o [k \in 1..n |-> cursor]
    BY <1>4 DEF FillSlots
  <2>2. CASE cursor = PoolSize
    BY <1>4, <2>2 DEF FillSlots
  <2>3. CASE cursor # PoolSize
    <3>1. cursor \in Workers /\ cursor \in Nat /\ cursor' = cursor + 1 /\ main' = "launch"
      BY <1>4, <2>3 DEF FillSlots, MainTyped
    <3>2. \A p \in Procs : pc'[p] = "idle"
      BY <1>4 DEF FillSlots, procVars
    <3>3. \A w \in Workers :
            /\ ~replacing'[w] /\ ~closing'[w]
            /\ instance'[w] # NoInst <=> w < cursor'
      BY <1>4, <3>1 DEF FillSlots
    <3>4. Len(available') = Len(available) + n
      BY <2>1, <3>1, Repeated, ConcatProperties DEF ChannelTyped
    <3>5. Len(available') <= (cursor' - 1) * TabCap
      <4> DEFINE room == (cursor - 1) * TabCap
      <4>1. room \in Nat /\ (cursor' - 1) * TabCap = room + TabCap
        BY <3>1, RoomForSlots
      <4>2. Len(available) <= room /\ Len(available) \in Nat
        BY <1>4 DEF FillSlots, ChannelTyped
      <4> HIDE DEF room
      <4> QED BY <3>4, <4>1, <4>2
    <3> QED BY <3>1, <3>2, <3>3, <3>5
  <2> QED BY <2>2, <2>3
<1>5. CASE Signal
  BY <1>5 DEF Signal, workerVars, procVars
<1>6. CASE Close
  BY <1>6 DEF Close, workerVars
<1>7. CASE Shutdown
  <2>1. /\ cursor \in Workers /\ main = "closing" /\ main' \in {"closing", "closed"}
        /\ main' = "closing" => cursor' = cursor + 1
    BY <1>7 DEF Shutdown, MainTyped
  <2>2. \A w \in Workers : closing'[w] => closing[w] \/ w = cursor
    BY <1>7, <2>1 DEF Shutdown, WorkersTyped
  <2> QED BY <2>1, <2>2
<1>8. ASSUME NEW j \in Jobs, Submit(j)
      PROVE  Quiet'
  BY <1>8 DEF Submit, mainVars, workerVars
<1>9. ASSUME NEW j \in Jobs, GiveUp(j)
      PROVE  Quiet'
  <2>1. main \notin {"launch", "fill", "failed"}
    BY <1>9 DEF GiveUp
  <2> QED BY <1>9, <2>1 DEF GiveUp, mainVars, workerVars, StartReplacement
<1>10. ASSUME NEW j \in Jobs, Receive(j)
      PROVE  Quiet'
  <2>1. main \notin {"launch", "fill", "failed"}
    BY <1>10 DEF Receive
  <2> QED BY <1>10, <2>1 DEF Receive, mainVars, workerVars, StartReplacement
<1>11. ASSUME NEW j \in Jobs, NoteTaken(j)
      PROVE  Quiet'
  <2>1. main \notin {"launch", "fill", "failed"}
    BY <1>11 DEF NoteTaken
  <2> QED BY <1>11, <2>1 DEF NoteTaken, mainVars, workerVars, StartReplacement
<1>12. ASSUME NEW j \in Jobs, TryRefused(j)
      PROVE  Quiet'
  <2>1. main \notin {"launch", "fill", "failed"}
    BY <1>12 DEF TryRefused
  <2> QED BY <1>12, <2>1 DEF TryRefused, mainVars, workerVars, StartReplacement
<1>13. ASSUME NEW j \in Jobs, TryFirst(j)
      PROVE  Quiet'
  <2>1. main \notin {"launch", "fill", "failed"}
    BY <1>13 DEF TryFirst
  <2> QED BY <1>13, <2>1 DEF TryFirst, mainVars, workerVars, StartReplacement
<1>14. ASSUME NEW j \in Jobs, HealthOk(j)
      PROVE  Quiet'
  <2>1. main \notin {"launch", "fill", "failed"}
    BY <1>14 DEF HealthOk
  <2> QED BY <1>14, <2>1 DEF HealthOk, mainVars, workerVars, StartReplacement
<1>15. ASSUME NEW j \in Jobs, HealthFails(j)
      PROVE  Quiet'
  <2>1. main \notin {"launch", "fill", "failed"}
    BY <1>15 DEF HealthFails
  <2> QED BY <1>15, <2>1 DEF HealthFails, mainVars, workerVars, StartReplacement
<1>16. ASSUME NEW j \in Jobs, Repair(j)
      PROVE  Quiet'
  <2>1. main \notin {"launch", "fill", "failed"}
    BY <1>16 DEF Repair
  <2> QED BY <1>16, <2>1 DEF Repair, mainVars, workerVars, StartReplacement
<1>17. ASSUME NEW j \in Jobs, Commit(j)
      PROVE  Quiet'
  <2>1. main \notin {"launch", "fill", "failed"}
    BY <1>17 DEF Commit
  <2> QED BY <1>17, <2>1 DEF Commit, mainVars, workerVars, StartReplacement
<1>18. ASSUME NEW j \in Jobs, SolveFails(j)
      PROVE  Quiet'
  <2>1. main \notin {"launch", "fill", "failed"}
    BY <1>18 DEF SolveFails
  <2> QED BY <1>18, <2>1 DEF SolveFails, mainVars, workerVars, StartReplacement
<1>19. ASSUME NEW j \in Jobs, LoadCount(j)
      PROVE  Quiet'
  <2>1. main \notin {"launch", "fill", "failed"}
    BY <1>19 DEF LoadCount
  <2> QED BY <1>19, <2>1 DEF LoadCount, mainVars, workerVars, StartReplacement
<1>20. ASSUME NEW j \in Jobs, StoreCount(j)
      PROVE  Quiet'
  <2>1. main \notin {"launch", "fill", "failed"}
    BY <1>20 DEF StoreCount
  <2> QED BY <1>20, <2>1 DEF StoreCount, mainVars, workerVars, StartReplacement
<1>21. ASSUME NEW j \in Jobs, Release(j)
      PROVE  Quiet'
  <2>1. main \notin {"launch", "fill", "failed"}
    BY <1>21 DEF Release
  <2> QED BY <1>21, <2>1 DEF Release, mainVars, workerVars, StartReplacement
<1>22. ASSUME NEW p \in Procs, NoteQueued(p)
      PROVE  Quiet'
  <2>1. main \notin {"launch", "fill", "failed"}
    BY <1>22 DEF NoteQueued
  <2> QED BY <1>22, <2>1 DEF NoteQueued, mainVars, workerVars, StartReplacement
<1>23. ASSUME NEW p \in Procs, Send(p)
      PROVE  Quiet'
  <2>1. main \notin {"launch", "fill", "failed"}
    BY <1>23 DEF Send
  <2> QED BY <1>23, <2>1 DEF Send, mainVars, workerVars, StartReplacement
<1>24. ASSUME NEW p \in Procs, Abandon(p)
      PROVE  Quiet'
  <2>1. main \notin {"launch", "fill", "failed"}
    BY <1>24 DEF Abandon
  <2> QED BY <1>24, <2>1 DEF Abandon, mainVars, workerVars, StartReplacement
<1>25. ASSUME NEW r \in Replacers, LaunchOk(r)
      PROVE  Quiet'
  <2>1. main \notin {"launch", "fill", "failed"}
    BY <1>25 DEF LaunchOk
  <2> QED BY <1>25, <2>1 DEF LaunchOk, mainVars, workerVars, StartReplacement
<1>26. ASSUME NEW r \in Replacers, LaunchFails(r)
      PROVE  Quiet'
  <2>1. main \notin {"launch", "fill", "failed"}
    BY <1>26 DEF LaunchFails
  <2> QED BY <1>26, <2>1 DEF LaunchFails, mainVars, workerVars, StartReplacement
<1>27. ASSUME NEW r \in Replacers, Publish(r)
      PROVE  Quiet'
  <2>1. main \notin {"launch", "fill", "failed"}
    BY <1>27 DEF Publish
  <2> QED BY <1>27, <2>1 DEF Publish, mainVars, workerVars, StartReplacement
<1>28. ASSUME NEW r \in Replacers, GiveBack(r)
      PROVE  Quiet'
  <2>1. main \notin {"launch", "fill", "failed"}
    BY <1>28 DEF GiveBack
  <2> QED BY <1>28, <2>1 DEF GiveBack, mainVars, workerVars, StartReplacement
<1>29. ASSUME NEW r \in Replacers, Reap(r)
      PROVE  Quiet'
  <2>1. main \notin {"launch", "fill", "failed"}
    BY <1>29 DEF Reap
  <2> QED BY <1>29, <2>1 DEF Reap, mainVars, workerVars, StartReplacement
<1>30. ASSUME NEW w \in Workers, BrowserAges(w)
      PROVE  Quiet'
  BY <1>30 DEF BrowserAges, workerVars, procVars, mainVars, vars
<1>31. CASE Exited
  BY <1>31 DEF Exited, workerVars, procVars, mainVars, vars
<1> QED
  BY <1>1, <1>2, <1>3, <1>4, <1>5, <1>6, <1>7, <1>8, <1>9, <1>10, <1>11,
     <1>12, <1>13, <1>14, <1>15, <1>16, <1>17, <1>18, <1>19, <1>20, <1>21,
     <1>22, <1>23, <1>24, <1>25, <1>26, <1>27, <1>28, <1>29, <1>30, <1>31
  DEF Next, Construct, JobStep, SlotStep, ReplaceStep

(* The three are inductive together. *)
LEMMA StepTypeInv == TypeInv /\ [Next]_vars => TypeInv'
BY StepWorkersTyped, StepChannelTyped, StepBrowsersTyped, StepMainTyped, StepProcsTyped,
   StepWorkerWhereNeeded, StepBrowserWhereNeeded, StepQuiet
   DEF TypeInv, TypeOK, LocalsOK

(* Every variable has its type in every reachable state, so no worker ever  *)
(* serves more than TabCap tabs and the channel never overflows its buffer, *)
(* whatever the sizes.                                                      *)
THEOREM TypeCorrect == Spec => []TypeOK
<1>1. TypeInv => TypeOK
  BY DEF TypeInv
<1> QED BY InitTypes, StepTypeInv, <1>1, PTL DEF Spec

-----------------------------------------------------------------------------
(* Who holds a browser and who replaces it.  ReplacingOwned, SoleOwner and OwnedOpen *)
(* only look at the workers and at what replaceInst goroutines hold; most steps   *)
(* change nothing of that.                                                        *)

SameOwners ==
  /\ UNCHANGED <<instance, replacing, closing, new>>
  /\ \A w \in Workers : Built(w)' <=> Built(w)
  /\ \A r \in Replacers :
       /\ Settling(r)' <=> Settling(r)
       /\ Settling(r) => worker'[r] = worker[r]
       /\ pc'[r] = "publish" <=> pc[r] = "publish"
       /\ old'[r] = old[r]
  /\ \A i \in Inst : browser'[i].open = browser[i].open

(* Worker w loses its browser to a new replaceInst goroutine r. *)
Starts(w, r) ==
  /\ ~replacing[w] /\ instance[w] # NoInst
  /\ instance' = [instance EXCEPT ![w] = NoInst]
  /\ replacing' = [replacing EXCEPT ![w] = TRUE]
  /\ pc[r] = "idle" /\ pc'[r] = "launch" /\ worker'[r] = w /\ old'[r] = instance[w]
  /\ \A q \in Replacers :
       q # r => pc'[q] = pc[q] /\ worker'[q] = worker[q] /\ old'[q] = old[q]
  /\ UNCHANGED <<browser, closing, new, main, cursor>>

Effects ==
  \/ SameOwners
  \/ \E w \in Workers, r \in Replacers : Starts(w, r)
  \/ NewWorker \/ FillSlots \/ Shutdown
  \/ \E r \in Replacers : LaunchOk(r) \/ Publish(r) \/ GiveBack(r) \/ Reap(r)

(* The parts of PoolInv, so that a proof can cite them. *)
LEMMA Parts ==
  ASSUME PoolInv
  PROVE  /\ TypeInv /\ TypeOK /\ LocalsOK /\ Quiet
         /\ ChannelTyped /\ WorkersTyped /\ BrowsersTyped /\ MainTyped /\ ProcsTyped
         /\ WorkerWhereNeeded /\ BrowserWhereNeeded
         /\ TabsMatchLeases /\ ReplacingOwned /\ TabsHoldBrowser /\ SoleOwner /\ OwnedOpen
BY DEF PoolInv, TypeInv, TypeOK, LocalsOK

(* Every step affects the owners of the browsers as Effects says. *)
LEMMA StepEffects == PoolInv /\ [Next]_vars => Effects
<1> SUFFICES ASSUME PoolInv, [Next]_vars PROVE Effects
  OBVIOUS
<1>0. /\ TypeInv /\ TypeOK /\ LocalsOK /\ Quiet
      /\ ChannelTyped /\ WorkersTyped /\ BrowsersTyped /\ MainTyped /\ ProcsTyped
      /\ WorkerWhereNeeded /\ BrowserWhereNeeded
  BY Parts
<1> USE PoolAssumption, WorkerFacts, ProcFacts DEF Effects, Settling, Built
<1>1. CASE UNCHANGED vars
  BY <1>1 DEF vars, workerVars, procVars, mainVars, SameOwners
<1>2. CASE NewWorkerFails \/ Signal \/ Close
  BY <1>2 DEF NewWorkerFails, Signal, Close, workerVars, procVars, mainVars, vars, SameOwners
<1>3. CASE NewWorker
  BY <1>3
<1>4. CASE FillSlots
  BY <1>4
<1>5. CASE Shutdown
  BY <1>5
<1>6. ASSUME NEW j \in Jobs, Submit(j)
      PROVE  Effects
  BY <1>6, <1>0 DEF Submit, Goto, workerVars, procVars, mainVars, ProcsTyped, SameOwners
<1>7. ASSUME NEW j \in Jobs, GiveUp(j)
      PROVE  Effects
  BY <1>7, <1>0 DEF GiveUp, Goto, workerVars, procVars, mainVars, ProcsTyped, SameOwners
<1>8. ASSUME NEW j \in Jobs, Receive(j)
      PROVE  Effects
  BY <1>8, <1>0 DEF Receive, Goto, workerVars, procVars, mainVars, ProcsTyped, SameOwners
<1>9. ASSUME NEW j \in Jobs, NoteTaken(j)
      PROVE  Effects
  BY <1>9, <1>0 DEF NoteTaken, Goto, workerVars, procVars, mainVars, ProcsTyped, SameOwners
<1>10. ASSUME NEW j \in Jobs, TryRefused(j)
      PROVE  Effects
  BY <1>10, <1>0 DEF TryRefused, Goto, workerVars, procVars, mainVars, ProcsTyped, SameOwners
<1>11. ASSUME NEW j \in Jobs, TryFirst(j)
      PROVE  Effects
  BY <1>11, <1>0 DEF TryFirst, Goto, workerVars, procVars, mainVars, ProcsTyped, SameOwners
<1>12. ASSUME NEW j \in Jobs, HealthOk(j)
      PROVE  Effects
  BY <1>12, <1>0 DEF HealthOk, Goto, workerVars, procVars, mainVars, ProcsTyped, SameOwners
<1>13. ASSUME NEW j \in Jobs, HealthFails(j)
      PROVE  Effects
  BY <1>13, <1>0 DEF HealthFails, Goto, workerVars, procVars, mainVars, ProcsTyped, SameOwners
<1>14. ASSUME NEW j \in Jobs, Repair(j)
      PROVE  Effects
  <2>1. worker[j] \in Workers /\ old[j] # NoInst
    BY <1>14, <1>0, HasWorker DEF Repair, BrowserWhereNeeded
  <2>2. CASE StartReplacement(j, "acquire") /\ ~RepairRefused(worker[j], old[j])
    <3>1. PICK r \in Replacers :
            /\ pc[r] = "idle"
            /\ pc' = [pc EXCEPT ![j] = "acquire", ![r] = "launch"]
            /\ worker' = [worker EXCEPT ![j] = NoWorker, ![r] = worker[j]]
            /\ old' = [old EXCEPT ![j] = NoInst, ![r] = instance[worker[j]]]
      BY <2>2 DEF StartReplacement, IdleReplacers
    <3>2. /\ pc'[r] = "launch" /\ worker'[r] = worker[j] /\ old'[r] = instance[worker[j]]
          /\ \A q \in Replacers :
               q # r => pc'[q] = pc[q] /\ worker'[q] = worker[q] /\ old'[q] = old[q]
      BY <1>0, <3>1 DEF ProcsTyped
    <3>3. Starts(worker[j], r)
      BY <1>14, <2>1, <2>2, <3>1, <3>2 DEF Starts, Repair, RepairRefused, StartReplacement, mainVars
    <3> QED BY <2>1, <3>3
  <2>3. CASE ~(StartReplacement(j, "acquire") /\ ~RepairRefused(worker[j], old[j]))
    BY <1>14, <1>0, <2>3 DEF Repair, Goto, mainVars, ProcsTyped, SameOwners
  <2> QED BY <2>2, <2>3
<1>15. ASSUME NEW j \in Jobs, Commit(j)
      PROVE  Effects
  BY <1>15, <1>0 DEF Commit, Goto, workerVars, procVars, mainVars, ProcsTyped, SameOwners
<1>16. ASSUME NEW j \in Jobs, SolveFails(j)
      PROVE  Effects
  BY <1>16, <1>0 DEF SolveFails, Goto, workerVars, procVars, mainVars, ProcsTyped, SameOwners
<1>17. ASSUME NEW j \in Jobs, LoadCount(j)
      PROVE  Effects
  BY <1>17, <1>0 DEF LoadCount, Goto, workerVars, procVars, mainVars, ProcsTyped, SameOwners
<1>18. ASSUME NEW j \in Jobs, StoreCount(j)
      PROVE  Effects
  <2>1. old[j] \in Inst
    BY <1>18, <1>0 DEF StoreCount, BrowserWhereNeeded, ProcsTyped
  <2>2. browser[old[j]] \in BrowserRec
    BY <1>0, <2>1 DEF BrowsersTyped
  <2>3. \A i \in Inst : browser'[i].open = browser[i].open
    BY <1>18, <1>0, <2>1, <2>2 DEF StoreCount, BrowsersTyped, BrowserRec
  <2> QED BY <1>18, <1>0, <2>3 DEF StoreCount, Goto, workerVars, mainVars, ProcsTyped, SameOwners
<1>19. ASSUME NEW j \in Jobs, Release(j)
      PROVE  Effects
  <2>1. worker[j] \in Workers
    BY <1>19, <1>0, HasWorker DEF Release
  <2>2. CASE StartReplacement(j, "idle") /\ ~replacing[worker[j]] /\ instance[worker[j]] # NoInst
    <3>1. PICK r \in Replacers :
            /\ pc[r] = "idle"
            /\ pc' = [pc EXCEPT ![j] = "idle", ![r] = "launch"]
            /\ worker' = [worker EXCEPT ![j] = NoWorker, ![r] = worker[j]]
            /\ old' = [old EXCEPT ![j] = NoInst, ![r] = instance[worker[j]]]
      BY <2>2 DEF StartReplacement, IdleReplacers
    <3>2. /\ pc'[r] = "launch" /\ worker'[r] = worker[j] /\ old'[r] = instance[worker[j]]
          /\ \A q \in Replacers :
               q # r => pc'[q] = pc[q] /\ worker'[q] = worker[q] /\ old'[q] = old[q]
      BY <1>0, <3>1 DEF ProcsTyped
    <3>3. Starts(worker[j], r)
      BY <1>19, <2>1, <2>2, <3>1, <3>2 DEF Starts, Release, StartReplacement, mainVars
    <3> QED BY <2>1, <3>3
  <2>3. CASE ~(StartReplacement(j, "idle") /\ ~replacing[worker[j]] /\ instance[worker[j]] # NoInst)
    BY <1>19, <1>0, <2>3 DEF Release, Retires, Goto, mainVars, ProcsTyped, SameOwners
  <2> QED BY <2>2, <2>3
<1>20. ASSUME NEW p \in Procs, NoteQueued(p)
      PROVE  Effects
  BY <1>20, <1>0 DEF NoteQueued, Goto, workerVars, procVars, mainVars, ProcsTyped, SameOwners
<1>21. ASSUME NEW p \in Procs, Send(p)
      PROVE  Effects
  BY <1>21, <1>0 DEF Send, Goto, AfterSlots, workerVars, procVars, mainVars, ProcsTyped, SameOwners
<1>22. ASSUME NEW p \in Procs, Abandon(p)
      PROVE  Effects
  BY <1>22, <1>0 DEF Abandon, Goto, AfterSlots, workerVars, procVars, mainVars, ProcsTyped,
       SameOwners
<1>23. ASSUME NEW r \in Replacers, LaunchOk(r)
      PROVE  Effects
  BY <1>23
<1>24. ASSUME NEW r \in Replacers, LaunchFails(r)
      PROVE  Effects
  BY <1>24, <1>0 DEF LaunchFails, Goto, workerVars, procVars, mainVars, ProcsTyped, SameOwners
<1>25. ASSUME NEW r \in Replacers, Publish(r)
      PROVE  Effects
  BY <1>25
<1>26. ASSUME NEW r \in Replacers, GiveBack(r)
      PROVE  Effects
  BY <1>26
<1>27. ASSUME NEW r \in Replacers, Reap(r)
      PROVE  Effects
  BY <1>27
<1>28. ASSUME NEW w \in Workers, BrowserAges(w)
      PROVE  Effects
  <2>1. instance[w] \in Inst
    BY <1>28, <1>0 DEF BrowserAges, WorkersTyped
  <2>2. browser[instance[w]] \in BrowserRec
    BY <1>0, <2>1 DEF BrowsersTyped
  <2>3. \A i \in Inst : browser'[i].open = browser[i].open
    BY <1>28, <1>0, <2>1, <2>2 DEF BrowserAges, BrowsersTyped, BrowserRec
  <2> QED BY <1>28, <2>3 DEF BrowserAges, workerVars, procVars, mainVars, SameOwners
<1>29. CASE Exited
  BY <1>29 DEF Exited, workerVars, procVars, mainVars, vars, SameOwners
<1> QED
  BY <1>1, <1>2, <1>3, <1>4, <1>5, <1>6, <1>7, <1>8, <1>9, <1>10, <1>11,
     <1>12, <1>13, <1>14, <1>15, <1>16, <1>17, <1>18, <1>19, <1>20, <1>21,
     <1>22, <1>23, <1>24, <1>25, <1>26, <1>27, <1>28, <1>29
  DEF Next, Construct, JobStep, SlotStep, ReplaceStep

(* Where NewWorker and LaunchOk put a browser that nobody holds, and where   *)
(* replaceInst puts the browser it settles for.                              *)
LEMMA FreshFacts ==
  ASSUME PoolInv, NEW i \in FreshInst
  PROVE  /\ i \in Inst /\ i # NoInst
         /\ \A w \in Workers : instance[w] # i
         /\ \A r \in Replacers : old[r] # i /\ new[r] # i
BY PoolAssumption, ProcFacts DEF FreshInst, Referenced

(* NewPool gives a browser to a worker that had none. *)
LEMMA NewWorkerEffect ==
  ASSUME PoolInv, NewWorker
  PROVE  \E i \in FreshInst :
           /\ cursor \in Workers /\ main = "launch"
           /\ \A w \in Workers : instance'[w] = IF w = cursor THEN i ELSE instance[w]
           /\ browser' = [browser EXCEPT ![i] = NewBrowser]
           /\ UNCHANGED <<replacing, closing, pc, worker, old, new, activeTabs, cursor>>
<1>1. PICK i \in FreshInst : /\ instance' = [instance EXCEPT ![cursor] = i]
                             /\ browser' = [browser EXCEPT ![i] = NewBrowser]
  BY DEF NewWorker
<1>2. cursor \in Workers /\ \A w \in Workers : instance'[w] = IF w = cursor THEN i ELSE instance[w]
  BY <1>1, Parts DEF WorkersTyped, MainTyped
<1> QED BY <1>1, <1>2 DEF NewWorker, procVars

(* Close takes a browser only from a worker whose tabs are all free. *)
LEMMA ShutdownEffect ==
  ASSUME PoolInv, Shutdown
  PROVE  /\ cursor \in Workers /\ main = "closing"
         /\ \A w \in Workers :
              /\ closing'[w] = (closing[w] \/ w = cursor)
              /\ instance'[w] = IF w = cursor /\ activeTabs[cursor] = 0
                                THEN NoInst ELSE instance[w]
         /\ \A i \in Inst : browser'[i] = browser[i]
                              \/ (i = instance[cursor] /\ activeTabs[cursor] = 0)
         /\ UNCHANGED <<replacing, pc, worker, old, new, activeTabs>>
         /\ main' \in {"closing", "closed"}
BY Parts, WorkerFacts DEF Shutdown, Shuts, WorkersTyped, MainTyped, BrowsersTyped, procVars

(* replaceInst ends with a browser for its worker, or with a worker closing. *)
LEMMA FinishEffect ==
  ASSUME PoolInv, NEW r \in Replacers, Publish(r) \/ GiveBack(r)
  PROVE  /\ worker[r] \in Workers /\ Settling(r) /\ ~Settling(r)' /\ pc'[r] # "publish"
         /\ old[r] # NoInst
         /\ \A q \in Replacers : q # r => /\ pc'[q] = pc[q] /\ worker'[q] = worker[q]
                                          /\ old'[q] = old[q] /\ new'[q] = new[q]
         /\ \A w \in Workers : w # worker[r] =>
              replacing'[w] = replacing[w] /\ instance'[w] = instance[w]
         /\ ~replacing'[worker[r]]
         /\ \/ /\ closing[worker[r]]
               /\ instance'[worker[r]] = instance[worker[r]]
               /\ old'[r] = old[r] /\ new'[r] = NoInst
               /\ \A i \in Inst : browser'[i] = browser[i] \/ i = new[r]
            \/ /\ pc[r] = "publish" /\ new[r] # NoInst
               /\ instance'[worker[r]] = new[r]
               /\ old'[r] = old[r] /\ new'[r] = NoInst
               /\ UNCHANGED browser
            \/ /\ instance'[worker[r]] = old[r]
               /\ old'[r] = NoInst /\ new'[r] = NoInst
               /\ UNCHANGED browser
         /\ UNCHANGED <<closing, activeTabs, main, cursor>>
<1> USE Parts, ProcFacts, PoolAssumption
<1>1. worker[r] \in Workers
  BY HasWorker DEF Publish, GiveBack
<1>2. CASE Publish(r)
  <2>1. /\ worker[r] \in Workers /\ pc[r] = "publish" /\ new[r] # NoInst /\ old[r] # NoInst
        /\ replacing' = [replacing EXCEPT ![worker[r]] = FALSE]
        /\ new' = [new EXCEPT ![r] = NoInst]
        /\ UNCHANGED <<closing, activeTabs, main, cursor>>
    BY <1>1, <1>2 DEF Publish, mainVars, BrowserWhereNeeded
  <2>2. CASE closing[worker[r]]
    <3>1. /\ browser' = [browser EXCEPT ![new[r]] = ClosedBrowser]
          /\ pc' = [pc EXCEPT ![r] = "reap"]
          /\ worker' = [worker EXCEPT ![r] = NoWorker]
          /\ UNCHANGED <<instance, old>>
      BY <1>2, <2>2 DEF Publish, Goto
    <3> QED BY <2>1, <2>2, <3>1 DEF Settling, ProcsTyped, WorkersTyped, BrowsersTyped
  <2>3. CASE ~closing[worker[r]]
    <3>1. /\ instance' = [instance EXCEPT ![worker[r]] = new[r]]
          /\ old' = [old EXCEPT ![r] = old[r]]
          /\ \/ pc' = [pc EXCEPT ![r] = "note"] /\ UNCHANGED worker
             \/ pc' = [pc EXCEPT ![r] = "reap"] /\ worker' = [worker EXCEPT ![r] = NoWorker]
          /\ UNCHANGED browser
      BY <1>2, <2>1, <2>3 DEF Publish, Readvertise, Condemned, Goto
    <3> QED BY <2>1, <3>1 DEF Settling, ProcsTyped, WorkersTyped
  <2> QED BY <2>2, <2>3
<1>3. CASE GiveBack(r)
  <2>1. /\ worker[r] \in Workers /\ pc[r] = "giveback" /\ new[r] = NoInst /\ old[r] # NoInst
        /\ replacing' = [replacing EXCEPT ![worker[r]] = FALSE]
        /\ UNCHANGED <<closing, activeTabs, main, cursor, browser, new>>
    BY <1>1, <1>3 DEF GiveBack, mainVars, BrowserWhereNeeded, ProcsTyped
  <2>2. CASE closing[worker[r]]
    <3>1. /\ pc' = [pc EXCEPT ![r] = "reap"]
          /\ worker' = [worker EXCEPT ![r] = NoWorker]
          /\ UNCHANGED <<instance, old>>
      BY <1>3, <2>2 DEF GiveBack, Goto
    <3> QED BY <2>1, <2>2, <3>1 DEF Settling, ProcsTyped, WorkersTyped
  <2>3. CASE ~closing[worker[r]]
    <3>1. /\ instance' = [instance EXCEPT ![worker[r]] = old[r]]
          /\ old' = [old EXCEPT ![r] = NoInst]
          /\ \/ pc' = [pc EXCEPT ![r] = "note"] /\ UNCHANGED worker
             \/ pc' = [pc EXCEPT ![r] = "idle"] /\ worker' = [worker EXCEPT ![r] = NoWorker]
      BY <1>3, <2>1, <2>3 DEF GiveBack, Readvertise, Condemned, Goto
    <3> QED BY <2>1, <3>1 DEF Settling, ProcsTyped, WorkersTyped
  <2> QED BY <2>2, <2>3
<1> QED BY <1>2, <1>3

(* One replaceInst per worker: the flag is set only where it was clear. *)
LEMMA StepReplacingOwned == PoolInv /\ [Next]_vars => ReplacingOwned'
<1> SUFFICES ASSUME PoolInv, Effects PROVE ReplacingOwned'
  BY StepEffects
<1> USE WorkerFacts
<1>0. ReplacingOwned /\ WorkersTyped /\ ProcsTyped /\ BrowserWhereNeeded /\ Quiet
  BY Parts
<1>1. CASE SameOwners
  BY <1>0, <1>1 DEF SameOwners, ReplacingOwned, Settling, Built
<1>2. ASSUME NEW w \in Workers, NEW r \in Replacers, Starts(w, r)
      PROVE  ReplacingOwned'
  <2>1. /\ \A v \in Workers : /\ replacing'[v] = (replacing[v] \/ v = w)
                              /\ instance'[v] = IF v = w THEN NoInst ELSE instance[v]
                              /\ Built(v)' <=> Built(v)
    BY <1>0, <1>2 DEF Starts, WorkersTyped, Built
  <2>2. /\ ~Settling(r) /\ Settling(r)' /\ worker'[r] = w /\ ~replacing[w] /\ closing' = closing
        /\ \A q \in Replacers : q # r => /\ Settling(q)' <=> Settling(q)
                                         /\ worker'[q] = worker[q]
    BY <1>2 DEF Starts, Settling
  <2>3. \A q \in Replacers : Settling(q) => q # r /\ worker[q] # w
    BY <1>0, <2>2 DEF ReplacingOwned
  <2>4. \A q \in Replacers : Settling(q) => worker[q] \in Workers
    BY Parts, HasWorker, ProcFacts DEF Settling
  <2>5. \A q \in Replacers : Settling(q)' => replacing'[worker'[q]]
    <3>1. TAKE q \in Replacers
    <3>2. CASE q = r
      BY <2>1, <2>2, <3>2
    <3>3. CASE q # r
      BY <1>0, <2>1, <2>2, <2>4, <3>3 DEF ReplacingOwned, Settling
    <3> QED BY <3>2, <3>3
  <2>6. \A v \in Workers : replacing'[v] =>
          instance'[v] = NoInst /\ \E q \in Replacers : Settling(q)' /\ worker'[q] = v
    <3>1. TAKE v \in Workers
    <3>2. CASE v = w
      BY <2>1, <2>2, <3>2
    <3>3. CASE v # w /\ replacing'[v]
      <4>1. replacing[v]
        BY <2>1, <3>3
      <4>2. PICK q \in Replacers : Settling(q) /\ worker[q] = v
        BY <1>0, <4>1 DEF ReplacingOwned
      <4>3. Settling(q)' /\ worker'[q] = v
        BY <2>2, <4>2
      <4> QED BY <1>0, <2>1, <3>3, <4>1, <4>3 DEF ReplacingOwned
    <3> QED BY <3>2, <3>3
  <2>7. \A q, t \in Replacers : Settling(q)' /\ Settling(t)' /\ worker'[q] = worker'[t] => q = t
    BY <1>0, <2>2, <2>3 DEF ReplacingOwned, Settling
  <2>8. \A v \in Workers : Built(v)' /\ instance'[v] = NoInst => replacing'[v] \/ closing'[v]
    BY <1>0, <2>1, <2>2 DEF ReplacingOwned, Built
  <2> QED BY <2>5, <2>6, <2>7, <2>8 DEF ReplacingOwned
<1>3. CASE NewWorker
  <2>1. \A w \in Workers : ~replacing[w]
    BY <1>0, <1>3 DEF NewWorker, Quiet
  <2>2. PICK i \in FreshInst :
          /\ cursor \in Workers /\ main = "launch"
          /\ \A w \in Workers : instance'[w] = IF w = cursor THEN i ELSE instance[w]
          /\ UNCHANGED <<replacing, closing, pc, worker, cursor>>
    BY <1>3, NewWorkerEffect
  <2>3. \A w \in Workers : Built(w)' => Built(w) /\ w # cursor
    BY <1>3, <2>2 DEF NewWorker, Built
  <2>4. \A q \in Replacers : ~Settling(q) /\ ~Settling(q)'
    BY <1>0, <1>3, <2>2, ProcFacts DEF NewWorker, Quiet, Settling
  <2> QED BY <1>0, <2>1, <2>2, <2>3, <2>4 DEF ReplacingOwned
<1>4. CASE FillSlots
  <2>1. /\ UNCHANGED <<instance, closing, replacing, pc, worker>>
        /\ main = "fill" /\ instance[cursor] # NoInst
    BY <1>0, <1>4, Parts DEF FillSlots, MainTyped, Quiet, procVars
  <2>2. \A w \in Workers : Built(w)' => Built(w) \/ w = cursor
    BY <1>4, <2>1, Parts DEF FillSlots, Built, MainTyped
  <2>3. \A w \in Workers : Built(w)' /\ instance'[w] = NoInst => replacing'[w] \/ closing'[w]
    BY <1>0, <2>1, <2>2 DEF ReplacingOwned
  <2> QED BY <1>0, <2>1, <2>3 DEF ReplacingOwned, Settling
<1>5. CASE Shutdown
  <2>1. /\ main = "closing" /\ UNCHANGED <<replacing, pc, worker>>
        /\ \A w \in Workers : /\ closing'[w] = (closing[w] \/ w = cursor)
                              /\ instance'[w] # instance[w] => instance'[w] = NoInst /\ w = cursor
    BY <1>5, ShutdownEffect
  <2>2. \A w \in Workers : instance'[w] = NoInst => replacing'[w] \/ closing'[w]
    BY <1>0, <2>1 DEF ReplacingOwned, Built
  <2>3. \A w \in Workers : replacing'[w] => instance'[w] = NoInst
    BY <1>0, <2>1 DEF ReplacingOwned
  <2> QED BY <1>0, <2>1, <2>2, <2>3 DEF ReplacingOwned, Settling
<1>6. ASSUME NEW r \in Replacers, LaunchOk(r) \/ Reap(r)
      PROVE  ReplacingOwned'
  <2>1. /\ UNCHANGED <<instance, closing, replacing, worker>>
        /\ \A w \in Workers : Built(w)' <=> Built(w)
    BY <1>6 DEF LaunchOk, Reap, workerVars, mainVars, Built
  <2>2. \A q \in Replacers : Settling(q)' <=> Settling(q)
    BY <1>0, <1>6, ProcFacts DEF LaunchOk, Reap, Goto, Settling, ProcsTyped
  <2> QED BY <1>0, <2>1, <2>2 DEF ReplacingOwned
<1>7. ASSUME NEW r \in Replacers, Publish(r) \/ GiveBack(r)
      PROVE  ReplacingOwned'
  <2>1. \A w \in Workers : Built(w)' <=> Built(w)
    BY <1>7, FinishEffect DEF Built
  <2>2. \A q \in Replacers : Settling(q)' => q # r /\ Settling(q) /\ worker'[q] = worker[q]
    BY <1>7, FinishEffect DEF Settling
  <2>3. \A q \in Replacers : Settling(q) /\ q # r => Settling(q)'
    BY <1>7, FinishEffect DEF Settling
  <2>4. \A q \in Replacers : Settling(q)' => worker[q] # worker[r] /\ worker[q] \in Workers
    BY <1>0, <1>7, <2>2, FinishEffect, Parts, HasWorker, ProcFacts DEF ReplacingOwned, Settling
  <2>5. \A w \in Workers : replacing'[w] =>
           /\ w # worker[r] /\ replacing[w] /\ instance'[w] = NoInst
           /\ \E q \in Replacers : q # r /\ Settling(q) /\ worker[q] = w
    BY <1>0, <1>7, FinishEffect DEF ReplacingOwned
  <2>6. \A w \in Workers : Built(w)' /\ instance'[w] = NoInst => replacing'[w] \/ closing'[w]
    BY <1>0, <1>7, <2>1, FinishEffect DEF ReplacingOwned
  <2>7. \A q \in Replacers : Settling(q)' => replacing'[worker'[q]]
    BY <1>0, <1>7, <2>2, <2>4, FinishEffect DEF ReplacingOwned
  <2> QED BY <1>0, <2>2, <2>3, <2>5, <2>6, <2>7 DEF ReplacingOwned
<1> QED BY <1>1, <1>2, <1>3, <1>4, <1>5, <1>6, <1>7 DEF Effects

(* A browser changes hands, and never has two owners. *)
LEMMA StepSoleOwner == PoolInv /\ [Next]_vars => SoleOwner'
<1> SUFFICES ASSUME PoolInv, Effects PROVE SoleOwner'
  BY StepEffects
<1>0. SoleOwner /\ WorkersTyped /\ ProcsTyped /\ BrowserWhereNeeded
  BY Parts
<1>1. CASE SameOwners
  BY <1>0, <1>1 DEF SameOwners, SoleOwner
<1>2. ASSUME NEW w \in Workers, NEW r \in Replacers, Starts(w, r)
      PROVE  SoleOwner'
  <2>1. \A v \in Workers : instance'[v] = IF v = w THEN NoInst ELSE instance[v]
    BY <1>0, <1>2 DEF Starts, WorkersTyped
  <2> QED BY <1>0, <1>2, <2>1 DEF Starts, SoleOwner
<1>3. CASE NewWorker
  BY <1>0, <1>3, NewWorkerEffect, FreshFacts DEF SoleOwner
<1>4. CASE FillSlots
  BY <1>0, <1>4 DEF FillSlots, procVars, SoleOwner
<1>5. CASE Shutdown
  BY <1>0, <1>5, ShutdownEffect DEF SoleOwner
<1>6. ASSUME NEW r \in Replacers, LaunchOk(r)
      PROVE  SoleOwner'
  <2>1. PICK i \in FreshInst : new' = [new EXCEPT ![r] = i]
    BY <1>6 DEF LaunchOk
  <2>2. \A q \in Replacers : new'[q] = IF q = r THEN i ELSE new[q]
    BY <1>0, <2>1 DEF ProcsTyped
  <2>3. UNCHANGED <<instance, old>>
    BY <1>6 DEF LaunchOk, workerVars
  <2> QED BY <1>0, <2>2, <2>3, FreshFacts DEF SoleOwner
<1>7. ASSUME NEW r \in Replacers, Publish(r) \/ GiveBack(r)
      PROVE  SoleOwner'
  BY <1>0, <1>7, FinishEffect DEF SoleOwner
<1>8. ASSUME NEW r \in Replacers, Reap(r)
      PROVE  SoleOwner'
  <2>1. \A q \in Replacers : old'[q] = IF q = r THEN NoInst ELSE old[q]
    BY <1>0, <1>8, ProcFacts DEF Reap, ProcsTyped
  <2>2. UNCHANGED <<instance, new>>
    BY <1>8 DEF Reap, workerVars
  <2> QED BY <1>0, <2>1, <2>2 DEF SoleOwner
<1> QED BY <1>1, <1>2, <1>3, <1>4, <1>5, <1>6, <1>7, <1>8 DEF Effects

(* Only a browser without an owner, or about to lose its own, is closed. *)
LEMMA StepOwnedOpen == PoolInv /\ [Next]_vars => OwnedOpen'
<1> SUFFICES ASSUME PoolInv, Effects PROVE OwnedOpen'
  BY StepEffects
<1>0. /\ OwnedOpen /\ SoleOwner /\ ReplacingOwned
      /\ WorkersTyped /\ ProcsTyped /\ BrowsersTyped /\ BrowserWhereNeeded
  BY Parts
<1>1. /\ \A w \in Workers : instance[w] # NoInst => instance[w] \in Inst
      /\ \A r \in Replacers : /\ Settling(r) => old[r] \in Inst
                              /\ pc[r] = "publish" => new[r] \in Inst
  BY <1>0, ProcFacts DEF WorkersTyped, ProcsTyped, BrowserWhereNeeded, Settling
<1>2. CASE SameOwners
  BY <1>0, <1>1, <1>2 DEF SameOwners, OwnedOpen, Settling
<1>3. ASSUME NEW w \in Workers, NEW r \in Replacers, Starts(w, r)
      PROVE  OwnedOpen'
  <2>1. \A v \in Workers : instance'[v] = IF v = w THEN NoInst ELSE instance[v]
    BY <1>0, <1>3 DEF Starts, WorkersTyped
  <2> QED BY <1>0, <1>3, <2>1 DEF Starts, OwnedOpen, Settling
<1>4. CASE NewWorker
  <2>1. PICK i \in FreshInst :
          /\ \A w \in Workers : instance'[w] = IF w = cursor THEN i ELSE instance[w]
          /\ browser' = [browser EXCEPT ![i] = NewBrowser]
          /\ UNCHANGED <<pc, old, new>>
    BY <1>4, NewWorkerEffect
  <2>2. \A k \in Inst : browser'[k] = IF k = i THEN NewBrowser ELSE browser[k]
    BY <1>0, <2>1, FreshFacts DEF BrowsersTyped
  <2> QED BY <1>0, <1>1, <2>1, <2>2, FreshFacts DEF OwnedOpen, NewBrowser, Settling
<1>5. CASE FillSlots
  BY <1>0, <1>5 DEF FillSlots, procVars, OwnedOpen, Settling
<1>6. CASE Shutdown
  <2>1. \A w \in Workers : instance'[w] # NoInst =>
          instance'[w] = instance[w] /\ browser'[instance[w]] = browser[instance[w]]
    BY <1>0, <1>1, <1>6, ShutdownEffect DEF SoleOwner
  <2>2. \A r \in Replacers : /\ Settling(r) => browser'[old[r]] = browser[old[r]]
                             /\ pc[r] = "publish" => browser'[new[r]] = browser[new[r]]
    BY <1>0, <1>1, <1>6, ShutdownEffect DEF SoleOwner, BrowserWhereNeeded, Settling
  <2>3. UNCHANGED <<pc, old, new>>
    BY <1>6, ShutdownEffect
  <2> QED BY <1>0, <2>1, <2>2, <2>3 DEF OwnedOpen, Settling
<1>7. ASSUME NEW r \in Replacers, LaunchOk(r)
      PROVE  OwnedOpen'
  <2>1. PICK i \in FreshInst : /\ new' = [new EXCEPT ![r] = i]
                               /\ browser' = [browser EXCEPT ![i] = NewBrowser]
    BY <1>7 DEF LaunchOk
  <2>2. /\ \A q \in Replacers : new'[q] = IF q = r THEN i ELSE new[q]
        /\ \A k \in Inst : browser'[k] = IF k = i THEN NewBrowser ELSE browser[k]
    BY <1>0, <2>1, FreshFacts DEF ProcsTyped, BrowsersTyped
  <2>3. /\ UNCHANGED <<instance, old>> /\ pc[r] = "launch"
        /\ \A q \in Replacers : pc'[q] = IF q = r THEN "publish" ELSE pc[q]
    BY <1>0, <1>7, ProcFacts DEF LaunchOk, Goto, workerVars, ProcsTyped
  <2> QED BY <1>0, <1>1, <2>2, <2>3, FreshFacts DEF OwnedOpen, NewBrowser, Settling
<1>8. ASSUME NEW r \in Replacers, Publish(r) \/ GiveBack(r)
      PROVE  OwnedOpen'
  <2>1. \A w \in Workers : instance[w] # NoInst => instance[w] # new[r]
    BY <1>0 DEF SoleOwner
  <2>2. \A q \in Replacers : q # r =>
          /\ Settling(q) => old[q] # new[r]
          /\ pc[q] = "publish" => new[q] # new[r]
    BY <1>0 DEF SoleOwner, BrowserWhereNeeded, Settling
  <2>3. /\ \A w \in Workers : instance'[w] # NoInst => browser'[instance'[w]].open
        /\ \A q \in Replacers : q # r /\ Settling(q) => browser'[old'[q]].open
        /\ \A q \in Replacers : q # r /\ pc[q] = "publish" => browser'[new'[q]].open
    <3>1. CASE UNCHANGED browser
      BY <1>0, <1>8, <3>1, FinishEffect DEF OwnedOpen
    <3>2. CASE /\ instance'[worker[r]] = instance[worker[r]]
               /\ \A i \in Inst : browser'[i] = browser[i] \/ i = new[r]
      BY <1>0, <1>1, <1>8, <2>1, <2>2, <3>2, FinishEffect DEF OwnedOpen
    <3> QED BY <1>8, <3>1, <3>2, FinishEffect
  <2> QED BY <1>8, <2>3, FinishEffect DEF OwnedOpen, Settling
<1>9. ASSUME NEW r \in Replacers, Reap(r)
      PROVE  OwnedOpen'
  <2>1. /\ \A q \in Replacers : old'[q] = IF q = r THEN NoInst ELSE old[q]
        /\ \A q \in Replacers : pc'[q] = IF q = r THEN "idle" ELSE pc[q]
        /\ UNCHANGED <<instance, new>> /\ pc[r] = "reap" /\ old[r] # NoInst
        /\ \A i \in Inst : browser'[i] = browser[i] \/ i = old[r]
    BY <1>0, <1>9, ProcFacts DEF Reap, Goto, workerVars, ProcsTyped, BrowsersTyped,
         BrowserWhereNeeded
  <2>2. /\ \A w \in Workers : instance[w] # NoInst => instance[w] # old[r]
        /\ \A q \in Replacers : q # r =>
             /\ Settling(q) => old[q] # old[r]
             /\ pc[q] = "publish" => new[q] # old[r]
    BY <1>0, <2>1 DEF SoleOwner, BrowserWhereNeeded, Settling
  <2> QED BY <1>0, <1>1, <2>1, <2>2 DEF OwnedOpen, Settling
<1> QED BY <1>2, <1>3, <1>4, <1>5, <1>6, <1>7, <1>8, <1>9 DEF Effects

-----------------------------------------------------------------------------
(* The tabs in use.                                                        *)

(* So that the number of leases means something. *)
LEMMA LeasesFinite ==
  ASSUME NEW w \in Workers
  PROVE  IsFiniteSet(Leases(w)) /\ Cardinality(Leases(w)) \in Nat
BY PoolAssumption, FS_Subset, FS_CardinalityType DEF Leases

(* A browser is taken away only when no tab is in use. *)
LEMMA StepTabsHoldBrowser == PoolInv /\ [Next]_vars => TabsHoldBrowser'
<1> SUFFICES ASSUME PoolInv, [Next]_vars PROVE TabsHoldBrowser'
  OBVIOUS
<1>0. /\ TypeInv /\ TabsHoldBrowser /\ TabsMatchLeases
      /\ WorkersTyped /\ ProcsTyped /\ MainTyped /\ BrowserWhereNeeded /\ WorkerWhereNeeded
  BY Parts
<1> USE PoolAssumption, WorkerFacts, ProcFacts
<1>1. CASE UNCHANGED vars
  BY <1>1, <1>0 DEF vars, workerVars, procVars, mainVars, TabsHoldBrowser
<1>2. CASE NewWorkerFails \/ FillSlots \/ Signal \/ Close
  BY <1>2, <1>0 DEF NewWorkerFails, FillSlots, Signal, Close, workerVars, procVars, mainVars,
       vars, TabsHoldBrowser
<1>3. CASE NewWorker
  BY <1>3, <1>0, NewWorkerEffect, FreshFacts DEF TabsHoldBrowser
<1>4. CASE Shutdown
  BY <1>4, <1>0, ShutdownEffect DEF TabsHoldBrowser, WorkersTyped
<1>5. ASSUME NEW j \in Jobs,
              Submit(j) \/ GiveUp(j) \/ Receive(j) \/ NoteTaken(j) \/ TryRefused(j) \/
              TryFirst(j) \/ HealthOk(j) \/ HealthFails(j) \/ SolveFails(j) \/
              LoadCount(j) \/ StoreCount(j)
      PROVE  TabsHoldBrowser'
  BY <1>5, <1>0 DEF Submit, GiveUp, Receive, NoteTaken, TryRefused, TryFirst, HealthOk,
       HealthFails, SolveFails, LoadCount, StoreCount, workerVars, procVars, mainVars, vars,
       TabsHoldBrowser
<1>6. ASSUME NEW j \in Jobs, Repair(j)
      PROVE  TabsHoldBrowser'
  <2>1. worker[j] \in Workers
    BY <1>6, <1>0, HasWorker DEF Repair
  <2> QED BY <1>6, <1>0, <2>1 DEF Repair, RepairRefused, StartReplacement, WorkersTyped,
       TabsHoldBrowser
<1>7. ASSUME NEW j \in Jobs, Commit(j)
      PROVE  TabsHoldBrowser'
  <2>1. worker[j] \in Workers
    BY <1>7, <1>0, HasWorker DEF Commit
  <2> QED BY <1>7, <1>0, <2>1 DEF Commit, Unusable, WorkersTyped, TabsHoldBrowser
<1>8. ASSUME NEW j \in Jobs, Release(j)
      PROVE  TabsHoldBrowser'
  <2>1. worker[j] \in Workers
    BY <1>8, <1>0, HasWorker DEF Release
  <2>2. activeTabs'[worker[j]] > 0 => activeTabs[worker[j]] > 0
    BY <1>8, <1>0, <2>1 DEF Release, Dec, WorkersTyped
  <2>3. \A w \in Workers : w # worker[j] => activeTabs'[w] = activeTabs[w] /\ instance'[w] = instance[w]
    BY <1>8, <1>0, <2>1 DEF Release, StartReplacement, WorkersTyped
  <2>4. activeTabs'[worker[j]] > 0 => instance'[worker[j]] = instance[worker[j]]
    BY <1>8, <1>0, <2>1 DEF Release, Retires, StartReplacement, WorkersTyped
  <2> QED BY <1>0, <2>1, <2>2, <2>3, <2>4 DEF TabsHoldBrowser
<1>9. ASSUME NEW p \in Procs, NoteQueued(p) \/ Send(p) \/ Abandon(p)
      PROVE  TabsHoldBrowser'
  BY <1>9, <1>0 DEF NoteQueued, Send, Abandon, workerVars, procVars, mainVars, vars, TabsHoldBrowser
<1>10. ASSUME NEW r \in Replacers, LaunchOk(r) \/ LaunchFails(r) \/ Reap(r)
      PROVE  TabsHoldBrowser'
  BY <1>10, <1>0 DEF LaunchOk, LaunchFails, Reap, workerVars, procVars, mainVars, vars,
       TabsHoldBrowser
<1>11. ASSUME NEW r \in Replacers, Publish(r)
      PROVE  TabsHoldBrowser'
  BY <1>11, <1>0, FinishEffect DEF TabsHoldBrowser
<1>12. ASSUME NEW r \in Replacers, GiveBack(r)
      PROVE  TabsHoldBrowser'
  BY <1>12, <1>0, FinishEffect DEF TabsHoldBrowser
<1>13. ASSUME NEW w \in Workers, BrowserAges(w)
      PROVE  TabsHoldBrowser'
  BY <1>13, <1>0 DEF BrowserAges, workerVars, procVars, mainVars, vars, TabsHoldBrowser
<1>14. CASE Exited
  BY <1>14, <1>0 DEF Exited, workerVars, procVars, mainVars, vars, TabsHoldBrowser
<1> QED
  BY <1>1, <1>2, <1>3, <1>4, <1>5, <1>6, <1>7, <1>8, <1>9, <1>10, <1>11,
     <1>12, <1>13, <1>14
  DEF Next, Construct, JobStep, SlotStep, ReplaceStep

(* Only Commit and Release change who holds a tab. *)
LEMMA SameLeases ==
  ASSUME PoolInv, UNCHANGED activeTabs, \A w \in Workers : Leases(w)' = Leases(w)
  PROVE  TabsMatchLeases'
BY Parts DEF TabsMatchLeases

(* The counter changes with the leases. *)
LEMMA StepTabsMatchLeases == PoolInv /\ [Next]_vars => TabsMatchLeases'
<1> SUFFICES ASSUME PoolInv, [Next]_vars PROVE TabsMatchLeases'
  OBVIOUS
<1>0. /\ TypeInv /\ TabsHoldBrowser /\ TabsMatchLeases
      /\ WorkersTyped /\ ProcsTyped /\ MainTyped /\ BrowserWhereNeeded /\ WorkerWhereNeeded
  BY Parts
<1> USE PoolAssumption, WorkerFacts, ProcFacts
<1>1. CASE UNCHANGED vars
  BY <1>0, <1>1 DEF vars, workerVars, procVars, mainVars, TabsMatchLeases, Leases
<1>2. CASE NewWorker
  <2>1. UNCHANGED activeTabs /\ \A w \in Workers : Leases(w)' = Leases(w)
    BY <1>2, NewWorkerEffect DEF Leases
  <2> QED BY <2>1, SameLeases
<1>3. CASE NewWorkerFails
  <2>1. UNCHANGED activeTabs /\ \A w \in Workers : Leases(w)' = Leases(w)
    BY <1>3, <1>0 DEF NewWorkerFails, Goto, workerVars, procVars, mainVars, ProcsTyped, Leases
  <2> QED BY <2>1, SameLeases
<1>4. CASE FillSlots
  <2>1. UNCHANGED activeTabs /\ \A w \in Workers : Leases(w)' = Leases(w)
    BY <1>4, <1>0 DEF FillSlots, Goto, workerVars, procVars, mainVars, ProcsTyped, Leases
  <2> QED BY <2>1, SameLeases
<1>5. CASE Signal
  <2>1. UNCHANGED activeTabs /\ \A w \in Workers : Leases(w)' = Leases(w)
    BY <1>5, <1>0 DEF Signal, Goto, workerVars, procVars, mainVars, ProcsTyped, Leases
  <2> QED BY <2>1, SameLeases
<1>6. CASE Close
  <2>1. UNCHANGED activeTabs /\ \A w \in Workers : Leases(w)' = Leases(w)
    BY <1>6, <1>0 DEF Close, Goto, workerVars, procVars, mainVars, ProcsTyped, Leases
  <2> QED BY <2>1, SameLeases
<1>7. CASE Shutdown
  <2>1. UNCHANGED activeTabs /\ \A w \in Workers : Leases(w)' = Leases(w)
    BY <1>7, ShutdownEffect DEF Leases
  <2> QED BY <2>1, SameLeases
<1>8. ASSUME NEW j \in Jobs, Submit(j)
      PROVE  TabsMatchLeases'
  <2>1. UNCHANGED activeTabs /\ \A w \in Workers : Leases(w)' = Leases(w)
    BY <1>8, <1>0 DEF Submit, Goto, workerVars, procVars, mainVars, ProcsTyped, Leases
  <2> QED BY <2>1, SameLeases
<1>9. ASSUME NEW j \in Jobs, GiveUp(j)
      PROVE  TabsMatchLeases'
  <2>1. UNCHANGED activeTabs /\ \A w \in Workers : Leases(w)' = Leases(w)
    BY <1>9, <1>0 DEF GiveUp, Goto, workerVars, procVars, mainVars, ProcsTyped, Leases
  <2> QED BY <2>1, SameLeases
<1>10. ASSUME NEW j \in Jobs, Receive(j)
      PROVE  TabsMatchLeases'
  <2>1. UNCHANGED activeTabs /\ \A w \in Workers : Leases(w)' = Leases(w)
    BY <1>10, <1>0 DEF Receive, Goto, workerVars, procVars, mainVars, ProcsTyped, Leases
  <2> QED BY <2>1, SameLeases
<1>11. ASSUME NEW j \in Jobs, NoteTaken(j)
      PROVE  TabsMatchLeases'
  <2>1. UNCHANGED activeTabs /\ \A w \in Workers : Leases(w)' = Leases(w)
    BY <1>11, <1>0 DEF NoteTaken, Goto, workerVars, procVars, mainVars, ProcsTyped, Leases
  <2> QED BY <2>1, SameLeases
<1>12. ASSUME NEW j \in Jobs, TryRefused(j)
      PROVE  TabsMatchLeases'
  <2>1. UNCHANGED activeTabs /\ \A w \in Workers : Leases(w)' = Leases(w)
    BY <1>12, <1>0 DEF TryRefused, Goto, workerVars, procVars, mainVars, ProcsTyped, Leases
  <2> QED BY <2>1, SameLeases
<1>13. ASSUME NEW j \in Jobs, TryFirst(j)
      PROVE  TabsMatchLeases'
  <2>1. UNCHANGED activeTabs /\ \A w \in Workers : Leases(w)' = Leases(w)
    BY <1>13, <1>0 DEF TryFirst, Goto, workerVars, procVars, mainVars, ProcsTyped, Leases
  <2> QED BY <2>1, SameLeases
<1>14. ASSUME NEW j \in Jobs, HealthOk(j)
      PROVE  TabsMatchLeases'
  <2>1. UNCHANGED activeTabs /\ \A w \in Workers : Leases(w)' = Leases(w)
    BY <1>14, <1>0 DEF HealthOk, Goto, workerVars, procVars, mainVars, ProcsTyped, Leases
  <2> QED BY <2>1, SameLeases
<1>15. ASSUME NEW j \in Jobs, HealthFails(j)
      PROVE  TabsMatchLeases'
  <2>1. UNCHANGED activeTabs /\ \A w \in Workers : Leases(w)' = Leases(w)
    BY <1>15, <1>0 DEF HealthFails, Goto, workerVars, procVars, mainVars, ProcsTyped, Leases
  <2> QED BY <2>1, SameLeases
<1>16. ASSUME NEW j \in Jobs, Repair(j)
      PROVE  TabsMatchLeases'
  <2>1. UNCHANGED activeTabs /\ \A w \in Workers : Leases(w)' = Leases(w)
    BY <1>16, <1>0 DEF Repair, Goto, StartReplacement, IdleReplacers, workerVars, procVars,
         mainVars, ProcsTyped, Leases
  <2> QED BY <2>1, SameLeases
<1>17. ASSUME NEW j \in Jobs, Commit(j)
      PROVE  TabsMatchLeases'
  <2>1. worker[j] \in Workers /\ pc' = [pc EXCEPT ![j] = "solve"] /\ worker' = worker
    BY <1>17, <1>0, HasWorker DEF Commit, Goto
  <2>2. activeTabs' = [activeTabs EXCEPT ![worker[j]] = @ + 1] /\ pc[j] = "commit"
    BY <1>17 DEF Commit
  <2>3. \A w \in Workers : w # worker[j] => Leases(w)' = Leases(w)
    BY <1>0, <2>1, <2>2 DEF Leases, ProcsTyped
  <2>4. Leases(worker[j])' = Leases(worker[j]) \cup {j} /\ j \notin Leases(worker[j])
    BY <1>0, <2>1, <2>2 DEF Leases, ProcsTyped
  <2>5. Cardinality(Leases(worker[j]) \cup {j}) = Cardinality(Leases(worker[j])) + 1
    BY <2>1, <2>4, LeasesFinite, FS_AddElement
  <2> QED BY <1>0, <2>1, <2>2, <2>3, <2>4, <2>5 DEF TabsMatchLeases, WorkersTyped
<1>18. ASSUME NEW j \in Jobs, SolveFails(j)
      PROVE  TabsMatchLeases'
  <2>1. UNCHANGED activeTabs /\ \A w \in Workers : Leases(w)' = Leases(w)
    BY <1>18, <1>0 DEF SolveFails, Goto, workerVars, procVars, mainVars, ProcsTyped, Leases
  <2> QED BY <2>1, SameLeases
<1>19. ASSUME NEW j \in Jobs, LoadCount(j)
      PROVE  TabsMatchLeases'
  <2>1. UNCHANGED activeTabs /\ \A w \in Workers : Leases(w)' = Leases(w)
    BY <1>19, <1>0 DEF LoadCount, Goto, workerVars, procVars, mainVars, ProcsTyped, Leases
  <2> QED BY <2>1, SameLeases
<1>20. ASSUME NEW j \in Jobs, StoreCount(j)
      PROVE  TabsMatchLeases'
  <2>1. UNCHANGED activeTabs /\ \A w \in Workers : Leases(w)' = Leases(w)
    BY <1>20, <1>0 DEF StoreCount, Goto, workerVars, procVars, mainVars, ProcsTyped, Leases
  <2> QED BY <2>1, SameLeases
<1>21. ASSUME NEW j \in Jobs, Release(j)
      PROVE  TabsMatchLeases'
  <2> PICK w \in Workers : w = worker[j]
    BY <1>21, <1>0, HasWorker DEF Release
  <2>1. pc[j] = "release" /\ j \in Leases(w) /\ activeTabs' = [activeTabs EXCEPT ![w] = Dec(@)]
    BY <1>21 DEF Release, Leases
  <2>2. /\ \A k \in Jobs : k # j => pc'[k] = pc[k] /\ worker'[k] = worker[k]
        /\ pc'[j] \in {"idle", "note"}
    BY <1>21, <1>0 DEF Release, StartReplacement, IdleReplacers, Goto, ProcsTyped
  <2>3. \A v \in Workers : Leases(v)' = IF v = w THEN Leases(w) \ {j} ELSE Leases(v)
    BY <2>1, <2>2 DEF Leases
  <2>4. Cardinality(Leases(w) \ {j}) = Cardinality(Leases(w)) - 1
    BY <2>1, LeasesFinite, FS_RemoveElement
  <2>5. Cardinality(Leases(w)) \in Nat /\ Cardinality(Leases(w)) # 0
    BY <2>1, LeasesFinite, FS_EmptySet
  <2>6. \A v \in Workers :
          activeTabs'[v] = IF v = w THEN activeTabs[v] - 1 ELSE activeTabs[v]
    BY <1>0, <2>1, <2>5 DEF TabsMatchLeases, WorkersTyped, Dec
  <2> QED BY <1>0, <2>3, <2>4, <2>6 DEF TabsMatchLeases
<1>22. ASSUME NEW p \in Procs, NoteQueued(p)
      PROVE  TabsMatchLeases'
  <2>1. UNCHANGED activeTabs /\ \A w \in Workers : Leases(w)' = Leases(w)
    BY <1>22, <1>0 DEF NoteQueued, Goto, workerVars, procVars, mainVars, ProcsTyped, Leases
  <2> QED BY <2>1, SameLeases
<1>23. ASSUME NEW p \in Procs, Send(p)
      PROVE  TabsMatchLeases'
  <2>1. UNCHANGED activeTabs /\ \A w \in Workers : Leases(w)' = Leases(w)
    BY <1>23, <1>0 DEF Send, Goto, AfterSlots, workerVars, procVars, mainVars, ProcsTyped, Leases
  <2> QED BY <2>1, SameLeases
<1>24. ASSUME NEW p \in Procs, Abandon(p)
      PROVE  TabsMatchLeases'
  <2>1. UNCHANGED activeTabs /\ \A w \in Workers : Leases(w)' = Leases(w)
    BY <1>24, <1>0 DEF Abandon, Goto, AfterSlots, workerVars, procVars, mainVars, ProcsTyped, Leases
  <2> QED BY <2>1, SameLeases
<1>25. ASSUME NEW r \in Replacers, LaunchOk(r)
      PROVE  TabsMatchLeases'
  <2>1. UNCHANGED activeTabs /\ \A w \in Workers : Leases(w)' = Leases(w)
    BY <1>25, <1>0 DEF LaunchOk, Goto, workerVars, procVars, mainVars, ProcsTyped, Leases
  <2> QED BY <2>1, SameLeases
<1>26. ASSUME NEW r \in Replacers, LaunchFails(r)
      PROVE  TabsMatchLeases'
  <2>1. UNCHANGED activeTabs /\ \A w \in Workers : Leases(w)' = Leases(w)
    BY <1>26, <1>0 DEF LaunchFails, Goto, workerVars, procVars, mainVars, ProcsTyped, Leases
  <2> QED BY <2>1, SameLeases
<1>27. ASSUME NEW r \in Replacers, Publish(r)
      PROVE  TabsMatchLeases'
  <2>1. UNCHANGED activeTabs /\ \A w \in Workers : Leases(w)' = Leases(w)
    BY <1>27, <1>0 DEF Publish, Goto, Readvertise, workerVars, procVars, mainVars, ProcsTyped,
         Leases
  <2> QED BY <2>1, SameLeases
<1>28. ASSUME NEW r \in Replacers, GiveBack(r)
      PROVE  TabsMatchLeases'
  <2>1. UNCHANGED activeTabs /\ \A w \in Workers : Leases(w)' = Leases(w)
    BY <1>28, <1>0 DEF GiveBack, Goto, Readvertise, workerVars, procVars, mainVars, ProcsTyped,
         Leases
  <2> QED BY <2>1, SameLeases
<1>29. ASSUME NEW r \in Replacers, Reap(r)
      PROVE  TabsMatchLeases'
  <2>1. UNCHANGED activeTabs /\ \A w \in Workers : Leases(w)' = Leases(w)
    BY <1>29, <1>0 DEF Reap, Goto, workerVars, procVars, mainVars, ProcsTyped, Leases
  <2> QED BY <2>1, SameLeases
<1>30. ASSUME NEW w \in Workers, BrowserAges(w)
      PROVE  TabsMatchLeases'
  <2>1. UNCHANGED activeTabs /\ \A v \in Workers : Leases(v)' = Leases(v)
    BY <1>30, <1>0 DEF BrowserAges, Goto, workerVars, procVars, mainVars, ProcsTyped, Leases
  <2> QED BY <2>1, SameLeases
<1>31. CASE Exited
  <2>1. UNCHANGED activeTabs /\ \A w \in Workers : Leases(w)' = Leases(w)
    BY <1>31, <1>0 DEF Exited, Goto, vars, workerVars, procVars, mainVars, ProcsTyped, Leases
  <2> QED BY <2>1, SameLeases
<1> QED
  BY <1>1, <1>2, <1>3, <1>4, <1>5, <1>6, <1>7, <1>8, <1>9, <1>10, <1>11,
     <1>12, <1>13, <1>14, <1>15, <1>16, <1>17, <1>18, <1>19, <1>20, <1>21,
     <1>22, <1>23, <1>24, <1>25, <1>26, <1>27, <1>28, <1>29, <1>30, <1>31
  DEF Next, Construct, JobStep, SlotStep, ReplaceStep

-----------------------------------------------------------------------------
(* The pool starts without tabs, browsers and replacements. *)
LEMMA InitInv == Init => PoolInv
<1> SUFFICES ASSUME Init PROVE PoolInv
  OBVIOUS
<1> USE PoolAssumption, WorkerFacts, ProcFacts DEF Init
<1>1. TypeOK /\ LocalsOK /\ Quiet
  BY InitTypes DEF TypeInv
<1>2. TabsMatchLeases
  <2>1. \A w \in Workers : Leases(w) = {}
    BY DEF Leases
  <2> QED BY <2>1, FS_EmptySet DEF TabsMatchLeases
<1>3. ReplacingOwned
  BY DEF ReplacingOwned, Settling, Built
<1>4. TabsHoldBrowser
  BY DEF TabsHoldBrowser
<1>5. SoleOwner
  BY DEF SoleOwner
<1>6. OwnedOpen
  BY DEF OwnedOpen, Settling
<1> QED BY <1>1, <1>2, <1>3, <1>4, <1>5, <1>6 DEF PoolInv

(* PoolInv is an invariant: it holds at the start and every step keeps it.  *)
(* The theorems below read off it what a reader of pool.go wants to know.   *)
THEOREM PoolInvHolds == Spec => []PoolInv
<1>1. PoolInv /\ [Next]_vars => PoolInv'
  <2> SUFFICES ASSUME PoolInv, [Next]_vars PROVE PoolInv'
    OBVIOUS
  <2>1. TypeInv'
    BY Parts, StepTypeInv
  <2> QED BY <2>1, StepTabsMatchLeases, StepReplacingOwned, StepTabsHoldBrowser,
             StepSoleOwner, StepOwnedOpen DEF PoolInv, TypeInv
<1> QED BY InitInv, <1>1, PTL DEF Spec

(* activeTabs, which relWorker compares with 0 before it lets a browser be   *)
(* replaced (pool.go:135-141), always is the number of requests that hold a  *)
(* tab of the worker.                                                        *)
THEOREM TabsCounted == Spec => []TabsMatchLeases
<1>1. PoolInv => TabsMatchLeases
  BY DEF PoolInv
<1> QED BY <1>1, PoolInvHolds, PTL

(* A request that solves has a browser behind w.instance, and no replacement *)
(* of it is under way: solve.go:79 and 197 never dereference nil.            *)
THEOREM LeaseKeepsBrowser == Spec => []LeaseHasBrowser
<1>1. PoolInv => LeaseHasBrowser
  <2> SUFFICES ASSUME PoolInv, NEW w \in Workers, Leases(w) # {}
               PROVE  instance[w] # NoInst /\ ~replacing[w]
    BY DEF LeaseHasBrowser
  <2>1. Cardinality(Leases(w)) \in Nat /\ Cardinality(Leases(w)) # 0
    BY LeasesFinite, FS_EmptySet
  <2>2. activeTabs[w] > 0
    BY Parts, <2>1 DEF TabsMatchLeases
  <2> QED BY Parts, <2>2 DEF TabsHoldBrowser, ReplacingOwned
<1> QED BY <1>1, PoolInvHolds, PTL

(* The flag replacing stands for exactly one replaceInst goroutine, and a    *)
(* worker without a browser is being replaced or shut down.                  *)
THEOREM ReplacedOnce == Spec => []OneReplacement
<1>1. PoolInv => OneReplacement
  <2> SUFFICES ASSUME PoolInv, NEW w \in Workers
               PROVE  /\ Cardinality(Replacements(w)) = IF replacing[w] THEN 1 ELSE 0
                      /\ Built(w) /\ instance[w] = NoInst => replacing[w] \/ closing[w]
    BY DEF OneReplacement
  <2>1. CASE replacing[w]
    <3>1. PICK r \in Replacers : Settling(r) /\ worker[r] = w
      BY Parts, <2>1 DEF ReplacingOwned
    <3>2. Replacements(w) = {r}
      BY Parts, <3>1 DEF ReplacingOwned, Replacements, Settling
    <3> QED BY <2>1, <3>2, FS_Singleton
  <2>2. CASE ~replacing[w]
    <3>1. Replacements(w) = {}
      BY Parts, <2>2 DEF ReplacingOwned, Replacements, Settling
    <3> QED BY Parts, <2>2, <3>1, FS_EmptySet DEF ReplacingOwned
  <2> QED BY <2>1, <2>2
<1> QED BY <1>1, PoolInvHolds, PTL

(* The pool never serves from a browser it has closed, whatever becomes of   *)
(* the replacement that was to retire it (pool.go:248-296).                  *)
THEOREM ServedBrowserOpen == Spec => []PublishedNotClosed
<1>1. PoolInv => PublishedNotClosed
  BY Parts DEF PublishedNotClosed, OwnedOpen
<1> QED BY <1>1, PoolInvHolds, PTL

=============================================================================
