-------------------------- MODULE BrowserPool_slots --------------------------
(***************************************************************************)
(* Where the browsers and the slots of the pool are, on top of PoolInv:     *)
(* no browser is lost, the counter of advertised slots is exact, and with   *)
(* one tab per browser the slot of a worker is never lost, never doubled    *)
(* and always finds room in the channel.                                    *)
(***************************************************************************)
EXTENDS BrowserPool_proofs

-----------------------------------------------------------------------------
(* Whether the pool is done only changes from no to yes. *)
LEMMA DoneStays == [Next]_vars => (done => done')
BY DEF Next, Construct, NewWorker, NewWorkerFails, FillSlots, Signal, Close, Shutdown, Submit,
   JobStep, GiveUp, Receive, NoteTaken, TryRefused, TryFirst, HealthOk, HealthFails, Repair,
   Commit, SolveFails, LoadCount, StoreCount, Release, SlotStep, NoteQueued, Send, Abandon,
   ReplaceStep, LaunchOk, LaunchFails, Publish, GiveBack, Reap, BrowserAges, Exited, vars, mainVars

(* A browser that runs has an owner before and after every step: it goes    *)
(* from one owner to the next, or is closed.                                *)
LEMMA StepNoBrowserLeak == PoolInv /\ NoBrowserLeak /\ [Next]_vars => NoBrowserLeak'
<1> SUFFICES ASSUME PoolInv, NoBrowserLeak, [Next]_vars, NEW i \in Inst,
                    browser'[i].open, ~done'
             PROVE  \/ \E w \in Workers : instance'[w] = i
                    \/ \E r \in Replacers : i = old'[r] \/ i = new'[r]
  BY DEF NoBrowserLeak
<1>0. /\ WorkersTyped /\ BrowsersTyped /\ ProcsTyped /\ Quiet /\ BrowserWhereNeeded
      /\ ReplacingOwned
  BY Parts
<1> USE PoolAssumption, ProcFacts
<1>1. ~done
  BY DoneStays
<1>2. browser[i].open => \/ \E w \in Workers : instance[w] = i
                         \/ \E r \in Replacers : i = old[r] \/ i = new[r]
  BY <1>1 DEF NoBrowserLeak
<1>3. ASSUME UNCHANGED <<instance, new>>, \A r \in Replacers : old'[r] = old[r],
             browser[i].open
      PROVE  \/ \E w \in Workers : instance'[w] = i
             \/ \E r \in Replacers : i = old'[r] \/ i = new'[r]
  BY <1>2, <1>3
<1>4. CASE SameOwners
  BY <1>3, <1>4 DEF SameOwners
<1>5. ASSUME NEW w \in Workers, NEW r \in Replacers, Starts(w, r)
      PROVE  \/ \E v \in Workers : instance'[v] = i
             \/ \E q \in Replacers : i = old'[q] \/ i = new'[q]
  <2>1. browser[i].open /\ old[r] = NoInst
    BY <1>0, <1>5 DEF Starts, BrowserWhereNeeded
  <2>2. CASE instance[w] = i
    BY <1>5, <2>2 DEF Starts
  <2>3. ASSUME NEW v \in Workers, instance[v] = i, v # w PROVE instance'[v] = i
    BY <1>0, <1>5, <2>3 DEF Starts, WorkersTyped
  <2>4. ASSUME NEW q \in Replacers, i = old[q] \/ i = new[q] PROVE i = old'[q] \/ i = new'[q]
    BY <1>5, <2>1, <2>4 DEF Starts
  <2> QED BY <1>2, <2>1, <2>2, <2>3, <2>4
<1>6. CASE NewWorker
  <2>1. PICK f \in FreshInst :
          /\ cursor \in Workers /\ main = "launch"
          /\ \A w \in Workers : instance'[w] = IF w = cursor THEN f ELSE instance[w]
          /\ browser' = [browser EXCEPT ![f] = NewBrowser]
          /\ UNCHANGED <<old, new>>
    BY <1>6, NewWorkerEffect
  <2>2. instance[cursor] = NoInst
    BY <1>0, <2>1, WorkerFacts DEF Quiet
  <2>3. i = f \/ browser[i].open
    BY <1>0, <2>1 DEF BrowsersTyped
  <2> QED BY <1>2, <2>1, <2>2, <2>3
<1>7. CASE FillSlots
  BY <1>3, <1>7 DEF FillSlots, procVars
<1>8. CASE Shutdown
  <2>1. /\ \A w \in Workers : instance'[w] = instance[w] \/ (w = cursor /\ activeTabs[cursor] = 0)
        /\ UNCHANGED <<old, new>> /\ cursor \in Workers
    BY <1>8, ShutdownEffect
  <2>2. activeTabs[cursor] = 0 => i # instance[cursor]
    BY <1>0, <1>8 DEF Shutdown, Shuts, BrowsersTyped, ClosedBrowser
  <2>3. browser[i].open
    BY <1>8, <2>2, ShutdownEffect
  <2> QED BY <1>2, <2>1, <2>2, <2>3
<1>9. ASSUME NEW r \in Replacers, LaunchOk(r)
      PROVE  \/ \E w \in Workers : instance'[w] = i
             \/ \E q \in Replacers : i = old'[q] \/ i = new'[q]
  <2>1. PICK f \in FreshInst : /\ new' = [new EXCEPT ![r] = f]
                               /\ browser' = [browser EXCEPT ![f] = NewBrowser]
    BY <1>9 DEF LaunchOk
  <2>2. UNCHANGED <<instance, old>> /\ new[r] = NoInst /\ new \in [Replacers -> Inst \cup {NoInst}]
    BY <1>0, <1>9 DEF LaunchOk, workerVars, BrowserWhereNeeded, ProcsTyped
  <2>3. i = f \/ browser[i].open
    BY <1>0, <2>1 DEF BrowsersTyped
  <2> QED BY <1>2, <2>1, <2>2, <2>3
<1>10. ASSUME NEW r \in Replacers, Publish(r) \/ GiveBack(r)
       PROVE  \/ \E w \in Workers : instance'[w] = i
              \/ \E q \in Replacers : i = old'[q] \/ i = new'[q]
  <2>1. instance[worker[r]] = NoInst /\ worker[r] \in Workers
    BY <1>0, <1>10, FinishEffect DEF ReplacingOwned
  <2>2. i = new[r] /\ new'[r] = NoInst /\ closing[worker[r]] => ~browser'[i].open
    BY <1>0, <1>10 DEF Publish, GiveBack, BrowserWhereNeeded, BrowsersTyped, ClosedBrowser
  <2>3. new[r] = NoInst \/ old'[r] = old[r]
    BY <1>0, <1>10 DEF Publish, GiveBack, Readvertise, Condemned, BrowserWhereNeeded, ProcsTyped
  <2>4. /\ old[r] # NoInst /\ new'[r] = NoInst
        /\ \A q \in Replacers : q # r => old'[q] = old[q] /\ new'[q] = new[q]
        /\ \A w \in Workers : w # worker[r] => instance'[w] = instance[w]
    BY <1>10, FinishEffect
  <2>5. CASE /\ closing[worker[r]]
             /\ instance'[worker[r]] = instance[worker[r]] /\ old'[r] = old[r]
             /\ \A k \in Inst : browser'[k] = browser[k] \/ k = new[r]
    <3>1. browser[i].open /\ i # new[r]
      BY <2>2, <2>4, <2>5
    <3> QED BY <1>2, <2>1, <2>4, <2>5, <3>1
  <2>6. CASE instance'[worker[r]] = new[r] /\ old'[r] = old[r] /\ UNCHANGED browser
    BY <1>2, <2>1, <2>4, <2>6
  <2>7. CASE instance'[worker[r]] = old[r] /\ old'[r] = NoInst /\ UNCHANGED browser
    BY <1>2, <2>1, <2>3, <2>4, <2>7
  <2> QED BY <1>10, <2>5, <2>6, <2>7, FinishEffect
<1>11. ASSUME NEW r \in Replacers, Reap(r)
       PROVE  \/ \E w \in Workers : instance'[w] = i
              \/ \E q \in Replacers : i = old'[q] \/ i = new'[q]
  <2>1. browser' = [browser EXCEPT ![old[r]] = ClosedBrowser] /\ UNCHANGED <<instance, new>>
        /\ old' = [old EXCEPT ![r] = NoInst] /\ old[r] # NoInst
    BY <1>0, <1>11 DEF Reap, workerVars, BrowserWhereNeeded
  <2>2. i # old[r] /\ browser[i].open
    BY <1>0, <2>1 DEF BrowsersTyped, ProcsTyped, ClosedBrowser
  <2> QED BY <1>0, <1>2, <2>1, <2>2 DEF ProcsTyped
<1> QED BY <1>4, <1>5, <1>6, <1>7, <1>8, <1>9, <1>10, <1>11, StepEffects DEF Effects

(* Every Chrome the pool has launched is closed by it, unless its context    *)
(* ends, which kills it. *)
THEOREM NoBrowserLost == Spec => []NoBrowserLeak
<1>1. Init => NoBrowserLeak
  BY DEF Init, NoBrowserLeak, ClosedBrowser
<1> QED BY <1>1, StepNoBrowserLeak, PoolInvHolds, PTL DEF Spec

-----------------------------------------------------------------------------
(* Tokens in the channel, and goroutines on their way with one. *)
Queued(s, w) == Cardinality({k \in DOMAIN s : s[k] = w})

Passing == {"send", "taken"}
Holding == {"try", "health", "repair", "commit", "note"}

Count(labels, w) == Cardinality(At(labels, w))

One(b) == IF b THEN 1 ELSE 0

(* One element more. *)
LEMMA SetJoin ==
  ASSUME NEW S, IsFiniteSet(S), NEW x, x \notin S
  PROVE  /\ IsFiniteSet(S \cup {x}) /\ Cardinality(S) \in Nat
         /\ Cardinality(S \cup {x}) = Cardinality(S) + 1
BY FS_AddElement, FS_CardinalityType

(* One element less. *)
LEMMA SetLeave ==
  ASSUME NEW S, IsFiniteSet(S), NEW x, x \in S
  PROVE  /\ IsFiniteSet(S \ {x}) /\ Cardinality(S) \in Nat /\ Cardinality(S) > 0
         /\ Cardinality(S \ {x}) = Cardinality(S) - 1
<1>1. IsFiniteSet(S \ {x}) /\ Cardinality(S \ {x}) = Cardinality(S) - 1
  BY FS_RemoveElement
<1>2. Cardinality(S) \in Nat /\ Cardinality(S \ {x}) \in Nat
  BY <1>1, FS_CardinalityType
<1> QED BY <1>1, <1>2

(* A channel holds finitely many tokens of anybody. *)
LEMMA QueuedNat ==
  ASSUME NEW s \in Seq(Workers), NEW w
  PROVE  IsFiniteSet({k \in DOMAIN s : s[k] = w}) /\ Queued(s, w) \in Nat
<1>1. IsFiniteSet(1..Len(s)) /\ DOMAIN s = 1..Len(s)
  BY FS_Interval
<1>2. IsFiniteSet({k \in DOMAIN s : s[k] = w})
  BY <1>1, FS_Subset
<1> QED BY <1>2, FS_CardinalityType DEF Queued

(* A token is put in. *)
LEMMA QueuedAppend ==
  ASSUME NEW s \in Seq(Workers), NEW v \in Workers, NEW w
  PROVE  Queued(Append(s, v), w) = Queued(s, w) + One(v = w)
<1> DEFINE T == Append(s, v)
           S == {k \in DOMAIN s : s[k] = w}
<1>1. DOMAIN T = 1..Len(s) + 1 /\ DOMAIN s = 1..Len(s) /\ Len(s) \in Nat
  BY AppendProperties
<1>2. T[Len(s) + 1] = v /\ \A k \in 1..Len(s) : T[k] = s[k]
  BY AppendProperties
<1>3. CASE v = w
  <2>1. {k \in DOMAIN T : T[k] = w} = S \cup {Len(s) + 1} /\ Len(s) + 1 \notin S
    BY <1>1, <1>2, <1>3
  <2>2. IsFiniteSet(S)
    BY QueuedNat
  <2> HIDE DEF S
  <2>3. Cardinality(S \cup {Len(s) + 1}) = Cardinality(S) + 1
    BY <2>1, <2>2, SetJoin
  <2> QED BY <1>3, <2>1, <2>3 DEF Queued, One, S
<1>4. CASE v # w
  <2>1. {k \in DOMAIN T : T[k] = w} = S
    BY <1>1, <1>2, <1>4
  <2>2. Queued(s, w) \in Nat
    BY QueuedNat
  <2>3. Queued(T, w) = Queued(s, w)
    BY <2>1 DEF Queued
  <2> QED BY <1>4, <2>2, <2>3 DEF One
<1> QED BY <1>3, <1>4

(* The first token is taken out. *)
LEMMA QueuedTail ==
  ASSUME NEW s \in Seq(Workers), s # <<>>, NEW w
  PROVE  Queued(Tail(s), w) = Queued(s, w) - One(Head(s) = w)
<1> DEFINE T == {k \in DOMAIN Tail(s) : Tail(s)[k] = w}
           S == {k \in DOMAIN s : s[k] = w}
           f == [k \in T |-> k + 1]
<1>1. /\ DOMAIN s = 1..Len(s) /\ Len(s) \in Nat \ {0} /\ Head(s) = s[1]
      /\ DOMAIN Tail(s) = 1..Len(s) - 1
      /\ \A k \in 1..Len(s) - 1 : Tail(s)[k] = s[k + 1]
  BY HeadTailProperties, EmptySeq
<1>2. T \subseteq Nat /\ \A k \in T : k + 1 \in S \ {1}
  BY <1>1
<1>3. \A k \in S \ {1} : k - 1 \in T
  BY <1>1
<1>4. f \in Bijection(T, S \ {1})
  <2>1. f \in Injection(T, S \ {1})
    BY <1>2 DEF Injection, IsInjective
  <2>2. ASSUME NEW k \in S \ {1} PROVE k - 1 \in T /\ f[k - 1] = k
    BY <1>1, <1>3
  <2>3. f \in Surjection(T, S \ {1})
    BY <2>1, <2>2 DEF Injection, Surjection
  <2> QED BY <2>1, <2>3 DEF Bijection
<1>5. IsFiniteSet(T) /\ IsFiniteSet(S) /\ Cardinality(S) \in Nat
  <2>1. Tail(s) \in Seq(Workers)
    BY HeadTailProperties
  <2> QED BY <2>1, QueuedNat DEF Queued
<1>6. Cardinality(T) = Cardinality(S \ {1})
  BY <1>4, <1>5, FS_Bijection DEF ExistsBijection
<1>7. 1 \in S <=> Head(s) = w
  BY <1>1
<1>8. Queued(Tail(s), w) = Cardinality(T) /\ Queued(s, w) = Cardinality(S)
  BY DEF Queued
<1> HIDE DEF S, T
<1>9. CASE 1 \in S
  BY <1>5, <1>6, <1>7, <1>8, <1>9, SetLeave DEF One
<1>10. CASE 1 \notin S
  <2>1. S \ {1} = S
    BY <1>10
  <2>2. Cardinality(T) = Cardinality(S)
    BY <1>6, <2>1, Zenon
  <2> QED BY <1>5, <1>7, <1>8, <1>10, <2>2 DEF One
<1> QED BY <1>9, <1>10

(* NewPool puts n tokens of one worker in. *)
LEMMA QueuedFill ==
  ASSUME NEW s \in Seq(Workers), NEW c \in Workers, NEW n \in Nat, NEW w
  PROVE  Queued(s \o [k \in 1..n |-> c], w) = Queued(s, w) + (IF w = c THEN n ELSE 0)
<1> DEFINE e == [k \in 1..n |-> c]
           t == s \o e
           S == {k \in DOMAIN s : s[k] = w}
           R == Len(s) + 1..Len(s) + n
<1>1. e \in Seq(Workers) /\ Len(e) = n /\ Len(s) \in Nat /\ DOMAIN s = 1..Len(s)
  BY Repeated
<1>2. t \in Seq(Workers) /\ Len(t) = Len(s) + n
  BY <1>1, ConcatProperties
<1>3. \A k \in 1..Len(s) : t[k] = s[k]
  BY <1>1, ConcatProperties
<1>4. \A k \in R : t[k] = c
  BY <1>1, ConcatProperties
<1>5. DOMAIN t = 1..Len(s) + n
  BY <1>2
<1> HIDE DEF t
<1>6. Queued(s, w) = Cardinality(S) /\ IsFiniteSet(S) /\ Cardinality(S) \in Nat
  BY QueuedNat DEF Queued
<1>7. CASE w # c
  <2>1. {k \in DOMAIN t : t[k] = w} = S
    BY <1>1, <1>3, <1>4, <1>5, <1>7
  <2>2. Queued(t, w) = Queued(s, w)
    BY <2>1 DEF Queued
  <2> QED BY <1>6, <1>7, <2>2 DEF t
<1>8. CASE w = c
  <2>1. {k \in DOMAIN t : t[k] = w} = S \cup R /\ S \cap R = {}
    BY <1>1, <1>3, <1>4, <1>5, <1>8
  <2>2. IsFiniteSet(R) /\ Cardinality(R) = n
    <3>1. Len(s) + 1 \in Int /\ Len(s) + n \in Int
      BY <1>1
    <3>2. /\ IsFiniteSet(R)
          /\ Cardinality(R) = IF Len(s) + 1 > Len(s) + n THEN 0 ELSE (Len(s) + n) - (Len(s) + 1) + 1
      BY <3>1, FS_Interval
    <3> QED BY <1>1, <3>2
  <2>3. Queued(t, w) = Cardinality(S \cup R)
    BY <2>1 DEF Queued
  <2> HIDE DEF S, R
  <2>4. Cardinality(S \cup R) = Cardinality(S) + Cardinality(R) - Cardinality(S \cap R)
    BY <1>6, <2>2, FS_Union
  <2>5. Cardinality(S \cap R) = 0
    BY <2>1, FS_EmptySet
  <2> QED BY <1>6, <1>8, <2>2, <2>3, <2>4, <2>5 DEF t
<1> QED BY <1>7, <1>8

(* One goroutine moves; what the others do does not change who is at labels. *)
LEMMA CountMoves ==
  ASSUME NEW p \in Procs, NEW labels, NEW w, IsFiniteSet(At(labels, w)),
         \A q \in Procs : q # p =>
           (q \in At(labels, w)' <=> q \in At(labels, w))
  PROVE  /\ IsFiniteSet(At(labels, w)')
         /\ Count(labels, w) \in Nat
         /\ Count(labels, w)'
               = Count(labels, w) - One(p \in At(labels, w)) + One(p \in At(labels, w)')
         /\ p \in At(labels, w) => Count(labels, w) > 0
<1> DEFINE A == At(labels, w)
           B == At(labels, w)'
<1>1. A \subseteq Procs /\ B \subseteq Procs
  BY DEF At, Procs
<1>2. \A q : q # p => (q \in B <=> q \in A)
  BY <1>1
<1>3. IsFiniteSet(A) /\ Cardinality(A) \in Nat
  BY FS_CardinalityType
<1>4. Count(labels, w) = Cardinality(A) /\ Count(labels, w)' = Cardinality(B)
  BY DEF Count
<1> HIDE DEF A, B
<1>5. CASE (p \in A /\ p \in B) \/ (p \notin A /\ p \notin B)
  <2>1. A = B
    BY <1>2, <1>5
  <2>2. p \in A => Cardinality(A) > 0
    BY <1>3, SetLeave
  <2> QED BY <1>3, <1>4, <1>5, <2>1, <2>2 DEF One, A, B
<1>6. CASE p \in A /\ p \notin B
  <2>1. B = A \ {p}
    BY <1>2, <1>6
  <2> QED BY <1>3, <1>4, <1>6, <2>1, SetLeave DEF One, A, B
<1>7. CASE p \notin A /\ p \in B
  <2>1. B = A \cup {p}
    BY <1>2, <1>7
  <2> QED BY <1>3, <1>4, <1>7, <2>1, SetJoin DEF One, A, B
<1> QED BY <1>5, <1>6, <1>7

-----------------------------------------------------------------------------
(* The steps that concern neither the channel nor advertisedSlots. *)
SlotsAside ==
  /\ UNCHANGED <<available, advertisedSlots>>
  /\ \A w \in Workers : At(Passing, w)' = At(Passing, w) /\ (Built(w)' <=> Built(w))

(* Every other step is one of those that move or note a token. *)
LEMMA SlotEffects ==
  ASSUME PoolInv, [Next]_vars
  PROVE  \/ SlotsAside \/ FillSlots
         \/ \E j \in Jobs : Receive(j) \/ NoteTaken(j)
         \/ \E p \in Procs : SlotStep(p)
<1>0. ProcsTyped /\ WorkerWhereNeeded /\ BrowserWhereNeeded
  BY Parts
<1> USE PoolAssumption, ProcFacts DEF SlotsAside, At, Passing, Built, Procs
<1>1. CASE UNCHANGED vars \/ Exited \/ \E w \in Workers : BrowserAges(w)
  BY <1>1 DEF Exited, BrowserAges, vars, workerVars, procVars, mainVars
<1>2. CASE NewWorker \/ NewWorkerFails \/ Signal \/ Close \/ Shutdown
  BY <1>2 DEF NewWorker, NewWorkerFails, Signal, Close, Shutdown, workerVars, procVars, mainVars
<1>3. ASSUME NEW j \in Jobs, Submit(j) PROVE SlotsAside
  BY <1>0, <1>3 DEF Submit, Goto, ProcsTyped, workerVars, mainVars
<1>4. ASSUME NEW j \in Jobs, GiveUp(j) PROVE SlotsAside
  BY <1>0, <1>4 DEF GiveUp, Goto, ProcsTyped, workerVars, mainVars
<1>5. ASSUME NEW j \in Jobs, TryRefused(j) PROVE SlotsAside
  BY <1>0, <1>5 DEF TryRefused, Goto, ProcsTyped, workerVars, mainVars
<1>6. ASSUME NEW j \in Jobs, TryFirst(j) PROVE SlotsAside
  BY <1>0, <1>6 DEF TryFirst, Goto, ProcsTyped, workerVars, mainVars
<1>7. ASSUME NEW j \in Jobs, HealthOk(j) PROVE SlotsAside
  BY <1>0, <1>7 DEF HealthOk, Goto, ProcsTyped, workerVars, mainVars
<1>8. ASSUME NEW j \in Jobs, HealthFails(j) PROVE SlotsAside
  BY <1>0, <1>8 DEF HealthFails, Goto, ProcsTyped, workerVars, mainVars
<1>9. ASSUME NEW j \in Jobs, Commit(j) PROVE SlotsAside
  BY <1>0, <1>9 DEF Commit, Goto, ProcsTyped, workerVars, mainVars
<1>10. ASSUME NEW j \in Jobs, SolveFails(j) PROVE SlotsAside
  BY <1>0, <1>10 DEF SolveFails, Goto, ProcsTyped, workerVars, mainVars
<1>11. ASSUME NEW j \in Jobs, LoadCount(j) PROVE SlotsAside
  BY <1>0, <1>11 DEF LoadCount, Goto, ProcsTyped, workerVars, mainVars
<1>12. ASSUME NEW j \in Jobs, StoreCount(j) PROVE SlotsAside
  BY <1>0, <1>12 DEF StoreCount, Goto, ProcsTyped, workerVars, mainVars
<1>13. ASSUME NEW j \in Jobs, Repair(j) PROVE SlotsAside
  <2>1. CASE \E r \in IdleReplacers :
               /\ pc' = [pc EXCEPT ![j] = "acquire", ![r] = "launch"]
               /\ worker' = [worker EXCEPT ![j] = NoWorker, ![r] = worker[j]]
    BY <1>0, <1>13, <2>1 DEF Repair, IdleReplacers, ProcsTyped, mainVars
  <2>2. CASE ~StartReplacement(j, "acquire")
    BY <1>0, <1>13, <2>2 DEF Repair, Goto, ProcsTyped, mainVars
  <2> QED BY <1>13, <2>1, <2>2 DEF StartReplacement
<1>14. ASSUME NEW j \in Jobs, Release(j) PROVE SlotsAside
  <2>1. CASE \E r \in IdleReplacers :
               /\ pc' = [pc EXCEPT ![j] = "idle", ![r] = "launch"]
               /\ worker' = [worker EXCEPT ![j] = NoWorker, ![r] = worker[j]]
    BY <1>0, <1>14, <2>1 DEF Release, IdleReplacers, ProcsTyped, mainVars
  <2>2. CASE ~StartReplacement(j, "idle")
    BY <1>0, <1>14, <2>2 DEF Release, Goto, ProcsTyped, mainVars
  <2> QED BY <1>14, <2>1, <2>2 DEF StartReplacement
<1>15. ASSUME NEW r \in Replacers, LaunchOk(r) PROVE SlotsAside
  BY <1>0, <1>15 DEF LaunchOk, Goto, ProcsTyped, workerVars, mainVars
<1>16. ASSUME NEW r \in Replacers, LaunchFails(r) PROVE SlotsAside
  BY <1>0, <1>16 DEF LaunchFails, Goto, ProcsTyped, workerVars, mainVars
<1>17. ASSUME NEW r \in Replacers, Publish(r) PROVE SlotsAside
  BY <1>0, <1>17 DEF Publish, Readvertise, Goto, ProcsTyped, workerVars, mainVars
<1>18. ASSUME NEW r \in Replacers, GiveBack(r) PROVE SlotsAside
  BY <1>0, <1>18 DEF GiveBack, Readvertise, Goto, ProcsTyped, workerVars, mainVars
<1>19. ASSUME NEW r \in Replacers, Reap(r) PROVE SlotsAside
  BY <1>0, <1>19 DEF Reap, Goto, ProcsTyped, workerVars, mainVars
<1> QED BY <1>1, <1>2, <1>3, <1>4, <1>5, <1>6, <1>7, <1>8, <1>9, <1>10, <1>11, <1>12,
           <1>13, <1>14, <1>15, <1>16, <1>17, <1>18, <1>19
        DEF Next, Construct, JobStep, ReplaceStep

(* What the induction needs beside AdvertisedExact: the goroutines counted   *)
(* are finitely many, and NewPool finds the counter of a new worker at 0.    *)
SlotInv ==
  /\ \A w \in Workers : IsFiniteSet(At(Passing, w))
  /\ AdvertisedExact
  /\ \A w \in Workers : ~Built(w) => advertisedSlots[w] = 0

(* AdvertisedExact in the terms of the lemmas. *)
LEMMA ExactSum ==
  AdvertisedExact <=>
    \A w \in Workers : advertisedSlots[w] = Queued(available, w) + Count(Passing, w)
BY DEF AdvertisedExact, Queued, Count, Passing

(* One goroutine p takes or puts a token, or notes that it did: for every    *)
(* worker what the counter gains is what channel and goroutines gain.        *)
LEMMA SlotMove ==
  ASSUME PoolInv, SlotInv, NEW p \in Procs,
         \A q \in Procs : q # p => pc'[q] = pc[q] /\ worker'[q] = worker[q],
         UNCHANGED <<main, cursor>>,
         \A w \in Workers :
           Queued(available, w) \in Nat /\ Count(Passing, w) \in Nat
             /\ (p \in At(Passing, w) => Count(Passing, w) > 0)
           => advertisedSlots'[w] - advertisedSlots[w]
                = (Queued(available', w) - Queued(available, w))
                    + (One(p \in At(Passing, w)') - One(p \in At(Passing, w))),
         available' \in Seq(Workers), advertisedSlots' \in [Workers -> Nat],
         \A w \in Workers : advertisedSlots'[w] # advertisedSlots[w] => Built(w)
  PROVE  SlotInv'
<1>1. ChannelTyped /\ WorkersTyped
  BY Parts
<1>2. ASSUME NEW w \in Workers
      PROVE  /\ IsFiniteSet(At(Passing, w)')
             /\ advertisedSlots'[w] = Queued(available', w) + Count(Passing, w)'
             /\ ~Built(w)' => advertisedSlots'[w] = 0
  <2>1. IsFiniteSet(At(Passing, w)) /\ (~Built(w) => advertisedSlots[w] = 0)
    BY DEF SlotInv
  <2>2. \A q \in Procs : q # p => (q \in At(Passing, w)' <=> q \in At(Passing, w))
    BY DEF At
  <2>3. /\ IsFiniteSet(At(Passing, w)')
        /\ Count(Passing, w) \in Nat
        /\ Count(Passing, w)'
             = Count(Passing, w) - One(p \in At(Passing, w)) + One(p \in At(Passing, w)')
        /\ p \in At(Passing, w) => Count(Passing, w) > 0
    BY <2>1, <2>2, CountMoves
  <2>4. advertisedSlots[w] = Queued(available, w) + Count(Passing, w)
    BY ExactSum DEF SlotInv
  <2>5. Queued(available, w) \in Nat /\ Queued(available', w) \in Nat
    BY <1>1, QueuedNat DEF ChannelTyped
  <2>6. One(p \in At(Passing, w)) \in Nat /\ One(p \in At(Passing, w)') \in Nat
    BY DEF One
  <2>7. advertisedSlots'[w] - advertisedSlots[w]
          = (Queued(available', w) - Queued(available, w))
              + (One(p \in At(Passing, w)') - One(p \in At(Passing, w)))
    BY <2>3, <2>5
  <2>8. advertisedSlots[w] \in Nat /\ advertisedSlots'[w] \in Nat
    BY <1>1 DEF WorkersTyped
  <2>9. Built(w)' <=> Built(w)
    BY DEF Built
  <2>10. advertisedSlots'[w] = Queued(available', w) + Count(Passing, w)'
    <3> DEFINE a == advertisedSlots[w]             aa == advertisedSlots'[w]
               t == Queued(available, w)           tt == Queued(available', w)
               c == Count(Passing, w)              cc == Count(Passing, w)'
               o == One(p \in At(Passing, w))      oo == One(p \in At(Passing, w)')
    <3>1. /\ a \in Nat /\ aa \in Nat /\ t \in Nat /\ tt \in Nat /\ c \in Nat
          /\ o \in Nat /\ oo \in Nat
          /\ cc = c - o + oo /\ a = t + c /\ aa - a = (tt - t) + (oo - o)
      BY <2>3, <2>4, <2>5, <2>6, <2>7, <2>8
    <3> HIDE DEF a, aa, t, tt, c, cc, o, oo
    <3>2. aa = tt + cc
      BY <3>1
    <3> QED BY <3>2 DEF aa, tt, cc
  <2> QED BY <2>1, <2>3, <2>9, <2>10
<1>3. \A w \in Workers : advertisedSlots'[w] = Queued(available, w)' + Count(Passing, w)'
  BY <1>2 DEF Queued
<1>4. AdvertisedExact'
  BY <1>3 DEF AdvertisedExact, Queued, Count, Passing
<1> QED BY <1>2, <1>4 DEF SlotInv

(* The counter follows channel and goroutines in every step. *)
LEMMA StepSlotInv == PoolInv /\ SlotInv /\ [Next]_vars => SlotInv'
<1> SUFFICES ASSUME PoolInv, SlotInv, [Next]_vars PROVE SlotInv'
  OBVIOUS
<1>0. /\ TypeInv /\ TypeOK /\ ChannelTyped /\ WorkersTyped /\ MainTyped /\ ProcsTyped /\ Quiet
      /\ WorkerWhereNeeded /\ BrowserWhereNeeded
  BY Parts
<1>1. available' \in Seq(Workers) /\ advertisedSlots' \in [Workers -> Nat]
  <2>1. TypeInv'
    BY Parts, StepTypeInv
  <2> QED BY <2>1 DEF TypeInv, TypeOK, ChannelTyped, WorkersTyped
<1>2. ASSUME NEW p \in Procs, pc[p] # "idle" PROVE \A w \in Workers : Built(w)
  BY <1>0, <1>2 DEF Quiet, Built
<1> USE PoolAssumption, ProcFacts
<1>3. CASE SlotsAside
  <2>1. ASSUME NEW w \in Workers
        PROVE  /\ IsFiniteSet(At(Passing, w)')
               /\ advertisedSlots'[w] = Queued(available, w)' + Count(Passing, w)'
               /\ ~Built(w)' => advertisedSlots'[w] = 0
    <3>1. At(Passing, w)' = At(Passing, w) /\ available' = available
          /\ advertisedSlots' = advertisedSlots /\ (Built(w)' <=> Built(w))
      BY <1>3 DEF SlotsAside
    <3>2. Count(Passing, w)' = Count(Passing, w) /\ Queued(available, w)' = Queued(available, w)
      BY <3>1 DEF Count, Queued
    <3> QED BY <3>1, <3>2, ExactSum DEF SlotInv
  <2>2. AdvertisedExact'
    BY <2>1 DEF AdvertisedExact, Queued, Count, Passing
  <2> QED BY <2>1, <2>2 DEF SlotInv
<1>4. CASE FillSlots
  <2>1. PICK n \in 0..TabCap :
          /\ available' = available \o [k \in 1..n |-> cursor]
          /\ advertisedSlots' = [advertisedSlots EXCEPT ![cursor] = n]
    BY <1>4 DEF FillSlots
  <2>2. cursor \in Workers /\ n \in Nat /\ UNCHANGED <<pc, worker>> /\ main = "fill"
    BY <1>0, <1>4 DEF FillSlots, MainTyped, procVars
  <2>3. ASSUME NEW w \in Workers
        PROVE  /\ IsFiniteSet(At(Passing, w)')
               /\ advertisedSlots'[w] = Queued(available, w)' + Count(Passing, w)'
               /\ ~Built(w)' => advertisedSlots'[w] = 0
    <3>1. At(Passing, w)' = At(Passing, w)
      BY <2>2 DEF At
    <3>2. Count(Passing, w)' = Count(Passing, w)
      BY <3>1 DEF Count
    <3>3. Queued(available', w) = Queued(available, w) + (IF w = cursor THEN n ELSE 0)
      BY <1>0, <2>1, <2>2, QueuedFill DEF ChannelTyped
    <3>4. Queued(available, w)' = Queued(available', w)
      BY DEF Queued
    <3>5. Queued(available, w) \in Nat /\ advertisedSlots[w] \in Nat
      BY <1>0, QueuedNat DEF ChannelTyped, WorkersTyped
    <3>6. Count(Passing, w) \in Nat /\ IsFiniteSet(At(Passing, w))
      BY FS_CardinalityType DEF SlotInv, Count
    <3>7. advertisedSlots[w] = Queued(available, w) + Count(Passing, w)
      BY ExactSum DEF SlotInv
    <3>8. w = cursor => advertisedSlots[w] = 0
      BY <2>2 DEF SlotInv, Built, Workers
    <3>9. advertisedSlots'[w] = IF w = cursor THEN n ELSE advertisedSlots[w]
      BY <1>0, <2>1, <2>2 DEF WorkersTyped
    <3>10. ~Built(w)' => ~Built(w) /\ w # cursor
      BY <1>0, <1>4, <2>2 DEF FillSlots, Built, Workers
    <3>11. advertisedSlots'[w] = Queued(available, w)' + Count(Passing, w)'
      BY <3>2, <3>3, <3>4, <3>5, <3>6, <3>7, <3>8, <3>9, <2>2
    <3> QED BY <3>1, <3>6, <3>9, <3>10, <3>11 DEF SlotInv
  <2>4. AdvertisedExact'
    BY <2>3 DEF AdvertisedExact, Queued, Count, Passing
  <2> QED BY <2>3, <2>4 DEF SlotInv
<1>5. ASSUME NEW j \in Jobs, Receive(j) PROVE SlotInv'
  <2>1. /\ pc[j] = "acquire" /\ pc'[j] = "taken" /\ worker'[j] = Head(available)
        /\ available # <<>> /\ available' = Tail(available)
        /\ UNCHANGED <<advertisedSlots, main, cursor>>
        /\ \A q \in Procs : q # j => pc'[q] = pc[q] /\ worker'[q] = worker[q]
    BY <1>0, <1>5 DEF Receive, Goto, ProcsTyped, workerVars, mainVars
  <2>2. ASSUME NEW w \in Workers, Queued(available, w) \in Nat
        PROVE  advertisedSlots'[w] - advertisedSlots[w]
                 = (Queued(available', w) - Queued(available, w))
                     + (One(j \in At(Passing, w)') - One(j \in At(Passing, w)))
    <3>1. Queued(available', w) = Queued(available, w) - One(Head(available) = w)
      BY <1>0, <2>1, QueuedTail DEF ChannelTyped
    <3>2. One(j \in At(Passing, w)') = One(Head(available) = w) /\ One(j \in At(Passing, w)) = 0
      BY <2>1 DEF At, Passing, One
    <3>3. One(Head(available) = w) \in Nat /\ advertisedSlots[w] \in Nat
      BY <1>0 DEF One, WorkersTyped
    <3> QED BY <2>1, <2>2, <3>1, <3>2, <3>3
  <2> QED BY <1>1, <2>1, <2>2, SlotMove
<1>6. ASSUME NEW j \in Jobs, NoteTaken(j) PROVE SlotInv'
  <2>0. worker[j] \in Workers
    BY <1>0, <1>6, HasWorker DEF NoteTaken
  <2>1. /\ pc[j] = "taken" /\ pc'[j] = "try" /\ worker[j] \in Workers
        /\ advertisedSlots' = [advertisedSlots EXCEPT ![worker[j]] = Dec(@)]
        /\ UNCHANGED <<available, worker, main, cursor>>
        /\ \A q \in Procs : q # j => pc'[q] = pc[q] /\ worker'[q] = worker[q]
    BY <1>0, <1>6, <2>0 DEF NoteTaken, Goto, ProcsTyped, mainVars
  <2>2. ASSUME NEW w \in Workers, Queued(available, w) \in Nat, Count(Passing, w) \in Nat,
               j \in At(Passing, w) => Count(Passing, w) > 0
        PROVE  advertisedSlots'[w] - advertisedSlots[w]
                 = (Queued(available', w) - Queued(available, w))
                     + (One(j \in At(Passing, w)') - One(j \in At(Passing, w)))
    <3>1. One(j \in At(Passing, w)') = 0 /\ One(j \in At(Passing, w)) = One(worker[j] = w)
      BY <2>1 DEF At, Passing, One
    <3>2. advertisedSlots[w] = Queued(available, w) + Count(Passing, w)
      BY ExactSum DEF SlotInv
    <3>3. advertisedSlots'[w] = advertisedSlots[w] - One(worker[j] = w)
      BY <1>0, <2>1, <2>2, <3>2 DEF WorkersTyped, One, Dec, At, Passing
    <3> QED BY <1>0, <2>1, <2>2, <3>1, <3>3 DEF One, WorkersTyped
  <2> QED BY <1>1, <1>2, <2>1, <2>2, SlotMove
<1>7. ASSUME NEW p \in Procs, NoteQueued(p) PROVE SlotInv'
  <2>0. worker[p] \in Workers
    BY <1>0, <1>7, HasWorker DEF NoteQueued
  <2>1. /\ pc[p] = "note" /\ pc'[p] = "send" /\ worker[p] \in Workers
        /\ advertisedSlots' = [advertisedSlots EXCEPT ![worker[p]] = @ + 1]
        /\ UNCHANGED <<available, worker, main, cursor>>
        /\ \A q \in Procs : q # p => pc'[q] = pc[q] /\ worker'[q] = worker[q]
    BY <1>0, <1>7, <2>0 DEF NoteQueued, Goto, ProcsTyped, mainVars
  <2>2. ASSUME NEW w \in Workers, Queued(available, w) \in Nat
        PROVE  advertisedSlots'[w] - advertisedSlots[w]
                 = (Queued(available', w) - Queued(available, w))
                     + (One(p \in At(Passing, w)') - One(p \in At(Passing, w)))
    <3>1. One(p \in At(Passing, w)') = One(worker[p] = w) /\ One(p \in At(Passing, w)) = 0
      BY <2>1 DEF At, Passing, One
    <3>2. advertisedSlots'[w] = advertisedSlots[w] + One(worker[p] = w)
      BY <1>0, <2>1 DEF WorkersTyped, One
    <3> QED BY <1>0, <2>1, <2>2, <3>1, <3>2 DEF One, WorkersTyped
  <2> QED BY <1>1, <1>2, <2>1, <2>2, SlotMove
<1>8. ASSUME NEW p \in Procs, Send(p) PROVE SlotInv'
  <2>0. worker[p] \in Workers
    BY <1>0, <1>8, HasWorker DEF Send
  <2>1. /\ pc[p] = "send" /\ pc'[p] \in {"note", "idle", "reap"} /\ worker[p] \in Workers
        /\ available' = Append(available, worker[p])
        /\ UNCHANGED <<advertisedSlots, main, cursor>>
        /\ \A q \in Procs : q # p => pc'[q] = pc[q] /\ worker'[q] = worker[q]
    BY <1>0, <1>8, <2>0 DEF Send, Goto, AfterSlots, ProcsTyped, workerVars, mainVars
  <2>2. ASSUME NEW w \in Workers, Queued(available, w) \in Nat
        PROVE  advertisedSlots'[w] - advertisedSlots[w]
                 = (Queued(available', w) - Queued(available, w))
                     + (One(p \in At(Passing, w)') - One(p \in At(Passing, w)))
    <3>1. Queued(available', w) = Queued(available, w) + One(worker[p] = w)
      BY <1>0, <2>1, QueuedAppend DEF ChannelTyped
    <3>2. One(p \in At(Passing, w)') = 0 /\ One(p \in At(Passing, w)) = One(worker[p] = w)
      BY <2>1 DEF At, Passing, One
    <3>3. One(worker[p] = w) \in Nat /\ advertisedSlots[w] \in Nat
      BY <1>0 DEF One, WorkersTyped
    <3> QED BY <2>1, <2>2, <3>1, <3>2, <3>3
  <2> QED BY <1>1, <2>1, <2>2, SlotMove
<1>9. ASSUME NEW p \in Procs, Abandon(p) PROVE SlotInv'
  <2>0. worker[p] \in Workers
    BY <1>0, <1>9, HasWorker DEF Abandon
  <2>1. /\ pc[p] = "send" /\ pc'[p] \in {"idle", "reap"} /\ worker[p] \in Workers
        /\ advertisedSlots' = [advertisedSlots EXCEPT ![worker[p]] = Dec(@)]
        /\ UNCHANGED <<available, main, cursor>>
        /\ \A q \in Procs : q # p => pc'[q] = pc[q] /\ worker'[q] = worker[q]
    BY <1>0, <1>9, <2>0 DEF Abandon, Goto, AfterSlots, ProcsTyped, mainVars
  <2>2. ASSUME NEW w \in Workers, Queued(available, w) \in Nat, Count(Passing, w) \in Nat,
               p \in At(Passing, w) => Count(Passing, w) > 0
        PROVE  advertisedSlots'[w] - advertisedSlots[w]
                 = (Queued(available', w) - Queued(available, w))
                     + (One(p \in At(Passing, w)') - One(p \in At(Passing, w)))
    <3>1. One(p \in At(Passing, w)') = 0 /\ One(p \in At(Passing, w)) = One(worker[p] = w)
      BY <2>1 DEF At, Passing, One
    <3>2. advertisedSlots[w] = Queued(available, w) + Count(Passing, w)
      BY ExactSum DEF SlotInv
    <3>3. advertisedSlots'[w] = advertisedSlots[w] - One(worker[p] = w)
      BY <1>0, <2>1, <2>2, <3>2 DEF WorkersTyped, One, Dec, At, Passing
    <3> QED BY <1>0, <2>1, <2>2, <3>1, <3>3 DEF One, WorkersTyped
  <2> QED BY <1>1, <1>2, <2>1, <2>2, SlotMove
<1> QED BY <1>3, <1>4, <1>5, <1>6, <1>7, <1>8, <1>9, SlotEffects DEF SlotStep

(* No token, no counter, no goroutine at first. *)
LEMMA InitSlots == Init => SlotInv
<1> SUFFICES ASSUME Init, NEW w \in Workers
             PROVE  /\ IsFiniteSet(At(Passing, w))
                    /\ advertisedSlots[w] = Queued(available, w) + Count(Passing, w)
                    /\ advertisedSlots[w] = 0
  BY ExactSum DEF SlotInv
<1>1. At(Passing, w) = {} /\ {k \in DOMAIN available : available[k] = w} = {}
  BY DEF Init, At, Passing
<1>2. Queued(available, w) = 0 /\ Count(Passing, w) = 0 /\ IsFiniteSet(At(Passing, w))
  BY <1>1, FS_EmptySet DEF Queued, Count
<1> QED BY <1>2 DEF Init

(* advertisedSlots is exact at every moment: the tokens of a worker in the   *)
(* channel and those a goroutine is about to put in or has just taken out.   *)
THEOREM AdvertisedCounted == Spec => []AdvertisedExact
<1>1. SlotInv => AdvertisedExact
  BY DEF SlotInv
<1> QED BY InitSlots, StepSlotInv, PoolInvHolds, <1>1, PTL DEF Spec

-----------------------------------------------------------------------------
(* One tab per browser: the one slot of a worker is in one place.            *)

SlotSum(w) == activeTabs[w] + advertisedSlots[w] + One(replacing[w]) + Count(Holding, w)

SlotsFinite == \A w \in Workers : IsFiniteSet(At(Holding, w))

AtMostOne == \A w \in Workers : SlotSum(w) <= 1

NoneBeforeBuilt == \A w \in Workers : ~Built(w) => SlotSum(w) = 0

OneWhileOpen == ~done => \A w \in Workers : Built(w) => SlotSum(w) = 1

SlotCounts == SlotsFinite /\ AtMostOne /\ NoneBeforeBuilt /\ OneWhileOpen

(* While the pool is open, a worker drains only to be replaced, and the      *)
(* browser tryAcq probes is still the worker's.                              *)
DrainsReplaced == ~done => \A w \in Workers : draining[w] => replacing[w]

ProbesCurrent ==
  ~done => \A j \in Jobs : pc[j] \in {"health", "repair"} => old[j] = instance[worker[j]]

CloseIsDone == main \in {"closing", "closed"} => done

OneInv == SlotCounts /\ DrainsReplaced /\ ProbesCurrent /\ CloseIsDone

(* A worker is only shut down by a pool that is done. *)
LEMMA CloseMeansDone ==
  ASSUME PoolInv, CloseIsDone, NEW w \in Workers, closing[w] PROVE done
BY Parts DEF Quiet, CloseIsDone

(* What worker w has, counting of the goroutines only p. *)
Here(p, w) ==
  activeTabs[w] + advertisedSlots[w] + One(replacing[w]) + One(p \in At(Holding, w))

(* The bounds of One that arithmetic needs. *)
LEMMA OneNat == \A b : One(b) \in {0, 1}
BY DEF One

(* What a worker has of goroutine p is part of what it has in all. *)
LEMMA HereBound ==
  ASSUME PoolInv, SlotCounts, NEW p \in Procs, NEW w \in Workers
  PROVE  /\ Here(p, w) \in Nat /\ Here(p, w) <= 1
         /\ Count(Holding, w) \in Nat /\ SlotSum(w) \in Nat
         /\ activeTabs[w] \in Nat /\ advertisedSlots[w] \in Nat
         /\ SlotSum(w) - Count(Holding, w) = Here(p, w) - One(p \in At(Holding, w))
<1>1. /\ activeTabs[w] \in Nat /\ advertisedSlots[w] \in Nat
      /\ One(replacing[w]) \in Nat /\ One(p \in At(Holding, w)) \in {0, 1}
  BY Parts, OneNat, PoolAssumption DEF WorkersTyped
<1>2. IsFiniteSet(At(Holding, w)) /\ SlotSum(w) <= 1
  BY DEF SlotCounts, SlotsFinite, AtMostOne
<1>3. Count(Holding, w) \in Nat
  BY <1>2, FS_CardinalityType DEF Count
<1>4. p \in At(Holding, w) => Count(Holding, w) > 0
  BY <1>2, SetLeave DEF Count
<1>5. One(p \in At(Holding, w)) <= Count(Holding, w)
  BY <1>3, <1>4 DEF One
<1> QED BY <1>1, <1>2, <1>3, <1>5 DEF Here, SlotSum

(* Only p moves, and only on worker v: if what v has of it stays the same,   *)
(* or shrinks once the pool is done, so does the whole count.                *)
LEMMA HoldMove ==
  ASSUME PoolInv, SlotCounts, [Next]_vars, NEW p \in Procs, NEW v \in Workers, Built(v),
         UNCHANGED <<main, cursor>>,
         \A q \in Procs : \A w \in Workers :
           q # p => (q \in At(Holding, w)' <=> q \in At(Holding, w)),
         \A w \in Workers : w # v =>
           /\ activeTabs'[w] = activeTabs[w] /\ advertisedSlots'[w] = advertisedSlots[w]
           /\ replacing'[w] = replacing[w]
           /\ p \notin At(Holding, w) /\ p \notin At(Holding, w)',
         Here(p, v)' <= Here(p, v),
         ~done' => Here(p, v)' = Here(p, v)
  PROVE  SlotCounts'
<1>1. TypeInv /\ TypeInv'
  BY Parts, StepTypeInv
<1>2. ASSUME NEW w \in Workers
      PROVE  /\ IsFiniteSet(At(Holding, w)') /\ SlotSum(w)' \in Int
             /\ SlotSum(w)' <= SlotSum(w)
             /\ ~done' => SlotSum(w)' = SlotSum(w)
             /\ w # v => SlotSum(w)' = SlotSum(w)
  <2>1. /\ IsFiniteSet(At(Holding, w)')
        /\ Count(Holding, w) \in Nat
        /\ Count(Holding, w)'
             = Count(Holding, w) - One(p \in At(Holding, w)) + One(p \in At(Holding, w)')
    <3>1. IsFiniteSet(At(Holding, w))
      BY DEF SlotCounts, SlotsFinite
    <3> QED BY <3>1, CountMoves
  <2>2. /\ activeTabs[w] \in Nat /\ activeTabs'[w] \in Nat
        /\ advertisedSlots[w] \in Nat /\ advertisedSlots'[w] \in Nat
    BY <1>1, PoolAssumption DEF TypeInv, TypeOK, WorkersTyped
  <2>3. /\ One(replacing[w]) \in {0, 1} /\ One(replacing'[w]) \in {0, 1}
        /\ One(p \in At(Holding, w)) \in {0, 1} /\ One(p \in At(Holding, w)') \in {0, 1}
    BY OneNat
  <2>4. w # v => Here(p, w)' = Here(p, w)
    BY DEF Here, One
  <2>5. Here(p, w)' <= Here(p, w) /\ (~done' => Here(p, w)' = Here(p, w))
    <3>1. Here(p, w) \in Nat
      BY <2>2, <2>3 DEF Here
    <3> QED BY <2>4, <3>1
  <2> DEFINE rest == activeTabs[w] + advertisedSlots[w] + One(replacing[w])
             restN == activeTabs'[w] + advertisedSlots'[w] + One(replacing'[w])
             c == Count(Holding, w)              cN == Count(Holding, w)'
             o == One(p \in At(Holding, w))      oN == One(p \in At(Holding, w)')
  <2>6. /\ rest \in Nat /\ restN \in Nat /\ c \in Nat /\ o \in {0, 1} /\ oN \in {0, 1}
        /\ cN = c - o + oN
        /\ SlotSum(w) = rest + c /\ SlotSum(w)' = restN + cN
        /\ Here(p, w) = rest + o /\ Here(p, w)' = restN + oN
    BY <2>1, <2>2, <2>3 DEF SlotSum, Here
  <2> HIDE DEF rest, restN, c, cN, o, oN
  <2>7. /\ SlotSum(w)' \in Int /\ SlotSum(w)' <= SlotSum(w)
        /\ ~done' => SlotSum(w)' = SlotSum(w)
        /\ w # v => SlotSum(w)' = SlotSum(w)
    BY <2>4, <2>5, <2>6
  <2> QED BY <2>1, <2>7
<1>3. \A w \in Workers : SlotSum(w) \in Nat
  BY HereBound
<1>4. /\ \A w \in Workers : SlotSum(w) <= 1 /\ (Built(w)' <=> Built(w))
      /\ \A w \in Workers : ~Built(w) => SlotSum(w) = 0
      /\ ~done => \A w \in Workers : Built(w) => SlotSum(w) = 1
  BY DEF SlotCounts, AtMostOne, NoneBeforeBuilt, OneWhileOpen, Built
<1>5. done => done'
  BY DoneStays
<1>6. \A w \in Workers : SlotSum(w)' <= 1
  BY <1>2, <1>3, <1>4
<1>7. \A w \in Workers : ~Built(w)' => SlotSum(w)' = 0
  BY <1>2, <1>4
<1>8. ~done' => \A w \in Workers : Built(w)' => SlotSum(w)' = 1
  BY <1>2, <1>4, <1>5
<1> QED BY <1>2, <1>6, <1>7, <1>8
        DEF SlotCounts, SlotsFinite, AtMostOne, NoneBeforeBuilt, OneWhileOpen

(* The steps that move no slot between channel, tabs and goroutines. *)
HoldAside ==
  /\ UNCHANGED <<activeTabs, advertisedSlots, replacing>>
  /\ \A w \in Workers : At(Holding, w)' = At(Holding, w) /\ (Built(w)' <=> Built(w))

(* Every other step is one of those that move a slot. *)
LEMMA HoldEffects ==
  ASSUME TabCap = 1, PoolInv, [Next]_vars
  PROVE  \/ HoldAside \/ FillSlots
         \/ \E j \in Jobs : \/ NoteTaken(j) \/ TryRefused(j) \/ Commit(j)
                            \/ Repair(j) \/ Release(j)
         \/ \E p \in Procs : NoteQueued(p) \/ Abandon(p)
         \/ \E r \in Replacers : Publish(r) \/ GiveBack(r)
<1>0. ProcsTyped /\ WorkerWhereNeeded /\ BrowserWhereNeeded
  BY Parts
<1> USE PoolAssumption, ProcFacts DEF HoldAside, At, Holding, Built, Procs
<1>1. CASE UNCHANGED vars \/ Exited \/ \E w \in Workers : BrowserAges(w)
  BY <1>1 DEF Exited, BrowserAges, vars, workerVars, procVars, mainVars
<1>2. CASE NewWorker \/ NewWorkerFails \/ Signal \/ Close \/ Shutdown
  BY <1>2 DEF NewWorker, NewWorkerFails, Signal, Close, Shutdown, workerVars, procVars, mainVars
<1>3. ASSUME NEW j \in Jobs, Submit(j) PROVE HoldAside
  BY <1>0, <1>3 DEF Submit, Goto, ProcsTyped, workerVars, mainVars
<1>4. ASSUME NEW j \in Jobs, GiveUp(j) PROVE HoldAside
  BY <1>0, <1>4 DEF GiveUp, Goto, ProcsTyped, workerVars, mainVars
<1>5. ASSUME NEW j \in Jobs, Receive(j) PROVE HoldAside
  BY <1>0, <1>5 DEF Receive, Goto, ProcsTyped, workerVars, mainVars
<1>6. ASSUME NEW j \in Jobs, TryFirst(j) PROVE HoldAside
  BY <1>0, <1>6 DEF TryFirst, Goto, ProcsTyped, workerVars, mainVars
<1>7. ASSUME NEW j \in Jobs, HealthOk(j) PROVE HoldAside
  BY <1>0, <1>7 DEF HealthOk, Goto, ProcsTyped, workerVars, mainVars
<1>8. ASSUME NEW j \in Jobs, HealthFails(j) PROVE HoldAside
  BY <1>0, <1>8 DEF HealthFails, Goto, ProcsTyped, workerVars, mainVars
<1>9. ASSUME NEW j \in Jobs, SolveFails(j) PROVE HoldAside
  BY <1>0, <1>9 DEF SolveFails, Goto, ProcsTyped, workerVars, mainVars
<1>10. ASSUME NEW j \in Jobs, LoadCount(j) PROVE HoldAside
  BY <1>0, <1>10 DEF LoadCount, Goto, ProcsTyped, workerVars, mainVars
<1>11. ASSUME NEW j \in Jobs, StoreCount(j) PROVE HoldAside
  BY <1>0, <1>11 DEF StoreCount, Goto, ProcsTyped, workerVars, mainVars
<1>12. ASSUME NEW p \in Procs, Send(p) PROVE HoldAside
  <2>1. left[p] \in 0..1
    BY <1>0 DEF ProcsTyped
  <2>2. PICK next \in {"idle", "reap"} : pc' = [pc EXCEPT ![p] = next]
    BY <1>12, <2>1 DEF Send, Goto, AfterSlots
  <2>3. worker' = [worker EXCEPT ![p] = NoWorker] /\ pc[p] = "send"
    BY <1>12, <2>1 DEF Send
  <2>4. \A w \in Workers : At(Holding, w)' = At(Holding, w)
    BY <1>0, <2>2, <2>3 DEF ProcsTyped
  <2> QED BY <1>12, <2>4 DEF Send, workerVars, mainVars
<1>13. ASSUME NEW r \in Replacers, LaunchOk(r) PROVE HoldAside
  BY <1>0, <1>13 DEF LaunchOk, Goto, ProcsTyped, workerVars, mainVars
<1>14. ASSUME NEW r \in Replacers, LaunchFails(r) PROVE HoldAside
  BY <1>0, <1>14 DEF LaunchFails, Goto, ProcsTyped, workerVars, mainVars
<1>15. ASSUME NEW r \in Replacers, Reap(r) PROVE HoldAside
  BY <1>0, <1>15 DEF Reap, Goto, ProcsTyped, workerVars, mainVars
<1> QED BY <1>1, <1>2, <1>3, <1>4, <1>5, <1>6, <1>7, <1>8, <1>9, <1>10, <1>11, <1>12,
           <1>13, <1>14, <1>15
        DEF Next, Construct, JobStep, SlotStep, ReplaceStep

(* No step loses a slot of an open pool, or makes a second one. *)
LEMMA StepSlotCounts ==
  ASSUME TabCap = 1, PoolInv, SlotInv, OneInv, [Next]_vars
  PROVE  SlotCounts'
<1>0. /\ TypeInv /\ TypeInv' /\ WorkersTyped /\ MainTyped /\ ProcsTyped /\ Quiet
      /\ WorkerWhereNeeded /\ BrowserWhereNeeded /\ TabsMatchLeases /\ ReplacingOwned
      /\ SlotCounts /\ DrainsReplaced /\ ProbesCurrent /\ CloseIsDone
  BY Parts, StepTypeInv DEF OneInv
<1>1. ASSUME NEW p \in Procs, pc[p] # "idle" PROVE \A w \in Workers : Built(w)
  BY <1>0, <1>1 DEF Quiet, Built
<1>2. done => done'
  BY DoneStays
<1>3. \A w \in Workers : closing[w] => done
  BY <1>0, CloseMeansDone
<1>4. /\ activeTabs \in [Workers -> 0..1] /\ activeTabs' \in [Workers -> 0..1]
      /\ advertisedSlots \in [Workers -> Nat] /\ advertisedSlots' \in [Workers -> Nat]
  BY <1>0 DEF TypeInv, TypeOK, WorkersTyped
<1> USE PoolAssumption, ProcFacts
<1>5. CASE HoldAside
  <2>1. ASSUME NEW w \in Workers
        PROVE  /\ IsFiniteSet(At(Holding, w)') /\ SlotSum(w)' = SlotSum(w)
               /\ Built(w)' <=> Built(w)
    <3>1. At(Holding, w)' = At(Holding, w)
      BY <1>5 DEF HoldAside
    <3>2. Count(Holding, w)' = Count(Holding, w)
      BY <3>1 DEF Count
    <3>3. SlotSum(w)' = SlotSum(w)
      BY <1>5, <3>2 DEF SlotSum, HoldAside
    <3> QED BY <1>0, <1>5, <3>1, <3>3 DEF SlotCounts, SlotsFinite, HoldAside
  <2> QED BY <1>0, <1>2, <2>1
          DEF SlotCounts, SlotsFinite, AtMostOne, NoneBeforeBuilt, OneWhileOpen
<1>6. CASE FillSlots
  <2>1. PICK n \in 0..1 : /\ n = 1 \/ done
                          /\ advertisedSlots' = [advertisedSlots EXCEPT ![cursor] = n]
    BY <1>6 DEF FillSlots
  <2>2. cursor \in Workers /\ main = "fill" /\ UNCHANGED <<pc, worker, activeTabs, replacing, done>>
    BY <1>0, <1>6 DEF FillSlots, MainTyped, procVars
  <2>3. ASSUME NEW w \in Workers
        PROVE  /\ IsFiniteSet(At(Holding, w)')
               /\ SlotSum(w)' = IF w = cursor THEN n ELSE SlotSum(w)
               /\ Built(w)' <=> w = cursor \/ Built(w)
    <3>1. At(Holding, w)' = At(Holding, w)
      BY <2>2 DEF At
    <3>2. Count(Holding, w)' = Count(Holding, w)
      BY <3>1 DEF Count
    <3>3. IsFiniteSet(At(Holding, w))
      BY <1>0 DEF SlotCounts, SlotsFinite
    <3>4. w = cursor => SlotSum(w) = 0
      BY <1>0, <2>2 DEF SlotCounts, NoneBeforeBuilt, Built, Workers
    <3>5. /\ One(replacing[w]) \in Nat /\ Count(Holding, w) \in Nat
          /\ activeTabs[w] \in Nat /\ advertisedSlots[w] \in Nat
      <4>1. Count(Holding, w) \in Nat
        BY <3>3, FS_CardinalityType DEF Count
      <4> QED BY <1>4, <4>1, OneNat
    <3>6. SlotSum(w)' = activeTabs[w] + advertisedSlots'[w] + One(replacing[w]) + Count(Holding, w)
      BY <2>2, <3>2 DEF SlotSum
    <3>7. SlotSum(w)' = IF w = cursor THEN n ELSE SlotSum(w)
      <4>1. SlotSum(w) = activeTabs[w] + advertisedSlots[w] + One(replacing[w]) + Count(Holding, w)
        BY DEF SlotSum
      <4>2. advertisedSlots'[w] = IF w = cursor THEN n ELSE advertisedSlots[w]
        BY <1>4, <2>1, <2>2
      <4> QED BY <2>1, <3>4, <3>5, <3>6, <4>1, <4>2
    <3>8. Built(w)' <=> w = cursor \/ Built(w)
      BY <1>0, <1>6, <2>2 DEF FillSlots, Built, Workers, MainTyped
    <3> QED BY <3>1, <3>3, <3>7, <3>8
  <2> QED BY <1>0, <2>1, <2>2, <2>3
          DEF SlotCounts, SlotsFinite, AtMostOne, NoneBeforeBuilt, OneWhileOpen
<1>7. ASSUME NEW j \in Jobs, NoteTaken(j) PROVE SlotCounts'
  <2>1. PICK v \in Workers : v = worker[j] /\ Built(v)
    BY <1>0, <1>1, <1>7, HasWorker DEF NoteTaken
  <2>2. /\ pc[j] = "taken" /\ pc' = [pc EXCEPT ![j] = "try"]
        /\ advertisedSlots' = [advertisedSlots EXCEPT ![v] = Dec(@)]
        /\ UNCHANGED <<worker, activeTabs, replacing, main, cursor>>
    BY <2>1, <1>7 DEF NoteTaken, Goto, mainVars
  <2>3. advertisedSlots[v] > 0
    <3>1. j \in At(Passing, v) /\ IsFiniteSet(At(Passing, v))
      BY <2>1, <2>2 DEF At, Passing, SlotInv
    <3>2. Count(Passing, v) \in Nat /\ Count(Passing, v) > 0
      BY <2>1, <3>1, SetLeave DEF Count
    <3>3. Queued(available, v) \in Nat
      BY <2>1, <1>0, QueuedNat DEF TypeInv, TypeOK, ChannelTyped
    <3> QED BY <2>1, <3>2, <3>3, ExactSum DEF SlotInv
  <2>4. /\ One(j \in At(Holding, v)) = 0 /\ One(j \in At(Holding, v)') = 1
        /\ advertisedSlots'[v] = advertisedSlots[v] - 1
        /\ \A q \in Procs : \A w \in Workers :
             q # j => (q \in At(Holding, w)' <=> q \in At(Holding, w))
        /\ \A w \in Workers : w # v =>
             /\ advertisedSlots'[w] = advertisedSlots[w]
             /\ j \notin At(Holding, w) /\ j \notin At(Holding, w)'
    BY <1>0, <1>4, <2>1, <2>2, <2>3 DEF ProcsTyped, At, Holding, One, Dec
  <2>5. Here(j, v)' = Here(j, v) /\ Here(j, v) \in Nat
    BY <1>4, <2>1, <2>2, <2>4, OneNat DEF Here
  <2> QED BY <1>0, <2>1, <2>2, <2>4, <2>5, HoldMove
<1>8. ASSUME NEW j \in Jobs, TryRefused(j) PROVE SlotCounts'
  <2>1. PICK v \in Workers : v = worker[j] /\ Built(v)
    BY <1>0, <1>1, <1>8, HasWorker DEF TryRefused
  <2>2. /\ pc[j] \in {"try", "commit"} /\ Unusable(v) /\ pc' = [pc EXCEPT ![j] = "acquire"]
        /\ worker' = [worker EXCEPT ![j] = NoWorker]
        /\ UNCHANGED <<activeTabs, advertisedSlots, replacing, main, cursor, done>>
    BY <2>1, <1>8 DEF TryRefused, Goto, workerVars, mainVars
  <2>3. /\ One(j \in At(Holding, v)) = 1 /\ One(j \in At(Holding, v)') = 0
        /\ \A q \in Procs : \A w \in Workers :
             q # j => (q \in At(Holding, w)' <=> q \in At(Holding, w))
        /\ \A w \in Workers : w # v => j \notin At(Holding, w) /\ j \notin At(Holding, w)'
    BY <1>0, <2>1, <2>2 DEF ProcsTyped, At, Holding, One
  <2>4. Here(j, v) \in Nat /\ Here(j, v) <= 1
    BY <1>0, <2>1, HereBound
  <2>5. activeTabs[v] = 0 /\ ~replacing[v]
    BY <1>4, <2>1, <2>3, <2>4 DEF Here, One
  <2>6. done
    BY <1>0, <1>3, <2>1, <2>2, <2>5 DEF Unusable, DrainsReplaced, ReplacingOwned
  <2>7. Here(j, v)' <= Here(j, v)
    BY <1>4, <2>1, <2>2, <2>3, OneNat DEF Here
  <2> QED BY <1>0, <2>1, <2>2, <2>3, <2>6, <2>7, HoldMove
<1>9. ASSUME NEW j \in Jobs, Commit(j) PROVE SlotCounts'
  <2>1. PICK v \in Workers : v = worker[j] /\ Built(v)
    BY <1>0, <1>1, <1>9, HasWorker DEF Commit
  <2>2. /\ pc[j] = "commit" /\ pc' = [pc EXCEPT ![j] = "solve"]
        /\ activeTabs' = [activeTabs EXCEPT ![v] = @ + 1]
        /\ UNCHANGED <<worker, advertisedSlots, replacing, main, cursor>>
    BY <2>1, <1>9 DEF Commit, Goto, mainVars
  <2>3. /\ One(j \in At(Holding, v)) = 1 /\ One(j \in At(Holding, v)') = 0
        /\ \A q \in Procs : \A w \in Workers :
             q # j => (q \in At(Holding, w)' <=> q \in At(Holding, w))
        /\ \A w \in Workers : w # v =>
             /\ activeTabs'[w] = activeTabs[w]
             /\ j \notin At(Holding, w) /\ j \notin At(Holding, w)'
    BY <1>0, <2>1, <2>2 DEF ProcsTyped, At, Holding, One
  <2>4. Here(j, v)' = Here(j, v) /\ Here(j, v) \in Nat
    BY <1>4, <2>1, <2>2, <2>3, OneNat DEF Here
  <2> QED BY <1>0, <2>1, <2>2, <2>3, <2>4, HoldMove
<1>10. ASSUME NEW p \in Procs, NoteQueued(p) PROVE SlotCounts'
  <2>1. PICK v \in Workers : v = worker[p] /\ Built(v)
    BY <1>0, <1>1, <1>10, HasWorker DEF NoteQueued
  <2>2. /\ pc[p] = "note" /\ pc' = [pc EXCEPT ![p] = "send"]
        /\ advertisedSlots' = [advertisedSlots EXCEPT ![v] = @ + 1]
        /\ UNCHANGED <<worker, activeTabs, replacing, main, cursor>>
    BY <2>1, <1>10 DEF NoteQueued, Goto, mainVars
  <2>3. /\ One(p \in At(Holding, v)) = 1 /\ One(p \in At(Holding, v)') = 0
        /\ \A q \in Procs : \A w \in Workers :
             q # p => (q \in At(Holding, w)' <=> q \in At(Holding, w))
        /\ \A w \in Workers : w # v =>
             /\ advertisedSlots'[w] = advertisedSlots[w]
             /\ p \notin At(Holding, w) /\ p \notin At(Holding, w)'
    BY <1>0, <1>4, <2>1, <2>2 DEF ProcsTyped, At, Holding, One
  <2>4. Here(p, v)' = Here(p, v) /\ Here(p, v) \in Nat
    BY <1>4, <2>1, <2>2, <2>3, OneNat DEF Here
  <2> QED BY <1>0, <2>1, <2>2, <2>3, <2>4, HoldMove
<1>11. ASSUME NEW p \in Procs, Abandon(p) PROVE SlotCounts'
  <2>1. PICK v \in Workers : v = worker[p] /\ Built(v)
    BY <1>0, <1>1, <1>11, HasWorker DEF Abandon
  <2>2. /\ pc[p] = "send" /\ pc' = [pc EXCEPT ![p] = AfterSlots(p)]
        /\ AfterSlots(p) \in {"idle", "reap"}
        /\ worker' = [worker EXCEPT ![p] = NoWorker]
        /\ advertisedSlots' = [advertisedSlots EXCEPT ![v] = Dec(@)]
        /\ UNCHANGED <<activeTabs, replacing, main, cursor, done>> /\ done
    BY <2>1, <1>11 DEF Abandon, Goto, mainVars, AfterSlots
  <2>3. /\ One(p \in At(Holding, v)) = 0 /\ One(p \in At(Holding, v)') = 0
        /\ advertisedSlots'[v] <= advertisedSlots[v]
        /\ \A q \in Procs : \A w \in Workers :
             q # p => (q \in At(Holding, w)' <=> q \in At(Holding, w))
        /\ \A w \in Workers : w # v =>
             /\ advertisedSlots'[w] = advertisedSlots[w]
             /\ p \notin At(Holding, w) /\ p \notin At(Holding, w)'
    BY <1>0, <1>4, <2>1, <2>2 DEF ProcsTyped, At, Holding, One, Dec
  <2>4. Here(p, v)' <= Here(p, v)
    BY <1>4, <2>1, <2>2, <2>3, OneNat DEF Here
  <2> QED BY <1>0, <2>1, <2>2, <2>3, <2>4, HoldMove
<1>12. ASSUME NEW j \in Jobs, Repair(j) PROVE SlotCounts'
  <2>1. PICK v \in Workers : v = worker[j] /\ Built(v) /\ pc[j] = "repair"
    BY <1>0, <1>1, <1>12, HasWorker DEF Repair
  <2>2. One(j \in At(Holding, v)) = 1
    BY <2>1 DEF At, Holding, One
  <2>3. Here(j, v) \in Nat /\ Here(j, v) <= 1
    BY <1>0, <2>1, HereBound
  <2>4. activeTabs[v] = 0 /\ ~replacing[v] /\ advertisedSlots[v] = 0
    BY <1>4, <2>1, <2>2, <2>3 DEF Here, One
  <2>5. UNCHANGED <<activeTabs, advertisedSlots, main, cursor, done>>
    BY <2>1, <1>12 DEF Repair, mainVars
  <2>6. CASE RepairRefused(v, old[j]) /\ ~StartReplacement(j, "acquire")
    <3>1. /\ pc' = [pc EXCEPT ![j] = "acquire"] /\ worker' = [worker EXCEPT ![j] = NoWorker]
          /\ UNCHANGED replacing
      BY <2>1, <1>12, <2>6 DEF Repair, Goto
    <3>2. /\ One(j \in At(Holding, v)') = 0
          /\ \A q \in Procs : \A w \in Workers :
               q # j => (q \in At(Holding, w)' <=> q \in At(Holding, w))
          /\ \A w \in Workers : w # v => j \notin At(Holding, w) /\ j \notin At(Holding, w)'
      BY <1>0, <2>1, <3>1 DEF ProcsTyped, At, Holding, One
    <3>3. done
      BY <1>0, <1>3, <2>1, <2>4, <2>6 DEF RepairRefused, ProbesCurrent
    <3>4. Here(j, v)' <= Here(j, v)
      BY <1>4, <2>1, <2>2, <2>5, <3>1, <3>2, OneNat DEF Here
    <3> QED BY <1>0, <2>1, <2>5, <3>1, <3>2, <3>3, <3>4, HoldMove
  <2>7. CASE StartReplacement(j, "acquire")
    <3>1. PICK r \in Replacers :
            /\ pc[r] = "idle" /\ pc' = [pc EXCEPT ![j] = "acquire", ![r] = "launch"]
            /\ worker' = [worker EXCEPT ![j] = NoWorker, ![r] = v]
            /\ replacing' = [replacing EXCEPT ![v] = TRUE]
      BY <2>1, <2>7 DEF StartReplacement, IdleReplacers
    <3>2. /\ One(j \in At(Holding, v)') = 0
          /\ \A q \in Procs : \A w \in Workers :
               q # j => (q \in At(Holding, w)' <=> q \in At(Holding, w))
          /\ \A w \in Workers : w # v => j \notin At(Holding, w) /\ j \notin At(Holding, w)'
      BY <1>0, <2>1, <3>1 DEF ProcsTyped, At, Holding, One
    <3>3. /\ replacing'[v] /\ \A w \in Workers : w # v => replacing'[w] = replacing[w]
      BY <1>0, <2>1, <3>1 DEF WorkersTyped
    <3>4. Here(j, v)' = Here(j, v) /\ Here(j, v) \in Nat
      BY <1>4, <2>1, <2>2, <2>3, <2>4, <2>5, <3>2, <3>3 DEF Here, One
    <3> QED BY <1>0, <2>1, <2>5, <3>2, <3>3, <3>4, HoldMove
  <2> QED BY <2>1, <1>12, <2>6, <2>7 DEF Repair
<1>13. ASSUME NEW j \in Jobs, Release(j) PROVE SlotCounts'
  <2>1. PICK v \in Workers : v = worker[j] /\ Built(v) /\ pc[j] = "release"
    BY <1>0, <1>1, <1>13, HasWorker DEF Release
  <2>2. One(j \in At(Holding, v)) = 0
    BY <2>1 DEF At, Holding, One
  <2>3. Here(j, v) \in Nat /\ Here(j, v) <= 1
    BY <1>0, <2>1, HereBound
  <2>4. activeTabs[v] = 1
    <3>1. j \in Leases(v) /\ IsFiniteSet(Leases(v))
      BY <2>1, LeasesFinite DEF Leases
    <3>2. activeTabs[v] > 0
      BY <1>0, <2>1, <3>1, SetLeave DEF TabsMatchLeases
    <3> QED BY <1>4, <2>1, <3>2
  <2>5. ~replacing[v] /\ advertisedSlots[v] = 0 /\ instance[v] # NoInst
    BY <1>0, <1>4, <2>1, <2>2, <2>3, <2>4, Parts DEF Here, One, TabsHoldBrowser
  <2>6. /\ activeTabs' = [activeTabs EXCEPT ![v] = 0]
        /\ UNCHANGED <<advertisedSlots, main, cursor, done>>
    BY <2>1, <1>13, <2>4 DEF Release, mainVars, Dec
  <2>7. CASE StartReplacement(j, "idle")
    <3>1. PICK r \in Replacers :
            /\ pc[r] = "idle" /\ pc' = [pc EXCEPT ![j] = "idle", ![r] = "launch"]
            /\ worker' = [worker EXCEPT ![j] = NoWorker, ![r] = v]
            /\ replacing' = [replacing EXCEPT ![v] = TRUE]
      BY <2>1, <2>7 DEF StartReplacement, IdleReplacers
    <3>2. /\ One(j \in At(Holding, v)') = 0
          /\ \A q \in Procs : \A w \in Workers :
               q # j => (q \in At(Holding, w)' <=> q \in At(Holding, w))
          /\ \A w \in Workers : w # v => j \notin At(Holding, w) /\ j \notin At(Holding, w)'
      BY <1>0, <2>1, <3>1 DEF ProcsTyped, At, Holding, One
    <3>3. /\ replacing'[v] /\ \A w \in Workers : w # v => replacing'[w] = replacing[w]
      BY <1>0, <2>1, <3>1 DEF WorkersTyped
    <3>4. activeTabs'[v] = 0 /\ \A w \in Workers : w # v => activeTabs'[w] = activeTabs[w]
      BY <1>4, <2>1, <2>6
    <3>5. Here(j, v)' = Here(j, v) /\ Here(j, v) \in Nat
      BY <1>4, <2>1, <2>2, <2>3, <2>4, <2>5, <2>6, <3>2, <3>3, <3>4 DEF Here, One
    <3> QED BY <1>0, <2>1, <2>6, <3>2, <3>3, <3>4, <3>5, HoldMove
  <2>8. CASE ~StartReplacement(j, "idle")
    <3>1. /\ UNCHANGED replacing
          /\ \/ pc' = [pc EXCEPT ![j] = "note"] /\ UNCHANGED worker
             \/ /\ pc' = [pc EXCEPT ![j] = "idle"] /\ worker' = [worker EXCEPT ![j] = NoWorker]
                /\ closing[v] \/ draining[v]
      BY <1>4, <1>13, <2>1, <2>4, <2>5, <2>8 DEF Release, Retires, FreeSlot, Goto, Dec
    <3>2. One(j \in At(Holding, v)') = 1 \/ (One(j \in At(Holding, v)') = 0 /\ done)
      BY <1>0, <1>3, <2>1, <2>5, <3>1 DEF ProcsTyped, At, Holding, One, DrainsReplaced
    <3>3. /\ \A q \in Procs : \A w \in Workers :
               q # j => (q \in At(Holding, w)' <=> q \in At(Holding, w))
          /\ \A w \in Workers : w # v => j \notin At(Holding, w) /\ j \notin At(Holding, w)'
      BY <1>0, <2>1, <3>1 DEF ProcsTyped, At, Holding
    <3>4. activeTabs'[v] = 0 /\ \A w \in Workers : w # v => activeTabs'[w] = activeTabs[w]
      BY <1>4, <2>1, <2>6
    <3>5. /\ Here(j, v)' <= Here(j, v)
          /\ ~done' => Here(j, v)' = Here(j, v)
      BY <1>4, <2>1, <2>2, <2>3, <2>4, <2>5, <2>6, <3>1, <3>2, <3>4 DEF Here, One
    <3> QED BY <1>0, <2>1, <2>6, <3>1, <3>3, <3>4, <3>5, HoldMove
  <2> QED BY <2>1, <2>7, <2>8
<1>14. ASSUME NEW r \in Replacers, Publish(r) \/ GiveBack(r) PROVE SlotCounts'
  <2>1. PICK v \in Workers : v = worker[r] /\ Built(v) /\ pc[r] \in {"publish", "giveback"}
    BY <1>0, <1>1, <1>14, HasWorker DEF Publish, GiveBack
  <2>2. One(r \in At(Holding, v)) = 0 /\ replacing[v]
    BY <1>0, <2>1 DEF At, Holding, One, ReplacingOwned, Settling
  <2>3. Here(r, v) \in Nat /\ Here(r, v) <= 1
    BY <1>0, <2>1, HereBound
  <2>4. activeTabs[v] = 0 /\ advertisedSlots[v] = 0
    BY <1>4, <2>1, <2>2, <2>3 DEF Here, One
  <2>5. Remaining(v) = 1
    BY <2>1, <2>4 DEF Remaining
  <2>6. /\ replacing' = [replacing EXCEPT ![v] = FALSE]
        /\ UNCHANGED <<activeTabs, advertisedSlots, main, cursor, done>>
        /\ \/ pc' = [pc EXCEPT ![r] = "note"] /\ UNCHANGED worker
           \/ /\ pc' = [pc EXCEPT ![r] = "reap"] /\ worker' = [worker EXCEPT ![r] = NoWorker]
              /\ closing[v]
    <3>1. ASSUME NEW kept \in BOOLEAN, Readvertise(r, kept)
          PROVE  pc' = [pc EXCEPT ![r] = "note"] /\ UNCHANGED worker
      BY <2>1, <2>5, <3>1 DEF Readvertise, Goto
    <3>2. CASE Publish(r)
      BY <2>1, <3>1, <3>2 DEF Publish, Goto, mainVars
    <3>3. CASE GiveBack(r)
      BY <2>1, <3>1, <3>3 DEF GiveBack, Goto, mainVars
    <3> QED BY <1>14, <3>2, <3>3
  <2>7. One(r \in At(Holding, v)') = 1 \/ (One(r \in At(Holding, v)') = 0 /\ done)
    BY <1>0, <1>3, <2>1, <2>6 DEF ProcsTyped, At, Holding, One
  <2>8. /\ \A q \in Procs : \A w \in Workers :
             q # r => (q \in At(Holding, w)' <=> q \in At(Holding, w))
        /\ \A w \in Workers : w # v => r \notin At(Holding, w) /\ r \notin At(Holding, w)'
    BY <1>0, <2>1, <2>6 DEF ProcsTyped, At, Holding
  <2>9. ~replacing'[v] /\ \A w \in Workers : w # v => replacing'[w] = replacing[w]
    BY <1>0, <2>1, <2>6 DEF WorkersTyped
  <2>10. /\ Here(r, v)' <= Here(r, v)
         /\ ~done' => Here(r, v)' = Here(r, v)
    BY <1>4, <2>1, <2>2, <2>3, <2>4, <2>6, <2>7, <2>9 DEF Here, One
  <2> QED BY <1>0, <2>1, <2>6, <2>8, <2>9, <2>10, HoldMove
<1> QED BY <1>5, <1>6, <1>7, <1>8, <1>9, <1>10, <1>11, <1>12, <1>13, <1>14, HoldEffects

(* Close cancels before it shuts workers down. *)
LEMMA StepCloseIsDone == [Next]_vars /\ CloseIsDone => CloseIsDone'
<1>1. [Next]_vars => \/ main' = main
                     \/ main' \in {"fill", "failed", "launch", "serving"}
                     \/ main' = "closing" /\ done'
                     \/ main = "closing"
  BY DEF Next, Construct, NewWorker, NewWorkerFails, FillSlots, Signal, Close, Shutdown,
     Submit, JobStep, GiveUp, Receive, NoteTaken, TryRefused, TryFirst, HealthOk, HealthFails,
     Repair, Commit, SolveFails, LoadCount, StoreCount, Release, SlotStep, NoteQueued, Send,
     Abandon, ReplaceStep, LaunchOk, LaunchFails, Publish, GiveBack, Reap, BrowserAges, Exited,
     vars, mainVars
<1> QED BY <1>1, DoneStays DEF CloseIsDone

(* A worker is marked draining without a replacement only if it has another  *)
(* tab in use, which it has not, or is being replaced already. *)
LEMMA StepDrainsReplaced ==
  ASSUME TabCap = 1, PoolInv, OneInv, [Next]_vars
  PROVE  DrainsReplaced'
<1> SUFFICES ASSUME NEW w \in Workers, draining'[w], ~done' PROVE replacing'[w]
  BY DEF DrainsReplaced
<1>0. /\ TypeInv /\ WorkersTyped /\ ProcsTyped
      /\ DrainsReplaced /\ (\A v \in Workers : closing[v] => done)
  BY Parts, CloseMeansDone DEF OneInv
<1>1. ~done /\ (draining[w] => replacing[w])
  BY <1>0, DoneStays DEF DrainsReplaced
<1>2. \/ UNCHANGED <<draining, replacing>>
      \/ \E j \in Jobs : Repair(j) \/ Release(j)
      \/ \E r \in Replacers : Publish(r) \/ GiveBack(r)
  BY DEF Next, Construct, NewWorker, NewWorkerFails, FillSlots, Signal, Close, Shutdown,
     Submit, JobStep, GiveUp, Receive, NoteTaken, TryRefused, TryFirst, HealthOk, HealthFails,
     Commit, SolveFails, LoadCount, StoreCount, SlotStep, NoteQueued, Send, Abandon,
     ReplaceStep, LaunchOk, LaunchFails, Reap, BrowserAges, Exited, vars, workerVars
<1>3. ASSUME NEW j \in Jobs, Repair(j) \/ Release(j) PROVE replacing'[w]
  <2>1. worker[j] \in Workers
    BY <1>0, <1>3, HasWorker, ProcFacts DEF Repair, Release
  <2>2. activeTabs[worker[j]] \in 0..1
    BY <1>0, <2>1 DEF WorkersTyped
  <2>3. \/ UNCHANGED <<draining, replacing>>
        \/ /\ draining' = [draining EXCEPT ![worker[j]] = TRUE]
           /\ \/ replacing' = [replacing EXCEPT ![worker[j]] = TRUE]
              \/ UNCHANGED replacing /\ replacing[worker[j]]
    BY <1>3, <2>2 DEF Repair, Release, StartReplacement, Retires, Dec
  <2> QED BY <1>0, <1>1, <2>1, <2>3 DEF WorkersTyped
<1>4. ASSUME NEW r \in Replacers, Publish(r) \/ GiveBack(r) PROVE replacing'[w]
  <2>1. worker[r] \in Workers
    BY <1>0, <1>4, HasWorker, ProcFacts DEF Publish, GiveBack
  <2>2. /\ draining' = [draining EXCEPT ![worker[r]] = FALSE]
        /\ replacing' = [replacing EXCEPT ![worker[r]] = FALSE]
    BY <1>0, <1>1, <1>4, <2>1 DEF Publish, GiveBack
  <2> QED BY <1>0, <1>1, <2>1, <2>2 DEF WorkersTyped
<1> QED BY <1>1, <1>2, <1>3, <1>4

(* A request at the health check got there by TryFirst and remembers what    *)
(* it found. *)
LEMMA ProbeEffects ==
  ASSUME PoolInv, [Next]_vars, NEW j \in Jobs, pc'[j] \in {"health", "repair"}
  PROVE  \/ TryFirst(j)
         \/ /\ pc[j] \in {"health", "repair"}
            /\ old'[j] = old[j] /\ worker'[j] = worker[j]
<1>0. ProcsTyped
  BY Parts
<1> USE PoolAssumption, ProcFacts DEF Procs
<1>1. CASE UNCHANGED vars \/ Exited \/ \E w \in Workers : BrowserAges(w)
  BY <1>1 DEF Exited, BrowserAges, vars, procVars
<1>2. CASE NewWorker \/ NewWorkerFails \/ FillSlots \/ Signal \/ Close \/ Shutdown
  BY <1>2 DEF NewWorker, NewWorkerFails, FillSlots, Signal, Close, Shutdown, procVars
<1>3. ASSUME NEW i \in Jobs, Submit(i)
      PROVE  pc[j] \in {"health", "repair"} /\ old'[j] = old[j] /\ worker'[j] = worker[j]
  BY <1>0, <1>3 DEF Submit, Goto, ProcsTyped
<1>4. ASSUME NEW i \in Jobs, GiveUp(i)
      PROVE  pc[j] \in {"health", "repair"} /\ old'[j] = old[j] /\ worker'[j] = worker[j]
  BY <1>0, <1>4 DEF GiveUp, Goto, ProcsTyped
<1>5. ASSUME NEW i \in Jobs, Receive(i)
      PROVE  pc[j] \in {"health", "repair"} /\ old'[j] = old[j] /\ worker'[j] = worker[j]
  BY <1>0, <1>5 DEF Receive, Goto, ProcsTyped
<1>6. ASSUME NEW i \in Jobs, NoteTaken(i)
      PROVE  pc[j] \in {"health", "repair"} /\ old'[j] = old[j] /\ worker'[j] = worker[j]
  BY <1>0, <1>6 DEF NoteTaken, Goto, ProcsTyped
<1>7. ASSUME NEW i \in Jobs, TryRefused(i)
      PROVE  pc[j] \in {"health", "repair"} /\ old'[j] = old[j] /\ worker'[j] = worker[j]
  BY <1>0, <1>7 DEF TryRefused, Goto, ProcsTyped
<1>8. ASSUME NEW i \in Jobs, HealthOk(i)
      PROVE  pc[j] \in {"health", "repair"} /\ old'[j] = old[j] /\ worker'[j] = worker[j]
  BY <1>0, <1>8 DEF HealthOk, Goto, ProcsTyped
<1>9. ASSUME NEW i \in Jobs, HealthFails(i)
      PROVE  pc[j] \in {"health", "repair"} /\ old'[j] = old[j] /\ worker'[j] = worker[j]
  BY <1>0, <1>9 DEF HealthFails, Goto, ProcsTyped
<1>10. ASSUME NEW i \in Jobs, Repair(i)
      PROVE  pc[j] \in {"health", "repair"} /\ old'[j] = old[j] /\ worker'[j] = worker[j]
  BY <1>0, <1>10 DEF Repair, Goto, ProcsTyped, StartReplacement, IdleReplacers
<1>11. ASSUME NEW i \in Jobs, Commit(i)
      PROVE  pc[j] \in {"health", "repair"} /\ old'[j] = old[j] /\ worker'[j] = worker[j]
  BY <1>0, <1>11 DEF Commit, Goto, ProcsTyped
<1>12. ASSUME NEW i \in Jobs, SolveFails(i)
      PROVE  pc[j] \in {"health", "repair"} /\ old'[j] = old[j] /\ worker'[j] = worker[j]
  BY <1>0, <1>12 DEF SolveFails, Goto, ProcsTyped
<1>13. ASSUME NEW i \in Jobs, LoadCount(i)
      PROVE  pc[j] \in {"health", "repair"} /\ old'[j] = old[j] /\ worker'[j] = worker[j]
  BY <1>0, <1>13 DEF LoadCount, Goto, ProcsTyped
<1>14. ASSUME NEW i \in Jobs, StoreCount(i)
      PROVE  pc[j] \in {"health", "repair"} /\ old'[j] = old[j] /\ worker'[j] = worker[j]
  BY <1>0, <1>14 DEF StoreCount, Goto, ProcsTyped
<1>15. ASSUME NEW i \in Jobs, Release(i)
      PROVE  pc[j] \in {"health", "repair"} /\ old'[j] = old[j] /\ worker'[j] = worker[j]
  BY <1>0, <1>15 DEF Release, Goto, ProcsTyped, StartReplacement, IdleReplacers
<1>16. ASSUME NEW i \in Jobs, TryFirst(i), i # j
      PROVE  pc[j] \in {"health", "repair"} /\ old'[j] = old[j] /\ worker'[j] = worker[j]
  BY <1>0, <1>16 DEF TryFirst, Goto, ProcsTyped
<1>17. ASSUME NEW p \in Procs, NoteQueued(p)
      PROVE  pc[j] \in {"health", "repair"} /\ old'[j] = old[j] /\ worker'[j] = worker[j]
  BY <1>0, <1>17 DEF NoteQueued, Goto, AfterSlots, ProcsTyped
<1>18. ASSUME NEW p \in Procs, Send(p)
      PROVE  pc[j] \in {"health", "repair"} /\ old'[j] = old[j] /\ worker'[j] = worker[j]
  BY <1>0, <1>18 DEF Send, Goto, AfterSlots, ProcsTyped
<1>19. ASSUME NEW p \in Procs, Abandon(p)
      PROVE  pc[j] \in {"health", "repair"} /\ old'[j] = old[j] /\ worker'[j] = worker[j]
  BY <1>0, <1>19 DEF Abandon, Goto, AfterSlots, ProcsTyped
<1>20. ASSUME NEW r \in Replacers, LaunchOk(r)
      PROVE  pc[j] \in {"health", "repair"} /\ old'[j] = old[j] /\ worker'[j] = worker[j]
  BY <1>0, <1>20 DEF LaunchOk, Goto, ProcsTyped
<1>21. ASSUME NEW r \in Replacers, LaunchFails(r)
      PROVE  pc[j] \in {"health", "repair"} /\ old'[j] = old[j] /\ worker'[j] = worker[j]
  BY <1>0, <1>21 DEF LaunchFails, Goto, ProcsTyped
<1>22. ASSUME NEW r \in Replacers, Publish(r)
      PROVE  pc[j] \in {"health", "repair"} /\ old'[j] = old[j] /\ worker'[j] = worker[j]
  BY <1>0, <1>22 DEF Publish, Goto, ProcsTyped, Readvertise
<1>23. ASSUME NEW r \in Replacers, GiveBack(r)
      PROVE  pc[j] \in {"health", "repair"} /\ old'[j] = old[j] /\ worker'[j] = worker[j]
  BY <1>0, <1>23 DEF GiveBack, Goto, ProcsTyped, Readvertise
<1>24. ASSUME NEW r \in Replacers, Reap(r)
      PROVE  pc[j] \in {"health", "repair"} /\ old'[j] = old[j] /\ worker'[j] = worker[j]
  BY <1>0, <1>24 DEF Reap, Goto, ProcsTyped
<1> QED BY <1>1, <1>2, <1>3, <1>4, <1>5, <1>6, <1>7, <1>8, <1>9, <1>10, <1>11, <1>12,
           <1>13, <1>14, <1>15, <1>16, <1>17, <1>18, <1>19, <1>20, <1>21, <1>22, <1>23,
           <1>24
        DEF Next, Construct, JobStep, SlotStep, ReplaceStep

(* Nobody else can take the browser away from under the health check: that   *)
(* would put the worker's one slot in two places.                            *)
LEMMA StepProbesCurrent ==
  ASSUME TabCap = 1, PoolInv, OneInv, SlotCounts', [Next]_vars
  PROVE  ProbesCurrent'
<1> SUFFICES ASSUME NEW j \in Jobs, pc'[j] \in {"health", "repair"}, ~done'
             PROVE  old'[j] = instance'[worker'[j]]
  BY DEF ProbesCurrent
<1>0. /\ TypeInv /\ TypeInv' /\ PoolInv /\ WorkersTyped /\ ProcsTyped /\ Quiet /\ ReplacingOwned
      /\ SlotCounts /\ ProbesCurrent /\ CloseIsDone
  BY Parts, StepTypeInv DEF OneInv
<1>1. ~done
  BY DoneStays
<1> USE ProcFacts
<1>2. CASE TryFirst(j)
  BY <1>0, <1>2 DEF TryFirst, Goto, ProcsTyped, workerVars
<1>3. CASE ~TryFirst(j)
  <2>1. /\ pc[j] \in {"health", "repair"} /\ old'[j] = old[j] /\ worker'[j] = worker[j]
        /\ old[j] = instance[worker[j]]
    BY <1>0, <1>1, <1>3, ProbeEffects DEF ProbesCurrent
  <2>2. PICK v \in Workers : v = worker[j]
    BY <1>0, <2>1, HasWorker
  <2>3. One(j \in At(Holding, v)) = 1 /\ One(j \in At(Holding, v)') = 1
    BY <2>1, <2>2 DEF At, Holding, One
  <2>4. ~replacing[v]
    BY <1>0, <2>2, <2>3, HereBound, OneNat DEF Here, One
  <2>5. ~replacing'[v]
    <3>1. IsFiniteSet(At(Holding, v)') /\ SlotSum(v)' <= 1
      BY DEF SlotCounts, SlotsFinite, AtMostOne
    <3>2. Cardinality(At(Holding, v)') \in Nat /\ Cardinality(At(Holding, v)') > 0
      BY <2>1, <2>2, <3>1, SetLeave DEF At, Holding
    <3>3. activeTabs'[v] \in Nat /\ advertisedSlots'[v] \in Nat
      BY <1>0, PoolAssumption DEF TypeInv, TypeOK, WorkersTyped
    <3>4. SlotSum(v)' = activeTabs'[v] + advertisedSlots'[v] + One(replacing'[v])
                          + Cardinality(At(Holding, v)')
      BY DEF SlotSum, Count
    <3> QED BY <3>1, <3>2, <3>3, <3>4 DEF One
  <2>6. instance'[v] = instance[v]
    <3>1. CASE SameOwners
      BY <3>1 DEF SameOwners
    <3>2. ASSUME NEW w \in Workers, NEW r \in Replacers, Starts(w, r)
          PROVE  instance'[v] = instance[v]
      BY <1>0, <2>5, <3>2 DEF Starts, WorkersTyped
    <3>3. CASE NewWorker \/ FillSlots
      BY <1>0, <2>1, <3>3 DEF NewWorker, FillSlots, Quiet
    <3>4. CASE Shutdown
      BY <1>0, <1>1, <3>4 DEF Shutdown, CloseIsDone
    <3>5. ASSUME NEW r \in Replacers, LaunchOk(r) \/ Reap(r) PROVE instance'[v] = instance[v]
      BY <3>5 DEF LaunchOk, Reap, workerVars
    <3>6. ASSUME NEW r \in Replacers, Publish(r) \/ GiveBack(r) PROVE instance'[v] = instance[v]
      <4>1. worker[r] # v
        BY <1>0, <2>4, <3>6 DEF ReplacingOwned, Settling, Publish, GiveBack
      <4> QED BY <1>0, <3>6, <4>1 DEF Publish, GiveBack, WorkersTyped
    <3> QED BY <3>1, <3>2, <3>3, <3>4, <3>5, <3>6, StepEffects DEF Effects
  <2> QED BY <2>1, <2>2, <2>6
<1> QED BY <1>2, <1>3

(* No slot anywhere before NewPool has built a worker. *)
LEMMA InitOne == Init => OneInv
<1> SUFFICES ASSUME Init PROVE OneInv
  OBVIOUS
<1>1. ASSUME NEW w \in Workers PROVE IsFiniteSet(At(Holding, w)) /\ SlotSum(w) = 0
  <2>1. At(Holding, w) = {}
    BY DEF Init, At, Holding
  <2>2. IsFiniteSet(At(Holding, w)) /\ Count(Holding, w) = 0
    BY <2>1, FS_EmptySet DEF Count
  <2> QED BY <2>2 DEF Init, SlotSum, One
<1>2. \A w \in Workers : ~Built(w)
  BY DEF Init, Built, Workers
<1>3. SlotCounts
  BY <1>1, <1>2 DEF SlotCounts, SlotsFinite, AtMostOne, NoneBeforeBuilt, OneWhileOpen
<1>4. DrainsReplaced /\ ProbesCurrent /\ CloseIsDone
  BY ProcFacts DEF Init, DrainsReplaced, ProbesCurrent, CloseIsDone
<1> QED BY <1>3, <1>4 DEF OneInv

(* The parts of OneInv together are inductive. *)
LEMMA StepOneInv ==
  ASSUME TabCap = 1
  PROVE  PoolInv /\ SlotInv /\ OneInv /\ [Next]_vars => OneInv'
BY StepSlotCounts, StepDrainsReplaced, StepProbesCurrent, StepCloseIsDone DEF OneInv

(* The one slot of a worker of an open pool is in use, in the channel or on  *)
(* its way there, with a replacement, or with the request that tries it:     *)
(* with one tab per browser no slot is ever lost and none appears twice.     *)
THEOREM SlotNeverLost ==
  ASSUME TabCap = 1
  PROVE  Spec => []SlotConserved
<1>1. OneInv => SlotConserved
  BY DEF OneInv, SlotCounts, OneWhileOpen, SlotConserved, SlotSum, Count, Holding, One
<1> QED BY InitOne, InitSlots, StepSlotInv, StepOneInv, PoolInvHolds, <1>1, PTL DEF Spec

(* Two tokens of one worker at two places count as two. *)
LEMMA QueuedOnce ==
  ASSUME NEW s \in Seq(Workers), NEW k \in DOMAIN s, NEW l \in DOMAIN s, k # l,
         s[k] = s[l]
  PROVE  Queued(s, s[k]) > 1
<1> DEFINE S == {i \in DOMAIN s : s[i] = s[k]}
<1>1. IsFiniteSet(S) /\ k \in S /\ l \in S \ {k}
  BY QueuedNat
<1>2. Queued(s, s[k]) = Cardinality(S)
  BY DEF Queued
<1> HIDE DEF S
<1>3. IsFiniteSet(S \ {k}) /\ Cardinality(S \ {k}) = Cardinality(S) - 1 /\ Cardinality(S) \in Nat
  BY <1>1, SetLeave
<1>4. Cardinality(S \ {k}) > 0
  BY <1>1, <1>3, SetLeave
<1> QED BY <1>2, <1>3, <1>4

(* Every token in the channel is of another worker than the one p sends. *)
LEMMA RoomToSend ==
  ASSUME TabCap = 1, PoolInv, SlotInv, OneInv, NEW p \in Procs, pc[p] = "send"
  PROVE  Len(available) < Capacity
<1>0. /\ TypeInv /\ ChannelTyped /\ SlotCounts
      /\ \A w \in Workers : IsFiniteSet(At(Passing, w))
  BY Parts DEF OneInv, SlotInv
<1>1. PICK v \in Workers : v = worker[p]
  BY <1>0, HasWorker
<1>2. ASSUME NEW w \in Workers
      PROVE  /\ Queued(available, w) \in Nat /\ Queued(available, w) <= 1
             /\ w = v => Queued(available, w) = 0
  <2>1. Queued(available, w) \in Nat
    BY <1>0, QueuedNat DEF ChannelTyped
  <2>2. Count(Passing, w) \in Nat
    BY <1>0, FS_CardinalityType DEF Count
  <2>3. w = v => Count(Passing, w) > 0
    <3>1. w = v => p \in At(Passing, w)
      BY <1>1 DEF At, Passing
    <3> QED BY <1>0, <3>1, SetLeave DEF Count
  <2>4. advertisedSlots[w] \in Nat /\ advertisedSlots[w] <= 1
    <3>1. /\ Here(p, w) \in Nat /\ Here(p, w) <= 1
          /\ activeTabs[w] \in Nat /\ advertisedSlots[w] \in Nat
      BY <1>0, HereBound
    <3> QED BY <3>1, OneNat DEF Here
  <2>5. advertisedSlots[w] = Queued(available, w) + Count(Passing, w)
    BY ExactSum DEF SlotInv
  <2> QED BY <2>1, <2>2, <2>3, <2>4, <2>5
<1> DEFINE K == 1..Len(available)
           T == Workers \ {v}
           f == [k \in K |-> available[k]]
<1>3. /\ available \in Seq(Workers) /\ Len(available) \in Nat /\ DOMAIN available = K
      /\ \A k \in K : available[k] \in Workers
  BY <1>0 DEF ChannelTyped
<1>4. ASSUME NEW k \in K PROVE available[k] # v
  <2>1. IsFiniteSet({i \in DOMAIN available : available[i] = v})
    BY <1>3, QueuedNat
  <2>2. available[k] = v => Queued(available, v) > 0
    BY <1>3, <1>4, <2>1, SetLeave DEF Queued
  <2> QED BY <1>2, <2>2
<1>5. ASSUME NEW k \in K, NEW l \in K, available[k] = available[l] PROVE k = l
  <2>1. k # l => Queued(available, available[k]) > 1
    BY <1>3, <1>5, QueuedOnce
  <2> QED BY <1>2, <1>3, <1>5, <2>1
<1>6. f \in Injection(K, T)
  BY <1>3, <1>4, <1>5 DEF Injection, IsInjective
<1>7. IsFiniteSet(Workers) /\ Cardinality(Workers) = PoolSize
  <2>1. /\ IsFiniteSet(1..PoolSize)
        /\ Cardinality(1..PoolSize) = IF 1 > PoolSize THEN 0 ELSE PoolSize - 1 + 1
    BY PoolAssumption, FS_Interval
  <2> QED BY <2>1, PoolAssumption DEF Workers
<1>8. IsFiniteSet(T) /\ Cardinality(T) = PoolSize - 1
  BY <1>7, SetLeave
<1>9. IsFiniteSet(K) /\ Cardinality(K) = Len(available)
  <2>1. IsFiniteSet(K) /\ Cardinality(K) = IF 1 > Len(available) THEN 0 ELSE Len(available) - 1 + 1
    BY <1>3, FS_Interval
  <2> QED BY <1>3, <2>1
<1> HIDE DEF K, T, f
<1>10. Cardinality(K) <= Cardinality(T)
  BY <1>6, <1>8, FS_Injection
<1>11. Capacity = PoolSize
  BY PoolAssumption DEF Capacity
<1> QED BY <1>3, <1>8, <1>9, <1>10, <1>11, PoolAssumption

(* With one tab per browser addSlots never waits for room in the channel,    *)
(* however many workers there are: the token it sends is in no other place.  *)
THEOREM SendFindsRoom ==
  ASSUME TabCap = 1
  PROVE  Spec => []SendNeverBlocks
<1>1. PoolInv /\ SlotInv /\ OneInv => SendNeverBlocks
  BY RoomToSend DEF SendNeverBlocks
<1> QED BY InitOne, InitSlots, StepSlotInv, StepOneInv, PoolInvHolds, <1>1, PTL DEF Spec

-----------------------------------------------------------------------------
(* Any number of tabs per browser: no worker of an open pool is forgotten.   *)

(* Goroutine p will use worker w, or give it a token.  The health check of a *)
(* browser the worker no longer has leads nowhere (tryAcq, pool.go:177).     *)
Brings(p, w) ==
  /\ worker[p] = w
  /\ \/ pc[p] \in {"taken", "try", "commit", "note", "send"}
     \/ pc[p] \in {"health", "repair"} /\ old[p] = instance[w]

(* Somebody uses worker w, replaces its browser, can take it from the        *)
(* channel, or is on the way to do so.                                       *)
Tended(w) ==
  \/ activeTabs[w] > 0
  \/ replacing[w]
  \/ \E k \in DOMAIN available : available[k] = w
  \/ \E p \in Procs : Brings(p, w)

(* Every worker in service is tended.                                        *)
AllTended == \A w \in Workers : Built(w) /\ ~done /\ ~draining[w] => Tended(w)

TendInv == AllTended /\ CloseIsDone

(* A slot that is advertised is in the channel or on its way from or to it. *)
LEMMA AdvertisedTended ==
  ASSUME PoolInv, SlotInv, NEW w \in Workers, advertisedSlots[w] > 0
  PROVE  \/ \E k \in DOMAIN available : available[k] = w
         \/ \E p \in Procs : worker[p] = w /\ pc[p] \in {"taken", "send"}
<1>1. advertisedSlots[w] = Queued(available, w) + Count(Passing, w)
  BY ExactSum DEF SlotInv
<1> SUFFICES ASSUME \A k \in DOMAIN available : available[k] # w,
                    \A p \in Procs : ~(worker[p] = w /\ pc[p] \in {"taken", "send"})
             PROVE  FALSE
  OBVIOUS
<1>2. {k \in DOMAIN available : available[k] = w} = {} /\ At(Passing, w) = {}
  BY DEF At, Passing
<1>3. Queued(available, w) = 0 /\ Count(Passing, w) = 0
  BY <1>2, FS_EmptySet DEF Queued, Count
<1> QED BY <1>1, <1>3

(* One goroutine moves, and does not take a worker's last hold from it.      *)
LEMMA TendedOn ==
  ASSUME NEW w \in Workers, NEW p \in Procs, Tended(w),
         \A q \in Procs : q # p => /\ pc'[q] = pc[q] /\ worker'[q] = worker[q]
                                   /\ old'[q] = old[q],
         instance'[w] = instance[w],
         activeTabs[w] > 0 => Tended(w)',
         replacing[w] => Tended(w)',
         (\E k \in DOMAIN available : available[k] = w) => Tended(w)',
         Brings(p, w) => Tended(w)'
  PROVE  Tended(w)'
<1>1. ASSUME NEW q \in Procs, q # p, Brings(q, w) PROVE Brings(q, w)'
  BY <1>1 DEF Brings
<1> QED BY <1>1 DEF Tended

(* A worker in service that tryAcq refuses, or whose slot relWorker does not *)
(* advertise, has another hold.                                              *)
LEMMA UnusableTended ==
  ASSUME PoolInv, CloseIsDone, ~done, NEW w \in Workers, Built(w), ~draining[w], Unusable(w)
  PROVE  activeTabs[w] > 0 \/ replacing[w]
<1>1. ~closing[w]
  BY CloseMeansDone
<1>2. activeTabs[w] \in Nat
  BY Parts, PoolAssumption DEF WorkersTyped
<1> QED BY <1>1, <1>2, Parts, PoolAssumption DEF Unusable, ReplacingOwned

(* Every step leaves the workers in service tended. *)
LEMMA StepAllTended == PoolInv /\ SlotInv /\ TendInv /\ [Next]_vars => AllTended'
<1> SUFFICES ASSUME PoolInv, SlotInv, TendInv, [Next]_vars,
                    NEW w \in Workers, Built(w)', ~done', ~draining'[w]
             PROVE  Tended(w)'
  BY DEF AllTended
<1>0. /\ TypeInv /\ ChannelTyped /\ WorkersTyped /\ MainTyped /\ ProcsTyped /\ Quiet
      /\ WorkerWhereNeeded /\ BrowserWhereNeeded /\ TabsHoldBrowser /\ ReplacingOwned
      /\ CloseIsDone
  BY Parts DEF TendInv
<1>1. ~done /\ ~closing[w]
  <2>1. ~done
    BY DoneStays
  <2> QED BY <1>0, <2>1, CloseMeansDone
<1> USE PoolAssumption, ProcFacts
<1>2. Built(w) /\ ~draining[w] => Tended(w)
  BY <1>1 DEF TendInv, AllTended
<1>3. CASE UNCHANGED vars \/ Exited \/ \E v \in Workers : BrowserAges(v)
  <2>1. UNCHANGED <<available, workerVars, procVars, mainVars>>
    BY <1>3 DEF Exited, BrowserAges, vars
  <2> QED BY <1>2, <2>1 DEF Built, Tended, Brings, workerVars, procVars, mainVars
<1>4. CASE NewWorkerFails \/ Signal \/ Close \/ Shutdown
  BY <1>0, <1>1, <1>4 DEF NewWorkerFails, Signal, Close, Shutdown, CloseIsDone
<1>5. CASE NewWorker
  <2>1. /\ main = "launch" /\ cursor \in Workers
        /\ \A v \in Workers : v # cursor => instance'[v] = instance[v]
        /\ UNCHANGED <<available, activeTabs, replacing, draining, cursor, pc, worker, old>>
        /\ main' = "fill"
    BY <1>0, <1>5 DEF NewWorker, MainTyped, WorkersTyped, procVars
  <2>2. w < cursor /\ Built(w)
    BY <2>1 DEF Built
  <2>3. w # cursor
    BY <2>1, <2>2, WorkerFacts
  <2> QED BY <1>2, <2>1, <2>2, <2>3 DEF Tended, Brings
<1>6. CASE FillSlots
  <2>1. /\ available' = available \o [k \in 1..TabCap |-> cursor]
        /\ cursor \in Workers /\ main = "fill"
        /\ UNCHANGED <<activeTabs, replacing, draining, instance, pc, worker, old>>
    BY <1>0, <1>1, <1>6 DEF FillSlots, MainTyped, procVars
  <2>2. /\ Len(available) \in Nat /\ DOMAIN available = 1..Len(available)
        /\ DOMAIN available' = 1..Len(available) + TabCap
        /\ \A k \in 1..Len(available) : available'[k] = available[k]
        /\ available'[Len(available) + 1] = cursor
    <3>1. [k \in 1..TabCap |-> cursor] \in Seq(Workers) /\ Len([k \in 1..TabCap |-> cursor]) = TabCap
      BY <2>1, Repeated
    <3> QED BY <1>0, <2>1, <3>1, ConcatProperties DEF ChannelTyped
  <2>3. CASE w = cursor
    BY <2>2, <2>3 DEF Tended
  <2>4. CASE w # cursor
    <3>1. w < cursor
      <4>1. cursor \in Nat /\ w \in Nat /\ w <= PoolSize
        BY <2>1, WorkerFacts
      <4>2. CASE cursor = PoolSize
        BY <2>4, <4>1, <4>2
      <4>3. CASE cursor # PoolSize
        BY <1>6, <2>4, <4>1, <4>3 DEF FillSlots, Built
      <4> QED BY <4>2, <4>3
    <3>2. Built(w)
      BY <3>1 DEF Built
    <3> QED BY <1>2, <2>1, <2>2, <3>2 DEF Tended, Brings
  <2> QED BY <2>3, <2>4
<1>7. ASSUME NEW p \in Procs, pc[p] # "idle" PROVE \A v \in Workers : Built(v)
  BY <1>0, <1>7 DEF Quiet, Built
<1>8. ASSUME NEW j \in Jobs, Submit(j) PROVE Tended(w)'
  <2>1. /\ UNCHANGED <<available, activeTabs, replacing, draining, instance, worker, old, main, cursor>>
        /\ \A q \in Procs : q # j => pc'[q] = pc[q]
        /\ pc[j] = "idle"
    BY <1>0, <1>8 DEF Submit, Goto, ProcsTyped, workerVars, mainVars
  <2>2. Built(w)
    BY <2>1 DEF Built
  <2> QED BY <1>2, <2>1, <2>2, TendedOn DEF Tended, Brings
<1>9. ASSUME NEW j \in Jobs, GiveUp(j) PROVE Tended(w)'
  <2>1. /\ UNCHANGED <<available, activeTabs, replacing, draining, instance, worker, old>>
        /\ \A q \in Procs : q # j => pc'[q] = pc[q]
        /\ pc[j] = "acquire"
    BY <1>0, <1>9 DEF GiveUp, Goto, ProcsTyped, workerVars
  <2> QED BY <1>2, <1>7, <2>1, TendedOn DEF Tended, Brings
<1>10. ASSUME NEW j \in Jobs, Receive(j) PROVE Tended(w)'
  <2>1. /\ pc[j] = "acquire" /\ available # <<>> /\ available' = Tail(available)
        /\ pc'[j] = "taken" /\ worker'[j] = Head(available)
        /\ UNCHANGED <<activeTabs, replacing, draining, instance, old>>
        /\ \A q \in Procs : q # j => pc'[q] = pc[q] /\ worker'[q] = worker[q]
    BY <1>0, <1>10 DEF Receive, Goto, ProcsTyped, workerVars
  <2>2. /\ Len(available) \in Nat \ {0} /\ DOMAIN available = 1..Len(available)
        /\ DOMAIN available' = 1..Len(available) - 1 /\ Head(available) = available[1]
        /\ \A k \in 1..Len(available) - 1 : available'[k] = available[k + 1]
    BY <1>0, <2>1, HeadTailProperties, EmptySeq DEF ChannelTyped
  <2>3. ASSUME NEW k \in DOMAIN available, available[k] = w PROVE Tended(w)'
    <3>1. CASE k = 1
      BY <2>1, <2>2, <2>3, <3>1 DEF Tended, Brings
    <3>2. CASE k # 1
      <4>1. k - 1 \in DOMAIN available' /\ available'[k - 1] = w
        BY <2>2, <2>3, <3>2
      <4> QED BY <4>1 DEF Tended
    <3> QED BY <3>1, <3>2
  <2>4. ~Brings(j, w)
    BY <2>1 DEF Brings
  <2>5. (activeTabs[w] > 0 => Tended(w)') /\ (replacing[w] => Tended(w)')
    BY <2>1 DEF Tended
  <2> QED BY <1>2, <1>7, <2>1, <2>3, <2>4, <2>5, TendedOn
<1>11. ASSUME NEW j \in Jobs, NoteTaken(j) PROVE Tended(w)'
  <2>1. /\ UNCHANGED <<available, activeTabs, replacing, draining, instance, worker, old>>
        /\ \A q \in Procs : q # j => pc'[q] = pc[q]
        /\ pc[j] = "taken" /\ pc'[j] = "try"
    BY <1>0, <1>11 DEF NoteTaken, Goto, ProcsTyped
  <2> QED BY <1>2, <1>7, <2>1, TendedOn DEF Tended, Brings
<1>12. ASSUME NEW j \in Jobs, TryRefused(j) PROVE Tended(w)'
  <2>1. /\ UNCHANGED <<available, activeTabs, replacing, draining, instance, old>>
        /\ \A q \in Procs : q # j => pc'[q] = pc[q] /\ worker'[q] = worker[q]
        /\ pc[j] \in {"try", "commit"}
    BY <1>0, <1>12 DEF TryRefused, Goto, ProcsTyped, workerVars
  <2>2. Built(w) /\ Tended(w)
    BY <1>2, <1>7, <2>1
  <2>3. (activeTabs[w] > 0 => Tended(w)') /\ (replacing[w] => Tended(w)')
    BY <2>1 DEF Tended
  <2>4. worker[j] = w => activeTabs[w] > 0 \/ replacing[w]
    BY <1>0, <1>1, <1>12, <2>1, <2>2, UnusableTended DEF TryRefused
  <2>5. (\E k \in DOMAIN available : available[k] = w) => Tended(w)'
    BY <2>1 DEF Tended
  <2>6. Brings(j, w) => Tended(w)'
    BY <2>3, <2>4 DEF Brings
  <2> QED BY <2>1, <2>2, <2>3, <2>5, <2>6, TendedOn
<1>13. ASSUME NEW j \in Jobs, TryFirst(j) PROVE Tended(w)'
  <2>1. /\ UNCHANGED <<available, activeTabs, replacing, draining, instance, worker>>
        /\ \A q \in Procs : q # j => pc'[q] = pc[q] /\ old'[q] = old[q]
        /\ pc[j] = "try"
        /\ pc'[j] = "commit" \/ (pc'[j] = "health" /\ old'[j] = instance[worker[j]])
    BY <1>0, <1>13 DEF TryFirst, Goto, ProcsTyped, workerVars
  <2>2. Brings(j, w) => Brings(j, w)'
    BY <2>1 DEF Brings
  <2> QED BY <1>2, <1>7, <2>1, <2>2, TendedOn DEF Tended
<1>14. ASSUME NEW j \in Jobs, HealthOk(j) \/ HealthFails(j) PROVE Tended(w)'
  <2>1. /\ UNCHANGED <<available, activeTabs, replacing, draining, instance, worker>>
        /\ \A q \in Procs : q # j => pc'[q] = pc[q] /\ old'[q] = old[q]
        /\ pc[j] = "health"
        /\ pc'[j] = "commit" \/ (pc'[j] = "repair" /\ old'[j] = old[j])
    BY <1>0, <1>14 DEF HealthOk, HealthFails, Goto, ProcsTyped, workerVars
  <2>2. Brings(j, w) => Brings(j, w)'
    BY <2>1 DEF Brings
  <2> QED BY <1>2, <1>7, <2>1, <2>2, TendedOn DEF Tended
<1>15. ASSUME NEW j \in Jobs, Repair(j) PROVE Tended(w)'
  <2>1. pc[j] = "repair" /\ worker[j] \in Workers /\ Built(w)
        /\ UNCHANGED <<available, activeTabs>>
    BY <1>0, <1>7, <1>15, HasWorker DEF Repair
  <2>2. CASE RepairRefused(worker[j], old[j])
    <3>1. /\ UNCHANGED <<replacing, draining, instance>>
          /\ \A q \in Procs : q # j => pc'[q] = pc[q] /\ worker'[q] = worker[q] /\ old'[q] = old[q]
      BY <1>0, <1>15, <2>2 DEF Repair, Goto, ProcsTyped
    <3>2. (activeTabs[w] > 0 => Tended(w)') /\ (replacing[w] => Tended(w)')
          /\ ((\E k \in DOMAIN available : available[k] = w) => Tended(w)')
      BY <2>1, <3>1 DEF Tended
    <3>3. Brings(j, w) => activeTabs[w] > 0 \/ replacing[w]
      <4>1. activeTabs[w] \in Nat
        BY <1>0 DEF WorkersTyped
      <4> QED BY <1>1, <2>1, <2>2, <4>1 DEF Brings, RepairRefused
    <3> QED BY <1>2, <2>1, <3>1, <3>2, <3>3, TendedOn
  <2>3. CASE ~RepairRefused(worker[j], old[j])
    <3>1. PICK r \in Replacers :
            /\ pc[r] = "idle"
            /\ pc' = [pc EXCEPT ![j] = "acquire", ![r] = "launch"]
            /\ worker' = [worker EXCEPT ![j] = NoWorker, ![r] = worker[j]]
            /\ old' = [old EXCEPT ![j] = NoInst, ![r] = instance[worker[j]]]
      BY <1>15, <2>3 DEF Repair, StartReplacement, IdleReplacers
    <3>2. /\ draining' = [draining EXCEPT ![worker[j]] = TRUE]
          /\ replacing' = [replacing EXCEPT ![worker[j]] = TRUE]
          /\ instance' = [instance EXCEPT ![worker[j]] = NoInst]
      BY <1>15, <2>3 DEF Repair, StartReplacement
    <3>3. worker[j] # w
      BY <1>0, <2>1, <3>2 DEF WorkersTyped
    <3>4. /\ draining'[w] = draining[w] /\ replacing'[w] = replacing[w]
          /\ instance'[w] = instance[w]
      BY <1>0, <3>2, <3>3 DEF WorkersTyped
    <3>5. ASSUME NEW q \in Procs, Brings(q, w) PROVE Brings(q, w)'
      <4>1. q # j /\ q # r
        BY <3>1, <3>3, <3>5 DEF Brings
      <4> QED BY <1>0, <3>1, <3>4, <3>5, <4>1 DEF Brings, ProcsTyped
    <3> QED BY <1>2, <2>1, <3>4, <3>5 DEF Tended
  <2> QED BY <2>2, <2>3
<1>16. ASSUME NEW j \in Jobs, Commit(j) PROVE Tended(w)'
  <2>1. /\ UNCHANGED <<available, replacing, draining, instance, worker, old>>
        /\ activeTabs' = [activeTabs EXCEPT ![worker[j]] = @ + 1]
        /\ \A q \in Procs : q # j => pc'[q] = pc[q]
        /\ pc[j] = "commit" /\ worker[j] \in Workers
    BY <1>0, <1>16, HasWorker DEF Commit, Goto, ProcsTyped
  <2>2. activeTabs \in [Workers -> Nat]
    BY <1>0 DEF WorkersTyped
  <2>3. (activeTabs[w] > 0 => activeTabs'[w] > 0) /\ (worker[j] = w => activeTabs'[w] > 0)
    BY <2>1, <2>2
  <2>4. Brings(j, w) => activeTabs'[w] > 0
    BY <2>3 DEF Brings
  <2> QED BY <1>2, <1>7, <2>1, <2>3, <2>4, TendedOn DEF Tended
<1>17. ASSUME NEW j \in Jobs, SolveFails(j) \/ LoadCount(j) \/ StoreCount(j) PROVE Tended(w)'
  <2>1. /\ UNCHANGED <<available, activeTabs, replacing, draining, instance, worker>>
        /\ \A q \in Procs : q # j => pc'[q] = pc[q] /\ old'[q] = old[q]
        /\ pc[j] \in {"solve", "store"}
    BY <1>0, <1>17 DEF SolveFails, LoadCount, StoreCount, Goto, ProcsTyped, workerVars
  <2>2. ~Brings(j, w)
    BY <2>1 DEF Brings
  <2> QED BY <1>2, <1>7, <2>1, <2>2, TendedOn DEF Tended
<1>18. ASSUME NEW j \in Jobs, Release(j) PROVE Tended(w)'
  <2>1. PICK v \in Workers : v = worker[j]
    BY <1>0, <1>18, HasWorker DEF Release
  <2>2. /\ pc[j] = "release" /\ Built(w) /\ ~Brings(j, w)
        /\ UNCHANGED <<available, advertisedSlots>>
        /\ activeTabs' = [activeTabs EXCEPT ![v] = Dec(activeTabs[v])]
    BY <1>7, <1>18, <2>1 DEF Release, Brings
  <2>3. CASE w # v
    <3>1. /\ activeTabs'[w] = activeTabs[w] /\ draining'[w] = draining[w]
          /\ replacing'[w] = replacing[w] /\ instance'[w] = instance[w]
      BY <1>0, <1>18, <2>1, <2>2, <2>3 DEF Release, StartReplacement, WorkersTyped
    <3>2. ASSUME NEW q \in Procs, Brings(q, w) PROVE Brings(q, w)'
      <4>1. q # j /\ pc[q] # "idle"
        BY <2>2, <3>2 DEF Brings
      <4>2. pc'[q] = pc[q] /\ worker'[q] = worker[q] /\ old'[q] = old[q]
        BY <1>0, <1>18, <4>1 DEF Release, StartReplacement, IdleReplacers, Goto, ProcsTyped
      <4> QED BY <3>1, <3>2, <4>2 DEF Brings
    <3> QED BY <1>2, <2>2, <3>1, <3>2 DEF Tended
  <2>4. CASE w = v
    <3> DEFINE tabs == Dec(activeTabs[w])
    <3>1. activeTabs'[w] = tabs /\ tabs \in Nat
      BY <1>0, <2>2, <2>4 DEF WorkersTyped, Dec
    <3>2. instance[w] # NoInst
      <4>1. activeTabs[w] = Cardinality(Leases(w)) /\ IsFiniteSet(Leases(w)) /\ j \in Leases(w)
        BY <2>1, <2>2, <2>4, LeasesFinite, Parts DEF TabsMatchLeases, Leases
      <4>2. activeTabs[w] > 0
        BY <4>1, SetLeave
      <4> QED BY <1>0, <4>2 DEF TabsHoldBrowser
    <3>3. CASE NeedsReplace(instance[w])
      <4>1. draining' = [draining EXCEPT ![w] = TRUE]
        BY <1>1, <1>18, <2>1, <2>4, <3>2, <3>3 DEF Release, StartReplacement
      <4> QED BY <1>0, <4>1 DEF WorkersTyped
    <3>4. CASE ~NeedsReplace(instance[w]) /\ FreeSlot(w, tabs)
      <4>1. pc'[j] = "note" /\ worker'[j] = w
        BY <1>0, <1>18, <2>1, <2>4, <3>4 DEF Release, Goto, ProcsTyped
      <4> QED BY <4>1 DEF Tended, Brings
    <3>5. CASE ~NeedsReplace(instance[w]) /\ ~FreeSlot(w, tabs)
      <4>1. /\ UNCHANGED <<draining, replacing, instance, old>>
            /\ \A q \in Procs : q # j => pc'[q] = pc[q] /\ worker'[q] = worker[q]
        BY <1>0, <1>18, <2>1, <2>4, <3>5 DEF Release, Goto, ProcsTyped
      <4>2. tabs > 0 \/ advertisedSlots[w] > 0
        <5>1. advertisedSlots[w] \in Nat
          BY <1>0 DEF WorkersTyped
        <5>2. tabs + advertisedSlots[w] >= TabCap
          BY <1>1, <3>1, <3>2, <3>5, <4>1, <5>1 DEF FreeSlot
        <5> HIDE DEF tabs
        <5> QED BY <3>1, <5>1, <5>2
      <4>3. CASE tabs > 0
        BY <3>1, <4>3 DEF Tended
      <4>4. CASE advertisedSlots[w] > 0
        <5>1. ASSUME NEW p \in Procs, worker[p] = w, pc[p] \in {"taken", "send"}
              PROVE  Brings(p, w)'
          BY <2>2, <4>1, <5>1 DEF Brings
        <5> QED BY <2>2, <4>4, <5>1, AdvertisedTended DEF Tended
      <4> QED BY <4>2, <4>3, <4>4
    <3> QED BY <3>3, <3>4, <3>5
  <2> QED BY <2>3, <2>4
<1>19. ASSUME NEW p \in Procs, NoteQueued(p) PROVE Tended(w)'
  <2>1. /\ UNCHANGED <<available, activeTabs, replacing, draining, instance, worker, old>>
        /\ \A q \in Procs : q # p => pc'[q] = pc[q]
        /\ pc[p] = "note" /\ pc'[p] = "send"
    BY <1>0, <1>19 DEF NoteQueued, Goto, ProcsTyped
  <2> QED BY <1>2, <1>7, <2>1, TendedOn DEF Tended, Brings
<1>20. ASSUME NEW p \in Procs, Send(p) PROVE Tended(w)'
  <2>1. PICK v \in Workers : v = worker[p]
    BY <1>0, <1>20, HasWorker DEF Send
  <2>2. /\ pc[p] = "send" /\ available' = Append(available, v)
        /\ UNCHANGED <<activeTabs, replacing, draining, instance, old>>
        /\ \A q \in Procs : q # p => pc'[q] = pc[q] /\ worker'[q] = worker[q]
    BY <1>0, <1>20, <2>1 DEF Send, Goto, ProcsTyped, workerVars
  <2>3. /\ Len(available) \in Nat /\ DOMAIN available = 1..Len(available)
        /\ DOMAIN available' = 1..Len(available) + 1
        /\ \A k \in 1..Len(available) : available'[k] = available[k]
        /\ available'[Len(available) + 1] = v
    BY <1>0, <2>2, AppendProperties DEF ChannelTyped
  <2>4. Brings(p, w) => Tended(w)'
    BY <2>1, <2>3 DEF Brings, Tended
  <2>5. (\E k \in DOMAIN available : available[k] = w) => Tended(w)'
    BY <2>3 DEF Tended
  <2>6. (activeTabs[w] > 0 => Tended(w)') /\ (replacing[w] => Tended(w)')
    BY <2>2 DEF Tended
  <2> QED BY <1>2, <1>7, <2>2, <2>4, <2>5, <2>6, TendedOn
<1>21. ASSUME NEW p \in Procs, Abandon(p) PROVE Tended(w)'
  BY <1>1, <1>21 DEF Abandon
<1>22. ASSUME NEW r \in Replacers, LaunchOk(r) \/ LaunchFails(r) \/ Reap(r) PROVE Tended(w)'
  <2>1. /\ UNCHANGED <<available, activeTabs, replacing, draining, instance, worker>>
        /\ \A q \in Procs : q # r => pc'[q] = pc[q] /\ old'[q] = old[q]
        /\ pc[r] \in {"launch", "reap"}
    BY <1>0, <1>22 DEF LaunchOk, LaunchFails, Reap, Goto, ProcsTyped, workerVars
  <2>2. ~Brings(r, w)
    BY <2>1 DEF Brings
  <2> QED BY <1>2, <1>7, <2>1, <2>2, TendedOn DEF Tended
<1>23. ASSUME NEW r \in Replacers, Publish(r) \/ GiveBack(r) PROVE Tended(w)'
  <2>1. PICK v \in Workers : v = worker[r]
    BY <1>0, <1>23, HasWorker DEF Publish, GiveBack
  <2>2. /\ pc[r] \in {"publish", "giveback"} /\ Built(w)
        /\ UNCHANGED <<available, activeTabs, advertisedSlots>>
        /\ \A q \in Procs : q # r => pc'[q] = pc[q] /\ worker'[q] = worker[q] /\ old'[q] = old[q]
    <3>1. pc[r] \in {"publish", "giveback"} /\ UNCHANGED <<available, activeTabs, advertisedSlots>>
      BY <1>23 DEF Publish, GiveBack
    <3>2. \A q \in Procs : q # r => pc'[q] = pc[q] /\ worker'[q] = worker[q] /\ old'[q] = old[q]
      BY <1>0, <1>23 DEF Publish, GiveBack, Readvertise, Goto, ProcsTyped
    <3> QED BY <1>7, <3>1, <3>2
  <2>3. CASE w # v
    <3>1. /\ draining'[w] = draining[w]
          /\ replacing'[w] = replacing[w] /\ instance'[w] = instance[w]
      <4>1. draining' = [draining EXCEPT ![v] = FALSE] \/ UNCHANGED draining
        BY <1>23, <2>1 DEF Publish, GiveBack
      <4>2. draining'[w] = draining[w]
        BY <1>0, <2>3, <4>1 DEF WorkersTyped
      <4> QED BY <1>23, <2>1, <2>3, <4>2, FinishEffect
    <3>2. ~Brings(r, w)
      BY <2>2 DEF Brings
    <3>3. /\ activeTabs[w] > 0 => Tended(w)'
          /\ replacing[w] => Tended(w)'
          /\ (\E k \in DOMAIN available : available[k] = w) => Tended(w)'
      BY <2>2, <3>1 DEF Tended
    <3> QED BY <1>2, <2>2, <3>1, <3>2, <3>3, TendedOn
  <2>4. CASE w = v
    <3>1. Readvertise(r, TRUE) \/ Readvertise(r, FALSE)
      BY <1>1, <1>23, <2>1, <2>4 DEF Publish, GiveBack
    <3>2. CASE Remaining(w) > 0
      <4>1. pc'[r] = "note" /\ worker'[r] = w
        BY <1>0, <2>1, <2>4, <3>1, <3>2 DEF Readvertise, Goto, ProcsTyped
      <4> QED BY <4>1 DEF Tended, Brings
    <3>3. CASE ~(Remaining(w) > 0)
      <4>1. activeTabs[w] \in Nat /\ advertisedSlots[w] \in Nat
        BY <1>0 DEF WorkersTyped
      <4>2. activeTabs[w] > 0 \/ advertisedSlots[w] > 0
        BY <3>3, <4>1 DEF Remaining
      <4>3. CASE activeTabs[w] > 0
        BY <2>2, <4>3 DEF Tended
      <4>4. CASE advertisedSlots[w] > 0
        <5>1. ASSUME NEW p \in Procs, worker[p] = w, pc[p] \in {"taken", "send"}
              PROVE  Brings(p, w)'
          BY <2>2, <5>1 DEF Brings
        <5> QED BY <2>2, <4>4, <5>1, AdvertisedTended DEF Tended
      <4> QED BY <4>2, <4>3, <4>4
    <3> QED BY <3>2, <3>3
  <2> QED BY <2>3, <2>4
<1> QED BY <1>3, <1>4, <1>5, <1>6, <1>8, <1>9, <1>10, <1>11, <1>12, <1>13, <1>14, <1>15,
           <1>16, <1>17, <1>18, <1>19, <1>20, <1>21, <1>22, <1>23
        DEF Next, Construct, JobStep, SlotStep, ReplaceStep

(* In an open pool a worker that does not drain and that no goroutine works  *)
(* on has a token in the channel, with any number of tabs per browser: the   *)
(* tokens that are dropped are never the last one.                           *)
THEOREM WorkerNeverForgotten == Spec => []NoWorkerForgotten
<1>1. Init => TendInv
  BY DEF Init, TendInv, AllTended, CloseIsDone, Built, Workers
<1>2. PoolInv /\ SlotInv /\ TendInv /\ [Next]_vars => TendInv'
  BY StepAllTended, StepCloseIsDone DEF TendInv
<1>3. PoolInv /\ TendInv => NoWorkerForgotten
  <2> SUFFICES ASSUME PoolInv, TendInv, NEW w \in Workers, Built(w), ~done, ~draining[w],
                      \A p \in Procs : worker[p] # w
               PROVE  \E k \in DOMAIN available : available[k] = w
    BY DEF NoWorkerForgotten
  <2>1. Tended(w) /\ \A p \in Procs : ~Brings(p, w)
    BY DEF TendInv, AllTended, Brings
  <2>2. ~replacing[w]
    BY Parts, ProcFacts DEF ReplacingOwned
  <2>3. Leases(w) = {}
    BY ProcFacts DEF Leases
  <2>4. activeTabs[w] = 0
    BY <2>3, Parts, FS_EmptySet DEF TabsMatchLeases
  <2> QED BY <2>1, <2>2, <2>4 DEF Tended
<1> QED BY <1>1, <1>2, <1>3, InitSlots, StepSlotInv, PoolInvHolds, PTL DEF Spec

(* With one tab per browser nothing is left of the exception for a worker     *)
(* that drains: it is being replaced, so a worker no goroutine works on does  *)
(* not drain and has a token.  With two a worker can drain for ever.          *)
DrainInHand ==
  ~done => \A w \in Workers :
    draining[w] => \E r \in Replacers : Settling(r) /\ worker[r] = w

(* The safety half of DrainEnds, whose other half is that replaceInst ends.   *)
THEOREM DrainIsReplaced ==
  ASSUME TabCap = 1
  PROVE  Spec => []DrainInHand
<1>1. PoolInv /\ OneInv => DrainInHand
  BY DEF PoolInv, OneInv, DrainsReplaced, ReplacingOwned, DrainInHand
<1> QED BY InitOne, InitSlots, StepSlotInv, StepOneInv, PoolInvHolds, <1>1, PTL DEF Spec

(* Every worker of an open pool that nobody has in hand can be had.           *)
IdleWorkerServes ==
  \A w \in Workers :
    Built(w) /\ ~done /\ (\A p \in Procs : worker[p] # w)
      => \E k \in DOMAIN available : available[k] = w

(* With one tab per browser no worker is ever lost to the pool, whatever      *)
(* health checks, repairs, replacements and deadlines have come to.           *)
THEOREM IdleWorkerCanBeHad ==
  ASSUME TabCap = 1
  PROVE  Spec => []IdleWorkerServes
<1>1. DrainInHand /\ NoWorkerForgotten => IdleWorkerServes
  BY DEF DrainInHand, NoWorkerForgotten, IdleWorkerServes, Procs
<1> QED BY <1>1, DrainIsReplaced, WorkerNeverForgotten, PTL

=============================================================================
