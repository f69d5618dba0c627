---------------------------- MODULE BrowserPool ----------------------------
(***************************************************************************)
(* The browser pool of internal/browser/pool.go: PoolSize workers, each of *)
(* which owns one Chrome and lets at most TabCap requests use it at once.  *)
(*                                                                         *)
(* A slot of a worker is a token in the buffered channel "available".  A   *)
(* request goroutine takes a token (acqWorker), checks the worker          *)
(* (tryAcq), solves, and gives the slot back (relWorker).  A browser that  *)
(* is too old, has solved enough or fails its health check is replaced by  *)
(* a goroutine of its own (replaceInst), which advertises the worker's     *)
(* slots again (addSlots).                                                 *)
(*                                                                         *)
(* Every critical section of worker.mu, every channel operation and every  *)
(* blocking call is one action, so all the places where the Go scheduler   *)
(* can switch goroutines between them are explored.                        *)
(***************************************************************************)
EXTENDS Integers, Sequences, FiniteSets

CONSTANTS
  PoolSize,   (* cfg.PoolSize: the number of workers                       *)
  TabCap,     (* cfg.TabsPerBrowser: the tabs a worker serves at once      *)
  MaxSolves,  (* cfg.BrowserMaxSolves: the solves that retire a browser    *)
  Jobs,       (* request goroutines that can be in flight at once          *)
  Replacers,  (* replaceInst goroutines that can be in flight at once      *)
  Inst,       (* browserInst pointers that can be reachable at once        *)
  NoInst      (* nil                                                       *)

(***************************************************************************)
(* config.DetectConcurrency clamps both sizes to at least 1, and getenvInt *)
(* refuses a solve limit below 1.  Jobs, Replacers and Inst bound the      *)
(* model, not the program.                                                 *)
(***************************************************************************)
ASSUME PoolAssumption ==
  /\ PoolSize \in Nat \ {0}
  /\ TabCap \in Nat \ {0}
  /\ MaxSolves \in Nat \ {0}
  /\ NoInst \notin Inst
  /\ IsFiniteSet(Jobs)
  /\ Jobs \cap Replacers = {}

Workers == 1..PoolSize
NoWorker == 0

Procs == Jobs \cup Replacers

(* make(chan *worker, totalSlots) *)
Capacity == PoolSize * TabCap

(* The counter only meets the test solveCount >= MaxSolves, so values past *)
(* MaxSolves + 1 need not be told apart.                                   *)
CountCap == MaxSolves + 1

VARIABLES
  available,        \* Pool.available, a FIFO of workers
  instance,         \* worker.instance
  activeTabs,       \* worker.activeTabs
  advertisedSlots,  \* worker.advertisedSlots
  closing,          \* worker.closing
  draining,         \* worker.draining
  replacing,        \* worker.replacing
  browser,          \* the browserInst values: process state, age, solveCount
  done,             \* p.ctx is done
  main,             \* where the goroutine that builds and closes the pool is
  cursor,           \* the worker that goroutine is building or closing
  pc,               \* where each goroutine is
  worker,           \* the local w of each goroutine
  old,              \* tryAcq's oldInst, replaceInst's old, the operand of ++
  new,              \* replaceInst's inst
  left,             \* the slots addSlots has still to send
  loaded            \* the value of solveCount that ++ has read

workerVars == <<instance, activeTabs, advertisedSlots, closing, draining, replacing>>
procVars == <<pc, worker, old, new, left, loaded>>
mainVars == <<done, main, cursor>>
vars == <<available, browser, workerVars, procVars, mainVars>>

Labels == {"idle", "acquire", "taken", "try", "health", "repair", "commit",
           "solve", "store", "release", "note", "send",
           "launch", "publish", "giveback", "reap"}

(* open: close() has not been called.  A Chrome process can end at any time *)
(* without it, which the pool only learns from a failed health check, so    *)
(* that check may always fail.  Nobody reads the age and the count of a     *)
(* browser that is closed or not launched yet.                              *)
BrowserRec == [open : BOOLEAN, aged : BOOLEAN, solveCount : 0..CountCap]

ClosedBrowser == [open |-> FALSE, aged |-> FALSE, solveCount |-> 0]
NewBrowser == [open |-> TRUE, aged |-> FALSE, solveCount |-> 0]

-----------------------------------------------------------------------------
(* Slips the code could contain, each a variant of an operator below; the   *)
(* README says which property each of them breaks.                          *)

RepairOfAny(w, i) == closing[w] \/ activeTabs[w] # 0

RepairInUse(w, i) == closing[w] \/ replacing[w] \/ instance[w] # i

RepairOfOthers(w, i) ==
  closing[w] \/ replacing[w] \/ instance[w] = i \/ activeTabs[w] # 0

RetiresInUse(w, tabs) == ~replacing[w]

DecForgotten(n) == n

RemainingPlusOne(w) == TabCap - activeTabs[w] - advertisedSlots[w] + 1

RemainingMinusOne(w) == TabCap - activeTabs[w] - advertisedSlots[w] - 1

AfterSlotsUnreaped(p) == "idle"

CondemnedAnyway(r, replaced) == old[r]

FreshOrHeld == {i \in Inst : ~browser[i].aged}

ShutsInUse(w) == TRUE

-----------------------------------------------------------------------------
(* The conditions the code tests, under the lock unless said otherwise.    *)

(* browserInst.needsReplace; both limits are positive, see PoolAssumption. *)
NeedsReplace(i) == browser[i].aged \/ browser[i].solveCount >= MaxSolves

(* The test of tryAcq, made before and again after the health check. *)
Unusable(w) ==
  \/ closing[w]
  \/ draining[w]
  \/ replacing[w]
  \/ instance[w] = NoInst
  \/ activeTabs[w] >= TabCap

(* tryAcq gives up the repair of the browser it found unhealthy. *)
RepairRefused(w, i) ==
  \/ closing[w]
  \/ replacing[w]
  \/ instance[w] # i
  \/ activeTabs[w] # 0

(* relWorker replaces a worn-out browser when its last tab has been returned. *)
Retires(w, tabs) == ~replacing[w] /\ tabs = 0

(* relWorker advertises the slot again, unless that is replaceInst's task. *)
FreeSlot(w, tabs) ==
  /\ ~closing[w]
  /\ ~draining[w]
  /\ instance[w] # NoInst
  /\ tabs + advertisedSlots[w] < TabCap

(* shutdown leaves the browser to the requests that still use it. *)
Shuts(w) == activeTabs[w] = 0

(* The decrements of relWorker and noteTaken stop at zero. *)
Dec(n) == IF n > 0 THEN n - 1 ELSE n

(* The slots replaceInst advertises once the worker has a browser again. *)
Remaining(w) ==
  LET rem == TabCap - activeTabs[w] - advertisedSlots[w]
  IN  IF rem > 0 THEN rem ELSE 0

Referenced == {instance[w] : w \in Workers} \cup {old[p] : p \in Procs}
                \cup {new[r] : r \in Replacers}

(* What new may return: a pointer that nothing holds any more stands for    *)
(* one that was never used.                                                 *)
FreshInst == {i \in Inst \ Referenced : ~browser[i].open}

IdleReplacers == {r \in Replacers : pc[r] = "idle"}

Goto(p, label) == pc' = [pc EXCEPT ![p] = label]

(* Goroutine p has finished addSlots: a request returns to its handler, a  *)
(* replaceInst goroutine runs its deferred close of the old browser.       *)
AfterSlots(p) == IF old[p] = NoInst THEN "idle" ELSE "reap"

-----------------------------------------------------------------------------
(* The goroutine of main: NewPool, and Close when the server has returned. *)

Init ==
  /\ available = <<>>
  /\ instance = [w \in Workers |-> NoInst]
  /\ activeTabs = [w \in Workers |-> 0]
  /\ advertisedSlots = [w \in Workers |-> 0]
  /\ closing = [w \in Workers |-> FALSE]
  /\ draining = [w \in Workers |-> FALSE]
  /\ replacing = [w \in Workers |-> FALSE]
  /\ browser = [i \in Inst |-> ClosedBrowser]
  /\ done = FALSE
  /\ main = "launch"
  /\ cursor = 1
  /\ pc = [p \in Procs |-> "idle"]
  /\ worker = [p \in Procs |-> NoWorker]
  /\ old = [p \in Procs |-> NoInst]
  /\ new = [r \in Replacers |-> NoInst]
  /\ left = [p \in Procs |-> 0]
  /\ loaded = [j \in Jobs |-> 0]

(* NewPool launches the browser of the next worker. *)
NewWorker ==
  /\ main = "launch"
  /\ ~done
  /\ \E i \in FreshInst : /\ instance' = [instance EXCEPT ![cursor] = i]
                          /\ browser' = [browser EXCEPT ![i] = NewBrowser]
  /\ main' = "fill"
  /\ UNCHANGED <<available, activeTabs, advertisedSlots, closing, draining,
                 replacing, done, cursor, procVars>>

(* NewPool cannot launch a browser: it cancels the pool and returns the    *)
(* error.  Cancelling kills the browsers launched before.                  *)
NewWorkerFails ==
  /\ main = "launch"
  /\ done' = TRUE
  /\ main' = "failed"
  /\ UNCHANGED <<available, browser, workerVars, cursor, procVars>>

(* NewPool advertises the slots of the new worker.  No other goroutine     *)
(* runs yet; if the context ends meanwhile addSlots may stop at any slot.  *)
FillSlots ==
  /\ main = "fill"
  /\ \E n \in 0..TabCap :
       /\ n = TabCap \/ done
       /\ available' = available \o [k \in 1..n |-> cursor]
       /\ advertisedSlots' = [advertisedSlots EXCEPT ![cursor] = n]
  /\ IF cursor = PoolSize
     THEN main' = "serving" /\ cursor' = 1
     ELSE main' = "launch" /\ cursor' = cursor + 1
  /\ UNCHANGED <<browser, instance, activeTabs, closing, draining, replacing,
                 done, procVars>>

(* SIGTERM or an interrupt ends rootCtx, and with it p.ctx. *)
Signal ==
  /\ main \in {"launch", "fill", "serving"}
  /\ ~done
  /\ done' = TRUE
  /\ UNCHANGED <<available, browser, workerVars, main, cursor, procVars>>

Close ==
  /\ main = "serving"
  /\ done' = TRUE
  /\ main' = "closing"
  /\ UNCHANGED <<available, browser, workerVars, cursor, procVars>>

(* worker.shutdown.  The close of the browser follows the unlock, on a     *)
(* browser that nothing else can reach any more.                           *)
Shutdown ==
  /\ main = "closing"
  /\ closing' = [closing EXCEPT ![cursor] = TRUE]
  /\ IF Shuts(cursor)
     THEN /\ instance' = [instance EXCEPT ![cursor] = NoInst]
          /\ browser' = [i \in Inst |->
                           IF i = instance[cursor]
                           THEN ClosedBrowser ELSE browser[i]]
     ELSE UNCHANGED <<instance, browser>>
  /\ IF cursor = PoolSize
     THEN main' = "closed" /\ UNCHANGED cursor
     ELSE cursor' = cursor + 1 /\ UNCHANGED main
  /\ UNCHANGED <<available, activeTabs, advertisedSlots, draining, replacing,
                 done, procVars>>

-----------------------------------------------------------------------------
(* SubmitDirect: one request goroutine.                                    *)

Submit(j) ==
  /\ main = "serving"
  /\ pc[j] = "idle"
  /\ Goto(j, "acquire")
  /\ UNCHANGED <<available, browser, workerVars, worker, old, new, left,
                 loaded, mainVars>>

(* acqWorker's select takes the case ctx.Done().  The deadline of jobCtx   *)
(* can pass, or the client go away, at any moment; the model needs no more *)
(* of it than that this case, a failing health check and the end of a      *)
(* solve are always possible.                                              *)
GiveUp(j) ==
  /\ pc[j] = "acquire"
  /\ Goto(j, "idle")
  /\ UNCHANGED <<available, browser, workerVars, worker, old, new, left,
                 loaded, mainVars>>

(* acqWorker's select takes the case w := <-p.available. *)
Receive(j) ==
  /\ pc[j] = "acquire"
  /\ available # <<>>
  /\ worker' = [worker EXCEPT ![j] = Head(available)]
  /\ available' = Tail(available)
  /\ Goto(j, "taken")
  /\ UNCHANGED <<browser, workerVars, old, new, left, loaded, mainVars>>

NoteTaken(j) ==
  /\ pc[j] = "taken"
  /\ advertisedSlots' = [advertisedSlots EXCEPT ![worker[j]] = Dec(@)]
  /\ Goto(j, "try")
  /\ UNCHANGED <<available, browser, instance, activeTabs, closing, draining,
                 replacing, worker, old, new, left, loaded, mainVars>>

(* A slip: keep trying the worker that was refused. *)
RetriesSameWorker(j) ==
  /\ pc[j] \in {"try", "commit"}
  /\ Unusable(worker[j])
  /\ Goto(j, "try")
  /\ UNCHANGED <<available, browser, workerVars, worker, old, new, left, loaded, mainVars>>

(* tryAcq returns false: the token is spent and acqWorker waits again. *)
TryRefused(j) ==
  /\ pc[j] \in {"try", "commit"}
  /\ Unusable(worker[j])
  /\ Goto(j, "acquire")
  /\ worker' = [worker EXCEPT ![j] = NoWorker]
  /\ UNCHANGED <<available, browser, workerVars, old, new, left, loaded, mainVars>>

(* A browser that serves another tab is taken to be alive; an idle one is  *)
(* remembered and probed without the lock.                                 *)
TryFirst(j) ==
  /\ pc[j] = "try"
  /\ ~Unusable(worker[j])
  /\ IF activeTabs[worker[j]] = 0
     THEN Goto(j, "health") /\ old' = [old EXCEPT ![j] = instance[worker[j]]]
     ELSE Goto(j, "commit") /\ UNCHANGED old
  /\ UNCHANGED <<available, browser, workerVars, worker, new, left, loaded, mainVars>>

(* browserInst.alive got its answer from the worker's debug port. *)
HealthOk(j) ==
  /\ pc[j] = "health"
  /\ Goto(j, "commit")
  /\ old' = [old EXCEPT ![j] = NoInst]
  /\ UNCHANGED <<available, browser, workerVars, worker, new, left, loaded, mainVars>>

(* No browser answers, the answer takes longer than the 2 s of healthCtx,  *)
(* or the request is over: healthCtx is derived from jobCtx.               *)
HealthFails(j) ==
  /\ pc[j] = "health"
  /\ Goto(j, "repair")
  /\ UNCHANGED <<available, browser, workerVars, worker, old, new, left,
                 loaded, mainVars>>

(* The worker of goroutine j is left without a browser and a replaceInst   *)
(* goroutine is started for it; j goes on at label.                        *)
StartReplacement(j, label) ==
  LET w == worker[j]
  IN  /\ draining' = [draining EXCEPT ![w] = TRUE]
      /\ replacing' = [replacing EXCEPT ![w] = TRUE]
      /\ instance' = [instance EXCEPT ![w] = NoInst]
      /\ \E r \in IdleReplacers :
           /\ pc' = [pc EXCEPT ![j] = label, ![r] = "launch"]
           /\ worker' = [worker EXCEPT ![j] = NoWorker, ![r] = w]
           /\ old' = [old EXCEPT ![j] = NoInst, ![r] = instance[w]]

(* The second critical section of tryAcq after a failed health check. *)
Repair(j) ==
  /\ pc[j] = "repair"
  /\ \/ /\ RepairRefused(worker[j], old[j])
        /\ Goto(j, "acquire")
        /\ worker' = [worker EXCEPT ![j] = NoWorker]
        /\ old' = [old EXCEPT ![j] = NoInst]
        /\ UNCHANGED <<draining, replacing, instance>>
     \/ /\ ~RepairRefused(worker[j], old[j])
        /\ StartReplacement(j, "acquire")
  /\ UNCHANGED <<available, browser, activeTabs, advertisedSlots, closing, new,
                 left, loaded, mainVars>>

Commit(j) ==
  /\ pc[j] = "commit"
  /\ ~Unusable(worker[j])
  /\ activeTabs' = [activeTabs EXCEPT ![worker[j]] = @ + 1]
  /\ Goto(j, "solve")
  /\ UNCHANGED <<available, browser, instance, advertisedSlots, closing,
                 draining, replacing, worker, old, new, left, loaded, mainVars>>

(* A slip: the tab is given back on an error, and the code may run on. *)
SolveFailsRunsOn(j) ==
  /\ pc[j] = "solve"
  /\ \/ /\ Len(available) < Capacity
        /\ activeTabs' = [activeTabs EXCEPT ![worker[j]] = Dec(@)]
        /\ available' = Append(available, worker[j])
        /\ UNCHANGED pc
     \/ Goto(j, "release") /\ UNCHANGED <<available, activeTabs>>
  /\ UNCHANGED <<browser, instance, advertisedSlots, closing, draining, replacing,
                 worker, old, new, left, loaded, mainVars>>

(* runSolveDirect returns an error before its loop: nothing is counted. *)
SolveFails(j) ==
  /\ pc[j] = "solve"
  /\ Goto(j, "release")
  /\ UNCHANGED <<available, browser, workerVars, worker, old, new, left, loaded, mainVars>>

(* runSolveDirect leaves its loop: w.instance.solveCount++ is a load and a *)
(* store without the lock.                                                 *)
LoadCount(j) ==
  LET i == instance[worker[j]]
  IN  /\ pc[j] = "solve"
      /\ i # NoInst
      /\ old' = [old EXCEPT ![j] = i]
      /\ loaded' = [loaded EXCEPT ![j] = browser[i].solveCount]
      /\ Goto(j, "store")
      /\ UNCHANGED <<available, browser, workerVars, worker, new, left, mainVars>>

StoreCount(j) ==
  /\ pc[j] = "store"
  /\ browser' = [browser EXCEPT ![old[j]].solveCount =
                   IF loaded[j] < CountCap THEN loaded[j] + 1 ELSE CountCap]
  /\ old' = [old EXCEPT ![j] = NoInst]
  /\ loaded' = [loaded EXCEPT ![j] = 0]
  /\ Goto(j, "release")
  /\ UNCHANGED <<available, workerVars, worker, new, left, mainVars>>

(* relWorker's critical section.  The last tab to leave a worn-out browser *)
(* starts its replacement; an earlier one only marks the worker draining;  *)
(* otherwise the slot is advertised again if there is room for it.         *)
Release(j) ==
  LET w == worker[j]
      tabs == Dec(activeTabs[w])
      worn == instance[w] # NoInst /\ NeedsReplace(instance[w]) /\ ~closing[w]
      free == ~worn /\ FreeSlot(w, tabs)
  IN  /\ pc[j] = "release"
      /\ activeTabs' = [activeTabs EXCEPT ![w] = tabs]
      /\ \/ /\ worn /\ Retires(w, tabs)
            /\ StartReplacement(j, "idle")
            /\ UNCHANGED left
         \/ /\ worn /\ ~Retires(w, tabs)
            /\ draining' = [draining EXCEPT ![w] = TRUE]
            /\ worker' = [worker EXCEPT ![j] = NoWorker]
            /\ Goto(j, "idle")
            /\ UNCHANGED <<replacing, instance, old, left>>
         \/ /\ free
            /\ left' = [left EXCEPT ![j] = 1]
            /\ Goto(j, "note")
            /\ UNCHANGED <<draining, replacing, instance, worker, old>>
         \/ /\ ~worn /\ ~free
            /\ worker' = [worker EXCEPT ![j] = NoWorker]
            /\ Goto(j, "idle")
            /\ UNCHANGED <<draining, replacing, instance, old, left>>
      /\ UNCHANGED <<available, browser, advertisedSlots, closing, new, loaded, mainVars>>

-----------------------------------------------------------------------------
(* addSlots, run by a request goroutine (relWorker) or by replaceInst.     *)

NoteQueued(p) ==
  /\ pc[p] = "note"
  /\ advertisedSlots' = [advertisedSlots EXCEPT ![worker[p]] = @ + 1]
  /\ Goto(p, "send")
  /\ UNCHANGED <<available, browser, instance, activeTabs, closing, draining,
                 replacing, worker, old, new, left, loaded, mainVars>>

(* p.available <- w blocks while the channel is full. *)
Send(p) ==
  /\ pc[p] = "send"
  /\ Len(available) < Capacity
  /\ available' = Append(available, worker[p])
  /\ left' = [left EXCEPT ![p] = @ - 1]
  /\ IF left[p] > 1
     THEN Goto(p, "note") /\ UNCHANGED worker
     ELSE Goto(p, AfterSlots(p)) /\ worker' = [worker EXCEPT ![p] = NoWorker]
  /\ UNCHANGED <<browser, workerVars, old, new, loaded, mainVars>>

(* The select takes the case p.ctx.Done(): the slot is un-noted and the    *)
(* remaining ones are dropped.                                             *)
Abandon(p) ==
  /\ pc[p] = "send"
  /\ done
  /\ advertisedSlots' = [advertisedSlots EXCEPT ![worker[p]] = Dec(@)]
  /\ left' = [left EXCEPT ![p] = 0]
  /\ Goto(p, AfterSlots(p))
  /\ worker' = [worker EXCEPT ![p] = NoWorker]
  /\ UNCHANGED <<available, browser, instance, activeTabs, closing, draining,
                 replacing, old, new, loaded, mainVars>>

-----------------------------------------------------------------------------
(* replaceInst.                                                            *)

(* newBrowserInst succeeds; it cannot once its context is cancelled. *)
LaunchOk(r) ==
  /\ pc[r] = "launch"
  /\ ~done
  /\ \E i \in FreshInst : /\ new' = [new EXCEPT ![r] = i]
                          /\ browser' = [browser EXCEPT ![i] = NewBrowser]
  /\ Goto(r, "publish")
  /\ UNCHANGED <<available, workerVars, worker, old, left, loaded, mainVars>>

LaunchFails(r) ==
  /\ pc[r] = "launch"
  /\ Goto(r, "giveback")
  /\ UNCHANGED <<available, browser, workerVars, worker, old, new, left, loaded, mainVars>>

(* closeOld: what the deferred close of replaceInst will close. *)
Condemned(r, replaced) == IF replaced THEN old[r] ELSE NoInst

(* The common end of both critical sections: advertise what is missing.    *)
Readvertise(r, replaced) ==
  LET w == worker[r]
      condemned == Condemned(r, replaced)
  IN  /\ old' = [old EXCEPT ![r] = condemned]
      /\ IF Remaining(w) > 0
         THEN /\ Goto(r, "note")
              /\ left' = [left EXCEPT ![r] = Remaining(w)]
              /\ UNCHANGED worker
         ELSE /\ Goto(r, IF condemned = NoInst THEN "idle" ELSE "reap")
              /\ worker' = [worker EXCEPT ![r] = NoWorker]
              /\ UNCHANGED left

(* The new browser becomes the worker's, unless the pool is being closed:  *)
(* then it is closed at once, and the old one after it.                    *)
Publish(r) ==
  LET w == worker[r]
  IN  /\ pc[r] = "publish"
      /\ replacing' = [replacing EXCEPT ![w] = FALSE]
      /\ new' = [new EXCEPT ![r] = NoInst]
      /\ \/ /\ closing[w]
            /\ browser' = [browser EXCEPT ![new[r]] = ClosedBrowser]
            /\ Goto(r, "reap")
            /\ worker' = [worker EXCEPT ![r] = NoWorker]
            /\ UNCHANGED <<instance, draining, left, old>>
         \/ /\ ~closing[w]
            /\ instance' = [instance EXCEPT ![w] = new[r]]
            /\ draining' = [draining EXCEPT ![w] = FALSE]
            /\ Readvertise(r, TRUE)
            /\ UNCHANGED browser
      /\ UNCHANGED <<available, activeTabs, advertisedSlots, closing, loaded, mainVars>>

(* No new browser: the worker keeps the old one, unless it is closing. *)
GiveBack(r) ==
  LET w == worker[r]
  IN  /\ pc[r] = "giveback"
      /\ replacing' = [replacing EXCEPT ![w] = FALSE]
      /\ \/ /\ closing[w]
            /\ Goto(r, "reap")
            /\ worker' = [worker EXCEPT ![r] = NoWorker]
            /\ UNCHANGED <<instance, draining, left, old>>
         \/ /\ ~closing[w]
            /\ instance' = [instance EXCEPT ![w] = old[r]]
            /\ draining' = [draining EXCEPT ![w] = FALSE]
            /\ Readvertise(r, FALSE)
      /\ UNCHANGED <<available, browser, activeTabs, advertisedSlots, closing,
                     new, loaded, mainVars>>

(* The deferred old.close(). *)
Reap(r) ==
  /\ pc[r] = "reap"
  /\ browser' = [browser EXCEPT ![old[r]] = ClosedBrowser]
  /\ old' = [old EXCEPT ![r] = NoInst]
  /\ Goto(r, "idle")
  /\ UNCHANGED <<available, workerVars, worker, new, left, loaded, mainVars>>

-----------------------------------------------------------------------------
(* cfg.BrowserMaxAge passes for the browser a worker uses. *)
BrowserAges(w) ==
  /\ instance[w] # NoInst
  /\ ~browser[instance[w]].aged
  /\ browser' = [browser EXCEPT ![instance[w]].aged = TRUE]
  /\ UNCHANGED <<available, workerVars, procVars, mainVars>>

-----------------------------------------------------------------------------
Construct == NewWorker \/ NewWorkerFails \/ FillSlots

(* The steps a request takes by itself once it is submitted. *)
JobStep(j) ==
  \/ GiveUp(j) \/ Receive(j) \/ NoteTaken(j) \/ TryRefused(j) \/ TryFirst(j)
  \/ HealthOk(j) \/ HealthFails(j) \/ Repair(j) \/ Commit(j)
  \/ SolveFails(j) \/ LoadCount(j) \/ StoreCount(j) \/ Release(j)

SlotStep(p) == NoteQueued(p) \/ Send(p) \/ Abandon(p)

ReplaceStep(r) ==
  LaunchOk(r) \/ LaunchFails(r) \/ Publish(r) \/ GiveBack(r) \/ Reap(r)

(* The process has exited, or is about to. *)
Exited ==
  /\ main \in {"closed", "failed"}
  /\ \A p \in Procs : pc[p] = "idle"
  /\ UNCHANGED vars

Next ==
  \/ Construct \/ Signal \/ Close \/ Shutdown
  \/ \E j \in Jobs : Submit(j) \/ JobStep(j)
  \/ \E p \in Procs : SlotStep(p)
  \/ \E r \in Replacers : ReplaceStep(r)
  \/ \E w \in Workers : BrowserAges(w)
  \/ Exited

Spec == Init /\ [][Next]_vars

-----------------------------------------------------------------------------
(* Fairness.  The Go scheduler runs every goroutine that can run.  Health   *)
(* checks, launches and solves end, each bounded by a context with a        *)
(* deadline or by chromedp's own start timeout.  jobCtx has a deadline, so  *)
(* a request that comes to acqWorker's select again and again comes there   *)
(* after it, and a select with two ready cases picks at random: GiveUp is   *)
(* taken in the end.  Nothing is assumed of new requests, signals and age.  *)
Fairness ==
  /\ \A j \in Jobs : WF_vars(JobStep(j)) /\ SF_vars(GiveUp(j))
  /\ \A p \in Procs : WF_vars(SlotStep(p))
  /\ \A r \in Replacers : WF_vars(ReplaceStep(r))

FairSpec == Spec /\ Fairness

-----------------------------------------------------------------------------
(* What the variables say of each other.                                   *)

(* The requests that hold a tab of worker w: between tryAcq and relWorker. *)
Leases(w) == {j \in Jobs : pc[j] \in {"solve", "store", "release"} /\ worker[j] = w}

(* The replaceInst goroutines that have not yet settled worker w's browser. *)
Replacements(w) ==
  {r \in Replacers : pc[r] \in {"launch", "publish", "giveback"} /\ worker[r] = w}

(* NewPool is through with worker w. *)
Built(w) == main \notin {"launch", "fill", "failed"} \/ w < cursor

At(labels, w) == {p \in Procs : pc[p] \in labels /\ worker[p] = w}

ChannelTyped == available \in Seq(Workers) /\ Len(available) <= Capacity

WorkersTyped ==
  /\ instance \in [Workers -> Inst \cup {NoInst}]
  /\ activeTabs \in [Workers -> 0..TabCap]
  /\ advertisedSlots \in [Workers -> Nat]
  /\ closing \in [Workers -> BOOLEAN]
  /\ draining \in [Workers -> BOOLEAN]
  /\ replacing \in [Workers -> BOOLEAN]

BrowsersTyped == browser \in [Inst -> BrowserRec]

MainTyped ==
  /\ done \in BOOLEAN
  /\ main \in {"launch", "fill", "serving", "closing", "closed", "failed"}
  /\ cursor \in Workers

ProcsTyped ==
  /\ pc \in [Procs -> Labels]
  /\ worker \in [Procs -> Workers \cup {NoWorker}]
  /\ old \in [Procs -> Inst \cup {NoInst}]
  /\ new \in [Replacers -> Inst \cup {NoInst}]
  /\ left \in [Procs -> 0..TabCap]
  /\ loaded \in [Jobs -> 0..CountCap]

(* Every variable has its type; in particular no worker serves more than    *)
(* TabCap tabs and the channel never holds more than its capacity.          *)
TypeOK == ChannelTyped /\ WorkersTyped /\ BrowsersTyped /\ MainTyped /\ ProcsTyped

(* activeTabs is exactly the number of requests between tryAcq and          *)
(* relWorker: the counter relWorker compares with 0 to start a replacement  *)
(* is never wrong, and the test activeTabs > 0 that guards its decrement    *)
(* (pool.go:135) never hides a lost tab.                                    *)
TabsMatchLeases == \A w \in Workers : activeTabs[w] = Cardinality(Leases(w))

(* A request that holds a tab finds a browser behind w.instance, which      *)
(* runSolveDirect reads without the lock (solve.go:79, 197): no replacement, *)
(* repair or shutdown takes it away in between.                             *)
LeaseHasBrowser ==
  \A w \in Workers : Leases(w) # {} => instance[w] # NoInst /\ ~replacing[w]

(* The flag replacing stands for exactly one replaceInst goroutine, and a   *)
(* worker of the pool has no browser only while it is being replaced or     *)
(* after shutdown: relWorker and tryAcq never start two replacements of one *)
(* worker, and none is forgotten.                                           *)
OneReplacement ==
  \A w \in Workers :
    /\ Cardinality(Replacements(w)) = IF replacing[w] THEN 1 ELSE 0
    /\ Built(w) /\ instance[w] = NoInst => replacing[w] \/ closing[w]

(* advertisedSlots counts the tokens in the channel, those about to enter   *)
(* it and those just taken out; so noteTaken (pool.go:242) never meets 0.   *)
AdvertisedExact ==
  \A w \in Workers :
    advertisedSlots[w] = Cardinality({k \in DOMAIN available : available[k] = w})
                           + Cardinality(At({"send", "taken"}, w))

(* A worker nobody has in hand can be had: while the pool is open, a worker *)
(* that does not drain and that no goroutine works on has a token in the    *)
(* channel.  acqWorker drops the token of a worker it finds in use, full or *)
(* repaired by another request (pool.go:160, 177), relWorker does not       *)
(* return a slot that is advertised already (pool.go:150): between them     *)
(* they never drop the last one.                                            *)
NoWorkerForgotten ==
  \A w \in Workers :
    Built(w) /\ ~done /\ ~draining[w] /\ (\A p \in Procs : worker[p] # w)
      => \E k \in DOMAIN available : available[k] = w

(* The browser a worker serves from was never closed by the pool: a failed  *)
(* replacement that gives the old browser back does not close it as well.   *)
PublishedNotClosed ==
  \A w \in Workers : instance[w] # NoInst => browser[instance[w]].open

(* Every running Chrome is somebody's: a worker's, or in the hands of a     *)
(* replaceInst goroutine that will publish or close it.  Only the end of    *)
(* p.ctx, which kills them all, may leave one behind.                       *)
NoBrowserLeak ==
  \A i \in Inst : browser[i].open =>
    \/ done
    \/ \E w \in Workers : instance[w] = i
    \/ \E r \in Replacers : i \in {old[r], new[r]}

(* A request leases a tab from the commit of tryAcq to relWorker's critical *)
(* section.                                                                 *)
LeaseOf == [j \in Jobs |-> IF pc[j] \in {"solve", "store", "release"}
                           THEN worker[j] ELSE NoWorker]

Lease == INSTANCE TabLease WITH lease <- LeaseOf, shut <- closing

(* Every step of the pool is a step of TabLease or leaves leases, browsers  *)
(* and shutdowns alone: a tab is leased only on a worker that has a browser *)
(* and is not shut down, never more than TabCap at once; the browser under  *)
(* a lease stays; no browser serves two workers.                            *)
LeasesRefined == Lease!LeaseSpec

(* The requests that hold a tab of any worker. *)
Solving == {j \in Jobs : LeaseOf[j] # NoWorker}

Slot == INSTANCE SolveSlots WITH Requests <- Jobs, slots <- Capacity, solving <- Solving

(* For the requests the pool is a number of slots: never more of them solve *)
(* at once than POOL_SIZE * TABS_PER_BROWSER, whichever workers they come   *)
(* to and however many tokens the channel has for a worker.                 *)
SlotsRefined == Slot!SlotsSpec

(* With one tab per browser the one slot of a worker is always in exactly   *)
(* one place.                                                               *)
SlotConserved ==
  \A w \in Workers : Built(w) /\ ~done =>
    activeTabs[w] + advertisedSlots[w] + (IF replacing[w] THEN 1 ELSE 0)
      + Cardinality(At({"try", "health", "repair", "commit", "note"}, w)) = 1

(* addSlots always finds room in the channel, so relWorker, which runs      *)
(* before the response is written, does not hold a request back.            *)
SendNeverBlocks ==
  \A p \in Procs : pc[p] = "send" => Len(available) < Capacity

(* A request that was submitted returns (README.md:118: SOLVE_TIMEOUT_SEC   *)
(* is a per-request timeout).                                               *)
JobReturns == \A j \in Jobs : pc[j] = "acquire" ~> pc[j] = "idle"

(* A worker that drains gets back into service, or the pool is closed       *)
(* (README.md:117: its browser is recycled, not left behind).               *)
DrainEnds == \A w \in Workers : draining[w] ~> (~draining[w] \/ done)

-----------------------------------------------------------------------------
(* The inductive invariant behind the safety properties, part by part.     *)

JobLabels == {"idle", "acquire", "taken", "try", "health", "repair", "commit",
              "solve", "store", "release", "note", "send"}

ReplacerLabels == {"idle", "launch", "publish", "giveback", "note", "send", "reap"}

(* A goroutine has a worker exactly where its code has one, and something   *)
(* left to send while it sends.                                             *)
WorkerWhereNeeded ==
  \A p \in Procs :
    /\ worker[p] = NoWorker <=> pc[p] \in {"idle", "acquire", "reap"}
    /\ pc[p] \in {"note", "send"} => left[p] > 0

(* It remembers a browser exactly where its code holds one in a local. *)
BrowserWhereNeeded ==
  /\ \A j \in Jobs :
       /\ pc[j] \in JobLabels
       /\ old[j] # NoInst <=> pc[j] \in {"health", "repair", "store"}
  /\ \A r \in Replacers :
       /\ pc[r] \in ReplacerLabels
       /\ new[r] # NoInst <=> pc[r] = "publish"
       /\ pc[r] \in {"launch", "publish", "giveback", "reap"} => old[r] # NoInst
       /\ pc[r] = "idle" => old[r] = NoInst

LocalsOK == WorkerWhereNeeded /\ BrowserWhereNeeded

(* NewPool runs alone, on a channel with room for all the slots it adds;   *)
(* Close shuts one worker after the other down.                            *)
Quiet ==
  /\ main \in {"launch", "fill", "failed"} =>
       /\ \A p \in Procs : pc[p] = "idle"
       /\ \A w \in Workers : ~replacing[w]
       /\ Len(available) <= (cursor - 1) * TabCap
       /\ \A w \in Workers :
            instance[w] # NoInst <=> w < cursor \/ (w = cursor /\ main = "fill")
  /\ \A w \in Workers :
       closing[w] => main = "closed" \/ (main = "closing" /\ w < cursor)

(* replacing stands for a replaceInst goroutine, the only one of the worker, *)
(* and while it is set the worker has no browser.                            *)
Settling(r) == pc[r] \in {"launch", "publish", "giveback"}

ReplacingOwned ==
  /\ \A r \in Replacers : Settling(r) => replacing[worker[r]]
  /\ \A r, q \in Replacers : Settling(r) /\ Settling(q) /\ worker[r] = worker[q] => r = q
  /\ \A w \in Workers : replacing[w] =>
       instance[w] = NoInst /\ \E r \in Replacers : Settling(r) /\ worker[r] = w
  /\ \A w \in Workers : Built(w) /\ instance[w] = NoInst => replacing[w] \/ closing[w]

(* A tab in use keeps the browser in place. *)
TabsHoldBrowser == \A w \in Workers : activeTabs[w] > 0 => instance[w] # NoInst

(* No two owners share a browser: the workers, and old and inst of the      *)
(* replaceInst goroutines.                                                  *)
SoleOwner ==
  /\ \A v, w \in Workers : instance[v] = instance[w] /\ instance[v] # NoInst => v = w
  /\ \A q, r \in Replacers :
       /\ old[q] = old[r] /\ old[q] # NoInst => q = r
       /\ new[q] = new[r] /\ new[q] # NoInst => q = r
       /\ old[q] = new[r] => old[q] = NoInst
  /\ \A w \in Workers, r \in Replacers :
       instance[w] # NoInst => instance[w] # old[r] /\ instance[w] # new[r]

(* A browser in service, or that can come into service, has not been closed. *)
OwnedOpen ==
  /\ \A w \in Workers : instance[w] # NoInst => browser[instance[w]].open
  /\ \A r \in Replacers : Settling(r) => browser[old[r]].open
  /\ \A r \in Replacers : pc[r] = "publish" => browser[new[r]].open

PoolInv ==
  /\ TypeOK
  /\ LocalsOK
  /\ Quiet
  /\ TabsMatchLeases
  /\ ReplacingOwned
  /\ TabsHoldBrowser
  /\ SoleOwner
  /\ OwnedOpen

=============================================================================
