# TLA+ models and proofs of akira-turnstile

akira-turnstile is an HTTP service in Go. A request names a page; the service
opens the page in a tab of a real Chrome, clicks the Turnstile checkbox and
answers with the cookies of the browser. Paths below are relative to the root
of the repository; `pool.go`, `instance.go`, `rawsession.go`, `solve.go` and
`challenge.go` are in `internal/browser/`.

## 1. The system

| part | state | operations |
|------|-------|------------|
| browser pool, `pool.go` | the channel `available` of slots; per worker `instance`, `activeTabs`, `advertisedSlots`, `closing`, `draining`, `replacing` | `NewPool`, `SubmitDirect`, `acqWorker`, `tryAcq`, `relWorker`, `addSlots`, `replaceInst`, `Close`/`shutdown` |
| browser instance, `instance.go` | one Chrome process, its age and `solveCount` | `newBrowserInst`, `alive`, `needsReplace`, `close` |
| raw session, `rawsession.go` | one websocket and one tab: `nextID`, `pending`, the goroutine `readLoop` | `dialChrome`, `newRawSession`, `Execute`, `close` |
| solve loop, `solve.go` | the locals of `runSolveDirect`; shared by the tabs of a browser: its cookies and its `solveCount` | `runSolveDirect` |
| cursor helpers, `challenge.go` | cursor position | none is called |
| server, `internal/server/server.go` | in-flight requests | bind, authenticate, validate, `SubmitDirect`, error to status, graceful shutdown |
| display, `internal/xvfb/xvfb.go` | Xvfb, its lock file and socket, `$DISPLAY` | `Start`, `reclaimDisplay`, `waitReady`, `Stop` |
| lifecycle, `main.go` | `rootCtx` | start display, pool, server; undo in reverse |
| config, validate, model, helpers, logger | none or counters | pure functions, data, output |

How they interact. A request goroutine (server) calls `SubmitDirect`, which
takes a slot from the channel, checks the worker, runs `runSolveDirect` on the
worker's Chrome through a new raw session, and gives the slot back. Goroutines
of the pool share the channel, the workers under their mutex, and, without it,
`w.instance` and `solveCount`. A raw session is used by its request goroutine
and by `readLoop`. The tabs of one Chrome share its cookies. Ending `rootCtx`
kills every Chrome and Xvfb.

What is hard, and what makes each part correct:

- **pool**: slots must be neither lost nor doubled although they are counted in
  one place, queued in another and advertised after the unlock; a browser must
  not be replaced under a request, replaced twice, closed and used, or left
  running; a draining worker must come back; shutdown meets requests and
  replacements half way.
- **session**: an answer must reach the call it belongs to, late answers none;
  every call and the handshake must end with the request; the tab must go.
- **solve loop**: a job must return its own cookies and those the click earned;
  each answer is counted once; the loop must end.
- **display**: two starts must not share a display, a stale lock must not block
  one for good, a crash must be noticed.
- **lifecycle**: requests in flight at a SIGTERM are answered before their pool and
  display go, and the process ends.

`PROJECT.json` lists the hazards line by line with the properties that would
catch each of them.

## 2. The modules

| module | models | state and actions |
|--------|--------|-------------------|
| `BrowserPool` | `pool.go`, the life of `instance.go`'s browsers | one variable per field; one action per critical section of `worker.mu`, channel operation, blocking call, and unlocked read or write |
| `TabLease` | what the pool promises | leases of tabs, browsers of workers, shut workers: `Acquire`, `GiveBackTab`, `Retire`, `Revive`, `Shut` |
| `SolveSlots` | what requests can rely on in the pool | a number of slots and the requests that use them: `Take`, `Give` |
| `MCBrowserPool` | | sets of requests, goroutines and browser pointers for TLC, and their symmetry |
| `CdpSession` | `rawsession.go`, with Chrome as its environment | the request goroutine from `dialChrome` to `close`, and `readLoop` |
| `Solve` | `solve.go` | the jobs of one browser, one action per command and per test of the loop |
| `Xvfb` | `xvfb.go`, with the X server, the process table and the container as its environment | services, lock files, sockets, processes: one action per look at or change of any of them |
| `Settings` | `config.go` | operators: `.env`, defaults, clamps, durations |
| `Service` | `main.go`, `server.go`, with `Settings` | `main` and `Listen` from start to exit, and the handler of each request |
| `MCService` | | environments and `.env` files for TLC |
| `BrowserPool_proofs`, `BrowserPool_slots`, `BrowserPool_refinement`, `CdpSession_proofs`, `Solve_proofs`, `Xvfb_proofs`, `Service_proofs` | | theorems and their proofs |
| `Induction` | | induction over the naturals and over a finite set, as statements about sets, for the proofs |

`BrowserPool` sees `runSolveDirect` as its effect on the pool (fail, or load and
store `solveCount`); `Solve` sees `newRawSession` as succeeding or failing and
`Execute` as answered or refused; `CdpSession` says what that means. `Service`
sees `SubmitDirect` as a wait for a worker, which may come at any time or never,
and then a solve, which ends within its context, after it, or not at all, and
`xvfb.Start` as succeeding or failing; `Xvfb` sees `main` as something that
starts, is signalled, stops or dies. They are separate because their product is
out of TLC's reach and they meet only at those calls. What requests can rely on
in the pool is stated once, in `SolveSlots`: `POOL_SIZE` times
`TABS_PER_BROWSER` slots, each used by one request at a time. The pool
implements it with workers, tabs and tokens, which is checked and proved;
`Service` takes nothing of the pool for granted, not even that.

**BrowserPool.** The goroutines are `Jobs` (requests, which start again after
they return) and `Replacers` (`replaceInst`). `pc` says where each is:
`acquire` (the select of `acqWorker`), `taken` (a token in hand, `noteTaken` to
come), `try`, `health`, `repair`, `commit` (`tryAcq`), `solve`, `store`,
`release` (`relWorker`), `note`, `send` (`addSlots`), `launch`, `publish`,
`giveback`, `reap` (`replaceInst`). `main` and `cursor` are the goroutine that
builds and closes the pool. A browser pointer is a member of `Inst`; one that
nothing refers to any more stands for a new one. Health checks and launches
succeed or fail at will, which stands for a Chrome that has died, hangs or
cannot be started, and for a request whose context ends meanwhile. `Signal` is
the end of `rootCtx`. `solveCount` is exact up to one past the limit. The code
compares it with the limit only.

**CdpSession.** `up` and `down` are the two directions of the websocket. Chrome
carries out commands in order and answers them in any order, later or never; it
can hang, resume and die. What was written before the connection was closed
still reaches it. `deadline` and `cancelled` are the two ways the context ends:
a blocked read sees only the first. Any frame may be one that `rawConn.read`
refuses (`ReadsJunk`), which ends `readLoop` or the handshake. That Chrome
closes the connection and goes on itself is left out: the tab would then stay
open. `MapFault` is the Go runtime ending the
process when it notices that `readLoop` reads the map while `Execute` writes
it; the unnoticed race is the two orders of the steps.

**Solve.** A cookie is its owner: the job whose page has set it. A page can set
cookies from its navigation until its tab is really gone, which may be after
the job has returned. The checkbox is seen or not at Chrome's will. Three
history variables (`exposed`, `fetched`, `raced`) say what the properties are
about; no action reads them but to set them. A clear that Chrome carries out
only after the job gave up on it is not modelled: it can only remove cookies.

**Xvfb.** A service is one process of akira-turnstile: off, searching
(`reclaimDisplay` with `lockPID`, `processAlive`, `killAndWait`, the two
`os.Remove`), launching, serving, stopping. The lock file of a display holds a
pid, the socket has an owner; both are just names of processes, which is how a
file outlives its process and comes to name another one. A lock that names no
process is `Unreadable`: `lockPID` returns an error, and the display is skipped,
or a number below 1, and `reclaimDisplay` goes on to the socket. A process that ends is
a zombie until its parent waits for it or ends; the pid is free after that, and
any other process may take it. `Restart` is the container's restart: files
stay, processes do not. `ProcessState` is absent because nothing calls
`Cmd.Wait`. `killAndWait` is reached with a live process only if the pid was
reused between two looks. The X server takes a lock that is free or stale, then
binds its socket; it may crash at any moment, or exit and take its files along.
Two things are taken in one step each: `waitReady`'s look at the two files, and
an exiting server's removal of them.

Starts do not overlap (`Quiet`). `reclaimDisplay` and `Xvfb` lock nothing
against each other, so of two starts that do, the later `os.Remove` may take
the files of the earlier one's new server: with `Quiet` dropped, TLC finds
`RunningKeepsFiles` violated. Then there can also be two servers on one
display, the first without its files. No line of the repository promises
otherwise. What an overlap does not take is the process a service has launched:
`XvfbKeptInOverlap` is proved for `OverlapSpec`, where a service begins whenever
it likes (`BeginAnyTime`).
All processes are of one user: signal 0 to another user's process fails with
EPERM, which `processAlive` takes for gone.

**Settings and Service.** The value of a variable is a number, blank, or not a
number. `Load` is computed in the first step of `main`, from an environment and
a `.env` file chosen in `Init`; only what the rest uses is kept.

A request is a connection that the listener has accepted (`headers`) and then
its handler. `Shutdown` waits for both, so a handler may start while it waits,
of a connection accepted before. The context of a request ends once, as
`cancelled` or `expired`, whichever comes first. `log.Fatal` is the end `fatal`,
without the deferred calls.

Time is counted in `Tick`. It waits for what a timer makes happen: a body comes
or fails by `ReadTimeout`, a lookup by 2 s, a context expires at its deadline, a
request in the select of `acqWorker` leaves when its context has ended,
`Shutdown` gives up at 10 s (`Due`). It does not wait for a solve.
`runSolveDirect` sleeps without looking at its context (`solve.go:63`,
`127-131`), so a solve may go on after its context has ended for as long as it
likes; only how long that is, is not counted (`Counted`). And it may not return
at all (`Hang`), as `session_hang` and `pool_hang` find of `http.Get` and
`addSlots`: its request is then `stuck`, `Shutdown` comes to its 10 seconds and
the process ends with `log.Fatal`.

## 3. What is checked

Passing runs, with the reason their bounds suffice:

| run | instance | shows |
|-----|----------|-------|
| `pool_tabs` | 1 worker, 2 tabs, limit 2, 2 requests, 2 replacers, 2 browsers | two requests in `tryAcq` and `relWorker` of one worker: `TabsMatchLeases`, `LeaseHasBrowser`, `OneReplacement`, `AdvertisedExact`; a worker nobody has in hand has a token (`NoWorkerForgotten`); the pool implements `TabLease` (`LeasesRefined`) |
| `pool_two` | 2 workers, 1 tab each, limit 1, 2 requests, 2 replacers, 4 browsers | one tab per browser, the default, with workers behind one channel. Types (`TypeOK`), each worker's one slot in one place (`SlotConserved`), no sender held back (`SendNeverBlocks`), no Chrome left running without an owner (`NoBrowserLeak`), none served after its close (`PublishedNotClosed`), the invariant of the proofs (`PoolInv`), and `LeasesRefined` |
| `pool_live` | 1 worker, 1 tab, limit 2, 2 requests, 1 replacer, 2 browsers | every submitted request returns (`JobReturns`), every draining worker gets out of it (`DrainEnds`); the pool implements `SolveSlots` (`SlotsRefined`) |
| `session` | 2 calls, 2 dial attempts | no call gets another one's answer (`RightAnswer`), an established session has its tab (`SessionHasTab`), calls end (`CallEnds`), the tab is closed (`TabClosed`) |
| `solve_jobs` | 2 jobs in 2 tabs | a job that had the browser to itself returns its own cookies (`AloneIsFresh`), the counter counts the answers (`CountsAnswers`), success only after a fetch that follows the click (`FetchedAfterClick`), the loop ends (`SolveEnds`), and the invariant of the proofs (`SolveInv`) |
| `xvfb` | 2 services, 3 pids, 2 displays | a server that is up keeps its lock and its socket (`RunningKeepsFiles`), a display reported ready has a server that has started (`ReadyMeansUp`), no server is let go of without a wait (`NoXvfbLost`), a start ends (`StartEnds`), `TypeOK` |
| `service` | 2 requests, timeouts of 1, 1, 2 and a solve of 1, 2 or an overflow, 432 environments with each of 4 `.env` files | the numbers the pool relies on and who sets them (`SettingsRight`), pool and display closed under no handler (`CloseMeetsNoRequest`), one deadline for the wait and the solve (`DeadlineCoversWait`), what 504 and 408 tell (`StatusTells`), the process ends after a SIGTERM whatever is stuck (`ExitsAfterSignal`), a request ends unless it is stuck itself (`RequestsEnd`), `TypeOK` |

Two requests meet in every pair of places; a third would only wait in the
channel. Two replacers cover a replacement that is still closing its old
browser while the next one of the same worker, or that of another worker, is
under way. A replacer or pointer that is not free when one is needed delays the
step that needs it, it never changes it. Limits of 1 and 2 reach the retirement
of a browser by count after one solve and after a second one; its age may pass
at any moment. Two services are one and its neighbour or successor; of three
pids one is the server, one its neighbour's, one a stranger's; two displays are
one to skip and one to take. Two requests of the service are one that waits for
a worker and one that solves, overruns or is stuck meanwhile; durations of one
or two ticks put each deadline before, at and after the others; a duration range
of 2048 makes 2050 seconds overflow. Two calls of a session are an earlier and a
later one; two dial attempts a first and a last one. Two jobs are one and its neighbour, or one and
its successor. The theorems of section 5 remove these bounds for the properties
they name.

Runs that find the code at odds with what the repository says of it:

| run | finding |
|-----|---------|
| `pool_hang` | with two tabs, `relWorker` advertises a slot that `replaceInst` has advertised meanwhile; the channel is full and the request blocks past its timeout (`pool.go:158`, `README.md:118`) |
| `pool_stranded` | with two tabs, a lost update of `solveCount` leaves a worker draining for ever (`solve.go:197`, `README.md:117`) |
| `session_hang` | `http.Get` without context or timeout: a Chrome that does not answer holds the request past its timeout (`rawsession.go:74`, `README.md:118`) |
| `solve_fresh` | a job navigates with cookies in the browser (`solve.go:53-56`) |
| `xvfb_crash` | an Xvfb that has crashed is a zombie, which signal 0 reaches: its display is reported ready (`xvfb.go:291`, against `xvfb.go:276-277`) |

The first two need `TABS_PER_BROWSER` of 2 or more; at the default of 1
`pool_two` and `pool_live` show the opposite. `solve_fresh` uses two tabs
because that is the shortest way; with one tab it takes a clear that fails or a
tab that is slow to close.

One divergence has no run, since a single call shows it: `README.md:115` lists
`TABS_PER_BROWSER` as a variable like the others, but `DetectConcurrency` reads
it only when `POOL_SIZE` is set (`config.go:158-163`), so that alone it has no
effect. `Settings` has it as the code does, and `SettingsRight` says of
`TABS_PER_BROWSER` that it is what is set only where `POOL_SIZE` is set too. It
does not hold without that condition.

A browser past `BROWSER_MAX_SOLVES` whose replacement cannot be launched is
given back and serves on (`pool.go:267-271`). That is deliberate, and the model
has it (`GiveBack`); no property says that the limit is never passed.

Every property of a passing run has a slip, a variant of an operator that a
plausible mistake in the code would be, which breaks it:

| slip | in place of | breaks |
|------|-------------|--------|
| `RemainingPlusOne` | `Remaining` | `TypeOK`, `SendNeverBlocks` |
| `RemainingMinusOne` | `Remaining` | `SlotConserved` |
| `DecForgotten` | `Dec` | `AdvertisedExact`, `TabsMatchLeases`, `DrainEnds` |
| `AfterSlotsUnreaped` | `AfterSlots` | `NoBrowserLeak` |
| `CondemnedAnyway` | `Condemned` | `PublishedNotClosed` |
| `FreshOrHeld` | `FreshInst` | `PoolInv` |
| `RepairInUse`, `RepairOfAny`, `RepairOfOthers` | `RepairRefused` | `LeaseHasBrowser`, `OneReplacement`, `NoWorkerForgotten` |
| `SolveFailsRunsOn` | `SolveFails` | `SlotsRefined` |
| `RetiresInUse` | `Retires` | `LeasesRefined` |
| `ShutsInUse` | `Shuts` | `LeasesRefined` |
| `RetriesSameWorker` | `TryRefused` | `JobReturns` |
| `OneTryMore` | `LastTry` | `TypeOK` of the session |
| `CountsFromZero` | `FirstID` | `RightAnswer` |
| `AcceptsAnything` | `Usable` | `SessionHasTab` |
| `WaitsForAnswerOnly` | `StopsWaiting` | `CallEnds` |
| `ClosesWithin` | `SendsClose` | `TabClosed` |
| `OneMore` | `AutoSolved` | `TypeOK` of the solve loop |
| `KeepsCookies` | `Cleared` | `AloneIsFresh` |
| `OnlySolvedCount` | `Counts` | `CountsAnswers` |
| `FetchesOnTick` | `ShouldFetch` | `FetchedAfterClick`, `SolveInv` |
| `NeverNotices` | `CtxDone` | `SolveEnds` |
| `AfterTheNext` | `StartIdx` | `TypeOK` of the display |
| `AlwaysStale` | `ProcessAlive` | `RunningKeepsFiles` |
| `KeepsSocket` | `SocketRemoved` | `ReadyMeansUp` |
| `LeavesChild` | `KilledAndWaited` | `NoXvfbLost` |
| `SameDisplay` | `NextDisplay` | `StartEnds` |
| `FileWins` | `SetFromLine` | `SettingsRight` |
| `SentIfNil` | `Sent` | `TypeOK` of the service, `ExitsAfterSignal` |
| `IgnoresLate` | `CleanShutdown` | `CloseMeetsNoRequest` |
| `ClockOfSolve` | `ClockAtSolve` | `DeadlineCoversWait` |
| `TimeoutIsCancel` | `StatusOf` | `StatusTells` |
| `WaitsForWorkerOnly` | `GivesUp` | `RequestsEnd` |

## 4. Fairness

- Pool: the Go scheduler runs every goroutine that can run (WF of the steps of
  requests, of `addSlots` and of `replaceInst`). Health checks, launches and
  solves are steps that end; the first two have contexts or chromedp's start
  timeout, the last is what `SolveEnds`, `CallEnds` and the finding
  `session_hang` are about. `GiveUp` has SF: a request comes to the select of
  `acqWorker` after its deadline if it comes there again and again, and a
  select with two ready cases picks one at random. Nothing is assumed of new
  requests, signals and the passing of a browser's age.
- Session: both goroutines run, the deadline passes, a Chrome that is up takes
  the commands it is sent. Nothing makes it answer an `Execute`, resume or stay
  alive. The handshake has SF so that its finding does not rest on a Chrome
  that hangs again and again: one that hangs once and for all is enough.
- Solve: every job runs, its deadline passes, an `Execute` whose context has
  ended returns. Chrome is not relied on for an answer.
- Xvfb: the goroutine that starts a display runs, and its polls have deadlines.
  Nothing makes an X server start, finish or die.
- Service: `main`, the goroutine of `Listen` and the handlers run. `Tick` has SF:
  time passes, though requests that come and go put a deadline in its way again
  and again. A solve ends, in time or late, unless it is stuck. Nothing
  makes a request, its headers or a signal come, a worker be there, a solve get
  stuck, or a client leave: a request that waits goes by its deadline alone.

## 5. What is proved

| theorem | for every value of the constants |
|---------|----------------------------------|
| `TypeCorrect` | types of the pool: never more than `TabCap` tabs, the channel within its buffer |
| `PoolInvHolds` | the inductive invariant `PoolInv` |
| `TabsCounted` | `TabsMatchLeases` |
| `LeaseKeepsBrowser` | `LeaseHasBrowser` |
| `ReplacedOnce` | `OneReplacement` |
| `ServedBrowserOpen` | `PublishedNotClosed` |
| `NoBrowserLost` | `NoBrowserLeak` |
| `AdvertisedCounted` | `AdvertisedExact` |
| `SlotNeverLost` | `SlotConserved`, if `TabCap = 1` |
| `SendFindsRoom` | `SendNeverBlocks`, if `TabCap = 1` |
| `WorkerNeverForgotten` | `NoWorkerForgotten` |
| `DrainIsReplaced` | a draining worker of an open pool is being replaced, if `TabCap = 1` |
| `IdleWorkerCanBeHad` | every worker of an open pool that nobody has in hand has a token, if `TabCap = 1` |
| `PoolImplementsLease` | the pool implements `TabLease` (`LeasesRefined`) |
| `PoolImplementsSlots` | the pool implements `SolveSlots` (`SlotsRefined`) |
| `BrowserStaysUnderLease` | a worker keeps its browser as long as a request keeps its tab |
| `SessionTypeCorrect` | `TypeOK` of the session |
| `AnswerIsRight` | `RightAnswer` |
| `EstablishedHasTab` | `SessionHasTab` |
| `TabOnItsWayOut` | a session that is over has its tab closed or the command for it on its way, unless Chrome or the service is dead |
| `SolveInvHolds`, `SolveTypeCorrect` | the inductive invariant `SolveInv`, and `TypeOK` |
| `FreshWhenAlone` | `AloneIsFresh` |
| `AnswersCounted` | `CountsAnswers` |
| `FetchBeforeSuccess` | `FetchedAfterClick` |
| `XvfbTypeCorrect` | types of the display |
| `FilesKept` | `RunningKeepsFiles` |
| `ReadyIsUp` | `ReadyMeansUp` |
| `XvfbKept` | `NoXvfbLost` |
| `XvfbKeptInOverlap` | `TypeOK` and `NoXvfbLost`, also for starts that overlap |
| `StartComesNearer` | every step of a start brings it nearer to its end, no other step takes it back |
| `LoadUsable` | what `Load` returns satisfies the sizes and limits of `PoolAssumption` |
| `SettingsAreRight` | `SettingsRight`, for a `.env` of any length; of `TABS_PER_BROWSER` without `POOL_SIZE` it says nothing |
| `ServiceTypeCorrect` | types of the service |
| `ClosedAfterLast` | `CloseMeetsNoRequest` |
| `WaitIsCovered` | `DeadlineCoversWait` |
| `StatusesTell` | `StatusTells` |

The assumptions are `PoolAssumption` (positive sizes, which
`config.DetectConcurrency` and `getenvInt` ensure; finitely many requests at
once; `nil` is no browser), `SolveAssumption`, `XvfbAssumption` (at least one
display; the markers for no file and no pid are no pids), `SettingsAssumption`
(the defaults are within the clamps) and `ServiceAssumption`. `LoadUsable`
discharges what `PoolAssumption` says of the configuration.

The pool. None of the properties is inductive: that a request has a browser
depends on `activeTabs` being exact, on `tryAcq` seeing `replacing`, and on a
worker without a browser having a replacement under way. `TypeOK`, `LocalsOK`
(a goroutine has a worker and a browser in hand exactly where its code has) and
`Quiet` (`NewPool` and `Close` run in order) are inductive together. With
`ReplacingOwned`, `TabsHoldBrowser`, `SoleOwner`, `OwnedOpen` and
`TabsMatchLeases` they are `PoolInv`. `SoleOwner` is needed because the old
browser travels: a worker's, then `old` of `replaceInst`, then the worker's
again or closed; only if nobody else holds it does its close not hit a browser
in service. The lemma `StepEffects` sums up what each action does to owners, so
that the other lemmas look at seven kinds of steps rather than at all actions.

The slots (`BrowserPool_slots`). `NoBrowserLeak` is inductive with `PoolInv`: a
browser goes from owner to owner in one step, or is closed. `AdvertisedExact`
needs to count tokens in a sequence that is appended to and taken from; the
lemmas `QueuedAppend`, `QueuedTail` and `QueuedFill` say what each does, and
`SlotMove` reduces a step to the one goroutine that moves. With one tab per
browser, `OneInv` says that a worker's tabs, advertised slots, replacement and
requests at its door add up to one while the pool is open, and to at most one
after. It has to be proved with two other facts: a worker drains only while it
is replaced, and the browser a request probes is still the worker's, so that
neither refusal in `tryAcq` is ever met with a token in hand. The channel then
holds at most one token of each worker and none of the one a goroutine is about
to send, which leaves it a place.

`NoWorkerForgotten` holds for any number of tabs, and needs an invariant of
another kind (`TendInv`, on top of `PoolInv` and `SlotInv`). A token is dropped
whenever `tryAcq` refuses it, so what has to be found is who brings the next
one. `Tended` says that a worker that does not drain has a token in the channel,
or a tab in use, or a replacement, or a goroutine that `Brings` one: it holds a
token of the worker, or will commit to it, or advertise it. A health check of a
browser the worker has lost meanwhile leads nowhere and does not count; that the
check of its present one does is what makes each refusal of `tryAcq` one that
somebody else answers for. With one tab per browser the exception for a draining
worker falls away (`DrainIsReplaced`, `IdleWorkerCanBeHad`). With two it is
needed: `pool_stranded`.

The refinement maps a request's lease to its worker between `commit` and
`relWorker`, `closing` to `shut`, and `instance` to itself. `Commit` is
`Acquire`, `Release` is `GiveBackTab`, a repair is `Retire`, `NewWorker`,
`Publish` and `GiveBack` are `Revive`, `Shutdown` is `Shut`; the rest stutters.
From it follow an action property and a second refinement. `TabLease` changes
the browser of an idle worker only, hence `BrowserStaysUnderLease`. And the
requests that hold a tab, of whatever worker, are the `solving` of `SolveSlots`:
`Acquire` is `Take`, `GiveBackTab` is `Give`. That one more finds room is a sum
over the workers, proved by induction over their number (`SharesFit`): at most
`TabCap` each before the step and after it.

The session. An answer is matched by its id alone, so the invariant follows the
ids: those on the wire belong to the handshake (1, 2), to events (0) or to the
call they were made for (`IdsOwn`), calls take them in turn and only the
current one is in the map (`IdsInTurn`), and what waits in its channel is its
own (`AnswersCall`). For `SessionHasTab`, `HandshakeInOrder` says what can be on
the wire at each place of the handshake. Up to the answer to `createTarget`
nothing else, so the frame taken for that answer is one; after it, an answer to
`attachToTarget` without an error, or an event, which Chrome only sends once
the tab is attached. `TabOnItsWayOut` is what `TabClosed` rests on: `close`
sends its command whatever has become of `jobCtx`, Chrome loses it only by
dying, and nothing the handshake has left on the wire can open a tab after it
(`NothingToOpen`).

The solve loop. `SolveInv` adds to the properties that a job that goes on has
missed the checkbox at most once, that from the click to the fetch it can only
expire, that a job that is not exposed finds no other page and no other cookie
in the browser, and that a single increment is under way unless two have
overlapped.

The display. That a running server keeps its files rests on two facts about a
start. Up to its launch no server is on its way (`OneStart`), so nobody takes
the lock between the look at it and its removal; and the pid it has read is
that of the server that is up on the display, if there is one (`ReclaimsFree`),
so a dead pid means that there is none. Pids that are reused only make it skip
a display. `LockOwned` is needed for servers that have the lock and not yet the
socket: it is what keeps a second one from binding. `FreshSocket` says that a
start reaches its launch only with the socket gone; with `OneStart` the only
server that can bind it then is the one launched. The lemmas `ServerMoves`,
`LockMoves`, `SocketMoves` and `PlaceMoves` say which steps can change what;
the other lemmas look at those only. `NoXvfbLost` needs none of this, only the
types and `LocalsOK`, which is why it holds for starts that overlap too.
`StartComesNearer` is the variant of the search: `Distance` counts the displays
that are left and the looks at the present one, every step of the start lowers
it, and a signal or a kill leaves it alone.

The service. `ServiceInv` bounds, at each place of the handler up to the end of
its context, the age of the request by the timeouts behind it and the clock of
the current one. That `Acquire` keeps that clock is what makes the last of them
cover the wait and the solve together (`WaitIsCovered`). It also ties the
reason of an ended context to what has happened, and says that past the drain
`Shutdown` has succeeded, after which no connection is busy and none is accepted.

The settings. `SettingsRight` compares `loadDotEnv`, which goes through the file
line by line, with the first line that sets a variable. `LoadDotEnv` is a
recursive function on the lines read so far; that it is well defined
(`RecursionExists`), and that after `n` lines it holds what the first `n` lines
say, are inductions on `n`. The library's induction theorems cannot be used for
them, since they take an operator as a parameter; those of `Induction` speak of
the set of the numbers for which a statement holds, and are proved from the
least element of a set.

Only model-checked: everything under fairness (`JobReturns`, `DrainEnds`,
`CallEnds`, `TabClosed`, `SolveEnds`, `StartEnds`, `ExitsAfterSignal`,
`RequestsEnd`), which is beyond the prover. Of three of them the safety half is
proved: of `DrainEnds` by `DrainIsReplaced`, of `TabClosed` by `TabOnItsWayOut`,
of `StartEnds` by `StartComesNearer`. `SlotConserved` and
`SendNeverBlocks` are statements about one tab per browser, which is why their
theorems assume it; with two tabs slots are doubled and lost, and a sender
blocks (`pool_hang`, `pool_stranded`).

## 6. Not modelled

- `challenge.go`: nothing calls it. `canReturn` in `pool.go` likewise.
- Debug ports and the moment at which an old and a new Chrome share one.
- What the page scripts compute, coordinates, the mouse path, log lines.
- The errors a request returns: `Service` tells those of an ended context from
  the others, no model says more.
- How long a solve goes on after its context has ended, and what the answer is
  worth then: `WriteTimeout` may have cut it off.
- Starts that overlap, in the runs (see `Xvfb` above), processes of other
  users, and `Start` on systems other than Linux.
- `validate.go`: which URLs are refused. It is a table of names and address
  ranges without state, order or boundary to get wrong that a unit test does not
  reach; `Service` lets a URL pass or be refused. `config.go`: strings and
  booleans, which are passed on as they are.
- `/api/health`, which answers at once. `logger`, `helpers`, `model` hold no
  state that a property could be about.

## 7. Plan

Done: `TabLease`, `SolveSlots`, `BrowserPool`, its proofs and refinements;
`CdpSession`; `Solve`, `Xvfb`, `Settings` and `Service` with their proofs. Every
invariant a run checks, and the refinements of the pool, are proved. Open:

1. The safety half of the other liveness properties: of `JobReturns`, that a
   request that waits is let go by its deadline; of `SolveEnds`, of
   `RequestsEnd`.
2. What two starts of the display that overlap can do to each other at worst,
   beyond taking each other's files.
