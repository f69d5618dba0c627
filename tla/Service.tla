------------------------------- MODULE Service -------------------------------
(***************************************************************************)
(* main.go and internal/server/server.go: one run of the process, from its  *)
(* configuration to its exit, with requests in flight when SIGTERM comes.   *)
(* The pool gives a request a worker at any time or never, and              *)
(* runSolveDirect returns sooner or later, within its context or not, or is *)
(* stuck; see BrowserPool, Solve and CdpSession for both.  net/http is      *)
(* modelled by its contract: Shutdown closes the listener and returns once  *)
(* no connection it has accepted is busy or its own context has ended, and  *)
(* a client that goes away ends the request's context.                      *)
(*                                                                         *)
(* Time is counted in steps of Tick.  What it waits for are the timers of   *)
(* connections and contexts, and a select that one of them has woken.       *)
(***************************************************************************)
EXTENDS Settings, FiniteSets

CONSTANTS
  Requests,
  Environs,        (* the environments and .env files to start with        *)
  ReadTimeout,     (* config: 15 s for headers and body                    *)
  LookupTimeout,   (* validate.URL: 2 s for the resolver                   *)
  DrainTimeout     (* Listen: 10 s for Shutdown                            *)

ASSUME ServiceAssumption ==
  /\ IsFiniteSet(Requests)
  /\ Environs \subseteq [process : Environments, file : Seq(Lines)]
  /\ {ReadTimeout, LookupTimeout, DrainTimeout} \subseteq Nat

VARIABLES
  main,      \* where main is
  conf,      \* the environment, then the part of Config that is used here
  rootDone,  \* rootCtx is done
  shutdown,  \* the goroutine of Listen: its call of Shutdown and the result
  grace,     \* since that call
  req        \* each request's connection and handler: where it is (at), since
             \* when its headers are read (age), since when the lookup or
             \* SubmitDirect runs (since), its context (ctx), is the client
             \* there (here), and the status to answer with

vars == <<main, conf, rootDone, shutdown, grace, req>>
mainVars == <<main, conf, rootDone, shutdown, grace>>

Ended == {"exited", "fatal"}
Idle == [at |-> "none", age |-> 0, since |-> 0, ctx |-> "live", here |-> TRUE, status |-> 0]

Active == {r \in Requests : req[r].at # "none"}
Submitted == {"acquire", "solve"}

-----------------------------------------------------------------------------
(* Slips the code could contain, each a variant of an operator below.      *)

SentIfNil(result) == IF result = "ok" THEN result ELSE "unsent"

IgnoresLate(result) == TRUE

WaitsForWorkerOnly(ctx) == FALSE

ClockOfSolve(r) == 0

TimeoutIsCancel(ctx) == IF ctx = "live" THEN 500 ELSE 408

-----------------------------------------------------------------------------
(* What the goroutine sends on shutdownErr: whatever Shutdown returns. *)
Sent(result) == result

(* Listen returns nil. *)
CleanShutdown(result) == result = "ok"

(* One deadline, set by SubmitDirect, covers the wait for a worker and the  *)
(* solve: what has passed of it when the worker is there.                   *)
ClockAtSolve(r) == req[r].since

(* The select of acqWorker. *)
GivesUp(ctx) == ctx # "live"

(* The status for an error of SubmitDirect. *)
StatusOf(ctx) == CASE ctx = "expired" -> 504
                   [] ctx = "cancelled" -> 408
                   [] ctx = "live" -> 500

Running == main \notin Ended

Init ==
  /\ main = "load"
  /\ conf \in Environs
  /\ rootDone = FALSE
  /\ shutdown = "none"
  /\ grace = 0
  /\ req = [r \in Requests |-> Idle]

-----------------------------------------------------------------------------
(* main.                                                                   *)

LoadConfig ==
  /\ main = "load"
  /\ main' = "display"
  /\ conf' = [solveTimeout |-> Load(conf.process, conf.file).solveTimeout]
  /\ UNCHANGED <<rootDone, shutdown, grace, req>>

Goto(l) == main' = l /\ UNCHANGED <<conf, rootDone, shutdown, grace, req>>

StartDisplay == main = "display" /\ (Goto("pool") \/ Goto("fatal"))

NewPool == main = "pool" /\ (Goto("listen") \/ Goto("fatal"))

(* ListenAndServe: the port may be taken. *)
Serve == main = "listen" /\ shutdown = "none" /\ (Goto("serving") \/ Goto("fatal"))

(* NotifyContext is called after Load. *)
Signal ==
  /\ Running
  /\ main # "load"
  /\ ~rootDone
  /\ rootDone' = TRUE
  /\ UNCHANGED <<main, conf, shutdown, grace, req>>

BeginShutdown ==
  /\ main \in {"listen", "serving"}
  /\ rootDone
  /\ shutdown = "none"
  /\ shutdown' = "waiting"
  /\ UNCHANGED <<main, conf, rootDone, grace, req>>

(* ListenAndServe returns as soon as Shutdown is called, or at once. *)
ServerClosed == main \in {"listen", "serving"} /\ shutdown # "none" /\ Goto("drain")

ShutdownReturns(result) ==
  /\ shutdown = "waiting"
  /\ shutdown' = Sent(result)
  /\ UNCHANGED <<main, conf, rootDone, grace, req>>

ShutdownDone == Active = {} /\ ShutdownReturns("ok")

ShutdownLate == grace >= DrainTimeout /\ ShutdownReturns("late")

(* Listen receives from shutdownErr.  log.Fatal runs no deferred call. *)
Drained ==
  /\ main = "drain"
  /\ shutdown \in {"ok", "late"}
  /\ Goto(IF CleanShutdown(shutdown) THEN "close" ELSE "fatal")

ClosePool == main = "close" /\ Goto("stop")

StopDisplay == main = "stop" /\ Goto("exited")

MainStep ==
  \/ LoadConfig \/ StartDisplay \/ NewPool \/ Serve \/ ServerClosed
  \/ Drained \/ ClosePool \/ StopDisplay

ShutdownStep == BeginShutdown \/ ShutdownDone \/ ShutdownLate

-----------------------------------------------------------------------------
(* The handler of a request.                                               *)

Step(r, rec) == req' = [req EXCEPT ![r] = rec] /\ UNCHANGED mainVars

Answered(h, status) == [h EXCEPT !.at = "reply", !.status = status]

Answer(r, status) == Step(r, Answered(req[r], status))

(* The listener accepts a connection; Shutdown waits for it from now on. *)
Accept(r) ==
  /\ main = "serving"
  /\ shutdown = "none"
  /\ req[r].at = "none"
  /\ Step(r, [Idle EXCEPT !.at = "headers"])

(* Its headers come, maybe after Shutdown has been called, and newAPIKeyAuth *)
(* refuses them or lets them pass; or they do not come.                      *)
Arrive(r) ==
  /\ req[r].at = "headers"
  /\ \/ Step(r, [Idle EXCEPT !.at = "body"])
     \/ Step(r, Answered(Idle, 401))
     \/ Step(r, Idle)

(* ShouldBindJSON *)
Bind(r) == req[r].at = "body" /\ (Step(r, [req[r] EXCEPT !.at = "lookup"]) \/ Answer(r, 400))

(* validate.URL; then SubmitDirect sets the deadline. *)
Validate(r) ==
  /\ req[r].at = "lookup"
  /\ Step(r, [req[r] EXCEPT !.at = "acquire", !.since = 0]) \/ Answer(r, 400)

(* acqWorker returns a worker.  Whether there is a token and tryAcq takes it *)
(* is the pool's business: it may be so at any time, past the deadline too,  *)
(* or never.                                                                 *)
Acquire(r) ==
  /\ req[r].at = "acquire"
  /\ Step(r, [req[r] EXCEPT !.at = "solve", !.since = ClockAtSolve(r)])

(* The deadline of the job's context, unless it has been cancelled before. *)
Expire(r) ==
  /\ req[r].at \in Submitted
  /\ req[r].since >= conf.solveTimeout
  /\ req[r].ctx = "live"
  /\ Step(r, [req[r] EXCEPT !.ctx = "expired"])

(* acqWorker fails when its context has ended.  runSolveDirect fails for     *)
(* that reason or another, the read deadline of the connection included,     *)
(* which is no DeadlineExceeded.                                             *)
SubmitFails(r) ==
  \/ req[r].at = "acquire" /\ GivesUp(req[r].ctx) /\ Answer(r, StatusOf(req[r].ctx))
  \/ req[r].at = "solve" /\ (Answer(r, StatusOf(req[r].ctx)) \/ Answer(r, 500))

Solved(r) == req[r].at = "solve" /\ Answer(r, 200)

(* http.Get in newRawSession, or addSlots in relWorker, which look at no     *)
(* context, never return (see session_hang and pool_hang).                   *)
Hang(r) == req[r].at = "solve" /\ Step(r, [Idle EXCEPT !.at = "stuck"])

(* The answer is written, or lost. *)
Reply(r) == req[r].at = "reply" /\ Step(r, Idle)

ClientLeaves(r) ==
  /\ req[r].at \in {"body", "lookup"} \cup Submitted
  /\ req[r].here
  /\ Step(r, [req[r] EXCEPT !.here = FALSE,
                            !.ctx = IF @ = "live" THEN "cancelled" ELSE @])

(* What a handler does of its own accord. *)
RequestStep(r) ==
  Bind(r) \/ Validate(r) \/ Expire(r) \/ SubmitFails(r) \/ Solved(r) \/ Reply(r)

(* What others do to it. *)
RequestMet(r) == Accept(r) \/ Arrive(r) \/ Acquire(r) \/ Hang(r) \/ ClientLeaves(r)

-----------------------------------------------------------------------------
(* What happens before more time passes: the read deadline of the           *)
(* connection, the resolver's, the timer of the job's context, and the      *)
(* select of acqWorker when that context has ended.  A solve that goes on   *)
(* past the end of its context (solve.go sleeps) holds nothing up.          *)
Due(r) ==
  \/ req[r].at = "body" /\ req[r].age >= ReadTimeout
  \/ req[r].at = "lookup" /\ req[r].since >= LookupTimeout
  \/ req[r].at \in Submitted /\ req[r].ctx = "live" /\ req[r].since >= conf.solveTimeout
  \/ req[r].at = "acquire" /\ req[r].ctx # "live"

(* Bound: how long a solve outlives its context is not counted. *)
Counted(h) == h.at \in {"body", "lookup", "acquire"} \/ (h.at = "solve" /\ h.ctx = "live")

Tick ==
  /\ main \in {"serving", "drain"}
  /\ \A r \in Requests : ~Due(r)
  /\ shutdown = "waiting" => grace < DrainTimeout
  /\ grace' = IF shutdown = "waiting" THEN grace + 1 ELSE grace
  /\ req' = [r \in Requests |->
               IF ~Counted(req[r]) THEN req[r]
               ELSE [req[r] EXCEPT !.age = @ + 1,
                                   !.since = IF req[r].at = "body" THEN @ ELSE @ + 1]]
  /\ UNCHANGED <<main, conf, rootDone, shutdown>>

Terminated == ~Running /\ UNCHANGED vars

Next ==
  \/ MainStep \/ Signal \/ Terminated
  \/ Running /\ \/ ShutdownStep
                \/ \E r \in Requests : RequestStep(r) \/ RequestMet(r)
                \/ Tick

Spec == Init /\ [][Next]_vars

(* The goroutines run and time passes.  Nothing makes a request or its       *)
(* headers come, or a worker be there; a solve returns unless it is stuck.   *)
FairSpec ==
  /\ Spec
  /\ WF_vars(MainStep)
  /\ WF_vars(Running /\ ShutdownStep)
  /\ \A r \in Requests : WF_vars(Running /\ RequestStep(r))
  /\ SF_vars(Running /\ Tick)

-----------------------------------------------------------------------------
(* Properties.                                                             *)

Handler == [at : {"none", "headers", "body", "lookup", "acquire", "solve", "stuck", "reply"},
            age : Nat, since : Nat, ctx : {"live", "cancelled", "expired"},
            here : BOOLEAN, status : {0, 200, 400, 401, 408, 500, 504}]

(* Types; Listen receives one of the two results of Shutdown. *)
TypeOK ==
  /\ main \in {"load", "display", "pool", "listen", "serving", "drain", "close",
               "stop", "exited", "fatal"}
  /\ conf \in IF main = "load" THEN Environs
              ELSE [solveTimeout : Int]
  /\ rootDone \in BOOLEAN
  /\ shutdown \in {"none", "waiting", "ok", "late"}
  /\ grace \in 0 .. DrainTimeout
  /\ req \in [Requests -> Handler]

(* What BrowserPool takes for granted (PoolAssumption). *)
Usable(c) ==
  c.poolSize \in 1 .. 16 /\ c.tabsPerBrowser \in 1 .. 4 /\ c.browserMaxSolves \in Nat \ {0}

(* Load gives the pool what it relies on, and a number that is meant is the   *)
(* one the container's environment sets, or else the first line of .env that  *)
(* does.  Of TABS_PER_BROWSER it says so only where POOL_SIZE is set too:     *)
(* without it DetectConcurrency does not look at TABS_PER_BROWSER, while      *)
(* README.md:115 gives it for a variable like the others.                     *)
SettingsRight ==
  main = "load" =>
    LET c == Load(conf.process, conf.file)
        set(key) == SetTo(conf.process, conf.file, key)
    IN /\ Usable(c)
       /\ Meant(set("POOL_SIZE"), 1) =>
            c.poolSize = ClampInt(set("POOL_SIZE"), 1, 16)
       /\ Meant(set("TABS_PER_BROWSER"), 1) /\ set("POOL_SIZE") \notin {Unset, Blank} =>
            c.tabsPerBrowser = ClampInt(set("TABS_PER_BROWSER"), 1, 4)
       /\ Meant(set("SOLVE_TIMEOUT_SEC"), Second) =>
            c.solveTimeout = set("SOLVE_TIMEOUT_SEC") * Second
       /\ Meant(set("BROWSER_MAX_AGE_MIN"), Minute) =>
            c.browserMaxAge = set("BROWSER_MAX_AGE_MIN") * Minute
       /\ Meant(set("BROWSER_MAX_SOLVES"), 1) =>
            c.browserMaxSolves = set("BROWSER_MAX_SOLVES")

(* The pool and the display are only closed when no handler runs any more,    *)
(* and none can start: a Shutdown that came to the end of its 10 seconds does *)
(* not get there, and one that has waited for a connection has waited for     *)
(* the handler it has become.                                                 *)
CloseMeetsNoRequest == main \in {"close", "stop", "exited"} => Active = {}

(* Waiting for a worker costs nothing on top of SOLVE_TIMEOUT_SEC: one        *)
(* deadline, from SubmitDirect on, covers the wait and the solve.  So a       *)
(* request still waits, or still solves with a context that is live, only     *)
(* within the sum of the three timeouts since its headers.  (What the solve   *)
(* does after its context has ended takes its own time.)                      *)
DeadlineCoversWait ==
  \A r \in Requests :
    (req[r].at = "acquire" \/ (req[r].at = "solve" /\ req[r].ctx = "live")) =>
      req[r].age <= ReadTimeout + LookupTimeout
                    + (IF conf.solveTimeout > 0 THEN conf.solveTimeout ELSE 0)

(* 504 tells that SOLVE_TIMEOUT_SEC has passed, 408 that the client has left, *)
(* and an answer for another reason is not disguised as either.               *)
StatusTells ==
  \A r \in Requests : req[r].at = "reply" =>
    /\ req[r].status = 504 => req[r].since >= conf.solveTimeout
    /\ req[r].status = 408 => ~req[r].here

(* After a SIGTERM the process ends, whatever the requests in flight do:      *)
(* waiting for headers, for a worker, or stuck for good.                      *)
ExitsAfterSignal == rootDone ~> ~Running

(* A request that has been let in leaves with an answer, unless the process   *)
(* ends first or the request is stuck itself: it is let go although every     *)
(* worker is held by others that are.                                         *)
RequestsEnd ==
  \A r \in Requests : req[r].at = "body" ~> (req[r].at \in {"none", "stuck"} \/ ~Running)

=============================================================================
