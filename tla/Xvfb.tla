-------------------------------- MODULE Xvfb ---------------------------------
(***************************************************************************)
(* Start and Stop of internal/xvfb/xvfb.go: services on one host that look  *)
(* for a free display, and the Xvfb processes they launch.  What a display  *)
(* number means to everybody is two files, /tmp/.X<n>-lock, which holds the *)
(* pid of its server, and the socket /tmp/.X11-unix/X<n>.  They outlive the *)
(* processes, and pids are reused.  All processes are taken to be of one    *)
(* user.                                                                   *)
(*                                                                         *)
(* The environment is the X server, which takes its lock, binds its socket, *)
(* crashes or cleans up; unrelated processes, which only matter for their   *)
(* pids; and the host, where a service can die at any moment (log.Fatal, a  *)
(* kill) and a container can restart with its files.                        *)
(***************************************************************************)
EXTENDS Naturals

CONSTANTS
  Services,   (* the akira-turnstile processes of the host *)
  Pids,
  Attempts,   (* config.XvfbDisplayAttempts                *)
  NoFile, Unreadable, NoPid

ASSUME XvfbAssumption ==
  /\ Attempts \in Nat \ {0}
  /\ {NoFile, Unreadable, NoPid} \cap Pids = {}
  /\ NoPid \notin Services
  /\ NoFile # Unreadable

Displays == 0 .. Attempts - 1     \* above config.XvfbDisplayBase

VARIABLES
  svc,     \* each service: where it is (pc), the loop's i (disp), the pid that
           \* lockPID has read (seen), Manager.Cmd.Process (child), and whether
           \* its rootCtx is done (ended)
  lock,    \* the lock file of each display: the pid in it
  sock,    \* the socket of each display: who has bound it
  proc     \* the process table: its state, its X display and its parent

vars == <<svc, lock, sock, proc>>

Searching == {"read", "probe", "recheck", "killing", "rmlock", "rmsock", "stat", "launch"}
Launched == {"wait", "serving", "stopping"}

Off == [pc |-> "off", disp |-> 0, seen |-> NoPid, child |-> NoPid, ended |-> FALSE]

(* Start at the i-th display, with nothing in hand. *)
Trying(i, over) ==
  [pc |-> "read", disp |-> i, seen |-> NoPid, child |-> NoPid, ended |-> over]

Nobody == NoPid   \* the parent of an orphan: init, which waits for it

Free == [state |-> "none", display |-> 0, parent |-> Nobody]
Other == [Free EXCEPT !.state = "other"]

XServers == {p \in Pids : proc[p].state \notin {"none", "other", "zombie"}}

-----------------------------------------------------------------------------
(* Slips the code could contain, each a variant of an operator below.      *)

AfterTheNext(n) == n + 2

SameDisplay(i) == i

AlwaysStale(p) == FALSE

KeepsSocket(f) == f

LeavesChild(p) == proc[p]

-----------------------------------------------------------------------------
(* The index to start from when DISPLAY names display n. *)
StartIdx(n) == n + 1

(* The loop goes on with the next display. *)
NextDisplay(i) == i + 1

(* processAlive: signal 0 reaches whatever has this pid, a zombie included. *)
ProcessAlive(p) == proc[p].state # "none"

(* os.Remove of a socket that has lost its server, or its lock. *)
SocketRemoved(f) == NoFile

(* A process that ends is a zombie until its parent waits for it. *)
Dead(p) == IF proc[p].parent = Nobody THEN Free
           ELSE [proc[p] EXCEPT !.state = "zombie"]

(* SIGKILL, and Process.Wait, which frees the pid. *)
KilledAndWaited(p) == Free

Goto(s, l) == svc' = [svc EXCEPT ![s].pc = l]

(* continue, without a process in hand *)
TryNext(s) ==
  svc' = [svc EXCEPT ![s] = Trying(NextDisplay(svc[s].disp), svc[s].ended)]

Init ==
  /\ svc = [s \in Services |-> Off]
  /\ lock \in [Displays -> {NoFile, Unreadable}]
  /\ sock = [d \in Displays |-> NoFile]
  /\ proc = [p \in Pids |-> Free]

-----------------------------------------------------------------------------
(* Start.                                                                  *)

(* Bound: a service starts when no other start is under way, and no X       *)
(* server of an earlier one either.  reclaimDisplay does not lock anything: *)
(* of two that overlap, one removes the files the other's server has made.  *)
Quiet(s) ==
  /\ \A t \in Services \ {s} : svc[t].pc \notin Searching \cup {"wait"}
  /\ \A p \in Pids : proc[p].state \notin {"init", "locked"}

(* DISPLAY is unset, or names a display below, within or beyond the range. *)
BeginAnyTime(s) ==
  /\ svc[s].pc = "off"
  /\ \E i \in {0} \cup {StartIdx(n) : n \in Displays} :
       svc' = [svc EXCEPT ![s] = Trying(i, FALSE)]
  /\ UNCHANGED <<lock, sock, proc>>

Begin(s) == Quiet(s) /\ BeginAnyTime(s)

(* No free display: main ends with log.Fatal. *)
Exhausted(s) ==
  /\ svc[s].pc = "read"
  /\ svc[s].disp >= Attempts
  /\ svc' = [svc EXCEPT ![s] = Off]
  /\ UNCHANGED <<lock, sock, proc>>

(* lockPID.  An Unreadable lock names no process: it gives an error, or a    *)
(* number below 1, which reclaimDisplay treats as it does the lack of a lock. *)
ReadLock(s) ==
  /\ svc[s].pc = "read"
  /\ svc[s].disp < Attempts
  /\ LET f == lock[svc[s].disp] IN
       \/ f \in {NoFile, Unreadable} /\ Goto(s, "stat")
       \/ f = Unreadable /\ TryNext(s)
       \/ f \in Pids /\ svc' = [svc EXCEPT ![s] = [@ EXCEPT !.pc = "probe", !.seen = f]]
  /\ UNCHANGED <<lock, sock, proc>>

Probe(s) ==
  /\ svc[s].pc = "probe"
  /\ IF ProcessAlive(svc[s].seen) THEN TryNext(s) ELSE Goto(s, "recheck")
  /\ UNCHANGED <<lock, sock, proc>>

(* killAndWait looks again.  By now the pid may be another process's, which *)
(* is sent a SIGTERM.                                                       *)
Recheck(s) ==
  /\ svc[s].pc = "recheck"
  /\ Goto(s, IF ProcessAlive(svc[s].seen) THEN "killing" ELSE "rmlock")
  /\ UNCHANGED <<lock, sock, proc>>

(* It goes (see OtherExits, XCrashes), or it outlasts both timeouts, as a    *)
(* zombie does that its parent does not wait for.                           *)
KillAndWait(s) ==
  /\ svc[s].pc = "killing"
  /\ IF ProcessAlive(svc[s].seen) THEN TryNext(s) ELSE Goto(s, "rmlock")
  /\ UNCHANGED <<lock, sock, proc>>

RemoveLock(s) ==
  /\ svc[s].pc = "rmlock"
  /\ lock' = [lock EXCEPT ![svc[s].disp] = NoFile]
  /\ svc' = [svc EXCEPT ![s] = [@ EXCEPT !.pc = "rmsock", !.seen = NoPid]]
  /\ UNCHANGED <<sock, proc>>

RemoveSocket(s) ==
  /\ svc[s].pc = "rmsock"
  /\ sock' = [sock EXCEPT ![svc[s].disp] = SocketRemoved(@)]
  /\ Goto(s, "launch")
  /\ UNCHANGED <<lock, proc>>

(* Without a lock that counts, there may be a socket all the same. *)
StatSocket(s) ==
  /\ svc[s].pc = "stat"
  /\ Goto(s, IF sock[svc[s].disp] = NoFile THEN "launch" ELSE "rmsock")
  /\ UNCHANGED <<lock, sock, proc>>

(* exec.CommandContext refuses to start once its context is done. *)
Launch(s) ==
  /\ svc[s].pc = "launch"
  /\ ~svc[s].ended
  /\ \E p \in Pids :
       /\ proc[p] = Free
       /\ proc' = [proc EXCEPT ![p] =
                     [state |-> "init", display |-> svc[s].disp, parent |-> s]]
       /\ svc' = [svc EXCEPT ![s] = [@ EXCEPT !.pc = "wait", !.child = p]]
  /\ UNCHANGED <<lock, sock>>

LaunchFails(s) ==
  /\ svc[s].pc = "launch"
  /\ TryNext(s)
  /\ UNCHANGED <<lock, sock, proc>>

(* A poll of waitReady finds the process and both files.  ProcessState is   *)
(* set by Cmd.Wait, which nobody calls.  The two files are looked at in one *)
(* step: they come and go together but for the time the server starts in.   *)
Ready(s) ==
  /\ svc[s].pc = "wait"
  /\ ProcessAlive(svc[s].child)
  /\ sock[svc[s].disp] # NoFile
  /\ lock[svc[s].disp] # NoFile
  /\ Goto(s, "serving")
  /\ UNCHANGED <<lock, sock, proc>>

(* The 3 seconds pass. *)
NotReady(s) ==
  /\ svc[s].pc = "wait"
  /\ proc' = [proc EXCEPT ![svc[s].child] = KilledAndWaited(svc[s].child)]
  /\ TryNext(s)
  /\ UNCHANGED <<lock, sock>>

-----------------------------------------------------------------------------
(* The end of a service.                                                   *)

Signal(s) ==
  /\ svc[s].pc # "off"
  /\ ~svc[s].ended
  /\ svc' = [svc EXCEPT ![s].ended = TRUE]
  /\ UNCHANGED <<lock, sock, proc>>

(* The goroutine of exec.CommandContext: SIGKILL, and nobody waits. *)
ContextKills(s) ==
  /\ svc[s].ended
  /\ svc[s].child \in XServers
  /\ proc' = [proc EXCEPT ![svc[s].child] = Dead(svc[s].child)]
  /\ UNCHANGED <<svc, lock, sock>>

(* Only when server.Listen has returned without an error: rootCtx is done.  *)
Stop(s) ==
  /\ svc[s].pc = "serving"
  /\ svc[s].ended
  /\ Goto(s, "stopping")
  /\ proc' = [proc EXCEPT ![svc[s].child].state =
                IF svc[s].child \in XServers THEN "closing" ELSE @]
  /\ UNCHANGED <<lock, sock>>

(* Process.Wait returns, after a SIGKILL if 3 seconds have not been enough. *)
Stopped(s) ==
  /\ svc[s].pc = "stopping"
  /\ proc' = [proc EXCEPT ![svc[s].child] = KilledAndWaited(svc[s].child)]
  /\ svc' = [svc EXCEPT ![s] = Off]
  /\ UNCHANGED <<lock, sock>>

(* init adopts a process, and waits for a zombie. *)
Orphaned(p) ==
  IF proc[p].state = "zombie" THEN Free ELSE [proc[p] EXCEPT !.parent = Nobody]

(* log.Fatal, or the process is killed: its Xvfb goes on without it. *)
Dies(s) ==
  /\ svc[s].pc # "off"
  /\ svc' = [svc EXCEPT ![s] = Off]
  /\ proc' = [p \in Pids |-> IF proc[p].parent = s THEN Orphaned(p) ELSE proc[p]]
  /\ UNCHANGED <<lock, sock>>

(* The container restarts: all its processes are gone, its files are not. *)
Restart ==
  /\ svc' = [s \in Services |-> Off]
  /\ proc' = [p \in Pids |-> Free]
  /\ UNCHANGED <<lock, sock>>

-----------------------------------------------------------------------------
(* The X server and the other processes.                                   *)

(* It makes the lock file, after removing one whose process is gone.  It can *)
(* do nothing with an Unreadable one, and then it ends.                      *)
XLocks(p) ==
  /\ proc[p].state = "init"
  /\ LET f == lock[proc[p].display] IN f = NoFile \/ (f \in Pids /\ ~ProcessAlive(f))
  /\ lock' = [lock EXCEPT ![proc[p].display] = p]
  /\ proc' = [proc EXCEPT ![p].state = "locked"]
  /\ UNCHANGED <<svc, sock>>

XBinds(p) ==
  /\ proc[p].state = "locked"
  /\ sock' = [sock EXCEPT ![proc[p].display] = p]
  /\ proc' = [proc EXCEPT ![p].state = "up"]
  /\ UNCHANGED <<svc, lock>>

(* A crash or a kill, or the display is another server's: the files stay. *)
XCrashes(p) ==
  /\ p \in XServers
  /\ proc' = [proc EXCEPT ![p] = Dead(p)]
  /\ UNCHANGED <<svc, lock, sock>>

(* An orderly exit, after a SIGTERM or of its own accord. *)
XExits(p) ==
  /\ p \in XServers
  /\ lock' = [d \in Displays |-> IF lock[d] = p THEN NoFile ELSE lock[d]]
  /\ sock' = [d \in Displays |-> IF sock[d] = p THEN NoFile ELSE sock[d]]
  /\ proc' = [proc EXCEPT ![p] = Dead(p)]
  /\ UNCHANGED svc

(* Another process of the host comes and goes. *)
OtherProcess(p) ==
  /\ proc[p] \in {Free, Other}
  /\ proc' = [proc EXCEPT ![p] = IF @ = Free THEN Other ELSE Free]
  /\ UNCHANGED <<svc, lock, sock>>

-----------------------------------------------------------------------------
StartStep(s) ==
  \/ Exhausted(s) \/ ReadLock(s) \/ Probe(s) \/ Recheck(s) \/ KillAndWait(s)
  \/ RemoveLock(s) \/ RemoveSocket(s) \/ StatSocket(s)
  \/ Launch(s) \/ LaunchFails(s) \/ Ready(s) \/ NotReady(s)

EndStep(s) == Signal(s) \/ ContextKills(s) \/ Stop(s) \/ Stopped(s) \/ Dies(s)

XStep(p) == XLocks(p) \/ XBinds(p) \/ XCrashes(p) \/ XExits(p)

Next ==
  \/ \E s \in Services : Begin(s) \/ StartStep(s) \/ EndStep(s)
  \/ Restart
  \/ \E p \in Pids : XStep(p) \/ OtherProcess(p)

Spec == Init /\ [][Next]_vars

(* The Go scheduler runs the services, which poll against deadlines. *)
FairSpec == Spec /\ \A s \in Services : WF_vars(StartStep(s))

-----------------------------------------------------------------------------
(* Properties.                                                             *)

SvcRec == [pc : Searching \cup Launched \cup {"off"}, disp : 0 .. Attempts,
           seen : Pids \cup {NoPid}, child : Pids \cup {NoPid}, ended : BOOLEAN]

ProcRec == [state : {"none", "other", "init", "locked", "up", "closing", "zombie"},
            display : Displays, parent : Services \cup {Nobody}]

(* Types, and a service has a process in hand exactly while launchXvfb has   *)
(* one or the Manager serves.                                                *)
TypeOK ==
  /\ svc \in [Services -> SvcRec]
  /\ lock \in [Displays -> Pids \cup {NoFile, Unreadable}]
  /\ sock \in [Displays -> Pids \cup {NoFile}]
  /\ proc \in [Pids -> ProcRec]
  /\ \A s \in Services : (svc[s].child # NoPid) <=> (svc[s].pc \in Launched)

(* reclaimDisplay removes stale files only: a server that is up, of a service *)
(* that runs or of one that has died, keeps its lock and its socket, so no    *)
(* two servers are up on one display.                                         *)
RunningKeepsFiles ==
  \A p \in Pids : proc[p].state = "up" =>
    lock[proc[p].display] = p /\ sock[proc[p].display] = p

(* launchXvfb returns a display whose server has finished starting: files     *)
(* left by an earlier server on the same display do not make it look ready.   *)
ReadyMeansUp ==
  \A s \in Services : svc[s].pc = "serving" =>
    /\ proc[svc[s].child].state \notin {"init", "locked"}
    /\ svc[s].child \in XServers => proc[svc[s].child].display = svc[s].disp

(* A service loses no Xvfb it has launched, on whatever path Start or Stop    *)
(* returns: one that runs, or is a zombie, is the one of its Manager.         *)
NoXvfbLost ==
  \A s \in Services, p \in Pids : proc[p].parent = s => svc[s].child = p

(* Start comes to an end, whatever files and processes it meets and whether   *)
(* or not the X server does.                                                  *)
StartEnds ==
  \A s \in Services : svc[s].pc = "read" ~> svc[s].pc \in {"serving", "off"}

(* What the comment on waitReady promises: a crash of the process is noticed  *)
(* at once, so the display of a process that has died is not reported ready.  *)
CrashNoticed ==
  [][\A s \in Services :
       (svc[s].pc = "wait" /\ svc'[s].pc = "serving") => svc[s].child \in XServers]_vars

=============================================================================
