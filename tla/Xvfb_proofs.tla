---------------------------- MODULE Xvfb_proofs ------------------------------
(***************************************************************************)
(* Theorems about Xvfb, for any number of services, of processes and of     *)
(* displays: the servers that are up keep their files, a display that is    *)
(* reported ready is, and no server is lost.                               *)
(***************************************************************************)
EXTENDS Xvfb, TLAPS

-----------------------------------------------------------------------------
(* The places where reclaimDisplay has found the display free, or will make  *)
(* it free.                                                                  *)
Reclaiming == {"recheck", "killing", "rmlock", "rmsock", "stat", "launch"}

Young(p) == proc[p].state \in {"init", "locked"}

(* Start has a display, and its process is an X server on it, or was one.    *)
LocalsOK(s) ==
  /\ svc[s].pc \notin {"off", "read"} => svc[s].disp \in Displays
  /\ svc[s].pc \in {"probe", "recheck", "killing", "rmlock"} => svc[s].seen \in Pids
  /\ svc[s].pc \in Launched =>
       /\ svc[s].child \in Pids
       /\ proc[svc[s].child].parent = s
       /\ proc[svc[s].child].display = svc[s].disp
       /\ proc[svc[s].child].state \notin {"none", "other"}

(* One start at a time, and the only X server on its way is the one it has   *)
(* launched.                                                                 *)
OneStart ==
  \A s \in Services :
    /\ svc[s].pc \in Searching \cup {"wait"} =>
         \A t \in Services \ {s} : svc[t].pc \notin Searching \cup {"wait"}
    /\ svc[s].pc \in Searching => \A p \in Pids : ~Young(p)
    /\ svc[s].pc = "wait" => \A p \in Pids : Young(p) => p = svc[s].child

(* A server has its lock from when it has taken it until it closes. *)
LockOwned ==
  \A p \in Pids : proc[p].state \in {"locked", "up"} => lock[proc[p].display] = p

SocketOwned ==
  \A p \in Pids : proc[p].state = "up" => sock[proc[p].display] = p

(* No server is up on a display whose files are about to go. *)
ReclaimsFree(s) ==
  \A p \in Pids : proc[p].state = "up" /\ proc[p].display = svc[s].disp =>
    /\ svc[s].pc \notin Reclaiming
    /\ svc[s].pc = "probe" => p = svc[s].seen

(* The socket is there only when the server of this start has bound it. *)
FreshSocket(s) ==
  /\ svc[s].pc = "launch" => sock[svc[s].disp] = NoFile
  /\ svc[s].pc = "wait" /\ Young(svc[s].child) => sock[svc[s].disp] = NoFile
  /\ svc[s].pc \in {"serving", "stopping"} => ~Young(svc[s].child)

XvfbInv ==
  /\ TypeOK
  /\ \A s \in Services : LocalsOK(s)
  /\ OneStart
  /\ LockOwned
  /\ SocketOwned
  /\ \A s \in Services : ReclaimsFree(s)
  /\ \A s \in Services : FreshSocket(s)
  /\ NoXvfbLost

-----------------------------------------------------------------------------
InHand(rec) == (rec.child # NoPid) <=> (rec.pc \in Launched)

(* A step of a service changes its own record only. *)
LEMMA ServiceMoves ==
  ASSUME TypeOK, NEW s \in Services, LocalsOK(s), Begin(s) \/ StartStep(s) \/ EndStep(s)
  PROVE  svc'[s] \in SvcRec /\ InHand(svc'[s]) /\ svc' = [svc EXCEPT ![s] = svc'[s]]
<1> DEFINE fits(rec) == svc' = [svc EXCEPT ![s] = rec] /\ rec \in SvcRec /\ InHand(rec)
<1>1. ASSUME NEW rec, fits(rec)
      PROVE  svc'[s] \in SvcRec /\ InHand(svc'[s]) /\ svc' = [svc EXCEPT ![s] = svc'[s]]
  BY <1>1 DEF TypeOK
<1> HIDE DEF fits
<1>2. svc[s] \in SvcRec /\ InHand(svc[s])
  BY DEF TypeOK, InHand
<1>3. Off \in SvcRec /\ InHand(Off)
  BY XvfbAssumption DEF Off, SvcRec, InHand, Launched
<1>4. ASSUME NEW l \in Searching \cup Launched, Goto(s, l),
             l \in Launched <=> svc[s].pc \in Launched
      PROVE  fits([svc[s] EXCEPT !.pc = l])
  <2>1. [svc[s] EXCEPT !.pc = l] \in SvcRec /\ InHand([svc[s] EXCEPT !.pc = l])
    BY <1>2, <1>4 DEF SvcRec, InHand
  <2> QED BY <1>4, <2>1 DEF Goto, fits, TypeOK
<1>5. ASSUME svc[s].disp \in Displays, TryNext(s)
      PROVE  fits(Trying(NextDisplay(svc[s].disp), svc[s].ended))
  <2>1. NextDisplay(svc[s].disp) \in 0 .. Attempts
    BY <1>5, XvfbAssumption DEF NextDisplay, Displays
  <2>2. /\ Trying(NextDisplay(svc[s].disp), svc[s].ended) \in SvcRec
        /\ InHand(Trying(NextDisplay(svc[s].disp), svc[s].ended))
    BY <1>2, <2>1 DEF SvcRec, Searching, Launched, Trying, InHand
  <2> QED BY <1>5, <2>2 DEF TryNext, fits
<1>6. CASE Begin(s)
  <2>1. ASSUME NEW i \in {0} \cup {StartIdx(n) : n \in Displays}
        PROVE  Trying(i, FALSE) \in SvcRec /\ InHand(Trying(i, FALSE))
    BY <2>1, XvfbAssumption
       DEF Trying, SvcRec, Searching, Launched, StartIdx, Displays, InHand
  <2> QED BY <1>1, <1>6, <2>1 DEF Begin, BeginAnyTime, fits
<1>7. CASE ReadLock(s)
  <2>1. svc[s].disp \in Displays
    BY <1>2, <1>7, XvfbAssumption DEF ReadLock, SvcRec, Displays
  <2>2. ASSUME NEW f \in Pids
        PROVE  [svc[s] EXCEPT !.pc = "probe", !.seen = f] \in SvcRec
    BY <1>2, ZenonT(150) DEF SvcRec, Searching
  <2>3. ASSUME NEW f \in Pids, svc' = [svc EXCEPT ![s] = [@ EXCEPT !.pc = "probe", !.seen = f]]
        PROVE  fits([svc[s] EXCEPT !.pc = "probe", !.seen = f])
    BY <1>2, <1>7, <2>2, <2>3 DEF fits, TypeOK, ReadLock, SvcRec, InHand, Launched
  <2>4. CASE lock[svc[s].disp] \in Pids
    BY <1>1, <1>7, <2>3, <2>4, XvfbAssumption DEF ReadLock
  <2>5. CASE lock[svc[s].disp] \notin Pids
    BY <1>1, <1>4, <1>5, <1>7, <2>1, <2>5 DEF ReadLock, Searching, Launched
  <2> QED BY <2>4, <2>5
<1>8. CASE Launch(s)
  <2>1. ASSUME NEW p \in Pids, svc' = [svc EXCEPT ![s] = [@ EXCEPT !.pc = "wait", !.child = p]]
        PROVE  fits([svc[s] EXCEPT !.pc = "wait", !.child = p])
    <3>1. [svc[s] EXCEPT !.pc = "wait", !.child = p] \in SvcRec
      BY <1>2, ZenonT(150) DEF SvcRec, Launched
    <3> QED BY <1>2, <2>1, <3>1, XvfbAssumption DEF fits, TypeOK, SvcRec, InHand, Launched
  <2> QED BY <1>1, <1>8, <2>1 DEF Launch
<1>9. CASE RemoveLock(s)
  <2>1. [svc[s] EXCEPT !.pc = "rmsock", !.seen = NoPid] \in SvcRec
    BY <1>2, ZenonT(150) DEF SvcRec, Searching
  <2> QED BY <1>1, <1>2, <1>9, <2>1 DEF RemoveLock, fits, TypeOK, SvcRec, InHand, Launched
<1>10. CASE Signal(s)
  <2>1. [svc[s] EXCEPT !.ended = TRUE] \in SvcRec
    BY <1>2 DEF SvcRec
  <2> QED BY <1>1, <1>2, <1>10, <2>1 DEF Signal, fits, TypeOK, SvcRec, InHand
<1>11. CASE Exhausted(s) \/ Stopped(s) \/ Dies(s)
  BY <1>1, <1>3, <1>11 DEF Exhausted, Stopped, Dies, fits
<1>12. CASE Probe(s) \/ KillAndWait(s) \/ LaunchFails(s) \/ NotReady(s)
  <2>1. svc[s].disp \in Displays
    BY <1>12 DEF LocalsOK, Probe, KillAndWait, LaunchFails, NotReady
  <2> QED BY <1>1, <1>4, <1>5, <1>12, <2>1
          DEF Probe, KillAndWait, LaunchFails, NotReady, Searching, Launched
<1>13. CASE Recheck(s) \/ RemoveSocket(s) \/ StatSocket(s) \/ Ready(s) \/ Stop(s)
  BY <1>1, <1>4, <1>13
     DEF Recheck, RemoveSocket, StatSocket, Ready, Stop, Searching, Launched
<1>14. CASE ContextKills(s)
  BY <1>2, <1>14 DEF ContextKills, TypeOK
<1> QED BY <1>6, <1>7, <1>8, <1>9, <1>10, <1>11, <1>12, <1>13, <1>14 DEF StartStep, EndStep



-----------------------------------------------------------------------------
(* Records stay records. *)
LEMMA TypeInductive ==
  ASSUME TypeOK, \A s \in Services : LocalsOK(s), [Next]_vars
  PROVE  TypeOK'
<1>1. /\ svc \in [Services -> SvcRec] /\ \A s \in Services : InHand(svc[s])
      /\ lock \in [Displays -> Pids \cup {NoFile, Unreadable}]
      /\ sock \in [Displays -> Pids \cup {NoFile}]
      /\ proc \in [Pids -> ProcRec]
  BY DEF TypeOK, InHand
<1>2. Free \in ProcRec /\ Other \in ProcRec /\ Off \in SvcRec /\ InHand(Off)
  BY XvfbAssumption
     DEF Off, SvcRec, InHand, Launched, Free, Other, ProcRec, Displays, Nobody
<1>3. ASSUME NEW p \in Pids PROVE Dead(p) \in ProcRec
  BY <1>1, <1>2 DEF Dead, ProcRec
<1>4. ASSUME NEW p \in Pids, NEW l \in {"locked", "up", "closing", proc[p].state}
      PROVE  [proc EXCEPT ![p].state = l] \in [Pids -> ProcRec]
  BY <1>1 DEF ProcRec
<1>5. ASSUME NEW s \in Services, Begin(s) \/ StartStep(s) \/ EndStep(s) PROVE TypeOK'
  <2>1. svc'[s] \in SvcRec /\ InHand(svc'[s]) /\ svc' = [svc EXCEPT ![s] = svc'[s]]
    BY <1>5, ServiceMoves
  <2>2. svc' \in [Services -> SvcRec] /\ \A t \in Services : InHand(svc'[t])
    BY <1>1, <2>1
  <2>3. CASE UNCHANGED <<lock, sock, proc>>
    BY <1>1, <2>2, <2>3 DEF TypeOK, InHand
  <2>4. CASE RemoveLock(s) \/ RemoveSocket(s)
    BY <1>1, <2>2, <2>4 DEF TypeOK, InHand, RemoveLock, RemoveSocket, SocketRemoved
  <2>5. ASSUME UNCHANGED <<lock, sock>>, proc' \in [Pids -> ProcRec] PROVE TypeOK'
    BY <1>1, <2>2, <2>5 DEF TypeOK, InHand
  <2>6. CASE Launch(s)
    <3>1. svc[s].disp \in Displays
      BY <2>6 DEF LocalsOK, Launch
    <3>2. [state |-> "init", display |-> svc[s].disp, parent |-> s] \in ProcRec
      BY <3>1 DEF ProcRec
    <3> QED BY <1>1, <2>5, <2>6, <3>2 DEF Launch
  <2>7. CASE NotReady(s) \/ Stopped(s)
    BY <1>1, <1>2, <2>5, <2>7 DEF NotReady, Stopped, KilledAndWaited
  <2>8. CASE ContextKills(s)
    BY <1>1, <1>3, <2>5, <2>8 DEF ContextKills, XServers
  <2>9. CASE Stop(s)
    BY <1>1, <1>4, <2>5, <2>9 DEF Stop, XServers, LocalsOK, Launched
  <2>10. CASE Dies(s)
    <3>1. ASSUME NEW p \in Pids PROVE Orphaned(p) \in ProcRec
      BY <1>1, <1>2 DEF Orphaned, ProcRec
    <3> QED BY <1>1, <2>5, <2>10, <3>1 DEF Dies
  <2> QED BY <1>5, <2>3, <2>4, <2>6, <2>7, <2>8, <2>9, <2>10
          DEF StartStep, EndStep, Begin, BeginAnyTime, Exhausted, ReadLock, Probe, Recheck,
              KillAndWait,
              StatSocket, LaunchFails, Ready, Signal
<1>6. CASE Restart
  BY <1>1, <1>2, <1>6 DEF TypeOK, InHand, Restart
<1>7. ASSUME NEW p \in Pids, XStep(p) \/ OtherProcess(p) PROVE TypeOK'
  <2>1. proc' \in [Pids -> ProcRec]
    BY <1>1, <1>2, <1>3, <1>4, <1>7
       DEF XStep, XLocks, XBinds, XCrashes, XExits, OtherProcess
  <2>2. svc' = svc
    BY <1>7 DEF XStep, XLocks, XBinds, XCrashes, XExits, OtherProcess
  <2>3. /\ lock' \in [Displays -> Pids \cup {NoFile, Unreadable}]
        /\ sock' \in [Displays -> Pids \cup {NoFile}]
    BY <1>1, <1>7 DEF XStep, XLocks, XBinds, XCrashes, XExits, OtherProcess
  <2> QED BY <1>1, <2>1, <2>2, <2>3 DEF TypeOK, InHand
<1>8. CASE UNCHANGED vars
  BY <1>8 DEF TypeOK, vars
<1> QED BY <1>5, <1>6, <1>7, <1>8 DEF Next

-----------------------------------------------------------------------------
(* What a service goes on with when it has looked at a lock. *)
LEMMA LockRead ==
  ASSUME TypeOK, NEW s \in Services, ReadLock(s)
  PROVE  /\ svc[s].disp \in Displays
         /\ \/ svc'[s].pc = "read"
            \/ svc'[s].pc = "stat" /\ svc'[s].disp = svc[s].disp /\ lock[svc[s].disp] \notin Pids
            \/ /\ svc'[s].pc = "probe" /\ svc'[s].disp = svc[s].disp
               /\ svc'[s].seen = lock[svc[s].disp] /\ svc'[s].seen \in Pids
<1>1. svc \in [Services -> SvcRec] /\ lock \in [Displays -> Pids \cup {NoFile, Unreadable}]
  BY DEF TypeOK
<1>2. svc[s].disp \in Displays
  BY <1>1, XvfbAssumption DEF ReadLock, SvcRec, Displays
<1>3. CASE lock[svc[s].disp] \in Pids
  <2>1. svc' = [svc EXCEPT ![s] = [@ EXCEPT !.pc = "probe", !.seen = lock[svc[s].disp]]]
    BY <1>3, XvfbAssumption DEF ReadLock
  <2> QED BY <1>1, <1>2, <1>3, <2>1 DEF SvcRec
<1>4. CASE lock[svc[s].disp] \in {NoFile, Unreadable} /\ Goto(s, "stat")
  BY XvfbAssumption, <1>1, <1>2, <1>4 DEF Goto, SvcRec
<1>5. CASE TryNext(s)
  BY <1>1, <1>2, <1>5 DEF TryNext, Trying
<1> QED BY <1>3, <1>4, <1>5 DEF ReadLock

-----------------------------------------------------------------------------
(* A service keeps the process it has in hand: no one else frees its pid. *)
LEMMA LocalsInductive ==
  ASSUME TypeOK, \A s \in Services : LocalsOK(s), [Next]_vars, NEW s \in Services
  PROVE  LocalsOK(s)'
<1>1. /\ svc \in [Services -> SvcRec] /\ lock \in [Displays -> Pids \cup {NoFile, Unreadable}]
      /\ proc \in [Pids -> ProcRec] /\ LocalsOK(s)
  BY DEF TypeOK
<1>2. ASSUME svc'[s] = svc[s],
             svc[s].pc \in Launched => proc'[svc[s].child] = proc[svc[s].child]
      PROVE  LocalsOK(s)'
  BY <1>1, <1>2 DEF LocalsOK
<1>8. ASSUME svc'[s] = svc[s], NEW l \in {"locked", "up", "zombie"},
             proc'[svc[s].child] = [proc[svc[s].child] EXCEPT !.state = l]
      PROVE  LocalsOK(s)'
  BY <1>1, <1>8 DEF LocalsOK, ProcRec
<1>3. CASE Begin(s) \/ StartStep(s) \/ EndStep(s)
  <2>1. svc'[s] \in SvcRec /\ InHand(svc'[s]) /\ svc' = [svc EXCEPT ![s] = svc'[s]]
    BY <1>3, ServiceMoves
  <2>2. CASE svc'[s].pc \in {"off", "read"}
    BY <2>2 DEF LocalsOK, Launched
  <2>3. CASE ReadLock(s)
    BY <2>2, <2>3, LockRead DEF LocalsOK, Launched
  <2>4. CASE Goto(s, svc'[s].pc) /\ svc[s].pc \notin {"off", "read"} /\ UNCHANGED proc
             /\ (svc'[s].pc \in Launched => svc[s].pc \in Launched)
             /\ (svc'[s].pc \in {"recheck", "killing", "rmlock"} =>
                   svc[s].pc \in {"probe", "recheck", "killing"})
             /\ svc'[s].pc # "probe"
    BY <1>1, <2>4 DEF Goto, SvcRec, LocalsOK
  <2>5. CASE Probe(s) \/ Recheck(s) \/ KillAndWait(s) \/ RemoveSocket(s) \/ StatSocket(s)
              \/ Ready(s)
    <3>1. CASE TryNext(s)
      BY <1>1, <2>2, <3>1 DEF TryNext, Trying
    <3>2. CASE Goto(s, svc'[s].pc)
      <4>1. svc[s].pc \in {"probe", "recheck", "killing", "rmsock", "stat", "wait"}
        BY <2>5 DEF Probe, Recheck, KillAndWait, RemoveSocket, StatSocket, Ready
      <4>2. CASE svc[s].pc \in {"probe", "recheck", "killing"}
        <5>1. svc'[s].pc \in {"read", "recheck", "killing", "rmlock"}
          BY <1>1, <2>5, <4>2 DEF Probe, Recheck, KillAndWait, RemoveSocket, StatSocket,
               Ready, Goto, TryNext, Trying, SvcRec
        <5> QED BY <2>4, <2>5, <3>2, <4>2, <5>1
                DEF Launched, Probe, Recheck, KillAndWait, RemoveSocket, StatSocket, Ready
      <4>3. CASE svc[s].pc \in {"rmsock", "stat", "wait"}
        <5>1. svc'[s].pc \in {"launch", "rmsock", "serving"}
              /\ (svc'[s].pc = "serving" => svc[s].pc = "wait")
          BY <1>1, <2>5, <4>3 DEF Probe, Recheck, KillAndWait, RemoveSocket, StatSocket,
               Ready, Goto, SvcRec
        <5> QED BY <2>4, <2>5, <3>2, <4>3, <5>1
                DEF Launched, Probe, Recheck, KillAndWait, RemoveSocket, StatSocket, Ready
      <4> QED BY <4>1, <4>2, <4>3
    <3> QED BY <1>1, <2>5, <3>1, <3>2
            DEF Probe, Recheck, KillAndWait, RemoveSocket, StatSocket, Ready, Goto, SvcRec
  <2>6. CASE RemoveLock(s)
    BY <1>1, <2>6 DEF RemoveLock, LocalsOK, Launched
  <2>7. CASE Launch(s)
    BY <1>1, <2>7 DEF Launch, LocalsOK, Launched
  <2>8. CASE Stop(s)
    BY <1>1, <2>8 DEF Stop, Goto, LocalsOK, Launched, ProcRec
  <2>9. CASE Signal(s)
    BY <1>1, <2>9 DEF Signal, LocalsOK
  <2>10. CASE ContextKills(s)
    <3>1. svc[s].pc \in Launched
      BY <1>1, <2>10, XvfbAssumption DEF ContextKills, XServers, TypeOK
    <3>2. Dead(svc[s].child) = [proc[svc[s].child] EXCEPT !.state = "zombie"]
      BY <1>1, <3>1, XvfbAssumption DEF Dead, LocalsOK, Nobody
    <3> QED BY <1>1, <1>8, <2>10, <3>1, <3>2 DEF ContextKills, LocalsOK
  <2>11. CASE Begin(s) \/ Exhausted(s) \/ LaunchFails(s) \/ NotReady(s) \/ Stopped(s) \/ Dies(s)
    BY <1>1, <2>2, <2>11
       DEF Begin, BeginAnyTime, Exhausted, LaunchFails, NotReady, Stopped, Dies, TryNext, Trying,
           Off
  <2> QED BY <1>3, <2>3, <2>5, <2>6, <2>7, <2>8, <2>9, <2>10, <2>11 DEF StartStep, EndStep
<1>4. ASSUME NEW t \in Services \ {s}, Begin(t) \/ StartStep(t) \/ EndStep(t)
      PROVE  LocalsOK(s)'
  <2>1. svc'[s] = svc[s]
    BY <1>1, <1>4, ServiceMoves
  <2>2. CASE UNCHANGED proc
    BY <1>1, <1>2, <2>1, <2>2 DEF LocalsOK
  <2>3. ASSUME LocalsOK(t), svc[t].pc \in Launched, NEW rec,
               proc' = [proc EXCEPT ![svc[t].child] = rec]
        PROVE  LocalsOK(s)'
    BY <1>1, <1>2, <2>1, <2>3 DEF LocalsOK
  <2>4. CASE Launch(t)
    BY <1>1, <1>2, <2>1, <2>4 DEF Launch, LocalsOK, Free
  <2>5. CASE NotReady(t) \/ Stopped(t)
    BY <2>3, <2>5 DEF NotReady, Stopped, Launched
  <2>6. CASE ContextKills(t)
    BY <1>1, <2>3, <2>6, XvfbAssumption DEF ContextKills, TypeOK, XServers
  <2>7. CASE Stop(t)
    <3>1. PICK l : proc' = [proc EXCEPT ![svc[t].child].state = l]
      BY <2>7 DEF Stop
    <3>2. proc' = [proc EXCEPT ![svc[t].child] = [proc[svc[t].child] EXCEPT !.state = l]]
      BY <1>1, <2>7, <3>1 DEF Stop, LocalsOK, Launched
    <3> QED BY <2>3, <2>7, <3>2 DEF Stop, Launched
  <2>8. CASE Dies(t)
    <3>1. ASSUME svc[s].pc \in Launched PROVE proc'[svc[s].child] = proc[svc[s].child]
      BY <1>1, <1>4, <2>8, <3>1 DEF Dies, LocalsOK
    <3> QED BY <1>2, <2>1, <3>1
  <2> QED BY <1>4, <2>2, <2>4, <2>5, <2>6, <2>7, <2>8
          DEF StartStep, EndStep, Begin, BeginAnyTime, Exhausted, ReadLock, Probe, Recheck,
              KillAndWait,
              RemoveLock, RemoveSocket, StatSocket, LaunchFails, Ready, Signal
<1>5. CASE Restart
  BY <1>5 DEF Restart, LocalsOK, Off, Launched
<1>6. ASSUME NEW p \in Pids, XStep(p) \/ OtherProcess(p) PROVE LocalsOK(s)'
  <2>1. svc' = svc
    BY <1>6 DEF XStep, XLocks, XBinds, XCrashes, XExits, OtherProcess
  <2>2. CASE XLocks(p) \/ XBinds(p)
    <3>1. PICK l \in {"locked", "up"} : proc' = [proc EXCEPT ![p].state = l]
      BY <2>2 DEF XLocks, XBinds
    <3>2. CASE svc[s].pc \in Launched /\ p = svc[s].child
      <4>1. proc'[svc[s].child] = [proc[svc[s].child] EXCEPT !.state = l]
        BY <1>1, <3>1, <3>2
      <4> QED BY <1>8, <2>1, <4>1
    <3>3. CASE ~(svc[s].pc \in Launched /\ p = svc[s].child)
      BY <1>1, <1>2, <2>1, <3>1, <3>3 DEF LocalsOK
    <3> QED BY <3>2, <3>3
  <2>3. CASE XCrashes(p) \/ XExits(p)
    <3>1. proc' = [proc EXCEPT ![p] = Dead(p)]
      BY <2>3 DEF XCrashes, XExits
    <3>2. CASE svc[s].pc \in Launched /\ p = svc[s].child
      <4>1. Dead(p) = [proc[p] EXCEPT !.state = "zombie"]
        BY <1>1, <3>2, XvfbAssumption DEF Dead, LocalsOK, Nobody
      <4> QED BY <1>1, <1>8, <2>1, <3>1, <3>2, <4>1
    <3>3. CASE ~(svc[s].pc \in Launched /\ p = svc[s].child)
      BY <1>1, <1>2, <2>1, <3>1, <3>3 DEF LocalsOK
    <3> QED BY <3>2, <3>3
  <2>4. CASE OtherProcess(p)
    BY <1>1, <1>2, <2>1, <2>4 DEF OtherProcess, LocalsOK, Free, Other
  <2> QED BY <1>6, <2>2, <2>3, <2>4 DEF XStep
<1>7. CASE UNCHANGED vars
  BY <1>1, <1>2, <1>7 DEF vars, LocalsOK
<1> QED BY <1>3, <1>4, <1>5, <1>6, <1>7 DEF Next

-----------------------------------------------------------------------------
(* A process that is a starting or a running server after a step was one     *)
(* already, or the step is the one that launches it or brings it forward.    *)
Server(p) == proc[p].state \in {"init", "locked", "up"}

Same(p) == /\ Server(p)
           /\ proc'[p].state = proc[p].state
           /\ proc'[p].display = proc[p].display

Launches(s, p) == /\ Launch(s)
                  /\ proc[p] = Free
                  /\ svc'[s] = [svc[s] EXCEPT !.pc = "wait", !.child = p]
                  /\ proc' = [proc EXCEPT ![p] = [state |-> "init",
                                display |-> svc[s].disp, parent |-> s]]

LEMMA ServerMoves ==
  ASSUME TypeOK, \A s \in Services : LocalsOK(s), [Next]_vars, NEW p \in Pids, Server(p)'
  PROVE  Same(p) \/ XLocks(p) \/ XBinds(p) \/ \E s \in Services : Launches(s, p)
<1>1. svc \in [Services -> SvcRec] /\ proc \in [Pids -> ProcRec]
  BY DEF TypeOK
<1>2. ASSUME proc'[p] = proc[p] PROVE Same(p)
  BY <1>2 DEF Same, Server
<1>3. ASSUME NEW q \in Pids, NEW rec, rec.state \notin {"init", "locked", "up"},
             proc' = [proc EXCEPT ![q] = rec]
      PROVE  Same(p)
  BY <1>1, <1>2, <1>3 DEF Same, Server
<1>4. ASSUME NEW q \in Pids PROVE Dead(q).state \notin {"init", "locked", "up"}
  BY <1>1 DEF Dead, Free, ProcRec
<1>5. ASSUME NEW s \in Services, Begin(s) \/ StartStep(s) \/ EndStep(s)
      PROVE  Same(p) \/ \E t \in Services : Launches(t, p)
  <2>1. CASE UNCHANGED proc
    BY <1>2, <2>1
  <2>2. CASE Launch(s)
    <3>1. PICK q \in Pids :
            /\ proc[q] = Free
            /\ proc' = [proc EXCEPT ![q] = [state |-> "init", display |-> svc[s].disp,
                                            parent |-> s]]
            /\ svc' = [svc EXCEPT ![s] = [@ EXCEPT !.pc = "wait", !.child = q]]
      BY <2>2 DEF Launch
    <3>2. CASE q = p
      BY <1>1, <2>2, <3>1, <3>2 DEF Launches
    <3>3. CASE q # p
      BY <1>1, <1>2, <3>1, <3>3
    <3> QED BY <3>2, <3>3
  <2>3. CASE NotReady(s) \/ Stopped(s)
    <3>1. svc[s].child \in Pids
      BY <2>3 DEF NotReady, Stopped, LocalsOK, Launched
    <3> QED BY <1>3, <2>3, <3>1 DEF NotReady, Stopped, KilledAndWaited, Free
  <2>4. CASE ContextKills(s)
    BY <1>3, <1>4, <2>4 DEF ContextKills, XServers
  <2>5. CASE Stop(s)
    <3>1. svc[s].child \in Pids
      BY <2>5 DEF Stop, LocalsOK, Launched
    <3>2. CASE svc[s].child = p /\ p \in XServers
      BY <1>1, <2>5, <3>1, <3>2 DEF Stop, Server, ProcRec
    <3>3. CASE svc[s].child # p \/ p \notin XServers
      BY <1>1, <2>5, <3>1, <3>3 DEF Stop, Same, Server, XServers, ProcRec
    <3> QED BY <3>2, <3>3
  <2>6. CASE Dies(s)
    BY <1>1, <2>6 DEF Dies, Orphaned, Same, Server, Free, ProcRec
  <2> QED BY <1>5, <2>1, <2>2, <2>3, <2>4, <2>5, <2>6
          DEF StartStep, EndStep, Begin, BeginAnyTime, Exhausted, ReadLock, Probe, Recheck,
              KillAndWait,
              RemoveLock, RemoveSocket, StatSocket, LaunchFails, Ready, Signal
<1>6. CASE Restart
  BY <1>6 DEF Restart, Server, Free
<1>7. ASSUME NEW q \in Pids, XStep(q) \/ OtherProcess(q)
      PROVE  Same(p) \/ XLocks(p) \/ XBinds(p)
  <2>1. CASE XLocks(q) \/ XBinds(q)
    BY <1>1, <1>2, <2>1 DEF XLocks, XBinds
  <2>2. CASE XCrashes(q) \/ XExits(q)
    BY <1>3, <1>4, <2>2 DEF XCrashes, XExits
  <2>3. CASE OtherProcess(q)
    BY <1>1, <1>2, <2>3 DEF OtherProcess, Server, Free, Other
  <2> QED BY <1>7, <2>1, <2>2, <2>3 DEF XStep
<1>8. CASE UNCHANGED vars
  BY <1>2, <1>8 DEF vars
<1> QED BY <1>5, <1>6, <1>7, <1>8 DEF Next

(* A file changes when its display is reclaimed, or by the server that makes *)
(* it or takes it away.                                                      *)
LEMMA LockMoves ==
  ASSUME TypeOK, [Next]_vars, NEW d \in Displays, lock'[d] # lock[d]
  PROVE  \/ \E s \in Services : RemoveLock(s) /\ svc[s].disp = d
         \/ \E p \in Pids : /\ XLocks(p) /\ proc[p].display = d /\ lock'[d] = p
                            /\ lock[d] = NoFile \/ (lock[d] \in Pids /\ ~ProcessAlive(lock[d]))
         \/ \E p \in Pids : XExits(p) /\ lock[d] = p
<1>1. lock \in [Displays -> Pids \cup {NoFile, Unreadable}]
  BY DEF TypeOK
<1>2. CASE \E s \in Services : Begin(s) \/ StartStep(s) \/ EndStep(s)
  BY <1>1, <1>2 DEF StartStep, EndStep, Begin, BeginAnyTime, Exhausted, ReadLock, Probe, Recheck,
       KillAndWait, RemoveLock, RemoveSocket, StatSocket, Launch, LaunchFails, Ready,
       NotReady, Signal, ContextKills, Stop, Stopped, Dies
<1>3. ASSUME NEW p \in Pids, XStep(p) \/ OtherProcess(p)
      PROVE  \/ /\ XLocks(p) /\ proc[p].display = d /\ lock'[d] = p
                /\ lock[d] = NoFile \/ (lock[d] \in Pids /\ ~ProcessAlive(lock[d]))
             \/ XExits(p) /\ lock[d] = p
  <2>1. CASE XLocks(p)
    BY <1>1, <2>1 DEF XLocks
  <2>2. CASE XExits(p)
    BY <1>1, <2>2 DEF XExits
  <2> QED BY <1>3, <2>1, <2>2 DEF XStep, XBinds, XCrashes, OtherProcess
<1> QED BY <1>2, <1>3 DEF Next, Restart, vars

LEMMA SocketMoves ==
  ASSUME TypeOK, [Next]_vars, NEW d \in Displays, sock'[d] # sock[d]
  PROVE  \/ \E s \in Services : RemoveSocket(s) /\ svc[s].disp = d
         \/ \E p \in Pids : XBinds(p) /\ proc[p].display = d /\ sock'[d] = p
         \/ \E p \in Pids : XExits(p) /\ sock[d] = p
<1>1. sock \in [Displays -> Pids \cup {NoFile}]
  BY DEF TypeOK
<1>2. CASE \E s \in Services : Begin(s) \/ StartStep(s) \/ EndStep(s)
  BY <1>1, <1>2 DEF StartStep, EndStep, Begin, BeginAnyTime, Exhausted, ReadLock, Probe, Recheck,
       KillAndWait, RemoveLock, RemoveSocket, StatSocket, Launch, LaunchFails, Ready,
       NotReady, Signal, ContextKills, Stop, Stopped, Dies
<1>3. CASE \E p \in Pids : XStep(p) \/ OtherProcess(p)
  BY <1>1, <1>3 DEF XStep, XLocks, XBinds, XCrashes, XExits, OtherProcess
<1> QED BY <1>2, <1>3 DEF Next, Restart, vars

-----------------------------------------------------------------------------
(* How a service gets to where it is. *)
LEMMA PlaceMoves ==
  ASSUME TypeOK, \A s \in Services : LocalsOK(s), [Next]_vars, NEW s \in Services
  PROVE  /\ svc'[s].pc \in Searching =>
              svc[s].pc \in Searching \/ NotReady(s) \/ Begin(s)
         /\ svc'[s].pc = "wait" =>
              \/ /\ svc[s].pc = "wait"
                 /\ svc'[s].child = svc[s].child /\ svc'[s].disp = svc[s].disp
              \/ \E p \in Pids : Launches(s, p)
         /\ svc'[s].pc \in {"serving", "stopping"} =>
              /\ svc[s].pc \in {"serving", "stopping"} \/ Ready(s)
              /\ svc'[s].child = svc[s].child
         /\ svc'[s] = svc[s] \/ Begin(s) \/ StartStep(s) \/ EndStep(s) \/ Restart
<1>1. svc \in [Services -> SvcRec] /\ LocalsOK(s)
  BY DEF TypeOK
<1>2. CASE svc'[s] = svc[s]
  BY <1>2
<1>3. CASE Restart
  BY <1>3 DEF Restart, Off, Searching
<1>4. CASE Begin(s) \/ StartStep(s) \/ EndStep(s)
  <2>1. CASE Begin(s)
    <3>1. svc'[s].pc = "read"
      BY <1>1, <2>1 DEF Begin, BeginAnyTime, Trying
    <3> QED BY <2>1, <3>1
  <2>2. CASE Launch(s)
    <3>1. PICK p \in Pids :
            /\ proc[p] = Free
            /\ proc' = [proc EXCEPT ![p] = [state |-> "init", display |-> svc[s].disp,
                                            parent |-> s]]
            /\ svc' = [svc EXCEPT ![s] = [@ EXCEPT !.pc = "wait", !.child = p]]
      BY <2>2 DEF Launch
    <3>2. Launches(s, p) /\ svc'[s].pc = "wait"
      BY <1>1, <2>2, <3>1 DEF Launches, SvcRec
    <3> QED BY <1>4, <3>2 DEF Searching
  <2>3. CASE svc[s].pc \in Searching /\ ~Launch(s)
    <3>1. svc'[s].pc \notin Launched
      <4> USE DEF Launched
      <4>1. CASE Probe(s) \/ Recheck(s) \/ KillAndWait(s) \/ RemoveSocket(s) \/ StatSocket(s)
        BY <1>1, <4>1 DEF Probe, Recheck, KillAndWait, RemoveSocket, StatSocket,
             Goto, TryNext, Trying, SvcRec
      <4>2. CASE LaunchFails(s) \/ Exhausted(s) \/ Dies(s)
        BY <1>1, <4>2 DEF LaunchFails, Exhausted, Dies, TryNext, Trying, Off
      <4>4. CASE ReadLock(s)
        BY <4>4, LockRead
      <4>5. CASE RemoveLock(s)
        BY <1>1, <4>5 DEF RemoveLock, SvcRec
      <4>3. CASE Signal(s) \/ ContextKills(s)
        BY <1>1, <2>3, <4>3 DEF Signal, ContextKills, Searching, SvcRec
      <4> QED BY <1>4, <2>3, <4>1, <4>2, <4>3, <4>4, <4>5
              DEF Begin, BeginAnyTime, StartStep, EndStep, Ready, NotReady, Stop, Stopped, Searching
    <3> QED BY <1>4, <2>3, <3>1 DEF Launched
  <2>4. CASE svc[s].pc \in Launched
    <3>1. NotReady(s) \/ Ready(s) \/ Signal(s) \/ ContextKills(s) \/ Stop(s) \/ Stopped(s)
            \/ Dies(s)
      BY <1>4, <2>4 DEF Begin, BeginAnyTime, StartStep, EndStep, Exhausted, ReadLock, Probe,
                        Recheck,
           KillAndWait, RemoveLock, RemoveSocket, StatSocket, Launch, LaunchFails, Launched
    <3>2. CASE Ready(s) \/ Stop(s) \/ Stopped(s) \/ Dies(s)
      BY <1>1, <1>4, <3>2 DEF Ready, Stop, Stopped, Dies, Goto, Off, Searching, SvcRec
    <3>3. CASE Signal(s) \/ ContextKills(s)
      BY <1>1, <1>4, <2>4, <3>3 DEF Signal, ContextKills, Searching, Launched, SvcRec
    <3>4. CASE NotReady(s)
      BY <1>1, <1>4, <3>4 DEF NotReady, TryNext, Trying
    <3> QED BY <3>1, <3>2, <3>3, <3>4
  <2>5. CASE svc[s].pc = "off" /\ ~Begin(s)
    <3>1. ContextKills(s)
      BY <1>4, <2>5 DEF StartStep, EndStep, Exhausted, ReadLock, Probe, Recheck,
           KillAndWait, RemoveLock, RemoveSocket, StatSocket, Launch, LaunchFails, Ready,
           NotReady, Signal, Stop, Stopped, Dies
    <3> QED BY <1>2, <3>1 DEF ContextKills
  <2> QED BY <1>1, <2>1, <2>2, <2>3, <2>4, <2>5 DEF SvcRec
<1>5. ASSUME NEW t \in Services \ {s}, Begin(t) \/ StartStep(t) \/ EndStep(t)
      PROVE  svc'[s] = svc[s]
  BY <1>1, <1>5, ServiceMoves
<1>6. ASSUME NEW p \in Pids, XStep(p) \/ OtherProcess(p) PROVE svc' = svc
  BY <1>6 DEF XStep, XLocks, XBinds, XCrashes, XExits, OtherProcess
<1> QED BY <1>2, <1>3, <1>4, <1>5, <1>6 DEF Next, vars

Busy(s) == svc[s].pc \in Searching \cup {"wait"}

(* Two starts never overlap, and no server is on its way but the one of the   *)
(* start that waits for it.                                                   *)
LEMMA OneStartInductive ==
  ASSUME TypeOK, \A s \in Services : LocalsOK(s), OneStart, [Next]_vars
  PROVE  OneStart'
<1>1. svc \in [Services -> SvcRec] /\ proc \in [Pids -> ProcRec]
  BY DEF TypeOK
<1>2. ASSUME NEW s \in Services, NEW t \in Services \ {s}, Busy(s)', Busy(t)'
      PROVE  FALSE
  <2>1. (Busy(s) \/ Begin(s)) /\ (Busy(t) \/ Begin(t))
    BY <1>2, PlaceMoves DEF Busy, NotReady, Launches, Launch, Searching
  <2>2. ASSUME NEW x \in Services, NEW y \in Services \ {x}, Begin(x), Busy(y)'
        PROVE  FALSE
    <3>1. svc'[y] = svc[y]
      BY <1>1, <2>2, ServiceMoves
    <3> QED BY <2>2, <3>1 DEF Begin, BeginAnyTime, Quiet, Busy
  <2>3. CASE Busy(s) /\ Busy(t)
    BY <1>2, <2>3 DEF OneStart, Busy
  <2> QED BY <1>2, <2>1, <2>2, <2>3
<1>3. ASSUME NEW s \in Services, svc'[s].pc \in Searching, NEW p \in Pids, Young(p)'
      PROVE  FALSE
  <2>1. CASE Young(p)
    <3>1. CASE svc[s].pc \in Searching
      BY <2>1, <3>1 DEF OneStart
    <3>2. CASE Begin(s)
      BY <2>1, <3>2 DEF Begin, BeginAnyTime, Quiet, Young
    <3>3. CASE NotReady(s)
      <4>1. p = svc[s].child /\ svc[s].child \in Pids
        BY <2>1, <3>3 DEF OneStart, NotReady, LocalsOK, Launched
      <4> QED BY <1>1, <1>3, <3>3, <4>1 DEF NotReady, KilledAndWaited, Free, Young
    <3> QED BY <1>3, <3>1, <3>2, <3>3, PlaceMoves
  <2>2. ASSUME NEW t \in Services, Launches(t, p) PROVE FALSE
    <3>1. svc'[t].pc = "wait"
      BY <1>1, <2>2 DEF Launches, SvcRec
    <3> QED BY <1>2, <1>3, <3>1 DEF Busy, Searching
  <2>3. Server(p)'
    BY <1>3 DEF Young, Server
  <2> QED BY <1>1, <1>3, <2>1, <2>2, <2>3, ServerMoves
          DEF Same, XLocks, XBinds, Young
<1>4. ASSUME NEW s \in Services, svc'[s].pc = "wait", NEW p \in Pids, Young(p)'
      PROVE  p = svc'[s].child
  <2>1. CASE Young(p)
    <3>1. svc[s].pc = "wait" /\ svc'[s].child = svc[s].child
      BY <1>4, <2>1, PlaceMoves DEF OneStart, Launches, Launch, Searching
    <3> QED BY <2>1, <3>1 DEF OneStart
  <2>2. ASSUME NEW t \in Services, Launches(t, p) PROVE p = svc'[s].child
    <3>1. svc'[t].pc = "wait" /\ svc'[t].child = p
      BY <1>1, <2>2 DEF Launches, SvcRec
    <3> QED BY <1>2, <1>4, <3>1 DEF Busy
  <2>3. Server(p)'
    BY <1>4 DEF Young, Server
  <2> QED BY <1>1, <1>4, <2>1, <2>2, <2>3, ServerMoves
          DEF Same, XLocks, XBinds, Young
<1> QED BY <1>2, <1>3, <1>4 DEF OneStart, Busy

-----------------------------------------------------------------------------
(* No one takes a lock or a socket from a server that lives: a service would  *)
(* have found its pid in the lock, and a server has to hold the lock to bind. *)
LEMMA LockOwnedInductive ==
  ASSUME XvfbInv, [Next]_vars
  PROVE  LockOwned'
<1>1. /\ lock \in [Displays -> Pids \cup {NoFile, Unreadable}] /\ proc \in [Pids -> ProcRec]
      /\ TypeOK /\ \A s \in Services : LocalsOK(s)
  BY DEF XvfbInv, TypeOK
<1>2. SUFFICES ASSUME NEW p \in Pids, proc'[p].state \in {"locked", "up"}
               PROVE  lock'[proc'[p].display] = p
  BY DEF LockOwned
<1>3. Server(p)'
  BY <1>2 DEF Server
<1>4. CASE XLocks(p)
  BY <1>1, <1>4 DEF XLocks, ProcRec
<1>5. CASE ~XLocks(p)
  <2>1. /\ proc[p].state \in {"locked", "up"} /\ proc'[p].display = proc[p].display
    <3>1. CASE Same(p)
      BY <1>2, <3>1 DEF Same
    <3>2. CASE XBinds(p)
      BY <1>1, <3>2 DEF XBinds, ProcRec
    <3>3. ASSUME NEW s \in Services, Launches(s, p) PROVE FALSE
      BY <1>1, <1>2, <3>3 DEF Launches
    <3> QED BY <1>1, <1>3, <1>5, <3>1, <3>2, <3>3, ServerMoves
  <2> DEFINE d == proc[p].display
  <2>2. lock[d] = p /\ d \in Displays
    BY <1>1, <2>1 DEF XvfbInv, LockOwned, ProcRec
  <2>3. ASSUME NEW s \in Services, RemoveLock(s), svc[s].disp = d PROVE FALSE
    BY <2>1, <2>3 DEF XvfbInv, ReclaimsFree, OneStart, RemoveLock, Reclaiming, Searching, Young
  <2>4. ~(lock[d] = NoFile \/ (lock[d] \in Pids /\ ~ProcessAlive(lock[d])))
    BY <2>1, <2>2, XvfbAssumption DEF ProcessAlive
  <2>5. ASSUME XExits(p) PROVE FALSE
    BY <1>1, <1>2, <2>5 DEF XExits, Dead, Free, ProcRec
  <2>6. lock'[d] = lock[d]
    BY <1>1, <2>2, <2>3, <2>4, <2>5, LockMoves
  <2> QED BY <2>1, <2>2, <2>6
<1> QED BY <1>4, <1>5

LEMMA SocketOwnedInductive ==
  ASSUME XvfbInv, [Next]_vars
  PROVE  SocketOwned'
<1>1. /\ sock \in [Displays -> Pids \cup {NoFile}] /\ proc \in [Pids -> ProcRec]
      /\ TypeOK /\ \A s \in Services : LocalsOK(s)
  BY DEF XvfbInv, TypeOK
<1>2. SUFFICES ASSUME NEW p \in Pids, proc'[p].state = "up"
               PROVE  sock'[proc'[p].display] = p
  BY DEF SocketOwned
<1>3. Server(p)'
  BY <1>2 DEF Server
<1>4. CASE XBinds(p)
  BY <1>1, <1>4 DEF XBinds, ProcRec
<1>5. CASE ~XBinds(p)
  <2>1. proc[p].state = "up" /\ proc'[p].display = proc[p].display
    <3>1. CASE Same(p)
      BY <1>2, <3>1 DEF Same
    <3>2. CASE XLocks(p)
      BY <1>1, <1>2, <3>2 DEF XLocks
    <3>3. ASSUME NEW s \in Services, Launches(s, p) PROVE FALSE
      BY <1>1, <1>2, <3>3 DEF Launches
    <3> QED BY <1>1, <1>3, <1>5, <3>1, <3>2, <3>3, ServerMoves
  <2> DEFINE d == proc[p].display
  <2>2. sock[d] = p /\ d \in Displays
    BY <1>1, <2>1 DEF XvfbInv, SocketOwned, ProcRec
  <2>3. ASSUME NEW s \in Services, RemoveSocket(s), svc[s].disp = d PROVE FALSE
    BY <2>1, <2>3 DEF XvfbInv, ReclaimsFree, RemoveSocket, Reclaiming
  <2>4. ASSUME NEW q \in Pids, XBinds(q), proc[q].display = d PROVE FALSE
    BY <2>1, <2>4 DEF XvfbInv, LockOwned, XBinds
  <2>5. ASSUME XExits(p) PROVE FALSE
    BY <1>1, <1>2, <2>5 DEF XExits, Dead, Free, ProcRec
  <2>6. sock'[d] = sock[d]
    BY <1>1, <2>2, <2>3, <2>4, <2>5, SocketMoves
  <2> QED BY <2>1, <2>2, <2>6
<1> QED BY <1>4, <1>5

(* What lockPID reads is the pid of the server that is up, if there is one. *)
LEMMA ReclaimsFreeInductive ==
  ASSUME XvfbInv, [Next]_vars, NEW s \in Services
  PROVE  ReclaimsFree(s)'
<1>1. /\ svc \in [Services -> SvcRec] /\ proc \in [Pids -> ProcRec]
      /\ TypeOK /\ \A t \in Services : LocalsOK(t)
  BY DEF XvfbInv, TypeOK
<1>2. SUFFICES ASSUME NEW p \in Pids, proc'[p].state = "up", proc'[p].display = svc'[s].disp,
                      svc'[s].pc \in Reclaiming \cup {"probe"}
               PROVE  svc'[s].pc = "probe" /\ p = svc'[s].seen
  BY DEF ReclaimsFree, Reclaiming
<1>3. Server(p)' /\ svc'[s].pc \in Searching /\ svc'[s].pc # "read"
  BY <1>2 DEF Server, Searching, Reclaiming
<1>4. svc[s].pc \in Searching
  BY <1>1, <1>3, PlaceMoves DEF NotReady, Begin, BeginAnyTime, TryNext, Trying
<1>5. proc[p].state = "up" /\ proc'[p].display = proc[p].display
  <2>1. ~Young(p)
    BY <1>4 DEF XvfbInv, OneStart
  <2>2. CASE Same(p)
    BY <1>2, <2>2 DEF Same
  <2>3. ASSUME NEW t \in Services, Launches(t, p) PROVE FALSE
    BY <1>1, <1>2, <2>3 DEF Launches
  <2> QED BY <1>1, <1>3, <2>1, <2>2, <2>3, ServerMoves DEF XLocks, XBinds, Young
<1>6. CASE svc'[s] = svc[s]
  BY <1>2, <1>5, <1>6 DEF XvfbInv, ReclaimsFree
<1>7. CASE StartStep(s) \/ EndStep(s)
  <2>1. CASE ReadLock(s)
    <3>1. svc'[s].disp = svc[s].disp /\ svc[s].disp \in Displays
      BY <1>1, <1>3, <2>1, LockRead
    <3>2. lock[svc[s].disp] = p
      BY <1>2, <1>5, <3>1 DEF XvfbInv, LockOwned
    <3> QED BY <1>1, <1>3, <2>1, <3>2, XvfbAssumption, LockRead
  <2>2. CASE Probe(s)
    <3>1. svc'[s].disp = svc[s].disp /\ ~ProcessAlive(svc[s].seen)
      BY <1>1, <1>3, <2>2 DEF Probe, Goto, TryNext, Trying, SvcRec
    <3>2. p = svc[s].seen
      BY <1>2, <1>5, <2>2, <3>1 DEF XvfbInv, ReclaimsFree, Probe
    <3> QED BY <1>5, <3>1, <3>2 DEF ProcessAlive
  <2>3. CASE Recheck(s) \/ KillAndWait(s) \/ RemoveSocket(s) \/ StatSocket(s)
    <3>1. svc'[s].disp = svc[s].disp /\ svc[s].pc \in Reclaiming
      BY <1>1, <1>3, <2>3 DEF Recheck, KillAndWait, RemoveSocket, StatSocket, Goto, TryNext,
           Trying, SvcRec, Reclaiming
    <3> QED BY <1>2, <1>5, <3>1 DEF XvfbInv, ReclaimsFree
  <2>4. CASE RemoveLock(s)
    <3>1. svc'[s].disp = svc[s].disp /\ svc[s].pc \in Reclaiming
      BY <1>1, <2>4 DEF RemoveLock, SvcRec, Reclaiming
    <3> QED BY <1>2, <1>5, <3>1 DEF XvfbInv, ReclaimsFree
  <2>5. CASE Launch(s)
    BY <1>1, <1>3, <2>5 DEF Launch, SvcRec, Searching
  <2>6. CASE Exhausted(s) \/ LaunchFails(s) \/ NotReady(s) \/ Stopped(s) \/ Dies(s)
    BY <1>1, <1>3, <2>6
       DEF Exhausted, LaunchFails, NotReady, Stopped, Dies, TryNext, Trying, Off, Searching
  <2>7. CASE Signal(s)
    <3>1. svc'[s].disp = svc[s].disp /\ svc'[s].pc = svc[s].pc /\ svc'[s].seen = svc[s].seen
      BY <1>1, <2>7 DEF Signal, SvcRec
    <3> QED BY <1>2, <1>5, <3>1 DEF XvfbInv, ReclaimsFree
  <2>8. CASE ContextKills(s)
    BY <1>6, <2>8 DEF ContextKills
  <2> QED BY <1>4, <1>7, <2>1, <2>2, <2>3, <2>4, <2>5, <2>6, <2>7, <2>8
          DEF StartStep, EndStep, Ready, Stop, Searching
<1>8. ~Begin(s)
  BY <1>1, <1>3 DEF Begin, BeginAnyTime, Trying
<1>9. ~Restart
  BY <1>1, <1>3 DEF Restart, Off, Searching
<1> QED BY <1>1, <1>6, <1>7, <1>8, <1>9, PlaceMoves

-----------------------------------------------------------------------------
(* A start that has found or made its display free meets no old socket. *)
LEMMA FreshSocketInductive ==
  ASSUME XvfbInv, [Next]_vars, NEW s \in Services
  PROVE  FreshSocket(s)'
<1>1. /\ svc \in [Services -> SvcRec] /\ proc \in [Pids -> ProcRec]
      /\ sock \in [Displays -> Pids \cup {NoFile}]
      /\ TypeOK /\ (\A t \in Services : LocalsOK(t)) /\ FreshSocket(s) /\ NoFile \notin Pids
  BY XvfbAssumption DEF XvfbInv, TypeOK
<1>2. ASSUME NEW d \in Displays, sock[d] = NoFile, \A p \in Pids : ~XBinds(p)
      PROVE  sock'[d] = NoFile
  <2>1. ASSUME NEW t \in Services, RemoveSocket(t), svc[t].disp = d PROVE sock'[d] = NoFile
    BY <1>1, <2>1 DEF RemoveSocket, SocketRemoved
  <2> QED BY <1>1, <1>2, <2>1, SocketMoves
<1>3. ASSUME NEW p \in Pids, XBinds(p), Busy(s) PROVE svc[s].pc = "wait" /\ p = svc[s].child
  BY <1>3 DEF XvfbInv, OneStart, XBinds, Young, Busy
<1>4. ASSUME NEW p \in Pids, Young(p)', ~Young(p) PROVE \E t \in Services : Launches(t, p)
  <2>1. Server(p)'
    BY <1>4 DEF Young, Server
  <2> QED BY <1>1, <1>4, <2>1, ServerMoves DEF Same, XLocks, XBinds, Young
<1>5. ASSUME svc'[s].pc = "launch" PROVE sock'[svc'[s].disp] = NoFile
  <2>1. svc[s].pc \in Searching
    BY <1>1, <1>5, PlaceMoves DEF Searching, NotReady, Begin, BeginAnyTime, TryNext, Trying
  <2>2. \A p \in Pids : ~XBinds(p)
    BY <1>3, <2>1 DEF Busy, Searching
  <2>3. svc[s].disp \in Displays \/ svc[s].pc = "read"
    BY <1>1, <2>1 DEF LocalsOK, Searching
  <2>4. CASE svc'[s] = svc[s] \/ Signal(s) \/ ContextKills(s)
    <3>1. svc[s].pc = "launch" /\ svc'[s].disp = svc[s].disp
      BY <1>1, <1>5, <2>4 DEF Signal, ContextKills, SvcRec
    <3> QED BY <1>1, <1>2, <2>2, <2>3, <3>1 DEF FreshSocket
  <2>5. CASE RemoveSocket(s) \/ StatSocket(s)
    <3>1. svc'[s].disp = svc[s].disp
      BY <1>1, <2>5 DEF RemoveSocket, StatSocket, Goto, SvcRec
    <3>2. CASE RemoveSocket(s)
      BY <1>1, <2>3, <3>1, <3>2 DEF RemoveSocket, SocketRemoved
    <3>3. CASE StatSocket(s)
      BY <1>1, <1>5, <3>1, <3>3 DEF StatSocket, Goto, SvcRec
    <3> QED BY <2>5, <3>2, <3>3
  <2>6. CASE Recheck(s) \/ Probe(s) \/ KillAndWait(s)
    BY <1>1, <1>5, <2>6 DEF Recheck, Probe, KillAndWait, Goto, TryNext, Trying, SvcRec
  <2>7. ~RemoveLock(s) /\ ~Launch(s)
    <3>1. ASSUME RemoveLock(s) PROVE FALSE
      BY <1>1, <1>5, <3>1 DEF RemoveLock, Goto, SvcRec
    <3>2. ASSUME NEW p \in Pids, svc' = [svc EXCEPT ![s] = [@ EXCEPT !.pc = "wait", !.child = p]]
          PROVE  FALSE
      BY <1>1, <1>5, <3>2 DEF SvcRec
    <3> QED BY <3>1, <3>2 DEF Launch
  <2>8. CASE Exhausted(s) \/ LaunchFails(s) \/ NotReady(s) \/ Stopped(s) \/ Dies(s) \/ Begin(s)
             \/ Restart
    BY <1>1, <1>5, <2>8
       DEF Exhausted, LaunchFails, NotReady, Stopped, Dies, Begin, BeginAnyTime, Restart,
           TryNext, Trying, Off
  <2>9. ~ReadLock(s)
    BY <1>1, <1>5, LockRead
  <2> QED BY <1>1, <2>1, <2>4, <2>5, <2>6, <2>7, <2>8, <2>9, PlaceMoves
          DEF StartStep, EndStep, Ready, Stop, Searching
<1>6. ASSUME svc'[s].pc = "wait", NEW c \in Pids, c = svc'[s].child, Young(c)'
      PROVE  sock'[svc'[s].disp] = NoFile
  <2>1. CASE \E p \in Pids : Launches(s, p)
    <3>1. UNCHANGED sock /\ svc'[s].disp = svc[s].disp
      BY <1>1, <2>1 DEF Launches, Launch, SvcRec
    <3> QED BY <1>1, <2>1, <3>1 DEF Launches, Launch, FreshSocket
  <2>2. CASE svc[s].pc = "wait" /\ c = svc[s].child /\ svc'[s].disp = svc[s].disp
    <3>1. proc[c] # Free /\ svc[s].disp \in Displays
      BY <1>1, <2>2 DEF LocalsOK, Launched, Free
    <3>2. Young(c)
      BY <1>4, <1>6, <3>1 DEF Launches
    <3>3. \A p \in Pids : ~XBinds(p)
      <4>1. ASSUME XBinds(c) PROVE FALSE
        BY <1>1, <1>6, <4>1 DEF XBinds, Young
      <4> QED BY <1>3, <2>2, <4>1 DEF Busy
    <3> QED BY <1>1, <1>2, <2>2, <3>1, <3>2, <3>3 DEF FreshSocket
  <2> QED BY <1>1, <1>6, <2>1, <2>2, PlaceMoves
<1>7. ASSUME svc'[s].pc \in {"serving", "stopping"}, NEW c \in Pids, c = svc'[s].child,
             Young(c)'
      PROVE  FALSE
  <2>1. c = svc[s].child /\ (svc[s].pc \in {"serving", "stopping"} \/ Ready(s))
    BY <1>1, <1>7, PlaceMoves
  <2>2. proc[c] # Free
    BY <1>1, <2>1 DEF LocalsOK, Free, Ready, Launched
  <2>3. Young(c)
    BY <1>4, <1>7, <2>2 DEF Launches
  <2> QED BY <1>1, <2>1, <2>3 DEF Ready, FreshSocket
<1>8. svc'[s].pc \in Launched => svc'[s].child \in Pids
  BY LocalsInductive, <1>1 DEF LocalsOK
<1> QED BY <1>5, <1>6, <1>7, <1>8 DEF FreshSocket, Launched, Young

-----------------------------------------------------------------------------
(* A service lets go of a process only once it has waited for it, or dies.   *)
LEMMA NoXvfbLostInductive ==
  ASSUME TypeOK, \A s \in Services : LocalsOK(s), NoXvfbLost, [Next]_vars
  PROVE  NoXvfbLost'
<1>1. /\ svc \in [Services -> SvcRec] /\ proc \in [Pids -> ProcRec]
      /\ (\A s \in Services : InHand(svc[s]) /\ LocalsOK(s)) /\ TypeOK
      /\ NoPid \notin Pids /\ Nobody \notin Services
  BY XvfbAssumption DEF TypeOK, InHand, Nobody
<1>2. SUFFICES ASSUME NEW s \in Services, NEW p \in Pids, proc'[p].parent = s
               PROVE  svc'[s].child = p
  BY DEF NoXvfbLost
<1>3. ASSUME proc[p].parent = s PROVE svc[s].child = p /\ svc[s].pc \in Launched
  BY <1>1, <1>3 DEF NoXvfbLost, InHand
<1>4. ASSUME proc[p].parent # s PROVE Launches(s, p)
  <2>1. proc'[p] # proc[p] /\ proc'[p].parent # Nobody /\ proc'[p] # Free
    BY <1>1, <1>2, <1>4 DEF Free
  <2>2. ASSUME NEW q \in Pids PROVE Dead(q) = Free \/ Dead(q).parent = proc[q].parent
    BY <1>1 DEF Dead, ProcRec
  <2>3. ASSUME NEW t \in Services, Begin(t) \/ StartStep(t) \/ EndStep(t)
        PROVE  Launches(s, p)
    <3>1. CASE Launch(t)
      <4>1. PICK q \in Pids :
              /\ proc[q] = Free
              /\ proc' = [proc EXCEPT ![q] = [state |-> "init", display |-> svc[t].disp,
                                              parent |-> t]]
              /\ svc' = [svc EXCEPT ![t] = [@ EXCEPT !.pc = "wait", !.child = q]]
        BY <3>1 DEF Launch
      <4>2. q = p /\ t = s
        BY <1>1, <1>2, <2>1, <4>1
      <4> QED BY <1>1, <3>1, <4>1, <4>2 DEF Launches
    <3>2. CASE NotReady(t) \/ Stopped(t)
      BY <1>1, <2>1, <3>2 DEF NotReady, Stopped, KilledAndWaited
    <3>3. CASE ContextKills(t)
      BY <1>1, <1>2, <1>4, <2>1, <2>2, <3>3 DEF ContextKills, XServers
    <3>4. CASE Stop(t)
      <4>1. PICK l : proc' = [proc EXCEPT ![svc[t].child].state = l]
        BY <3>4 DEF Stop
      <4> QED BY <1>1, <1>2, <1>4, <4>1 DEF ProcRec
    <3>5. CASE Dies(t)
      BY <1>1, <1>2, <1>4, <2>1, <3>5 DEF Dies, Orphaned, ProcRec
    <3> QED BY <2>1, <2>3, <3>1, <3>2, <3>3, <3>4, <3>5
            DEF StartStep, EndStep, Begin, BeginAnyTime, Exhausted, ReadLock, Probe, Recheck,
                KillAndWait,
                RemoveLock, RemoveSocket, StatSocket, LaunchFails, Ready, Signal
  <2>4. ~Restart
    BY <2>1 DEF Restart
  <2>5. ASSUME NEW q \in Pids, XStep(q) \/ OtherProcess(q) PROVE FALSE
    <3>1. CASE XLocks(q) \/ XBinds(q)
      BY <1>1, <1>2, <1>4, <3>1 DEF XLocks, XBinds, ProcRec
    <3>2. CASE XCrashes(q) \/ XExits(q)
      BY <1>1, <1>2, <1>4, <2>1, <2>2, <3>2 DEF XCrashes, XExits
    <3>3. CASE OtherProcess(q)
      BY <1>1, <1>2, <1>4, <2>1, <3>3 DEF OtherProcess, Other, Free
    <3> QED BY <2>5, <3>1, <3>2, <3>3 DEF XStep
  <2> QED BY <2>1, <2>3, <2>4, <2>5 DEF Next, vars
<1>5. CASE Launches(s, p)
  BY <1>1, <1>5 DEF Launches, SvcRec
<1>6. CASE proc[p].parent = s
  <2>1. CASE svc'[s] = svc[s]
    BY <1>3, <1>6, <2>1
  <2>2. CASE StartStep(s) \/ EndStep(s)
    <3>1. svc[s].child = p /\ svc[s].pc \in Launched
      BY <1>3, <1>6
    <3>2. Ready(s) \/ Stop(s) \/ Signal(s) \/ ContextKills(s) \/ NotReady(s) \/ Stopped(s)
            \/ Dies(s)
      BY <2>2, <3>1 DEF StartStep, EndStep, Exhausted, ReadLock, Probe, Recheck, KillAndWait,
           RemoveLock, RemoveSocket, StatSocket, Launch, LaunchFails, Launched
    <3>3. CASE Ready(s) \/ Stop(s) \/ Signal(s) \/ ContextKills(s)
      BY <1>1, <3>1, <3>3 DEF Ready, Stop, Signal, ContextKills, Goto, SvcRec
    <3>4. CASE NotReady(s) \/ Stopped(s)
      BY <1>1, <1>2, <3>1, <3>4 DEF NotReady, Stopped, KilledAndWaited, Free
    <3>5. CASE Dies(s)
      BY <1>1, <1>2, <1>6, <3>5 DEF Dies, Orphaned, Free, ProcRec
    <3> QED BY <3>2, <3>3, <3>4, <3>5
  <2>3. ~Begin(s)
    BY <1>3, <1>6 DEF Begin, BeginAnyTime, Launched
  <2>4. ~Restart
    BY <1>1, <1>2 DEF Restart, Free
  <2> QED BY <1>1, <2>1, <2>2, <2>3, <2>4, PlaceMoves
<1> QED BY <1>4, <1>5, <1>6

-----------------------------------------------------------------------------
LEMMA XvfbInit == Init => XvfbInv
<1> SUFFICES ASSUME Init PROVE XvfbInv
  OBVIOUS
<1>1. Off \in SvcRec /\ Free \in ProcRec
  BY XvfbAssumption DEF Off, SvcRec, Free, ProcRec, Displays, Nobody
<1>2. TypeOK
  BY <1>1 DEF Init, TypeOK, Off, Launched
<1>3. /\ \A s \in Services : svc[s] = Off
      /\ \A p \in Pids : proc[p] = Free
  BY DEF Init
<1>4. \A s \in Services : LocalsOK(s) /\ ReclaimsFree(s) /\ FreshSocket(s)
  <2> TAKE s \in Services
  <2>1. svc[s].pc = "off" /\ \A p \in Pids : proc[p].state = "none"
    BY <1>3 DEF Off, Free
  <2> QED BY <2>1 DEF LocalsOK, ReclaimsFree, FreshSocket, Launched, Reclaiming
<1>5. OneStart /\ LockOwned /\ SocketOwned
  BY <1>3 DEF OneStart, LockOwned, SocketOwned, Young, Off, Free, Searching
<1>6. NoXvfbLost
  BY <1>3, XvfbAssumption DEF NoXvfbLost, Free, Nobody
<1> QED BY <1>2, <1>4, <1>5, <1>6 DEF XvfbInv

(* The invariant, for any number of services, processes and displays. *)
THEOREM XvfbInvHolds == Spec => []XvfbInv
<1>1. Init => XvfbInv
  BY XvfbInit
<1>2. XvfbInv /\ [Next]_vars => XvfbInv'
  <2> SUFFICES ASSUME XvfbInv, [Next]_vars PROVE XvfbInv'
    OBVIOUS
  <2>1. TypeOK /\ (\A s \in Services : LocalsOK(s)) /\ OneStart /\ NoXvfbLost
    BY DEF XvfbInv
  <2>2. TypeOK' /\ OneStart' /\ LockOwned' /\ SocketOwned' /\ NoXvfbLost'
    BY <2>1, TypeInductive, OneStartInductive, LockOwnedInductive, SocketOwnedInductive,
       NoXvfbLostInductive
  <2>3. \A s \in Services : LocalsOK(s)' /\ ReclaimsFree(s)' /\ FreshSocket(s)'
    BY <2>1, LocalsInductive, ReclaimsFreeInductive, FreshSocketInductive
  <2> QED BY <2>2, <2>3 DEF XvfbInv
<1> QED BY <1>1, <1>2, PTL DEF Spec

(* The records of the services, the files and the processes keep their types, *)
(* and a service has a process exactly while it waits for it or serves.      *)
THEOREM XvfbTypeCorrect == Spec => []TypeOK
<1>1. XvfbInv => TypeOK
  BY DEF XvfbInv
<1> QED BY <1>1, XvfbInvHolds, PTL

(* reclaimDisplay never takes the files of a server that is up, whatever pids *)
(* are reused in the meantime and whoever has died.                          *)
THEOREM FilesKept == Spec => []RunningKeepsFiles
<1>1. XvfbInv => RunningKeepsFiles
  BY DEF XvfbInv, LockOwned, SocketOwned, RunningKeepsFiles
<1> QED BY <1>1, XvfbInvHolds, PTL

(* waitReady is not deceived by the files of an earlier server. *)
THEOREM ReadyIsUp == Spec => []ReadyMeansUp
<1>1. XvfbInv => ReadyMeansUp
  BY DEF XvfbInv, FreshSocket, LocalsOK, Launched, Young, ReadyMeansUp
<1> QED BY <1>1, XvfbInvHolds, PTL

(* Start and Stop leave no server behind that only they know of. *)
THEOREM XvfbKept == Spec => []NoXvfbLost
<1>1. XvfbInv => NoXvfbLost
  BY DEF XvfbInv
<1> QED BY <1>1, XvfbInvHolds, PTL

-----------------------------------------------------------------------------
(* Why a start comes to an end.  StartEnds itself is TLC's, for it is about   *)
(* fairness; what it rests on is that each step of a start leaves fewer.      *)
Starting == Searching \cup {"wait"}

Rank(l) ==
  CASE l = "read" -> 9
    [] l = "probe" -> 8
    [] l = "recheck" -> 7
    [] l = "killing" -> 6
    [] l \in {"rmlock", "stat"} -> 5
    [] l = "rmsock" -> 4
    [] l = "launch" -> 3
    [] OTHER -> 2

(* The displays that are left, and the looks at this one. *)
Distance(rec) == 10 * (Attempts - rec.disp) + Rank(rec.pc)

(* A start that goes on comes nearer to the last display with every step of   *)
(* its own, and nothing else that happens takes it further away.              *)
ComesNearer(s) ==
  svc[s].pc \in Starting /\ svc'[s].pc \in Starting =>
    /\ Distance(svc'[s]) \in Nat
    /\ Distance(svc'[s]) <= Distance(svc[s])
    /\ StartStep(s) => Distance(svc'[s]) < Distance(svc[s])

(* The next display is nearer than any place of this one. *)
LEMMA DistanceFalls ==
  ASSUME NEW a \in SvcRec, NEW b \in SvcRec, a.pc \in Starting, b.pc \in Starting,
         \/ b.disp = a.disp /\ Rank(b.pc) < Rank(a.pc)
         \/ b.disp = a.disp + 1
  PROVE  Distance(b) \in Nat /\ Distance(b) < Distance(a)
<1>1. Rank(a.pc) \in 2..9 /\ Rank(b.pc) \in 2..9
  BY DEF Rank
<1>2. a.disp \in 0..Attempts /\ b.disp \in 0..Attempts
  BY DEF SvcRec
<1> QED BY <1>1, <1>2, XvfbAssumption DEF Distance

(* Every step of a start is one of these two. *)
LEMMA StartStepDescends ==
  ASSUME TypeOK, \A t \in Services : LocalsOK(t), NEW s \in Services, StartStep(s),
         svc'[s].pc \in Starting
  PROVE  /\ svc[s].pc \in Starting
         /\ \/ svc'[s].disp = svc[s].disp /\ Rank(svc'[s].pc) < Rank(svc[s].pc)
            \/ svc'[s].disp = svc[s].disp + 1
<1>1. svc \in [Services -> SvcRec]
  BY DEF TypeOK
<1>2. ASSUME TryNext(s) PROVE svc'[s].disp = svc[s].disp + 1
  BY <1>1, <1>2 DEF TryNext, Trying, NextDisplay
<1>3. ASSUME NEW l, Goto(s, l) PROVE svc'[s].pc = l /\ svc'[s].disp = svc[s].disp
  BY <1>1, <1>3 DEF Goto, SvcRec
<1> USE DEF Starting, Searching, Rank
<1>4. CASE ReadLock(s)
  <2>1. CASE lock[svc[s].disp] \in Pids
    <3>1. svc' = [svc EXCEPT ![s] = [@ EXCEPT !.pc = "probe", !.seen = lock[svc[s].disp]]]
      BY <1>4, <2>1, XvfbAssumption DEF ReadLock
    <3>2. svc'[s].pc = "probe" /\ svc'[s].disp = svc[s].disp
      BY <1>1, <3>1 DEF SvcRec
    <3> QED BY <1>4, <3>2 DEF ReadLock
  <2> QED BY <1>2, <1>3, <1>4, <2>1 DEF ReadLock
<1>5. CASE Probe(s)
  BY <1>2, <1>3, <1>5 DEF Probe
<1>6. CASE Recheck(s)
  <2>1. svc'[s].pc \in {"killing", "rmlock"} /\ svc'[s].disp = svc[s].disp
    BY <1>3, <1>6 DEF Recheck
  <2> QED BY <1>6, <2>1 DEF Recheck
<1>7. CASE KillAndWait(s)
  BY <1>2, <1>3, <1>7 DEF KillAndWait
<1>8. CASE RemoveLock(s)
  <2>1. svc'[s].pc = "rmsock" /\ svc'[s].disp = svc[s].disp
    BY <1>1, <1>8 DEF RemoveLock, SvcRec
  <2> QED BY <1>8, <2>1 DEF RemoveLock
<1>9. CASE RemoveSocket(s)
  BY <1>3, <1>9 DEF RemoveSocket
<1>10. CASE StatSocket(s)
  <2>1. svc'[s].pc \in {"launch", "rmsock"} /\ svc'[s].disp = svc[s].disp
    BY <1>3, <1>10 DEF StatSocket
  <2> QED BY <1>10, <2>1 DEF StatSocket
<1>11. CASE Launch(s)
  <2>1. PICK p \in Pids : svc' = [svc EXCEPT ![s] = [@ EXCEPT !.pc = "wait", !.child = p]]
    BY <1>11 DEF Launch
  <2>2. svc'[s].pc = "wait" /\ svc'[s].disp = svc[s].disp
    BY <1>1, <2>1 DEF SvcRec
  <2> QED BY <1>11, <2>2 DEF Launch
<1>12. CASE LaunchFails(s) \/ NotReady(s)
  BY <1>2, <1>12 DEF LaunchFails, NotReady
<1>13. CASE Exhausted(s)
  BY <1>1, <1>13 DEF Exhausted, Off
<1>14. CASE Ready(s)
  BY <1>3, <1>14 DEF Ready
<1> QED BY <1>4, <1>5, <1>6, <1>7, <1>8, <1>9, <1>10, <1>11, <1>12, <1>13, <1>14 DEF StartStep

(* What is not a step of the start leaves its place alone, or ends it.  The   *)
(* search is bounded: Start looks at no display twice and at none for ever.   *)
THEOREM StartComesNearer == Spec => [][\A s \in Services : ComesNearer(s)]_vars
<1>1. XvfbInv /\ [Next]_vars => [\A s \in Services : ComesNearer(s)]_vars
  <2> SUFFICES ASSUME XvfbInv, [Next]_vars, NEW s \in Services,
                      svc[s].pc \in Starting, svc'[s].pc \in Starting
               PROVE  /\ Distance(svc'[s]) \in Nat
                      /\ Distance(svc'[s]) <= Distance(svc[s])
                      /\ StartStep(s) => Distance(svc'[s]) < Distance(svc[s])
    BY DEF ComesNearer
  <2>1. /\ TypeOK /\ TypeOK' /\ (\A t \in Services : LocalsOK(t))
        /\ svc[s] \in SvcRec /\ svc'[s] \in SvcRec
    BY TypeInductive DEF XvfbInv, TypeOK
  <2>2. Distance(svc[s]) \in Nat
    <3>1. Rank(svc[s].pc) \in Nat
      BY DEF Rank
    <3>2. svc[s].disp \in 0..Attempts
      BY <2>1 DEF SvcRec
    <3> QED BY <3>1, <3>2, XvfbAssumption DEF Distance
  <2>3. CASE StartStep(s)
    <3>1. Distance(svc'[s]) \in Nat /\ Distance(svc'[s]) < Distance(svc[s])
      BY <2>1, <2>3, StartStepDescends, DistanceFalls
    <3> QED BY <2>2, <3>1
  <2>4. CASE ~StartStep(s)
    <3>1. svc'[s].pc = svc[s].pc /\ svc'[s].disp = svc[s].disp
      <4>1. CASE svc'[s] = svc[s]
        BY <4>1
      <4>2. CASE EndStep(s)
        <5>1. svc \in [Services -> SvcRec]
          BY <2>1 DEF TypeOK
        <5>2. ~Stop(s)
          BY DEF Stop, Starting, Searching
        <5>3. ~Stopped(s) /\ ~Dies(s)
          BY <5>1 DEF Stopped, Dies, Off, Starting, Searching
        <5>4. Signal(s) \/ ContextKills(s)
          BY <4>2, <5>2, <5>3 DEF EndStep
        <5>5. CASE Signal(s)
          BY <5>1, <5>5 DEF Signal, SvcRec
        <5>6. CASE ContextKills(s)
          BY <5>6 DEF ContextKills
        <5> QED BY <5>4, <5>5, <5>6
      <4>3. ~Begin(s) /\ ~Restart
        <5>1. ~Begin(s)
          BY DEF Begin, BeginAnyTime, Starting, Searching
        <5>2. ~Restart
          BY DEF Restart, Off, Starting, Searching
        <5> QED BY <5>1, <5>2
      <4> QED BY <2>1, <2>4, <4>1, <4>2, <4>3, PlaceMoves
    <3> QED BY <2>2, <2>4, <3>1 DEF Distance
  <2> QED BY <2>3, <2>4
<1> QED BY <1>1, XvfbInvHolds, PTL DEF Spec

-----------------------------------------------------------------------------
(* Starts that overlap.  Quiet is a bound of the model and not of the code:  *)
(* without it a start can remove the files of another one's server.  What no *)
(* overlap takes from a service is the process it has launched.             *)
OverlapNext == Next \/ \E s \in Services : BeginAnyTime(s)

OverlapSpec == Init /\ [][OverlapNext]_vars

(* A service that begins has launched nothing yet. *)
LEMMA OverlapKeeps ==
  ASSUME TypeOK, \A t \in Services : LocalsOK(t), NoXvfbLost,
         NEW s \in Services, BeginAnyTime(s)
  PROVE  TypeOK' /\ (\A t \in Services : LocalsOK(t)') /\ NoXvfbLost'
<1>1. /\ svc \in [Services -> SvcRec] /\ (\A t \in Services : InHand(svc[t]))
      /\ UNCHANGED <<lock, sock, proc>> /\ svc[s].pc = "off"
  BY DEF TypeOK, InHand, BeginAnyTime
<1>2. PICK i \in {0} \cup {StartIdx(n) : n \in Displays} :
        svc' = [svc EXCEPT ![s] = Trying(i, FALSE)]
  BY DEF BeginAnyTime
<1>3. i \in 0 .. Attempts
  BY XvfbAssumption DEF StartIdx, Displays
<1>4. Trying(i, FALSE) \in SvcRec /\ InHand(Trying(i, FALSE)) /\ Trying(i, FALSE).pc = "read"
  BY <1>3, XvfbAssumption DEF Trying, SvcRec, InHand, Searching, Launched
<1>5. TypeOK'
  BY <1>1, <1>2, <1>4 DEF TypeOK, InHand
<1>6. ASSUME NEW t \in Services PROVE LocalsOK(t)'
  BY <1>1, <1>2, <1>4 DEF LocalsOK, Launched
<1>7. NoXvfbLost'
  <2>1. ASSUME NEW p \in Pids PROVE proc[p].parent # s
    <3>1. svc[s].child = NoPid
      BY <1>1 DEF InHand, Launched
    <3> QED BY <3>1, XvfbAssumption DEF NoXvfbLost
  <2> QED BY <1>1, <1>2, <2>1 DEF NoXvfbLost
<1> QED BY <1>5, <1>6, <1>7

(* Also when starts overlap, and whoever removes whose files, no service is  *)
(* rid of an Xvfb it has not waited for. *)
THEOREM XvfbKeptInOverlap == OverlapSpec => [](TypeOK /\ NoXvfbLost)
<1> DEFINE Inv == TypeOK /\ (\A s \in Services : LocalsOK(s)) /\ NoXvfbLost
<1>1. Init => Inv
  BY XvfbInit DEF XvfbInv
<1>2. Inv /\ [OverlapNext]_vars => Inv'
  <2> SUFFICES ASSUME Inv, [OverlapNext]_vars PROVE Inv'
    OBVIOUS
  <2>1. CASE [Next]_vars
    BY <2>1, TypeInductive, LocalsInductive, NoXvfbLostInductive
  <2>2. ASSUME NEW s \in Services, BeginAnyTime(s) PROVE Inv'
    BY <2>2, OverlapKeeps
  <2> QED BY <2>1, <2>2 DEF OverlapNext
<1>3. Inv => TypeOK /\ NoXvfbLost
  OBVIOUS
<1> QED BY <1>1, <1>2, <1>3, PTL DEF OverlapSpec

=============================================================================
