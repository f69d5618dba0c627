-------------------------------- MODULE Solve --------------------------------
(***************************************************************************)
(* runSolveDirect, internal/browser/solve.go: the jobs that one browser    *)
(* serves, at most Tabs of them at a time, each in a tab of its own.  The   *)
(* tabs share what the code treats as the job's own: the browser's cookies, *)
(* which every job clears and reads as a whole, and its solveCount, which   *)
(* every job increments without a lock.                                     *)
(*                                                                         *)
(* A cookie is known by the job whose page has set it.  The environment is  *)
(* the page, which shows the Turnstile widget or not and sets cookies while *)
(* its tab lives; Chrome, which answers a command, refuses it or leaves it  *)
(* unanswered; and the job's context, which may end at any moment.          *)
(***************************************************************************)
EXTENDS Naturals, FiniteSets

CONSTANTS
  Jobs,   (* the jobs the browser is given, in any order                 *)
  Tabs    (* TABS_PER_BROWSER: how many of them at a time                *)

ASSUME SolveAssumption == IsFiniteSet(Jobs) /\ Tabs \in Nat \ {0}

VARIABLES
  pc,          \* where runSolveDirect is, for each job
  expired,     \* job.Ctx is done
  found,       \* checkboxFound
  clicked,     \* lastClickTime is not zero
  misses,      \* noCheckboxAfterClickCount
  cookies,     \* the local variable of that name: what the job will return
  seen,        \* solveCount as the increment has read it
  outcome,     \* how the job ended
  tab,         \* the job's tab in Chrome
  jar,         \* the browser's cookies
  solveCount,  \* browserInst.solveCount
  exposed,     \* history: another page lived while the job ran, or its clear failed
  fetched,     \* history: the cookies were asked for since the last click
  raced        \* history: two increments of solveCount have overlapped

loopVars == <<found, clicked, misses, cookies, fetched>>
countVars == <<seen, solveCount, raced>>
browserVars == <<tab, jar, exposed>>
vars == <<pc, expired, outcome, loopVars, countVars, browserVars>>

Labels == {"waiting", "connect", "inject", "clear", "navigate", "top", "evaluate",
           "click", "settle", "fetch", "judge", "tick", "count", "store", "close", "done"}

Running == {j \in Jobs : pc[j] \notin {"waiting", "done"}}

(* The pages that can still set a cookie. *)
Pages == {j \in Jobs : tab[j] \in {"page", "closing"}}

-----------------------------------------------------------------------------
(* Slips the code could contain, each a variant of an operator below.      *)

KeepsCookies(j) == jar

OnlySolvedCount(how) == how = "solved"

FetchesOnTick(seenBox, tick) == tick

NeverNotices(j) == FALSE

OneMore(n) == n >= 3

-----------------------------------------------------------------------------
(* Network.clearBrowserCookies: the cookies of every tab of the browser. *)
Cleared(j) == {}

(* Each of the four ways to answer the request increments solveCount. *)
Counts(how) == TRUE

(* The cookies are fetched after a click, and whenever cookiesTicker has    *)
(* ticked.                                                                  *)
ShouldFetch(seenBox, tick) == seenBox \/ tick

(* The selects on job.Ctx.Done(). *)
CtxDone(j) == expired[j]

(* Two rounds in a row without the checkbox, after a click, are a success. *)
AutoSolved(n) == n >= 2

Goto(j, l) == pc' = [pc EXCEPT ![j] = l]

(* The function returns; what it has opened is still to be closed. *)
Answers(j, how) ==
  /\ outcome' = [outcome EXCEPT ![j] = how]
  /\ Goto(j, IF Counts(how) THEN "count" ELSE "close")

Fails(j) ==
  /\ outcome' = [outcome EXCEPT ![j] = "failed"]
  /\ Goto(j, "close")

Init ==
  /\ pc = [j \in Jobs |-> "waiting"]
  /\ expired = [j \in Jobs |-> FALSE]
  /\ outcome = [j \in Jobs |-> "none"]
  /\ found = [j \in Jobs |-> FALSE]
  /\ clicked = [j \in Jobs |-> FALSE]
  /\ misses = [j \in Jobs |-> 0]
  /\ cookies = [j \in Jobs |-> {}]
  /\ fetched = [j \in Jobs |-> FALSE]
  /\ seen = [j \in Jobs |-> 0]
  /\ solveCount = 0
  /\ raced = FALSE
  /\ tab = [j \in Jobs |-> "none"]
  /\ jar = {}
  /\ exposed = [j \in Jobs |-> FALSE]

-----------------------------------------------------------------------------
(* Before the loop.                                                        *)

(* The pool has given the job one of the browser's tabs. *)
Start(j) ==
  /\ pc[j] = "waiting"
  /\ Cardinality(Running) < Tabs
  /\ Goto(j, "connect")
  /\ UNCHANGED <<expired, outcome, loopVars, countVars, browserVars>>

(* newRawSession opens a blank tab; see CdpSession for what it goes through. *)
Connect(j) ==
  /\ pc[j] = "connect"
  /\ tab' = [tab EXCEPT ![j] = "blank"]
  /\ Goto(j, "inject")
  /\ UNCHANGED <<expired, outcome, jar, exposed, loopVars, countVars>>

(* There is no session to close: the deferred call comes after the return. *)
ConnectFails(j) ==
  /\ pc[j] = "connect"
  /\ outcome' = [outcome EXCEPT ![j] = "failed"]
  /\ Goto(j, "done")
  /\ UNCHANGED <<expired, loopVars, countVars, browserVars>>

Inject(j) ==
  /\ pc[j] = "inject"
  /\ ~CtxDone(j)
  /\ Goto(j, "clear")
  /\ UNCHANGED <<expired, outcome, loopVars, countVars, browserVars>>

InjectFails(j) ==
  /\ pc[j] = "inject"
  /\ Fails(j)
  /\ UNCHANGED <<expired, loopVars, countVars, browserVars>>

(* From here on the job believes that the cookies are its own. *)
ClearCookies(j) ==
  /\ pc[j] = "clear"
  /\ ~CtxDone(j)
  /\ jar' = Cleared(j)
  /\ exposed' = [exposed EXCEPT ![j] = Pages \ {j} # {}]
  /\ Goto(j, "navigate")
  /\ UNCHANGED <<expired, outcome, tab, loopVars, countVars>>

(* The error is logged and forgotten.  Chrome may have cleared them all the *)
(* same, when it was the context that ended the call.                       *)
ClearCookiesFails(j) ==
  /\ pc[j] = "clear"
  /\ jar' \in {jar, Cleared(j)}
  /\ exposed' = [exposed EXCEPT ![j] = TRUE]
  /\ Goto(j, "navigate")
  /\ UNCHANGED <<expired, outcome, tab, loopVars, countVars>>

(* The job has a page, and every other job that runs is exposed to it. *)
OpensPage(j, state) ==
  /\ tab' = [tab EXCEPT ![j] = state]
  /\ exposed' = [k \in Jobs |-> exposed[k] \/ (k # j /\ k \in Running)]
  /\ UNCHANGED jar

(* Page.navigate also succeeds when the page cannot be loaded: it then says *)
(* so in its result, which is not looked at.                                *)
Navigate(j) ==
  /\ pc[j] = "navigate"
  /\ ~CtxDone(j)
  /\ OpensPage(j, "page")
  /\ Goto(j, "top")
  /\ UNCHANGED <<expired, outcome, loopVars, countVars>>

(* Chrome may have begun to load the page all the same. *)
NavigateFails(j) ==
  /\ pc[j] = "navigate"
  /\ OpensPage(j, "page")
  /\ Fails(j)
  /\ UNCHANGED <<expired, loopVars, countVars>>

-----------------------------------------------------------------------------
(* The loop.                                                               *)

LoopHead(j) ==
  /\ pc[j] = "top"
  /\ IF CtxDone(j)
     THEN Answers(j, "expired")
     ELSE Goto(j, "evaluate") /\ UNCHANGED outcome
  /\ UNCHANGED <<expired, loopVars, countVars, browserVars>>

(* The script finds the checkbox. *)
CheckboxFound(j) ==
  /\ pc[j] = "evaluate"
  /\ ~CtxDone(j)
  /\ found' = [found EXCEPT ![j] = TRUE]
  /\ Goto(j, "click")
  /\ UNCHANGED <<expired, outcome, clicked, misses, cookies, fetched, countVars, browserVars>>

(* It does not; or it could not be run, which the code does not tell apart. *)
NoCheckbox(j, tick) ==
  /\ pc[j] = "evaluate"
  /\ found' = [found EXCEPT ![j] = FALSE]
  /\ Goto(j, IF ShouldFetch(FALSE, tick) THEN "fetch" ELSE "judge")
  /\ UNCHANGED <<expired, outcome, clicked, misses, cookies, fetched, countVars, browserVars>>

(* The mouse is moved, pressed and released, and every error is ignored. *)
Click(j) ==
  /\ pc[j] = "click"
  /\ clicked' = [clicked EXCEPT ![j] = TRUE]
  /\ misses' = [misses EXCEPT ![j] = 0]
  /\ fetched' = [fetched EXCEPT ![j] = FALSE]
  /\ Goto(j, "settle")
  /\ UNCHANGED <<expired, outcome, found, cookies, countVars, browserVars>>

(* A second for the click to take effect, unless the context ends. *)
Settle(j, tick) ==
  /\ pc[j] = "settle"
  /\ IF CtxDone(j)
     THEN Answers(j, "expired")
     ELSE /\ Goto(j, IF ShouldFetch(TRUE, tick) THEN "fetch" ELSE "judge")
          /\ UNCHANGED outcome
  /\ UNCHANGED <<expired, loopVars, countVars, browserVars>>

(* Storage.getCookies: those of every tab; if there are none, the job keeps *)
(* what it had.                                                             *)
FetchCookies(j) ==
  /\ pc[j] = "fetch"
  /\ ~CtxDone(j)
  /\ cookies' = [cookies EXCEPT ![j] = IF jar = {} THEN @ ELSE jar]
  /\ fetched' = [fetched EXCEPT ![j] = TRUE]
  /\ Goto(j, "judge")
  /\ UNCHANGED <<expired, outcome, found, clicked, misses, countVars, browserVars>>

FetchCookiesFails(j) ==
  /\ pc[j] = "fetch"
  /\ fetched' = [fetched EXCEPT ![j] = TRUE]
  /\ Goto(j, "judge")
  /\ UNCHANGED <<expired, outcome, found, clicked, misses, cookies, countVars, browserVars>>

Judge(j) ==
  /\ pc[j] = "judge"
  /\ misses' = [misses EXCEPT ![j] = IF found[j] THEN 0 ELSE IF clicked[j] THEN @ + 1 ELSE @]
  /\ IF ~found[j] /\ clicked[j] /\ AutoSolved(misses'[j])
     THEN Answers(j, "solved")
     ELSE Goto(j, "tick") /\ UNCHANGED outcome
  /\ UNCHANGED <<expired, found, clicked, cookies, fetched, countVars, browserVars>>

Tick(j) ==
  /\ pc[j] = "tick"
  /\ IF CtxDone(j)
     THEN Answers(j, "expired")
     ELSE Goto(j, "top") /\ UNCHANGED outcome
  /\ UNCHANGED <<expired, loopVars, countVars, browserVars>>

-----------------------------------------------------------------------------
(* After the loop.  w.instance.solveCount++ reads and writes, and the jobs  *)
(* of one browser do so without a lock.                                     *)

ReadCount(j) ==
  /\ pc[j] = "count"
  /\ seen' = [seen EXCEPT ![j] = solveCount]
  /\ raced' = (raced \/ \E k \in Jobs : pc[k] = "store")
  /\ Goto(j, "store")
  /\ UNCHANGED <<expired, outcome, solveCount, loopVars, browserVars>>

StoreCount(j) ==
  /\ pc[j] = "store"
  /\ solveCount' = seen[j] + 1
  /\ Goto(j, "close")
  /\ UNCHANGED <<expired, outcome, seen, raced, loopVars, browserVars>>

(* The deferred sess.close asks Chrome to close the tab and does not wait. *)
CloseSession(j) ==
  /\ pc[j] = "close"
  /\ tab' = [tab EXCEPT ![j] = IF @ = "page" THEN "closing" ELSE "closed"]
  /\ Goto(j, "done")
  /\ UNCHANGED <<expired, outcome, jar, exposed, loopVars, countVars>>

-----------------------------------------------------------------------------
(* The pages and the contexts.                                             *)

PageSetsCookie(j) ==
  /\ j \in Pages
  /\ jar' = jar \cup {j}
  /\ UNCHANGED <<pc, expired, outcome, tab, exposed, loopVars, countVars>>

TabCloses(j) ==
  /\ tab[j] = "closing"
  /\ tab' = [tab EXCEPT ![j] = "closed"]
  /\ UNCHANGED <<pc, expired, outcome, jar, exposed, loopVars, countVars>>

Expires(j) ==
  /\ j \in Running
  /\ expired' = [expired EXCEPT ![j] = TRUE]
  /\ UNCHANGED <<pc, outcome, loopVars, countVars, browserVars>>

(* The browser has served its jobs. *)
Over ==
  /\ \A j \in Jobs : pc[j] = "done"
  /\ UNCHANGED vars

(* What Chrome does for the job; it may be long about it. *)
Answered(j) ==
  \/ Connect(j) \/ ConnectFails(j) \/ Inject(j) \/ ClearCookies(j)
  \/ Navigate(j) \/ CheckboxFound(j) \/ FetchCookies(j)

(* What Execute does when Chrome refuses, or when the context ends first. *)
Refused(j) ==
  \/ InjectFails(j) \/ ClearCookiesFails(j) \/ NavigateFails(j)
  \/ \E tick \in BOOLEAN : NoCheckbox(j, tick)
  \/ FetchCookiesFails(j)

(* What the job does by itself. *)
Proceeds(j) ==
  \/ LoopHead(j) \/ Click(j) \/ \E tick \in BOOLEAN : Settle(j, tick)
  \/ Judge(j) \/ Tick(j) \/ ReadCount(j) \/ StoreCount(j) \/ CloseSession(j)

Environment(j) == PageSetsCookie(j) \/ TabCloses(j) \/ Expires(j)

Next ==
  \/ \E j \in Jobs : Start(j) \/ Answered(j) \/ Refused(j) \/ Proceeds(j) \/ Environment(j)
  \/ Over

Spec == Init /\ [][Next]_vars

(* The scheduler runs every job, its deadline passes, and an Execute whose  *)
(* context has ended returns.  Chrome is not relied on for an answer.       *)
Fairness ==
  \A j \in Jobs :
    /\ WF_vars(Proceeds(j))
    /\ WF_vars(Expires(j))
    /\ WF_vars(expired[j] /\ Refused(j))

FairSpec == Spec /\ Fairness

-----------------------------------------------------------------------------
TypeOK ==
  /\ pc \in [Jobs -> Labels]
  /\ expired \in [Jobs -> BOOLEAN]
  /\ outcome \in [Jobs -> {"none", "solved", "expired", "failed"}]
  /\ found \in [Jobs -> BOOLEAN] /\ clicked \in [Jobs -> BOOLEAN]
  /\ misses \in [Jobs -> 0..2]
  /\ cookies \in [Jobs -> SUBSET Jobs]
  /\ fetched \in [Jobs -> BOOLEAN]
  /\ seen \in [Jobs -> Nat] /\ solveCount \in Nat /\ raced \in BOOLEAN
  /\ tab \in [Jobs -> {"none", "blank", "page", "closing", "closed"}]
  /\ jar \in SUBSET Jobs
  /\ exposed \in [Jobs -> BOOLEAN]

(* A job whose own clear succeeded and beside which no other page lived is  *)
(* given its own cookies and nobody else's (solve.go:54, 159).              *)
AloneIsFresh ==
  \A j \in Jobs : ~exposed[j] => cookies[j] \subseteq {j}

(* The requests whose answer has been counted. *)
Counted == {j \in Jobs : outcome[j] \in {"solved", "expired"} /\ pc[j] \in {"close", "done"}}

(* solveCount is the number of requests that were answered, by whichever of *)
(* the four ways, and of no others (solve.go:79, 137, 190, 197), as long as *)
(* no two increments overlap.                                               *)
CountsAnswers ==
  ~raced => solveCount = Cardinality(Counted)

(* A job that reports success has asked for the cookies since its last      *)
(* click, so that what the click has earned can be among them (solve.go:148).*)
FetchedAfterClick ==
  \A j \in Jobs : outcome[j] = "solved" => clicked[j] /\ fetched[j]

(* A job with a session returns, whatever Chrome does: the loop has no way  *)
(* on that does not come past the context (solve.go:76, 135, 187).          *)
SolveEnds == \A j \in Jobs : pc[j] = "inject" ~> pc[j] = "done"

(* "Clear cookies to ensure fresh start for each job" (solve.go:53): no job *)
(* navigates with cookies in the browser.                                   *)
FreshStart == [][\A j \in Jobs : pc[j] = "navigate" /\ pc'[j] = "top" => jar = {}]_vars

-----------------------------------------------------------------------------
(* The inductive invariant behind the safety properties, part by part.     *)

Ended == {"count", "store", "close", "done"}

(* A job that goes on has missed the checkbox once at most. *)
MissesBelow == \A j \in Jobs : pc[j] \notin Ended => misses[j] <= 1

OutcomeKnown ==
  \A j \in Jobs :
    /\ outcome[j] \in {"solved", "expired"} => pc[j] \in Ended
    /\ pc[j] \in {"count", "store"} => outcome[j] \in {"solved", "expired"}

(* Between a click and the fetch after it the job can only expire. *)
FetchPending ==
  \A j \in Jobs : pc[j] \notin Ended \cup {"settle", "fetch"} /\ clicked[j] => fetched[j]

(* Between its clear and its last fetch a job that is not exposed has the   *)
(* browser to itself.                                                       *)
Undisturbed == {"navigate", "top", "evaluate", "click", "settle", "fetch", "judge", "tick"}

OwnBrowser ==
  \A j \in Jobs :
    /\ pc[j] \in {"waiting", "connect", "inject", "clear"} => cookies[j] = {}
    /\ pc[j] \in Undisturbed /\ ~exposed[j] => jar \subseteq {j} /\ Pages \subseteq {j}

(* Unless two increments have overlapped, only one job has read the counter *)
(* and not yet written it, and what it has read is the counter's value.     *)
OneIncrement ==
  ~raced => \A j \in Jobs : pc[j] = "store" =>
              seen[j] = solveCount /\ \A k \in Jobs : pc[k] = "store" => k = j

SolveInv ==
  /\ TypeOK
  /\ MissesBelow
  /\ OutcomeKnown
  /\ FetchPending
  /\ FetchedAfterClick
  /\ OwnBrowser
  /\ AloneIsFresh
  /\ OneIncrement
  /\ CountsAnswers

=============================================================================
