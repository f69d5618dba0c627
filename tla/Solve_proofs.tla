---------------------------- MODULE Solve_proofs ----------------------------
(***************************************************************************)
(* The safety of runSolveDirect, proved for any number of jobs and of tabs *)
(* per browser: the parts of SolveInv are kept by every step, given all of *)
(* them, and the safety properties are among the parts.                    *)
(***************************************************************************)
EXTENDS Solve, FiniteSetTheorems, TLAPS

(* The parts of the invariant that a step needs, and Pages as TypeOK sees it. *)
LEMMA InvParts ==
  ASSUME SolveInv
  PROVE  /\ TypeOK /\ MissesBelow /\ OutcomeKnown /\ FetchPending /\ FetchedAfterClick
         /\ OwnBrowser /\ AloneIsFresh /\ OneIncrement /\ CountsAnswers
BY DEF SolveInv

(* At the start nothing has run and the browser has no cookies. *)
LEMMA InitInv == Init => SolveInv
<1> SUFFICES ASSUME Init PROVE SolveInv
  OBVIOUS
<1> USE DEF Init
<1>1. TypeOK
  <2>1. /\ expired \in [Jobs -> BOOLEAN] /\ found \in [Jobs -> BOOLEAN]
        /\ clicked \in [Jobs -> BOOLEAN] /\ fetched \in [Jobs -> BOOLEAN]
        /\ exposed \in [Jobs -> BOOLEAN] /\ raced \in BOOLEAN
    BY Zenon
  <2>2. /\ pc \in [Jobs -> Labels]
        /\ outcome \in [Jobs -> {"none", "solved", "expired", "failed"}]
        /\ tab \in [Jobs -> {"none", "blank", "page", "closing", "closed"}]
    BY DEF Labels
  <2>3. /\ misses \in [Jobs -> 0..2] /\ seen \in [Jobs -> Nat] /\ solveCount \in Nat
    OBVIOUS
  <2>4. cookies \in [Jobs -> SUBSET Jobs] /\ jar \in SUBSET Jobs
    OBVIOUS
  <2> QED BY <2>1, <2>2, <2>3, <2>4 DEF TypeOK
<1>2. MissesBelow /\ OutcomeKnown /\ FetchPending /\ FetchedAfterClick
  BY DEF MissesBelow, OutcomeKnown, FetchPending, FetchedAfterClick, Ended
<1>3. OwnBrowser /\ AloneIsFresh
  BY DEF OwnBrowser, AloneIsFresh, Undisturbed
<1>4. OneIncrement
  BY DEF OneIncrement
<1>5. CountsAnswers
  <2>1. Counted = {}
    BY DEF Counted
  <2> QED BY <2>1, FS_EmptySet DEF CountsAnswers
<1> QED BY <1>1, <1>2, <1>3, <1>4, <1>5 DEF SolveInv

(* Every variable keeps its type: a judged job has missed at most twice. *)
LEMMA StepTypeOK == SolveInv /\ [Next]_vars => TypeOK'
<1> SUFFICES ASSUME SolveInv, [Next]_vars PROVE TypeOK'
  OBVIOUS
<1>0. TypeOK /\ MissesBelow
  BY InvParts
<1> USE DEF TypeOK, Labels, Ended, MissesBelow, loopVars, countVars, browserVars
<1>1. ASSUME NEW j \in Jobs, Start(j) PROVE TypeOK'
  BY <1>0, <1>1 DEF Start, Goto
<1>2. ASSUME NEW j \in Jobs, Connect(j) PROVE TypeOK'
  BY <1>0, <1>2 DEF Connect, Goto
<1>3. ASSUME NEW j \in Jobs, ConnectFails(j) PROVE TypeOK'
  BY <1>0, <1>3 DEF ConnectFails, Goto
<1>4. ASSUME NEW j \in Jobs, Inject(j) PROVE TypeOK'
  BY <1>0, <1>4 DEF Inject, Goto
<1>5. ASSUME NEW j \in Jobs, InjectFails(j) PROVE TypeOK'
  BY <1>0, <1>5 DEF InjectFails, Goto, Fails
<1>6. ASSUME NEW j \in Jobs, ClearCookies(j) PROVE TypeOK'
  BY <1>0, <1>6 DEF ClearCookies, Goto, Cleared
<1>7. ASSUME NEW j \in Jobs, ClearCookiesFails(j) PROVE TypeOK'
  BY <1>0, <1>7 DEF ClearCookiesFails, Goto, Cleared
<1>8. ASSUME NEW j \in Jobs, Navigate(j) PROVE TypeOK'
  BY <1>0, <1>8 DEF Navigate, Goto, OpensPage
<1>9. ASSUME NEW j \in Jobs, NavigateFails(j) PROVE TypeOK'
  BY <1>0, <1>9 DEF NavigateFails, Goto, Fails, OpensPage
<1>10. ASSUME NEW j \in Jobs, LoopHead(j) PROVE TypeOK'
  BY <1>0, <1>10 DEF LoopHead, Goto, Answers, Counts
<1>11. ASSUME NEW j \in Jobs, CheckboxFound(j) PROVE TypeOK'
  BY <1>0, <1>11 DEF CheckboxFound, Goto
<1>12. ASSUME NEW j \in Jobs, NEW tick \in BOOLEAN, NoCheckbox(j, tick) PROVE TypeOK'
  BY <1>0, <1>12 DEF NoCheckbox, Goto, ShouldFetch
<1>13. ASSUME NEW j \in Jobs, Click(j) PROVE TypeOK'
  BY <1>0, <1>13 DEF Click, Goto
<1>14. ASSUME NEW j \in Jobs, NEW tick \in BOOLEAN, Settle(j, tick) PROVE TypeOK'
  BY <1>0, <1>14 DEF Settle, Goto, Answers, Counts, ShouldFetch
<1>15. ASSUME NEW j \in Jobs, FetchCookies(j) PROVE TypeOK'
  BY <1>0, <1>15 DEF FetchCookies, Goto
<1>16. ASSUME NEW j \in Jobs, FetchCookiesFails(j) PROVE TypeOK'
  BY <1>0, <1>16 DEF FetchCookiesFails, Goto
<1>17. ASSUME NEW j \in Jobs, Judge(j) PROVE TypeOK'
  BY <1>0, <1>17 DEF Judge, Goto, Answers, Counts, AutoSolved
<1>18. ASSUME NEW j \in Jobs, Tick(j) PROVE TypeOK'
  BY <1>0, <1>18 DEF Tick, Goto, Answers, Counts
<1>19. ASSUME NEW j \in Jobs, ReadCount(j) PROVE TypeOK'
  BY <1>0, <1>19 DEF ReadCount, Goto
<1>20. ASSUME NEW j \in Jobs, StoreCount(j) PROVE TypeOK'
  BY <1>0, <1>20 DEF StoreCount, Goto
<1>21. ASSUME NEW j \in Jobs, CloseSession(j) PROVE TypeOK'
  BY <1>0, <1>21 DEF CloseSession, Goto
<1>22. ASSUME NEW j \in Jobs, PageSetsCookie(j) PROVE TypeOK'
  BY <1>0, <1>22 DEF PageSetsCookie, Goto
<1>23. ASSUME NEW j \in Jobs, TabCloses(j) PROVE TypeOK'
  BY <1>0, <1>23 DEF TabCloses, Goto
<1>24. ASSUME NEW j \in Jobs, Expires(j) PROVE TypeOK'
  BY <1>0, <1>24 DEF Expires, Goto
<1>25. ASSUME UNCHANGED vars PROVE TypeOK'
  BY <1>0, <1>25 DEF vars, loopVars, countVars, browserVars
<1> QED
  BY <1>1, <1>2, <1>3, <1>4, <1>5, <1>6, <1>7, <1>8, <1>9, <1>10, <1>11,
     <1>12, <1>13, <1>14, <1>15, <1>16, <1>17, <1>18, <1>19, <1>20, <1>21,
     <1>22, <1>23, <1>24, <1>25
  DEF Next, Answered, Refused, Proceeds, Environment, Over

(* Judge ends the job at the second miss in a row. *)
LEMMA StepMissesBelow == SolveInv /\ [Next]_vars => MissesBelow'
<1> SUFFICES ASSUME SolveInv, [Next]_vars PROVE MissesBelow'
  OBVIOUS
<1>0. TypeOK /\ MissesBelow
  BY InvParts
<1> USE DEF TypeOK, Labels, Ended, MissesBelow, loopVars, countVars, browserVars
<1>1. ASSUME NEW j \in Jobs, Start(j) PROVE MissesBelow'
  BY <1>0, <1>1 DEF Start, Goto
<1>2. ASSUME NEW j \in Jobs, Connect(j) PROVE MissesBelow'
  BY <1>0, <1>2 DEF Connect, Goto
<1>3. ASSUME NEW j \in Jobs, ConnectFails(j) PROVE MissesBelow'
  BY <1>0, <1>3 DEF ConnectFails, Goto
<1>4. ASSUME NEW j \in Jobs, Inject(j) PROVE MissesBelow'
  BY <1>0, <1>4 DEF Inject, Goto
<1>5. ASSUME NEW j \in Jobs, InjectFails(j) PROVE MissesBelow'
  BY <1>0, <1>5 DEF InjectFails, Goto, Fails
<1>6. ASSUME NEW j \in Jobs, ClearCookies(j) PROVE MissesBelow'
  BY <1>0, <1>6 DEF ClearCookies, Goto, Cleared
<1>7. ASSUME NEW j \in Jobs, ClearCookiesFails(j) PROVE MissesBelow'
  BY <1>0, <1>7 DEF ClearCookiesFails, Goto, Cleared
<1>8. ASSUME NEW j \in Jobs, Navigate(j) PROVE MissesBelow'
  BY <1>0, <1>8 DEF Navigate, Goto, OpensPage
<1>9. ASSUME NEW j \in Jobs, NavigateFails(j) PROVE MissesBelow'
  BY <1>0, <1>9 DEF NavigateFails, Goto, Fails, OpensPage
<1>10. ASSUME NEW j \in Jobs, LoopHead(j) PROVE MissesBelow'
  BY <1>0, <1>10 DEF LoopHead, Goto, Answers, Counts
<1>11. ASSUME NEW j \in Jobs, CheckboxFound(j) PROVE MissesBelow'
  BY <1>0, <1>11 DEF CheckboxFound, Goto
<1>12. ASSUME NEW j \in Jobs, NEW tick \in BOOLEAN, NoCheckbox(j, tick) PROVE MissesBelow'
  BY <1>0, <1>12 DEF NoCheckbox, Goto, ShouldFetch
<1>13. ASSUME NEW j \in Jobs, Click(j) PROVE MissesBelow'
  BY <1>0, <1>13 DEF Click, Goto
<1>14. ASSUME NEW j \in Jobs, NEW tick \in BOOLEAN, Settle(j, tick) PROVE MissesBelow'
  BY <1>0, <1>14 DEF Settle, Goto, Answers, Counts, ShouldFetch
<1>15. ASSUME NEW j \in Jobs, FetchCookies(j) PROVE MissesBelow'
  BY <1>0, <1>15 DEF FetchCookies, Goto
<1>16. ASSUME NEW j \in Jobs, FetchCookiesFails(j) PROVE MissesBelow'
  BY <1>0, <1>16 DEF FetchCookiesFails, Goto
<1>17. ASSUME NEW j \in Jobs, Judge(j) PROVE MissesBelow'
  BY <1>0, <1>17 DEF Judge, Goto, Answers, Counts, AutoSolved
<1>18. ASSUME NEW j \in Jobs, Tick(j) PROVE MissesBelow'
  BY <1>0, <1>18 DEF Tick, Goto, Answers, Counts
<1>19. ASSUME NEW j \in Jobs, ReadCount(j) PROVE MissesBelow'
  BY <1>0, <1>19 DEF ReadCount, Goto
<1>20. ASSUME NEW j \in Jobs, StoreCount(j) PROVE MissesBelow'
  BY <1>0, <1>20 DEF StoreCount, Goto
<1>21. ASSUME NEW j \in Jobs, CloseSession(j) PROVE MissesBelow'
  BY <1>0, <1>21 DEF CloseSession, Goto
<1>22. ASSUME NEW j \in Jobs, PageSetsCookie(j) PROVE MissesBelow'
  BY <1>0, <1>22 DEF PageSetsCookie, Goto
<1>23. ASSUME NEW j \in Jobs, TabCloses(j) PROVE MissesBelow'
  BY <1>0, <1>23 DEF TabCloses, Goto
<1>24. ASSUME NEW j \in Jobs, Expires(j) PROVE MissesBelow'
  BY <1>0, <1>24 DEF Expires, Goto
<1>25. ASSUME UNCHANGED vars PROVE MissesBelow'
  BY <1>0, <1>25 DEF vars, loopVars, countVars, browserVars
<1> QED
  BY <1>1, <1>2, <1>3, <1>4, <1>5, <1>6, <1>7, <1>8, <1>9, <1>10, <1>11,
     <1>12, <1>13, <1>14, <1>15, <1>16, <1>17, <1>18, <1>19, <1>20, <1>21,
     <1>22, <1>23, <1>24, <1>25
  DEF Next, Answered, Refused, Proceeds, Environment, Over

(* Only Answers gives an outcome that counts, and it ends the loop. *)
LEMMA StepOutcomeKnown == SolveInv /\ [Next]_vars => OutcomeKnown'
<1> SUFFICES ASSUME SolveInv, [Next]_vars PROVE OutcomeKnown'
  OBVIOUS
<1>0. TypeOK /\ OutcomeKnown
  BY InvParts
<1> USE DEF TypeOK, Labels, Ended, OutcomeKnown, loopVars, countVars, browserVars
<1>1. ASSUME NEW j \in Jobs, Start(j) PROVE OutcomeKnown'
  BY <1>0, <1>1 DEF Start, Goto
<1>2. ASSUME NEW j \in Jobs, Connect(j) PROVE OutcomeKnown'
  BY <1>0, <1>2 DEF Connect, Goto
<1>3. ASSUME NEW j \in Jobs, ConnectFails(j) PROVE OutcomeKnown'
  BY <1>0, <1>3 DEF ConnectFails, Goto
<1>4. ASSUME NEW j \in Jobs, Inject(j) PROVE OutcomeKnown'
  BY <1>0, <1>4 DEF Inject, Goto
<1>5. ASSUME NEW j \in Jobs, InjectFails(j) PROVE OutcomeKnown'
  BY <1>0, <1>5 DEF InjectFails, Goto, Fails
<1>6. ASSUME NEW j \in Jobs, ClearCookies(j) PROVE OutcomeKnown'
  BY <1>0, <1>6 DEF ClearCookies, Goto, Cleared
<1>7. ASSUME NEW j \in Jobs, ClearCookiesFails(j) PROVE OutcomeKnown'
  BY <1>0, <1>7 DEF ClearCookiesFails, Goto, Cleared
<1>8. ASSUME NEW j \in Jobs, Navigate(j) PROVE OutcomeKnown'
  BY <1>0, <1>8 DEF Navigate, Goto, OpensPage
<1>9. ASSUME NEW j \in Jobs, NavigateFails(j) PROVE OutcomeKnown'
  BY <1>0, <1>9 DEF NavigateFails, Goto, Fails, OpensPage
<1>10. ASSUME NEW j \in Jobs, LoopHead(j) PROVE OutcomeKnown'
  BY <1>0, <1>10 DEF LoopHead, Goto, Answers, Counts
<1>11. ASSUME NEW j \in Jobs, CheckboxFound(j) PROVE OutcomeKnown'
  BY <1>0, <1>11 DEF CheckboxFound, Goto
<1>12. ASSUME NEW j \in Jobs, NEW tick \in BOOLEAN, NoCheckbox(j, tick) PROVE OutcomeKnown'
  BY <1>0, <1>12 DEF NoCheckbox, Goto, ShouldFetch
<1>13. ASSUME NEW j \in Jobs, Click(j) PROVE OutcomeKnown'
  BY <1>0, <1>13 DEF Click, Goto
<1>14. ASSUME NEW j \in Jobs, NEW tick \in BOOLEAN, Settle(j, tick) PROVE OutcomeKnown'
  BY <1>0, <1>14 DEF Settle, Goto, Answers, Counts, ShouldFetch
<1>15. ASSUME NEW j \in Jobs, FetchCookies(j) PROVE OutcomeKnown'
  BY <1>0, <1>15 DEF FetchCookies, Goto
<1>16. ASSUME NEW j \in Jobs, FetchCookiesFails(j) PROVE OutcomeKnown'
  BY <1>0, <1>16 DEF FetchCookiesFails, Goto
<1>17. ASSUME NEW j \in Jobs, Judge(j) PROVE OutcomeKnown'
  BY <1>0, <1>17 DEF Judge, Goto, Answers, Counts, AutoSolved
<1>18. ASSUME NEW j \in Jobs, Tick(j) PROVE OutcomeKnown'
  BY <1>0, <1>18 DEF Tick, Goto, Answers, Counts
<1>19. ASSUME NEW j \in Jobs, ReadCount(j) PROVE OutcomeKnown'
  BY <1>0, <1>19 DEF ReadCount, Goto
<1>20. ASSUME NEW j \in Jobs, StoreCount(j) PROVE OutcomeKnown'
  BY <1>0, <1>20 DEF StoreCount, Goto
<1>21. ASSUME NEW j \in Jobs, CloseSession(j) PROVE OutcomeKnown'
  BY <1>0, <1>21 DEF CloseSession, Goto
<1>22. ASSUME NEW j \in Jobs, PageSetsCookie(j) PROVE OutcomeKnown'
  BY <1>0, <1>22 DEF PageSetsCookie, Goto
<1>23. ASSUME NEW j \in Jobs, TabCloses(j) PROVE OutcomeKnown'
  BY <1>0, <1>23 DEF TabCloses, Goto
<1>24. ASSUME NEW j \in Jobs, Expires(j) PROVE OutcomeKnown'
  BY <1>0, <1>24 DEF Expires, Goto
<1>25. ASSUME UNCHANGED vars PROVE OutcomeKnown'
  BY <1>0, <1>25 DEF vars, loopVars, countVars, browserVars
<1> QED
  BY <1>1, <1>2, <1>3, <1>4, <1>5, <1>6, <1>7, <1>8, <1>9, <1>10, <1>11,
     <1>12, <1>13, <1>14, <1>15, <1>16, <1>17, <1>18, <1>19, <1>20, <1>21,
     <1>22, <1>23, <1>24, <1>25
  DEF Next, Answered, Refused, Proceeds, Environment, Over

(* Settle leads to a fetch, whatever cookiesTicker says. *)
LEMMA StepFetchPending == SolveInv /\ [Next]_vars => FetchPending'
<1> SUFFICES ASSUME SolveInv, [Next]_vars PROVE FetchPending'
  OBVIOUS
<1>0. TypeOK /\ FetchPending
  BY InvParts
<1> USE DEF TypeOK, Labels, Ended, FetchPending, loopVars, countVars, browserVars
<1>1. ASSUME NEW j \in Jobs, Start(j) PROVE FetchPending'
  BY <1>0, <1>1 DEF Start, Goto
<1>2. ASSUME NEW j \in Jobs, Connect(j) PROVE FetchPending'
  BY <1>0, <1>2 DEF Connect, Goto
<1>3. ASSUME NEW j \in Jobs, ConnectFails(j) PROVE FetchPending'
  BY <1>0, <1>3 DEF ConnectFails, Goto
<1>4. ASSUME NEW j \in Jobs, Inject(j) PROVE FetchPending'
  BY <1>0, <1>4 DEF Inject, Goto
<1>5. ASSUME NEW j \in Jobs, InjectFails(j) PROVE FetchPending'
  BY <1>0, <1>5 DEF InjectFails, Goto, Fails
<1>6. ASSUME NEW j \in Jobs, ClearCookies(j) PROVE FetchPending'
  BY <1>0, <1>6 DEF ClearCookies, Goto, Cleared
<1>7. ASSUME NEW j \in Jobs, ClearCookiesFails(j) PROVE FetchPending'
  BY <1>0, <1>7 DEF ClearCookiesFails, Goto, Cleared
<1>8. ASSUME NEW j \in Jobs, Navigate(j) PROVE FetchPending'
  BY <1>0, <1>8 DEF Navigate, Goto, OpensPage
<1>9. ASSUME NEW j \in Jobs, NavigateFails(j) PROVE FetchPending'
  BY <1>0, <1>9 DEF NavigateFails, Goto, Fails, OpensPage
<1>10. ASSUME NEW j \in Jobs, LoopHead(j) PROVE FetchPending'
  BY <1>0, <1>10 DEF LoopHead, Goto, Answers, Counts
<1>11. ASSUME NEW j \in Jobs, CheckboxFound(j) PROVE FetchPending'
  BY <1>0, <1>11 DEF CheckboxFound, Goto
<1>12. ASSUME NEW j \in Jobs, NEW tick \in BOOLEAN, NoCheckbox(j, tick) PROVE FetchPending'
  BY <1>0, <1>12 DEF NoCheckbox, Goto, ShouldFetch
<1>13. ASSUME NEW j \in Jobs, Click(j) PROVE FetchPending'
  BY <1>0, <1>13 DEF Click, Goto
<1>14. ASSUME NEW j \in Jobs, NEW tick \in BOOLEAN, Settle(j, tick) PROVE FetchPending'
  BY <1>0, <1>14 DEF Settle, Goto, Answers, Counts, ShouldFetch
<1>15. ASSUME NEW j \in Jobs, FetchCookies(j) PROVE FetchPending'
  BY <1>0, <1>15 DEF FetchCookies, Goto
<1>16. ASSUME NEW j \in Jobs, FetchCookiesFails(j) PROVE FetchPending'
  BY <1>0, <1>16 DEF FetchCookiesFails, Goto
<1>17. ASSUME NEW j \in Jobs, Judge(j) PROVE FetchPending'
  BY <1>0, <1>17 DEF Judge, Goto, Answers, Counts, AutoSolved
<1>18. ASSUME NEW j \in Jobs, Tick(j) PROVE FetchPending'
  BY <1>0, <1>18 DEF Tick, Goto, Answers, Counts
<1>19. ASSUME NEW j \in Jobs, ReadCount(j) PROVE FetchPending'
  BY <1>0, <1>19 DEF ReadCount, Goto
<1>20. ASSUME NEW j \in Jobs, StoreCount(j) PROVE FetchPending'
  BY <1>0, <1>20 DEF StoreCount, Goto
<1>21. ASSUME NEW j \in Jobs, CloseSession(j) PROVE FetchPending'
  BY <1>0, <1>21 DEF CloseSession, Goto
<1>22. ASSUME NEW j \in Jobs, PageSetsCookie(j) PROVE FetchPending'
  BY <1>0, <1>22 DEF PageSetsCookie, Goto
<1>23. ASSUME NEW j \in Jobs, TabCloses(j) PROVE FetchPending'
  BY <1>0, <1>23 DEF TabCloses, Goto
<1>24. ASSUME NEW j \in Jobs, Expires(j) PROVE FetchPending'
  BY <1>0, <1>24 DEF Expires, Goto
<1>25. ASSUME UNCHANGED vars PROVE FetchPending'
  BY <1>0, <1>25 DEF vars, loopVars, countVars, browserVars
<1> QED
  BY <1>1, <1>2, <1>3, <1>4, <1>5, <1>6, <1>7, <1>8, <1>9, <1>10, <1>11,
     <1>12, <1>13, <1>14, <1>15, <1>16, <1>17, <1>18, <1>19, <1>20, <1>21,
     <1>22, <1>23, <1>24, <1>25
  DEF Next, Answered, Refused, Proceeds, Environment, Over

(* Only Judge reports success, and it does not follow a click directly. *)
LEMMA StepFetchedAfterClick == SolveInv /\ [Next]_vars => FetchedAfterClick'
<1> SUFFICES ASSUME SolveInv, [Next]_vars PROVE FetchedAfterClick'
  OBVIOUS
<1>0. TypeOK /\ FetchPending /\ FetchedAfterClick /\ OutcomeKnown
  BY InvParts
<1> USE DEF TypeOK, Labels, Ended, FetchPending, FetchedAfterClick, OutcomeKnown,
            loopVars, countVars, browserVars
<1>1. ASSUME NEW j \in Jobs, Start(j) PROVE FetchedAfterClick'
  BY <1>0, <1>1 DEF Start, Goto
<1>2. ASSUME NEW j \in Jobs, Connect(j) PROVE FetchedAfterClick'
  BY <1>0, <1>2 DEF Connect, Goto
<1>3. ASSUME NEW j \in Jobs, ConnectFails(j) PROVE FetchedAfterClick'
  BY <1>0, <1>3 DEF ConnectFails, Goto
<1>4. ASSUME NEW j \in Jobs, Inject(j) PROVE FetchedAfterClick'
  BY <1>0, <1>4 DEF Inject, Goto
<1>5. ASSUME NEW j \in Jobs, InjectFails(j) PROVE FetchedAfterClick'
  BY <1>0, <1>5 DEF InjectFails, Goto, Fails
<1>6. ASSUME NEW j \in Jobs, ClearCookies(j) PROVE FetchedAfterClick'
  BY <1>0, <1>6 DEF ClearCookies, Goto, Cleared
<1>7. ASSUME NEW j \in Jobs, ClearCookiesFails(j) PROVE FetchedAfterClick'
  BY <1>0, <1>7 DEF ClearCookiesFails, Goto, Cleared
<1>8. ASSUME NEW j \in Jobs, Navigate(j) PROVE FetchedAfterClick'
  BY <1>0, <1>8 DEF Navigate, Goto, OpensPage
<1>9. ASSUME NEW j \in Jobs, NavigateFails(j) PROVE FetchedAfterClick'
  BY <1>0, <1>9 DEF NavigateFails, Goto, Fails, OpensPage
<1>10. ASSUME NEW j \in Jobs, LoopHead(j) PROVE FetchedAfterClick'
  BY <1>0, <1>10 DEF LoopHead, Goto, Answers, Counts
<1>11. ASSUME NEW j \in Jobs, CheckboxFound(j) PROVE FetchedAfterClick'
  BY <1>0, <1>11 DEF CheckboxFound, Goto
<1>12. ASSUME NEW j \in Jobs, NEW tick \in BOOLEAN, NoCheckbox(j, tick) PROVE FetchedAfterClick'
  BY <1>0, <1>12 DEF NoCheckbox, Goto, ShouldFetch
<1>13. ASSUME NEW j \in Jobs, Click(j) PROVE FetchedAfterClick'
  BY <1>0, <1>13 DEF Click, Goto
<1>14. ASSUME NEW j \in Jobs, NEW tick \in BOOLEAN, Settle(j, tick) PROVE FetchedAfterClick'
  BY <1>0, <1>14 DEF Settle, Goto, Answers, Counts, ShouldFetch
<1>15. ASSUME NEW j \in Jobs, FetchCookies(j) PROVE FetchedAfterClick'
  BY <1>0, <1>15 DEF FetchCookies, Goto
<1>16. ASSUME NEW j \in Jobs, FetchCookiesFails(j) PROVE FetchedAfterClick'
  BY <1>0, <1>16 DEF FetchCookiesFails, Goto
<1>17. ASSUME NEW j \in Jobs, Judge(j) PROVE FetchedAfterClick'
  BY <1>0, <1>17 DEF Judge, Goto, Answers, Counts, AutoSolved
<1>18. ASSUME NEW j \in Jobs, Tick(j) PROVE FetchedAfterClick'
  BY <1>0, <1>18 DEF Tick, Goto, Answers, Counts
<1>19. ASSUME NEW j \in Jobs, ReadCount(j) PROVE FetchedAfterClick'
  BY <1>0, <1>19 DEF ReadCount, Goto
<1>20. ASSUME NEW j \in Jobs, StoreCount(j) PROVE FetchedAfterClick'
  BY <1>0, <1>20 DEF StoreCount, Goto
<1>21. ASSUME NEW j \in Jobs, CloseSession(j) PROVE FetchedAfterClick'
  BY <1>0, <1>21 DEF CloseSession, Goto
<1>22. ASSUME NEW j \in Jobs, PageSetsCookie(j) PROVE FetchedAfterClick'
  BY <1>0, <1>22 DEF PageSetsCookie, Goto
<1>23. ASSUME NEW j \in Jobs, TabCloses(j) PROVE FetchedAfterClick'
  BY <1>0, <1>23 DEF TabCloses, Goto
<1>24. ASSUME NEW j \in Jobs, Expires(j) PROVE FetchedAfterClick'
  BY <1>0, <1>24 DEF Expires, Goto
<1>25. ASSUME UNCHANGED vars PROVE FetchedAfterClick'
  BY <1>0, <1>25 DEF vars, loopVars, countVars, browserVars
<1> QED
  BY <1>1, <1>2, <1>3, <1>4, <1>5, <1>6, <1>7, <1>8, <1>9, <1>10, <1>11,
     <1>12, <1>13, <1>14, <1>15, <1>16, <1>17, <1>18, <1>19, <1>20, <1>21,
     <1>22, <1>23, <1>24, <1>25
  DEF Next, Answered, Refused, Proceeds, Environment, Over

(* A page that opens beside a job exposes it. *)
LEMMA StepOwnBrowser == SolveInv /\ [Next]_vars => OwnBrowser'
<1> SUFFICES ASSUME SolveInv, [Next]_vars PROVE OwnBrowser'
  OBVIOUS
<1>0. TypeOK /\ OwnBrowser
  BY InvParts
<1> USE DEF TypeOK, Labels, Pages, Running, Undisturbed, OwnBrowser, loopVars, countVars, browserVars
<1>1. ASSUME NEW j \in Jobs, Start(j) PROVE OwnBrowser'
  BY <1>0, <1>1 DEF Start, Goto
<1>2. ASSUME NEW j \in Jobs, Connect(j) PROVE OwnBrowser'
  BY <1>0, <1>2 DEF Connect, Goto
<1>3. ASSUME NEW j \in Jobs, ConnectFails(j) PROVE OwnBrowser'
  BY <1>0, <1>3 DEF ConnectFails, Goto
<1>4. ASSUME NEW j \in Jobs, Inject(j) PROVE OwnBrowser'
  BY <1>0, <1>4 DEF Inject, Goto
<1>5. ASSUME NEW j \in Jobs, InjectFails(j) PROVE OwnBrowser'
  BY <1>0, <1>5 DEF InjectFails, Goto, Fails
<1>6. ASSUME NEW j \in Jobs, ClearCookies(j) PROVE OwnBrowser'
  BY <1>0, <1>6 DEF ClearCookies, Goto, Cleared
<1>7. ASSUME NEW j \in Jobs, ClearCookiesFails(j) PROVE OwnBrowser'
  BY <1>0, <1>7 DEF ClearCookiesFails, Goto, Cleared
<1>8. ASSUME NEW j \in Jobs, Navigate(j) PROVE OwnBrowser'
  BY <1>0, <1>8 DEF Navigate, Goto, OpensPage
<1>9. ASSUME NEW j \in Jobs, NavigateFails(j) PROVE OwnBrowser'
  BY <1>0, <1>9 DEF NavigateFails, Goto, Fails, OpensPage
<1>10. ASSUME NEW j \in Jobs, LoopHead(j) PROVE OwnBrowser'
  BY <1>0, <1>10 DEF LoopHead, Goto, Answers, Counts
<1>11. ASSUME NEW j \in Jobs, CheckboxFound(j) PROVE OwnBrowser'
  BY <1>0, <1>11 DEF CheckboxFound, Goto
<1>12. ASSUME NEW j \in Jobs, NEW tick \in BOOLEAN, NoCheckbox(j, tick) PROVE OwnBrowser'
  BY <1>0, <1>12 DEF NoCheckbox, Goto, ShouldFetch
<1>13. ASSUME NEW j \in Jobs, Click(j) PROVE OwnBrowser'
  BY <1>0, <1>13 DEF Click, Goto
<1>14. ASSUME NEW j \in Jobs, NEW tick \in BOOLEAN, Settle(j, tick) PROVE OwnBrowser'
  BY <1>0, <1>14 DEF Settle, Goto, Answers, Counts, ShouldFetch
<1>15. ASSUME NEW j \in Jobs, FetchCookies(j) PROVE OwnBrowser'
  BY <1>0, <1>15 DEF FetchCookies, Goto
<1>16. ASSUME NEW j \in Jobs, FetchCookiesFails(j) PROVE OwnBrowser'
  BY <1>0, <1>16 DEF FetchCookiesFails, Goto
<1>17. ASSUME NEW j \in Jobs, Judge(j) PROVE OwnBrowser'
  BY <1>0, <1>17 DEF Judge, Goto, Answers, Counts, AutoSolved
<1>18. ASSUME NEW j \in Jobs, Tick(j) PROVE OwnBrowser'
  BY <1>0, <1>18 DEF Tick, Goto, Answers, Counts
<1>19. ASSUME NEW j \in Jobs, ReadCount(j) PROVE OwnBrowser'
  BY <1>0, <1>19 DEF ReadCount, Goto
<1>20. ASSUME NEW j \in Jobs, StoreCount(j) PROVE OwnBrowser'
  BY <1>0, <1>20 DEF StoreCount, Goto
<1>21. ASSUME NEW j \in Jobs, CloseSession(j) PROVE OwnBrowser'
  BY <1>0, <1>21 DEF CloseSession, Goto
<1>22. ASSUME NEW j \in Jobs, PageSetsCookie(j) PROVE OwnBrowser'
  BY <1>0, <1>22 DEF PageSetsCookie, Goto
<1>23. ASSUME NEW j \in Jobs, TabCloses(j) PROVE OwnBrowser'
  BY <1>0, <1>23 DEF TabCloses, Goto
<1>24. ASSUME NEW j \in Jobs, Expires(j) PROVE OwnBrowser'
  BY <1>0, <1>24 DEF Expires, Goto
<1>25. ASSUME UNCHANGED vars PROVE OwnBrowser'
  BY <1>0, <1>25 DEF vars, loopVars, countVars, browserVars
<1> QED
  BY <1>1, <1>2, <1>3, <1>4, <1>5, <1>6, <1>7, <1>8, <1>9, <1>10, <1>11,
     <1>12, <1>13, <1>14, <1>15, <1>16, <1>17, <1>18, <1>19, <1>20, <1>21,
     <1>22, <1>23, <1>24, <1>25
  DEF Next, Answered, Refused, Proceeds, Environment, Over

(* A job that has the browser to itself fetches its own cookies. *)
LEMMA StepAloneIsFresh == SolveInv /\ [Next]_vars => AloneIsFresh'
<1> SUFFICES ASSUME SolveInv, [Next]_vars PROVE AloneIsFresh'
  OBVIOUS
<1>0. TypeOK /\ OwnBrowser /\ AloneIsFresh
  BY InvParts
<1> USE DEF TypeOK, Labels, Undisturbed, OwnBrowser, AloneIsFresh, loopVars, countVars, browserVars
<1>1. ASSUME NEW j \in Jobs, Start(j) PROVE AloneIsFresh'
  BY <1>0, <1>1 DEF Start, Goto
<1>2. ASSUME NEW j \in Jobs, Connect(j) PROVE AloneIsFresh'
  BY <1>0, <1>2 DEF Connect, Goto
<1>3. ASSUME NEW j \in Jobs, ConnectFails(j) PROVE AloneIsFresh'
  BY <1>0, <1>3 DEF ConnectFails, Goto
<1>4. ASSUME NEW j \in Jobs, Inject(j) PROVE AloneIsFresh'
  BY <1>0, <1>4 DEF Inject, Goto
<1>5. ASSUME NEW j \in Jobs, InjectFails(j) PROVE AloneIsFresh'
  BY <1>0, <1>5 DEF InjectFails, Goto, Fails
<1>6. ASSUME NEW j \in Jobs, ClearCookies(j) PROVE AloneIsFresh'
  BY <1>0, <1>6 DEF ClearCookies, Goto, Cleared
<1>7. ASSUME NEW j \in Jobs, ClearCookiesFails(j) PROVE AloneIsFresh'
  BY <1>0, <1>7 DEF ClearCookiesFails, Goto, Cleared
<1>8. ASSUME NEW j \in Jobs, Navigate(j) PROVE AloneIsFresh'
  BY <1>0, <1>8 DEF Navigate, Goto, OpensPage
<1>9. ASSUME NEW j \in Jobs, NavigateFails(j) PROVE AloneIsFresh'
  BY <1>0, <1>9 DEF NavigateFails, Goto, Fails, OpensPage
<1>10. ASSUME NEW j \in Jobs, LoopHead(j) PROVE AloneIsFresh'
  BY <1>0, <1>10 DEF LoopHead, Goto, Answers, Counts
<1>11. ASSUME NEW j \in Jobs, CheckboxFound(j) PROVE AloneIsFresh'
  BY <1>0, <1>11 DEF CheckboxFound, Goto
<1>12. ASSUME NEW j \in Jobs, NEW tick \in BOOLEAN, NoCheckbox(j, tick) PROVE AloneIsFresh'
  BY <1>0, <1>12 DEF NoCheckbox, Goto, ShouldFetch
<1>13. ASSUME NEW j \in Jobs, Click(j) PROVE AloneIsFresh'
  BY <1>0, <1>13 DEF Click, Goto
<1>14. ASSUME NEW j \in Jobs, NEW tick \in BOOLEAN, Settle(j, tick) PROVE AloneIsFresh'
  BY <1>0, <1>14 DEF Settle, Goto, Answers, Counts, ShouldFetch
<1>15. ASSUME NEW j \in Jobs, FetchCookies(j) PROVE AloneIsFresh'
  BY <1>0, <1>15 DEF FetchCookies, Goto
<1>16. ASSUME NEW j \in Jobs, FetchCookiesFails(j) PROVE AloneIsFresh'
  BY <1>0, <1>16 DEF FetchCookiesFails, Goto
<1>17. ASSUME NEW j \in Jobs, Judge(j) PROVE AloneIsFresh'
  BY <1>0, <1>17 DEF Judge, Goto, Answers, Counts, AutoSolved
<1>18. ASSUME NEW j \in Jobs, Tick(j) PROVE AloneIsFresh'
  BY <1>0, <1>18 DEF Tick, Goto, Answers, Counts
<1>19. ASSUME NEW j \in Jobs, ReadCount(j) PROVE AloneIsFresh'
  BY <1>0, <1>19 DEF ReadCount, Goto
<1>20. ASSUME NEW j \in Jobs, StoreCount(j) PROVE AloneIsFresh'
  BY <1>0, <1>20 DEF StoreCount, Goto
<1>21. ASSUME NEW j \in Jobs, CloseSession(j) PROVE AloneIsFresh'
  BY <1>0, <1>21 DEF CloseSession, Goto
<1>22. ASSUME NEW j \in Jobs, PageSetsCookie(j) PROVE AloneIsFresh'
  BY <1>0, <1>22 DEF PageSetsCookie, Goto
<1>23. ASSUME NEW j \in Jobs, TabCloses(j) PROVE AloneIsFresh'
  BY <1>0, <1>23 DEF TabCloses, Goto
<1>24. ASSUME NEW j \in Jobs, Expires(j) PROVE AloneIsFresh'
  BY <1>0, <1>24 DEF Expires, Goto
<1>25. ASSUME UNCHANGED vars PROVE AloneIsFresh'
  BY <1>0, <1>25 DEF vars, loopVars, countVars, browserVars
<1> QED
  BY <1>1, <1>2, <1>3, <1>4, <1>5, <1>6, <1>7, <1>8, <1>9, <1>10, <1>11,
     <1>12, <1>13, <1>14, <1>15, <1>16, <1>17, <1>18, <1>19, <1>20, <1>21,
     <1>22, <1>23, <1>24, <1>25
  DEF Next, Answered, Refused, Proceeds, Environment, Over

(* A second increment that begins before the first one ends is a race. *)
LEMMA StepOneIncrement == SolveInv /\ [Next]_vars => OneIncrement'
<1> SUFFICES ASSUME SolveInv, [Next]_vars PROVE OneIncrement'
  OBVIOUS
<1>0. TypeOK /\ OneIncrement
  BY InvParts
<1> USE DEF TypeOK, Labels, OneIncrement, loopVars, countVars, browserVars
<1>1. ASSUME NEW j \in Jobs, Start(j) PROVE OneIncrement'
  BY <1>0, <1>1 DEF Start, Goto
<1>2. ASSUME NEW j \in Jobs, Connect(j) PROVE OneIncrement'
  BY <1>0, <1>2 DEF Connect, Goto
<1>3. ASSUME NEW j \in Jobs, ConnectFails(j) PROVE OneIncrement'
  BY <1>0, <1>3 DEF ConnectFails, Goto
<1>4. ASSUME NEW j \in Jobs, Inject(j) PROVE OneIncrement'
  BY <1>0, <1>4 DEF Inject, Goto
<1>5. ASSUME NEW j \in Jobs, InjectFails(j) PROVE OneIncrement'
  BY <1>0, <1>5 DEF InjectFails, Goto, Fails
<1>6. ASSUME NEW j \in Jobs, ClearCookies(j) PROVE OneIncrement'
  BY <1>0, <1>6 DEF ClearCookies, Goto, Cleared
<1>7. ASSUME NEW j \in Jobs, ClearCookiesFails(j) PROVE OneIncrement'
  BY <1>0, <1>7 DEF ClearCookiesFails, Goto, Cleared
<1>8. ASSUME NEW j \in Jobs, Navigate(j) PROVE OneIncrement'
  BY <1>0, <1>8 DEF Navigate, Goto, OpensPage
<1>9. ASSUME NEW j \in Jobs, NavigateFails(j) PROVE OneIncrement'
  BY <1>0, <1>9 DEF NavigateFails, Goto, Fails, OpensPage
<1>10. ASSUME NEW j \in Jobs, LoopHead(j) PROVE OneIncrement'
  BY <1>0, <1>10 DEF LoopHead, Goto, Answers, Counts
<1>11. ASSUME NEW j \in Jobs, CheckboxFound(j) PROVE OneIncrement'
  BY <1>0, <1>11 DEF CheckboxFound, Goto
<1>12. ASSUME NEW j \in Jobs, NEW tick \in BOOLEAN, NoCheckbox(j, tick) PROVE OneIncrement'
  BY <1>0, <1>12 DEF NoCheckbox, Goto, ShouldFetch
<1>13. ASSUME NEW j \in Jobs, Click(j) PROVE OneIncrement'
  BY <1>0, <1>13 DEF Click, Goto
<1>14. ASSUME NEW j \in Jobs, NEW tick \in BOOLEAN, Settle(j, tick) PROVE OneIncrement'
  BY <1>0, <1>14 DEF Settle, Goto, Answers, Counts, ShouldFetch
<1>15. ASSUME NEW j \in Jobs, FetchCookies(j) PROVE OneIncrement'
  BY <1>0, <1>15 DEF FetchCookies, Goto
<1>16. ASSUME NEW j \in Jobs, FetchCookiesFails(j) PROVE OneIncrement'
  BY <1>0, <1>16 DEF FetchCookiesFails, Goto
<1>17. ASSUME NEW j \in Jobs, Judge(j) PROVE OneIncrement'
  BY <1>0, <1>17 DEF Judge, Goto, Answers, Counts, AutoSolved
<1>18. ASSUME NEW j \in Jobs, Tick(j) PROVE OneIncrement'
  BY <1>0, <1>18 DEF Tick, Goto, Answers, Counts
<1>19. ASSUME NEW j \in Jobs, ReadCount(j) PROVE OneIncrement'
  BY <1>0, <1>19 DEF ReadCount, Goto
<1>20. ASSUME NEW j \in Jobs, StoreCount(j) PROVE OneIncrement'
  BY <1>0, <1>20 DEF StoreCount, Goto
<1>21. ASSUME NEW j \in Jobs, CloseSession(j) PROVE OneIncrement'
  BY <1>0, <1>21 DEF CloseSession, Goto
<1>22. ASSUME NEW j \in Jobs, PageSetsCookie(j) PROVE OneIncrement'
  BY <1>0, <1>22 DEF PageSetsCookie, Goto
<1>23. ASSUME NEW j \in Jobs, TabCloses(j) PROVE OneIncrement'
  BY <1>0, <1>23 DEF TabCloses, Goto
<1>24. ASSUME NEW j \in Jobs, Expires(j) PROVE OneIncrement'
  BY <1>0, <1>24 DEF Expires, Goto
<1>25. ASSUME UNCHANGED vars PROVE OneIncrement'
  BY <1>0, <1>25 DEF vars, loopVars, countVars, browserVars
<1> QED
  BY <1>1, <1>2, <1>3, <1>4, <1>5, <1>6, <1>7, <1>8, <1>9, <1>10, <1>11,
     <1>12, <1>13, <1>14, <1>15, <1>16, <1>17, <1>18, <1>19, <1>20, <1>21,
     <1>22, <1>23, <1>24, <1>25
  DEF Next, Answered, Refused, Proceeds, Environment, Over

(* The one step that writes solveCount adds one request to those counted. *)
LEMMA StepCountsAnswers == SolveInv /\ [Next]_vars => CountsAnswers'
<1> SUFFICES ASSUME SolveInv, [Next]_vars PROVE CountsAnswers'
  OBVIOUS
<1>0. TypeOK /\ OutcomeKnown /\ OneIncrement /\ CountsAnswers /\ IsFiniteSet(Counted)
  BY InvParts, SolveAssumption, FS_Subset DEF Counted
<1> USE DEF TypeOK, OutcomeKnown, Ended, loopVars, countVars, browserVars
<1>1. ASSUME NEW j \in Jobs, Start(j) PROVE CountsAnswers'
  <2>1. Counted' = Counted
    BY <1>0, <1>1 DEF Counted, Start, Goto
  <2> QED BY <1>0, <1>1, <2>1 DEF CountsAnswers, Start
<1>2. ASSUME NEW j \in Jobs, Connect(j) PROVE CountsAnswers'
  <2>1. Counted' = Counted
    BY <1>0, <1>2 DEF Counted, Connect, Goto
  <2> QED BY <1>0, <1>2, <2>1 DEF CountsAnswers, Connect
<1>3. ASSUME NEW j \in Jobs, ConnectFails(j) PROVE CountsAnswers'
  <2>1. Counted' = Counted
    BY <1>0, <1>3 DEF Counted, ConnectFails, Goto
  <2> QED BY <1>0, <1>3, <2>1 DEF CountsAnswers, ConnectFails
<1>4. ASSUME NEW j \in Jobs, Inject(j) PROVE CountsAnswers'
  <2>1. Counted' = Counted
    BY <1>0, <1>4 DEF Counted, Inject, Goto
  <2> QED BY <1>0, <1>4, <2>1 DEF CountsAnswers, Inject
<1>5. ASSUME NEW j \in Jobs, InjectFails(j) PROVE CountsAnswers'
  <2>1. Counted' = Counted
    BY <1>0, <1>5 DEF Counted, InjectFails, Goto, Fails
  <2> QED BY <1>0, <1>5, <2>1 DEF CountsAnswers, InjectFails
<1>6. ASSUME NEW j \in Jobs, ClearCookies(j) PROVE CountsAnswers'
  <2>1. Counted' = Counted
    BY <1>0, <1>6 DEF Counted, ClearCookies, Goto, Cleared
  <2> QED BY <1>0, <1>6, <2>1 DEF CountsAnswers, ClearCookies
<1>7. ASSUME NEW j \in Jobs, ClearCookiesFails(j) PROVE CountsAnswers'
  <2>1. Counted' = Counted
    BY <1>0, <1>7 DEF Counted, ClearCookiesFails, Goto, Cleared
  <2> QED BY <1>0, <1>7, <2>1 DEF CountsAnswers, ClearCookiesFails
<1>8. ASSUME NEW j \in Jobs, Navigate(j) PROVE CountsAnswers'
  <2>1. Counted' = Counted
    BY <1>0, <1>8 DEF Counted, Navigate, Goto, OpensPage
  <2> QED BY <1>0, <1>8, <2>1 DEF CountsAnswers, Navigate
<1>9. ASSUME NEW j \in Jobs, NavigateFails(j) PROVE CountsAnswers'
  <2>1. Counted' = Counted
    BY <1>0, <1>9 DEF Counted, NavigateFails, Goto, Fails, OpensPage
  <2> QED BY <1>0, <1>9, <2>1 DEF CountsAnswers, NavigateFails
<1>10. ASSUME NEW j \in Jobs, LoopHead(j) PROVE CountsAnswers'
  <2>1. Counted' = Counted
    BY <1>0, <1>10 DEF Counted, LoopHead, Goto, Answers, Counts
  <2> QED BY <1>0, <1>10, <2>1 DEF CountsAnswers, LoopHead
<1>11. ASSUME NEW j \in Jobs, CheckboxFound(j) PROVE CountsAnswers'
  <2>1. Counted' = Counted
    BY <1>0, <1>11 DEF Counted, CheckboxFound, Goto
  <2> QED BY <1>0, <1>11, <2>1 DEF CountsAnswers, CheckboxFound
<1>12. ASSUME NEW j \in Jobs, NEW tick \in BOOLEAN, NoCheckbox(j, tick) PROVE CountsAnswers'
  <2>1. Counted' = Counted
    BY <1>0, <1>12 DEF Counted, NoCheckbox, Goto, ShouldFetch
  <2> QED BY <1>0, <1>12, <2>1 DEF CountsAnswers, NoCheckbox
<1>13. ASSUME NEW j \in Jobs, Click(j) PROVE CountsAnswers'
  <2>1. Counted' = Counted
    BY <1>0, <1>13 DEF Counted, Click, Goto
  <2> QED BY <1>0, <1>13, <2>1 DEF CountsAnswers, Click
<1>14. ASSUME NEW j \in Jobs, NEW tick \in BOOLEAN, Settle(j, tick) PROVE CountsAnswers'
  <2>1. Counted' = Counted
    BY <1>0, <1>14 DEF Counted, Settle, Goto, Answers, Counts, ShouldFetch
  <2> QED BY <1>0, <1>14, <2>1 DEF CountsAnswers, Settle
<1>15. ASSUME NEW j \in Jobs, FetchCookies(j) PROVE CountsAnswers'
  <2>1. Counted' = Counted
    BY <1>0, <1>15 DEF Counted, FetchCookies, Goto
  <2> QED BY <1>0, <1>15, <2>1 DEF CountsAnswers, FetchCookies
<1>16. ASSUME NEW j \in Jobs, FetchCookiesFails(j) PROVE CountsAnswers'
  <2>1. Counted' = Counted
    BY <1>0, <1>16 DEF Counted, FetchCookiesFails, Goto
  <2> QED BY <1>0, <1>16, <2>1 DEF CountsAnswers, FetchCookiesFails
<1>17. ASSUME NEW j \in Jobs, Judge(j) PROVE CountsAnswers'
  <2>1. Counted' = Counted
    BY <1>0, <1>17 DEF Counted, Judge, Goto, Answers, Counts, AutoSolved
  <2> QED BY <1>0, <1>17, <2>1 DEF CountsAnswers, Judge
<1>18. ASSUME NEW j \in Jobs, Tick(j) PROVE CountsAnswers'
  <2>1. Counted' = Counted
    BY <1>0, <1>18 DEF Counted, Tick, Goto, Answers, Counts
  <2> QED BY <1>0, <1>18, <2>1 DEF CountsAnswers, Tick
<1>19. ASSUME NEW j \in Jobs, ReadCount(j) PROVE CountsAnswers'
  <2>1. Counted' = Counted
    BY <1>0, <1>19 DEF Counted, ReadCount, Goto
  <2> QED BY <1>0, <1>19, <2>1 DEF CountsAnswers, ReadCount
<1>20. ASSUME NEW j \in Jobs, StoreCount(j) PROVE CountsAnswers'
  <2>1. j \notin Counted /\ Counted' = Counted \cup {j}
    BY <1>0, <1>20 DEF StoreCount, Goto, Counted
  <2>2. Cardinality(Counted') = Cardinality(Counted) + 1
    BY <1>0, <2>1, FS_AddElement
  <2>3. ~raced => seen[j] = solveCount
    BY <1>0, <1>20 DEF StoreCount, OneIncrement
  <2> QED BY <1>0, <1>20, <2>2, <2>3 DEF StoreCount, CountsAnswers
<1>21. ASSUME NEW j \in Jobs, CloseSession(j) PROVE CountsAnswers'
  <2>1. Counted' = Counted
    BY <1>0, <1>21 DEF Counted, CloseSession, Goto
  <2> QED BY <1>0, <1>21, <2>1 DEF CountsAnswers, CloseSession
<1>22. ASSUME NEW j \in Jobs, PageSetsCookie(j) PROVE CountsAnswers'
  <2>1. Counted' = Counted
    BY <1>0, <1>22 DEF Counted, PageSetsCookie, Goto
  <2> QED BY <1>0, <1>22, <2>1 DEF CountsAnswers, PageSetsCookie
<1>23. ASSUME NEW j \in Jobs, TabCloses(j) PROVE CountsAnswers'
  <2>1. Counted' = Counted
    BY <1>0, <1>23 DEF Counted, TabCloses, Goto
  <2> QED BY <1>0, <1>23, <2>1 DEF CountsAnswers, TabCloses
<1>24. ASSUME NEW j \in Jobs, Expires(j) PROVE CountsAnswers'
  <2>1. Counted' = Counted
    BY <1>0, <1>24 DEF Counted, Expires, Goto
  <2> QED BY <1>0, <1>24, <2>1 DEF CountsAnswers, Expires
<1>25. ASSUME UNCHANGED vars PROVE CountsAnswers'
  BY <1>0, <1>25 DEF vars, loopVars, countVars, browserVars, Counted, CountsAnswers
<1> QED
  BY <1>1, <1>2, <1>3, <1>4, <1>5, <1>6, <1>7, <1>8, <1>9, <1>10, <1>11,
     <1>12, <1>13, <1>14, <1>15, <1>16, <1>17, <1>18, <1>19, <1>20, <1>21,
     <1>22, <1>23, <1>24, <1>25
  DEF Next, Answered, Refused, Proceeds, Environment, Over

(* SolveInv is an invariant. *)
THEOREM SolveInvHolds == Spec => []SolveInv
<1>1. SolveInv /\ [Next]_vars => SolveInv'
  BY StepTypeOK, StepMissesBelow, StepOutcomeKnown, StepFetchPending, StepFetchedAfterClick,
     StepOwnBrowser, StepAloneIsFresh, StepOneIncrement, StepCountsAnswers DEF SolveInv
<1> QED BY InitInv, <1>1, PTL DEF Spec

(* Every variable of runSolveDirect's model has its type. *)
THEOREM SolveTypeCorrect == Spec => []TypeOK
<1>1. SolveInv => TypeOK
  BY InvParts
<1> QED BY <1>1, SolveInvHolds, PTL

(* A job whose clear succeeded, and beside which no other page lived, is given *)
(* none but its own cookies (solve.go:54, 159).                                *)
THEOREM FreshWhenAlone == Spec => []AloneIsFresh
<1>1. SolveInv => AloneIsFresh
  BY InvParts
<1> QED BY <1>1, SolveInvHolds, PTL

(* solveCount counts the answered requests and no others, as long as no two   *)
(* increments overlap (solve.go:79, 137, 190, 197).                            *)
THEOREM AnswersCounted == Spec => []CountsAnswers
<1>1. SolveInv => CountsAnswers
  BY InvParts
<1> QED BY <1>1, SolveInvHolds, PTL

(* No job reports success without a fetch of the cookies since its last click  *)
(* (solve.go:148-155, 174-180).                                                *)
THEOREM FetchBeforeSuccess == Spec => []FetchedAfterClick
<1>1. SolveInv => FetchedAfterClick
  BY InvParts
<1> QED BY <1>1, SolveInvHolds, PTL

=============================================================================
