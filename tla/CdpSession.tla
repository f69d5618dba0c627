----------------------------- MODULE CdpSession -----------------------------
(***************************************************************************)
(* One raw DevTools session, internal/browser/rawsession.go: a request     *)
(* goroutine dials Chrome, opens a tab and attaches to it (newRawSession), *)
(* runs commands one after the other (Execute) and closes the tab again    *)
(* (close).  A second goroutine, readLoop, takes the answers off the       *)
(* connection and hands each one to the Execute that waits for it, through *)
(* the map "pending", which no lock protects.                              *)
(*                                                                         *)
(* Chrome is the environment: it can answer commands in any order, late,   *)
(* with an error or not at all, stop answering for a while, and die.       *)
(***************************************************************************)
EXTENDS Naturals, Sequences

CONSTANTS
  MaxCalls,   (* bounds the Execute calls of the session, not the program *)
  DialTries   (* the attempts of dialChrome; 10 in the code               *)

ASSUME SessionAssumption == MaxCalls \in Nat \ {0} /\ DialTries \in Nat \ {0}

VARIABLES
  caller,     \* where the request goroutine is
  tries,      \* dialChrome's attempts so far
  calls,      \* the number of Execute calls so far
  nextID,     \* rawSession.nextID
  pending,    \* the keys of rawSession.pending
  ch,         \* the content of the running Execute's channel, at most one answer
  deadline,   \* the deadline of jobCtx has passed
  cancelled,  \* jobCtx was cancelled before it: the client is gone
  stopped,    \* readCancel has been called
  reader,     \* where readLoop is
  frame,      \* the answer readLoop has read
  conn,       \* the websocket connection
  up,         \* commands on their way to Chrome
  down,       \* frames on their way to the session
  chrome,     \* the Chrome process
  todo,       \* what Chrome has executed and not yet answered
  tab,        \* the session's tab in Chrome
  attached,   \* Chrome has attached the session to the tab
  crashed     \* the Go runtime has ended the process: concurrent map access

callVars == <<calls, nextID, pending, ch>>
ctxVars == <<deadline, cancelled>>
readVars == <<stopped, reader, frame>>
wireVars == <<conn, up, down>>
chromeVars == <<chrome, todo, tab, attached>>
vars == <<caller, tries, callVars, ctxVars, readVars, wireVars, chromeVars, crashed>>

CallerLabels == {"dial", "pause", "connect", "create", "created", "attach", "attaching",
                 "ready", "register", "send", "await", "forget",
                 "close", "hangup", "returned"}

(* A command is known by its id; call tells the Execute calls apart.  0 is  *)
(* the call of the commands that no Execute sends.                          *)
Ids == 0..(101 + MaxCalls)
Command == [id : Ids, call : 0..MaxCalls, what : {"create", "attach", "call", "close"}]

(* An event has id 0.  Chrome sends the session two, Target.attachedToTarget*)
(* and Target.detachedFromTarget, for the session enables no domain.        *)
Frame == [id : Ids, call : 0..MaxCalls, error : BOOLEAN]
Event == [id |-> 0, call |-> 0, error |-> FALSE]
NoFrame == [id |-> 0, call |-> 0, error |-> TRUE]

CtxDone == deadline \/ cancelled

-----------------------------------------------------------------------------
(* Slips the code could contain, each a variant of an operator below.      *)

CountsFromZero == 0

AcceptsAnything(f) == TRUE

ClosesWithin(live) == live

WaitsForAnswerOnly(waiting) == FALSE

OneTryMore(n) == n > DialTries

-----------------------------------------------------------------------------
(* dialChrome's loop is over. *)
LastTry(n) == n >= DialTries

(* newRawSession starts the ids of Execute well above the two it has used. *)
FirstID == 100

(* The answer to createTarget must name the target. *)
Usable(f) == ~f.error /\ f.id > 0

(* close sends under context.Background(), so whatever has become of jobCtx. *)
SendsClose(live) == TRUE

(* Execute's select gives up when its context is done. *)
StopsWaiting(waiting) == waiting /\ CtxDone

Init ==
  /\ caller = "dial"
  /\ tries = 0
  /\ calls = 0
  /\ nextID = FirstID
  /\ pending = {}
  /\ ch = NoFrame
  /\ deadline = FALSE
  /\ cancelled = FALSE
  /\ stopped = FALSE
  /\ reader = "off"
  /\ frame = NoFrame
  /\ conn = "none"
  /\ up = <<>>
  /\ down = <<>>
  /\ chrome = "up"
  /\ todo = {}
  /\ tab = "none"
  /\ attached = FALSE
  /\ crashed = FALSE

-----------------------------------------------------------------------------
(* newRawSession.                                                          *)

(* getBrowserWSURL: an HTTP request without a context and without a        *)
(* timeout, which a Chrome that does not answer holds up.                  *)
GetURL ==
  /\ caller = "dial"
  /\ chrome = "up"
  /\ caller' = "connect"
  /\ UNCHANGED <<tries, callVars, ctxVars, readVars, wireVars, chromeVars, crashed>>

GetURLFails ==
  /\ caller = "dial"
  /\ chrome # "hung"
  /\ tries' = tries + 1
  /\ caller' = "pause"
  /\ UNCHANGED <<callVars, ctxVars, readVars, wireVars, chromeVars, crashed>>

(* Half a second until the next attempt, unless the context ends. *)
Pause ==
  /\ caller = "pause"
  /\ caller' = IF CtxDone \/ LastTry(tries) THEN "returned" ELSE "dial"
  /\ UNCHANGED <<tries, callVars, ctxVars, readVars, wireVars, chromeVars, crashed>>

Dialled ==
  /\ caller = "connect"
  /\ chrome = "up"
  /\ ~CtxDone
  /\ conn' = "open"
  /\ caller' = "create"
  /\ UNCHANGED <<tries, callVars, ctxVars, readVars, up, down, chromeVars, crashed>>

DialFails ==
  /\ caller = "connect"
  /\ CtxDone \/ chrome = "dead"
  /\ caller' = "returned"
  /\ UNCHANGED <<tries, callVars, ctxVars, readVars, wireVars, chromeVars, crashed>>

(* rawConn.send, when it sends. *)
Write(cmd) ==
  /\ conn = "open"
  /\ up' = Append(up, cmd)
  /\ UNCHANGED <<conn, down>>

(* rawConn.send refuses once the context is done; the write itself fails    *)
(* only if Chrome is gone.                                                  *)
SendRefused == CtxDone \/ chrome = "dead"

(* The error paths of newRawSession close the connection, not the tab. *)
HandshakeFails ==
  /\ caller' = "returned"
  /\ conn' = "closed"
  /\ UNCHANGED <<tries, callVars, ctxVars, readVars, up, down, chromeVars, crashed>>

(* Each of the two commands of the handshake is sent, and the next frame,   *)
(* whatever it is, is taken for its answer.                                 *)
Handshake(id, what, at, next) ==
  /\ caller = at
  /\ ~CtxDone
  /\ Write([id |-> id, call |-> 0, what |-> what])
  /\ caller' = next
  /\ UNCHANGED <<tries, callVars, ctxVars, readVars, chromeVars, crashed>>

CreateTarget == Handshake(1, "create", "create", "created")
AttachToTarget == Handshake(2, "attach", "attach", "attaching")

HandshakeSendFails ==
  /\ caller \in {"create", "attach"}
  /\ SendRefused
  /\ HandshakeFails

TargetCreated ==
  /\ caller = "created"
  /\ down # <<>>
  /\ Usable(Head(down))
  /\ down' = Tail(down)
  /\ caller' = "attach"
  /\ UNCHANGED <<tries, callVars, ctxVars, readVars, conn, up, chromeVars, crashed>>

(* In flattened mode the event Target.attachedToTarget comes first, and the *)
(* session id is taken from it; the answer with id 2 is still to come when  *)
(* readLoop starts.                                                         *)
Attached ==
  /\ caller = "attaching"
  /\ down # <<>>
  /\ ~Head(down).error
  /\ down' = Tail(down)
  /\ caller' = "ready"
  /\ reader' = "check"
  /\ UNCHANGED <<tries, callVars, ctxVars, stopped, frame, conn, up, chromeVars, crashed>>

(* The frame is an error or names no target; or the read fails, at the     *)
(* deadline of jobCtx or because Chrome is gone, but not when jobCtx is     *)
(* cancelled.                                                               *)
HandshakeReadFails ==
  /\ \/ caller = "created" /\ down # <<>> /\ ~Usable(Head(down))
     \/ caller = "attaching" /\ down # <<>> /\ Head(down).error
     \/ caller \in {"created", "attaching"} /\ (deadline \/ chrome = "dead")
  /\ HandshakeFails

-----------------------------------------------------------------------------
(* Execute.                                                                *)

Execute ==
  /\ caller = "ready"
  /\ calls < MaxCalls
  /\ calls' = calls + 1
  /\ nextID' = nextID + 1
  /\ ch' = NoFrame
  /\ caller' = "register"
  /\ UNCHANGED <<tries, pending, ctxVars, readVars, wireVars, chromeVars, crashed>>

(* s.pending[id] = ch *)
Register ==
  /\ caller = "register"
  /\ pending' = pending \cup {nextID}
  /\ caller' = "send"
  /\ UNCHANGED <<tries, calls, nextID, ch, ctxVars, readVars, wireVars, chromeVars, crashed>>

SendCall ==
  /\ caller = "send"
  /\ ~CtxDone
  /\ Write([id |-> nextID, call |-> calls, what |-> "call"])
  /\ caller' = "await"
  /\ UNCHANGED <<tries, callVars, ctxVars, readVars, chromeVars, crashed>>

SendCallFails ==
  /\ caller = "send"
  /\ SendRefused
  /\ caller' = "forget"
  /\ UNCHANGED <<tries, callVars, ctxVars, readVars, wireVars, chromeVars, crashed>>

(* The select: the answer is there, or the context is done. *)
CallReturns ==
  /\ caller = "await"
  /\ ch # NoFrame \/ StopsWaiting(ch = NoFrame)
  /\ caller' = "forget"
  /\ UNCHANGED <<tries, callVars, ctxVars, readVars, wireVars, chromeVars, crashed>>

(* The deferred delete(s.pending, id). *)
Forget ==
  /\ caller = "forget"
  /\ pending' = pending \ {nextID}
  /\ caller' = "ready"
  /\ UNCHANGED <<tries, calls, nextID, ch, ctxVars, readVars, wireVars, chromeVars, crashed>>

-----------------------------------------------------------------------------
(* close, which the deferred call of runSolveDirect reaches after any call. *)

StopReading ==
  /\ caller = "ready"
  /\ stopped' = TRUE
  /\ caller' = "close"
  /\ UNCHANGED <<tries, callVars, ctxVars, reader, frame, wireVars, chromeVars, crashed>>

(* The error of the last send is ignored. *)
CloseTarget ==
  /\ caller = "close"
  /\ nextID' = nextID + 1
  /\ \/ /\ SendsClose(~CtxDone)
        /\ Write([id |-> nextID', call |-> 0, what |-> "close"])
     \/ /\ ~SendsClose(~CtxDone) \/ chrome = "dead"
        /\ UNCHANGED wireVars
  /\ caller' = "hangup"
  /\ UNCHANGED <<tries, calls, pending, ch, ctxVars, readVars, chromeVars, crashed>>

HangUp ==
  /\ caller = "hangup"
  /\ conn' = "closed"
  /\ caller' = "returned"
  /\ UNCHANGED <<tries, callVars, ctxVars, readVars, up, down, chromeVars, crashed>>

-----------------------------------------------------------------------------
(* readLoop.                                                               *)

(* Its context is derived from jobCtx. *)
ReaderChecks ==
  /\ reader = "check"
  /\ reader' = IF stopped \/ CtxDone THEN "gone" ELSE "read"
  /\ UNCHANGED <<caller, tries, callVars, ctxVars, stopped, frame, wireVars,
                 chromeVars, crashed>>

(* An event goes to listenFn, which is never set. *)
ReaderReads ==
  /\ reader = "read"
  /\ conn = "open"
  /\ down # <<>>
  /\ down' = Tail(down)
  /\ IF Head(down).id > 0
     THEN reader' = "lookup" /\ frame' = Head(down)
     ELSE reader' = "check" /\ UNCHANGED frame
  /\ UNCHANGED <<caller, tries, callVars, ctxVars, stopped, conn, up, chromeVars, crashed>>

(* The read fails: the deadline of jobCtx has passed, the connection was    *)
(* closed, or Chrome is gone.  A cancelled context does not end it.         *)
ReaderFails ==
  /\ reader = "read"
  /\ deadline \/ conn = "closed" \/ chrome = "dead"
  /\ reader' = "gone"
  /\ UNCHANGED <<caller, tries, callVars, ctxVars, stopped, frame, wireVars,
                 chromeVars, crashed>>

(* if ch, ok := s.pending[msg.ID]; ok { ch <- msg, or drop it if ch is full } *)
ReaderDelivers ==
  /\ reader = "lookup"
  /\ ch' = IF frame.id \in pending /\ ch = NoFrame THEN frame ELSE ch
  /\ frame' = NoFrame
  /\ reader' = "check"
  /\ UNCHANGED <<caller, tries, calls, nextID, pending, ctxVars, stopped, wireVars,
                 chromeVars, crashed>>

(* readLoop reads the map while Execute writes it.  The runtime may notice, *)
(* and then ends the process; otherwise the two happen in some order.       *)
MapFault ==
  /\ reader = "lookup"
  /\ caller \in {"register", "forget"}
  /\ crashed' = TRUE
  /\ caller' = "returned"
  /\ reader' = "gone"
  /\ conn' = "closed"
  /\ UNCHANGED <<tries, callVars, ctxVars, stopped, frame, up, down, chromeVars>>

(* rawConn.read refuses a frame that is no text or no message (a ping, bad   *)
(* JSON), and whoever has called it gives up: readLoop returns.  Chrome may  *)
(* send one at any time; that it closes the connection and goes on itself    *)
(* is left out.                                                              *)
ReadsJunk ==
  /\ chrome = "up"
  /\ conn = "open"
  /\ \/ /\ reader = "read"
        /\ reader' = "gone"
        /\ UNCHANGED <<caller, tries, callVars, ctxVars, stopped, frame, wireVars,
                       chromeVars, crashed>>
     \/ caller \in {"created", "attaching"} /\ HandshakeFails

-----------------------------------------------------------------------------
(* The context and Chrome.                                                 *)

DeadlinePasses ==
  /\ ~deadline
  /\ deadline' = TRUE
  /\ UNCHANGED <<caller, tries, callVars, cancelled, readVars, wireVars, chromeVars, crashed>>

ClientLeaves ==
  /\ ~CtxDone
  /\ cancelled' = TRUE
  /\ UNCHANGED <<caller, tries, callVars, deadline, readVars, wireVars, chromeVars, crashed>>

(* Chrome takes the next command off the connection and carries it out, or  *)
(* fails to. *)
ChromeExecutes ==
  /\ chrome = "up"
  /\ up # <<>>
  /\ up' = Tail(up)
  /\ LET cmd == Head(up)
         Done(ok) == todo' = todo \cup {[id |-> cmd.id, call |-> cmd.call, error |-> ~ok]}
     IN  \/ /\ cmd.what = "create"
            /\ \/ tab' = "open" /\ Done(TRUE)
               \/ UNCHANGED tab /\ Done(FALSE)
            /\ UNCHANGED <<attached, down>>
         \/ /\ cmd.what = "attach"
            /\ \/ attached' = TRUE /\ Done(TRUE) /\ down' = Append(down, Event)
               \/ UNCHANGED <<attached, down>> /\ Done(FALSE)
            /\ UNCHANGED tab
         \/ /\ cmd.what = "call"
            /\ \E ok \in BOOLEAN : Done(ok)
            /\ UNCHANGED <<tab, attached, down>>
         \/ /\ cmd.what = "close"
            /\ tab' = "closed"
            /\ down' = IF conn = "open" THEN Append(down, Event) ELSE down
            /\ UNCHANGED <<todo, attached>>
  /\ UNCHANGED <<caller, tries, callVars, ctxVars, readVars, conn, chrome, crashed>>

ChromeAnswers ==
  /\ chrome = "up"
  /\ conn = "open"
  /\ \E f \in todo : down' = Append(down, f) /\ todo' = todo \ {f}
  /\ UNCHANGED <<caller, tries, callVars, ctxVars, readVars, conn, up, chrome, tab,
                 attached, crashed>>

(* Chrome answers nothing for a while. *)
ChromeHangs ==
  /\ chrome = "up"
  /\ chrome' = "hung"
  /\ UNCHANGED <<caller, tries, callVars, ctxVars, readVars, wireVars, todo, tab,
                 attached, crashed>>

ChromeResumes ==
  /\ chrome = "hung"
  /\ chrome' = "up"
  /\ UNCHANGED <<caller, tries, callVars, ctxVars, readVars, wireVars, todo, tab,
                 attached, crashed>>

(* Its tabs die with it, and what it has not read is lost. *)
ChromeDies ==
  /\ chrome # "dead"
  /\ chrome' = "dead"
  /\ tab' = IF tab = "open" THEN "closed" ELSE tab
  /\ up' = <<>>
  /\ todo' = {}
  /\ UNCHANGED <<caller, tries, callVars, ctxVars, readVars, conn, down, attached, crashed>>

-----------------------------------------------------------------------------
(* The session is over; or Chrome is, and nothing more comes from it. *)
Over ==
  /\ chrome = "dead" \/ (caller = "returned" /\ reader \in {"off", "gone"})
  /\ UNCHANGED vars

NewRawSession ==
  \/ GetURL \/ GetURLFails \/ Pause \/ Dialled \/ DialFails
  \/ CreateTarget \/ AttachToTarget \/ HandshakeSendFails
  \/ TargetCreated \/ Attached \/ HandshakeReadFails

ExecuteStep == Register \/ SendCall \/ SendCallFails \/ CallReturns \/ Forget

CloseStep == StopReading \/ CloseTarget \/ HangUp

ReadLoop == ReaderChecks \/ ReaderReads \/ ReaderFails \/ ReaderDelivers

Chrome == ChromeExecutes \/ ChromeAnswers \/ ChromeHangs \/ ChromeResumes \/ ChromeDies

Next ==
  \/ ~crashed /\ (NewRawSession \/ Execute \/ ExecuteStep \/ CloseStep \/ ReadLoop
                \/ ReadsJunk \/ MapFault)
  \/ DeadlinePasses \/ ClientLeaves \/ Chrome \/ Over

Spec == Init /\ [][Next]_vars

(* The scheduler runs both goroutines, the deadline of jobCtx passes, and a *)
(* Chrome that is up carries out the commands it is sent.  A Chrome that is *)
(* up again and again also answers the handshake, hence the SF; but nothing *)
(* makes it resume, survive, or answer an Execute.                          *)
Fairness ==
  /\ SF_vars(NewRawSession)
  /\ WF_vars(ExecuteStep)
  /\ WF_vars(CloseStep)
  /\ WF_vars(ReadLoop)
  /\ WF_vars(DeadlinePasses)
  /\ WF_vars(ChromeExecutes)

FairSpec == Spec /\ Fairness

-----------------------------------------------------------------------------
TypeOK ==
  /\ caller \in CallerLabels
  /\ tries \in 0..DialTries
  /\ calls \in 0..MaxCalls
  /\ nextID \in Ids
  /\ pending \in SUBSET Ids
  /\ ch \in Frame
  /\ deadline \in BOOLEAN /\ cancelled \in BOOLEAN /\ stopped \in BOOLEAN
  /\ reader \in {"off", "check", "read", "lookup", "gone"}
  /\ frame \in Frame
  /\ conn \in {"none", "open", "closed"}
  /\ up \in Seq(Command) /\ down \in Seq(Frame)
  /\ chrome \in {"up", "hung", "dead"}
  /\ todo \in SUBSET Frame
  /\ tab \in {"none", "open", "closed"}
  /\ attached \in BOOLEAN /\ crashed \in BOOLEAN

(* newRawSession has returned a session. *)
Established == reader # "off"

(* An Execute is only ever given the answer to the command it has sent: not *)
(* the late answer to attachToTarget, which readLoop still has to read when *)
(* the first Execute registers (rawsession.go:239, 262), and not the answer *)
(* to an earlier call.                                                      *)
RightAnswer == ch # NoFrame => ch.call = calls /\ calls > 0

(* Of a session that was established Chrome has the tab and has attached to *)
(* it, although newRawSession takes whatever frame comes next for the       *)
(* answer it waits for (rawsession.go:171, 206).                            *)
SessionHasTab == Established => tab # "none" /\ attached

(* Execute returns, whatever Chrome and readLoop do: answered, or when its  *)
(* context is done.                                                         *)
CallEnds == caller = "await" ~> caller # "await"

(* close gets rid of the tab, also when jobCtx is done, which is how most   *)
(* unsolved requests end: unless Chrome is not there to do it.              *)
TabClosed == caller = "hangup" ~> (tab = "closed" \/ chrome # "up")

(* A session comes to its end: newRawSession returns within the request's   *)
(* deadline (README.md:118: SOLVE_TIMEOUT_SEC is the per-request timeout).  *)
HandshakeEnds == caller = "dial" ~> (Established \/ caller = "returned")

=============================================================================
