-------------------------- MODULE CdpSession_proofs --------------------------
(***************************************************************************)
(* Theorems about CdpSession, for any number of Execute calls and of        *)
(* attempts to dial.                                                       *)
(***************************************************************************)
EXTENDS CdpSession, TLAPS

-----------------------------------------------------------------------------
(* An id is that of the call that uses it: those of the handshake and of     *)
(* events are below those of Execute. *)
OwnID(f) ==
  \/ f.call = 0 /\ f.id \in 0..2
  \/ f.call \in 1..calls /\ f.id = FirstID + f.call

IdsOwn ==
  /\ \A i \in 1..Len(up) : up[i].what = "close" \/ OwnID(up[i])
  /\ \A f \in todo : OwnID(f)
  /\ \A i \in 1..Len(down) : OwnID(down[i])
  /\ OwnID(frame)

(* Execute uses one id after the other, and an id is in the map only while   *)
(* its Execute runs. *)
IdsInTurn ==
  /\ nextID = FirstID + calls \/ (nextID = FirstID + calls + 1 /\ caller \in {"hangup", "returned"})
  /\ pending \subseteq {FirstID + calls}
  /\ pending # {} => caller \in {"send", "await", "forget"} \/ crashed
  /\ caller \in {"register", "send", "await", "forget"} => calls > 0
  /\ caller = "dial" => tries < DialTries

AnswersCall == ch # NoFrame => ch.call = calls /\ calls > 0

Silent == up = <<>> /\ todo = {} /\ down = <<>>

CreateAnswer(f) == f.id = 1 /\ (~f.error => tab # "none")

(* createTarget is on its way, being answered, answered, or lost. *)
Creating ==
  \/ /\ \E cmd \in Command : cmd.what = "create" /\ cmd.id = 1 /\ up = <<cmd>>
     /\ todo = {} /\ down = <<>>
  \/ \E f \in Frame : CreateAnswer(f) /\ up = <<>> /\ todo = {f} /\ down = <<>>
  \/ \E f \in Frame : CreateAnswer(f) /\ up = <<>> /\ todo = {} /\ down = <<f>>
  \/ Silent

(* Whatever comes while attachToTarget is on its way tells what Chrome did. *)
Attaching ==
  /\ \A i \in 1..Len(up) : up[i].what = "attach"
  /\ \A f \in todo : ~f.error => attached
  /\ \A i \in 1..Len(down) : ~down[i].error => attached

Early == {"dial", "pause", "connect", "create"}
Opening == Early \cup {"created", "attach", "attaching"}

HandshakeInOrder ==
  /\ caller \in Opening => reader = "off"
  /\ caller \in Early => Silent
  /\ caller = "created" => Creating
  /\ caller = "attach" => Silent /\ tab # "none"
  /\ caller = "attaching" => Attaching /\ tab # "none"

SessionInv ==
  /\ TypeOK
  /\ IdsOwn
  /\ IdsInTurn
  /\ AnswersCall
  /\ HandshakeInOrder
  /\ SessionHasTab

-----------------------------------------------------------------------------
LEMMA TypeInductive == TypeOK /\ IdsInTurn /\ [Next]_vars => TypeOK'
<1> SUFFICES ASSUME TypeOK, IdsInTurn, [Next]_vars PROVE TypeOK'
  OBVIOUS
<1> USE SessionAssumption
    DEF TypeOK, CallerLabels, callVars, ctxVars, readVars, wireVars, chromeVars
<1>0. NoFrame \in Frame /\ Event \in Frame
  BY DEF NoFrame, Event, Frame, Ids
<1>1. CASE GetURL
  BY <1>0, <1>1 DEF GetURL
<1>2. CASE GetURLFails
  BY <1>0, <1>2 DEF GetURLFails, IdsInTurn
<1>3. CASE Pause
  BY <1>0, <1>3 DEF Pause, LastTry
<1>4. CASE Dialled
  BY <1>0, <1>4 DEF Dialled
<1>5. CASE DialFails
  BY <1>0, <1>5 DEF DialFails
<1>6. CASE CreateTarget
  BY <1>0, <1>6 DEF CreateTarget, Handshake, Write, Command, Ids
<1>7. CASE AttachToTarget
  BY <1>0, <1>7 DEF AttachToTarget, Handshake, Write, Command, Ids
<1>8. CASE HandshakeSendFails
  BY <1>0, <1>8 DEF HandshakeSendFails, HandshakeFails
<1>9. CASE TargetCreated
  BY <1>0, <1>9 DEF TargetCreated
<1>10. CASE Attached
  BY <1>0, <1>10 DEF Attached
<1>11. CASE HandshakeReadFails
  BY <1>0, <1>11 DEF HandshakeReadFails, HandshakeFails
<1>12. CASE Execute
  BY <1>0, <1>12 DEF Execute, IdsInTurn, FirstID, Ids
<1>13. CASE Register
  BY <1>0, <1>13 DEF Register
<1>14. CASE SendCall
  BY <1>0, <1>14 DEF SendCall, Write, Command
<1>15. CASE SendCallFails
  BY <1>0, <1>15 DEF SendCallFails
<1>16. CASE CallReturns
  BY <1>0, <1>16 DEF CallReturns
<1>17. CASE Forget
  BY <1>0, <1>17 DEF Forget
<1>18. CASE StopReading
  BY <1>0, <1>18 DEF StopReading
<1>19. CASE CloseTarget
  <2>1. nextID + 1 \in Ids
    BY <1>19 DEF CloseTarget, IdsInTurn, TypeOK, FirstID, Ids
  <2>2. [id |-> nextID', call |-> 0, what |-> "close"] \in Command
    BY <1>19, <2>1 DEF CloseTarget, Command
  <2>3. (up' \in Seq(Command) /\ UNCHANGED <<conn, down>>) \/ UNCHANGED wireVars
    BY <1>19, <2>2 DEF CloseTarget, Write, TypeOK
  <2> QED BY <1>19, <2>1, <2>3 DEF CloseTarget
<1>20. CASE HangUp
  BY <1>0, <1>20 DEF HangUp
<1>21. CASE ReaderChecks
  BY <1>0, <1>21 DEF ReaderChecks
<1>22. CASE ReaderReads
  BY <1>0, <1>22 DEF ReaderReads
<1>23. CASE ReaderFails
  BY <1>0, <1>23 DEF ReaderFails
<1>24. CASE ReaderDelivers
  BY <1>0, <1>24 DEF ReaderDelivers
<1>25. CASE MapFault
  BY <1>0, <1>25 DEF MapFault
<1>26. CASE DeadlinePasses
  BY <1>0, <1>26 DEF DeadlinePasses
<1>27. CASE ClientLeaves
  BY <1>0, <1>27 DEF ClientLeaves
<1>28. CASE ChromeExecutes
  <2>1. Head(up) \in Command /\ Tail(up) \in Seq(Command)
    BY <1>28 DEF ChromeExecutes, TypeOK
  <2>2. ASSUME NEW ok \in BOOLEAN
        PROVE  [id |-> Head(up).id, call |-> Head(up).call, error |-> ~ok] \in Frame
    BY <2>1 DEF Command, Frame
  <2>3. todo' \in SUBSET Frame
    BY <1>28, <2>2 DEF ChromeExecutes, TypeOK
  <2>4. down' \in Seq(Frame)
    <3>1. down' = down \/ down' = Append(down, Event)
      BY <1>28 DEF ChromeExecutes
    <3>2. down \in Seq(Frame)
      BY DEF TypeOK
    <3> QED BY <1>0, <3>1, <3>2
  <2>5. tab' \in {"none", "open", "closed"}
    BY <1>28 DEF ChromeExecutes, TypeOK
  <2>6. attached' \in BOOLEAN
    BY <1>28 DEF ChromeExecutes, TypeOK
  <2> QED BY <1>28, <2>1, <2>3, <2>4, <2>5, <2>6 DEF ChromeExecutes
<1>29. CASE ChromeAnswers
  BY <1>0, <1>29 DEF ChromeAnswers
<1>30. CASE ChromeHangs
  BY <1>0, <1>30 DEF ChromeHangs
<1>31. CASE ChromeResumes
  BY <1>0, <1>31 DEF ChromeResumes
<1>32. CASE ChromeDies
  BY <1>0, <1>32 DEF ChromeDies
<1>34. CASE ReadsJunk
  BY <1>0, <1>34 DEF ReadsJunk, HandshakeFails
<1>33. CASE UNCHANGED vars
  BY <1>33 DEF vars
<1> QED BY <1>1, <1>2, <1>3, <1>4, <1>5, <1>6, <1>7, <1>8, <1>9, <1>10, <1>11, <1>12,
       <1>13, <1>14, <1>15, <1>16, <1>17, <1>18, <1>19, <1>20, <1>21, <1>22, <1>23,
       <1>24, <1>25, <1>26, <1>27, <1>28, <1>29, <1>30, <1>31, <1>32, <1>33, <1>34
  DEF Next, NewRawSession, ExecuteStep, CloseStep, ReadLoop, Chrome, Over

-----------------------------------------------------------------------------
(* Elements of a sequence that grows at its end or loses its head. *)
LEMMA Appended ==
  ASSUME NEW S, NEW s \in Seq(S), NEW e \in S, NEW i \in 1..Len(Append(s, e))
  PROVE  Append(s, e)[i] = e \/ (i \in 1..Len(s) /\ Append(s, e)[i] = s[i])
OBVIOUS

LEMMA Shifted ==
  ASSUME NEW S, NEW s \in Seq(S), s # <<>>
  PROVE  /\ 1 \in 1..Len(s) /\ Head(s) = s[1]
         /\ \A i \in 1..Len(Tail(s)) : i + 1 \in 1..Len(s) /\ Tail(s)[i] = s[i + 1]
OBVIOUS

-----------------------------------------------------------------------------
(* What a step can do to each of the places where commands and answers are. *)
LEMMA UpMoves ==
  ASSUME [Next]_vars
  PROVE  \/ up' = up \/ up' = <<>>
         \/ up # <<>> /\ up' = Tail(up)
         \/ CreateTarget \/ AttachToTarget \/ SendCall \/ CloseTarget
BY DEF GetURL, GetURLFails, Pause, Dialled, DialFails, CreateTarget, AttachToTarget,
      HandshakeSendFails, TargetCreated, Attached, HandshakeReadFails, HandshakeFails,
      Handshake,
      Execute, Register, SendCall, SendCallFails, CallReturns, Forget, StopReading,
      CloseTarget, HangUp, ReaderChecks, ReaderReads, ReaderFails, ReaderDelivers,
      MapFault, ReadsJunk, DeadlinePasses, ClientLeaves, ChromeExecutes, ChromeAnswers, ChromeHangs,
      ChromeResumes, ChromeDies, Over, Write, callVars, ctxVars, readVars, wireVars,
      chromeVars, vars, Next, NewRawSession, ExecuteStep, CloseStep, ReadLoop, Chrome

(* What the session sends carries its own id. *)
LEMMA Sent ==
  ASSUME TypeOK, IdsInTurn, CreateTarget \/ AttachToTarget \/ SendCall \/ CloseTarget
  PROVE  up' = up \/ \E cmd \in Command : up' = Append(up,
  cmd) /\ (cmd.what = "close" \/ OwnID(cmd))
<1> USE SessionAssumption
<1> DEFINE Own(cmd) == cmd \in Command /\ (cmd.what = "close" \/ OwnID(cmd))
<1>1. CASE CreateTarget \/ AttachToTarget
  <2>1. /\ Own([id |-> 1, call |-> 0, what |-> "create"])
        /\ Own([id |-> 2, call |-> 0, what |-> "attach"])
    BY DEF Command, Ids, OwnID
  <2> HIDE DEF Own
  <2>2. \E cmd : Own(cmd) /\ up' = Append(up, cmd)
    BY <1>1, <2>1 DEF CreateTarget, AttachToTarget, Handshake, Write
  <2> QED BY <2>2 DEF Own
<1>2. CASE SendCall
  <2>1. Own([id |-> nextID, call |-> calls, what |-> "call"])
    BY <1>2 DEF SendCall, TypeOK, IdsInTurn, Command, OwnID, FirstID
  <2> HIDE DEF Own
  <2>2. \E cmd : Own(cmd) /\ up' = Append(up, cmd)
    BY <1>2, <2>1 DEF SendCall, Write
  <2> QED BY <2>2 DEF Own
<1>3. CASE CloseTarget
  <2>1. Own([id |-> nextID + 1, call |-> 0, what |-> "close"])
    <3>1. nextID + 1 \in Ids
      BY <1>3 DEF CloseTarget, IdsInTurn, TypeOK, FirstID, Ids
    <3> QED BY <3>1 DEF Command
  <2> HIDE DEF Own
  <2>2. up' = up \/ \E cmd : Own(cmd) /\ up' = Append(up, cmd)
    BY <1>3, <2>1 DEF CloseTarget, Write, wireVars
  <2> QED BY <2>2 DEF Own
<1> QED BY <1>1, <1>2, <1>3

LEMMA TodoMoves ==
  ASSUME [Next]_vars, NEW f \in todo', f \notin todo
  PROVE  ChromeExecutes /\ Head(up).what # "close" /\ f.id = Head(up).id /\ f.call = Head(up).call
BY DEF GetURL, GetURLFails, Pause, Dialled, DialFails, CreateTarget, AttachToTarget,
      HandshakeSendFails, TargetCreated, Attached, HandshakeReadFails, HandshakeFails,
      Handshake,
      Execute, Register, SendCall, SendCallFails, CallReturns, Forget, StopReading,
      CloseTarget, HangUp, ReaderChecks, ReaderReads, ReaderFails, ReaderDelivers,
      MapFault, ReadsJunk, DeadlinePasses, ClientLeaves, ChromeExecutes, ChromeAnswers, ChromeHangs,
      ChromeResumes, ChromeDies, Over, Write, callVars, ctxVars, readVars, wireVars,
      chromeVars, vars, Next, NewRawSession, ExecuteStep, CloseStep, ReadLoop, Chrome

LEMMA DownMoves ==
  ASSUME [Next]_vars
  PROVE  \/ down' = down
         \/ ChromeExecutes /\ down' = Append(down, Event)
         \/ \E f \in todo : down' = Append(down, f)
         \/ down # <<>> /\ down' = Tail(down)
BY DEF GetURL, GetURLFails, Pause, Dialled, DialFails, CreateTarget, AttachToTarget,
      HandshakeSendFails, TargetCreated, Attached, HandshakeReadFails, HandshakeFails,
      Handshake,
      Execute, Register, SendCall, SendCallFails, CallReturns, Forget, StopReading,
      CloseTarget, HangUp, ReaderChecks, ReaderReads, ReaderFails, ReaderDelivers,
      MapFault, ReadsJunk, DeadlinePasses, ClientLeaves, ChromeExecutes, ChromeAnswers, ChromeHangs,
      ChromeResumes, ChromeDies, Over, Write, callVars, ctxVars, readVars, wireVars,
      chromeVars, vars, Next, NewRawSession, ExecuteStep, CloseStep, ReadLoop, Chrome

LEMMA FrameMoves ==
  ASSUME [Next]_vars
  PROVE  frame' = frame \/ frame' = NoFrame \/ (down # <<>> /\ frame' = Head(down))
BY DEF GetURL, GetURLFails, Pause, Dialled, DialFails, CreateTarget, AttachToTarget,
      HandshakeSendFails, TargetCreated, Attached, HandshakeReadFails, HandshakeFails,
      Handshake,
      Execute, Register, SendCall, SendCallFails, CallReturns, Forget, StopReading,
      CloseTarget, HangUp, ReaderChecks, ReaderReads, ReaderFails, ReaderDelivers,
      MapFault, ReadsJunk, DeadlinePasses, ClientLeaves, ChromeExecutes, ChromeAnswers, ChromeHangs,
      ChromeResumes, ChromeDies, Over, Write, callVars, ctxVars, readVars, wireVars,
      chromeVars, vars, Next, NewRawSession, ExecuteStep, CloseStep, ReadLoop, Chrome

LEMMA CallsMove ==
  ASSUME TypeOK, [Next]_vars
  PROVE  /\ calls \in Nat /\ calls' \in Nat /\ calls <= calls'
         /\ calls' # calls => Execute
<1>1. calls' = calls \/ Execute
  BY DEF GetURL, GetURLFails, Pause, Dialled, DialFails, CreateTarget, AttachToTarget,
      HandshakeSendFails, TargetCreated, Attached, HandshakeReadFails, HandshakeFails,
      Handshake,
      Register, SendCall, SendCallFails, CallReturns, Forget, StopReading,
      CloseTarget, HangUp, ReaderChecks, ReaderReads, ReaderFails, ReaderDelivers,
      MapFault, ReadsJunk, DeadlinePasses, ClientLeaves, ChromeExecutes, ChromeAnswers, ChromeHangs,
      ChromeResumes, ChromeDies, Over, callVars, vars, Next, NewRawSession, ExecuteStep,
      CloseStep, ReadLoop, Chrome
<1> QED BY <1>1, SessionAssumption DEF TypeOK, Execute

-----------------------------------------------------------------------------
LEMMA IdsOwnInductive ==
  ASSUME SessionInv, [Next]_vars
  PROVE  IdsOwn'
<1> USE DEF SessionInv
<1> DEFINE OwnNext(f) ==
             \/ f.call = 0 /\ f.id \in 0..2
             \/ f.call \in 1..calls' /\ f.id = FirstID + f.call
<1>1. /\ up \in Seq(Command) /\ down \in Seq(Frame) /\ todo \subseteq Frame
      /\ Event \in Frame /\ NoFrame \in Frame
  BY SessionAssumption DEF TypeOK, Event, NoFrame, Frame, Ids
<1>2. ASSUME NEW f, OwnID(f) PROVE OwnNext(f)
  BY <1>2, CallsMove DEF OwnID
<1>3. OwnNext(Event) /\ OwnNext(NoFrame)
  BY DEF OwnID, Event, NoFrame
<1>4. ASSUME NEW f, NEW g, OwnNext(f), g.id = f.id, g.call = f.call PROVE OwnNext(g)
  BY <1>4
<1> HIDE DEF OwnNext
<1>5. ASSUME NEW i \in 1..Len(up') PROVE up'[i].what = "close" \/ OwnNext(up'[i])
  <2>1. CASE up' = up
    BY <1>2, <1>5, <2>1 DEF IdsOwn
  <2>2. CASE up' = <<>>
    BY <1>5, <2>2
  <2>3. CASE up # <<>> /\ up' = Tail(up)
    <3>1. i + 1 \in 1..Len(up) /\ up'[i] = up[i + 1]
      BY <1>1, <1>5, <2>3, Shifted
    <3> QED BY <1>2, <3>1 DEF IdsOwn
  <2>4. ASSUME NEW cmd \in Command, up' = Append(up, cmd), cmd.what = "close" \/ OwnID(cmd)
        PROVE  up'[i].what = "close" \/ OwnNext(up'[i])
    <3>1. up'[i] = cmd \/ (i \in 1..Len(up) /\ up'[i] = up[i])
      BY <1>1, <1>5, <2>4, Appended
    <3> QED BY <1>2, <2>4, <3>1 DEF IdsOwn
  <2>5. CASE CreateTarget \/ AttachToTarget \/ SendCall \/ CloseTarget
    BY <2>1, <2>4, <2>5, Sent
  <2> QED BY <2>1, <2>2, <2>3, <2>5, UpMoves
<1>6. ASSUME NEW f \in todo' PROVE OwnNext(f)
  <2>1. CASE f \in todo
    BY <1>2, <2>1 DEF IdsOwn
  <2>2. CASE f \notin todo
    <3>1. up # <<>> /\ Head(up).what # "close" /\ f.id = Head(up).id /\ f.call = Head(up).call
      BY <1>6, <2>2, TodoMoves DEF ChromeExecutes
    <3>2. OwnID(Head(up))
      BY <1>1, <3>1, Shifted DEF IdsOwn
    <3> QED BY <1>2, <1>4, <3>1, <3>2
  <2> QED BY <2>1, <2>2
<1>7. ASSUME NEW i \in 1..Len(down') PROVE OwnNext(down'[i])
  <2>1. CASE down' = down
    BY <1>2, <1>7, <2>1 DEF IdsOwn
  <2>2. ASSUME NEW f \in Frame, OwnNext(f), down' = Append(down, f) PROVE OwnNext(down'[i])
    <3>1. down'[i] = f \/ (i \in 1..Len(down) /\ down'[i] = down[i])
      BY <1>1, <1>7, <2>2, Appended
    <3> QED BY <1>2, <2>2, <3>1 DEF IdsOwn
  <2>3. CASE down # <<>> /\ down' = Tail(down)
    <3>1. i + 1 \in 1..Len(down) /\ down'[i] = down[i + 1]
      BY <1>1, <1>7, <2>3, Shifted
    <3> QED BY <1>2, <3>1 DEF IdsOwn
  <2>4. CASE \E f \in todo : down' = Append(down, f)
    BY <1>1, <1>2, <2>2, <2>4 DEF IdsOwn
  <2>5. CASE down' = Append(down, Event)
    BY <1>1, <1>3, <2>2, <2>5
  <2> QED BY <2>1, <2>3, <2>4, <2>5, DownMoves
<1>8. OwnNext(frame')
  <2>1. CASE down # <<>> /\ frame' = Head(down)
    <3>1. OwnID(Head(down))
      BY <1>1, <2>1, Shifted DEF IdsOwn
    <3> QED BY <1>2, <2>1, <3>1
  <2>2. CASE frame' = frame
    BY <1>2, <2>2 DEF IdsOwn
  <2>3. CASE frame' = NoFrame
    BY <1>3, <2>3
  <2> QED BY <2>1, <2>2, <2>3, FrameMoves
<1> QED BY <1>5, <1>6, <1>7, <1>8 DEF IdsOwn, OwnID, OwnNext

-----------------------------------------------------------------------------
(* What the steps of the request goroutine do to the ids. *)
LEMMA CallerMoves ==
  ASSUME [Next]_vars
  PROVE  \/ UNCHANGED <<calls, nextID, pending, caller, tries, crashed>>
         \/ ~crashed /\ (GetURLFails \/ Pause \/ Execute \/ Register \/ Forget \/ CloseTarget)
         \/ /\ UNCHANGED <<calls, nextID, pending, tries>>
            /\ \/ crashed' /\ caller' = "returned"
               \/ /\ UNCHANGED crashed /\ ~crashed
                  /\ caller' \notin {"register", "send", "await", "forget", "dial"}
                  /\ caller \notin {"register", "send", "await", "forget", "hangup", "returned"}
               \/ caller = "hangup" /\ caller' = "returned" /\ UNCHANGED crashed
               \/ /\ UNCHANGED crashed
                  /\ caller \in {"send", "await"} /\ caller' \in {"await", "forget"}
BY DEF GetURL, Dialled, DialFails, CreateTarget, AttachToTarget, HandshakeSendFails,
   TargetCreated, Attached, HandshakeReadFails, HandshakeFails, Handshake, SendCall,
   SendCallFails, CallReturns, StopReading, HangUp, ReaderChecks, ReaderReads,
   ReaderFails, ReaderDelivers, MapFault, ReadsJunk, DeadlinePasses, ClientLeaves, ChromeExecutes,
   ChromeAnswers, ChromeHangs, ChromeResumes, ChromeDies, Over, vars, Next,
   NewRawSession, ExecuteStep, CloseStep, ReadLoop, Chrome, callVars

LEMMA IdsInTurnInductive ==
  ASSUME SessionInv, [Next]_vars
  PROVE  IdsInTurn'
<1> USE SessionAssumption DEF SessionInv
<1>1. calls \in Nat /\ tries \in Nat /\ IdsInTurn
  BY DEF TypeOK
<1>2. CASE UNCHANGED <<calls, nextID, pending, caller, tries, crashed>>
  BY <1>1, <1>2 DEF IdsInTurn
<1>3. CASE GetURLFails
  BY <1>1, <1>3 DEF IdsInTurn, GetURLFails, callVars
<1>4. CASE Pause
  BY <1>1, <1>4 DEF IdsInTurn, TypeOK, Pause, LastTry, callVars
<1>5. CASE ~crashed /\ Execute
  BY <1>1, <1>5 DEF IdsInTurn, Execute, FirstID
<1>6. CASE Register
  BY <1>1, <1>6 DEF IdsInTurn, Register
<1>7. CASE Forget
  BY <1>1, <1>7 DEF IdsInTurn, Forget
<1>8. CASE ~crashed /\ CloseTarget
  BY <1>1, <1>8 DEF IdsInTurn, CloseTarget, FirstID
<1>9. CASE UNCHANGED <<calls, nextID, pending, tries>> /\ crashed' /\ caller' = "returned"
  BY <1>1, <1>9 DEF IdsInTurn
<1>10. CASE /\ UNCHANGED <<calls, nextID, pending, tries, crashed>>
            /\ ~crashed
            /\ caller \notin {"register", "send", "await", "forget", "hangup", "returned"}
            /\ caller' \notin {"register", "send", "await", "forget", "dial"}
  BY <1>1, <1>10 DEF IdsInTurn
<1>11. CASE /\ UNCHANGED <<calls, nextID, pending, tries, crashed>>
            /\ caller = "hangup" /\ caller' = "returned"
  BY <1>1, <1>11 DEF IdsInTurn
<1>12. CASE /\ UNCHANGED <<calls, nextID, pending, tries, crashed>>
            /\ caller \in {"send", "await"} /\ caller' \in {"await", "forget"}
  BY <1>1, <1>12 DEF IdsInTurn
<1> QED BY <1>2, <1>3, <1>4, <1>5, <1>6, <1>7, <1>8, <1>9, <1>10, <1>11, <1>12, CallerMoves

-----------------------------------------------------------------------------
(* What readLoop hands over was asked for by the call that is running. *)
LEMMA AnswersCallInductive ==
  ASSUME SessionInv, [Next]_vars
  PROVE  AnswersCall'
<1> USE DEF SessionInv
<1>1. CASE UNCHANGED <<ch, calls>>
  BY <1>1 DEF AnswersCall
<1>2. CASE Execute
  BY <1>2 DEF Execute, AnswersCall
<1>3. CASE ReaderDelivers
  <2>1. UNCHANGED calls /\ (ch' = ch \/ (ch' = frame /\ frame.id \in pending))
    BY <1>3 DEF ReaderDelivers
  <2>2. CASE ch' = frame /\ frame.id \in pending
    <3>1. OwnID(frame)
      BY DEF IdsOwn
    <3>2. frame.id = FirstID + calls
      BY <2>2 DEF IdsInTurn
    <3>3. calls \in Nat
      BY SessionAssumption DEF TypeOK
    <3>4. frame.call = calls /\ calls > 0
      BY <3>1, <3>2, <3>3 DEF OwnID, FirstID
    <3> QED BY <2>1, <2>2, <3>4 DEF AnswersCall
  <2> QED BY <2>1, <2>2 DEF AnswersCall
<1> QED BY <1>1, <1>2, <1>3 DEF GetURL, GetURLFails, Pause, Dialled, DialFails,
   CreateTarget, AttachToTarget, HandshakeSendFails, TargetCreated, Attached,
   HandshakeReadFails, HandshakeFails, Handshake, Register, SendCall, SendCallFails,
   CallReturns, Forget, StopReading, CloseTarget, HangUp, ReaderChecks, ReaderReads,
   ReaderFails, MapFault, ReadsJunk, DeadlinePasses, ClientLeaves, ChromeExecutes, ChromeAnswers,
   ChromeHangs, ChromeResumes, ChromeDies, Over, callVars, vars, Next, NewRawSession,
   ExecuteStep, CloseStep, ReadLoop, Chrome

-----------------------------------------------------------------------------
(* The steps that move nothing between the session and Chrome. *)
Still ==
  /\ UNCHANGED <<up, todo, down, tab, attached>>
  /\ \/ caller' = caller
     \/ caller \in Early /\ caller' \in Early
     \/ caller' \notin Opening
  /\ reader' = "off" <=> reader = "off"

LEMMA HandshakeMoves ==
  ASSUME [Next]_vars
  PROVE  \/ Still \/ CreateTarget \/ AttachToTarget \/ TargetCreated \/ Attached
         \/ SendCall \/ CloseTarget \/ ReaderReads
         \/ ChromeExecutes \/ ChromeAnswers \/ ChromeDies
BY DEF Still, GetURL, GetURLFails, Pause, Dialled, DialFails, HandshakeSendFails,
   HandshakeReadFails, HandshakeFails, Execute, Register, SendCallFails, CallReturns,
   Forget, StopReading, HangUp, ReaderChecks, ReaderFails, ReaderDelivers, MapFault, ReadsJunk,
   DeadlinePasses, ClientLeaves, ChromeHangs, ChromeResumes, Over, callVars, ctxVars,
   readVars, wireVars, chromeVars, vars, Next, NewRawSession, ExecuteStep, CloseStep, ReadLoop,
   Chrome, Early, Opening

(* Of the handshake's two commands the second is only sent when the first    *)
(* has been answered, and nothing else is on its way meanwhile. *)
LEMMA HandshakeInductive ==
  ASSUME SessionInv, [Next]_vars
  PROVE  HandshakeInOrder' /\ SessionHasTab'
<1>1. /\ HandshakeInOrder /\ SessionHasTab /\ todo \subseteq Frame
      /\ up \in Seq(Command) /\ down \in Seq(Frame)
  BY DEF SessionInv, TypeOK
<1>2. CASE Still
  BY <1>1, <1>2 DEF Still, HandshakeInOrder, SessionHasTab, Established, Silent, Creating,
     CreateAnswer, Attaching, Early, Opening
<1>3. CASE CreateTarget
  <2>1. [id |-> 1, call |-> 0, what |-> "create"] \in Command
    BY SessionAssumption DEF Command, Ids
  <2>2. Creating'
    BY <1>1, <1>3, <2>1 DEF CreateTarget, Handshake, Write, HandshakeInOrder, Silent, Early,
       Creating, chromeVars
  <2> QED BY <1>1, <1>3, <2>2 DEF CreateTarget, Handshake, HandshakeInOrder, SessionHasTab,
       Established, Early, Opening, readVars, chromeVars
<1>4. CASE AttachToTarget
  <2>1. Attaching' /\ tab' # "none"
    BY <1>1, <1>4 DEF AttachToTarget, Handshake, Write, HandshakeInOrder, Silent, Attaching,
       chromeVars
  <2> QED BY <1>1, <1>4, <2>1 DEF AttachToTarget, Handshake, HandshakeInOrder, SessionHasTab,
       Established, Early, Opening, readVars
<1>5. CASE TargetCreated
  <2>1. PICK f \in Frame : CreateAnswer(f) /\ up = <<>> /\ todo = {} /\ down = <<f>>
    BY <1>1, <1>5 DEF TargetCreated, HandshakeInOrder, Creating, Silent
  <2>2. Silent' /\ tab' # "none"
    BY <1>5, <2>1 DEF TargetCreated, CreateAnswer, Usable, Silent, chromeVars
  <2> QED BY <1>1, <1>5, <2>2 DEF TargetCreated, HandshakeInOrder, SessionHasTab,
       Established, Early, Opening, readVars
<1>6. CASE Attached
  <2>1. attached /\ tab # "none"
    BY <1>1, <1>6, Shifted DEF Attached, HandshakeInOrder, Attaching
  <2> QED BY <1>1, <1>6, <2>1 DEF Attached, HandshakeInOrder, SessionHasTab, Early, Opening,
       chromeVars
<1>7. CASE SendCall \/ CloseTarget
  BY <1>1, <1>7 DEF SendCall, CloseTarget, HandshakeInOrder, SessionHasTab, Established,
     Early,
     Opening, readVars, chromeVars
<1>8. CASE ReaderReads
  BY <1>1, <1>8 DEF ReaderReads, HandshakeInOrder, SessionHasTab, Established, Early,
     Opening,
     chromeVars
<1>9. CASE ChromeExecutes
  <2>1. /\ SessionHasTab'
        /\ UNCHANGED <<caller, reader>>
        /\ tab # "none" => tab' # "none"
    BY <1>1, <1>9 DEF ChromeExecutes, SessionHasTab, Established, readVars
  <2>2. up # <<>> /\ Head(up) = up[1] /\ 1 \in 1..Len(up) /\ Head(up) \in Command
    BY <1>1, <1>9, Shifted DEF ChromeExecutes
  <2>3. CASE caller \in Early \cup {"attach"}
    BY <1>1, <2>2, <2>3 DEF HandshakeInOrder, Silent
  <2>4. ASSUME caller = "created" PROVE Creating'
    <3>1. PICK cmd \in Command : /\ cmd.what = "create" /\ cmd.id = 1 /\ up = <<cmd>>
                                 /\ todo = {} /\ down = <<>>
      BY <1>1, <2>2, <2>4 DEF HandshakeInOrder, Creating, Silent
    <3>2. /\ up' = <<>> /\ down' = <<>>
          /\ \/ tab' = "open" /\ todo' = {[id |-> cmd.id, call |-> cmd.call, error |-> ~TRUE]}
             \/ todo' = {[id |-> cmd.id, call |-> cmd.call, error |-> ~FALSE]}
      <4>1. Head(up) = cmd /\ Tail(up) = <<>>
        BY <3>1
      <4>2. todo = {} /\ cmd.what = "create"
        BY <3>1
      <4> QED BY <1>9, <3>1, <4>1, <4>2 DEF ChromeExecutes
    <3>3. [id |-> cmd.id, call |-> cmd.call, error |-> ~TRUE] \in Frame
      BY DEF Command, Frame
    <3>4. [id |-> cmd.id, call |-> cmd.call, error |-> ~FALSE] \in Frame
      BY DEF Command, Frame
    <3> QED BY <3>1, <3>2, <3>3, <3>4 DEF Creating, CreateAnswer
  <2>5. ASSUME caller = "attaching" PROVE Attaching'
    <3>1. Attaching /\ Head(up).what = "attach"
      BY <1>1, <2>2, <2>5 DEF HandshakeInOrder, Attaching
    <3>2. \A i \in 1..Len(up') : up'[i].what = "attach"
      BY <1>1, <1>9, <2>2, <3>1, Shifted DEF ChromeExecutes, Attaching
    <3>3. \/ attached'
          \/ /\ UNCHANGED <<attached, down>>
             /\ \A f \in todo' : f \in todo \/ f.error
      <4>1. CASE attached' = TRUE
        BY <4>1
      <4>2. CASE /\ UNCHANGED <<attached, down>>
                 /\ todo' =
                    todo \cup {[id |-> Head(up).id, call |-> Head(up).call, error |-> ~FALSE]}
        <5> DEFINE g == [id |-> Head(up).id, call |-> Head(up).call, error |-> ~FALSE]
        <5>1. g.error
          BY Zenon
        <5> HIDE DEF g
        <5>2. \A f \in todo' : f \in todo \/ f = g
          BY <4>2 DEF g
        <5> QED BY <4>2, <5>1, <5>2, Zenon
      <4> QED BY <1>9, <3>1, <4>1, <4>2 DEF ChromeExecutes
    <3> QED BY <3>1, <3>2, <3>3 DEF Attaching
  <2> QED BY <1>1, <2>1, <2>3, <2>4, <2>5 DEF HandshakeInOrder, Opening
<1>10. CASE ChromeAnswers
  <2>1. /\ SessionHasTab'
        /\ UNCHANGED <<caller, reader, tab, attached, up>>
    BY <1>1, <1>10 DEF ChromeAnswers, SessionHasTab, Established, readVars
  <2>2. PICK f \in todo : down' = Append(down, f) /\ todo' = todo \ {f}
    BY <1>10 DEF ChromeAnswers
  <2>3. ASSUME caller = "created" PROVE Creating'
    <3>1. PICK g \in Frame : CreateAnswer(g) /\ up = <<>> /\ todo = {g} /\ down = <<>>
      BY <1>1, <2>2, <2>3 DEF HandshakeInOrder, Creating, Silent
    <3>2. down' = <<g>> /\ todo' = {} /\ up' = <<>>
      BY <2>1, <2>2, <3>1
    <3> QED BY <2>1, <3>1, <3>2 DEF Creating, CreateAnswer
  <2>4. ASSUME caller = "attaching" PROVE Attaching'
    <3>1. Attaching /\ f \in Frame
      BY <1>1, <2>2, <2>4 DEF HandshakeInOrder
    <3>2. \A i \in 1..Len(down') : ~down'[i].error => attached
      BY <1>1, <2>2, <3>1, Appended DEF Attaching
    <3> QED BY <2>1, <2>2, <3>1, <3>2 DEF Attaching
  <2> QED BY <1>1, <2>1, <2>2, <2>3, <2>4 DEF HandshakeInOrder, Silent, Opening
<1>11. CASE ChromeDies
  BY <1>1, <1>11 DEF ChromeDies, HandshakeInOrder, SessionHasTab, Established, Silent,
     Creating,
     CreateAnswer, Attaching, Early, Opening, readVars
<1> QED BY <1>2, <1>3, <1>4, <1>5, <1>6, <1>7, <1>8, <1>9, <1>10, <1>11, HandshakeMoves

-----------------------------------------------------------------------------
(* The invariant of the session. *)
THEOREM SessionInvHolds == Spec => []SessionInv
<1>1. Init => SessionInv
  <2> SUFFICES ASSUME Init PROVE SessionInv
    OBVIOUS
  <2>1. NoFrame \in Frame
    BY SessionAssumption DEF NoFrame, Frame, Ids
  <2>2. TypeOK
    <3>1. nextID \in Ids /\ calls \in 0..MaxCalls /\ tries \in 0..DialTries
      BY SessionAssumption DEF Init, FirstID, Ids
    <3>2. up \in Seq(Command) /\ down \in Seq(Frame) /\ todo \in SUBSET Frame
          /\ pending \in SUBSET Ids
      BY DEF Init
    <3>3. ch \in Frame /\ frame \in Frame
      BY <2>1 DEF Init
    <3> QED BY <3>1, <3>2, <3>3 DEF Init, TypeOK, CallerLabels
  <2>3. IdsOwn
    BY DEF Init, IdsOwn, OwnID, NoFrame
  <2>4. IdsInTurn
    BY SessionAssumption DEF Init, IdsInTurn, FirstID
  <2>5. HandshakeInOrder
    BY DEF Init, HandshakeInOrder, Silent, Early, Opening
  <2>6. AnswersCall /\ SessionHasTab
    BY DEF Init, AnswersCall, SessionHasTab, Established
  <2> QED BY <2>2, <2>3, <2>4, <2>5, <2>6 DEF SessionInv
<1>2. SessionInv /\ [Next]_vars => SessionInv'
  BY TypeInductive, IdsOwnInductive, IdsInTurnInductive, AnswersCallInductive,
     HandshakeInductive DEF SessionInv
<1> QED BY <1>1, <1>2, PTL DEF Spec

(* Types of the session: the ids stay within those of its calls, and        *)
(* dialChrome makes no attempt too many. *)
THEOREM SessionTypeCorrect == Spec => []TypeOK
<1>1. SessionInv => TypeOK
  BY DEF SessionInv
<1> QED BY <1>1, SessionInvHolds, PTL

(* An Execute gets the answer to its own command, however late or out of     *)
(* order Chrome answers, and although no lock protects the map. *)
THEOREM AnswerIsRight == Spec => []RightAnswer
<1>1. SessionInv => RightAnswer
  BY DEF SessionInv, AnswersCall, RightAnswer
<1> QED BY <1>1, SessionInvHolds, PTL

(* A session that newRawSession returns has a tab and is attached to it,     *)
(* although the handshake takes whatever frame comes next. *)
THEOREM EstablishedHasTab == Spec => []SessionHasTab
<1>1. SessionInv => SessionHasTab
  BY DEF SessionInv
<1> QED BY <1>1, SessionInvHolds, PTL

-----------------------------------------------------------------------------
(* The end of an established session.  That the tab is closed in the end is  *)
(* TLC's; what is proved is that close leaves it to nobody but Chrome.       *)

(* close has sent its command: unless Chrome is dead, it has closed the tab, *)
(* or the command that closes it is on its way, jobCtx done or not.          *)
CloseSent ==
  Established /\ caller \in {"hangup", "returned"} /\ ~crashed =>
    tab = "closed" \/ chrome = "dead" \/ \E i \in 1..Len(up) : up[i].what = "close"

(* The handshake leaves no command on its way that opens another tab.        *)
NothingToOpen == Established => \A i \in 1..Len(up) : up[i].what # "create"

(* The steps that send Chrome nothing and take nothing from it, and none of  *)
(* which ends an established session without close.                          *)
Aside ==
  /\ UNCHANGED <<up, tab>>
  /\ chrome = "dead" => chrome' = "dead"
  /\ reader' = "off" <=> reader = "off"
  /\ crashed => crashed'
  /\ caller' \in {"hangup", "returned"} =>
       caller \in {"hangup", "returned"} \cup Opening \/ crashed'

(* Every step stays aside of the commands on their way, or is one of seven.  *)
LEMMA CommandMoves ==
  ASSUME TypeOK, [Next]_vars
  PROVE  \/ Aside \/ CreateTarget \/ AttachToTarget \/ Attached \/ SendCall \/ CloseTarget
         \/ ChromeExecutes \/ ChromeDies
BY DEF TypeOK, Aside, GetURL, GetURLFails, Pause, Dialled, DialFails, HandshakeSendFails,
   HandshakeReadFails, HandshakeFails, TargetCreated, Execute, Register, SendCallFails,
   CallReturns, Forget, StopReading, HangUp, ReaderChecks, ReaderReads, ReaderFails,
   ReaderDelivers, MapFault, ReadsJunk, DeadlinePasses, ClientLeaves, ChromeAnswers, ChromeHangs,
   ChromeResumes, Over, callVars, ctxVars, readVars, wireVars, chromeVars, vars, Next,
   NewRawSession, ExecuteStep, CloseStep, ReadLoop, Chrome, Early, Opening

(* Nothing but the handshake sends a command that opens a tab, and the answer *)
(* to attachToTarget means that Chrome has read it.                          *)
LEMMA NothingToOpenInductive ==
  ASSUME SessionInv, NothingToOpen, [Next]_vars
  PROVE  NothingToOpen'
<1>1. /\ TypeOK /\ HandshakeInOrder /\ up \in Seq(Command)
  BY DEF SessionInv, TypeOK
<1>2. CASE Aside
  BY <1>2 DEF Aside, NothingToOpen, Established
<1>3. CASE CreateTarget \/ AttachToTarget
  <2>1. reader' = "off"
    BY <1>1, <1>3 DEF CreateTarget, AttachToTarget, Handshake, HandshakeInOrder, Opening, Early,
       readVars
  <2> QED BY <2>1 DEF NothingToOpen, Established
<1>4. CASE Attached
  BY <1>1, <1>4 DEF Attached, HandshakeInOrder, Attaching, NothingToOpen
<1>5. CASE SendCall \/ CloseTarget
  <2>1. up' = up \/ \E cmd \in Command : cmd.what # "create" /\ up' = Append(up, cmd)
    <3>1. CASE SendCall
      BY <1>1, <3>1, Sent DEF SendCall, Write, TypeOK, SessionInv, Command
    <3>2. CASE CloseTarget
      BY <1>1, <3>2, Sent DEF CloseTarget, Write, wireVars, TypeOK, SessionInv, Command
    <3> QED BY <1>5, <3>1, <3>2
  <2>2. reader' = reader
    BY <1>5 DEF SendCall, CloseTarget, readVars
  <2> QED BY <1>1, <2>1, <2>2, Appended DEF NothingToOpen, Established
<1>6. CASE ChromeExecutes
  <2>1. up # <<>> /\ up' = Tail(up) /\ reader' = reader
    BY <1>6 DEF ChromeExecutes, readVars
  <2> QED BY <1>1, <2>1, Shifted DEF NothingToOpen, Established
<1>7. CASE ChromeDies
  BY <1>7 DEF ChromeDies, NothingToOpen
<1> QED BY <1>1, <1>2, <1>3, <1>4, <1>5, <1>6, <1>7, CommandMoves

(* Chrome forgets the command only when it dies, and nothing opens the tab   *)
(* again once it has carried it out. *)
LEMMA CloseSentInductive ==
  ASSUME SessionInv, NothingToOpen, CloseSent, [Next]_vars
  PROVE  CloseSent'
<1> DEFINE Sends(s) == \E i \in 1..Len(s) : s[i].what = "close"
<1>2. TypeOK /\ HandshakeInOrder /\ up \in Seq(Command)
  BY DEF SessionInv, TypeOK
<1>3. CASE Aside
  BY <1>2, <1>3 DEF Aside, CloseSent, HandshakeInOrder, Established, Opening
<1>4. CASE CreateTarget \/ AttachToTarget \/ Attached \/ SendCall
  BY <1>4 DEF CreateTarget, AttachToTarget, Handshake, Attached, SendCall, CloseSent
<1>5. CASE CloseTarget
  <2>1. chrome' = chrome
    BY <1>5 DEF CloseTarget, chromeVars
  <2>2. CASE Write([id |-> nextID', call |-> 0, what |-> "close"])
    <3>1. up' = Append(up, [id |-> nextID', call |-> 0, what |-> "close"])
      BY <2>2 DEF Write
    <3>2. up'[Len(up) + 1].what = "close" /\ Len(up) + 1 \in 1..Len(up')
      BY <1>2, <3>1
    <3> QED BY <3>2 DEF CloseSent
  <2> QED BY <1>5, <2>1, <2>2 DEF CloseTarget, SendsClose, CloseSent
<1>6. CASE ChromeExecutes
  <2>1. /\ up # <<>> /\ up' = Tail(up) /\ UNCHANGED <<caller, reader, crashed, chrome>>
        /\ Head(up).what = "close" => tab' = "closed"
        /\ Head(up).what # "create" => tab' = tab \/ tab' = "closed"
    BY <1>6 DEF ChromeExecutes, readVars
  <2>2. SUFFICES ASSUME Established, caller \in {"hangup", "returned"}, ~crashed
                 PROVE  tab' = "closed" \/ chrome' = "dead" \/ Sends(up')
    BY <2>1 DEF CloseSent, Established
  <2>3. /\ 1 \in 1..Len(up) /\ Head(up) = up[1]
        /\ \A i \in 1..Len(Tail(up)) : i + 1 \in 1..Len(up) /\ Tail(up)[i] = up[i + 1]
    BY <1>2, <2>1, Shifted
  <2>4. Head(up).what # "create"
    BY <2>2, <2>3 DEF NothingToOpen
  <2>5. CASE tab = "closed" \/ chrome = "dead"
    BY <2>1, <2>4, <2>5
  <2>6. ASSUME NEW i \in 1..Len(up), up[i].what = "close", Head(up).what # "close"
        PROVE  Sends(up')
    <3>1. i - 1 \in 1..Len(Tail(up)) /\ Tail(up)[i - 1] = up[i]
      BY <1>2, <2>1, <2>3, <2>6
    <3> QED BY <2>1, <2>6, <3>1
  <2> QED BY <2>1, <2>2, <2>5, <2>6 DEF CloseSent
<1>7. CASE ChromeDies
  BY <1>7 DEF ChromeDies, CloseSent
<1> QED BY <1>2, <1>3, <1>4, <1>5, <1>6, <1>7, CommandMoves

(* A session that is over, on whatever path and however jobCtx has ended,    *)
(* has left Chrome the command that closes its tab, and nothing that would   *)
(* open another: only a Chrome that is dead, or a crash of the service,      *)
(* spares it. *)
THEOREM TabOnItsWayOut == Spec => [](CloseSent /\ NothingToOpen)
<1>1. Init => CloseSent /\ NothingToOpen
  BY DEF Init, CloseSent, NothingToOpen, Established
<1>2. SessionInv /\ CloseSent /\ NothingToOpen /\ [Next]_vars => CloseSent' /\ NothingToOpen'
  BY NothingToOpenInductive, CloseSentInductive
<1> QED BY <1>1, <1>2, SessionInvHolds, PTL DEF Spec

=============================================================================
