-------------------------- MODULE KaitenLink_proofs --------------------------
(***************************************************************************)
(* The connection to Kaiten, for any number of starts of the service, and  *)
(* the questions Kaiten asks over it, for any number of questions of       *)
(* either kind: none is answered twice, and a user is authorized only by a *)
(* tap under the name of that user.                                        *)
(***************************************************************************)
EXTENDS LocalJsonRpc, UserRequests, TLAPS

-----------------------------------------------------------------------------
(* The connection.                                                         *)

\* A freshly constructed LocalJsonRpc satisfies the inductive invariant: the
\* 0 ms timer of its constructor is its one driver.
LEMMA InitInv == Init => Inv
<1> SUFFICES ASSUME Init PROVE Inv
  OBVIOUS
<1>1. ModesOK
  BY BindsAssumption DEF Init, ModesOK
<1>2. FlagsOK
  BY DEF Init, FlagsOK
<1>3. OneDriver /\ StateAgrees
  BY DEF Init, OneDriver, Drivers, StateAgrees
<1> QED
  BY <1>1, <1>2, <1>3 DEF Init, Inv, TypeOK

\* Every step of the UI thread and of the service keeps the variables in their
\* types.
LEMMA NextTypes == Inv /\ [Next]_vars => TypeOK'
<1> SUFFICES ASSUME Inv, [Next]_vars PROVE ModesOK' /\ FlagsOK'
  BY DEF TypeOK
<1> USE BindsAssumption DEF Inv, TypeOK, ModesOK, FlagsOK, serverVars, timerVars
<1>1. CASE InitialCheck \/ RetryTimer \/ DirectoryChanged
  <2> USE <1>1 DEF InitialCheck, RetryTimer, DirectoryChanged, Enter, Exists
  <2>1. ModesOK'
    OBVIOUS
  <2>2. FlagsOK'
    OBVIOUS
  <2> QED
    BY <2>1, <2>2
<1>2. CASE AddPath \/ Recheck
  <2> USE <1>2 DEF AddPath, Recheck, Exists
  <2>1. ModesOK'
    OBVIOUS
  <2>2. FlagsOK'
    OBVIOUS
  <2> QED
    BY <2>1, <2>2
<1>3. CASE Connect \/ PendingConnected \/ PendingFailed \/ SockDisconnected
  <2> USE <1>3 DEF Connect, PendingConnected, PendingFailed, SockDisconnected,
                   SockConnected, StateUnconnected
  <2>1. ModesOK'
    OBVIOUS
  <2>2. FlagsOK'
    OBVIOUS
  <2> QED
    BY <2>1, <2>2
<1>4. CASE InitialTimeout \/ UNCHANGED vars
  BY <1>4 DEF InitialTimeout, vars
<1>5. CASE Service
  <2> USE DEF Unchanged_UI
  <2>1. CASE ServerBind
    BY <2>1 DEF ServerBind
  <2>2. CASE ServerListen
    BY <2>2 DEF ServerListen
  <2>3. CASE ServerStop
    BY <2>3 DEF ServerStop
  <2>4. CASE OtherFile
    BY <2>4 DEF OtherFile
  <2> QED
    BY <1>5, <2>1, <2>2, <2>3, <2>4 DEF Service
<1> QED
  BY <1>1, <1>2, <1>3, <1>4, <1>5 DEF Next, UI

\* Every step keeps the rest of the invariant.  The three handlers that enter
\* checkConnect() hand the role of the driver on to the running call, or to
\* the watched directory when it returns at once.
LEMMA NextInv == Inv /\ [Next]_vars => Inv'
<1> SUFFICES ASSUME Inv, [Next]_vars PROVE Inv'
  OBVIOUS
<1> DEFINE Rest ==
      /\ OneDriver /\ StateAgrees
      /\ pc \in {"addPath", "connect"} => ~watched
      /\ pc = "recheck" => watched
      /\ dirEvent => watched
      /\ doTimeout <=> state \in {"Connecting", "TimedOut"}
      /\ initialTimer => state # "TimedOut"
<1>1. TypeOK'
  BY NextTypes
<1>2. SUFFICES Rest'
  BY <1>1 DEF Inv
<1> USE DEF Inv, TypeOK, ModesOK, FlagsOK, OneDriver, Drivers, StateAgrees,
            serverVars, timerVars
<1>3. CASE InitialCheck
  BY <1>3 DEF InitialCheck, Enter
<1>4. CASE RetryTimer
  BY <1>4 DEF RetryTimer, Enter
<1>5. CASE DirectoryChanged
  <2>1. watched /\ pc = "idle"
    BY <1>5 DEF DirectoryChanged
  <2>2. CASE Exists
    <3>1. OneDriver'
      BY <1>5, <2>1, <2>2 DEF DirectoryChanged, Enter
    <3> QED
      BY <1>5, <2>1, <2>2, <3>1 DEF DirectoryChanged, Enter
  <2>3. CASE ~Exists
    <3>1. OneDriver'
      BY <1>5, <2>1, <2>3 DEF DirectoryChanged, Enter
    <3> QED
      BY <1>5, <2>1, <2>3, <3>1 DEF DirectoryChanged, Enter
  <2> QED
    BY <2>2, <2>3
<1>6. CASE AddPath
  BY <1>6 DEF AddPath
<1>7. CASE Recheck
  <2>1. CASE Exists
    <3>1. ~watched' /\ pc' = "connect" /\ ~dirEvent'
      BY <1>7, <2>1 DEF Recheck
    <3> QED
      BY <1>7, <3>1 DEF Recheck
  <2>2. CASE ~Exists
    <3>1. watched' /\ pc' = "idle"
      BY <1>7, <2>2 DEF Recheck
    <3> QED
      BY <1>7, <3>1 DEF Recheck
  <2> QED
    BY <2>1, <2>2
<1>8. CASE Connect
  BY <1>8 DEF Connect, SockConnected, StateUnconnected
<1>9. CASE PendingConnected
  BY <1>9 DEF PendingConnected, SockConnected
<1>10. CASE PendingFailed
  BY <1>10 DEF PendingFailed, StateUnconnected
<1>11. CASE SockDisconnected
  BY <1>11 DEF SockDisconnected, StateUnconnected
<1>12. CASE InitialTimeout
  BY <1>12 DEF InitialTimeout
<1>13. CASE Service
  <2>1. Unchanged_UI
    BY <1>13 DEF Service, ServerBind, ServerListen, ServerStop, OtherFile
  <2>2. dirEvent' => watched
    BY <1>13 DEF Service, ServerBind, ServerListen, ServerStop, OtherFile
  <2> QED
    BY <2>1, <2>2 DEF Unchanged_UI
<1>14. CASE UNCHANGED vars
  BY <1>14 DEF vars
<1> QED
  BY <1>3, <1>4, <1>5, <1>6, <1>7, <1>8, <1>9, <1>10, <1>11, <1>12, <1>13, <1>14
  DEF Next, UI

\* The variables keep their types.
THEOREM TypeCorrect == Spec => []TypeOK
<1>1. Inv => TypeOK
  BY DEF Inv
<1> QED
  BY <1>1, InitInv, NextInv, PTL DEF Spec

\* The UI is never stranded without anything that would connect it, and retry
\* timers never multiply (LocalJsonRpc::checkConnect, stateChanged).
THEOREM NeverStranded == Spec => []OneDriver
<1>1. Inv => OneDriver
  BY DEF Inv
<1> QED
  BY <1>1, InitInv, NextInv, PTL DEF Spec

\* The state shown to the user, the socket and the stream requests are written
\* to agree in every state.
THEOREM StateAgreement == Spec => []StateAgrees
<1>1. Inv => StateAgrees
  BY DEF Inv
<1> QED
  BY <1>1, InitInv, NextInv, PTL DEF Spec

\* BotModel::state only ever changes as BotConnection allows: the connection
\* implements the safety part of the abstract one.
THEOREM ImplementsConnection == Spec => Abstract!Init /\ [][Abstract!Next]_state
<1> USE DEF Abstract!Init, Abstract!Next, Abstract!FirstConnectionLate,
            Abstract!Connected, Abstract!Disconnected
<1>1. Init => Abstract!Init
  BY DEF Init
<1>2. ASSUME Inv, [Next]_vars PROVE [Abstract!Next]_state
  <2> USE <1>2 DEF Inv, TypeOK, StateAgrees, serverVars, timerVars
  <2>1. CASE InitialCheck \/ RetryTimer \/ DirectoryChanged \/ AddPath \/ Recheck
    BY <2>1 DEF InitialCheck, RetryTimer, DirectoryChanged, AddPath, Recheck
  <2>2. CASE Connect
    BY <2>2 DEF Connect, SockConnected
  <2>3. CASE PendingConnected \/ PendingFailed
    BY <2>3 DEF PendingConnected, PendingFailed, SockConnected
  <2>4. CASE SockDisconnected
    BY <2>4 DEF SockDisconnected
  <2>5. CASE InitialTimeout
    BY <2>5 DEF InitialTimeout
  <2>6. CASE Service \/ UNCHANGED vars
    BY <2>6 DEF Service, ServerBind, ServerListen, ServerStop, OtherFile,
                Unchanged_UI, vars
  <2> QED
    BY <2>1, <2>2, <2>3, <2>4, <2>5, <2>6 DEF Next, UI
<1> QED
  BY <1>1, <1>2, InitInv, NextInv, PTL DEF Spec

-----------------------------------------------------------------------------
(* The questions.                                                          *)

\* Each kind of question has a response of its own; one that is held has been
\* asked and not answered, and the user who is asked for is the one shown.
HeldInv ==
    /\ status \in [Calls -> Answers \cup {"unsent", "open", "gone"}]
    /\ answers \in [Calls -> Nat]
    /\ DOMAIN resp = Kinds
    /\ resp["auth"] \in AuthCalls \cup {NoCall}
    /\ resp["firmware"] \in FirmwareCalls \cup {NoCall}
    /\ \A c \in Calls : status[c] = "unsent" => answers[c] = 0
    /\ \A k \in Kinds : resp[k] # NoCall => status[resp[k]] # "unsent" /\ answers[resp[k]] = 0
    /\ AnswersOnce
    /\ resp["auth"] # NoCall => username = resp["auth"]

LEMMA InitHeld == RequestsInit => HeldInv
  BY CallsAssumption DEF RequestsInit, HeldInv, AnswersOnce, Calls, Kinds, Answers

\* The answer to a question that is held is its first, and ends its being held.
LEMMA RespondKeeps ==
    ASSUME HeldInv, NEW k \in Kinds, NEW answer \in Answers, Respond(k, answer),
           UNCHANGED username
    PROVE  HeldInv'
  <1> USE DEF HeldInv, AnswersOnce
  <1>1. CASE resp[k] = NoCall
    BY <1>1 DEF Respond
  <1>2. CASE resp[k] # NoCall
    <2> DEFINE c == resp[k]
    <2>1. c \in Calls /\ answers[c] = 0 /\ status[c] # "unsent"
      BY <1>2 DEF Calls, Kinds
    <2>2. /\ resp' = [resp EXCEPT ![k] = NoCall]
          /\ answers' = [answers EXCEPT ![c] = @ + 1]
          /\ status' = [status EXCEPT ![c] = IF @ = "open" THEN answer ELSE @]
      BY <1>2 DEF Respond, SendResult
    <2>3. \A k2 \in Kinds : resp[k2] # NoCall /\ k2 # k => resp[k2] # c /\ resp[k2] \in Calls
      BY <1>2, CallsAssumption DEF Calls, Kinds
    <2>4. /\ status' \in [Calls -> Answers \cup {"unsent", "open", "gone"}]
          /\ answers' \in [Calls -> Nat]
      BY <2>1, <2>2
    <2>5. /\ DOMAIN resp' = Kinds
          /\ resp'["auth"] \in AuthCalls \cup {NoCall}
          /\ resp'["firmware"] \in FirmwareCalls \cup {NoCall}
          /\ resp'["auth"] # NoCall => username' = resp'["auth"]
      BY <2>2 DEF Kinds
    <2>6. \A d \in Calls : status'[d] = "unsent" => status[d] = "unsent" /\ d # c
      BY <2>1, <2>2 DEF Answers
    <2>7. \A d \in Calls : d # c => answers'[d] = answers[d]
      BY <2>2
    <2>8. \A d \in Calls : answers'[d] <= 1
      BY <2>1, <2>2, <2>7
    <2>9. \A k2 \in Kinds : resp'[k2] # NoCall =>
             status'[resp'[k2]] # "unsent" /\ answers'[resp'[k2]] = 0
      BY <2>2, <2>3, <2>6, <2>7
    <2> QED
      BY <2>4, <2>5, <2>6, <2>7, <2>8, <2>9
  <1> QED
    BY <1>1, <1>2

\* A question is held when none of its kind is, and else is answered at once.
LEMMA HoldKeeps ==
    ASSUME HeldInv, NEW k \in Kinds, NEW c \in Calls, status[c] = "unsent",
           resp[k] = NoCall, Hold(k, c),
           IF k = "auth" THEN c \in AuthCalls /\ username' = c
                         ELSE c \in FirmwareCalls /\ username' = username
    PROVE  HeldInv'
  <1> USE DEF HeldInv, AnswersOnce
  <1>1. /\ status' = [status EXCEPT ![c] = "open"] /\ answers' = answers
        /\ resp' = [resp EXCEPT ![k] = c]
    BY DEF Hold
  <1>2. status' \in [Calls -> Answers \cup {"unsent", "open", "gone"}]
    BY <1>1
  <1>3. /\ DOMAIN resp' = Kinds
        /\ resp'["auth"] \in AuthCalls \cup {NoCall}
        /\ resp'["firmware"] \in FirmwareCalls \cup {NoCall}
        /\ resp'["auth"] # NoCall => username' = resp'["auth"]
    BY <1>1 DEF Kinds
  <1>4. \A d \in Calls : status'[d] = "unsent" => status[d] = "unsent" /\ d # c
    BY <1>1
  <1>5. \A k2 \in Kinds : k2 # k /\ resp[k2] # NoCall => resp[k2] \in Calls
    BY DEF Calls, Kinds
  <1>6. \A k2 \in Kinds : resp'[k2] # NoCall =>
           status'[resp'[k2]] # "unsent" /\ answers'[resp'[k2]] = 0
    BY <1>1, <1>4, <1>5
  <1> QED
    BY <1>1, <1>2, <1>3, <1>4, <1>6

LEMMA RejectKeeps ==
    ASSUME HeldInv, NEW c \in Calls, status[c] = "unsent", Reject(c),
           UNCHANGED <<resp, username>>
    PROVE  HeldInv'
  <1> USE DEF HeldInv, AnswersOnce
  <1>1. /\ status' = [status EXCEPT ![c] = "rejected"]
        /\ answers' = [answers EXCEPT ![c] = @ + 1]
    BY DEF Reject
  <1>2. /\ status' \in [Calls -> Answers \cup {"unsent", "open", "gone"}]
        /\ answers' \in [Calls -> Nat]
    BY <1>1 DEF Answers
  <1>3. \A d \in Calls : d # c => answers'[d] = answers[d] /\ status'[d] = status[d]
    BY <1>1
  <1>4. answers'[c] = 1 /\ status'[c] = "rejected"
    BY <1>1
  <1>5. \A k \in Kinds : resp[k] # NoCall => resp[k] \in Calls /\ resp[k] # c
    BY DEF Calls, Kinds
  <1> QED
    BY <1>2, <1>3, <1>4, <1>5

LEMMA NextHeld ==
    ASSUME HeldInv, [RequestsNext]_requestVars
    PROVE  HeldInv'
  <1>1. ASSUME NEW c \in AuthCalls, AuthorizeUser(c) PROVE HeldInv'
    BY <1>1, HoldKeeps, RejectKeeps DEF AuthorizeUser, Calls, Kinds
  <1>2. ASSUME NEW c \in FirmwareCalls, AllowUnknownFirmware(c) PROVE HeldInv'
    BY <1>2, HoldKeeps, RejectKeeps DEF AllowUnknownFirmware, Calls, Kinds
  <1>3. CASE TapAuthenticate \/ TapContinue
    BY <1>3, RespondKeeps DEF TapAuthenticate, TapContinue, Kinds, Answers
  <1>4. CASE AuthTimeOut
    <2>1. CASE pending["auth"]
      BY <1>4, <2>1, RespondKeeps DEF AuthTimeOut, Kinds, Answers
    <2>2. CASE ~pending["auth"]
      BY <1>4, <2>2 DEF AuthTimeOut, HeldInv, AnswersOnce
    <2> QED
      BY <2>1, <2>2
  <1>5. ASSUME NEW answer \in {"allow", "rejected"}, TapFirmware(answer) PROVE HeldInv'
    BY <1>5, RespondKeeps DEF TapFirmware, Kinds, Answers
  <1>6. CASE Disconnected
    <2>1. /\ status' = [c \in Calls |-> IF status[c] = "open" THEN "gone" ELSE status[c]]
          /\ UNCHANGED <<answers, resp, username>>
      BY <1>6 DEF Disconnected
    <2>2. \A c \in Calls : status'[c] = "unsent" <=> status[c] = "unsent"
      BY <2>1
    <2>3. \A k \in Kinds : resp[k] # NoCall => resp[k] \in Calls
      BY DEF HeldInv, Calls, Kinds
    <2> QED
      BY <2>1, <2>2, <2>3 DEF HeldInv, AnswersOnce
  <1>7. CASE TapDismiss \/ TapOutside \/ Connected \/ UNCHANGED requestVars
    BY <1>7 DEF TapDismiss, TapOutside, Connected, requestVars, HeldInv, AnswersOnce
  <1> QED
    BY <1>1, <1>2, <1>3, <1>4, <1>5, <1>6, <1>7 DEF RequestsNext

\* AuthRequestMethod, AllowUnknownFirmware and respondAuthRequest: whatever the
\* popups, the timer and questions that come in between do, Kaiten never gets a
\* second answer to a call.
THEOREM NeverAnsweredTwice == RequestsSpec => []AnswersOnce
  <1>1. HeldInv => AnswersOnce
    BY DEF HeldInv
  <1> QED
    BY <1>1, InitHeld, NextHeld, PTL DEF RequestsSpec

\* An answer other than "accepted" does not authorize.
LEMMA OtherAnswers ==
    ASSUME HeldInv, NEW k \in Kinds, NEW answer \in Answers \ {"accepted"},
           Respond(k, answer), NEW c \in AuthCalls, status[c] # "accepted"
    PROVE  status'[c] # "accepted"
  <1>1. CASE resp[k] = NoCall
    BY <1>1 DEF Respond
  <1>2. CASE resp[k] # NoCall
    BY <1>2 DEF Respond, SendResult, HeldInv, Calls
  <1> QED
    BY <1>1, <1>2

\* The step that authorizes a user is a tap on AUTHENTICATE below that name.
LEMMA AcceptingStep ==
    ASSUME HeldInv, [RequestsNext]_requestVars, NEW c \in AuthCalls,
           status[c] # "accepted", status'[c] = "accepted"
    PROVE  popup["auth"] /\ username = c /\ ~skipAuthentication
  <1> c \in Calls
    BY DEF Calls
  <1>1. CASE TapAuthenticate
    <2>1. CASE resp["auth"] = NoCall
      BY <1>1, <2>1 DEF TapAuthenticate, Respond
    <2>2. CASE resp["auth"] # NoCall
      <3>1. status' = [status EXCEPT ![username] = IF @ = "open" THEN "accepted" ELSE @]
        BY <1>1, <2>2 DEF TapAuthenticate, Respond, SendResult, HeldInv
      <3>2. username = c
        BY <3>1 DEF HeldInv
      <3> QED
        BY <1>1, <3>2 DEF TapAuthenticate
    <2> QED
      BY <2>1, <2>2
  <1>2. ASSUME NEW d \in AuthCalls, AuthorizeUser(d) PROVE FALSE
    BY <1>2 DEF AuthorizeUser, Hold, Reject, HeldInv, Calls
  <1>3. ASSUME NEW d \in FirmwareCalls, AllowUnknownFirmware(d) PROVE FALSE
    BY <1>3 DEF AllowUnknownFirmware, Hold, Reject, HeldInv, Calls
  <1>4. CASE TapContinue
    BY <1>4, OtherAnswers DEF TapContinue, Kinds, Answers
  <1>5. CASE AuthTimeOut
    <2>1. CASE pending["auth"]
      BY <1>5, <2>1, OtherAnswers DEF AuthTimeOut, Kinds, Answers
    <2>2. CASE ~pending["auth"]
      BY <1>5, <2>2 DEF AuthTimeOut
    <2> QED
      BY <2>1, <2>2
  <1>6. ASSUME NEW answer \in {"allow", "rejected"}, TapFirmware(answer) PROVE FALSE
    BY <1>6, OtherAnswers DEF TapFirmware, Kinds, Answers
  <1>7. CASE Disconnected
    BY <1>7 DEF Disconnected
  <1>8. CASE TapDismiss \/ TapOutside \/ Connected \/ UNCHANGED requestVars
    BY <1>8 DEF TapDismiss, TapOutside, Connected, requestVars
  <1> QED
    BY <1>1, <1>2, <1>3, <1>4, <1>5, <1>6, <1>7, <1>8 DEF RequestsNext

\* MoreporkUI's authenticatePrinterPopup and KaitenBotModel: a tap never authorizes
\* another user than the one on the screen, also when Kaiten went away with the
\* question or asked another one meanwhile.
THEOREM ShownUserAccepted == RequestsSpec => AcceptsShownUser
  <1>1. ASSUME HeldInv, [RequestsNext]_requestVars
        PROVE  [\A c \in AuthCalls :
                   status[c] # "accepted" /\ status'[c] = "accepted"
                     => popup["auth"] /\ username = c /\ ~skipAuthentication]_requestVars
    BY <1>1, AcceptingStep
  <1> QED
    BY <1>1, InitHeld, NextHeld, PTL DEF RequestsSpec, AcceptsShownUser

=============================================================================
