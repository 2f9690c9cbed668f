---------------------------- MODULE UserRequests ----------------------------
(***************************************************************************)
(* Questions Kaiten asks the user: authorize_user and                      *)
(* allow_unknown_firmware.  KaitenBotModel holds the response of one       *)
(* question of each kind, publishes that it is pending, and rejects the    *)
(* others; the UI opens a popup whose buttons respond.  Kaiten may go away *)
(* at any time, and asks again when it is back.                            *)
(***************************************************************************)
EXTENDS Naturals

CONSTANTS
    AuthCalls,      \* calls of authorize_user in a behaviour
    FirmwareCalls,  \* calls of allow_unknown_firmware
    NoCall

Calls == AuthCalls \cup FirmwareCalls
Kinds == {"auth", "firmware"}

ASSUME CallsAssumption ==
    /\ AuthCalls \cap FirmwareCalls = {}
    /\ NoCall \notin Calls

VARIABLES
    connected,        \* Kaiten is there
    status,           \* what Kaiten knows of each call
    answers,          \* answers Kaiten got to each call
    resp,             \* m_authResp and m_installUnsignedFwResp
    pending,          \* isAuthRequestPending, isInstallUnsignedFwRequestPending
    username,         \* the call whose user name is shown
    popup,            \* authenticatePrinterPopup and installUnsignedFwPopup are open
    isAuthenticated, skipAuthentication,   \* what the former shows
    authTimeOut       \* its timer: five minutes, 1.5 s to close, or off

dialog == <<popup, isAuthenticated, skipAuthentication, authTimeOut>>
requestVars == <<connected, status, answers, resp, pending, username, dialog>>

Answers == {"accepted", "rejected", "timedout", "allow"}

RequestsTypeOK ==
    /\ connected \in BOOLEAN
    /\ status \in [Calls -> Answers \cup {"unsent", "open", "gone"}]
    /\ answers \in [Calls -> Nat]
    /\ resp \in [Kinds -> Calls \cup {NoCall}]
    /\ pending \in [Kinds -> BOOLEAN]
    /\ username \in AuthCalls \cup {NoCall}
    /\ popup \in [Kinds -> BOOLEAN]
    /\ isAuthenticated \in BOOLEAN /\ skipAuthentication \in BOOLEAN
    /\ authTimeOut \in {"off", "long", "short"}

RequestsInit ==
    /\ connected = TRUE
    /\ status = [c \in Calls |-> "unsent"] /\ answers = [c \in Calls |-> 0]
    /\ resp = [k \in Kinds |-> NoCall] /\ pending = [k \in Kinds |-> FALSE]
    /\ username = NoCall
    /\ popup = [k \in Kinds |-> FALSE]
    /\ isAuthenticated = FALSE /\ skipAuthentication = FALSE
    /\ authTimeOut = "off"

-----------------------------------------------------------------------------
(* KaitenBotModel.                                                         *)

\* sendResult(): a call that Kaiten no longer waits for gets no answer.
SendResult(c, answer) ==
    /\ status' = [status EXCEPT ![c] = IF @ = "open" THEN answer ELSE @]
    /\ answers' = [answers EXCEPT ![c] = @ + 1]

\* A second question of a kind is rejected at once.
Reject(c) ==
    /\ status' = [status EXCEPT ![c] = "rejected"]
    /\ answers' = [answers EXCEPT ![c] = @ + 1]

Hold(k, c) ==
    /\ status' = [status EXCEPT ![c] = "open"]
    /\ pending' = [pending EXCEPT ![k] = TRUE]
    /\ resp' = [resp EXCEPT ![k] = c]
    /\ popup' = [popup EXCEPT ![k] = TRUE]
    /\ UNCHANGED answers

\* AuthRequestMethod that updates the properties before it looks at m_authResp.
AuthorizeUser_UpdatesFirst(c) ==
    /\ connected /\ status[c] = "unsent"
    /\ username' = c
    /\ \/ /\ resp["auth"] = NoCall
          /\ Hold("auth", c)
          /\ authTimeOut' = "long"
          /\ isAuthenticated' = (isAuthenticated /\ popup["auth"])
          /\ skipAuthentication' = (skipAuthentication /\ popup["auth"])
       \/ /\ resp["auth"] # NoCall
          /\ Reject(c)
          /\ UNCHANGED <<resp, pending, dialog>>
    /\ UNCHANGED connected

\* AuthRequestMethod::invoke, authRequestUpdate() and onAuthRequestChanged:
\* onOpened resets what the popup shows, but only of a popup that was closed.
AuthorizeUser(c) ==
    /\ connected /\ status[c] = "unsent"
    /\ \/ /\ resp["auth"] = NoCall
          /\ Hold("auth", c)
          /\ username' = c
          /\ authTimeOut' = "long"
          /\ isAuthenticated' = (isAuthenticated /\ popup["auth"])
          /\ skipAuthentication' = (skipAuthentication /\ popup["auth"])
       \/ /\ resp["auth"] # NoCall
          /\ Reject(c)
          /\ UNCHANGED <<resp, pending, username, dialog>>
    /\ UNCHANGED connected

\* AllowUnknownFirmware::invoke and onInstallUnsignedFwRequestChanged.
AllowUnknownFirmware(c) ==
    /\ connected /\ status[c] = "unsent"
    /\ \/ /\ resp["firmware"] = NoCall
          /\ Hold("firmware", c)
       \/ /\ resp["firmware"] # NoCall
          /\ Reject(c)
          /\ UNCHANGED <<resp, pending, popup>>
    /\ UNCHANGED <<connected, username, isAuthenticated, skipAuthentication, authTimeOut>>

\* A respond...Request() that only sends the answer.
Respond_Keeps(k, answer) ==
    IF resp[k] # NoCall
    THEN /\ SendResult(resp[k], answer)
         /\ UNCHANGED <<resp, pending>>
    ELSE UNCHANGED <<status, answers, resp, pending>>

\* respondAuthRequest() and respondInstallUnsignedFwRequest(), which does
\* nothing when no response is held.
Respond(k, answer) ==
    IF resp[k] # NoCall
    THEN /\ SendResult(resp[k], answer)
         /\ resp' = [resp EXCEPT ![k] = NoCall]
         /\ pending' = [pending EXCEPT ![k] = FALSE]
    ELSE UNCHANGED <<status, answers, resp, pending>>

-----------------------------------------------------------------------------
(* The popup of authorize_user.                                            *)

ClosePopup(k) == popup' = [popup EXCEPT ![k] = FALSE]

\* AUTHENTICATE: the popup stays to say so, for 1.5 s from the change of
\* isAuthRequestPending.
TapAuthenticate ==
    /\ popup["auth"] /\ ~isAuthenticated /\ ~skipAuthentication
    /\ Respond("auth", "accepted")
    /\ authTimeOut' = IF pending["auth"] THEN "short" ELSE authTimeOut
    /\ isAuthenticated' = TRUE
    /\ UNCHANGED <<connected, username, popup, skipAuthentication>>

\* DISMISS, and BACK from it.
TapDismiss ==
    /\ popup["auth"] /\ ~isAuthenticated
    /\ skipAuthentication' = ~skipAuthentication
    /\ UNCHANGED <<connected, status, answers, resp, pending, username, popup,
                   isAuthenticated, authTimeOut>>

\* CONTINUE after DISMISS.
TapContinue ==
    /\ popup["auth"] /\ ~isAuthenticated /\ skipAuthentication
    /\ Respond("auth", "rejected")
    /\ authTimeOut' = IF pending["auth"] THEN "short" ELSE authTimeOut
    /\ ClosePopup("auth") /\ isAuthenticated' = FALSE /\ skipAuthentication' = FALSE
    /\ UNCHANGED <<connected, username>>

\* A timer that only closes the popup.
AuthTimeOut_Silent ==
    /\ authTimeOut # "off"
    /\ authTimeOut' = "off"
    /\ ClosePopup("auth") /\ isAuthenticated' = FALSE /\ skipAuthentication' = FALSE
    /\ UNCHANGED <<connected, username, status, answers, resp, pending>>

\* The timer goes off.
AuthTimeOut ==
    /\ authTimeOut # "off"
    /\ IF pending["auth"]
       THEN Respond("auth", "timedout")
       ELSE UNCHANGED <<status, answers, resp, pending>>
    /\ authTimeOut' = "off"
    /\ ClosePopup("auth") /\ isAuthenticated' = FALSE /\ skipAuthentication' = FALSE
    /\ UNCHANGED <<connected, username>>

-----------------------------------------------------------------------------
(* The popup of allow_unknown_firmware.                                    *)

\* INSTALL or CANCEL.
TapFirmware(answer) ==
    /\ popup["firmware"]
    /\ Respond("firmware", answer)
    /\ ClosePopup("firmware")
    /\ UNCHANGED <<connected, username, isAuthenticated, skipAuthentication, authTimeOut>>

\* A tap next to the popup: its closePolicy is CloseOnPressOutside.
TapOutside ==
    /\ popup["firmware"]
    /\ ClosePopup("firmware")
    /\ UNCHANGED <<connected, status, answers, resp, pending, username,
                   isAuthenticated, skipAuthentication, authTimeOut>>

-----------------------------------------------------------------------------
(* Kaiten stops, with its questions, and starts; KaitenBotModel only sets  *)
(* its state.                                                              *)

Disconnected ==
    /\ connected
    /\ connected' = FALSE
    /\ status' = [c \in Calls |-> IF status[c] = "open" THEN "gone" ELSE status[c]]
    /\ UNCHANGED <<answers, resp, pending, username, dialog>>

Connected ==
    /\ ~connected
    /\ connected' = TRUE
    /\ UNCHANGED <<status, answers, resp, pending, username, dialog>>

-----------------------------------------------------------------------------

RequestsNext ==
    \/ \E c \in AuthCalls : AuthorizeUser(c)
    \/ \E c \in FirmwareCalls : AllowUnknownFirmware(c)
    \/ TapAuthenticate \/ TapDismiss \/ TapContinue \/ AuthTimeOut
    \/ \E answer \in {"allow", "rejected"} : TapFirmware(answer)
    \/ TapOutside
    \/ Disconnected \/ Connected

\* The timers of the UI go off.
RequestsSpec == RequestsInit /\ [][RequestsNext]_requestVars /\ WF_requestVars(AuthTimeOut)

-----------------------------------------------------------------------------
(* Properties.                                                             *)

\* A user is authorized by a tap under the name of that user: not by the tap
\* meant for one who asked before, or whose question Kaiten took with it.
AcceptsShownUser ==
    [][\A c \in AuthCalls :
         status[c] # "accepted" /\ status'[c] = "accepted"
            => popup["auth"] /\ username = c /\ ~skipAuthentication]_requestVars

\* Every call is answered at most once, whatever the popup, its timer and the
\* second question do.
AnswersOnce == \A c \in Calls : answers[c] <= 1

\* The pending properties and the held responses say the same, and a question
\* that Kaiten waits for is the one that is held: none is forgotten.
HeldIsPending ==
    /\ \A k \in Kinds : pending[k] <=> resp[k] # NoCall
    /\ \A c \in Calls : status[c] = "open" => \E k \in Kinds : resp[k] = c

\* No authorize_user waits for ever: the timer answers if the user does not.
AuthIsAnswered == \A c \in AuthCalls : status[c] = "open" ~> status[c] # "open"

\* "If we do have a popup in progress, don't show the popup"
\* (kaiten_bot_model.cpp:225): the question that makes others be rejected has
\* its popup on the screen.
PopupInProgress == resp["firmware"] # NoCall => popup["firmware"]

\* "is now authenticated to this printer" (MoreporkUI.qml:1171), under the name
\* of a user: that user has been authorized, and is not waiting for it.  It does
\* not hold for a user who asks while the popup still says so of another.
CompleteIsAnswered == popup["auth"] /\ isAuthenticated => ~pending["auth"]

=============================================================================
