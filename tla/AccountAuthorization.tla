------------------------ MODULE AccountAuthorization ------------------------
(***************************************************************************)
(* Authorizing the printer to an account, with a one time password or with *)
(* credentials.  Network keeps one pointer, m_reply, for the reply of its  *)
(* three kinds of requests, and each handler reads m_reply and not the     *)
(* reply that finished.  The pages of the UI connect handlers to Network's *)
(* signals, poll on a timer, and cover the screen with a modal popup.      *)
(*                                                                         *)
(* All handlers run on one thread; the replies of the web service come in  *)
(* any order, and the user approves a code on another device at any time.  *)
(***************************************************************************)
EXTENDS Naturals

CONSTANTS
    Requests,       \* replies that can exist at the same time
    NoReply,        \* m_reply == nullptr
    MaxSessions,    \* bound on the one time passwords the service gives out
    MaxSignIns      \* bound on the sign-ins that reach Kaiten

ASSUME AuthAssumption ==
    /\ NoReply \notin Requests
    /\ MaxSessions \in Nat /\ MaxSignIns \in Nat

Codes == 1 .. MaxSessions
NoCode == 0

VARIABLES
    reply,      \* m_reply
    flight,     \* what each reply is for, or "free"; "finished" is unread by now
    asked,      \* the one time password a check asks about
    given,      \* one time passwords the service has given out
    approved,   \* those the user has typed in on the web page
    slow,       \* in this behaviour a reply may take longer than the 5 s between
                \* two checks, or than the user takes to send another request
    leaves,     \* in this behaviour the UI may leave these pages on its own: for a
                \* notification the user taps, or a print started elsewhere
    shown,      \* AuthorizeAccountsPage is the open page of the settings
    page,       \* its page: the index of authorizeAccountSwipeView
    current,    \* currentItem, whose altBack() the back button calls: the accounts
                \* item, the item of page, or one of another page
    popup,      \* state of the modal authorizeAccountPopup, or "none"
    getsOtp, getsFailed, getsAuth,  \* getOTP, getOTPFailed, authorized connected
    getsToken,  \* getTokenSucceeded and getTokenFailed connected
    otp,        \* the one time password on the page
    polling,    \* checkAuthTimer runs
    expiring,   \* expireOTPTimer runs
    otpExpired, \* otp_expired
    handed,     \* addMakerbotAccount() calls for each code, NoCode for sign-ins
    lost        \* an answer was thrown away while the page polled for it

netVars     == <<reply, flight, asked>>
serviceVars == <<given, approved, slow, leaves>>
screen      == <<shown, current>>
handlers    == <<getsOtp, getsFailed, getsAuth, getsToken>>
timers      == <<polling, expiring>>
vars == <<netVars, serviceVars, screen, page, popup, handlers, otp, timers, otpExpired,
          handed, lost>>

Kinds == {"otp", "check", "credentials"}

TypeOK ==
    /\ reply \in Requests \cup {NoReply}
    /\ flight \in [Requests -> Kinds \cup {"free", "finished"}]
    /\ asked \in [Requests -> Codes \cup {NoCode}]
    /\ given \in Codes \cup {NoCode} /\ approved \subseteq Codes /\ slow \in BOOLEAN
    /\ leaves \in BOOLEAN /\ shown \in BOOLEAN
    /\ page \in {"choose", "code", "signIn"}
    /\ current \in {"accounts", "page", "other"}
    /\ popup \in {"none", "connecting_to_get_otp", "failed_to_get_otp", "authorizing",
                  "authorization_failed", "authorization_successful"}
    /\ getsOtp \in BOOLEAN /\ getsFailed \in BOOLEAN /\ getsAuth \in BOOLEAN
    /\ getsToken \in BOOLEAN
    /\ otp \in Codes \cup {NoCode}
    /\ polling \in BOOLEAN /\ expiring \in BOOLEAN /\ otpExpired \in BOOLEAN
    /\ handed \in [Codes \cup {NoCode} -> Nat]
    /\ lost \in BOOLEAN

Init ==
    /\ reply = NoReply
    /\ flight = [r \in Requests |-> "free"] /\ asked = [r \in Requests |-> NoCode]
    /\ given = NoCode /\ approved = {} /\ slow \in BOOLEAN /\ leaves \in BOOLEAN
    /\ shown = FALSE /\ page = "choose" /\ current = "other" /\ popup = "none"
    /\ getsOtp = FALSE /\ getsFailed = FALSE /\ getsAuth = FALSE /\ getsToken = FALSE
    /\ otp = NoCode /\ polling = FALSE /\ expiring = FALSE /\ otpExpired = FALSE
    /\ handed = [c \in Codes \cup {NoCode} |-> 0]
    /\ lost = FALSE

-----------------------------------------------------------------------------
(* Network.                                                                *)

\* A post() or get() whose reply takes the place of whatever m_reply was; a
\* finished reply nothing points to is never looked at again.
Send(kind, code) ==
    /\ slow \/ \A r \in Requests : flight[r] \notin Kinds
    /\ \E r \in Requests :
        /\ flight[r] = "free" \/ (r = reply /\ flight[r] = "finished")
        /\ reply' = r
        /\ flight' = [q \in Requests |->
                        IF q = r THEN kind
                        ELSE IF flight[q] = "finished" THEN "free" ELSE flight[q]]
        /\ asked' = [asked EXCEPT ![r] = code]

\* r has finished, and its handler deletes the reply it has read, m_reply: one
\* still in flight is aborted and finishes no more.
DeleteReply(r) ==
    /\ flight' = [q \in Requests |-> IF q \in {r, reply} THEN "free" ELSE flight[q]]
    /\ reply' = NoReply
    /\ UNCHANGED asked

\* The handler of r reads m_reply: the answer of r, or no data of a reply that
\* is still in flight or was read before.
Reads(r, answer) == IF reply = r THEN answer ELSE "malformed"

\* No handler runs, or it returns for m_reply == nullptr.
FinishUnread(r) ==
    /\ flight[r] \in Kinds
    /\ reply = NoReply
    /\ flight' = [flight EXCEPT ![r] = "free"]
    /\ UNCHANGED <<reply, asked, serviceVars, screen, page, popup, handlers, otp, timers,
                   otpExpired, handed, lost>>

-----------------------------------------------------------------------------
(* Authorize with code.                                                    *)

DisconnectHandlers == getsOtp' = FALSE /\ getsFailed' = FALSE /\ getsAuth' = FALSE

StopTimers == polling' = FALSE /\ expiring' = FALSE

BeginAuthWithCode ==
    /\ Send("otp", NoCode)
    /\ popup' = "connecting_to_get_otp"
    /\ getsOtp' = TRUE /\ getsFailed' = TRUE /\ getsAuth' = TRUE

TapAuthorizeWithCode ==
    /\ shown /\ page = "choose" /\ popup = "none"
    /\ BeginAuthWithCode
    /\ page' = "code" /\ current' = "page"
    /\ UNCHANGED <<serviceVars, shown, getsToken, otp, timers, otpExpired, handed, lost>>

TapGetOTP ==
    /\ shown /\ page = "code" /\ popup = "none" /\ otpExpired
    /\ BeginAuthWithCode
    /\ UNCHANGED <<serviceVars, screen, page, getsToken, otp, timers, otpExpired, handed,
                   lost>>

\* getOTP().
GetOTP ==
    IF getsOtp
    THEN /\ otpExpired' = FALSE
         /\ popup' = "none"
         /\ getsOtp' = FALSE
         /\ otp' = given + 1
         /\ polling' = TRUE /\ expiring' = TRUE
         /\ UNCHANGED <<getsFailed, getsAuth>>
    ELSE UNCHANGED <<otpExpired, popup, getsOtp, getsFailed, getsAuth, otp, timers>>

\* getOTPFailed().
GetOTPFailed ==
    /\ IF getsFailed
       THEN DisconnectHandlers /\ popup' = "failed_to_get_otp"
       ELSE UNCHANGED <<getsOtp, getsFailed, getsAuth, popup>>
    /\ UNCHANGED <<otpExpired, otp, timers>>

\* A handler that says nothing of data it cannot parse.
FinishOtp_Silent(r) ==
    /\ flight[r] = "otp" /\ reply # NoReply
    /\ \/ /\ reply = r /\ given < MaxSessions
          /\ given' = given + 1
          /\ GetOTP
          /\ DeleteReply(r)
       \/ /\ reply = r
          /\ GetOTPFailed
          /\ DeleteReply(r)
          /\ UNCHANGED given
       \/ /\ flight' = [flight EXCEPT ![r] = IF reply = r THEN "finished" ELSE "free"]
          /\ UNCHANGED <<reply, asked, given, getsOtp, getsFailed, getsAuth, popup,
                         otpExpired, otp, timers>>
    /\ UNCHANGED <<approved, slow, leaves, screen, page, getsToken, handed, lost>>

\* handleRespInitiateAuthWithCode(): after data it cannot parse, m_reply stays.
FinishOtp(r) ==
    /\ flight[r] = "otp" /\ reply # NoReply
    /\ \/ /\ reply = r /\ given < MaxSessions
          /\ given' = given + 1
          /\ GetOTP
          /\ DeleteReply(r)
       \/ /\ reply = r
          /\ GetOTPFailed
          /\ DeleteReply(r)
          /\ UNCHANGED given
       \/ /\ GetOTPFailed
          /\ flight' = [flight EXCEPT ![r] = IF reply = r THEN "finished" ELSE "free"]
          /\ UNCHANGED <<reply, asked, given>>
    /\ UNCHANGED <<approved, slow, leaves, screen, page, getsToken, handed, lost>>

\* checkAuthTimer: checkAuthWithCode().
CheckAuthTimer ==
    /\ polling
    /\ Send("check", otp)
    /\ UNCHANGED <<serviceVars, screen, page, popup, handlers, otp, timers, otpExpired, handed,
                   lost>>

\* authorized() that leaves its handlers connected and its timer running.
Authorized_KeepsPolling(code) ==
    /\ handed' = [handed EXCEPT ![code] = @ + 1]
    /\ popup' = "authorization_successful"
    /\ UNCHANGED <<getsOtp, getsFailed, getsAuth, polling>>

\* authorized().
Authorized(code) ==
    /\ DisconnectHandlers
    /\ polling' = FALSE
    /\ handed' = [handed EXCEPT ![code] = @ + 1]
    /\ popup' = "authorization_successful"

\* handleRespCheckAuthWithCode() that reads the reply that finished.
FinishCheck_ReadsSender(r) ==
    /\ flight[r] = "check" /\ reply # NoReply
    /\ \E answer \in {"error", "malformed", "pending"}
                     \cup (IF asked[r] \in approved THEN {"authed"} ELSE {}) :
          /\ IF answer = "authed" /\ getsAuth
             THEN Authorized(asked[r])
             ELSE UNCHANGED <<getsOtp, getsFailed, getsAuth, polling, handed, popup>>
          /\ UNCHANGED lost
    /\ flight' = [flight EXCEPT ![r] = "free"]
    /\ reply' = IF reply = r THEN NoReply ELSE reply
    /\ UNCHANGED <<asked, serviceVars, screen, page, getsToken, otp, expiring, otpExpired>>

\* handleRespCheckAuthWithCode(): m_reply is dropped whatever was read.
FinishCheck(r) ==
    /\ flight[r] = "check" /\ reply # NoReply
    /\ \E answer \in {"error", "malformed", "pending"}
                     \cup (IF asked[r] \in approved THEN {"authed"} ELSE {}) :
          /\ IF Reads(r, answer) = "authed" /\ getsAuth
             THEN Authorized(asked[r])
             ELSE UNCHANGED <<getsOtp, getsFailed, getsAuth, polling, handed, popup>>
          /\ lost' = (lost \/ (/\ answer = "authed" /\ reply # r
                               /\ polling /\ asked[r] = otp))
    /\ DeleteReply(r)
    /\ UNCHANGED <<serviceVars, screen, page, getsToken, otp, expiring, otpExpired>>

\* expireOTPTimer, once the code is five minutes old.
ExpireOTPTimer ==
    /\ expiring
    /\ otpExpired' = TRUE
    /\ StopTimers
    /\ UNCHANGED <<netVars, serviceVars, screen, page, popup, handlers, otp, handed, lost>>

\* The back button that only leaves the page.
BackFromCode_KeepsHandlers ==
    /\ shown /\ page = "code" /\ current = "page" /\ popup = "none"
    /\ StopTimers
    /\ page' = "choose" /\ current' = "accounts"
    /\ UNCHANGED <<netVars, serviceVars, shown, popup, handlers, otp, otpExpired, handed,
                   lost>>

BackFromCode_KeepsTimers ==
    /\ shown /\ page = "code" /\ current = "page" /\ popup = "none"
    /\ DisconnectHandlers
    /\ page' = "choose" /\ current' = "accounts"
    /\ UNCHANGED <<netVars, serviceVars, shown, popup, getsToken, otp, timers, otpExpired,
                   handed, lost>>

\* altBack() of the page, while its item is the current one.
BackFromCode ==
    /\ shown /\ page = "code" /\ current = "page" /\ popup = "none"
    /\ DisconnectHandlers
    /\ StopTimers
    /\ page' = "choose" /\ current' = "accounts"
    /\ UNCHANGED <<netVars, serviceVars, shown, popup, getsToken, otp, otpExpired, handed,
                   lost>>

\* OK on "failed to get otp": backToSelectAuthMethod().
BackToSelectAuthMethod ==
    /\ popup = "failed_to_get_otp"
    /\ popup' = "none"
    /\ StopTimers
    /\ page' = "choose" /\ current' = "accounts"
    /\ UNCHANGED <<netVars, serviceVars, shown, handlers, otp, otpExpired, handed, lost>>

\* The user types a code of the printer in on the web page.
Approve ==
    /\ \E c \in 1 .. given :
          /\ c \notin approved
          /\ approved' = approved \cup {c}
    /\ UNCHANGED <<netVars, given, slow, leaves, screen, page, popup, handlers, otp, timers,
                   otpExpired, handed, lost>>

-----------------------------------------------------------------------------
(* Authorize with credentials.                                             *)

OpenSignIn ==
    /\ shown /\ page = "choose" /\ popup = "none"
    /\ page' = "signIn" /\ current' = "page"
    /\ UNCHANGED <<netVars, serviceVars, shown, popup, handlers, otp, timers, otpExpired, handed,
                   lost>>

\* The back button, the nested pages of the sign-in taken as one.
LeaveSignIn ==
    /\ shown /\ page = "signIn" /\ popup = "none"
    /\ page' = "choose" /\ current' = "accounts"
    /\ UNCHANGED <<netVars, serviceVars, shown, popup, handlers, otp, timers, otpExpired, handed,
                   lost>>

\* authorizeButton: authenticateWithCredentials() fails at once if m_reply is set.
TapAuthorize ==
    /\ shown /\ page = "signIn" /\ popup = "none"
    /\ \/ /\ reply = NoReply
          /\ Send("credentials", NoCode)
          /\ getsToken' = TRUE /\ popup' = "authorizing"
       \/ /\ reply # NoReply
          /\ getsToken' = FALSE /\ popup' = "authorization_failed"
          /\ UNCHANGED netVars
    /\ UNCHANGED <<serviceVars, screen, page, getsOtp, getsFailed, getsAuth, otp, timers,
                   otpExpired, handed, lost>>

\* handleRespAuthWithCredentials(), getTokenSucceeded() and getTokenFailed().
FinishCredentials(r) ==
    /\ flight[r] = "credentials" /\ reply # NoReply
    /\ \E answer \in {"error", "malformed", "token"} :
          /\ (answer = "token" => handed[NoCode] < MaxSignIns)
          /\ IF getsToken
             THEN /\ getsToken' = FALSE
                  /\ popup' = IF Reads(r, answer) = "token"
                              THEN "authorization_successful" ELSE "authorization_failed"
                  /\ handed' = IF Reads(r, answer) = "token"
                               THEN [handed EXCEPT ![NoCode] = @ + 1] ELSE handed
             ELSE UNCHANGED <<getsToken, popup, handed>>
    /\ DeleteReply(r)
    /\ UNCHANGED <<serviceVars, screen, page, getsOtp, getsFailed, getsAuth, otp, timers,
                   otpExpired, lost>>

\* TRY AGAIN.
TryAgain ==
    /\ popup = "authorization_failed"
    /\ popup' = "none"
    /\ UNCHANGED <<netVars, serviceVars, screen, page, handlers, otp, timers, otpExpired, handed,
                   lost>>

\* closeAuthCompletePopupTimer, 5 s after a success: backToSettings(), whose
\* second swipe does nothing if the settings are on their base page by then.
CloseAuthCompletePopup ==
    /\ popup = "authorization_successful"
    /\ popup' = "none"
    /\ StopTimers
    /\ page' = "choose" /\ shown' = FALSE
    /\ \/ current' = "other"
       \/ ~shown /\ current' = "accounts"
    /\ UNCHANGED <<netVars, serviceVars, handlers, otp, otpExpired, handed, lost>>

-----------------------------------------------------------------------------
(* Coming and going.                                                       *)

\* The rest of the state goes on as it is, wherever the user is.
Stays == UNCHANGED <<netVars, serviceVars, page, popup, handlers, otp, timers, otpExpired,
                     handed, lost>>

\* buttonAuthorizeAccounts: the page is as it was left, whichever it was.
OpenAccounts ==
    /\ ~shown /\ popup = "none"
    /\ shown' = TRUE /\ current' = "accounts"
    /\ Stays

\* altBack() of the accounts item, which is the current one on the first page,
\* and on any page that the user has come back to.
LeaveAccounts ==
    /\ shown /\ current = "accounts" /\ popup = "none"
    /\ shown' = FALSE /\ current' = "other"
    /\ Stays

\* resetSettingsSwipeViewPages() for a notification that the user taps: it swipes
\* the settings away and tells these pages nothing ...
TapNotice ==
    /\ leaves /\ popup = "none"
    /\ shown' = FALSE /\ current' = "other"
    /\ Stays

\* ... and for a print that starts, a popup open or not.
PrintStarts ==
    /\ leaves
    /\ shown' = FALSE /\ current' = "other"
    /\ Stays

-----------------------------------------------------------------------------

Finish(r) == FinishUnread(r) \/ FinishOtp(r) \/ FinishCheck(r) \/ FinishCredentials(r)

Next ==
    \/ TapAuthorizeWithCode \/ TapGetOTP \/ BackFromCode \/ BackToSelectAuthMethod
    \/ OpenSignIn \/ LeaveSignIn \/ TapAuthorize \/ TryAgain
    \/ OpenAccounts \/ LeaveAccounts \/ TapNotice \/ PrintStarts
    \/ Approve
    \/ CheckAuthTimer \/ ExpireOTPTimer \/ CloseAuthCompletePopup
    \/ \E r \in Requests : Finish(r)

\* The web service answers, or the connection fails, in the end.
Fairness == \A r \in Requests : WF_vars(Finish(r))

Spec == Init /\ [][Next]_vars /\ Fairness

-----------------------------------------------------------------------------
(* Properties.                                                             *)

\* An account goes to Kaiten only for the code on the page, never for one the
\* user has backed out of, or one a refresh replaced, whichever of the checks in
\* flight finishes last.  Unless a notification or a print took the user away,
\* the page is on the screen; if one did, the account goes to Kaiten all the same.
HandsOverShownCode ==
    [][\A c \in Codes : handed'[c] # handed[c] =>
          c = otp /\ page = "code" /\ (leaves \/ shown)]_vars

\* ... and only once for each code, with several checks in flight.
HandsOverOnce == \A c \in Codes : handed[c] <= 1

\* A popup opens on the page it belongs to: a reply that comes after the user
\* has backed out opens nothing.  After a notification or a print the handlers
\* are connected still: the popup opens over whatever is on the screen, but only
\* where these pages are as its request left them.
PopupOnItsPage ==
    /\ popup \in {"connecting_to_get_otp", "failed_to_get_otp"} => page = "code"
    /\ popup \in {"authorizing", "authorization_failed"} => page = "signIn"
    /\ popup = "authorization_successful" => page \in {"code", "signIn"}
    /\ popup # "none" => leaves \/ shown

\* No check is sent that nothing waits for: polling stops when the user backs
\* out of the page.  After a notification or a print it goes on with the page
\* out of sight, its handler connected and the timer running that ends it.
PollsOnItsPage == polling => page = "code" /\ getsAuth /\ expiring /\ (leaves \/ shown)

\* While a popup without a button waits for Network, the request it waits for
\* is the one whose answer will be read, if replies come in time ...
WaitsForReply ==
    ~slow =>
        /\ popup = "connecting_to_get_otp" => reply # NoReply /\ flight[reply] = "otp"
        /\ popup = "authorizing" => reply # NoReply /\ flight[reply] = "credentials"

\* ... and it goes away, whether the service answers or the connection fails.
Waits == popup \in {"connecting_to_get_otp", "authorizing"}
WaitEnds == ~slow /\ Waits ~> ~Waits

\* "Initial setup call to fetch one time password to display on the printer"
\* (network.h:32): a setup call that the page waits for stays in flight until
\* its answer is read.  It does not hold: a late check deletes its reply.
SetupCallIsAnswered ==
    popup = "connecting_to_get_otp" => \E r \in Requests : flight[r] = "otp"

\* "If so, the user's oauth token is returned by the web service to this call"
\* (network.h:41): an answer with the token that comes while the page polls for
\* it is not thrown away.  It does not hold: the next check replaces m_reply.
AnswerIsRead == ~lost

=============================================================================
