--------------------- MODULE AccountAuthorization_proofs ---------------------
(***************************************************************************)
(* For any number of replies in flight, one time passwords and sign-ins,   *)
(* however late the replies come: handlers, timers and popups stay with    *)
(* the page that the user has not backed out of, and an account is handed  *)
(* over once, for the code of that page.                                   *)
(***************************************************************************)
EXTENDS AccountAuthorization, TLAPS

-----------------------------------------------------------------------------
(* Requests.                                                               *)

NetInv ==
    /\ reply \in Requests \cup {NoReply}
    /\ flight \in [Requests -> Kinds \cup {"free", "finished"}]
    /\ asked = [r \in Requests |-> asked[r]]

\* The new request is the one m_reply points to.
LEMMA SendFacts ==
    ASSUME NetInv, NEW kind \in Kinds, NEW code, Send(kind, code)
    PROVE  /\ NetInv'
           /\ reply' \in Requests /\ flight'[reply'] = kind /\ asked'[reply'] = code
           /\ \A q \in Requests \ {reply'} : flight'[q] \in {flight[q], "free"}
  <1>1. PICK r \in Requests :
          /\ reply' = r
          /\ flight' = [q \in Requests |->
                          IF q = r THEN kind
                          ELSE IF flight[q] = "finished" THEN "free" ELSE flight[q]]
          /\ asked' = [asked EXCEPT ![r] = code]
    BY DEF Send
  <1> QED
    BY <1>1 DEF NetInv

\* m_reply is null afterwards, and nothing else is in flight that was not.
LEMMA DeleteFacts ==
    ASSUME NetInv, NEW r \in Requests, DeleteReply(r)
    PROVE  /\ NetInv' /\ reply' = NoReply
           /\ \A q \in Requests : q \in {r, reply} => flight'[q] = "free"
           /\ \A q \in Requests : flight'[q] \in {flight[q], "free"}
  BY DEF DeleteReply, NetInv, Kinds

-----------------------------------------------------------------------------
(* Pages.                                                                  *)

\* The handlers of a page are gone before its page is, and before a popup that
\* leaves the page; the setup call is the only reply, behind its popup.  The
\* code page and the sign-in are open, and the back button theirs, unless a
\* notification or a print took the user away.
PageInv ==
    /\ NetInv
    /\ page # "choose" => leaves \/ (shown /\ current = "page")
    /\ PollsOnItsPage
    /\ PopupOnItsPage
    /\ getsOtp => getsAuth /\ getsFailed /\ ~polling /\ popup = "connecting_to_get_otp"
    /\ getsAuth \/ getsFailed =>
          page = "code" /\ popup \notin {"failed_to_get_otp", "authorization_successful"}
    /\ getsToken => popup = "authorizing"
    /\ otpExpired => ~polling
    /\ \A r \in Requests : flight[r] = "otp" => reply = r /\ getsOtp

LEMMA InitPage == Init => PageInv
  BY DEF Init, PageInv, NetInv, Kinds, PollsOnItsPage, PopupOnItsPage

\* Nothing changes on the page and no setup call is sent.
LEMMA QuietKeeps ==
    ASSUME PageInv, NetInv',
           UNCHANGED <<leaves, screen, page, popup, handlers, timers, otpExpired>>,
           \A r \in Requests : flight'[r] = "otp" => flight[r] = "otp" /\ reply' = reply
    PROVE  PageInv'
  BY DEF PageInv, PollsOnItsPage, PopupOnItsPage, handlers, screen, timers

LEMMA BeginKeeps ==
    ASSUME PageInv, popup = "none", ~polling, ~getsToken, page' = "code", shown, shown',
           current' = "page" \/ (current' = current /\ page = "code"),
           leaves' = leaves, BeginAuthWithCode, UNCHANGED <<getsToken, timers, otpExpired>>
    PROVE  PageInv'
  <1>1. Send("otp", NoCode)
    BY DEF BeginAuthWithCode
  <1>2. /\ NetInv' /\ reply' \in Requests
        /\ \A q \in Requests \ {reply'} : flight'[q] \in {flight[q], "free"}
    BY <1>1, SendFacts DEF PageInv, Kinds
  <1>3. \A q \in Requests : flight'[q] = "otp" => reply' = q
    BY <1>2 DEF PageInv
  <1>4. popup' = "connecting_to_get_otp" /\ getsOtp' /\ getsFailed' /\ getsAuth'
    BY DEF BeginAuthWithCode
  <1> QED
    BY <1>2, <1>3, <1>4 DEF PageInv, PollsOnItsPage, PopupOnItsPage, timers

LEMMA FinishOtpKeeps ==
    ASSUME PageInv, NEW r \in Requests, FinishOtp(r)
    PROVE  PageInv'
  <1>1. /\ reply = r /\ getsOtp /\ getsAuth /\ getsFailed /\ ~polling /\ page = "code" /\ ~getsToken
        /\ \A q \in Requests \ {r} : flight[q] # "otp"
    BY DEF FinishOtp, PageInv
  <1>2. UNCHANGED <<leaves, shown, current, page, getsToken>>
    BY DEF FinishOtp, screen
  <1>3. CASE GetOTP /\ DeleteReply(r)
    <2>1. /\ popup' = "none" /\ ~getsOtp' /\ ~otpExpired' /\ expiring' /\ (leaves \/ shown)
          /\ UNCHANGED <<getsFailed, getsAuth>>
      BY <1>1, <1>3 DEF GetOTP, PageInv
    <2>2. NetInv' /\ \A q \in Requests : flight'[q] # "otp"
      BY <1>1, <1>3, DeleteFacts DEF PageInv
    <2> QED
      BY <1>1, <1>2, <2>1, <2>2 DEF PageInv, PollsOnItsPage, PopupOnItsPage
  <1>4. CASE GetOTPFailed /\ (\/ DeleteReply(r)
                              \/ /\ flight' = [flight EXCEPT ![r] = "finished"]
                                 /\ UNCHANGED <<reply, asked>>)
    <2>1. /\ popup' = "failed_to_get_otp" /\ UNCHANGED <<polling, otpExpired>>
          /\ (leaves \/ shown) /\ ~getsOtp' /\ ~getsAuth' /\ ~getsFailed'
      BY <1>1, <1>4 DEF GetOTPFailed, DisconnectHandlers, timers, PageInv
    <2>2. NetInv' /\ \A q \in Requests : flight'[q] # "otp"
      BY <1>1, <1>4, DeleteFacts DEF PageInv, NetInv
    <2> QED
      BY <1>1, <1>2, <2>1, <2>2 DEF PageInv, PollsOnItsPage, PopupOnItsPage
  <1> QED
    BY <1>1, <1>3, <1>4 DEF FinishOtp

LEMMA FinishCheckKeeps ==
    ASSUME PageInv, NEW r \in Requests, FinishCheck(r)
    PROVE  PageInv'
  <1>1. NetInv' /\ \A q \in Requests : flight'[q] = "otp" => flight[q] = "otp" /\ q # reply
    BY DeleteFacts DEF FinishCheck, PageInv
  <1>2. UNCHANGED <<leaves, shown, current, page, getsToken, expiring, otpExpired>>
    BY DEF FinishCheck, serviceVars, screen
  <1>3. CASE UNCHANGED <<getsOtp, getsFailed, getsAuth, polling, popup>>
    BY <1>1, <1>2, <1>3 DEF PageInv, PollsOnItsPage, PopupOnItsPage
  <1>4. ASSUME NEW code, getsAuth, Authorized(code) PROVE PageInv'
    <2>1. /\ page = "code" /\ (leaves \/ shown) /\ ~getsToken
          /\ ~polling' /\ ~getsOtp' /\ ~getsFailed' /\ ~getsAuth'
          /\ popup' = "authorization_successful"
      BY <1>4 DEF Authorized, DisconnectHandlers, PageInv, PopupOnItsPage
    <2> QED
      BY <1>1, <1>2, <2>1 DEF PageInv, PollsOnItsPage, PopupOnItsPage
  <1> QED
    BY <1>3, <1>4 DEF FinishCheck

LEMMA FinishCredentialsKeeps ==
    ASSUME PageInv, NEW r \in Requests, FinishCredentials(r)
    PROVE  PageInv'
  <1>1. NetInv' /\ \A q \in Requests : flight'[q] = "otp" => flight[q] = "otp" /\ q # reply
    BY DeleteFacts DEF FinishCredentials, PageInv
  <1>2. /\ UNCHANGED <<leaves, shown, current, page>>
        /\ UNCHANGED <<getsOtp, getsFailed, getsAuth, polling, expiring, otpExpired>>
    BY DEF FinishCredentials, serviceVars, screen, timers
  <1>3. CASE ~getsToken
    <2>1. UNCHANGED <<getsToken, popup>>
      BY <1>3 DEF FinishCredentials
    <2> QED
      BY <1>1, <1>2, <2>1 DEF PageInv, PollsOnItsPage, PopupOnItsPage
  <1>4. CASE getsToken
    <2>1. ~getsToken' /\ popup' \in {"authorization_successful", "authorization_failed"}
      BY <1>4 DEF FinishCredentials
    <2>2. page = "signIn" /\ (leaves \/ shown)
      BY <1>4 DEF PageInv, PopupOnItsPage
    <2> QED
      BY <1>1, <1>2, <2>1, <2>2 DEF PageInv, PollsOnItsPage, PopupOnItsPage
  <1> QED
    BY <1>3, <1>4

\* Where the user is does not matter where a notification or a print may have
\* taken the user away, or on the first page with no popup.
LEMMA ComeAndGo ==
    ASSUME PageInv, Stays, leaves \/ (page = "choose" /\ popup = "none")
    PROVE  PageInv'
  BY DEF Stays, PageInv, NetInv, PollsOnItsPage, PopupOnItsPage, netVars, serviceVars,
         handlers, timers

LEMMA NextPage ==
    ASSUME PageInv, [Next]_vars
    PROVE  PageInv'
  <1>1. CASE TapAuthorizeWithCode
    <2>1. ~polling /\ ~getsToken
      BY <1>1 DEF TapAuthorizeWithCode, PageInv, PollsOnItsPage
    <2> QED
      BY <1>1, <2>1, BeginKeeps DEF TapAuthorizeWithCode, serviceVars
  <1>2. CASE TapGetOTP
    <2>1. ~polling /\ ~getsToken
      BY <1>2 DEF TapGetOTP, PageInv
    <2> QED
      BY <1>2, <2>1, BeginKeeps DEF TapGetOTP, serviceVars, screen
  <1>3. CASE BackFromCode
    <2>1. /\ page' = "choose" /\ popup = "none" /\ popup' = "none" /\ ~polling'
          /\ ~getsOtp' /\ ~getsFailed' /\ ~getsAuth' /\ UNCHANGED <<getsToken, otpExpired>>
          /\ UNCHANGED netVars
      BY <1>3 DEF BackFromCode, DisconnectHandlers, StopTimers
    <2> QED
      BY <2>1 DEF PageInv, NetInv, PollsOnItsPage, PopupOnItsPage, netVars
  <1>4. CASE BackToSelectAuthMethod \/ CloseAuthCompletePopup
    <2>1. /\ popup \in {"failed_to_get_otp", "authorization_successful"}
          /\ popup' = "none" /\ page' = "choose" /\ ~polling'
          /\ UNCHANGED <<handlers, netVars, otpExpired>>
      BY <1>4 DEF BackToSelectAuthMethod, CloseAuthCompletePopup, StopTimers
    <2>2. ~getsOtp /\ ~getsAuth /\ ~getsFailed /\ ~getsToken
      BY <2>1 DEF PageInv
    <2> QED
      BY <2>1, <2>2 DEF PageInv, NetInv, PollsOnItsPage, PopupOnItsPage, handlers, netVars
  <1>5. CASE OpenSignIn \/ LeaveSignIn
    <2>1. /\ popup = "none" /\ popup' = "none" /\ page \in {"choose", "signIn"}
          /\ page' # "choose" => shown' /\ current' = "page"
          /\ UNCHANGED <<handlers, netVars, timers, otpExpired>>
      BY <1>5 DEF OpenSignIn, LeaveSignIn
    <2>2. ~getsOtp /\ ~getsAuth /\ ~getsFailed /\ ~getsToken /\ ~polling
      BY <2>1 DEF PageInv, PollsOnItsPage
    <2> QED
      BY <2>1, <2>2 DEF PageInv, NetInv, PollsOnItsPage, PopupOnItsPage, handlers, netVars,
                        timers
  <1>6. CASE TapAuthorize
    <2>1. /\ page = "signIn" /\ shown /\ UNCHANGED <<leaves, shown, current, page>>
          /\ UNCHANGED <<getsOtp, getsFailed, getsAuth, polling, otpExpired>>
          /\ \/ popup' = "authorizing"
             \/ popup' = "authorization_failed" /\ ~getsToken'
      BY <1>6 DEF TapAuthorize, timers, serviceVars, screen
    <2>2. ~getsOtp /\ ~getsAuth /\ ~getsFailed /\ ~polling
      BY <2>1 DEF PageInv, PollsOnItsPage
    <2>3. NetInv' /\ \A q \in Requests : flight'[q] # "otp"
      <3>1. CASE UNCHANGED netVars
        BY <2>2, <3>1 DEF PageInv, NetInv, netVars
      <3>2. CASE Send("credentials", NoCode)
        BY <2>2, <3>2, SendFacts DEF PageInv, Kinds
      <3> QED
        BY <1>6, <3>1, <3>2 DEF TapAuthorize
    <2> QED
      BY <2>1, <2>2, <2>3 DEF PageInv, PollsOnItsPage, PopupOnItsPage
  <1>7. CASE TryAgain
    BY <1>7 DEF TryAgain, PageInv, NetInv, PollsOnItsPage, PopupOnItsPage, netVars,
                handlers, timers, serviceVars, screen
  <1>8. CASE CheckAuthTimer
    <2>1. /\ polling /\ ~getsOtp
          /\ UNCHANGED <<leaves, screen, page, popup, handlers, timers, otpExpired>>
      BY <1>8 DEF CheckAuthTimer, PageInv, serviceVars
    <2>2. NetInv' /\ \A q \in Requests : flight'[q] # "otp"
      BY <1>8, <2>1, SendFacts DEF CheckAuthTimer, PageInv, Kinds
    <2> QED
      BY <2>1, <2>2, QuietKeeps
  <1>9. CASE ExpireOTPTimer
    <2>1. ~polling' /\ UNCHANGED <<netVars, leaves, screen, page, popup, handlers>>
      BY <1>9 DEF ExpireOTPTimer, StopTimers, serviceVars
    <2> QED
      BY <2>1 DEF PageInv, NetInv, PollsOnItsPage, PopupOnItsPage, handlers, netVars, screen
  <1>10. CASE Approve \/ UNCHANGED vars
    BY <1>10, QuietKeeps DEF Approve, vars, serviceVars, PageInv, NetInv, netVars
  <1>11. ASSUME NEW r \in Requests, FinishUnread(r) PROVE PageInv'
    BY <1>11, QuietKeeps DEF FinishUnread, serviceVars, PageInv, NetInv
  <1>12. ASSUME NEW r \in Requests, Finish(r) PROVE PageInv'
    BY <1>11, <1>12, FinishOtpKeeps, FinishCheckKeeps, FinishCredentialsKeeps DEF Finish
  <1>13. CASE OpenAccounts
    <2>1. shown' /\ popup = "none" /\ popup' = "none" /\ ~shown /\ Stays
      BY <1>13 DEF OpenAccounts, Stays
    <2>2. page # "choose" => leaves
      BY <2>1 DEF PageInv
    <2> QED
      BY <2>1, <2>2, ComeAndGo
  <1>14. CASE LeaveAccounts
    <2>1. current = "accounts" /\ popup = "none" /\ Stays
      BY <1>14 DEF LeaveAccounts
    <2>2. page # "choose" => leaves
      BY <2>1 DEF PageInv
    <2> QED
      BY <2>1, <2>2, ComeAndGo
  <1>15. CASE TapNotice \/ PrintStarts
    BY <1>15, ComeAndGo DEF TapNotice, PrintStarts
  <1> QED
    BY <1>1, <1>2, <1>3, <1>4, <1>5, <1>6, <1>7, <1>8, <1>9, <1>10, <1>12, <1>13, <1>14, <1>15
    DEF Next

\* AuthorizeAccountWithCode: polling stops when the user backs out of the page
\* its answers are for, and after any other departure the handler and the
\* five-minute timer that end it are there.
THEOREM PollingStays == Spec => []PollsOnItsPage
  <1>1. PageInv => PollsOnItsPage
    BY DEF PageInv
  <1> QED
    BY <1>1, InitPage, NextPage, PTL DEF Spec

\* AuthorizeAccountPage: a late reply of Network opens a popup only where these
\* pages are as the request left them, and on the screen unless a notification
\* or a print took the user away.
THEOREM PopupStays == Spec => []PopupOnItsPage
  <1>1. PageInv => PopupOnItsPage
    BY DEF PageInv
  <1> QED
    BY <1>1, InitPage, NextPage, PTL DEF Spec

-----------------------------------------------------------------------------
(* Codes.                                                                  *)

\* A check whose answer would be read asks for the code on the page, which has
\* not been handed over.
CodeInv ==
    /\ given \in 0 .. MaxSessions /\ otp \in 0 .. given
    /\ handed \in [Codes \cup {NoCode} -> Nat]
    /\ HandsOverOnce
    /\ \A c \in Codes : c > given => handed[c] = 0
    /\ polling => otp \in Codes /\ handed[otp] = 0
    /\ getsAuth /\ reply # NoReply /\ flight[reply] = "check" =>
          asked[reply] = otp /\ otp \in Codes /\ handed[otp] = 0

LEMMA InitCode == Init => CodeInv
  BY AuthAssumption DEF Init, CodeInv, HandsOverOnce, Codes, NoCode

\* No code is given out or handed over, and no check is sent.
LEMMA CodesKept ==
    ASSUME CodeInv, UNCHANGED <<given, otp, handed>>, polling' => polling,
           \/ getsAuth' => getsAuth /\ UNCHANGED netVars
           \/ reply' = NoReply
           \/ flight'[reply'] # "check"
    PROVE  CodeInv'
  BY DEF CodeInv, HandsOverOnce, netVars

\* The answer to a check that is read is the one for the code on the page.
LEMMA FinishCheckHands ==
    ASSUME PageInv, CodeInv, NEW r \in Requests, FinishCheck(r)
    PROVE  \/ UNCHANGED <<getsAuth, polling, handed>>
           \/ /\ otp \in Codes /\ handed[otp] = 0 /\ page = "code" /\ (leaves \/ shown)
              /\ handed' = [handed EXCEPT ![otp] = @ + 1] /\ ~polling'
  <1>1. SUFFICES ASSUME ~ UNCHANGED <<getsAuth, polling, handed>>
                 PROVE  /\ otp \in Codes /\ handed[otp] = 0
                        /\ page = "code" /\ (leaves \/ shown)
                        /\ handed' = [handed EXCEPT ![otp] = @ + 1] /\ ~polling'
    OBVIOUS
  <1>2. PICK answer : Reads(r, answer) = "authed" /\ getsAuth /\ Authorized(asked[r])
    BY <1>1 DEF FinishCheck
  <1>3. reply = r /\ flight[reply] = "check" /\ reply # NoReply
    BY <1>2 DEF Reads, FinishCheck
  <1>4. /\ asked[r] = otp /\ otp \in Codes /\ handed[otp] = 0
        /\ page = "code" /\ (leaves \/ shown)
    BY <1>2, <1>3 DEF CodeInv, PageInv
  <1> QED
    BY <1>2, <1>4 DEF Authorized

LEMMA NextCode ==
    ASSUME PageInv, CodeInv, [Next]_vars
    PROVE  CodeInv'
  <1>1. CASE TapAuthorizeWithCode \/ TapGetOTP
    <2>1. flight'[reply'] = "otp"
      BY <1>1, SendFacts DEF TapAuthorizeWithCode, TapGetOTP, BeginAuthWithCode, PageInv, Kinds
    <2>2. UNCHANGED <<given, otp, handed, polling>>
      BY <1>1 DEF TapAuthorizeWithCode, TapGetOTP, serviceVars, timers
    <2> QED
      BY <2>1, <2>2, CodesKept
  <1>2. CASE BackFromCode \/ BackToSelectAuthMethod \/ CloseAuthCompletePopup \/ ExpireOTPTimer
    <2>1. ~polling' /\ UNCHANGED <<netVars, given, otp, handed>>
      BY <1>2 DEF BackFromCode, BackToSelectAuthMethod, CloseAuthCompletePopup,
                  ExpireOTPTimer, StopTimers, serviceVars
    <2>2. getsAuth' => getsAuth
      BY <1>2 DEF BackFromCode, BackToSelectAuthMethod, CloseAuthCompletePopup,
                  ExpireOTPTimer, DisconnectHandlers, handlers
    <2> QED
      BY <2>1, <2>2, CodesKept
  <1>3. CASE \/ OpenSignIn \/ LeaveSignIn \/ TryAgain \/ Approve \/ UNCHANGED vars
             \/ OpenAccounts \/ LeaveAccounts \/ TapNotice \/ PrintStarts
    <2>1. UNCHANGED <<netVars, given, otp, handed, getsAuth, polling>>
      BY <1>3 DEF OpenSignIn, LeaveSignIn, TryAgain, Approve, vars, serviceVars, handlers,
                  timers, OpenAccounts, LeaveAccounts, TapNotice, PrintStarts, Stays
    <2> QED
      BY <2>1, CodesKept
  <1>4. CASE TapAuthorize
    <2>1. UNCHANGED <<given, otp, handed, getsAuth, polling>>
      BY <1>4 DEF TapAuthorize, serviceVars, timers
    <2>2. UNCHANGED netVars \/ flight'[reply'] = "credentials"
      BY <1>4, SendFacts DEF TapAuthorize, PageInv, Kinds
    <2> QED
      BY <2>1, <2>2, CodesKept
  <1>5. CASE CheckAuthTimer
    <2>1. polling /\ asked'[reply'] = otp
      BY <1>5, SendFacts DEF CheckAuthTimer, PageInv, Kinds
    <2>2. UNCHANGED <<given, otp, handed, getsAuth, polling>>
      BY <1>5 DEF CheckAuthTimer, serviceVars, handlers, timers
    <2> QED
      BY <2>1, <2>2 DEF CodeInv, HandsOverOnce
  <1>6. ASSUME NEW r \in Requests, FinishUnread(r) PROVE CodeInv'
    <2>1. UNCHANGED <<given, otp, handed, polling>> /\ reply' = NoReply
      BY <1>6 DEF FinishUnread, serviceVars, timers
    <2> QED
      BY <2>1, CodesKept
  <1>7. ASSUME NEW r \in Requests, FinishOtp(r) PROVE CodeInv'
    <2>1. reply = r /\ getsOtp /\ handed' = handed
      BY <1>7 DEF FinishOtp, PageInv
    <2>2. CASE given < MaxSessions /\ given' = given + 1 /\ GetOTP /\ DeleteReply(r)
      <3>1. otp' = given + 1 /\ reply' = NoReply
        BY <2>1, <2>2 DEF GetOTP, DeleteReply
      <3>2. given + 1 \in Codes /\ handed[given + 1] = 0
        BY <2>2, AuthAssumption DEF CodeInv, Codes
      <3>3. given' \in 0 .. MaxSessions /\ otp' \in 0 .. given'
        BY <2>2, <3>1, AuthAssumption DEF CodeInv
      <3>4. \A c \in Codes : c > given' => c > given
        BY <2>2, AuthAssumption DEF CodeInv, Codes
      <3> QED
        BY <2>1, <2>2, <3>1, <3>2, <3>3, <3>4 DEF CodeInv, HandsOverOnce
    <2>3. CASE GetOTPFailed /\ given' = given
      <3>1. UNCHANGED <<otp, polling>>
        BY <2>3 DEF GetOTPFailed, timers
      <3>2. reply' = NoReply \/ flight'[reply'] # "check"
        BY <1>7, <2>1 DEF FinishOtp, DeleteReply, PageInv, NetInv
      <3> QED
        BY <2>1, <2>3, <3>1, <3>2, CodesKept
    <2> QED
      BY <1>7, <2>1, <2>2, <2>3 DEF FinishOtp
  <1>8. ASSUME NEW r \in Requests, FinishCheck(r) PROVE CodeInv'
    <2>1. UNCHANGED <<given, otp>> /\ reply' = NoReply
      BY <1>8 DEF FinishCheck, DeleteReply, serviceVars
    <2>2. CASE UNCHANGED <<getsAuth, polling, handed>>
      BY <2>1, <2>2, CodesKept
    <2>3. CASE /\ otp \in Codes /\ handed[otp] = 0
               /\ handed' = [handed EXCEPT ![otp] = @ + 1] /\ ~polling'
      <3>1. \A c \in Codes : handed'[c] = IF c = otp THEN 1 ELSE handed[c]
        BY <2>3 DEF CodeInv
      <3>2. handed' \in [Codes \cup {NoCode} -> Nat]
        BY <2>3 DEF CodeInv
      <3>3. \A c \in Codes : c > given => c # otp
        BY AuthAssumption DEF CodeInv, Codes
      <3> QED
        BY <2>1, <2>3, <3>1, <3>2, <3>3 DEF CodeInv, HandsOverOnce
    <2> QED
      BY <1>8, <2>2, <2>3, FinishCheckHands
  <1>9. ASSUME NEW r \in Requests, FinishCredentials(r) PROVE CodeInv'
    <2>1. UNCHANGED <<given, otp, getsAuth, polling>> /\ reply' = NoReply
      BY <1>9 DEF FinishCredentials, DeleteReply, serviceVars, timers
    <2>2. handed' = handed \/ handed' = [handed EXCEPT ![NoCode] = @ + 1]
      BY <1>9 DEF FinishCredentials
    <2>3. /\ handed' \in [Codes \cup {NoCode} -> Nat]
          /\ \A c \in Codes : handed'[c] = handed[c]
      BY <2>2, AuthAssumption DEF CodeInv, Codes, NoCode
    <2> QED
      BY <2>1, <2>3 DEF CodeInv, HandsOverOnce
  <1> QED
    BY <1>1, <1>2, <1>3, <1>4, <1>5, <1>6, <1>7, <1>8, <1>9 DEF Next, Finish

\* Network::checkAuthWithCode and authorized(): with any number of checks in
\* flight, and replies however late, an account is handed over once for a code.
THEOREM HandedOnce == Spec => []HandsOverOnce
  <1>1. CodeInv => HandsOverOnce
    BY DEF CodeInv
  <1> QED
    BY <1>1, InitPage, NextPage, InitCode, NextCode, PTL DEF Spec

LEMMA HandingStep ==
    ASSUME PageInv, CodeInv, [Next]_vars, NEW c \in Codes, handed'[c] # handed[c]
    PROVE  c = otp /\ page = "code" /\ (leaves \/ shown)
  <1>1. ASSUME NEW r \in Requests, FinishCheck(r)
        PROVE  c = otp /\ page = "code" /\ (leaves \/ shown)
    BY <1>1, FinishCheckHands DEF CodeInv
  <1>2. ASSUME NEW r \in Requests, FinishCredentials(r) PROVE FALSE
    <2>1. handed' = handed \/ handed' = [handed EXCEPT ![NoCode] = @ + 1]
      BY <1>2 DEF FinishCredentials
    <2> QED
      BY <2>1, AuthAssumption DEF CodeInv, Codes, NoCode
  <1>3. CASE TapAuthorizeWithCode \/ TapGetOTP \/ BackFromCode \/ BackToSelectAuthMethod
    BY <1>3 DEF TapAuthorizeWithCode, TapGetOTP, BackFromCode, BackToSelectAuthMethod
  <1>4. CASE OpenSignIn \/ LeaveSignIn \/ TapAuthorize \/ TryAgain \/ Approve
    BY <1>4 DEF OpenSignIn, LeaveSignIn, TapAuthorize, TryAgain, Approve
  <1>5. CASE CheckAuthTimer \/ ExpireOTPTimer \/ CloseAuthCompletePopup \/ UNCHANGED vars
    BY <1>5 DEF CheckAuthTimer, ExpireOTPTimer, CloseAuthCompletePopup, vars
  <1>6. ASSUME NEW r \in Requests, FinishUnread(r) \/ FinishOtp(r) PROVE FALSE
    BY <1>6 DEF FinishUnread, FinishOtp
  <1>7. CASE OpenAccounts \/ LeaveAccounts \/ TapNotice \/ PrintStarts
    BY <1>7 DEF OpenAccounts, LeaveAccounts, TapNotice, PrintStarts, Stays
  <1> QED
    BY <1>1, <1>2, <1>3, <1>4, <1>5, <1>6, <1>7 DEF Next, Finish

\* ... and for the code of the page the user has not backed out of, on the
\* screen unless a notification or a print took the user away.
THEOREM HandedCodeIsShown == Spec => HandsOverShownCode
  <1>1. ASSUME PageInv, CodeInv, [Next]_vars
        PROVE  [\A c \in Codes : handed'[c] # handed[c] =>
                  c = otp /\ page = "code" /\ (leaves \/ shown)]_vars
    BY <1>1, HandingStep
  <1> QED
    BY <1>1, InitPage, NextPage, InitCode, NextCode, PTL DEF Spec, HandsOverShownCode

=============================================================================
