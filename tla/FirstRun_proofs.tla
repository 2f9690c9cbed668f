--------------------------- MODULE FirstRun_proofs ---------------------------
(***************************************************************************)
(* For every printer and every set of events but those a theorem excludes: *)
(* the setup resumes at the step it was at, a complete one is final, a page*)
(* is of its step, and no step is passed that the user did not settle.     *)
(***************************************************************************)
EXTENDS FirstRun, WellFoundedInduction, TLAPS

\* The status in memory is that of the file, also while the UI is not connected
\* and shows a step of its own.
FileInv ==
    /\ freStatus = file
    /\ up => file = currentFreStep

\* gotoNextStep() and setFreStep() write the step they set.
LEMMA SetFreStepWrites ==
    ASSUME "full" \notin Events, NEW step, SetFreStep(step)
    PROVE  freStatus' = step /\ file' = step /\ currentFreStep' = step
  BY DEF SetFreStep, LogFreStatus

LEMMA GotoNextStepKeeps ==
    ASSUME "full" \notin Events, FileInv, NEW s, GotoNextStep(s), up' = up
    PROVE  FileInv'
  <1>1. CASE UNCHANGED freVars
    BY <1>1 DEF FileInv, freVars
  <1>2. CASE SetFreStep(NextStep(s))
    BY <1>2, SetFreStepWrites DEF FileInv
  <1> QED
    BY <1>1, <1>2 DEF GotoNextStep

LEMMA InitFileInv == Init => FileInv
  BY DEF Init, FileInv

LEMMA NextFileInv ==
    ASSUME "full" \notin Events, FileInv, [Next]_vars
    PROVE  FileInv'
  <1>1. CASE Initialize
    <2>1. CASE freStatus = NoStep
      BY <1>1, <2>1, SetFreStepWrites DEF Initialize, FileInv
    <2>2. CASE freStatus # NoStep
      BY <1>1, <2>2 DEF Initialize, FileInv
    <2> QED
      BY <2>1, <2>2
  <1>2. CASE Disconnect
    BY <1>2 DEF Disconnect, freVars, FileInv
  <1>3. CASE Restart
    BY <1>3 DEF Restart, FileInv
  <1>4. CASE Continue \/ FinishPage \/ WifiFreStepComplete
    BY <1>4, GotoNextStepKeeps DEF Continue, FinishPage, WifiFreStepComplete
  <1>5. CASE StepBack
    BY <1>5, SetFreStepWrites DEF StepBack, FileInv
  <1>6. CASE AcknowledgePrint
    BY <1>6, SetFreStepWrites, GotoNextStepKeeps DEF AcknowledgePrint, FileInv
  <1>7. CASE Recalibrate \/ DoFinalResetProcedures
    BY <1>7, SetFreStepWrites DEF Recalibrate, DoFinalResetProcedures, FileInv
  <1>8. CASE ConfirmSkip
    BY <1>8, SetFreStepWrites, GotoNextStepKeeps DEF ConfirmSkip, FileInv
  <1>9. CASE CloseAuthCompletePopup
    <2>1. CASE inFreStep
      BY <1>9, <2>1, GotoNextStepKeeps DEF CloseAuthCompletePopup
    <2>2. CASE ~inFreStep
      BY <1>9, <2>2 DEF CloseAuthCompletePopup, freVars, FileInv
    <2> QED
      BY <2>1, <2>2
  <1>10. CASE OpenPage \/ LeavePage
    BY <1>10 DEF OpenPage, LeavePage, FileInv
  <1>11. CASE WifiConnected \/ EthernetConnected \/ CloseEthernetPopup \/ NetworkLost
    BY <1>11 DEF WifiConnected, EthernetConnected, CloseEthernetPopup, NetworkLost,
                 freVars, FileInv
  <1>12. CASE Authorized \/ FirmwareUpdateNotif \/ ResetToFactory
    BY <1>12 DEF Authorized, FirmwareUpdateNotif, ResetToFactory, freVars, FileInv
  <1>13. CASE OpenSkipPopup \/ CloseSkipPopup
    BY <1>13 DEF OpenSkipPopup, CloseSkipPopup, freVars, FileInv
  <1>14. CASE UNCHANGED vars
    BY <1>14 DEF vars, freVars, FileInv
  <1> QED
    BY <1>1, <1>2, <1>3, <1>4, <1>5, <1>6, <1>7, <1>8, <1>9, <1>10, <1>11, <1>12,
       <1>13, <1>14 DEF Next

\* Whatever the user taps and whichever timers, networks, connections and
\* restarts come between: as long as there is room for the file, a printer that
\* is switched off goes on with the step that it showed.
THEOREM Resumes ==
    ASSUME "full" \notin Events
    PROVE  Spec => []ResumesAtStep
  <1>1. Init => FileInv
    BY InitFileInv
  <1>2. FileInv /\ [Next]_vars => FileInv'
    BY NextFileInv
  <1>3. FileInv => ResumesAtStep
    BY DEF FileInv, ResumesAtStep
  <1> QED
    BY <1>1, <1>2, <1>3, PTL DEF Spec

-----------------------------------------------------------------------------
(* CompleteIsFinal.                                                        *)

\* The step on the screen is that of the status in memory; so is the one that may be
\* changed while the UI is not connected, since what changes it has been opened, or
\* started, on the screen.
StepInv ==
    /\ up => currentFreStep = freStatus
    /\ inFreStep \/ ethernetPopup \/ skipPopup \/ wifiFreStepComplete \/ closeAuthCompletePopup
          => currentFreStep = freStatus
    /\ inFreStep => currentFreStep # FreComplete

LEMMA PageStepsAre ==
    /\ FreComplete \notin PageSteps /\ NoStep \notin PageSteps /\ NoStep # FreComplete
    /\ SetupWifi \in PageSteps /\ LoginMbAccount \in PageSteps
    /\ SetupWifi \notin {LoginMbAccount, TestPrint, MaterialCaseSetup, LoadMaterial}
    /\ LoginMbAccount \notin {TestPrint, MaterialCaseSetup, LoadMaterial}
    /\ StartSetLanguage \notin PageSteps /\ StartSetLanguage # FreComplete
    /\ Welcome \notin PageSteps /\ SunflowerSetupGuide \notin PageSteps
    /\ Welcome # FreComplete /\ SunflowerSetupGuide # FreComplete
  BY DEF PageSteps, NoStep, FreComplete, SetupWifi, SoftwareUpdate, SetTimeDate,
         AttachExtruders, LevelBuildPlate, CalibrateExtruders, MaterialCaseSetup,
         LoadMaterial, TestPrint, NamePrinter, LoginMbAccount, StartSetLanguage, Welcome,
         SunflowerSetupGuide

LEMMA SetsStatus ==
    ASSUME NEW step, SetFreStep(step)
    PROVE  /\ currentFreStep' = freStatus'
           /\ inFreStep' => inFreStep /\ currentFreStep' = currentFreStep
  BY DEF SetFreStep, LogFreStatus

\* There is nothing after the last step.
LEMMA NoNextStep == NextStep(FreComplete) = NoStep
  <1> DEFINE P(t) == t \notin Disabled /\ \A u \in FreComplete + 1 .. t - 1 : u \in Disabled
  <1>1. NoStep \notin Disabled
    BY DEF Disabled, MagmaSteps, NoStep, FreComplete, SetupWifi, LoginMbAccount,
           SoftwareUpdate, SunflowerSetupGuide, SunflowerUnpacking, MaterialCaseSetup
  <1>2. \A t \in FreComplete + 1 .. NoStep : t = NoStep
    BY DEF NoStep, FreComplete
  <1>3. NoStep \in FreComplete + 1 .. NoStep /\ P(NoStep)
    BY <1>1 DEF NoStep, FreComplete
  <1> QED
    BY <1>2, <1>3 DEF NextStep

LEMMA InitStepInv == Init => StepInv
  BY DEF Init, StepInv

LEMMA NextStepInv ==
    ASSUME StepInv, [Next]_vars
    PROVE  StepInv'
  <1> USE DEF StepInv
  <1>1. CASE Initialize
    <2>1. CASE freStatus = NoStep
      BY <1>1, <2>1, SetsStatus DEF Initialize
    <2>2. CASE freStatus # NoStep
      BY <1>1, <2>2 DEF Initialize
    <2> QED
      BY <2>1, <2>2
  <1>2. CASE Disconnect
    BY <1>2 DEF Disconnect, freVars, popups, pageTimers
  <1>3. CASE Restart
    BY <1>3 DEF Restart
  <1>4. CASE Continue \/ FinishPage \/ StepBack \/ AcknowledgePrint \/ Recalibrate
    <2>1. up /\ (UNCHANGED freVars \/ \E step : SetFreStep(step))
      BY <1>4 DEF Continue, FinishPage, StepBack, AcknowledgePrint, Recalibrate,
                  GotoNextStep, OnScreen, OnPage
    <2>2. CASE UNCHANGED freVars
      BY <2>1, <2>2 DEF freVars
    <2>3. CASE \E step : SetFreStep(step)
      BY <2>3, SetsStatus
    <2> QED
      BY <2>1, <2>2, <2>3
  <1>5. CASE OpenPage \/ LeavePage
    BY <1>5, PageStepsAre DEF OpenPage, LeavePage, OnScreen, OnPage
  <1>6. CASE WifiFreStepComplete
    <2>1. CASE UNCHANGED freVars
      BY <1>6, <2>1 DEF WifiFreStepComplete, freVars
    <2>2. CASE SetFreStep(NextStep(currentFreStep))
      BY <2>2, SetsStatus
    <2> QED
      BY <1>6, <2>1, <2>2 DEF WifiFreStepComplete, GotoNextStep
  <1>7. CASE CloseAuthCompletePopup
    <2>1. CASE UNCHANGED freVars
      BY <1>7, <2>1 DEF CloseAuthCompletePopup, freVars, popups
    <2>2. CASE SetFreStep(NextStep(currentFreStep))
      BY <2>2, SetsStatus
    <2> QED
      BY <1>7, <2>1, <2>2 DEF CloseAuthCompletePopup, GotoNextStep
  <1>8. CASE ConfirmSkip
    <2>1. CASE UNCHANGED freVars
      BY <1>8, <2>1 DEF ConfirmSkip, freVars
    <2>2. CASE SetFreStep(NextStep(currentFreStep)) \/ SetFreStep(FreComplete)
      BY <2>2, SetsStatus
    <2> QED
      BY <1>8, <2>1, <2>2 DEF ConfirmSkip, GotoNextStep
  <1>9. CASE WifiConnected \/ EthernetConnected \/ CloseEthernetPopup \/ NetworkLost
    BY <1>9 DEF WifiConnected, EthernetConnected, CloseEthernetPopup, NetworkLost,
                      LeaveWifiPage, freVars, popups, pageTimers
  <1>10. CASE Authorized \/ FirmwareUpdateNotif \/ ResetToFactory
    BY <1>10 DEF Authorized, FirmwareUpdateNotif, ResetToFactory, freVars, popups,
                       pageTimers
  <1>11. CASE DoFinalResetProcedures
    BY <1>11, SetsStatus DEF DoFinalResetProcedures
  <1>12. CASE OpenSkipPopup \/ CloseSkipPopup
    BY <1>12 DEF OpenSkipPopup, CloseSkipPopup, OnScreen, OnPage, freVars,
                       pageTimers
  <1>13. CASE UNCHANGED vars
    BY <1>13 DEF vars, freVars, popups, pageTimers
  <1> QED
    BY <1>1, <1>2, <1>3, <1>4, <1>5, <1>6, <1>7, <1>8, <1>9, <1>10, <1>11, <1>12,
       <1>13 DEF Next

LEMMA NextIsFinal ==
    ASSUME StepInv, [Next]_vars,
           freStatus = FreComplete, file = FreComplete
    PROVE  doFinalResetProcedures \/ UNCHANGED <<freStatus, file>>
  <1>1. CASE Initialize
    BY <1>1 DEF Initialize, NoStep, FreComplete
  <1>2. CASE Disconnect \/ Restart
    BY <1>2 DEF Disconnect, Restart, freVars
  <1>3. CASE Continue \/ FinishPage \/ StepBack \/ AcknowledgePrint \/ Recalibrate
    BY <1>3 DEF Continue, FinishPage, StepBack, AcknowledgePrint, Recalibrate, OnScreen,
                OnPage, StepInv, PageSteps, SetupWifi, SoftwareUpdate,
                SetTimeDate, AttachExtruders, LevelBuildPlate, CalibrateExtruders,
                MaterialCaseSetup, LoadMaterial, TestPrint, NamePrinter, LoginMbAccount,
                Welcome, SunflowerSetupGuide, FreComplete
  <1>4. CASE OpenPage \/ LeavePage
    BY <1>4 DEF OpenPage, LeavePage
  <1>5. CASE WifiFreStepComplete
    BY <1>5, NoNextStep DEF WifiFreStepComplete, StepInv, GotoNextStep, freVars
  <1>6. CASE CloseAuthCompletePopup
    BY <1>6, NoNextStep DEF CloseAuthCompletePopup, StepInv, GotoNextStep, freVars
  <1>7. CASE ConfirmSkip
    <2>1. currentFreStep = FreComplete
      BY <1>7 DEF ConfirmSkip, StepInv
    <2>2. FreComplete \notin HardwareSteps
      BY DEF HardwareSteps, AttachExtruders, LevelBuildPlate, CalibrateExtruders,
             MaterialCaseSetup, LoadMaterial, TestPrint, FreComplete
    <2> QED
      BY <1>7, <2>1, <2>2, NoNextStep DEF ConfirmSkip, GotoNextStep, freVars
  <1>8. CASE WifiConnected \/ EthernetConnected \/ CloseEthernetPopup \/ NetworkLost
    BY <1>8 DEF WifiConnected, EthernetConnected, CloseEthernetPopup, NetworkLost, freVars
  <1>9. CASE Authorized \/ FirmwareUpdateNotif \/ ResetToFactory
    BY <1>9 DEF Authorized, FirmwareUpdateNotif, ResetToFactory, freVars
  <1>10. CASE DoFinalResetProcedures
    BY <1>10 DEF DoFinalResetProcedures
  <1>11. CASE OpenSkipPopup \/ CloseSkipPopup
    BY <1>11 DEF OpenSkipPopup, CloseSkipPopup, freVars
  <1>12. CASE UNCHANGED vars
    BY <1>12 DEF vars, freVars
  <1> QED
    BY <1>1, <1>2, <1>3, <1>4, <1>5, <1>6, <1>7, <1>8, <1>9, <1>10, <1>11, <1>12 DEF Next

\* A printer that is set up stays so until it is reset: no connection that comes
\* back, and no page, popup or timer that outlives its step, starts over, also
\* where there is no room for the file.
THEOREM SetUpIsFinal == Spec => CompleteIsFinal
  <1>1. Init => StepInv
    BY InitStepInv
  <1>2. StepInv /\ [Next]_vars => StepInv'
    BY NextStepInv
  <1>3. StepInv /\ [Next]_vars =>
          [freStatus = FreComplete /\ file = FreComplete
              => doFinalResetProcedures \/ UNCHANGED <<freStatus, file>>]_vars
    BY NextIsFinal
  <1> QED
    BY <1>1, <1>2, <1>3, PTL DEF Spec, CompleteIsFinal

-----------------------------------------------------------------------------
(* PageIsOfStep and StepIsSettled.                                         *)

\* A page and the popup that skips it are of the step, also while the UI is not
\* connected, and nothing that leaves the page by itself runs under the popup.
PageInv ==
    /\ up \/ inFreStep \/ skipPopup \/ doFinalResetProcedures => freStatus = currentFreStep
    /\ inFreStep \/ skipPopup => currentFreStep \in PageSteps
    /\ skipPopup => ~wifiFreStepComplete /\ ~closeAuthCompletePopup /\ ~ethernetPopup
    /\ doFinalResetProcedures => currentFreStep = FreComplete

\* What leaves a page by itself is of the page, and was started by its end.
LeaveInv ==
    /\ wifiFreStepComplete \/ ethernetPopup => inFreStep /\ currentFreStep = SetupWifi
    /\ closeAuthCompletePopup => inFreStep /\ currentFreStep = LoginMbAccount
    /\ wifiFreStepComplete \/ closeAuthCompletePopup => currentFreStep \in settled
    /\ ~(wifiFreStepComplete /\ ethernetPopup)

\* A step that is set closes the page of the last one; where there is no next
\* step nothing changes.
LEMMA SetFreStepPage ==
    ASSUME NEW step, SetFreStep(step)
    PROVE  /\ currentFreStep' = step /\ freStatus' = step
           /\ inFreStep' => inFreStep /\ step = currentFreStep
  BY DEF SetFreStep, LogFreStatus

LEMMA GotoNextStepPage ==
    ASSUME NEW s, GotoNextStep(s)
    PROVE  /\ \/ UNCHANGED <<currentFreStep, freStatus>>
              \/ freStatus' = currentFreStep' /\ s # FreComplete
           /\ inFreStep' => inFreStep /\ currentFreStep' = currentFreStep
  BY SetFreStepPage, NoNextStep DEF GotoNextStep, freVars

LEMMA InitPageInv == Init => PageInv /\ LeaveInv
  BY DEF Init, PageInv, LeaveInv

LEMMA NextPageInv ==
    ASSUME "skip" \notin Events, PageInv, [Next]_vars
    PROVE  PageInv'
  <1> USE DEF PageInv
  <1>1. CASE Initialize
    <2>1. CASE freStatus = NoStep
      BY <1>1, <2>1, SetFreStepPage, PageStepsAre DEF Initialize, popups, pageTimers
    <2>2. CASE freStatus # NoStep
      BY <1>1, <2>2 DEF Initialize, popups, pageTimers
    <2> QED
      BY <2>1, <2>2
  <1>2. CASE Disconnect
    BY <1>2 DEF Disconnect, freVars, popups, pageTimers
  <1>3. CASE Restart
    BY <1>3 DEF Restart
  <1>4. CASE Continue
    BY <1>4, GotoNextStepPage, PageStepsAre DEF Continue, OnScreen, popups, pageTimers
  <1>5. CASE FinishPage
    BY <1>5, GotoNextStepPage, PageStepsAre DEF FinishPage, OnPage, popups, pageTimers
  <1>6. CASE StepBack
    BY <1>6, SetFreStepPage, PageStepsAre DEF StepBack, OnScreen, popups, pageTimers
  <1>7. CASE AcknowledgePrint
    BY <1>7, SetFreStepPage, GotoNextStepPage, PageStepsAre
       DEF AcknowledgePrint, OnPage, popups, pageTimers
  <1>8. CASE Recalibrate
    BY <1>8, SetFreStepPage, PageStepsAre DEF Recalibrate, OnPage, popups, pageTimers
  <1>9. CASE OpenPage \/ LeavePage
    BY <1>9 DEF OpenPage, LeavePage, OnScreen, OnPage, popups, pageTimers
  <1>10. CASE WifiConnected \/ EthernetConnected \/ CloseEthernetPopup \/ NetworkLost
    BY <1>10 DEF WifiConnected, EthernetConnected, CloseEthernetPopup, NetworkLost,
                 LeaveWifiPage, freVars, popups, pageTimers
  <1>11. CASE WifiFreStepComplete
    BY <1>11, GotoNextStepPage DEF WifiFreStepComplete, popups
  <1>12. CASE Authorized \/ FirmwareUpdateNotif \/ ResetToFactory
    BY <1>12, PageStepsAre DEF Authorized, FirmwareUpdateNotif, ResetToFactory, freVars, popups,
                               pageTimers
  <1>13. CASE CloseAuthCompletePopup
    BY <1>13, GotoNextStepPage DEF CloseAuthCompletePopup, popups, freVars
  <1>14. CASE DoFinalResetProcedures
    BY <1>14, SetFreStepPage, PageStepsAre DEF DoFinalResetProcedures, popups
  <1>15. CASE OpenSkipPopup \/ CloseSkipPopup
    BY <1>15 DEF OpenSkipPopup, CloseSkipPopup, OnScreen, OnPage, Modal, freVars, pageTimers
  <1>16. CASE ConfirmSkip
    BY <1>16, SetFreStepPage, GotoNextStepPage, PageStepsAre DEF ConfirmSkip, pageTimers
  <1>17. CASE UNCHANGED vars
    BY <1>17 DEF vars, freVars, popups, pageTimers
  <1> QED
    BY <1>1, <1>2, <1>3, <1>4, <1>5, <1>6, <1>7, <1>8, <1>9, <1>10, <1>11, <1>12,
       <1>13, <1>14, <1>15, <1>16, <1>17 DEF Next

\* A page of the setup, or the popup that skips it, is never left open by a
\* change of the step, on every printer, with every restart, connection and
\* cable, unless a page leaves by itself while that popup is open (FrePage.qml,
\* onCurrentFreStepChanged).
THEOREM PagesFollowSteps ==
    ASSUME "skip" \notin Events
    PROVE  Spec => []PageIsOfStep
  <1>1. Init => PageInv
    BY InitPageInv
  <1>2. PageInv /\ [Next]_vars => PageInv'
    BY NextPageInv
  <1>3. PageInv => PageIsOfStep
    BY DEF PageInv, PageIsOfStep
  <1> QED
    BY <1>1, <1>2, <1>3, PTL DEF Spec

LEMMA NextLeaveInv ==
    ASSUME Events \cap {"skip", "cable", "print"} = {}, PageInv, LeaveInv, [Next]_vars
    PROVE  LeaveInv'
  <1> USE DEF PageInv, LeaveInv
  <1>1. CASE Initialize
    <2>1. CASE freStatus = NoStep
      BY <1>1, <2>1, PageStepsAre DEF Initialize, popups, pageTimers
    <2>2. CASE freStatus # NoStep
      BY <1>1, <2>2 DEF Initialize, popups, pageTimers
    <2> QED
      BY <2>1, <2>2
  <1>2. CASE Disconnect
    BY <1>2 DEF Disconnect, freVars, popups, pageTimers
  <1>3. CASE Restart
    BY <1>3 DEF Restart
  <1>4. CASE Continue \/ StepBack
    BY <1>4 DEF Continue, StepBack, OnScreen, Modal, popups, pageTimers
  <1>5. CASE FinishPage
    BY <1>5, PageStepsAre DEF FinishPage, OnPage, Modal, popups, pageTimers
  <1>6. CASE AcknowledgePrint \/ Recalibrate
    BY <1>6, PageStepsAre DEF AcknowledgePrint, Recalibrate, OnPage, Modal, popups, pageTimers
  <1>7. CASE OpenPage
    BY <1>7 DEF OpenPage, OnScreen, Modal, popups, pageTimers
  <1>8. CASE LeavePage
    BY <1>8, PageStepsAre DEF LeavePage, OnPage, Modal, popups, pageTimers
  <1>9. CASE WifiConnected
    BY <1>9, PageStepsAre DEF WifiConnected, LeaveWifiPage, freVars, popups, pageTimers
  <1>10. CASE EthernetConnected
    BY <1>10, PageStepsAre DEF EthernetConnected, freVars, pageTimers
  <1>11. CASE CloseEthernetPopup
    BY <1>11, PageStepsAre DEF CloseEthernetPopup, LeaveWifiPage, freVars
  <1>12. CASE NetworkLost \/ FirmwareUpdateNotif \/ ResetToFactory
    BY <1>12 DEF NetworkLost, FirmwareUpdateNotif, ResetToFactory, freVars, popups, pageTimers
  <1>13. CASE WifiFreStepComplete
    BY <1>13, PageStepsAre DEF WifiFreStepComplete, popups
  <1>14. CASE Authorized
    BY <1>14 DEF Authorized, freVars, popups
  <1>15. CASE CloseAuthCompletePopup
    BY <1>15, PageStepsAre DEF CloseAuthCompletePopup, popups
  <1>16. CASE DoFinalResetProcedures
    BY <1>16, PageStepsAre DEF DoFinalResetProcedures, popups
  <1>17. CASE OpenSkipPopup \/ CloseSkipPopup
    BY <1>17 DEF OpenSkipPopup, CloseSkipPopup, freVars, pageTimers
  <1>18. CASE ConfirmSkip
    BY <1>18 DEF ConfirmSkip, pageTimers
  <1>19. CASE UNCHANGED vars
    BY <1>19 DEF vars, freVars, popups, pageTimers
  <1> QED
    BY <1>1, <1>2, <1>3, <1>4, <1>5, <1>6, <1>7, <1>8, <1>9, <1>10, <1>11, <1>12,
       <1>13, <1>14, <1>15, <1>16, <1>17, <1>18, <1>19 DEF Next

\* gotoNextStep() finds the first step that is not disabled, or runs off the end.
LEMMA NextStepIsLater ==
    ASSUME NEW s \in Steps
    PROVE  NextStep(s) \in s + 1 .. NoStep
  <1> DEFINE S == {t \in s + 1 .. NoStep : t \notin Disabled}
  <1>1. NoStep \notin Disabled
    BY DEF Disabled, MagmaSteps, NoStep, FreComplete, SetupWifi, LoginMbAccount,
           SoftwareUpdate, SunflowerSetupGuide, SunflowerUnpacking, MaterialCaseSetup
  <1>2. NoStep \in S /\ S \subseteq Nat /\ s \in Nat /\ NoStep \in Nat
    BY <1>1 DEF Steps, NoStep, StartSetLanguage, FreComplete
  <1>3. PICK t \in S : \A k \in S : ~ (<<k, t>> \in OpToRel(<, Nat))
    BY <1>2, WFMin, NatLessThanWellFounded
  <1>4. t \in s + 1 .. NoStep /\ t \notin Disabled
    OBVIOUS
  <1>5. t \in Nat /\ s < t /\ t <= NoStep
    BY <1>2, <1>4
  <1>6. ASSUME NEW u \in s + 1 .. t - 1
        PROVE  u \in Disabled
    <2>1. u \in Nat /\ u < t /\ u \in s + 1 .. NoStep
      BY <1>2, <1>5
    <2>2. OpToRel(<, Nat) = {p \in Nat \X Nat : p[1] < p[2]}
      BY DEF OpToRel
    <2>3. <<u, t>> \in OpToRel(<, Nat)
      BY <1>5, <2>1, <2>2
    <2>4. u \notin S
      BY <1>3, <2>3
    <2> QED
      BY <2>1, <2>4
  <1>7. \E v \in s + 1 .. NoStep :
            v \notin Disabled /\ \A u \in s + 1 .. v - 1 : u \in Disabled
    BY <1>4, <1>6
  <1> QED
    BY <1>7 DEF NextStep

LEMMA StepsAre ==
    /\ Steps = 0 .. 17 /\ NoStep = 18
    /\ StartSetLanguage \in Steps /\ Welcome \in Steps /\ FreComplete \in Steps
    /\ SetupComplete \in Steps /\ CalibrateExtruders \in Steps
    /\ SetupWifi \in Steps /\ LoginMbAccount \in Steps
  BY DEF Steps, NoStep, StartSetLanguage, Welcome, FreComplete, SetupComplete,
         CalibrateExtruders, SetupWifi, LoginMbAccount

LEMMA SetFreStepTypes ==
    ASSUME TypeOK, NEW step \in Steps, SetFreStep(step)
    PROVE  /\ currentFreStep' \in Steps /\ freStatus' \in Steps \cup {NoStep}
           /\ file' \in Steps \cup {NoStep} /\ inFreStep' \in BOOLEAN
  <1>1. inFreStep' \in BOOLEAN
    BY Zenon DEF SetFreStep, TypeOK
  <1> QED
    BY <1>1 DEF SetFreStep, LogFreStatus, TypeOK

LEMMA GotoNextStepTypes ==
    ASSUME TypeOK, GotoNextStep(currentFreStep)
    PROVE  /\ currentFreStep' \in Steps /\ freStatus' \in Steps \cup {NoStep}
           /\ file' \in Steps \cup {NoStep} /\ inFreStep' \in BOOLEAN
  <1>1. CASE UNCHANGED freVars
    BY <1>1 DEF freVars, TypeOK
  <1>2. CASE NextStep(currentFreStep) # NoStep /\ SetFreStep(NextStep(currentFreStep))
    <2>1. currentFreStep \in Steps
      BY DEF TypeOK
    <2>2. NextStep(currentFreStep) \in currentFreStep + 1 .. NoStep
      BY <2>1, NextStepIsLater
    <2>3. NextStep(currentFreStep) \in Steps
      BY <1>2, <2>1, <2>2, StepsAre
    <2> QED
      BY <1>2, <2>3, SetFreStepTypes
  <1> QED
    BY <1>1, <1>2 DEF GotoNextStep

LEMMA NextTypeOK ==
    ASSUME TypeOK, [Next]_vars
    PROVE  TypeOK'
  <1> USE StepsAre
  <1>1. CASE Initialize
    <2>1. CASE freStatus = NoStep
      BY <1>1, <2>1, SetFreStepTypes DEF Initialize, TypeOK, world, popups, pageTimers
    <2>2. CASE freStatus # NoStep
      <3>1. inFreStep' \in BOOLEAN /\ currentFreStep' \in Steps
        BY <1>1, <2>2 DEF Initialize, TypeOK
      <3> QED
        BY <1>1, <2>2, <3>1 DEF Initialize, TypeOK, world, popups, pageTimers
    <2> QED
      BY <2>1, <2>2
  <1>2. CASE Disconnect \/ Restart
    BY <1>2 DEF Disconnect, Restart, TypeOK, freVars, world, popups, pageTimers
  <1>3. CASE Continue \/ FinishPage
    BY <1>3, GotoNextStepTypes DEF Continue, FinishPage, Settle, TypeOK, world, popups, pageTimers
  <1>4. CASE StepBack \/ Recalibrate
    BY <1>4, SetFreStepTypes DEF StepBack, Recalibrate, Settle, TypeOK, world, popups, pageTimers
  <1>5. CASE AcknowledgePrint
    BY <1>5, SetFreStepTypes, GotoNextStepTypes
       DEF AcknowledgePrint, Settle, TypeOK, world, popups, pageTimers
  <1>6. CASE OpenPage \/ LeavePage
    BY <1>6 DEF OpenPage, LeavePage, TypeOK, world, popups, pageTimers
  <1>7. CASE WifiConnected \/ EthernetConnected \/ CloseEthernetPopup \/ NetworkLost
    BY <1>7 DEF WifiConnected, EthernetConnected, CloseEthernetPopup, NetworkLost,
                LeaveWifiPage, TypeOK, freVars, world, popups, pageTimers
  <1>8. CASE WifiFreStepComplete
    BY <1>8, GotoNextStepTypes DEF WifiFreStepComplete, TypeOK, world, popups
  <1>9. CASE CloseAuthCompletePopup
    BY <1>9, GotoNextStepTypes DEF CloseAuthCompletePopup, TypeOK, freVars, world, popups
  <1>10. CASE Authorized \/ FirmwareUpdateNotif \/ ResetToFactory
    BY <1>10 DEF Authorized, FirmwareUpdateNotif, ResetToFactory, TypeOK, freVars, world,
                 popups, pageTimers
  <1>11. CASE DoFinalResetProcedures
    BY <1>11, SetFreStepTypes DEF DoFinalResetProcedures, TypeOK, world, popups
  <1>12. CASE OpenSkipPopup \/ CloseSkipPopup
    BY <1>12 DEF OpenSkipPopup, CloseSkipPopup, TypeOK, freVars, world, pageTimers
  <1>13. CASE ConfirmSkip
    BY <1>13, SetFreStepTypes, GotoNextStepTypes
       DEF ConfirmSkip, Settle, TypeOK, world, pageTimers
  <1>14. CASE UNCHANGED vars
    BY <1>14 DEF vars, TypeOK, freVars, world, popups, pageTimers
  <1> QED
    BY <1>1, <1>2, <1>3, <1>4, <1>5, <1>6, <1>7, <1>8, <1>9, <1>10, <1>11, <1>12,
       <1>13, <1>14 DEF Next

\* The variables of the setup keep their types: gotoNextStep() always finds a
\* step or stays at the last one, whatever is disabled (FreTracker, FrePage.qml).
THEOREM TypeCorrect == Spec => []TypeOK
  <1>1. Init => TypeOK
    BY StepsAre DEF Init, TypeOK
  <1>2. TypeOK /\ [Next]_vars => TypeOK'
    BY NextTypeOK
  <1> QED
    BY <1>1, <1>2, PTL DEF Spec

LEMMA NextSettles ==
    ASSUME "print" \notin Events, PageInv, LeaveInv, [Next]_vars,
           up, up', currentFreStep' > currentFreStep, currentFreStep' # currentFreStep
    PROVE  currentFreStep \in settled'
  <1> USE DEF PageInv, LeaveInv
  <1>1. CASE Initialize \/ Disconnect \/ Restart
    BY <1>1 DEF Initialize, Disconnect, Restart
  <1>2. CASE Continue \/ StepBack \/ FinishPage \/ AcknowledgePrint \/ ConfirmSkip
    BY <1>2 DEF Continue, StepBack, FinishPage, AcknowledgePrint, ConfirmSkip, Settle
  <1>3. CASE Recalibrate
    BY <1>3, SetFreStepPage DEF Recalibrate, CalibrateExtruders, TestPrint
  <1>4. CASE WifiFreStepComplete
    BY <1>4 DEF WifiFreStepComplete
  <1>5. CASE CloseAuthCompletePopup
    BY <1>5 DEF CloseAuthCompletePopup
  <1>6. CASE DoFinalResetProcedures
    BY <1>6, SetFreStepPage DEF DoFinalResetProcedures, StartSetLanguage, FreComplete
  <1>7. CASE OpenPage \/ LeavePage
    BY <1>7 DEF OpenPage, LeavePage
  <1>8. CASE WifiConnected \/ EthernetConnected \/ CloseEthernetPopup \/ NetworkLost
    BY <1>8 DEF WifiConnected, EthernetConnected, CloseEthernetPopup, NetworkLost, freVars
  <1>9. CASE Authorized \/ FirmwareUpdateNotif \/ ResetToFactory
    BY <1>9 DEF Authorized, FirmwareUpdateNotif, ResetToFactory, freVars
  <1>10. CASE OpenSkipPopup \/ CloseSkipPopup
    BY <1>10 DEF OpenSkipPopup, CloseSkipPopup, freVars
  <1>11. CASE UNCHANGED vars
    BY <1>11 DEF vars, freVars
  <1> QED
    BY <1>1, <1>2, <1>3, <1>4, <1>5, <1>6, <1>7, <1>8, <1>9, <1>10, <1>11 DEF Next

\* The setup goes past a step only when the user has finished it or agreed to
\* skip it, on every printer and with every restart and connection, as long as
\* no page leaves by itself under the skip popup, ethernet comes up only on the
\* page of the network and no print of another client ends on a page: each timer
\* that leaves a page is of the step that started it ("Every page that does not
\* have custom logic for this should prompt to skip to the next step",
\* FrePage.qml:159).
THEOREM StepsAreSettled ==
    ASSUME Events \cap {"skip", "cable", "print"} = {}
    PROVE  Spec => StepIsSettled
  <1>1. Init => PageInv /\ LeaveInv
    BY InitPageInv
  <1>2. PageInv /\ LeaveInv /\ [Next]_vars => PageInv' /\ LeaveInv'
    BY NextPageInv, NextLeaveInv
  <1>3. TypeOK /\ currentFreStep' > currentFreStep => currentFreStep' # currentFreStep
    BY DEF TypeOK, Steps, StartSetLanguage, FreComplete
  <1>4. TypeOK /\ PageInv /\ LeaveInv /\ [Next]_vars =>
            [up /\ up' /\ currentFreStep' > currentFreStep => currentFreStep \in settled']_vars
    BY <1>3, NextSettles
  <1> QED
    BY <1>1, <1>2, <1>4, TypeCorrect, PTL DEF Spec, StepIsSettled

=============================================================================
