------------------------------ MODULE FirstRun ------------------------------
(***************************************************************************)
(* The first run experience: FreTracker keeps the current step, skips the  *)
(* disabled ones and writes the step to a file, from which it resumes; the *)
(* UI opens the page of a step, which leads to the next one, from a tap or *)
(* from a timer, and a popup offers to skip the step.                      *)
(***************************************************************************)
EXTENDS Naturals

CONSTANTS
    Magma,      \* the printer is a Method XL
    Events      \* what may happen: "crash", the UI restarts; "full", there is no
                \* room for the file; "skip", a page begins to leave by itself
                \* while the skip popup is open, or the other way round; "cable",
                \* ethernet comes up on a page other than that of SetupWifi, or
                \* together with wifi; "print", a print that another client
                \* started ends while the page of a step is open

ASSUME FirstRunAssumption ==
    /\ Magma \in BOOLEAN
    /\ Events \subseteq {"crash", "full", "skip", "cable", "print"}

\* FreStep, in the order of the enumeration.
StartSetLanguage == 0
Welcome == 1
SunflowerSetupGuide == 2
SetupWifi == 3
SoftwareUpdate == 4
SetTimeDate == 5
SunflowerUnpacking == 6
AttachExtruders == 7
LevelBuildPlate == 8
CalibrateExtruders == 9
MaterialCaseSetup == 10
LoadMaterial == 11
EnablePrintAgain == 12
TestPrint == 13
NamePrinter == 14
LoginMbAccount == 15
SetupComplete == 16
FreComplete == 17

Steps == StartSetLanguage .. FreComplete
NoStep == FreComplete + 1    \* no status: no file, or one that does not parse

\* Steps whose page opens over the first run screen, and those for which the
\* popup skips the rest as well.
PageSteps == {SetupWifi, SoftwareUpdate, SetTimeDate, AttachExtruders, LevelBuildPlate,
              CalibrateExtruders, MaterialCaseSetup, LoadMaterial, TestPrint,
              NamePrinter, LoginMbAccount}
HardwareSteps == {AttachExtruders, LevelBuildPlate, CalibrateExtruders,
                  MaterialCaseSetup, LoadMaterial, TestPrint}
MagmaSteps == {SunflowerSetupGuide, SunflowerUnpacking, MaterialCaseSetup}

VARIABLES
    up,               \* connected to Kaiten, FreTracker initialized
    currentFreStep,
    freStatus,        \* current_step of fre_status_ in memory
    file,             \* current_step of fre_tracker.json
    interface,        \* of bot.net
    firmwareUpdate,   \* isfirmwareUpdateAvailable
    inFreStep,        \* the page of the step is open
    ethernetPopup,    \* it is open, for CONFIRM and CLOSE
    skipPopup,        \* skipFreStepPopup is open, and names the current step
    wifiFreStepComplete, closeAuthCompletePopup,   \* timers that leave a page
    doFinalResetProcedures,   \* the timer of a reset to factory settings
    settled           \* steps the user has finished, or agreed to skip

freVars == <<currentFreStep, freStatus, file, inFreStep>>
world == <<interface, firmwareUpdate>>
popups == <<ethernetPopup, skipPopup>>
pageTimers == <<wifiFreStepComplete, closeAuthCompletePopup, doFinalResetProcedures>>
vars == <<up, freVars, world, popups, pageTimers, settled>>

TypeOK ==
    /\ up \in BOOLEAN
    /\ currentFreStep \in Steps
    /\ freStatus \in Steps \cup {NoStep} /\ file \in Steps \cup {NoStep}
    /\ interface \in {"none", "wifi", "ethernet"} /\ firmwareUpdate \in BOOLEAN
    /\ inFreStep \in BOOLEAN
    /\ ethernetPopup \in BOOLEAN /\ skipPopup \in BOOLEAN
    /\ wifiFreStepComplete \in BOOLEAN /\ closeAuthCompletePopup \in BOOLEAN
    /\ doFinalResetProcedures \in BOOLEAN
    /\ settled \subseteq Steps

\* A UI that just started.  The constructor does not call reset(), so that the
\* step is anything until initialize() sets it.
Init ==
    /\ up = FALSE /\ currentFreStep \in Steps
    /\ freStatus = NoStep /\ file = NoStep
    /\ interface \in {"none", "wifi", "ethernet"} /\ firmwareUpdate = FALSE
    /\ inFreStep = FALSE
    /\ ethernetPopup = FALSE /\ skipPopup = FALSE
    /\ wifiFreStepComplete = FALSE /\ closeAuthCompletePopup = FALSE
    /\ doFinalResetProcedures = FALSE
    /\ settled = {}

-----------------------------------------------------------------------------
(* FreTracker.                                                             *)

isNetworkConnectionAvailable == interface # "none"

\* disabled_steps_, as the handlers of the UI set it.
Disabled ==
    (IF isNetworkConnectionAvailable THEN {SetupWifi} ELSE {LoginMbAccount})
    \cup (IF firmwareUpdate THEN {} ELSE {SoftwareUpdate})
    \cup (IF Magma THEN {} ELSE MagmaSteps)

\* The step gotoNextStep() ends at: the first one after s that is not disabled.
NextStep(s) ==
    CHOOSE t \in s + 1 .. NoStep :
        t \notin Disabled /\ \A u \in s + 1 .. t - 1 : u \in Disabled

\* A logFreStatus() that writes what the status was before.
LogFreStatus_Late(step) ==
    /\ freStatus' = step
    /\ file' = freStatus

\* logFreStatus(): a new file takes the place of the old one, even when it could
\* not be written to the end; the old one stays when there is no new file.
LogFreStatus(step) ==
    /\ freStatus' = step
    /\ file' \in {step} \cup (IF "full" \in Events THEN {file, NoStep} ELSE {})

\* A change of the step that leaves the page of the last one open.
SetFreStep_KeepsPage(step) ==
    /\ currentFreStep' = step
    /\ UNCHANGED inFreStep
    /\ LogFreStatus(step)

\* setFreStep() and onCurrentFreStepChanged.
SetFreStep(step) ==
    /\ currentFreStep' = step
    /\ inFreStep' = (inFreStep /\ step = currentFreStep)
    /\ LogFreStatus(step)

\* gotoNextStep(): out of bounds after the last step.
GotoNextStep(s) ==
    IF NextStep(s) = NoStep THEN UNCHANGED freVars ELSE SetFreStep(NextStep(s))

\* An initialize() that does not look at the status that was read.
Initialize_Restarts ==
    /\ ~up
    /\ up' = TRUE
    /\ SetFreStep(StartSetLanguage)
    /\ UNCHANGED <<world, popups, pageTimers, settled>>

\* onConnectionStateChanged: initialize().
Initialize ==
    /\ ~up
    /\ up' = TRUE
    /\ IF freStatus = NoStep
       THEN SetFreStep(StartSetLanguage)
       ELSE /\ currentFreStep' = freStatus
            /\ inFreStep' = (inFreStep /\ freStatus = currentFreStep)
            /\ UNCHANGED <<freStatus, file>>
    /\ UNCHANGED <<world, popups, pageTimers, settled>>

Disconnect ==
    /\ up
    /\ up' = FALSE
    /\ UNCHANGED <<freVars, world, popups, pageTimers, settled>>

\* The printer, or the UI, restarts: FreTracker().
Restart ==
    /\ "crash" \in Events
    /\ up' = FALSE /\ currentFreStep' \in Steps
    /\ freStatus' = file
    /\ inFreStep' = FALSE
    /\ ethernetPopup' = FALSE /\ skipPopup' = FALSE
    /\ wifiFreStepComplete' = FALSE /\ closeAuthCompletePopup' = FALSE
    /\ doFinalResetProcedures' = FALSE
    /\ settled' = {}
    /\ UNCHANGED <<file, world>>

-----------------------------------------------------------------------------
(* The first run screen and the pages of its steps.                        *)

\* What the user has settled: a step is open again when it is reached again.
Settle(s) == settled' = (settled \cup {s}) \ {currentFreStep'}

\* A popup that takes all taps.
Modal == ethernetPopup \/ closeAuthCompletePopup

OnScreen == up /\ ~inFreStep /\ ~skipPopup /\ ~Modal
OnPage == up /\ inFreStep /\ ~skipPopup /\ ~Modal

\* CONTINUE on a step that is only a screen; SetupWifi with a network; the
\* name that is kept.  SunflowerUnpacking goes on when the plate has moved.
Continue ==
    /\ OnScreen
    /\ \/ currentFreStep \in Steps \ (PageSteps \cup {FreComplete})
       \/ currentFreStep = SetupWifi /\ isNetworkConnectionAvailable
       \/ currentFreStep = NamePrinter
    /\ GotoNextStep(currentFreStep)
    /\ Settle(currentFreStep)
    /\ UNCHANGED <<up, world, popups, pageTimers>>

\* The button that opens the page of the step.
OpenPage ==
    /\ OnScreen
    /\ currentFreStep \in PageSteps
    /\ currentFreStep = SetupWifi => ~isNetworkConnectionAvailable
    /\ inFreStep' = TRUE
    /\ UNCHANGED <<up, currentFreStep, freStatus, file, world, popups, pageTimers, settled>>

\* BACK on the first screens.
StepBack ==
    /\ OnScreen
    /\ \/ currentFreStep = Welcome /\ SetFreStep(StartSetLanguage)
       \/ currentFreStep = SunflowerSetupGuide /\ SetFreStep(Welcome)
    /\ Settle(currentFreStep)
    /\ UNCHANGED <<up, world, popups, pageTimers>>

\* The end of a page that the user reaches with a tap.
FinishPage ==
    /\ OnPage
    /\ currentFreStep \in PageSteps \ {SetupWifi, LoginMbAccount, TestPrint}
    /\ GotoNextStep(currentFreStep)
    /\ Settle(currentFreStep)
    /\ UNCHANGED <<up, world, popups, pageTimers>>

\* acknowledgePrint(), which does not ask for the step: the print of another client
\* ends the step it interrupts as the test print ends its own.
AcknowledgePrint ==
    /\ OnPage
    /\ currentFreStep = TestPrint \/ "print" \in Events
    /\ IF isNetworkConnectionAvailable
       THEN GotoNextStep(currentFreStep) ELSE SetFreStep(SetupComplete)
    /\ settled' = (settled \cup ({currentFreStep} \cap {TestPrint})) \ {currentFreStep'}
    /\ UNCHANGED <<up, world, popups, pageTimers>>

\* reviewTestPrint.calibrateButton.
Recalibrate ==
    /\ OnPage
    /\ currentFreStep = TestPrint
    /\ SetFreStep(CalibrateExtruders)
    /\ settled' = settled \ {CalibrateExtruders}
    /\ UNCHANGED <<up, world, popups, pageTimers>>

\* Back on the pages that go back to the screen of the step.
LeavePage ==
    /\ OnPage
    /\ currentFreStep \in {MaterialCaseSetup, LoadMaterial}
    /\ inFreStep' = FALSE
    /\ UNCHANGED <<up, currentFreStep, freStatus, file, world, popups, pageTimers, settled>>

-----------------------------------------------------------------------------
(* The network, and the timer it starts.                                   *)

\* wifiFreStepComplete.start().
LeaveWifiPage ==
    /\ wifiFreStepComplete' = TRUE
    /\ settled' = settled \cup (IF currentFreStep = SetupWifi THEN {SetupWifi} ELSE {})
    /\ UNCHANGED <<closeAuthCompletePopup, doFinalResetProcedures>>

\* A wifi handler that does not look at the step.
WifiConnected_AnyPage ==
    /\ interface' = "wifi" /\ interface # "wifi"
    /\ IF inFreStep
       THEN /\ "skip" \in Events \/ ~skipPopup
            /\ "cable" \in Events \/ ~ethernetPopup
            /\ LeaveWifiPage
       ELSE UNCHANGED <<pageTimers, settled>>
    /\ UNCHANGED <<up, freVars, firmwareUpdate, popups>>

\* onIsWifiConnectedChanged.
WifiConnected ==
    /\ interface' = "wifi" /\ interface # "wifi"
    /\ IF inFreStep /\ currentFreStep = SetupWifi
       THEN /\ "skip" \in Events \/ ~skipPopup
            /\ "cable" \in Events \/ ~ethernetPopup
            /\ LeaveWifiPage
       ELSE UNCHANGED <<pageTimers, settled>>
    /\ UNCHANGED <<up, freVars, firmwareUpdate, popups>>

\* onIsEthernetConnectedChanged, which does not look at the step.
EthernetConnected ==
    /\ interface' = "ethernet" /\ interface # "ethernet"
    /\ IF inFreStep
       THEN /\ "skip" \in Events \/ ~skipPopup
            /\ "cable" \in Events \/ (currentFreStep = SetupWifi /\ ~wifiFreStepComplete)
            /\ ethernetPopup' = TRUE
       ELSE UNCHANGED ethernetPopup
    /\ UNCHANGED <<up, freVars, firmwareUpdate, skipPopup, pageTimers, settled>>

\* CONFIRM and CLOSE.
CloseEthernetPopup ==
    /\ ethernetPopup
    /\ ethernetPopup' = FALSE
    /\ LeaveWifiPage
    /\ UNCHANGED <<up, freVars, world, skipPopup>>

NetworkLost ==
    /\ interface' = "none" /\ interface # "none"
    /\ UNCHANGED <<up, freVars, firmwareUpdate, popups, pageTimers, settled>>

\* wifiFreStepComplete, 2 s later, whatever the step and the page are by then.
WifiFreStepComplete ==
    /\ wifiFreStepComplete
    /\ wifiFreStepComplete' = FALSE
    /\ GotoNextStep(currentFreStep)
    /\ settled' = settled \ {currentFreStep'}
    /\ UNCHANGED <<up, world, popups, closeAuthCompletePopup, doFinalResetProcedures>>

-----------------------------------------------------------------------------
(* Other things that happen by themselves, or later.                       *)

\* The account is authorized, on the page of LoginMbAccount.
Authorized ==
    /\ up /\ inFreStep /\ currentFreStep = LoginMbAccount /\ ~closeAuthCompletePopup
    /\ "skip" \in Events \/ ~skipPopup
    /\ closeAuthCompletePopup' = TRUE
    /\ settled' = settled \cup {LoginMbAccount}
    /\ UNCHANGED <<up, freVars, world, popups, wifiFreStepComplete, doFinalResetProcedures>>

\* closeAuthCompletePopupTimer, 5 s later.
CloseAuthCompletePopup ==
    /\ closeAuthCompletePopup
    /\ closeAuthCompletePopup' = FALSE
    /\ IF inFreStep THEN GotoNextStep(currentFreStep) ELSE UNCHANGED freVars
    /\ settled' = settled \ (IF inFreStep THEN {currentFreStep'} ELSE {})
    /\ UNCHANGED <<up, world, popups, wifiFreStepComplete, doFinalResetProcedures>>

\* firmwareUpdateNotif().
FirmwareUpdateNotif ==
    /\ firmwareUpdate' = ~firmwareUpdate
    /\ UNCHANGED <<up, freVars, interface, popups, pageTimers, settled>>

\* CONFIRM of resetToFactoryPopup, in the settings of a printer that is set up,
\* and doFinalResetProceduresTimer 2.5 s later.
ResetToFactory ==
    /\ up /\ currentFreStep = FreComplete
    /\ doFinalResetProcedures' = TRUE
    /\ UNCHANGED <<up, freVars, world, popups, wifiFreStepComplete, closeAuthCompletePopup,
                   settled>>

DoFinalResetProcedures ==
    /\ doFinalResetProcedures
    /\ doFinalResetProcedures' = FALSE
    /\ SetFreStep(StartSetLanguage)
    /\ settled' = {}
    /\ UNCHANGED <<up, world, popups, wifiFreStepComplete, closeAuthCompletePopup>>

-----------------------------------------------------------------------------
(* skipFreStepPopup.                                                       *)

\* SKIP on the screen of a step, or back on its page.
OpenSkipPopup ==
    /\ OnScreen \/ OnPage
    /\ currentFreStep \in PageSteps
    /\ currentFreStep = NamePrinter => inFreStep
    /\ "skip" \in Events \/ ~wifiFreStepComplete
    /\ skipPopup' = TRUE
    /\ UNCHANGED <<up, freVars, world, ethernetPopup, pageTimers, settled>>

\* BACK.
CloseSkipPopup ==
    /\ skipPopup /\ ~Modal
    /\ skipPopup' = FALSE
    /\ UNCHANGED <<up, freVars, world, ethernetPopup, pageTimers, settled>>

\* CONFIRM.
ConfirmSkip ==
    /\ skipPopup /\ ~Modal
    /\ skipPopup' = FALSE
    /\ IF currentFreStep \in HardwareSteps
       THEN SetFreStep(FreComplete)
       ELSE GotoNextStep(currentFreStep)
    /\ Settle(currentFreStep)
    /\ UNCHANGED <<up, world, ethernetPopup, pageTimers>>

-----------------------------------------------------------------------------

Next ==
    \/ Initialize \/ Disconnect \/ Restart
    \/ Continue \/ OpenPage \/ StepBack \/ FinishPage \/ AcknowledgePrint
    \/ Recalibrate \/ LeavePage
    \/ WifiConnected \/ EthernetConnected \/ CloseEthernetPopup \/ NetworkLost
    \/ WifiFreStepComplete
    \/ Authorized \/ CloseAuthCompletePopup
    \/ FirmwareUpdateNotif \/ ResetToFactory \/ DoFinalResetProcedures
    \/ OpenSkipPopup \/ CloseSkipPopup \/ ConfirmSkip

Spec == Init /\ [][Next]_vars

-----------------------------------------------------------------------------
(* Properties.                                                             *)

\* A printer that is switched off goes on with the step it was at: whatever
\* pages, timers and popups did, the file names the step the UI shows.
ResumesAtStep == up => file = currentFreStep

\* A printer that is set up is not set up again, unless the user resets it:
\* neither a connection that comes back nor a timer of a page, or of a popup,
\* that goes off late starts over.
CompleteIsFinal ==
    [][freStatus = FreComplete /\ file = FreComplete
          => doFinalResetProcedures \/ UNCHANGED <<freStatus, file>>]_vars

\* A page, or the popup that asks to skip it, is open only at the step that has
\* it: a change of the step, by whichever handler, never leaves the user on a
\* page of the settings from which no button leads on, or under a popup that
\* names no step.
PageIsOfStep == inFreStep \/ skipPopup => currentFreStep \in PageSteps

\* "Every page that does not have custom logic for this should prompt to skip
\* to the next step" (FrePage.qml:159): the setup goes past a step because the
\* user has finished that step, or has agreed to skip it.
StepIsSettled ==
    [][up /\ up' /\ currentFreStep' > currentFreStep => currentFreStep \in settled']_vars

=============================================================================
