---------------------------- MODULE ProcessModel ----------------------------
(***************************************************************************)
(* The process that Kaiten runs, as the UI sees it: Kaiten notifies of it  *)
(* step by step, procUpdate() sets the properties one by one, the step     *)
(* before the type, and pages react to the change of the step with the     *)
(* type that is set by then.  Three pages wait for the end of a process    *)
(* that they asked for: the unpacking step of the first run experience,    *)
(* the popup that copies the logs and the popup of the factory reset.      *)
(***************************************************************************)
EXTENDS Naturals, Sequences

CONSTANTS
    MaxProcs,       \* bound on the processes that Kaiten starts
    MaxSent,        \* bound on the notifications in flight
    Scenarios       \* sets of faults: "coalesce", a change is not notified;
                    \* "hasty", a process is asked for before the last one is
                    \* gone; "remote", others start processes; "error", errors

ASSUME ProcessAssumption ==
    /\ MaxProcs \in Nat /\ MaxSent \in Nat \ {0}
    /\ Scenarios \subseteq SUBSET {"coalesce", "hasty", "remote", "error"}

NoProc == [id |-> 0, name |-> "none", step |-> "none", error |-> "NoError",
           side |-> "A", cancelled |-> FALSE]

VARIABLES
    faults,         \* what may go wrong in this behaviour
    proc,           \* Kaiten's current process
    started,        \* processes started so far
    sent,           \* notifications in flight
    wiped,          \* Kaiten has done a factory reset
    \* ProcessModel:
    id, type, stateType, cancelled, errorType,  \* id for the properties only
    sideFlags,      \* extruderAJammed, extruderBOOF ... that are true
    isLoadUnloadWhilePaused,
    loadOf,         \* the process that set it, for the properties
    \* the pages:
    unpacking, lowering,    \* state of SunflowerUnpacking
    freStep,        \* 0 the unpacking step, 1 a later one, 2 FreComplete
    zip,            \* popupState of copyingLogsPopup
    reset,          \* flags of resetToFactoryPopup that are true
    rebooting       \* rebootPrinterTimer runs

kaitenVars == <<proc, started, sent, wiped>>
modelVars == <<id, type, stateType, cancelled, errorType, sideFlags,
               isLoadUnloadWhilePaused, loadOf>>
pageVars == <<unpacking, lowering, freStep, zip, reset, rebooting>>
vars == <<faults, kaitenVars, modelVars, pageVars>>

Sides == {"A", "B"}
SideErrors == {"FilamentJam", "ExtruderOutOfFilament", "DrawerOutOfFilament"}
Errors == SideErrors \cup {"NoError", "OtherError"}
ResetFlags == {"open", "isResetting", "timer", "factoryDone", "finalDone"}

-----------------------------------------------------------------------------
(* Kaiten.                                                                 *)

\* Steps of the processes, and where they can go next; "none" is their end.
Graph == [
    PrintProcess |-> [
        initializing |-> {"printing"}, printing |-> {"suspended", "cleaning_up"},
        suspended |-> {"printing", "preheating_loading", "cleaning_up"},
        preheating_loading |-> {"suspended", "cleaning_up"},
        cleaning_up |-> {"none"}],
    MoveBuildPlateProcess |-> [
        running |-> {"cancelling", "cleaning_up"}, cancelling |-> {"cleaning_up"},
        cleaning_up |-> {"done"}, done |-> {"none"}],
    ZipLogsProcess |-> [running |-> {"done"}, done |-> {"none"}],
    ResetToFactoryProcess |-> [running |-> {"done"}, done |-> {"none"}]]

First(name) == IF name = "PrintProcess" THEN "initializing" ELSE "running"

\* The process becomes p, and the UI is told.
Becomes(p) ==
    /\ Len(sent) < MaxSent
    /\ proc' = p
    /\ \/ sent' = Append(sent, p)
       \/ "coalesce" \in faults /\ UNCHANGED sent

\* Kaiten refuses a process while it runs another one.
Asked(name) ==
    IF proc = NoProc
    THEN /\ started < MaxProcs
         /\ started' = started + 1
         /\ Becomes([NoProc EXCEPT !.id = started + 1, !.name = name, !.step = First(name)])
         /\ UNCHANGED wiped
    ELSE "hasty" \in faults /\ UNCHANGED kaitenVars

KaitenStep ==
    /\ proc # NoProc
    /\ \E s \in Graph[proc.name][proc.step] :
        /\ Becomes(IF s = "none" THEN NoProc
                   ELSE [proc EXCEPT !.step = s, !.cancelled = @ \/ s = "cancelling"])
        /\ wiped' = (wiped \/ (proc.name = "ResetToFactoryProcess" /\ s = "done"))
    /\ UNCHANGED <<faults, started, modelVars, pageVars>>

\* An error comes, or goes; another one comes after the last has gone.
KaitenError ==
    /\ "error" \in faults
    /\ proc # NoProc
    /\ \E e \in Errors, s \in Sides :
        /\ (e = "NoError") # (proc.error = "NoError")
        /\ Becomes([proc EXCEPT !.error = e, !.side = s])
    /\ UNCHANGED <<faults, started, wiped, modelVars, pageVars>>

\* A process that no page of the UI asked for.
RemoteProcess ==
    /\ proc = NoProc
    /\ \E name \in IF "remote" \in faults THEN DOMAIN Graph ELSE {"PrintProcess"} :
        Asked(name)
    /\ UNCHANGED <<faults, modelVars, pageVars>>

-----------------------------------------------------------------------------
(* ProcessModel.                                                           *)

StateTypeOf(step) ==
    CASE step = "initializing" -> "Loading"
      [] step = "suspended" -> "Paused"
      [] step = "printing" -> "Printing"
      [] step = "preheating_loading" -> "Preheating"
      [] step = "running" -> "Running"
      [] step = "done" -> "Done"
      [] step = "cancelling" -> "Cancelling"
      [] step = "cleaning_up" -> "CleaningUp"

TypeOf(name) ==
    CASE name = "PrintProcess" -> "Print"
      [] name = "MoveBuildPlateProcess" -> "MoveBuildPlateProcess"
      [] name = "ZipLogsProcess" -> "ZipLogsProcess"
      [] name = "ResetToFactoryProcess" -> "FactoryResetProcess"

Types == {"None"} \cup {TypeOf(n) : n \in DOMAIN Graph}
StateTypes == {StateTypeOf(s) : s \in UNION {DOMAIN Graph[n] : n \in DOMAIN Graph}}

\* Mutant: whatever process it is.
UnpackingStep_AnyType(seen, step, wasCancelled) ==
    IF step = "CleaningUp" /\ ~wasCancelled
    THEN IF lowering
         THEN freStep' = (IF freStep < 2 THEN freStep + 1 ELSE freStep) /\ UNCHANGED unpacking
         ELSE unpacking' = "remove_box_2" /\ UNCHANGED freStep
    ELSE UNCHANGED <<unpacking, freStep>>

\* SunflowerUnpackingForm.onCurrentStateChanged; seen is the type at that time.
UnpackingStep(seen, step, wasCancelled) ==
    IF seen = "MoveBuildPlateProcess" /\ step = "Cancelling"
    THEN unpacking' = "move_paused" /\ UNCHANGED freStep
    ELSE IF seen = "MoveBuildPlateProcess" /\ step = "CleaningUp" /\ ~wasCancelled
    THEN IF lowering
         THEN /\ freStep' = IF freStep < 2 THEN freStep + 1 ELSE freStep
              /\ UNCHANGED unpacking
         ELSE unpacking' = "remove_box_2" /\ UNCHANGED freStep
    ELSE UNCHANGED <<unpacking, freStep>>

\* Mutant: the end of a cancelled copy is ignored.
ZipStep_IgnoresCancelled(seen, step, error) ==
    zip' = IF seen = "ZipLogsProcess" /\ step = "Done" /\ zip = "copy_logs_state"
           THEN IF error = "NoError" THEN "successfully_copied_logs" ELSE "failed_copied_logs"
           ELSE zip

\* The handler that buttonCopyLogs connects: an outcome that is still shown becomes
\* that of the next copy to end.
ZipStep(seen, step, error) ==
    zip' = IF seen # "ZipLogsProcess" \/ step # "Done" THEN zip
           ELSE IF zip \in {"closed", "cancelling_copy_logs"} THEN "closed"
           ELSE IF error = "NoError" THEN "successfully_copied_logs"
           ELSE "failed_copied_logs"

\* Mutant: done as soon as it begins.
FactoryReset_AtStart(newType, newState) ==
    reset' = IF newType = "FactoryResetProcess" /\ type # newType
             THEN (reset \ {"isResetting"}) \cup {"factoryDone"} ELSE reset

\* onIsFactoryResetProcessChanged and onDoneFactoryResetChanged.  The step is set
\* before the type, so that the end of the next process is seen as that of the reset.
FactoryReset(newType, newState) ==
    LET begins == newType = "FactoryResetProcess" /\ type # newType
        done == "FactoryResetProcess" \in {type, newType} /\ newState = "Done"
                /\ ~(type = "FactoryResetProcess" /\ stateType = "Done")
    IN reset' = IF done THEN (reset \ {"isResetting"}) \cup {"factoryDone"}
                ELSE IF begins THEN reset \cup {"isResetting"} ELSE reset

\* Mutant: a null process leaves the load or unload on.
Reset_KeepsLoad ==
    /\ id' = 0 /\ type' = "None" /\ stateType' = "Loading" /\ cancelled' = FALSE
    /\ errorType' = "NoError" /\ sideFlags' = {}
    /\ UNCHANGED <<isLoadUnloadWhilePaused, loadOf, pageVars>>

\* A null process: reset(), which sets the type before the step.
Reset ==
    /\ id' = 0 /\ type' = "None" /\ stateType' = "Loading" /\ cancelled' = FALSE
    /\ errorType' = "NoError" /\ sideFlags' = {}
    /\ isLoadUnloadWhilePaused' = FALSE /\ loadOf' = 0
    /\ UNCHANGED pageVars

LoadUnload(p) ==
    IF p.step = "preheating_loading"
    THEN isLoadUnloadWhilePaused' = TRUE /\ loadOf' = p.id
    ELSE IF p.step = "suspended"
    THEN isLoadUnloadWhilePaused' = FALSE /\ loadOf' = 0
    ELSE UNCHANGED <<isLoadUnloadWhilePaused, loadOf>>

\* Mutant: the flags outlive the error.
UpdateError_NeverClears(p) ==
    /\ errorType' = p.error
    /\ sideFlags' = IF p.error \in SideErrors THEN sideFlags \cup {<<p.error, p.side>>}
                    ELSE sideFlags

\* The flags of an error are set here and cleared by NoError.
UpdateError(p) ==
    /\ errorType' = p.error
    /\ sideFlags' = IF p.error = "NoError" THEN {}
                    ELSE IF p.error \in SideErrors THEN sideFlags \cup {<<p.error, p.side>>}
                    ELSE sideFlags

ProcUpdate ==
    /\ sent # <<>>
    /\ sent' = Tail(sent)
    /\ LET p == Head(sent) IN
        IF p = NoProc THEN Reset
        ELSE LET step == StateTypeOf(p.step) IN
            /\ LoadUnload(p)
            /\ UpdateError(p)
            /\ cancelled' = p.cancelled
            /\ stateType' = step
            /\ IF step # stateType
               THEN UnpackingStep(type, step, p.cancelled) /\ ZipStep(type, step, p.error)
               ELSE UNCHANGED <<unpacking, freStep, zip>>
            /\ type' = TypeOf(p.name) /\ id' = p.id
            /\ FactoryReset(TypeOf(p.name), step)
            /\ UNCHANGED <<lowering, rebooting>>
    /\ UNCHANGED <<faults, proc, started, wiped>>

-----------------------------------------------------------------------------
(* The pages.                                                              *)

DoMove ==
    /\ unpacking' = "moving"
    /\ Asked("MoveBuildPlateProcess")

\* continueButton and the popup of SunflowerUnpacking, which first asks to close an
\* open door.
TapUnpacking ==
    /\ freStep = 0 /\ "open" \notin reset
    /\ \/ /\ unpacking \in {"remove_box_1", "remove_box_2"}
          /\ unpacking' = "confirm"
          /\ lowering' = (unpacking = "remove_box_2")
          /\ UNCHANGED kaitenVars
       \/ /\ unpacking = "confirm"
          /\ unpacking' \in {IF lowering THEN "remove_box_2" ELSE "remove_box_1", "close_door"}
          /\ UNCHANGED <<kaitenVars, lowering>>
       \/ /\ unpacking \in {"confirm", "close_door", "move_paused"}
          /\ DoMove
          /\ UNCHANGED lowering
    /\ UNCHANGED <<faults, modelVars, freStep, zip, reset, rebooting>>

\* buttonCopyLogs, with a drive plugged in.
CopyLogs ==
    /\ freStep = 2 /\ zip = "closed" /\ "open" \notin reset
    /\ zip' = "copy_logs_state"
    /\ Asked("ZipLogsProcess")
    /\ UNCHANGED <<faults, modelVars, unpacking, lowering, freStep, reset, rebooting>>

\* CANCEL, which cancels whatever process there is; later CLOSE.
TapZipPopup ==
    /\ \/ /\ zip = "copy_logs_state"
          /\ zip' = "cancelling_copy_logs"
          /\ UNCHANGED kaitenVars
       \/ /\ zip \in {"successfully_copied_logs", "failed_copied_logs"}
          /\ zip' = "closed"
          /\ UNCHANGED kaitenVars
    /\ UNCHANGED <<faults, modelVars, unpacking, lowering, freStep, reset, rebooting>>

OpenResetPopup ==
    /\ freStep = 2 /\ "open" \notin reset /\ zip = "closed"
    /\ reset' = (reset \ {"factoryDone"}) \cup {"open"}
    /\ UNCHANGED <<faults, kaitenVars, modelVars, unpacking, lowering, freStep, zip,
                   rebooting>>

\* CONFIRM and BACK, while nothing is being reset and nothing was.
TapResetPopup ==
    /\ "open" \in reset /\ reset \cap {"isResetting", "factoryDone"} = {} /\ ~rebooting
    /\ \/ /\ reset' = reset \cup {"isResetting", "timer"}
          /\ Asked("ResetToFactoryProcess")
       \/ /\ reset' = reset \cap {"timer"}
          /\ UNCHANGED kaitenVars
    /\ UNCHANGED <<faults, modelVars, unpacking, lowering, freStep, zip, rebooting>>

DoFinalResetProcedures ==
    /\ "timer" \in reset
    /\ reset' = (reset \ {"timer"}) \cup {"finalDone"}
    /\ freStep' = 0
    /\ UNCHANGED <<faults, kaitenVars, modelVars, unpacking, lowering, zip, rebooting>>

\* RESTART.
TapRestart ==
    /\ {"open", "factoryDone", "finalDone"} \subseteq reset
    /\ "isResetting" \notin reset /\ ~rebooting
    /\ rebooting' = TRUE
    /\ UNCHANGED <<faults, kaitenVars, modelVars, unpacking, lowering, freStep, zip, reset>>

-----------------------------------------------------------------------------

Init ==
    /\ faults \in Scenarios
    /\ proc = NoProc /\ started = 0 /\ sent = <<>> /\ wiped = FALSE
    /\ id = 0 /\ type = "None" /\ stateType = "Loading" /\ cancelled = FALSE
    /\ errorType = "NoError" /\ sideFlags = {}
    /\ isLoadUnloadWhilePaused = FALSE /\ loadOf = 0
    /\ unpacking = "remove_box_1" /\ lowering = FALSE /\ freStep \in {0, 2}
    /\ zip = "closed" /\ reset = {} /\ rebooting = FALSE

Next ==
    \/ KaitenStep \/ KaitenError \/ RemoteProcess
    \/ ProcUpdate
    \/ TapUnpacking \/ CopyLogs \/ TapZipPopup
    \/ OpenResetPopup \/ TapResetPopup \/ DoFinalResetProcedures \/ TapRestart

\* Processes end, notifications are handled and timers fire.  Kaiten does not
\* wait for the UI: only MaxSent holds it up, hence SF.
Fairness ==
    /\ SF_vars(KaitenStep)
    /\ WF_vars(ProcUpdate)
    /\ WF_vars(DoFinalResetProcedures)

Spec == Init /\ [][Next]_vars /\ Fairness

-----------------------------------------------------------------------------
(* Properties.                                                             *)

TypeOK ==
    /\ faults \in Scenarios
    /\ proc.name \in {"none"} \cup DOMAIN Graph
    /\ started \in 0 .. MaxProcs /\ Len(sent) <= MaxSent /\ wiped \in BOOLEAN
    /\ id \in 0 .. MaxProcs /\ type \in Types /\ stateType \in StateTypes
    /\ cancelled \in BOOLEAN /\ errorType \in Errors
    /\ sideFlags \subseteq SideErrors \X Sides
    /\ isLoadUnloadWhilePaused \in BOOLEAN /\ loadOf \in 0 .. MaxProcs
    /\ unpacking \in {"remove_box_1", "confirm", "close_door", "moving", "move_paused",
                      "remove_box_2"}
    /\ lowering \in BOOLEAN /\ freStep \in 0 .. 2
    /\ zip \in {"closed", "copy_logs_state", "cancelling_copy_logs",
                "successfully_copied_logs", "failed_copied_logs"}
    /\ reset \subseteq ResetFlags /\ rebooting \in BOOLEAN

\* "We assume that load/unload always start with a preheating step and always
\* end back in the paused step (or by ending the entire process)"
\* (kaiten_process_model.cpp:31): no print is taken to be loading because the
\* one before ended while loading, if every change is notified.
LoadsInItsPrint ==
    "coalesce" \notin faults /\ isLoadUnloadWhilePaused => loadOf = id

\* The flags of the extruders and bays tell of the error there is, and of no
\* other, if every change is notified.
FlagsAreOfError ==
    "coalesce" \notin faults /\ sideFlags # {} =>
        errorType \in SideErrors /\ \E s \in Sides : sideFlags = {<<errorType, s>>}

\* The end of a movement advances the setup from the unpacking step only, as
\* long as nobody else moves the build plate and every change is notified: else
\* the first step of a process may be seen with the type of the one before.
AdvancesFromUnpacking ==
    [][freStep' > freStep /\ faults \cap {"remote", "coalesce"} = {} => freStep = 0]_vars

\* The printer restarts from the popup only after Kaiten has been reset.
RestartsWhenReset == rebooting => wiped

\* A page that waits for its process sees it end, if every change is notified,
\* no process is refused and the logs are not cancelled.
Waiting == unpacking = "moving" /\ freStep = 0 /\ "open" \notin reset
WaitsEnd ==
    /\ faults \subseteq {"remote", "error"} /\ Waiting ~> ~Waiting
    /\ faults \subseteq {"remote", "error"} /\ zip = "cancelling_copy_logs" ~>
            zip # "cancelling_copy_logs"
    /\ faults \subseteq {"remote", "error"} /\ "isResetting" \in reset ~>
            "isResetting" \notin reset

=============================================================================
