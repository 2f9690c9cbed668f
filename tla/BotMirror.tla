----------------------------- MODULE BotMirror -----------------------------
(***************************************************************************)
(* KaitenBotModel as a mirror of Kaiten's data.  connected() asks for      *)
(* everything at once and the UI is Connected before the first reply;      *)
(* replies and notifications then arrive in the order Kaiten sent them.    *)
(* Pages react to the mirror as it changes: they ask for the data of a     *)
(* tool, post a notice that an extruder is missing, answer a question of   *)
(* a load, and send the calls of the user, which carry no process: Kaiten  *)
(* applies them to the process it runs when it reads them.                 *)
(***************************************************************************)
EXTENDS Naturals, FiniteSets, Sequences

CONSTANTS
    InitialTools,   \* the tools that Kaiten may have when the UI starts
    Scenarios       \* what may happen besides the traffic: records of
                    \* faults: "restart", Kaiten restarts; "swap", a tool or a
                    \*   process is replaced between two notifications; "remote",
                    \*   others start processes, also before the UI starts;
                    \*   "hasty", a page starts a process twice before one is
                    \*   shown; "early", a process asks about its material that
                    \*   is no load, or is to be shown yet; "back", a user
                    \*   leaves such a question without an answer
                    \* acts: what Kaiten and the user do on their own
                    \* events: a bound on how often
                    \* parts: parts of the mirror that are one value each
                    \* loads: which processes are of the type Load

Slots == {1, 2}
Present(tool) == [s \in Slots |-> tool[s] # 0]
Both(present) == present[1] /\ present[2]

\* What each value of Parts is asked by, and whether Kaiten notifies it.
AskOf == [net |-> "network_state", serial |-> "handshake", spool |-> "get_spool_info",
          again |-> "get_print_again_enabled", cloud |-> "get_cloud_services_info",
          firmware |-> "update_available_firmware", time |-> "check_notify_system_time"]
NotifiedParts == {"net", "spool", "firmware", "camera", "time"}
SetParts == {"again", "cloud"}

ASSUME MirrorAssumption ==
    /\ InitialTools \subseteq [Slots -> 0..2]
    /\ Scenarios \subseteq [events : Nat, loads : SUBSET (Nat \ {0}),
                             faults : SUBSET {"restart", "swap", "remote", "hasty", "early",
                                              "back"},
                             acts : SUBSET {"tools", "info", "calls", "material", "parts"},
                             parts : SUBSET (DOMAIN AskOf \cup {"camera"})]

VARIABLES
    scenario,
    events,         \* events left
    link,           \* the socket to Kaiten is connected
    out, in,        \* what is under way to Kaiten, and from it
    kaiten,         \* Kaiten's tools, process, question and parts
    untold,         \* a system notification is due
    \* KaitenBotModel:
    state, shown,   \* shown: what the system information said last, and parts
    configs,        \* the tools that extruderXSupportedTypes ... are of
    materials,      \* the tools that extruderXSupportedMaterials are of
    stats, statsReady,
    spoolValidityCheckPending,
    \* the pages:
    checking,       \* checkSpoolValidityTimer runs
    asking,         \* a popup asks for the material, or warns of it
    freComplete,    \* isFreComplete
    notice,         \* the slots that the notice of missing extruders names
    infoPage,       \* the page of the extruders is open
    stray           \* a call reached another process than the one shown

kaitenVars == <<kaiten, untold>>
modelVars == <<state, shown, configs, materials, stats, statsReady,
               spoolValidityCheckPending, checking, asking>>
pageVars == <<freComplete, notice, infoPage, stray>>
vars == <<scenario, events, link, out, in, kaitenVars, modelVars, pageVars>>

faults == scenario.faults
Parts == scenario.parts
Load(process) == process \in scenario.loads
Event(act) == act \in scenario.acts /\ events > 0 /\ events' = events - 1

Call(name, arg) == [call |-> name, part |-> "none", arg |-> arg]
Get(part) == <<[call |-> "get", part |-> part, arg |-> 0]>>
System == [part |-> "system", tool |-> kaiten.tool, process |-> kaiten.process]
Told(part) == [part |-> part, value |-> kaiten.data[part]]

-----------------------------------------------------------------------------
(* The calls of KaitenBotModel that wait for no reply: "start" asks for a  *)
(* process, which pages do while none is shown, "process" is for the       *)
(* process shown, and "other" for none.  Loading starts a process or, in a *)
(* paused print, is part of it.                                            *)

PrintCalls == [cancel |-> {"process"}, pauseResumePrint |-> {"process"},
    print |-> {"start"}, printAgain |-> {"start"}, done |-> {"process"}]

FilamentCalls == [loadFilament |-> {"start", "process"}, loadFilamentStop |-> {"process"},
    loadFilamentCancel |-> {"process"}, unloadFilament |-> {"start", "process"}]

LevelCalls == [assistedLevel |-> {"start"}, acknowledge_level |-> {"process"},
    continue_leveling |-> {"process"}]

FirmwareCalls == [firmwareUpdateCheck |-> {"other"}, installFirmware |-> {"start"},
    installFirmwareFromPath |-> {"start"}]

CalibrationCalls == [calibrateToolheads |-> {"start"}, doNozzleCleaning |-> {"process"},
    acknowledgeNozzleCleaned |-> {"process"}, buildPlateState |-> {"process"}]

MachineCalls == [query_status |-> {"other"}, resetToFactory |-> {"start"},
    buildPlateCleared |-> {"process"}]

NetworkCalls == [toggleWifi |-> {"other"}, scanWifi |-> {"other"}, connectWifi |-> {"other"},
    disconnectWifi |-> {"other"}, forgetWifi |-> {"other"}, addMakerbotAccount |-> {"other"}]

SystemCalls == [zipLogs |-> {"start"}, zipTimelapseImages |-> {"start"},
    changeMachineName |-> {"other"}, getSystemTime |-> {"other"}, setSystemTime |-> {"other"},
    setTimeZone |-> {"other"}, deauthorizeAllAccounts |-> {"other"}]

MotionCalls == [preheatChamber |-> {"other"}, moveAxis |-> {"other"},
    moveAxisToEndstop |-> {"other"}]

DryCalls == [drySpool |-> {"start"}, startDrying |-> {"process"}]

OffsetCalls == [get_calibration_offsets |-> {"other"}, getLastAutoCalOffsets |-> {"other"},
    setManualCalibrationOffset |-> {"other"}, setBuildPlateZeroZOffset |-> {"other"}]

CareCalls == [cleanNozzles |-> {"start"}, submitPrintFeedback |-> {"process"},
    ignoreError |-> {"other"}]

AnnealCalls == [annealPrint |-> {"start"}, startAnnealing |-> {"process"}]

FilterCalls == [getAccessoriesStatus |-> {"other"}, getFilterHours |-> {"other"},
    resetFilterHours |-> {"other"}]

ServiceCalls == [writeExtruderEeprom |-> {"other"}, submitNPSSurvey |-> {"other"},
    moveBuildPlate |-> {"start"}]

MeshCalls == [enableMesh |-> {"other"}, calibrateMesh |-> {"start"}]

CallTables == {PrintCalls, FilamentCalls, LevelCalls, FirmwareCalls, CalibrationCalls,
    MachineCalls, NetworkCalls, SystemCalls, MotionCalls, DryCalls, OffsetCalls, CareCalls,
    AnnealCalls, FilterCalls, ServiceCalls, MeshCalls}

-----------------------------------------------------------------------------
(* What pages do as the mirror changes.                                    *)

MaybeNotifyExtruderNotDetected_Keeps(n, present) ==
    LET missing == {s \in Slots : ~present[s]}
    IN IF Cardinality(missing) < 2 /\ Cardinality(n) = 1 THEN n ELSE missing

\* Of two notices with the same id only the first is kept, whatever they say.
MaybeNotifyExtruderNotDetected(n, present) ==
    LET missing == {s \in Slots : ~present[s]}
    IN IF Cardinality(missing) = 1 /\ Cardinality(n) = 1 THEN n ELSE missing

\* onExtruderAPresentChanged, onExtruderBPresentChanged
Notices(old, new) ==
    LET half == [new EXCEPT ![2] = old[2]]
        first == IF new[1] = old[1] THEN notice ELSE MaybeNotifyExtruderNotDetected(notice, half)
    IN IF ~freComplete THEN notice
       ELSE IF new[2] = old[2] THEN first ELSE MaybeNotifyExtruderNotDetected(first, new)

AskConfigs_Never(old, new) == <<>>

\* onExtrudersPresentChanged: the mirror changes slot 1 first.
AskConfigs(old, new) ==
    LET half == [new EXCEPT ![2] = old[2]]
        ask(a, b) == IF Both(a) = Both(b) THEN <<>> ELSE <<Call("get_extruders_configs", 0)>>
    IN ask(old, half) \o ask(half, new)

AskStats_Never(slots) == <<>>

\* onExtPresentAndVisibleChanged: of the slots in which a tool has appeared.
AskStats(slots) ==
    LET ask(s) == IF s \in slots THEN <<Call("get_tool_stats", s)>> ELSE <<>>
    IN ask(1) \o ask(2)

-----------------------------------------------------------------------------
(* KaitenBotModel: what arrives from Kaiten.                               *)

SysInfoUpdate_KeepsPending(m) ==
    LET old == Present(shown.tool)
        new == Present(m.tool)
        appeared == {s \in Slots : infoPage /\ ~old[s] /\ new[s]}
    IN /\ shown' = [shown EXCEPT !.tool = m.tool, !.process = m.process]
       /\ statsReady' = [s \in Slots |-> statsReady[s] /\ new[s]]
       /\ notice' = Notices(old, new)
       /\ out' = out \o AskStats(appeared) \o AskConfigs(old, new)
       /\ UNCHANGED <<spoolValidityCheckPending, configs, materials, stats>>

SysInfoUpdate_ResetsPending(m) ==
    LET old == Present(shown.tool)
        new == Present(m.tool)
        appeared == {s \in Slots : infoPage /\ ~old[s] /\ new[s]}
    IN /\ shown' = [shown EXCEPT !.tool = m.tool, !.process = m.process]
       /\ statsReady' = [s \in Slots |-> statsReady[s] /\ new[s]]
       /\ notice' = Notices(old, new)
       /\ out' = out \o AskStats(appeared) \o AskConfigs(old, new)
       /\ spoolValidityCheckPending' = FALSE
       /\ UNCHANGED <<configs, materials, stats>>

\* system_notification, state_notification, and the reply of
\* get_system_information; the process last.
SysInfoUpdate(m) ==
    LET old == Present(shown.tool)
        new == Present(m.tool)
        appeared == {s \in Slots : infoPage /\ ~old[s] /\ new[s]}
    IN /\ shown' = [shown EXCEPT !.tool = m.tool, !.process = m.process]
       /\ statsReady' = [s \in Slots |-> statsReady[s] /\ new[s]]
       /\ notice' = Notices(old, new)
       /\ out' = out \o AskStats(appeared) \o AskConfigs(old, new)
       /\ spoolValidityCheckPending' = (spoolValidityCheckPending /\ m.process # 0)
       /\ UNCHANGED <<configs, materials, stats>>

\* A list that is no array leaves the old one in place.  Kaiten lists what a
\* tool it has can do; of an empty slot it may list something or nothing.
Listed(old, new) ==
    {l \in [Slots -> 0..2] : \A s \in Slots : l[s] = new[s] \/ (new[s] = 0 /\ l[s] = old[s])}

\* The reply of get_extruders_configs.
ExtrudersConfigsUpdate(m) ==
    /\ configs' \in Listed(configs, m.tool)
    /\ materials' \in Listed(materials, m.tool)
    /\ UNCHANGED <<out, shown, stats, statsReady, notice, spoolValidityCheckPending>>

\* extruder_change, which brings the materials and not the types.  (calibrated
\* and can_pair_tools, which nothing here reads, are left out.)
ExtChangeUpdate(m) ==
    /\ materials' \in Listed(materials, [materials EXCEPT ![m.slot] = m.fitted])
    /\ UNCHANGED <<out, shown, configs, stats, statsReady, notice, spoolValidityCheckPending>>

\* The reply of get_tool_stats; an error resets the values, ready or not.
ToolStatsUpdate(m) ==
    /\ stats' = [stats EXCEPT ![m.slot] = m.fitted]
    /\ statsReady' = [statsReady EXCEPT ![m.slot] = TRUE]
    /\ UNCHANGED <<out, shown, configs, materials, notice, spoolValidityCheckPending>>

\* material_warning of the type assisted_loading
UnknownMatWarningUpdate ==
    /\ spoolValidityCheckPending' = TRUE
    /\ UNCHANGED <<out, shown, configs, materials, stats, statsReady, notice>>

\* The reply of set_print_again_enabled and set_analytics_enabled: the
\* value itself is asked for.
SetUpdate(m) ==
    /\ out' = out \o Get(m.of)
    /\ UNCHANGED <<shown, configs, materials, stats, statsReady, notice,
                   spoolValidityCheckPending>>

\* Every other reply and notification sets the properties it is about.
PartUpdate(m) ==
    /\ shown' = [shown EXCEPT !.data[m.part] = m.value]
    /\ UNCHANGED <<out, configs, materials, stats, statsReady, notice,
                   spoolValidityCheckPending>>

\* onIsSpoolValidityCheckPendingChanged, of which a reset closes the warning and
\* not the popup that asks.
WarningCloses ==
    \/ UNCHANGED asking
    \/ spoolValidityCheckPending /\ ~spoolValidityCheckPending' /\ asking' = FALSE

StartsCheck == ~spoolValidityCheckPending /\ spoolValidityCheckPending'

Receive ==
    /\ in # <<>>
    /\ LET m == Head(in)
       IN CASE m.part = "system" -> SysInfoUpdate(m)
            [] m.part = "configs" -> ExtrudersConfigsUpdate(m)
            [] m.part = "extruder" -> ExtChangeUpdate(m)
            [] m.part = "stats" -> ToolStatsUpdate(m)
            [] m.part = "warning" -> UnknownMatWarningUpdate
            [] m.part = "set" -> SetUpdate(m)
            [] OTHER -> PartUpdate(m)
    /\ in' = Tail(in)
    /\ WarningCloses /\ checking' = (checking \/ StartsCheck)
    /\ UNCHANGED <<scenario, events, link, kaitenVars, state, freComplete, infoPage, stray>>

-----------------------------------------------------------------------------
(* The connection.                                                         *)

Gets(part) == IF part \in Parts THEN Get(part) ELSE <<>>

\* register_lcd, which has no reply, is left out.
Connects ==
    <<Call("get_system_information", 0)>>
    \o Gets("net") \o Gets("serial") \o Gets("spool") \o Gets("time")
    \o <<Call("get_extruders_configs", 0)>> \o Gets("again")

\* connected(), then onConnectionStateChanged and the pages that appear.
Connected ==
    /\ ~link
    /\ link' = TRUE
    /\ state' = "Connected"
    /\ notice' = MaybeNotifyExtruderNotDetected(notice, Present(shown.tool))
    /\ out' = Connects
         \o (IF "firmware" \in Parts /\ "net" \in Parts /\ shown.data["net"] # 0
             THEN Get("firmware") ELSE <<>>)
         \o AskStats({s \in Slots : infoPage /\ shown.tool[s] # 0})
    /\ UNCHANGED <<scenario, events, in, kaitenVars, shown, configs, materials, stats, statsReady,
                   spoolValidityCheckPending, checking, asking, freComplete, infoPage, stray>>

\* Kaiten restarts: what is under way is lost, and a tool may have changed.
Disconnected ==
    /\ "restart" \in faults
    /\ link
    /\ events > 0 /\ events' = events - 1
    /\ link' = FALSE
    /\ state' = "Disconnected"
    /\ out' = <<>> /\ in' = <<>>
    /\ \E s \in Slots, t \in 0..2 :
        kaiten' = [kaiten EXCEPT !.tool[s] = t, !.process = 0, !.waits = FALSE]
    /\ untold' = FALSE
    /\ UNCHANGED <<scenario, shown, configs, materials, stats, statsReady,
                   spoolValidityCheckPending, checking, asking, pageVars>>

-----------------------------------------------------------------------------
(* The user and the timers.                                                *)

\* The switch of print again or of analytics sets what is not shown.
Toggle(part) ==
    /\ state = "Connected"
    /\ Event("parts")
    /\ out' = Append(out, [call |-> "set", part |-> part, arg |-> 1 - shown.data[part]])
    /\ UNCHANGED <<scenario, link, in, kaitenVars, modelVars, pageVars>>

\* The page of that switch asks for its value.
OpenSwitch(part) ==
    /\ state = "Connected"
    /\ Event("parts")
    /\ out' = out \o Get(part)
    /\ UNCHANGED <<scenario, link, in, kaitenVars, modelVars, pageVars>>

\* buttonExtruderInfo asks for both tools, and the page for those present.
OpenInfoPage ==
    /\ state = "Connected" /\ ~infoPage /\ "info" \in scenario.acts
    /\ infoPage' = TRUE
    /\ out' = out \o AskStats({s \in Slots : shown.tool[s] # 0}) \o AskStats(Slots)
    /\ UNCHANGED <<scenario, events, link, in, kaitenVars, modelVars, freComplete, notice, stray>>

CloseInfoPage ==
    /\ infoPage
    /\ Event("info")
    /\ infoPage' = FALSE
    /\ UNCHANGED <<scenario, link, out, in, kaitenVars, modelVars, freComplete, notice, stray>>

FreCompletes ==
    /\ state = "Connected" /\ ~freComplete
    /\ freComplete' = TRUE
    /\ notice' = MaybeNotifyExtruderNotDetected(notice, Present(shown.tool))
    /\ UNCHANGED <<scenario, events, link, out, in, kaitenVars, modelVars, infoPage, stray>>

\* A process that a page has asked for is still to be shown.
Starting ==
    \/ untold
    \/ \E i \in DOMAIN out : out[i].call = "start"
    \/ \E i \in DOMAIN in : in[i].part = "system"

Tap_Unguarded(kinds) ==
    /\ state = "Connected" /\ ~asking
    /\ Event("calls")
    /\ \E kind \in kinds :
        /\ kind = "process" => shown.process # 0
        /\ out' = Append(out, Call(kind, shown.process))
    /\ UNCHANGED <<scenario, link, in, kaitenVars, modelVars, pageVars>>

\* isProcessRunning() guards what starts a process; a call is only logged
\* when the socket is not connected.  The popup of a material is modal.
Tap(kinds) ==
    /\ state = "Connected" /\ ~asking
    /\ Event("calls")
    /\ \E kind \in kinds :
        /\ kind = "start" => shown.process = 0 /\ ("hasty" \in faults \/ ~Starting)
        /\ kind = "process" => shown.process # 0
        /\ out' = Append(out, Call(kind, shown.process))
    /\ UNCHANGED <<scenario, link, in, kaitenVars, modelVars, pageVars>>

Acknowledge ==
    /\ spoolValidityCheckPending' = FALSE
    /\ out' = IF link THEN Append(out, Call("acknowledge_material", 0)) ELSE out
    /\ UNCHANGED <<scenario, link, in, kaitenVars, state, shown, configs, materials, stats,
                   statsReady, pageVars>>

\* checkSpoolValidityTimer, once: checkSpoolValidity() looks at the process shown
\* only, acknowledges a material it knows, and opens a popup otherwise.
CheckSpoolValidity ==
    /\ checking /\ checking' = FALSE
    /\ UNCHANGED events
    /\ \/ Load(shown.process) /\ Acknowledge /\ WarningCloses
       \/ /\ asking' = (asking \/ Load(shown.process))
          /\ UNCHANGED <<scenario, link, out, in, kaitenVars, state, shown, configs, materials,
                         stats, statsReady, spoolValidityCheckPending, pageVars>>

\* CONTINUE and a material, or another spool: load() acknowledges as long as
\* the load is shown.  (The new load it starts otherwise is a Tap.)
AnswerMaterial ==
    /\ asking /\ Load(shown.process)
    /\ Acknowledge
    /\ asking' = FALSE
    /\ UNCHANGED <<events, checking>>

\* BACK, a spool taken out, or a popup whose load is over.
ClosePopup ==
    /\ asking /\ asking' = FALSE
    /\ "back" \in faults \/ ~Load(shown.process)
    /\ UNCHANGED <<scenario, events, link, out, in, kaitenVars, state, shown, configs, materials,
                   stats, statsReady, spoolValidityCheckPending, checking, pageVars>>

\* OK on the warning: cancel().
CancelLoad ==
    /\ "back" \in faults
    /\ asking /\ asking' = FALSE
    /\ out' = IF link THEN Append(out, Call("process", shown.process)) ELSE out
    /\ UNCHANGED <<scenario, events, link, in, kaitenVars, state, shown, configs, materials,
                   stats, statsReady, spoolValidityCheckPending, checking, pageVars>>

\* onIsSpoolDetailsReadyChanged: a spool of a valid material is placed.
AcknowledgeSpool ==
    /\ state = "Connected" /\ Load(shown.process)
    /\ Event("material")
    /\ Acknowledge
    /\ WarningCloses
    /\ UNCHANGED checking

-----------------------------------------------------------------------------
(* Kaiten.                                                                 *)

Say(m) == in' = IF link THEN Append(in, m) ELSE in

KaitenReads ==
    /\ out # <<>>
    /\ out' = Tail(out)
    /\ LET c == Head(out)
       IN CASE c.call = "get_system_information" ->
                 Say(System) /\ UNCHANGED <<kaitenVars, stray>>
            [] c.call = "get_extruders_configs" ->
                 /\ Say([part |-> "configs", tool |-> kaiten.tool])
                 /\ UNCHANGED <<kaitenVars, stray>>
            [] c.call = "get_tool_stats" ->
                 /\ Say([part |-> "stats", slot |-> c.arg, fitted |-> kaiten.tool[c.arg]])
                 /\ UNCHANGED <<kaitenVars, stray>>
            [] c.call = "get" ->
                 Say(Told(c.part)) /\ UNCHANGED <<kaitenVars, stray>>
            [] c.call = "set" ->
                 /\ kaiten' = [kaiten EXCEPT !.data[c.part] = c.arg]
                 /\ Say([part |-> "set", of |-> c.part])
                 /\ UNCHANGED <<untold, stray>>
            [] c.call = "acknowledge_material" ->
                 /\ kaiten' = [kaiten EXCEPT !.waits = FALSE]
                 /\ UNCHANGED <<in, untold, stray>>
            [] c.call = "start" /\ kaiten.process = 0 ->
                 /\ "swap" \in faults \/ ~untold
                 /\ kaiten' = [kaiten EXCEPT !.process = kaiten.last + 1, !.last = @ + 1]
                 /\ untold' = TRUE
                 /\ UNCHANGED <<in, stray>>
            [] c.call = "process" ->
                 /\ stray' = (stray \/ kaiten.process \notin {0, c.arg})
                 /\ \/ UNCHANGED kaitenVars
                    \/ /\ kaiten' = [kaiten EXCEPT !.process = 0, !.waits = FALSE]
                       /\ untold' = TRUE
                 /\ UNCHANGED in
            [] OTHER -> UNCHANGED <<in, kaitenVars, stray>>
    /\ UNCHANGED <<scenario, events, link, modelVars, freComplete, notice, infoPage>>

KaitenNotifies ==
    /\ untold /\ link
    /\ untold' = FALSE
    /\ Say(System)
    /\ UNCHANGED <<scenario, events, link, out, kaiten, modelVars, pageVars>>

\* A tool is taken out or put in.
ChangeTool ==
    /\ Event("tools")
    /\ \E s \in Slots, t \in 0..2 :
        /\ (t = 0) # (kaiten.tool[s] = 0)
        /\ t = 0 \/ "swap" \in faults \/ ~untold
        /\ kaiten' = [kaiten EXCEPT !.tool[s] = t]
        /\ Say([part |-> "extruder", slot |-> s, fitted |-> t])
    /\ untold' = link
    /\ UNCHANGED <<scenario, link, out, modelVars, pageVars>>

ChangePart(part) ==
    /\ Event("parts")
    /\ kaiten' = [kaiten EXCEPT !.data[part] = @ + 1]
    /\ Say([part |-> part, value |-> kaiten.data[part] + 1])
    /\ UNCHANGED <<scenario, link, out, untold, modelVars, pageVars>>

RemoteStart ==
    /\ "remote" \in faults
    /\ kaiten.process = 0 /\ ("swap" \in faults \/ ~untold)
    /\ Event("calls")
    /\ kaiten' = [kaiten EXCEPT !.process = kaiten.last + 1, !.last = @ + 1]
    /\ untold' = link
    /\ UNCHANGED <<scenario, link, out, in, modelVars, pageVars>>

EndProcess ==
    /\ kaiten.process # 0
    /\ kaiten' = [kaiten EXCEPT !.process = 0, !.waits = FALSE]
    /\ untold' = link
    /\ UNCHANGED <<scenario, events, link, out, in, modelVars, pageVars>>

\* The process is shown, or will be before anything that Kaiten says now.
Shows(process) ==
    \/ shown.process = process
    \/ \E i \in DOMAIN in : in[i].part = "system" /\ in[i].process = process

\* A load asks whether the material is right, and waits for the answer.
AskMaterial ==
    /\ kaiten.process # 0 /\ ~kaiten.waits /\ link
    /\ "early" \in faults \/ (Load(kaiten.process) /\ Shows(kaiten.process))
    /\ Event("material")
    /\ kaiten' = [kaiten EXCEPT !.waits = TRUE]
    /\ Say([part |-> "warning"])
    /\ UNCHANGED <<scenario, link, out, untold, modelVars, pageVars>>

-----------------------------------------------------------------------------
Init ==
    /\ scenario \in Scenarios /\ events = scenario.events
    /\ link = FALSE /\ out = <<>> /\ in = <<>>
    /\ \E tool \in InitialTools, p \in IF "remote" \in faults THEN {0, 1} ELSE {0} :
        kaiten = [tool |-> tool, process |-> p, last |-> p, waits |-> FALSE,
                  data |-> [part \in Parts |-> 1]]
    /\ untold = FALSE
    /\ state = "Connecting"
    /\ shown = [tool |-> [s \in Slots |-> 0], process |-> 0, data |-> [p \in Parts |-> 0]]
    /\ configs = [s \in Slots |-> 0] /\ materials = configs /\ stats = configs
    /\ statsReady = [s \in Slots |-> FALSE]
    /\ spoolValidityCheckPending = FALSE /\ checking = FALSE /\ asking = FALSE
    /\ freComplete \in BOOLEAN
    /\ notice = {} /\ infoPage = FALSE /\ stray = FALSE

Next ==
    \/ Receive \/ Connected \/ Disconnected
    \/ \E p \in Parts \cap SetParts : Toggle(p) \/ OpenSwitch(p)
    \/ OpenInfoPage \/ CloseInfoPage \/ FreCompletes
    \/ \E table \in CallTables : \E name \in DOMAIN table : Tap(table[name])
    \/ CheckSpoolValidity \/ AnswerMaterial \/ ClosePopup \/ CancelLoad \/ AcknowledgeSpool
    \/ KaitenReads \/ KaitenNotifies \/ ChangeTool
    \/ \E p \in Parts \cap NotifiedParts : ChangePart(p)
    \/ RemoteStart \/ EndProcess \/ AskMaterial

\* Kaiten and the event loop go on, and a user answers what a popup asks.
Spec == /\ Init /\ [][Next]_vars
        /\ WF_vars(Receive) /\ WF_vars(KaitenReads) /\ WF_vars(KaitenNotifies)
        /\ WF_vars(CheckSpoolValidity) /\ WF_vars(AnswerMaterial)

-----------------------------------------------------------------------------
(* Properties.                                                             *)

\* Every variable has its type.
TypeOK ==
    /\ scenario \in Scenarios /\ events \in 0..scenario.events
    /\ link \in BOOLEAN /\ untold \in BOOLEAN
    /\ state \in {"Connecting", "Connected", "Disconnected"}
    /\ {configs, materials, stats, shown.tool, kaiten.tool} \subseteq [Slots -> 0..2]
    /\ statsReady \in [Slots -> BOOLEAN] /\ spoolValidityCheckPending \in BOOLEAN
    /\ checking \in BOOLEAN /\ asking \in BOOLEAN
    /\ freComplete \in BOOLEAN /\ infoPage \in BOOLEAN /\ stray \in BOOLEAN
    /\ notice \subseteq Slots

\* Nothing is under way.
Quiet == link /\ out = <<>> /\ in = <<>> /\ ~untold

\* When nothing is under way, what is asked for at the connection is that of
\* Kaiten, however replies, notifications and restarts fell: nothing old
\* overtakes anything new (connected(), extrudersPresent of MoreporkUI.qml).
\* The materials of an empty slot may be those of the tool it had.
\* What two tools can print together is asked for when both are there, and
\* misses a tool replaced between two notifications.
FreshWhenQuiet ==
    Quiet =>
        /\ shown.tool = kaiten.tool /\ shown.process = kaiten.process
        /\ \A s \in Slots : kaiten.tool[s] # 0 => materials[s] = kaiten.tool[s]
        /\ "swap" \notin faults /\ Both(Present(kaiten.tool)) => configs = kaiten.tool
        /\ \A p \in Parts \ {"firmware", "camera", "cloud"} : shown.data[p] = kaiten.data[p]

\* The page of the extruders never settles on the figures of a tool that is
\* no longer there (toolStatsUpdate(), ExtruderInfoContents.qml), unless it
\* was replaced between two notifications.
StatsAreOfTool ==
    "swap" \notin faults /\ Quiet /\ infoPage =>
        \A s \in Slots : kaiten.tool[s] # 0 => statsReady[s] /\ stats[s] = kaiten.tool[s]

\* Once the printer is set up, the notice of missing extruders is of the
\* extruders that are missing (maybeNotifyExtruderNotDetected()).
NoticeIsTrue ==
    state = "Connected" /\ freComplete =>
        notice = {s \in Slots : shown.tool[s] = 0}

\* So it is as long as Kaiten does not restart.
NoticeIsTrueBarring == "restart" \notin faults => NoticeIsTrue

\* A call for a process never reaches another one, though it does not name
\* it, as long as only the pages start processes (isProcessRunning()): with
\* others, with a process of before the UI started or with two taps at once,
\* the call is applied to what runs when Kaiten reads it.
CallsReachTheirProcess == faults \cap {"remote", "hasty"} = {} => ~stray

\* No system information, however old, clears a question that Kaiten still asks
\* and whose answer is not under way (sysInfoUpdate(), acknowledgeMaterial()).
QuestionIsHeld == Quiet /\ kaiten.waits => spoolValidityCheckPending

\* A question of a load is answered, or its process ends, if the user answers
\* what the popup asks.  The check is made once, 100 ms after the flag is set
\* (checkSpoolValidityTimer): a question that comes while the process shown is
\* no load ("early"), one whose flag is still that of an earlier process
\* ("swap", "restart"), and one the user backs out of may wait for ever.
MaterialIsAnswered ==
    faults \cap {"restart", "swap", "early", "back"} = {} /\ kaiten.waits ~> ~kaiten.waits

=============================================================================
