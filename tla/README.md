# A TLA+ verification of the MakerBot Method UI

This directory holds specifications of `morepork-ui`, the touch screen program
of the Method printers: a Qt program (C++ models, QML pages) that talks over a
unix-domain socket to Kaiten, the service that runs the printer. The UI has one
event loop; nothing in it runs in parallel except a USB formatting thread. What
makes it hard is everything around that loop: Kaiten stops and starts when it
likes, web replies and timers come in any order, a drive is pulled in the middle
of a copy, the printer is switched off, and a handler that runs later finds a
page, a step or a pointer that is no longer the one it was started for.

The specifications are translated from the source under `src/src/` (paths below
are relative to it). Each definition is tied to its lines in `PROJECT.json`
(`map`), each hazard of the code to the properties that cover it (`hazards`).

## 1. Inventory

| component | state | operations | hard behaviour | what makes it correct |
|---|---|---|---|---|
| `LocalJsonRpc` (`model_impl/local_jsonrpc.*`) | socket, directory watcher, retry timers, 30 s timer, `m_doTimeout`, cached `QFileInfo` | `checkConnect`, socket slots, timers | Kaiten and the file system act between any two lines of `checkConnect()`; Kaiten dies and leaves its file | one driver at any time; the published state is that of the socket; a Kaiten that listens is found |
| `KaitenBotModel` (`model_impl/kaiten_bot_model.cpp`, `model/bot_model.h`) | about 200 properties set from replies and notifications | `connected()`, one update per message, some 70 calls | the state is Connected before the replies of `connected()` are in; pages ask for more as properties change; calls name no process | once nothing is under way the UI shows what Kaiten has; a call reaches the process it is meant for |
| `KaitenProcessModel` (`model_impl/kaiten_process_model.cpp`) | type, state, flags of a load and of an error | `procUpdate` | the step is set before the type, notifications are coalesced; pages react to pairs of properties | a page's state is that of its process |
| `KaitenNetModel`, wifi pages | interface, wifi list, `wifiState`, queue | scan, connect, forget, disconnect, queue update | several writers of `wifiState` | a connection attempt ends in a state the page shows |
| `PrintQueue` and its pages (`print_queue/`, `qml/PrintPageForm.qml`) | two replies, handlers, file, flags, `cancelledRequest_`, popup, timer, details shown | fetch, start, download, cancel | `abort()` finishes inside the cancellation; late details; a print of another client | a popup waits only for what will come; the job started is the one shown; the outcome of a download is seen |
| `ProgressCopy` (`storage/progress_copy.h`) | files, `is_cancelled_`, posted `iterate` events, `fileIsCopying`, `fileCopySucceeded`, popups, `updateFirmware` | start, one chunk per event, cancel, install | drive pulled, files that do not open, full disk, restart, overlapping copies | the UI never waits for a dead copy; a success is a whole file; only a firmware copy installs |
| `MoreporkStorage` and the browsers (`storage/storage.cpp`, `qml/PrintPageForm.qml`, `qml/FirmwareUpdatePage.qml`) | list, watched directories, back stack, `browsingUsbStorage`, menu, chosen file | list, browse, back, sort, delete, copy, validate firmware | two browsers share one list, one watcher and one stack; drive and prints take the user away | the list is of the storage the page names; the menu acts on its file |
| `Network` and its pages (`model/network.*`, `qml/AuthorizeAccount*`, `qml/SignInPage.qml`) | `m_reply`, connected handlers, code, polling and expiry timers, popup | code set-up, polling, sign-in, back, expiry | one pointer for all replies, which finish in any order, late, or not at all; notifications and prints leave the pages without telling them | an account is handed over once, for the code of the page the user has not backed out of; a popup without buttons goes away |
| Questions of Kaiten (`model_impl/kaiten_bot_model.cpp`, `qml/MoreporkUI.qml`) | `m_authResp`, `m_installUnsignedFwResp`, pending flags, user name, two popups, timer | ask, tap, time out, disconnect | a second question under the popup of the first; Kaiten leaves with its question; taps next to a popup | each is answered once, none is forgotten, the user accepted is the user shown |
| `FreTracker` and the pages of the steps (`model/fre_tracker.*`, `qml/FrePage.qml`, `qml/SunflowerUnpacking*`) | current step, disabled steps, status file, open page, popups, timers | next step, set step, resume, skip, reset | timers of 2 s and 5 s that advance whatever step is current; network changes; restarts; a full disk | it resumes at its step, no step is passed that the user did not settle, a complete set-up is final |
| Reset to factory settings, copying logs (`qml/SystemSettingsPage*.qml`) | popup flags, two timers, handlers | confirm, finish, restart; copy, cancel | runs on beside Kaiten's process | the printer restarts only after a reset; no popup waits for a process that is over |
| Notices and extruder pages (`qml/MoreporkUI.qml`, `qml/ExtruderInfo*`) | list of notices, page | post, remove, ask for statistics | tools pulled and replaced while replies are under way | notice and figures are of the tools that are there |
| Load, calibration, levelling pages | QML states | advance with the process | notifications in an unexpected order | no page without a way on |
| Settings, DFS, translator, power key, disk manager | single values | read, write | | |
| `auther/`, `morepork-ui-artifactory/` | | command line tools, not part of the UI | | |
| host models, layout, images, translations, builds | none | | | |

The parts interact through Qt signals, which run their handlers inside the
emission, and through QML bindings (`onXChanged`), which run inside the
assignment. So one action of a model is one event of the loop with everything
its emissions set off, the QML handlers included.

## 2. Modules

| module | models | proofs |
|---|---|---|
| `BotConnection` | abstract: what the UI is promised about `BotModel::state` | |
| `LocalJsonRpc` | the connection; implements `BotConnection` | `KaitenLink_proofs` |
| `BotMirror` | `KaitenBotModel` as a mirror of Kaiten's data, the calls of the user, notices and statistics | `BotMirror_proofs` |
| `ProcessModel` | `KaitenProcessModel`, unpacking, copying logs, factory reset | `ProcessModel_proofs` |
| `FileTransfer` | abstract: what the user is promised about a download | |
| `PrintQueue` | `PrintQueue` and the pages of queued prints; implements `FileTransfer` | `PrintQueue_proofs` |
| `FileCopy` | copying from USB, popups, installation | `FileCopy_proofs` |
| `StorageBrowser` | `MoreporkStorage`'s lists and the browsers of print and firmware files | `StorageBrowser_proofs` |
| `AccountAuthorization` | `Network` and the pages of the account | `AccountAuthorization_proofs` |
| `UserRequests` | `authorize_user`, `allow_unknown_firmware` | `KaitenLink_proofs` |
| `FirstRun` | `FreTracker`, the pages of its steps, skipping, reset | `FirstRun_proofs` |

Each `MCx.tla` instantiates `x` for TLC; the `.cfg` files give the constants.
Variables and actions keep the names of members and functions (`m_reply` is
`reply`, `handleRespCheckAuthWithCode` is `FinishCheck`); actions of the user
are named for the tap, those of timers for the timer.
Definitions with a suffix (`Enter_NoWatch`, `Respond_Keeps`) are what a
plausible bug would make of the definition they are named for. `Next` does not
use them; putting one in the place of its definition breaks the property it is
listed for in `PROJECT.json` (`mutants`), which shows that the property depends
on what the code does there.

Most modules have a variable `faults`, chosen at the start from the constant
`Scenarios`, that says what may go wrong in that behaviour. One run so covers several
combinations, and a property can say which of them it survives: a property whose
name ends in `Barring` is the one without the ending, which the code promises
and does not keep, under the faults under which it does hold.

### LocalJsonRpc

`checkConnect()` is the one function that is not atomic: its two `exists()`, its
`addPath()` and its `connectToServer()` are separate actions (`Enter`, `AddPath`,
`Recheck`, `Connect`; `pc` tells where it is), because Kaiten, a process of its
own, binds, listens, stops and unlinks between them. `QFileInfo`'s cache
(`seen`), the lost events of a directory that is no longer watched and the
synchronous `stateChanged()` of a `connectToServer()` that fails are in the
model. `retries` counts the pending 500 ms timers: nothing in the code stops
there being two, `OneDriver` says there never are.

### FileCopy

One `iterate` event copies one chunk (`IterateChunk`), finds the end
(`IterateDone`) or the cancellation (`IterateCancelled`). `Start` is the whole of
`setSrcDstFiles()`, `process()` and, for firmware, `startFirmwareUpdate()`, with
its failures at each `open()` and `resize()`. `Finished` includes the QML handlers
of both properties, the installation among them. A file is a sequence of chunks
that are holes (`zero`), data of the source, or junk: `iterate()` looks at the
result of neither `read()` nor `write()`.

### BotMirror

`kaiten` is what Kaiten has: the tool in each slot (0, or a number that tells tools
apart), the process it runs, whether it waits for the answer about a material, and
one value for each other part of the data in the scenario. `out` and `in` are the two directions of
the socket, in order; both are lost when the link goes. `shown` and its neighbours are
what `KaitenBotModel` has made of the messages: `SysInfoUpdate` is the system
information with every QML handler it sets off, in the order of the code (slot 1 before slot 2,
the process last), `ToolStatsUpdate`, `ExtrudersConfigsUpdate` and `ExtChangeUpdate`
are the messages about tools, `PartUpdate` any message that only sets the
properties it is about. A list that is no array leaves the old one in place
(`isArray()`): `Listed` gives what a list may be then, for an empty slot the list of
the tool that was there. That Kaiten lists what a fitted tool supports is assumed. The calls the user makes are tables from the name of the
wrapper to what it is for (`"start"` a process, `"process"` for the one that is shown,
`"other"`); `Tap` sends one under the guard of the pages (`isProcessRunning()`), and
`KaitenReads` applies it to the process Kaiten runs by then. A question about the material
(`AskMaterial`, Kaiten's `waits`) goes through `spoolValidityCheckPending`, the 100 ms
timer (`checking`, started when the flag is set) and `CheckSpoolValidity`, which does
nothing unless the process shown is a load and otherwise acknowledges the material or
opens a popup (`asking`); `AnswerMaterial`, `ClosePopup` and `CancelLoad` are the ways out
of that popup, `AcknowledgeSpool` the answer that a placed spool gives. The scenario says
which processes are loads. `stray` is not in the
code: it remembers that a call reached another process than the one shown when
it was sent.

### ProcessModel

`sent` holds the notifications under way; `ProcUpdate` is `procUpdate()` with the
handlers of the pages run where the property they depend on is set: those on the
step see the old type when the process is new, and a reset is "done" for a moment
while the type is still that of the reset. `Graph` gives the steps of three
processes that pages wait for, and of a print with its loads, as Kaiten runs them. `loadOf`, `id` and `wiped` are for the properties only.

### PrintQueue

`metaReply`, `slot` (the name of the file of `downloadFile_`) and the flags are the
members; `handlers` counts the connections of the page to the signals, which
connect anew at each tap. A cancellation is one step with the handler that
`abort()` sets off. `shown` is whose details the page has, `chosen` the job that
would be started: `StartsShownJob` compares the two at the moment of the request.
`FileTransfer` is instantiated with the outcome the UI shows as `phase` and the files
left in the storage; `reliable` is the absence of the faults `full` and `crash`.

### StorageBrowser

Each medium has a root with one folder. `list` records which function made the
list, from where, and what it held; `watched` and `changed` are the directories of
`storage_watcher_` and those it has yet to report. Both slots are connected to that
watcher: `DirectoryChanged` calls both, and each returns early unless
`storageFileType` is its own. The drive goes through device, mount and
removal in separate steps, because the watcher looks at the device and the list
at the mount. `inFreStep` says that the setup opened the firmware page: its back button
then asks whether to skip the step, and `SkipFirmwareStep` leaves the page and the back
stack as they are. `FirmwareIsValid` folds over the pids of the manifest as the loop does.

### AccountAuthorization

`reply` is `m_reply`; `flight` says what each live `QNetworkReply` is for. A
handler runs for the reply that finished but reads and deletes the one `m_reply`
points to: `Reads` and `DeleteReply` keep the two apart. The QML handlers are
connected and disconnected one by one (`getsOtp`, `getsFailed`, `getsAuth`,
`getsToken`). `slow`, chosen at the start, allows a request while another is in
flight. `shown` says whether the page of the accounts is the open one, and `current`
whose `altBack()` the back button calls: that of the page it is on, or after a return to
a page that was left open that of `accountsItem`, which only leaves (`LeaveAccounts`).
`TapNotice` and `PrintStarts` are `resetSettingsSwipeViewPages()`: the settings are swiped
away and the pages are told nothing. They happen where `leaves`, chosen at the start,
allows them. The first run's way off the page is in `FirstRun`.

### UserRequests

`resp` holds the response objects, `pending` the property QML sees, `status` what
Kaiten knows. `Disconnected` changes nothing but `connected`, as in the code: the
responses stay. `onOpened` resets the popup only when it was closed. Its specification is
`RequestsSpec`: the module is used beside `LocalJsonRpc` in `KaitenLink_proofs`.

### FirstRun

`FreStep` keeps its numbers; `NextStep` is the loop of `gotoNextStep()`. `SetFreStep`
includes `onCurrentFreStepChanged`, which closes the page (`inFreStep`), and
`LogFreStatus`, which replaces the file also when the new one could not be written.
The two page timers and the reset timer are flags. `settled` is not in the code: it
collects the steps the user finished or agreed to skip. The timer of 250 ms after
the date is set is part of `FinishPage`.

`Events` switches five kinds of events on: `crash`, `full` (no room for the file),
`skip` (a page begins to leave by itself while the skip popup is open, or the other
way round), `cable` (ethernet comes up on the page of another step) and `print` (the
print of another client ends during the setup; `acknowledgePrint()` tests `inFreStep`
only). The last three break `StepIsSettled` (section 4); the main run leaves them out to show
that everything else holds.

## 3. Runs

| run | instance | checks | distinct states |
|---|---|---|---|
| `connection` | three starts of Kaiten | `OneDriver`, `StateAgrees`, `ConnectionSpec`, `EventuallyConnected` | 294 |
| `mirror` | one tool and one empty slot at the start, twelve scenarios of two to four events each | `FreshWhenQuiet`, `StatsAreOfTool`, `NoticeIsTrueBarring`, `CallsReachTheirProcess`, `QuestionIsHeld`, `MaterialIsAnswered` | 424 thousand |
| `process` | three processes, two notifications under way, five scenarios | `LoadsInItsPrint`, `FlagsAreOfError`, `RestartsWhenReset`, `AdvancesFromUnpacking`, `WaitsEnd` | 162 thousand |
| `print_queue` | two jobs, two names of files, four scenarios | `FetchListens`, `StartsShownJob`, `OutcomeIsShown`, `WaitEnds`, `Transfers` | 74 thousand |
| `copy` | two chunks, two chains of events, five combinations of faults | `CopyEnds`, `SuccessIsCompleteBarring`, `NoPartialFile`, `InstallIsFreshBarring` | 523 thousand |
| `browser` | two media with a folder each, a stack of two, six scenarios | `ShowsItsStorageBarring`, `ListIsTrue`, `BackGoesUp`, `MenuActsOnItsFile` | 955 thousand |
| `account` | three replies, two codes, one sign-in, slow and fast, with and without departures by notification and print | `HandsOverOnce`, `HandsOverShownCode`, `PopupOnItsPage`, `PollsOnItsPage`, `WaitEnds` | 398 thousand |
| `questions` | three calls of each kind | `AnswersOnce`, `AcceptsShownUser`, `AuthIsAnswered` | 383 thousand |
| `first_run` | a Method XL, which has every step, with restarts | `ResumesAtStep`, `PageIsOfStep`, `StepIsSettled`, `CompleteIsFinal` | 22 thousand |

`browser_pid`, `questions_progress` and `first_run_cable` are the violations of
section 4. The modules also define a type invariant and a few invariants that the
runs no longer list because others imply what they were for (`TypeOK`, `Inv`,
`CopyIsDriven`, `WaitsForReply`, `HeldIsPending`); all hold on the same instances, and the type
invariants of `LocalJsonRpc`, `BotMirror`, `ProcessModel`, `FileCopy` and `FirstRun` are proved.

Why the bounds are enough. Three starts of Kaiten cover a clean start, one after a
crash that left the file and one after a clean stop, in all orders; the state of
the UI carries no memory of earlier starts beyond `seen` and `m_doTimeout`, and the
safety part is proved for every number, as it is for every other bound named here. In `mirror` the traffic itself is not bounded, only
what Kaiten, the user and others do on their own: two to four events are a
tool out and another in, a restart between two changes, a call and the end of the
process it was for, or two loads with a question each. One slot is empty at the start,
and may be filled before the UI connects. Tools are numbered 0 to 2, so that one can be replaced by
another. Three processes are one that a page asked for, one before and one after
it; two notifications under way let a page act between them. Two jobs let one take
the place of the other and two names let a download find its name taken; a third name is never
reached with one download at a time. Two chunks let a copy stop before, between
and after them, and two chains are what one cancelled and one new copy post.
One folder in each root and a stack of two let the stack hold more than there is a
way back for. Three replies are a late check, the next
one and the request that follows; two codes let one replace the other. Three calls
are one that is held, one that is rejected and one that is asked after the first is
answered. `FirstRun` is finite and has no bound at all. The combinations of faults
of `copy` are the largest ones the two `Barring` properties allow, none at all for
`NoPartialFile`, and `unplug` with `open` and `hasty` for
`CopyEnds`; with all five faults allowed at once (3.9 million states, 2.5 minutes)
the same properties hold.

Deadlock is checked except in three runs. In `account` the popup
without a button that nothing will close (section 4) does stop the pages; in `mirror`
and `process` the bounds on what happens are used up and everything is at rest.

Fairness. The event loop delivers posted events, due timers and notifications of
the socket: weak fairness on each of those actions. `InitialTimeout` has strong
fairness, because a turn of the loop fires every timer that is due, so that a
retry timer cannot hold the 30 s timer back for ever although each
`checkConnect()` disables it for a moment. A web request ends, with an answer or an error (`Finish`,
weak): Qt and the connection time out. The timers of the authorization popup and of a queued print go off. In `BotMirror`
both directions of the socket are read, the timer of 100 ms goes off
(`CheckSpoolValidity`, which may do nothing), and a user answers the popup that asks for
the material as long as its load is shown (`AnswerMaterial`); that the question is asked
at all is not assumed. In `ProcessModel` Kaiten's processes go on to their end
(`KaitenStep`, strong: the bound on notifications in flight, which Kaiten does not
know, disables it for a moment again and again) and their notifications arrive. Otherwise nothing is
assumed of Kaiten, the user, the drive or the cable: `EventuallyConnected` is
conditional on a Kaiten that keeps listening.

## 4. Where the code and what it says differ

Each of these runs checks one property, a sentence of the code itself, and TLC
finds a behaviour that violates it. They are in `findings`, with the quotation.

| run | what happens |
|---|---|
| `browser_pid` | Firmware whose manifest lists this machine and, after it, another one is refused: only the last pid counts. |
| `questions_progress` | A tap next to the firmware popup closes it unanswered; its response stays held and later questions are rejected with no popup on the screen. |
| `first_run_cable` | Ethernet that comes up on the page of any step opens the popup whose CLOSE passes that step 2 s later. |

The properties below are defined in the modules and do not hold. TLC finds the
behaviour as soon as one is put in the configuration (with the fault named); no run is spent on them because a
property that a run does check says when they hold.

| property | what happens |
|---|---|
| `FileCopy!SuccessIsComplete` (`unplug` or `full`) | A drive pulled during a copy: reads fail unnoticed, the rest of the file is junk, and if the end is reached before the watcher's event the copy is a success. |
| `FileCopy!InstallIsFresh` (`open` or `unplug`) | A firmware copy that ends with the drive, or that cannot start, leaves `updateFirmware` set; the next print file that is copied installs `firmware.zip`. |
| `AccountAuthorization!SetupCallIsAnswered` | A late check deletes the reply of a new set-up call; no signal ever answers it and the popup, which has no button, stays. |
| `AccountAuthorization!AnswerIsRead` | A check sent while the last is in flight takes its place in `m_reply`; the token the last one brings is not read. |
| `UserRequests!CompleteIsAnswered` | A user who asks within the 1.5 s in which the last popup says it succeeded is shown as authenticated, unanswered. |
| `BotMirror!NoticeIsTrue` (`restart`) | In the first run no notices are posted; after Kaiten restarts one is, and the next, about the other slot, is dropped as a duplicate (`qml/MoreporkUI.qml:453`). |
| `BotMirror!MaterialIsAnswered` (`early`, `back`, `swap`, `restart`) | The flag of a question is looked at once, after 100 ms, and only for a load that is shown (`qml/MaterialPageForm.qml:158`). A question that comes before its load is shown, or from a load within a print (type Print), is not asked; one that comes while the flag is still set for an earlier process starts no timer; one the user backs out of is not asked again. Each waits until a spool is placed or the process ends. |
| `StorageBrowser!ShowsItsStorage` (`full`, `late`, `print`, `notice`, `setup`) | Full storage: VIEW FILES keeps the back stack of the stick, and BACK lists the stick under "Internal Storage", where "REMOVE FROM PRINTER STORAGE" removes from the stick. Late mount: the list of the storage before stays. A print leaves the firmware page in `select_firmware_file`, a notification leaves the stack as it was. So does skipping the firmware step of the setup from a folder of the stick (`qml/SystemSettingsPageForm.qml:397`): later BACK leads from the internal storage to the stick. `BackGoesUp` leaves out the same events. |

Other differences met while modelling:
- A tapped notification or a print started elsewhere leaves the code page by
  `resetSettingsSwipeViewPages()` (`qml/MoreporkUI.qml:594`), which stops no timer and
  disconnects no handler. The page goes on polling out of sight for up to five minutes;
  when the user approves the code, the account is handed to Kaiten and the popup that says
  so opens over whatever is on the screen. When the page is opened again it is still
  the code page, and BACK leaves it by `accountsItem.altBack()`
  (`qml/SystemSettingsPageForm.qml:344`), again stopping nothing; after the popup
  of a success out of sight `accountsItem` may stay the current item of another page.
  `HandsOverShownCode`, `PopupOnItsPage` and `PollsOnItsPage` say what holds nevertheless: all of it is
  for the page as it was left, its code, once, with the timer that ends it running; and
  without such a departure it happens on the screen only.
- A list that is missing from a message leaves the old one: an empty slot keeps the
  materials of the tool it had (`model_impl/kaiten_bot_model.cpp:632`, 1820), so that
  `FreshWhenQuiet` speaks of the slots that have a tool.
- The details of a queued job may be fetched while another print starts: its
  `updateCurrentThing()` replaces what the page shows, and CONFIRM starts the job
  under the details of the print (`qml/PrintPageForm.qml:133`, 1086).
  `StartsShownJob` allows exactly that.
- `storage.currentThingReset()` is not a function that QML can call: the handler of the end of
  a print stops there and `resetPrintFileDetails()` does not run
  (`qml/PrintPageForm.qml:125`).
- A download looks at the result of no `write()`: a full storage gives a
  success with a torn file (`print_queue/print_queue.cpp:120`). `totalChanged` is
  inverted (line 144).
- `AdvancesFromUnpacking` needs every change to be notified: when Kaiten coalesces,
  the first step of a process is seen with the type of the one before, since the
  step is set before the type. The unpacking page then stays in "moving", whose only
  way on is the notification it missed; so it does when the movement is refused.
- A factory reset started by another client opens the popup without buttons until
  the reset is confirmed here (`qml/SystemSettingsPageForm.qml:69`).
- Each opening of the popup for the logs connects one more handler, and none
  is disconnected (`qml/SystemSettingsPage.qml:81`); the CANCEL of a refused copy cancels
  whatever process runs.
- At the first connection the notice of missing extruders is posted from the
  defaults of `BotModel`, before any system information, and the check for firmware is skipped
  because the network is not known yet.
- `FreshWhenQuiet` leaves out what Kaiten only notifies (camera, firmware, queue)
  and the types that two tools can print after a swap between two
  notifications: `onExtrudersPresentChanged` then sees no change. Its comment
  (`qml/MoreporkUI.qml:244`) says the configurations update the calibrated flags;
  `extrudersConfigsUpdate()` does not set them.
- With a process of another client, or two taps before the first is shown, a call
  reaches another process than the one on the screen, a cancellation included (`CallsReachTheirProcess`).
- `printFileListReset()` does not emit `printFileListChanged()`;
  `DiskManager::setInternalUsage()` emits no `internalChanged`, so that the 95 % limit is
  tested against an old value; a `last_thing` directory that is missing at the start is never watched.
- The options menu stays open when the drive is pulled or a print starts; it then acts on
  the file of the print (`MenuActsOnItsFile` allows that one).
- `FirstRun` with `Events = {"skip"}` violates `StepIsSettled` too: the skip popup,
  confirmed within 2 s of wifi coming up, passes the wifi step, and the timer
  then passes the next one (`qml/WiFiPageForm.qml:59`). The same happens with the
  5 s timer of the account (`qml/AuthorizeAccountPage.qml:97`).
- `FirstRun` with `Events = {"print"}` violates `StepIsSettled`: `acknowledgePrint()` tests
  `inFreStep` only (`qml/PrintPage.qml:188`), so the end of a print of another client passes whatever
  step is current, without a network from the wifi step past the last one.
- `acknowledgePrint()` goes to `NamePrinter` with a network and past it without;
  its comment speaks of the login (`qml/PrintPage.qml:189`).
- After a set-up reply that does not parse, `m_reply` stays set and a sign-in is
  refused as busy with nothing in flight (`model/network.cpp:128`).
- `logFreStatus()` tests `open()` for 0 and not for -1, and lets a file that was not
  written completely replace the good one (`model/fre_tracker.cpp:139`). With
  `full` in `Events` `ResumesAtStep` fails.
- A copy is at its full size before its first chunk. After a restart, or when
  another copy starts before the events of a cancelled one are handled, such a
  file stays among the print files, which is why `NoPartialFile` is stated for
  behaviours without faults.

## 5. Proofs

The theorems below are checked by TLAPS for every value of the constants: any number
of messages, replies, events, starts and processes, every combination of faults. Each
safety invariant and each action property of a passing run has its theorem. The
assumptions named are those that the modules state of their constants, and no others
unless said.

`BotMirror_proofs` (assumption `MirrorAssumption`): `SettlesOnKaiten` (`FreshWhenQuiet`),
`StatsSettle` (`StatsAreOfTool`), `NoticeStaysTrue` (`NoticeIsTrueBarring`), `CallsReach`
(`CallsReachTheirProcess`), `QuestionStays` (`QuestionIsHeld`) and `TypeCorrect`. The properties speak of the moments at which nothing
is under way, so that none of them is inductive. `MirrorInv` says what is true in between,
for each thing that Kaiten has: a call that asks for it is under way, or the last message
under way that sets it says it as it is (`Latest`), or none under way sets it and it is
shown as it is. Two exceptions are part of it: configurations and statistics may be old
as long as a tool is shown as missing or about to be (`Gone`), because its appearance asks
for them again; and what is set from the UI waits for the reply that asks for it. The call
for the system information is the first of all and brings the others with it (`AskedInv`).
Messages are handled through a few lemmas about sequences (`Appending`, `Joining`,
`Taking`), which say what a queue `Meets` and `Ends` with after a message is added or
taken. `OneProcess` is what keeps calls from going astray: the calls, the system
information under way and the mirror name one process at most, and nothing is under way
behind a call that starts one. `QuestionInv` follows a question: while Kaiten waits, its
answer is under way, or the last message that touches the flag sets it, or it is set;
system information that resets it says that no process runs, and then Kaiten does not wait.
`PopupInv`, which `CallsReach` rests on, says that a process is not shown as over before it
is, and that nothing starts one while the popup asks. `NoticeInv` adds to `NoticeIsTrue` what the notice says
before the set-up is complete; that the notice of one slot may only be dropped when it
says what is shown rests on the two slots changing one after the other (`OneChanges`,
`OtherChanges`).

`KaitenLink_proofs` holds the proofs of `LocalJsonRpc` and `UserRequests`. The connection
(assumption `BindsAssumption`: the bound on starts is a natural number): `TypeCorrect`,
`NeverStranded` (`OneDriver`), `StateAgreement` and
`ImplementsConnection`. `OneDriver` is not inductive: that exactly one of the
timers, the watched directory, a running `checkConnect()` and a live socket is
there depends on where `checkConnect()` is when the watch is added and removed.
`Inv` adds that (`pc` against `watched`), that events are pending only on a watched
directory, and that `m_doTimeout` is cleared by the first connection, which is what
keeps the 30 s timer from overwriting a state. `InitInv` and `NextInv` (one step
per action) make it inductive; TLC finds it true of the instance of `connection`.
`ImplementsConnection` maps every step to a step of `BotConnection` or a stutter;
it covers the initial states and steps, not `Progress`.

The questions (assumption `CallsAssumption`), for any sets of calls:
`NeverAnsweredTwice` (`AnswersOnce`) and `ShownUserAccepted` (`AcceptsShownUser`). `HeldInv`
adds that a held response is of a call that was asked and not answered, that each
kind holds its own, and that the name shown is that of the held call.

`ProcessModel_proofs` (assumption `ProcessAssumption`), for any number of processes and of
notifications in flight: `LoadsInPrint` (`LoadsInItsPrint`), `FlagsTellError`
(`FlagsAreOfError`), `RestartsOnlyWhenReset` (`RestartsWhenReset`), `AdvancesTheUnpacking`
(`AdvancesFromUnpacking`) and `TypeCorrect`. A handler acts on a notification long after
Kaiten has gone on, so the invariant is about the whole way: where every change is
notified, the process that is shown, those in flight and Kaiten's form a trail whose
neighbours are one change apart (`TrailInv`), which a handled notification shortens at one
end and a change of Kaiten lengthens at the other. On such a trail an error goes before
the next one comes, a process ends before the next one begins, and there is one movement
at most, which the unpacking step waits for (`OneMove`). `WipedInv` says of each
notification of a finished reset that the reset was done; for the moment in which the
step of a new notification is seen with the type of the reset, it adds that a reset that
is not done is the last process there was (`LastIsReset`).

`FileCopy_proofs` (assumption `CopyAssumption`), for every size of a file, any number of
chains of events and every combination of faults: `CopiesAreComplete`
(`SuccessIsCompleteBarring`), `NoFileLeftPartial` (`NoPartialFile`), `InstallsFirmware`
(`InstallIsFreshBarring`), `CopyHasItsEvent` (`CopyIsDriven`) and `TypeCorrect`. That a
success is a whole file needs what a copy under way has written so far
(`ChunksAreWritten`) and that a second chain of events finds nothing left to write
(`SuccessIsWhole`); that only firmware installs needs the popup of the firmware copy to
stay open as long as `updateFirmware` is set (`FirmwareIsCopied`).

`StorageBrowser_proofs`, for a stack of any depth and every combination of
faults: `ListStaysTrue` (`ListIsTrue`), `StaysInItsStorage` (`ShowsItsStorageBarring`),
`BackLeadsUp` (`BackGoesUp`) and `MenuKeepsItsFile` (`MenuActsOnItsFile`). A list that is
shown is of the directory listed last, which is watched (`ListInv`), and a directory
of a stick that is gone has its report to come (`WatchInv`); both hold whatever disturbs
the browser. That page, type of the list, directory and stack are of one storage
(`PageInv`, `StackInv`) holds only `Undisturbed`, without the faults the property excludes, the
skipped step of the setup among them; that the page is a
step of the setup only where the setup runs is `SetupInv`. The type
of the result of `FirmwareIsValid` is not proved: it is a fold, and what a fold gives for
every sequence takes induction over data.

`FirstRun_proofs` (assumption `FirstRunAssumption`), for every printer and every set of events
but those named, which are the ones section 4 shows to break the property: `Resumes`
(`ResumesAtStep`) with `"full" \notin Events`, `SetUpIsFinal` (`CompleteIsFinal`) for
every set of events, the full storage among them, `PagesFollowSteps` (`PageIsOfStep`) with `"skip" \notin Events`, `StepsAreSettled`
(`StepIsSettled`) with none of `"skip"`, `"cable"` and `"print"`, and `TypeCorrect`. `ResumesAtStep`
says nothing while the UI is not connected, when timers go on changing the step;
`FileInv` adds that the status in memory is that of the file. For `CompleteIsFinal`
a late timer or popup must not meet a step other than the last one: `StepInv` adds
that while something may still change the step (a page, a popup, a timer), the step is
that of the status in memory, also while the UI is not connected, and `NoNextStep` that there is nothing after the last step. `PageInv` (a page and
the popup that skips it are of the current step) and `LeaveInv` (a timer that leaves a page
was started by the end of that page) are what the other two rest on. That
`gotoNextStep()` finds a step to go to takes the least of a set of naturals (`WFMin`).

`PrintQueue_proofs` (assumption `QueueAssumption`), for any jobs, any number of names and
every combination of faults, where the runs have four:

- `FetchIsListenedTo` (`FetchListens`). It takes one more fact to be inductive: a
  question whether to start is asked only without another popup (`FetchInv`).
- `ShownJobStarts` (`StartsShownJob`). `JobInv` follows the job from the tap through the
  reply to the details: what is fetched is what was chosen, and a page of details
  has those of the chosen job or of the print.
- `OutcomeStaysShown` (`OutcomeIsShown`) and `ImplementsTransfer` (`Transfers`). `DownloadInv`
  adds that a download in flight has a file and starts without an old outcome, that
  a file is torn only where the storage can be full, and that `internalStorageFull` is
  gone with its popup. `Left` is handled by three facts about sets of files: what
  happens to the file that is written changes nothing, closing it adds one, and
  its name is new. `getDestination()` finding a name rests on the smallest element
  of a set of naturals (`WFMin`). The mapping covers all of `FileTransfer`'s
  specification, which has no fairness.

`AccountAuthorization_proofs` (assumption `AuthAssumption`), for any number of replies,
passwords and sign-ins, however late replies come: `PollingStays`, `PopupStays`,
`HandedOnce` and `HandedCodeIsShown`, with the departures by notification and print. `PageInv` adds where handlers are connected: none
once the user has backed out of their page or behind a popup that leaves it, and a setup call in flight is
`m_reply`, behind its popup; so a late reply finds nothing to act on but a page that is as
its request left it, which is on the screen unless a notification or a print came
(`leaves`). `CodeInv` adds that
a check whose answer would be read asks for the code on the page, which has not been
handed over, although the handler reads `m_reply` and not its own reply.

Only model-checked: liveness (`CopyEnds`, `WaitEnds`, `WaitsEnd`, `AuthIsAnswered`,
`MaterialIsAnswered`, `EventuallyConnected`, `Progress` of `BotConnection`), which is
outside the prover's reach, and the violations of section 4, which are behaviours.
`HeldIsPending` and the type invariants of `PrintQueue`, `AccountAuthorization`,
`UserRequests` and `StorageBrowser` have no theorem.

## 6. Not modelled

Framing and parsing of JSON-RPC (its submodule is not in the tree); formatting of
the USB drive; the wifi list and `wifiState`; the temperatures and offsets that are only
shown; progress and times of a process or download; the metadata of a print file; what
happens inside the pages of loading, levelling and calibration, which follow the
state of their process; `auther` and the artifact downloader, which are not part of
the program on the printer; the texts and the layout. `PROJECT.json` gives the
reason for each.

Kaiten, the kernel, the web services and the user are external: their actions are what
the code in `src/` has to be ready for, in any order, within the scenario.

## 7. Plan

1. `WifiState`: `KaitenNetModel` and the writers of `wifiState` on its pages.
2. The pages of loading, levelling and calibration on top of `ProcessModel`.
3. Proofs: the type invariants of `PrintQueue`, `AccountAuthorization` and `UserRequests`;
   `HeldIsPending`; the abstract specification that `BotMirror` implements.
