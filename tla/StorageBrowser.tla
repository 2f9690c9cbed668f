--------------------------- MODULE StorageBrowser ---------------------------
(***************************************************************************)
(* The browsers of the storage: MoreporkStorage lists one directory at a   *)
(* time for the pages that choose a print or a firmware file, watches it,  *)
(* and keeps the stack of directories the back button returns to.  The     *)
(* stick comes and goes on its own, watchers report later, and a print or  *)
(* a notification takes the user from any page.                            *)
(***************************************************************************)
EXTENDS Naturals, Sequences, SequencesExt

CONSTANTS
    Holds,          \* the suffixes of the files a directory may hold
    MaxStack,       \* bound on back_dir_stack_
    MachinePid,     \* what setMachinePid() read
    Manifests,      \* the sequences of pids that manifests list
    Scenarios       \* sets of what may happen: "late", a stick is mounted after it
                    \* is seen, or tapped when it is gone but still seen; "full",
                    \* the internal storage is full; "print", prints start, here
                    \* or elsewhere; "notice", a notification is tapped; "setup", the
                    \* setup opens the page of the firmware too

Media == {"internal", "usb"}
Dirs == [medium : Media, folder : BOOLEAN]     \* each root holds one folder
Root(m) == [medium |-> m, folder |-> FALSE]
Folder(m) == [medium |-> m, folder |-> TRUE]
NoDir == [medium |-> "none", folder |-> FALSE]
Suffix == "Print" :> "makerbot" @@ "Firmware" :> "zip"
NoFile == [dir |-> NoDir, name |-> "none"]
ThePrint == [dir |-> NoDir, name |-> "current thing"]

ASSUME BrowserAssumption ==
    /\ Holds \in [Dirs -> SUBSET {"makerbot", "zip"}]
    /\ MaxStack \in Nat
    /\ Scenarios \subseteq SUBSET {"late", "full", "print", "notice", "setup"}

VARIABLES
    faults,         \* what may happen in this behaviour
    inFreStep,      \* the page of the firmware was opened by the setup
    disk,           \* the files of each directory
    stick,          \* the stick: "out", "seen" (a device) or "mounted"; "pulled", not yet
                    \* unmounted
    stickEvent,     \* usb_storage_watcher_ has something to report
    usbStorageConnected,
    storageFileType,
    prevDir,        \* prev_thing_dir_
    watched,        \* directories of storage_watcher_
    changed,        \* those of them it has to report
    stack,          \* back_dir_stack_
    list,           \* printFileList, where it is from, and which function made it
    page,           \* the page on the screen
    choosing,       \* FirmwareUpdatePage is in "select_firmware_file"
    browsingUsb,    \* browsingUsbStorage
    chosen,         \* fileName of PrintPage
    menu,           \* the file whose menu is open, or NoFile
    copying,        \* fileIsCopying: NoDir or where the file is from
    popup,          \* the modal popup: "None", "Copying" or "Full"
    printing,       \* isPrintProcess
    checked         \* the last firmware file tapped: its pids and firmwareIsValid()

stickVars == <<stick, stickEvent, usbStorageConnected>>
listVars == <<storageFileType, prevDir, watched, list>>
pageVars == <<page, choosing, browsingUsb, chosen, menu>>
copyVars == <<copying, popup>>
setupVars == <<faults, inFreStep>>
vars == <<setupVars, disk, stickVars, listVars, changed, stack, pageVars, copyVars,
          printing, checked>>

NoList == [dir |-> NoDir, type |-> "Print", entries |-> {}]

TypeOK ==
    /\ faults \in Scenarios /\ inFreStep \in BOOLEAN
    /\ disk \in [Dirs -> SUBSET {"makerbot", "zip"}]
    /\ stick \in {"out", "seen", "mounted", "pulled"}
    /\ stickEvent \in BOOLEAN /\ usbStorageConnected \in BOOLEAN
    /\ storageFileType \in {"Print", "Firmware"}
    /\ prevDir \in Dirs \cup {NoDir}
    /\ changed \subseteq Dirs /\ watched \subseteq Dirs
    /\ stack \in Seq(Dirs) /\ Len(stack) <= MaxStack
    /\ list \in [dir : Dirs \cup {NoDir}, type : {"Print", "Firmware"},
                 entries : SUBSET {"makerbot", "zip", "folder"}]
    /\ page \in {"Base", "Browser", "Confirm", "Firmware"}
    /\ choosing \in BOOLEAN /\ browsingUsb \in BOOLEAN
    /\ chosen \in [dir : Dirs, name : {"makerbot"}] \cup {NoFile, ThePrint}
    /\ menu \in [dir : Dirs, name : {"makerbot"}] \cup {NoFile}
    /\ copying \in Dirs \cup {NoDir} /\ popup \in {"None", "Copying", "Full"}
    /\ printing \in BOOLEAN
    /\ checked.valid \in BOOLEAN

Contents(m) == {c \in [{Root(m), Folder(m)} -> SUBSET {"makerbot", "zip"}] :
                    \A d \in DOMAIN c : c[d] \subseteq Holds[d]}

Init ==
    /\ faults \in Scenarios /\ inFreStep = FALSE
    /\ disk \in {[d \in Dirs |-> IF d.medium = "usb" THEN {} ELSE c[d]] :
                    c \in Contents("internal")}
    /\ stick = "out" /\ stickEvent = FALSE /\ usbStorageConnected = FALSE
    /\ storageFileType = "Print" /\ prevDir = NoDir /\ watched = {} /\ list = NoList
    /\ changed = {} /\ stack = <<>>
    /\ page = "Base" /\ choosing = FALSE /\ browsingUsb = FALSE
    /\ chosen = NoFile /\ menu = NoFile
    /\ copying = NoDir /\ popup = "None" /\ printing = FALSE
    /\ checked = [pids |-> <<>>, valid |-> FALSE]

Exists(d) == \/ d.medium = "internal"
             \/ d.medium = "usb" /\ stick \in {"mounted", "pulled"}

\* No popup is open, and no menu.  The popup of a firmware file is open as long as
\* the file is copied.
NoModal == popup = "None" /\ menu = NoFile /\ copying = NoDir

-----------------------------------------------------------------------------
(* The lists.  A list of one file type is made only while the storage is   *)
(* of that type: both slots are connected to the one watcher.              *)

\* Mutant: the directory listed before stays the one that is watched.
Watch_KeepsOld(d) ==
    /\ prevDir' = d
    /\ watched' = IF Exists(d) /\ watched = {} THEN {d} ELSE watched
    /\ changed' = changed

\* The directory before is no longer watched, its report is dropped.
Watch(d) ==
    LET dropped == IF Exists(prevDir) THEN {prevDir} ELSE {} IN
    /\ prevDir' = d
    /\ watched' = (watched \ dropped) \cup (IF Exists(d) THEN {d} ELSE {})
    /\ changed' = changed \ dropped

Entries(d, type) ==
    (disk[d] \cap {Suffix[type]}) \cup (IF d.folder THEN {} ELSE {"folder"})

Lists(d, type) ==
    list' = IF Exists(d) /\ Entries(d, type) # {}
            THEN [dir |-> d, type |-> type, entries |-> Entries(d, type)]
            ELSE NoList

UpdatePrintFileList(d) ==
    /\ IF Exists(d) THEN Watch(d) ELSE UNCHANGED <<prevDir, watched, changed>>
    /\ Lists(d, "Print")

UpdateFirmwareFileList(d) == Watch(d) /\ Lists(d, "Firmware")

\* A change that storage_watcher_ reports; the report on a stick that was
\* unmounted is its last.
DirectoryChanged ==
    \E d \in changed :
        /\ IF Exists(d)
           THEN IF storageFileType = "Print"
                THEN UpdatePrintFileList(d) ELSE UpdateFirmwareFileList(d)
           ELSE /\ watched' = watched \ {d} /\ changed' = changed \ {d}
                /\ list' = NoList
                /\ prevDir' = IF storageFileType = "Print" THEN prevDir ELSE d
        /\ UNCHANGED <<setupVars, disk, stickVars, storageFileType, stack, pageVars, copyVars,
                       printing, checked>>

-----------------------------------------------------------------------------
(* The stick and the other writers of the directories.                     *)

\* The hand is slower than the watchers: what they had to report of the stick that
\* was pulled is reported.
Plug ==
    /\ stick = "out" /\ ~stickEvent /\ {d \in changed : d.medium = "usb"} = {}
    /\ stick' = IF "late" \in faults THEN "seen" ELSE "mounted"
    /\ \E c \in Contents("usb") :
        disk' = [d \in Dirs |-> IF d.medium = "usb" THEN c[d] ELSE disk[d]]
    /\ stickEvent' = TRUE
    /\ UNCHANGED <<setupVars, usbStorageConnected, listVars, changed, stack, pageVars, copyVars,
                   printing, checked>>

Mount ==
    /\ stick = "seen"
    /\ stick' = "mounted"
    /\ UNCHANGED <<setupVars, disk, stickEvent, usbStorageConnected, listVars, changed, stack,
                   pageVars, copyVars, printing, checked>>

Unplug ==
    /\ stick \in {"seen", "mounted"}
    /\ stick' = IF stick = "seen" THEN "out" ELSE "pulled"
    /\ stickEvent' = TRUE
    /\ UNCHANGED <<setupVars, disk, usbStorageConnected, listVars, changed, stack, pageVars,
                   copyVars, printing, checked>>

Unmount ==
    /\ stick = "pulled"
    /\ stick' = "out"
    /\ changed' = changed \cup {d \in watched : d.medium = "usb"}
    /\ UNCHANGED <<setupVars, disk, stickEvent, usbStorageConnected, listVars, stack, pageVars,
                   copyVars, printing, checked>>

\* A download, or Kaiten, writes a print to the internal storage.
WriteInternal ==
    \E d \in {Root("internal"), Folder("internal")} :
        /\ "makerbot" \in Holds[d] \ disk[d]
        /\ disk' = [disk EXCEPT ![d] = @ \cup {"makerbot"}]
        /\ changed' = changed \cup ({d} \cap watched)
        /\ UNCHANGED <<setupVars, stickVars, listVars, stack, pageVars, copyVars, printing,
                       checked>>

\* Mutant: the directories of the stick stay on the stack.
UpdateUsbStorageConnected_KeepsStack ==
    LET connected == stick \in {"seen", "mounted"}
        leaves == usbStorageConnected /\ ~connected IN
    /\ stickEvent /\ stickEvent' = FALSE
    /\ usbStorageConnected' = connected
    /\ page' = IF leaves /\ browsingUsb /\ page \in {"Browser", "Confirm"} THEN "Base" ELSE page
    /\ choosing' = (choosing /\ (leaves => printing))
    /\ IF ~connected /\ copying # NoDir
       THEN copying' = NoDir /\ list' = NoList
       ELSE UNCHANGED <<copying, list>>
    /\ stack' = stack
    /\ UNCHANGED <<setupVars, disk, stick, storageFileType, prevDir, watched, changed,
                   browsingUsb, chosen, menu, popup, printing, checked>>

\* updateUsbStorageConnected() and the pages that use the stick.  The copy that is
\* cancelled leaves its popup.
UpdateUsbStorageConnected ==
    LET connected == stick \in {"seen", "mounted"}
        leaves == usbStorageConnected /\ ~connected IN
    /\ stickEvent /\ stickEvent' = FALSE
    /\ usbStorageConnected' = connected
    /\ page' = IF leaves /\ browsingUsb /\ page \in {"Browser", "Confirm"} THEN "Base" ELSE page
    /\ choosing' = (choosing /\ (leaves => printing))
    /\ IF ~connected /\ copying # NoDir
       THEN copying' = NoDir /\ list' = NoList
       ELSE UNCHANGED <<copying, list>>
    /\ stack' = IF ~connected /\ prevDir.medium = "usb" THEN <<>> ELSE stack
    /\ UNCHANGED <<setupVars, disk, stick, storageFileType, prevDir, watched, changed,
                   browsingUsb, chosen, menu, popup, printing, checked>>

-----------------------------------------------------------------------------
(* The browser of prints.                                                  *)

Browse(m) ==
    /\ browsingUsb' = (m = "usb")
    /\ storageFileType' = "Print"
    /\ UpdatePrintFileList(Root(m))
    /\ page' = "Browser"

TapStorage(m) ==
    /\ page = "Base" /\ ~printing /\ NoModal
    /\ m = "usb" => usbStorageConnected /\ (Exists(Root("usb")) \/ "late" \in faults)
    /\ Browse(m)
    /\ UNCHANGED <<setupVars, disk, stickVars, stack, choosing, chosen, menu, copyVars,
                   printing, checked>>

BackStackPush(d) == stack' = IF Exists(d) THEN Append(stack, d) ELSE stack

TapFolder ==
    /\ page = "Browser" /\ NoModal
    /\ "folder" \in list.entries /\ Len(stack) < MaxStack
    /\ BackStackPush(list.dir)
    /\ UpdatePrintFileList(Folder(list.dir.medium))
    /\ UNCHANGED <<setupVars, disk, stickVars, storageFileType, pageVars, copyVars, printing,
                   checked>>

\* Mutant: the directory stays on the stack.
Back_Peeks ==
    /\ page = "Browser" /\ NoModal
    /\ chosen' = NoFile
    /\ IF stack = <<>>
       THEN page' = "Base" /\ UNCHANGED <<stack, prevDir, watched, changed, list>>
       ELSE /\ stack' = stack
            /\ UpdatePrintFileList(Last(stack))
            /\ UNCHANGED page
    /\ UNCHANGED <<setupVars, disk, stickVars, storageFileType, choosing, browsingUsb, menu,
                   copyVars, printing, checked>>

Back ==
    /\ page = "Browser" /\ NoModal
    /\ chosen' = NoFile
    /\ IF stack = <<>>
       THEN page' = "Base" /\ UNCHANGED <<stack, prevDir, watched, changed, list>>
       ELSE /\ stack' = Front(stack)
            /\ UpdatePrintFileList(Last(stack))
            /\ UNCHANGED page
    /\ UNCHANGED <<setupVars, disk, stickVars, storageFileType, choosing, browsingUsb, menu,
                   copyVars, printing, checked>>

\* A file is chosen to be printed.
TapFile ==
    /\ page = "Browser" /\ NoModal /\ "makerbot" \in list.entries
    /\ chosen' = [dir |-> list.dir, name |-> "makerbot"]
    /\ page' = "Confirm"
    /\ UNCHANGED <<setupVars, disk, stickVars, listVars, changed, stack, choosing, browsingUsb,
                   menu, copyVars, printing, checked>>

BackToBrowser ==
    /\ page = "Confirm" /\ NoModal
    /\ chosen' = NoFile
    /\ page' = IF printing THEN "Base" ELSE "Browser"
    /\ UNCHANGED <<setupVars, disk, stickVars, listVars, changed, stack, choosing, browsingUsb,
                   menu, copyVars, printing, checked>>

\* newSortType(); the drawer is that of the browser.
Sort ==
    /\ page = "Browser" /\ NoModal
    /\ prevDir # NoDir /\ storageFileType = "Print"
    /\ UpdatePrintFileList(prevDir)
    /\ UNCHANGED <<setupVars, disk, stickVars, storageFileType, stack, pageVars, copyVars,
                   printing, checked>>

-----------------------------------------------------------------------------
(* The menu of a file, held in the browser or shown next to its details.   *)

\* Mutant: the file held is not chosen.
OpenMenu_KeepsChosen ==
    /\ NoModal
    /\ \/ /\ page = "Browser" /\ "makerbot" \in list.entries
          /\ menu' = [dir |-> list.dir, name |-> "makerbot"]
       \/ page = "Confirm" /\ chosen \notin {NoFile, ThePrint} /\ menu' = chosen
    /\ chosen' = chosen
    /\ UNCHANGED <<setupVars, disk, stickVars, listVars, changed, stack, page, choosing,
                   browsingUsb, copyVars, printing, checked>>

OpenMenu ==
    /\ NoModal
    /\ \/ /\ page = "Browser" /\ "makerbot" \in list.entries
          /\ menu' = [dir |-> list.dir, name |-> "makerbot"]
       \/ page = "Confirm" /\ chosen \notin {NoFile, ThePrint} /\ menu' = chosen
    /\ chosen' = menu'
    /\ UNCHANGED <<setupVars, disk, stickVars, listVars, changed, stack, page, choosing,
                   browsingUsb, copyVars, printing, checked>>

CloseMenu ==
    /\ menu # NoFile /\ menu' = NoFile
    /\ UNCHANGED <<setupVars, disk, stickVars, listVars, changed, stack, page, choosing,
                   browsingUsb, chosen, copyVars, printing, checked>>

IsFile(f) == Exists(f.dir) /\ f.name \in disk[f.dir]

\* deletePrintFile(); the file being printed is not modelled.
TapRemove ==
    /\ menu # NoFile /\ menu' = NoFile
    /\ IF IsFile(chosen)
       THEN /\ disk' = [disk EXCEPT ![chosen.dir] = @ \ {chosen.name}]
            /\ changed' = changed \cup ({chosen.dir} \cap watched)
       ELSE UNCHANGED <<disk, changed>>
    /\ page' = "Browser"
    /\ UNCHANGED <<setupVars, stickVars, listVars, stack, choosing, browsingUsb, chosen,
                   copyVars, printing, checked>>

TapAdd ==
    /\ menu # NoFile /\ menu' = NoFile
    /\ browsingUsb
    /\ \/ /\ IsFile(chosen)
          /\ copying' = chosen.dir /\ popup' = "Copying"
       \/ /\ ~IsFile(chosen)
          /\ UNCHANGED copyVars
       \/ /\ "full" \in faults
          /\ popup' = "Full" /\ UNCHANGED copying
    /\ UNCHANGED <<setupVars, disk, stickVars, listVars, changed, stack, page, choosing,
                   browsingUsb, chosen, printing, checked>>

\* CANCEL or CLOSE of a copy, BACK of a full storage.
ClosePopup ==
    /\ popup # "None" /\ popup' = "None"
    /\ copying' = NoDir
    /\ UNCHANGED <<setupVars, disk, stickVars, listVars, changed, stack, pageVars, printing,
                   checked>>

ViewFiles ==
    /\ popup = "Full" /\ popup' = "None"
    /\ Browse("internal")
    /\ UNCHANGED <<setupVars, disk, stickVars, stack, choosing, chosen, menu, copying,
                   printing, checked>>

\* The print is written to the internal storage, and its popup says so.
CopyEnds ==
    /\ copying # NoDir /\ popup = "Copying"
    /\ copying' = NoDir
    /\ disk' = [disk EXCEPT ![Root("internal")] = @ \cup {"makerbot"}]
    /\ changed' = changed \cup ({Root("internal")} \cap watched)
    /\ UNCHANGED <<setupVars, stickVars, listVars, stack, pageVars, popup, printing, checked>>

-----------------------------------------------------------------------------
(* Prints, and a notification that leads elsewhere.                        *)

StartPrint ==
    /\ "print" \in faults /\ page = "Confirm" /\ NoModal /\ ~printing /\ chosen # NoFile
    /\ stack' = <<>> /\ page' = "Base"
    /\ UNCHANGED <<setupVars, disk, stickVars, listVars, changed, choosing, browsingUsb, chosen,
                   menu, copyVars, printing, checked>>

\* onIsPrintProcessChanged, whoever started the print, with
\* resetSettingsSwipeViewPages(); what the page of firmware updates is doing is not
\* reset.
PrintStarts ==
    /\ ~printing /\ "print" \in faults
    /\ printing' = TRUE
    /\ stack' = <<>> /\ page' = "Base"
    /\ UNCHANGED <<setupVars, disk, stickVars, listVars, changed, choosing, browsingUsb, chosen,
                   menu, copyVars, checked>>

UpdateCurrentThing ==
    /\ printing /\ chosen' = ThePrint
    /\ UNCHANGED <<setupVars, disk, stickVars, listVars, changed, stack, page, choosing,
                   browsingUsb, menu, copyVars, printing, checked>>

PrintEnds ==
    /\ printing /\ printing' = FALSE
    /\ UNCHANGED <<setupVars, disk, stickVars, listVars, changed, stack, pageVars, copyVars,
                   checked>>

\* resetSettingsSwipeViewPages() from the action of a notification.
TapNotice ==
    /\ "notice" \in faults /\ NoModal
    /\ page # "Base" /\ page' = "Base"
    /\ UNCHANGED <<setupVars, disk, stickVars, listVars, changed, stack, choosing, browsingUsb,
                   chosen, menu, copyVars, printing, checked>>

-----------------------------------------------------------------------------
(* Firmware files.                                                         *)

OpenFirmwarePage ==
    /\ page = "Base" /\ NoModal
    /\ page' = "Firmware"
    /\ inFreStep' \in IF "setup" \in faults THEN BOOLEAN ELSE {FALSE}
    /\ UNCHANGED <<faults, disk, stickVars, listVars, changed, stack, choosing, browsingUsb,
                   chosen, menu, copyVars, printing, checked>>

ChooseFile ==
    /\ page = "Firmware" /\ NoModal /\ ~choosing /\ ~printing /\ usbStorageConnected
    /\ choosing' = TRUE
    /\ storageFileType' = "Firmware" /\ stack' = <<>>
    /\ UpdateFirmwareFileList(Root("usb"))
    /\ UNCHANGED <<setupVars, disk, stickVars, page, browsingUsb, chosen, menu, copyVars,
                   printing, checked>>

\* updateFirmwareFileList() returns at once when the browser of prints was used.
FirmwareListOf(d) ==
    IF storageFileType = "Firmware"
    THEN UpdateFirmwareFileList(d)
    ELSE UNCHANGED <<prevDir, watched, changed, list>>

TapFirmwareFolder ==
    /\ page = "Firmware" /\ choosing /\ NoModal
    /\ "folder" \in list.entries /\ Len(stack) < MaxStack
    /\ BackStackPush(list.dir)
    /\ FirmwareListOf(Folder(list.dir.medium))
    /\ UNCHANGED <<setupVars, disk, stickVars, storageFileType, pageVars, copyVars, printing,
                   checked>>

FirmwareBack ==
    /\ page = "Firmware" /\ NoModal /\ ~inFreStep
    /\ IF choosing /\ stack # <<>>
       THEN /\ stack' = Front(stack) /\ FirmwareListOf(Last(stack))
            /\ UNCHANGED <<page, choosing>>
       ELSE /\ choosing' = FALSE
            /\ page' = IF choosing THEN page ELSE "Base"
            /\ UNCHANGED <<stack, prevDir, watched, changed, list>>
    /\ UNCHANGED <<setupVars, disk, stickVars, storageFileType, browsingUsb, chosen, menu,
                   copyVars, printing, checked>>

\* During the setup the back button asks whether to skip the step, and leaves the
\* page as it is.
SkipFirmwareStep ==
    /\ page = "Firmware" /\ NoModal /\ inFreStep
    /\ page' = "Base" /\ inFreStep' = FALSE
    /\ UNCHANGED <<faults, disk, stickVars, listVars, changed, stack, choosing, browsingUsb,
                   chosen, menu, copyVars, printing, checked>>

\* Each pid of the manifest overwrites what the one before it gave.
FirmwareIsValid(pids) == FoldLeft(LAMBDA valid, pid : pid = MachinePid, FALSE, pids)

TapFirmware ==
    /\ page = "Firmware" /\ choosing /\ NoModal /\ "zip" \in list.entries
    /\ \E pids \in Manifests :
        /\ checked' = [pids |-> pids, valid |-> FirmwareIsValid(pids)]
        /\ copying' = IF checked'.valid /\ IsFile([dir |-> list.dir, name |-> "zip"])
                      THEN list.dir ELSE copying
    /\ UNCHANGED <<setupVars, disk, stickVars, listVars, changed, stack, pageVars, popup,
                   printing>>

\* The file is copied and installed, or CANCEL.
FirmwareCopyEnds ==
    /\ copying # NoDir /\ popup = "None"
    /\ copying' = NoDir
    /\ \/ stack' = <<>> /\ choosing' = FALSE
       \/ UNCHANGED <<stack, choosing>>
    /\ UNCHANGED <<setupVars, disk, stickVars, listVars, changed, page, browsingUsb, chosen,
                   menu, popup, printing, checked>>

-----------------------------------------------------------------------------

Next ==
    \/ Plug \/ Mount \/ Unplug \/ Unmount \/ UpdateUsbStorageConnected
    \/ WriteInternal \/ DirectoryChanged
    \/ \E m \in Media : TapStorage(m)
    \/ TapFolder \/ Back \/ TapFile \/ BackToBrowser \/ Sort
    \/ OpenMenu \/ CloseMenu \/ TapRemove \/ TapAdd \/ ClosePopup \/ ViewFiles \/ CopyEnds
    \/ StartPrint \/ PrintStarts \/ UpdateCurrentThing \/ PrintEnds \/ TapNotice
    \/ OpenFirmwarePage \/ ChooseFile \/ TapFirmwareFolder \/ FirmwareBack
    \/ SkipFirmwareStep \/ TapFirmware \/ FirmwareCopyEnds

Spec == Init /\ [][Next]_vars

-----------------------------------------------------------------------------
(* Properties.                                                             *)

Choosing == page = "Firmware" /\ choosing

\* A list is on the screen, of a storage that is plugged in.
ListIsShown ==
    /\ list # NoList
    /\ \/ page = "Browser" /\ (browsingUsb => stick = "mounted")
       \/ Choosing /\ stick = "mounted"

\* The browser lists the storage its title and its menu name, so that "REMOVE FROM
\* PRINTER STORAGE" removes from it; the list of firmware files is one.
ShowsItsStorage ==
    ListIsShown =>
        /\ list.type = IF Choosing THEN "Firmware" ELSE "Print"
        /\ list.dir.medium = IF Choosing \/ browsingUsb THEN "usb" ELSE "internal"

\* What leaves a list, or makes one, without its stack: the files are viewed because
\* the storage is full, a list is made of a stick not yet mounted, a print or a
\* notification takes the user from a list, or the setup skips the step of the firmware
\* while its files are shown.
Undisturbed == faults \cap {"full", "late", "print", "notice", "setup"} = {}

\* It holds as long as none of these happens.
ShowsItsStorageBarring == Undisturbed => ShowsItsStorage

\* With nothing left to report, a list that is not empty is what its directory
\* holds.
ListIsTrue ==
    changed = {} /\ list # NoList /\ Exists(list.dir) /\ page \in {"Browser", "Firmware"} =>
        list.entries = Entries(list.dir, list.type)

\* Back leads from a folder to its own root, and from a root out of the browser, as
\* long as none of these happens.  From a folder it leads out only when the stick was
\* pulled while its menu was open.
BackGoesUp ==
    Undisturbed /\ ListIsShown /\ stack # <<>> =>
        list.dir.folder /\ stack = <<Root(list.dir.medium)>>

\* The menu acts on the file it was opened for.  The only other file it may act on is
\* that of a print which starts while it is open: its details replace those held.
MenuActsOnItsFile == menu # NoFile => chosen \in {menu, ThePrint}

\* "there exists a PID key within that file with a valid value."
ValidIfAnyPid == checked.valid <=> MachinePid \in ToSet(checked.pids)

=============================================================================
