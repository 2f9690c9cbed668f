------------------------ MODULE StorageBrowser_proofs ------------------------
(***************************************************************************)
(* For every content of the storage, every depth of the stack and every    *)
(* list of machines in a manifest: a list is true, belongs to the storage  *)
(* its page is about, and is where the back button leads up from; a menu   *)
(* acts on its file.                                                       *)
(***************************************************************************)
EXTENDS StorageBrowser, TLAPS

USE DEF setupVars

\* TypeOK, without the answer of FirmwareIsValid: it is a fold over the pids.
BrowserTyped ==
    /\ stack \in Seq(Dirs)
    /\ faults \in Scenarios
    /\ disk \in [Dirs -> SUBSET {"makerbot", "zip"}]
    /\ stick \in {"out", "seen", "mounted", "pulled"}
    /\ storageFileType \in {"Print", "Firmware"}
    /\ prevDir \in Dirs \cup {NoDir}
    /\ list \in [dir : Dirs \cup {NoDir}, type : {"Print", "Firmware"},
                 entries : SUBSET {"makerbot", "zip", "folder"}]
    /\ page \in {"Base", "Browser", "Confirm", "Firmware"}
    /\ chosen \in [dir : Dirs, name : {"makerbot"}] \cup {NoFile, ThePrint}

\* A report is pending for each watched directory of a stick that was unmounted.
WatchInv ==
    /\ changed \subseteq watched /\ watched \subseteq Dirs
    /\ \A d \in watched : Exists(d) \/ d \in changed

\* A list is of the directory listed last, which is watched, and it is what the
\* directory holds or a report is pending: no list outlives its stick.
ListInv ==
    list # NoList =>
        /\ list.dir = prevDir /\ prevDir \in watched
        /\ ~(prevDir.folder /\ "folder" \in list.entries)
        /\ \/ ~Exists(prevDir) \/ prevDir \in changed
           \/ list.entries = Entries(prevDir, list.type)

\* The page of a list of prints, or the menu that stays when the stick is pulled.
Browsing == page \in {"Browser", "Confirm"} \/ menu # NoFile

MediumShown == IF browsingUsb THEN "usb" ELSE "internal"

\* The page on the screen, the type of the lists and the directory listed last are of
\* one storage.
PageInv ==
    /\ stick # "seen" /\ popup # "Full" /\ ~printing
    /\ choosing => page = "Firmware" /\ storageFileType = "Firmware"
    /\ Browsing => /\ page # "Firmware" /\ storageFileType = "Print"
                   /\ prevDir.medium = MediumShown
    /\ storageFileType = "Firmware" => prevDir.medium = "usb"
    /\ list # NoList => list.type = storageFileType

\* Only the directory listed last is watched, but for those of a stick that is gone;
\* and the stack leads from it to its own root.
StackInv ==
    /\ \A d \in watched : d = prevDir \/ ~Exists(d)
    /\ stack # <<>> =>
        /\ stack = <<Root(prevDir.medium)>> /\ prevDir \in Dirs /\ prevDir.folder
        /\ page \in {"Browser", "Confirm"} \/ choosing
        /\ storageFileType = "Firmware" => watched \subseteq {prevDir}

TypesAndLists == BrowserTyped /\ WatchInv /\ ListInv
OneStorage == PageInv /\ StackInv

\* The page of the firmware is opened by the setup only where the setup runs.
SetupInv == inFreStep \in BOOLEAN /\ (inFreStep => "setup" \in faults)

BrowserInv == TypesAndLists /\ SetupInv /\ (Undisturbed => OneStorage)

-----------------------------------------------------------------------------
(* What the lists of a directory preserve.                                 *)

LEMMA DirsAre ==
    /\ \A d \in Dirs : d.medium \in Media /\ d.folder \in BOOLEAN /\ d # NoDir
    /\ \A m \in Media : Root(m) \in Dirs /\ Folder(m) \in Dirs
    /\ \A m \in Media : /\ Root(m).medium = m /\ ~Root(m).folder
                         /\ Folder(m).medium = m /\ Folder(m).folder
    /\ ~Exists(NoDir) /\ NoDir \notin Dirs
  BY DEF Dirs, Media, NoDir, Root, Folder, Exists

\* A directory that exists is listed and watched, and its report is still to come.
LEMMA WatchKeeps ==
    ASSUME WatchInv, prevDir \in Dirs \cup {NoDir}, NEW d \in Dirs, Watch(d),
           stick' = stick
    PROVE  /\ WatchInv' /\ prevDir' = d
           /\ Exists(d) => d \in watched'
           /\ \A e \in watched' : e = d \/ (e \in watched /\ (e # prevDir \/ ~Exists(e)))
  BY DEF Watch, WatchInv, Exists

LEMMA ListsIt ==
    ASSUME BrowserTyped, NEW d \in Dirs, NEW type \in {"Print", "Firmware"},
           Lists(d, type), stick' = stick, disk' = disk
    PROVE  /\ list' \in [dir : Dirs \cup {NoDir}, type : {"Print", "Firmware"},
                         entries : SUBSET {"makerbot", "zip", "folder"}]
           /\ ~Exists(d) => list' = NoList
           /\ list' # NoList =>
                /\ list'.dir = d /\ list'.type = type
                /\ list'.entries = Entries(d, type)'
                /\ ~(d.folder /\ "folder" \in list'.entries)
  <1>1. Entries(d, type) \in SUBSET {"makerbot", "zip", "folder"}
    BY DEF Entries, BrowserTyped
  <1>2. Entries(d, type)' = Entries(d, type)
    BY DEF Entries
  <1>3. d.folder => "folder" \notin Entries(d, type)
    BY DEF Entries, BrowserTyped
  <1> QED
    BY <1>1, <1>2, <1>3 DEF Lists, NoList

\* updatePrintFileList() keeps what it had when the directory is gone.
LEMMA PrintRelists ==
    ASSUME BrowserTyped, WatchInv, NEW d \in Dirs, UpdatePrintFileList(d),
           stick' = stick, disk' = disk
    PROVE  /\ WatchInv' /\ ListInv'
           /\ prevDir' = IF Exists(d) THEN d ELSE prevDir
           /\ list' \in [dir : Dirs \cup {NoDir}, type : {"Print", "Firmware"},
                         entries : SUBSET {"makerbot", "zip", "folder"}]
           /\ list' # NoList => list'.type = "Print"
           /\ \A e \in watched' :
                e = prevDir' \/ (e \in watched /\ (e # prevDir \/ ~Exists(e)))
  <1>1. Lists(d, "Print")
    BY DEF UpdatePrintFileList
  <1>2. CASE Exists(d)
    <2>1. Watch(d)
      BY <1>2 DEF UpdatePrintFileList
    <2> QED
      BY <1>1, <1>2, <2>1, WatchKeeps, ListsIt DEF ListInv, BrowserTyped
  <1>3. CASE ~Exists(d)
    <2>1. UNCHANGED <<prevDir, watched, changed>> /\ list' = NoList
      BY <1>1, <1>3, ListsIt DEF UpdatePrintFileList
    <2>2. WatchInv'
      BY <2>1 DEF WatchInv, Exists
    <2>3. ListInv'
      BY <2>1 DEF ListInv, NoList
    <2>4. \A e \in watched' :
             e = prevDir' \/ (e \in watched /\ (e # prevDir \/ ~Exists(e)))
      BY <2>1
    <2> QED
      BY <1>1, <1>3, <2>1, <2>2, <2>3, <2>4, ListsIt
  <1> QED
    BY <1>2, <1>3

LEMMA FirmwareRelists ==
    ASSUME BrowserTyped, WatchInv, NEW d \in Dirs, UpdateFirmwareFileList(d),
           stick' = stick, disk' = disk
    PROVE  /\ WatchInv' /\ ListInv' /\ prevDir' = d
           /\ list' \in [dir : Dirs \cup {NoDir}, type : {"Print", "Firmware"},
                         entries : SUBSET {"makerbot", "zip", "folder"}]
           /\ list' # NoList => list'.type = "Firmware"
           /\ \A e \in watched' :
                e = prevDir' \/ (e \in watched /\ (e # prevDir \/ ~Exists(e)))
  <1>1. Watch(d) /\ Lists(d, "Firmware")
    BY DEF UpdateFirmwareFileList
  <1> QED
    BY <1>1, WatchKeeps, ListsIt DEF ListInv, BrowserTyped

\* The lists an action does not touch.
LEMMA SameLists ==
    ASSUME WatchInv, ListInv, UNCHANGED <<stick, listVars, changed, disk>>
    PROVE  WatchInv' /\ ListInv'
  BY DEF WatchInv, ListInv, listVars, Exists, Entries

\* The stack after a push and a pop.
LEMMA StackOps ==
    ASSUME stack \in Seq(Dirs)
    PROVE  /\ \A d \in Dirs : Append(stack, d) \in Seq(Dirs)
           /\ stack # <<>> => Last(stack) \in Dirs /\ Front(stack) \in Seq(Dirs)
           /\ \A d \in Dirs : stack = <<d>> => Last(stack) = d /\ Front(stack) = <<>>
  <1>1. \A d \in Dirs : Append(stack, d) \in Seq(Dirs)
    OBVIOUS
  <1>2. ASSUME stack # <<>>
        PROVE  Last(stack) \in Dirs /\ Front(stack) \in Seq(Dirs)
    <2>1. Len(stack) \in Nat /\ Len(stack) > 0
      BY <1>2
    <2>2. \A i \in 1 .. Len(stack) : stack[i] \in Dirs
      OBVIOUS
    <2>3. Last(stack) \in Dirs
      BY <2>1, <2>2 DEF Last
    <2>4. SubSeq(stack, 1, Len(stack) - 1) \in Seq(Dirs)
      BY <2>1, <2>2
    <2> QED
      BY <2>3, <2>4 DEF Front
  <1>3. ASSUME NEW d \in Dirs, stack = <<d>>
        PROVE  Last(stack) = d /\ Front(stack) = <<>>
    <2>1. Len(stack) = 1 /\ stack[1] = d
      BY <1>3
    <2>2. SubSeq(stack, 1, 0) = <<>>
      OBVIOUS
    <2> QED
      BY <2>1, <2>2 DEF Last, Front
  <1> QED
    BY <1>1, <1>2, <1>3

-----------------------------------------------------------------------------
(* The steps preserve the types and the lists.                             *)

LEMMA DirectoryChangedKeeps ==
    ASSUME TypesAndLists, DirectoryChanged
    PROVE  TypesAndLists'
  <1> USE DEF TypesAndLists
  <1>1. PICK d \in changed :
        /\ IF Exists(d)
           THEN IF storageFileType = "Print"
                THEN UpdatePrintFileList(d) ELSE UpdateFirmwareFileList(d)
           ELSE /\ watched' = watched \ {d} /\ changed' = changed \ {d}
                /\ list' = NoList
                /\ prevDir' = IF storageFileType = "Print" THEN prevDir ELSE d
        /\ UNCHANGED <<faults, disk, stickVars, storageFileType, stack, pageVars, copyVars,
                       printing, checked>>
    BY DEF DirectoryChanged
  <1>2. d \in Dirs
    BY DEF WatchInv
  <1>3. UNCHANGED <<faults, disk, stick, storageFileType, stack, page, chosen>>
    BY <1>1 DEF stickVars, pageVars
  <1>4. CASE Exists(d) /\ storageFileType = "Print"
    BY <1>1, <1>2, <1>3, <1>4, PrintRelists DEF BrowserTyped
  <1>5. CASE Exists(d) /\ storageFileType # "Print"
    BY <1>1, <1>2, <1>3, <1>5, FirmwareRelists DEF BrowserTyped
  <1>6. CASE ~Exists(d)
    <2>1. BrowserTyped'
      BY <1>1, <1>2, <1>3, <1>6 DEF BrowserTyped, NoList
    <2>2. WatchInv' /\ ListInv'
      BY <1>1, <1>3, <1>6 DEF WatchInv, ListInv, Exists
    <2> QED
      BY <2>1, <2>2
  <1> QED
    BY <1>4, <1>5, <1>6

\* The stick is plugged in when nothing of the one before is left to report, and so
\* nothing of it is watched.
LEMMA PlugKeeps ==
    ASSUME TypesAndLists, Plug
    PROVE  TypesAndLists' /\ \A d \in watched : d.medium = "internal"
  <1> USE DEF TypesAndLists
  <1>1. PICK c \in Contents("usb") :
            disk' = [d \in Dirs |-> IF d.medium = "usb" THEN c[d] ELSE disk[d]]
    BY DEF Plug
  <1>2. /\ stick = "out" /\ {d \in changed : d.medium = "usb"} = {}
        /\ stick' \in {"seen", "mounted"}
        /\ UNCHANGED <<faults, storageFileType, prevDir, watched, list, changed, stack, page,
                       chosen>>
    BY DEF Plug, listVars, pageVars
  <1>3. \A d \in watched : d \in Dirs /\ d.medium = "internal"
    BY <1>2, DirsAre DEF WatchInv, Exists, Media
  <1>4. disk' \in [Dirs -> SUBSET {"makerbot", "zip"}]
    <2>1. c \in [{Root("usb"), Folder("usb")} -> SUBSET {"makerbot", "zip"}]
      BY DEF Contents
    <2>2. \A d \in Dirs : d.medium = "usb" => d \in {Root("usb"), Folder("usb")}
      BY DEF Dirs, Root, Folder
    <2>3. \A d \in Dirs : d.medium = "usb" => c[d] \in SUBSET {"makerbot", "zip"}
      BY <2>1, <2>2
    <2> QED
      BY <1>1, <2>3 DEF BrowserTyped
  <1>5. BrowserTyped'
    BY <1>2, <1>4 DEF BrowserTyped
  <1>6. WatchInv'
    BY <1>2, <1>3 DEF WatchInv, Exists
  <1>7. ListInv'
    <2>1. \A d \in watched : \A type : Entries(d, type)' = Entries(d, type)
      BY <1>1, <1>3 DEF Entries
    <2> QED
      BY <1>2, <1>3, <2>1 DEF ListInv, Exists
  <1> QED
    BY <1>3, <1>5, <1>6, <1>7

\* Whoever writes or removes a file of a watched directory, it is reported.
LEMMA WriteKeeps ==
    ASSUME TypesAndLists, NEW d \in Dirs, NEW files \in SUBSET {"makerbot", "zip"},
           disk' = [disk EXCEPT ![d] = files],
           changed' = changed \cup ({d} \cap watched),
           UNCHANGED <<faults, stick, listVars, stack>>,
           BrowserTyped => page' \in {"Base", "Browser", "Confirm", "Firmware"},
           BrowserTyped =>
               chosen' \in [dir : Dirs, name : {"makerbot"}] \cup {NoFile, ThePrint}
    PROVE  TypesAndLists'
  <1> USE DEF TypesAndLists, listVars
  <1>1. BrowserTyped'
    BY DEF BrowserTyped
  <1>2. WatchInv'
    BY DEF WatchInv, Exists
  <1>3. ListInv'
    <2>1. \A e \in Dirs : \A type : e # d => Entries(e, type)' = Entries(e, type)
      BY DEF Entries, BrowserTyped
    <2> QED
      BY <2>1 DEF ListInv, WatchInv, Exists
  <1> QED
    BY <1>1, <1>2, <1>3

\* A list with an entry is of a directory.
LEMMA ListedDir ==
    ASSUME TypesAndLists, NEW e \in list.entries
    PROVE  list.dir \in Dirs /\ list.dir.medium \in Media /\ list.dir = prevDir
  <1>1. list # NoList
    BY DEF NoList
  <1> QED
    BY <1>1, DirsAre DEF TypesAndLists, WatchInv, ListInv

LEMMA StickKeeps ==
    ASSUME TypesAndLists, Mount \/ Unplug \/ Unmount
    PROVE  TypesAndLists'
  <1> USE DEF TypesAndLists, listVars, pageVars
  <1>1. CASE Mount \/ Unplug
    <2>1. BrowserTyped'
      BY <1>1 DEF Mount, Unplug, BrowserTyped
    <2>2. \A d \in Dirs : Exists(d) => Exists(d)'
      BY <1>1 DEF Mount, Unplug, Exists
    <2>3. \A d \in Dirs : Exists(d)' => Exists(d) \/ Mount
      BY <1>1 DEF Unplug, Exists
    <2>4. UNCHANGED <<disk, changed, listVars>>
      BY <1>1 DEF Mount, Unplug
    <2>5. WatchInv'
      BY <2>2, <2>4 DEF WatchInv
    <2>6. ListInv'
      BY <2>3, <2>4 DEF WatchInv, ListInv, Entries
    <2> QED
      BY <2>1, <2>5, <2>6
  <1>2. CASE Unmount
    <2>1. BrowserTyped'
      BY <1>2 DEF Unmount, BrowserTyped
    <2>2. /\ UNCHANGED <<disk, listVars>>
          /\ changed' = changed \cup {d \in watched : d.medium = "usb"}
      BY <1>2 DEF Unmount
    <2>3. \A d \in Dirs : Exists(d)' => Exists(d)
      BY <1>2 DEF Unmount, Exists
    <2>4. \A d \in Dirs : d.medium = "usb" \/ Exists(d)'
      BY <1>2, DirsAre DEF Exists, Media
    <2>5. WatchInv'
      BY <2>2, <2>4 DEF WatchInv
    <2>6. ListInv'
      BY <2>2, <2>3 DEF ListInv, WatchInv, Entries
    <2> QED
      BY <2>1, <2>5, <2>6
  <1> QED
    BY <1>1, <1>2

LEMMA UsbConnectedKeeps ==
    ASSUME TypesAndLists, UpdateUsbStorageConnected
    PROVE  TypesAndLists'
  <1> USE DEF TypesAndLists, UpdateUsbStorageConnected
  <1>1. stack' = stack \/ stack' = <<>>
    OBVIOUS
  <1>2. list' = list \/ list' = NoList
    OBVIOUS
  <1>3. page' = page \/ page' = "Base"
    OBVIOUS
  <1>4. UNCHANGED <<faults, disk, stick, storageFileType, prevDir, watched, changed, chosen>>
    OBVIOUS
  <1> HIDE DEF UpdateUsbStorageConnected
  <1>5. BrowserTyped'
    <2>1. stack' \in Seq(Dirs)
      <3>1. stack \in Seq(Dirs) /\ <<>> \in Seq(Dirs)
        BY DEF BrowserTyped
      <3> QED
        BY <1>1, <3>1
    <2>2. list' \in [dir : Dirs \cup {NoDir}, type : {"Print", "Firmware"},
                    entries : SUBSET {"makerbot", "zip", "folder"}]
      BY <1>2 DEF BrowserTyped, NoList
    <2>3. page' \in {"Base", "Browser", "Confirm", "Firmware"}
      BY <1>3 DEF BrowserTyped
    <2> QED
      BY <1>4, <2>1, <2>2, <2>3 DEF BrowserTyped
  <1>6. WatchInv'
    BY <1>4 DEF WatchInv, Exists
  <1>7. ListInv'
    BY <1>2, <1>4 DEF ListInv, Exists, Entries
  <1> QED
    BY <1>5, <1>6, <1>7

\* The actions that write: a download, the menu, a copy.
LEMMA WritersKeep ==
    ASSUME TypesAndLists, WriteInternal \/ TapRemove \/ CopyEnds
    PROVE  TypesAndLists'
  <1> USE DEF TypesAndLists
  <1>1. CASE WriteInternal
    <2>1. PICK d \in {Root("internal"), Folder("internal")} :
            /\ disk' = [disk EXCEPT ![d] = @ \cup {"makerbot"}]
            /\ changed' = changed \cup ({d} \cap watched)
            /\ UNCHANGED <<faults, stickVars, listVars, stack, pageVars>>
      BY <1>1 DEF WriteInternal
    <2>2. d \in Dirs /\ disk[d] \cup {"makerbot"} \in SUBSET {"makerbot", "zip"}
      BY DirsAre DEF Media, BrowserTyped
    <2>3. disk' = [disk EXCEPT ![d] = disk[d] \cup {"makerbot"}]
      BY <2>1
    <2>4. UNCHANGED <<faults, stick, listVars, stack, page, chosen>>
      BY <2>1 DEF stickVars, pageVars
    <2> QED
      BY <2>1, <2>2, <2>3, <2>4, WriteKeeps DEF BrowserTyped
  <1>2. CASE TapRemove
    <2>1. UNCHANGED <<faults, stick, listVars, stack, chosen>> /\ page' = "Browser"
      BY <1>2 DEF TapRemove, stickVars
    <2>2. CASE IsFile(chosen)
      <3>1. chosen.dir \in Dirs
        <4>1. chosen.dir \in Dirs \cup {NoDir}
          <5>1. chosen \in [dir : Dirs, name : {"makerbot"}] \cup {NoFile, ThePrint}
            BY DEF BrowserTyped
          <5>2. NoFile.dir = NoDir /\ ThePrint.dir = NoDir
            BY DEF NoFile, ThePrint
          <5>3. CASE chosen \in [dir : Dirs, name : {"makerbot"}]
            BY <5>3
          <5> QED
            BY <5>1, <5>2, <5>3
        <4>2. chosen.dir # NoDir
          BY <2>2 DEF IsFile, Exists, NoDir
        <4> QED
          BY <4>1, <4>2
      <3>2. disk[chosen.dir] \ {chosen.name} \in SUBSET {"makerbot", "zip"}
        BY <3>1 DEF BrowserTyped
      <3>3. /\ disk' = [disk EXCEPT ![chosen.dir] = disk[chosen.dir] \ {chosen.name}]
            /\ changed' = changed \cup ({chosen.dir} \cap watched)
        BY <1>2, <2>2 DEF TapRemove
      <3> QED
        BY <2>1, <3>1, <3>2, <3>3, WriteKeeps DEF BrowserTyped
    <2>3. CASE ~IsFile(chosen)
      <3>1. UNCHANGED <<disk, changed>>
        BY <1>2, <2>3 DEF TapRemove
      <3>2. BrowserTyped'
        BY <2>1, <3>1 DEF BrowserTyped, listVars
      <3> QED
        BY <2>1, <3>1, <3>2, SameLists
    <2> QED
      BY <2>2, <2>3
  <1>3. CASE CopyEnds
    <2>1. /\ Root("internal") \in Dirs
          /\ disk[Root("internal")] \cup {"makerbot"} \in SUBSET {"makerbot", "zip"}
      BY DirsAre DEF Media, BrowserTyped
    <2>2. /\ disk' = [disk EXCEPT ![Root("internal")] =
                                    disk[Root("internal")] \cup {"makerbot"}]
          /\ changed' = changed \cup ({Root("internal")} \cap watched)
          /\ UNCHANGED <<faults, stick, listVars, stack, page, chosen>>
      BY <1>3 DEF CopyEnds, stickVars, pageVars
    <2> QED
      BY <2>1, <2>2, WriteKeeps DEF BrowserTyped
  <1> QED
    BY <1>1, <1>2, <1>3

\* The actions that list another directory, or the same one again.
LEMMA ListersKeep ==
    ASSUME TypesAndLists,
           \/ \E m \in Media : TapStorage(m)
           \/ TapFolder \/ Back \/ Sort \/ ViewFiles
           \/ ChooseFile \/ TapFirmwareFolder \/ FirmwareBack
    PROVE  TypesAndLists'
  <1> USE DEF TypesAndLists, stickVars, pageVars
  <1>1. ASSUME NEW m \in Media, Browse(m), UNCHANGED <<faults, disk, stick, stack, chosen>>
        PROVE  TypesAndLists'
    <2>1. /\ storageFileType' = "Print" /\ page' = "Browser"
          /\ UpdatePrintFileList(Root(m)) /\ Root(m) \in Dirs
      BY <1>1, DirsAre DEF Browse
    <2> QED
      BY <1>1, <2>1, PrintRelists DEF BrowserTyped
  <1>2. CASE \E m \in Media : TapStorage(m)
    BY <1>1, <1>2 DEF TapStorage
  <1>3. CASE ViewFiles
    BY <1>1, <1>3 DEF ViewFiles, Media
  <1>4. CASE TapFolder
    <2>1. list.dir \in Dirs /\ Folder(list.dir.medium) \in Dirs
      BY <1>4, ListedDir, DirsAre DEF TapFolder
    <2>2. stack' \in Seq(Dirs)
      BY <1>4, <2>1, StackOps DEF TapFolder, BackStackPush, BrowserTyped
    <2>3. /\ UpdatePrintFileList(Folder(list.dir.medium))
          /\ UNCHANGED <<faults, disk, stick, storageFileType, page, chosen>>
      BY <1>4 DEF TapFolder
    <2> QED
      BY <2>1, <2>2, <2>3, PrintRelists DEF BrowserTyped
  <1>5. CASE Back
    <2>1. /\ UNCHANGED <<faults, disk, stick, storageFileType>>
          /\ chosen' = NoFile /\ page' \in {page, "Base"}
      BY <1>5 DEF Back
    <2>2. CASE stack = <<>>
      <3>1. UNCHANGED <<stack, prevDir, watched, changed, list>>
        BY <1>5, <2>2 DEF Back
      <3>2. BrowserTyped'
        BY <2>1, <3>1 DEF BrowserTyped
      <3> QED
        BY <2>1, <3>1, <3>2, SameLists DEF listVars
    <2>3. CASE stack # <<>>
      <3>1. stack' = Front(stack) /\ UpdatePrintFileList(Last(stack))
        BY <1>5, <2>3 DEF Back
      <3>2. stack' \in Seq(Dirs) /\ Last(stack) \in Dirs
        BY <2>3, <3>1, StackOps DEF BrowserTyped
      <3> QED
        BY <2>1, <3>1, <3>2, PrintRelists DEF BrowserTyped
    <2> QED
      BY <2>2, <2>3
  <1>6. CASE Sort
    <2>1. /\ prevDir \in Dirs /\ UpdatePrintFileList(prevDir)
          /\ UNCHANGED <<faults, disk, stick, storageFileType, stack, page, chosen>>
      BY <1>6 DEF Sort, BrowserTyped
    <2> QED
      BY <2>1, PrintRelists DEF BrowserTyped
  <1>7. ASSUME NEW d \in Dirs, FirmwareListOf(d), stack' \in Seq(Dirs),
               UNCHANGED <<faults, disk, stick, storageFileType, page, chosen>>
        PROVE  TypesAndLists'
    <2>1. CASE storageFileType = "Firmware"
      BY <1>7, <2>1, FirmwareRelists DEF FirmwareListOf, BrowserTyped
    <2>2. CASE storageFileType # "Firmware"
      <3>1. UNCHANGED <<prevDir, watched, changed, list>>
        BY <1>7, <2>2 DEF FirmwareListOf
      <3>2. BrowserTyped'
        BY <1>7, <3>1 DEF BrowserTyped
      <3> QED
        BY <1>7, <3>1, <3>2, SameLists DEF listVars
    <2> QED
      BY <2>1, <2>2
  <1>8. CASE ChooseFile
    <2>1. /\ UpdateFirmwareFileList(Root("usb")) /\ Root("usb") \in Dirs
          /\ UNCHANGED <<faults, disk, stick, page, chosen>>
          /\ storageFileType' = "Firmware" /\ stack' = <<>>
      BY <1>8, DirsAre DEF ChooseFile, Media
    <2>2. stack' \in Seq(Dirs)
      BY <2>1
    <2> QED
      BY <2>1, <2>2, FirmwareRelists DEF BrowserTyped
  <1>9. CASE TapFirmwareFolder
    <2>1. list.dir \in Dirs /\ Folder(list.dir.medium) \in Dirs
      BY <1>9, ListedDir, DirsAre DEF TapFirmwareFolder
    <2>2. stack' \in Seq(Dirs)
      BY <1>9, <2>1, StackOps DEF TapFirmwareFolder, BackStackPush, BrowserTyped
    <2> QED
      BY <1>7, <1>9, <2>1, <2>2 DEF TapFirmwareFolder
  <1>10. CASE FirmwareBack
    <2>1. UNCHANGED <<faults, disk, stick, storageFileType, chosen>>
      BY <1>10 DEF FirmwareBack
    <2>2. CASE choosing /\ stack # <<>>
      <3>1. stack' = Front(stack) /\ FirmwareListOf(Last(stack)) /\ UNCHANGED page
        BY <1>10, <2>2 DEF FirmwareBack
      <3>2. stack' \in Seq(Dirs) /\ Last(stack) \in Dirs
        BY <2>2, <3>1, StackOps DEF BrowserTyped
      <3> QED
        BY <1>7, <2>1, <3>1, <3>2
    <2>3. CASE ~(choosing /\ stack # <<>>)
      <3>1. UNCHANGED <<stack, prevDir, watched, changed, list>> /\ page' \in {page, "Base"}
        BY <1>10, <2>3 DEF FirmwareBack
      <3>2. BrowserTyped'
        BY <2>1, <3>1 DEF BrowserTyped
      <3> QED
        BY <2>1, <3>1, <3>2, SameLists DEF listVars
    <2> QED
      BY <2>2, <2>3
  <1> QED
    BY <1>2, <1>3, <1>4, <1>5, <1>6, <1>8, <1>9, <1>10

\* The actions that leave lists and directories alone.
LEMMA OthersKeep ==
    ASSUME TypesAndLists,
           \/ TapFile \/ BackToBrowser \/ OpenMenu \/ CloseMenu \/ TapAdd \/ ClosePopup
           \/ StartPrint \/ PrintStarts \/ UpdateCurrentThing \/ PrintEnds \/ TapNotice
           \/ OpenFirmwarePage \/ SkipFirmwareStep \/ TapFirmware \/ FirmwareCopyEnds
           \/ UNCHANGED vars
    PROVE  TypesAndLists'
  <1>1. UNCHANGED <<faults, disk, stick, listVars, changed>>
    BY DEF TapFile, BackToBrowser, OpenMenu, CloseMenu, TapAdd, ClosePopup, StartPrint,
           PrintStarts, UpdateCurrentThing, PrintEnds, TapNotice, OpenFirmwarePage,
           SkipFirmwareStep, TapFirmware, FirmwareCopyEnds, vars, stickVars
  <1>2. stack' = stack \/ stack' = <<>>
    BY DEF TapFile, BackToBrowser, OpenMenu, CloseMenu, TapAdd, ClosePopup, StartPrint,
           PrintStarts, UpdateCurrentThing, PrintEnds, TapNotice, OpenFirmwarePage,
           SkipFirmwareStep, TapFirmware, FirmwareCopyEnds, vars
  <1>3. page' \in {page, "Base", "Browser", "Confirm", "Firmware"}
    BY DEF TapFile, BackToBrowser, OpenMenu, CloseMenu, TapAdd, ClosePopup, StartPrint,
           PrintStarts, UpdateCurrentThing, PrintEnds, TapNotice, OpenFirmwarePage,
           SkipFirmwareStep, TapFirmware, FirmwareCopyEnds, vars, pageVars
  <1>4. \/ chosen' \in {chosen, NoFile, ThePrint}
        \/ "makerbot" \in list.entries /\ chosen' = [dir |-> list.dir, name |-> "makerbot"]
    BY DEF TapFile, BackToBrowser, OpenMenu, CloseMenu, TapAdd, ClosePopup, StartPrint,
           PrintStarts, UpdateCurrentThing, PrintEnds, TapNotice, OpenFirmwarePage,
           SkipFirmwareStep, TapFirmware, FirmwareCopyEnds, vars, pageVars
  <1>5. chosen' \in [dir : Dirs, name : {"makerbot"}] \cup {NoFile, ThePrint}
    BY <1>4, ListedDir DEF TypesAndLists, BrowserTyped
  <1>6. stack' \in Seq(Dirs)
    <2>1. stack \in Seq(Dirs) /\ <<>> \in Seq(Dirs)
      BY DEF TypesAndLists, BrowserTyped
    <2> QED
      BY <1>2, <2>1
  <1>7. BrowserTyped'
    BY <1>1, <1>3, <1>5, <1>6 DEF TypesAndLists, BrowserTyped, listVars
  <1> QED
    BY <1>1, <1>7, SameLists DEF TypesAndLists

LEMMA TypesAndListsKept ==
    ASSUME TypesAndLists, [Next]_vars
    PROVE  TypesAndLists'
  BY DirectoryChangedKeeps, PlugKeeps, StickKeeps, UsbConnectedKeeps, WritersKeep,
     ListersKeep, OthersKeep DEF Next

-----------------------------------------------------------------------------
(* The steps preserve that page, lists, directory and stack are of one     *)
(* storage, in a behaviour that nothing disturbs.                          *)

\* The pages: nothing is listed, and what leaves a list leaves its stack empty.
LEMMA PagesKeepStorage ==
    ASSUME TypesAndLists, SetupInv, OneStorage, Undisturbed,
           \/ WriteInternal \/ TapFile \/ BackToBrowser \/ OpenMenu \/ CloseMenu
           \/ TapRemove \/ TapAdd \/ ClosePopup \/ CopyEnds
           \/ StartPrint \/ PrintStarts \/ UpdateCurrentThing \/ PrintEnds \/ TapNotice
           \/ OpenFirmwarePage \/ SkipFirmwareStep \/ TapFirmware \/ FirmwareCopyEnds
           \/ UNCHANGED vars
    PROVE  OneStorage'
  <1>0. ~SkipFirmwareStep
    BY DEF SkipFirmwareStep, SetupInv, Undisturbed
  <1>1. UNCHANGED <<stick, listVars>>
    BY <1>0 DEF WriteInternal, TapFile, BackToBrowser, OpenMenu, CloseMenu, TapRemove, TapAdd,
           ClosePopup, CopyEnds, StartPrint, PrintStarts, UpdateCurrentThing, PrintEnds,
           TapNotice, OpenFirmwarePage, TapFirmware, FirmwareCopyEnds, vars, stickVars
  <1>2. /\ UNCHANGED browsingUsb /\ ~printing' /\ popup' # "Full"
        /\ choosing' => choosing /\ page' = page
        /\ Browsing' => Browsing /\ page' # "Firmware"
        /\ \/ stack' = <<>>
           \/ /\ stack' = stack /\ choosing' = choosing
              /\ page \in {"Browser", "Confirm"} => page' \in {"Browser", "Confirm"}
    <2>1. CASE WriteInternal \/ CloseMenu \/ ClosePopup \/ CopyEnds \/ TapFirmware
                   \/ UNCHANGED vars
      BY <2>1 DEF WriteInternal, CloseMenu, ClosePopup, CopyEnds, TapFirmware, pageVars,
                  copyVars, vars, OneStorage, PageInv, Browsing
    <2>2. CASE TapFile \/ BackToBrowser \/ OpenMenu
      BY <2>2 DEF TapFile, BackToBrowser, OpenMenu, pageVars, copyVars, OneStorage, PageInv,
                  Browsing
    <2>3. CASE TapRemove \/ TapAdd
      BY <2>3 DEF TapRemove, TapAdd, pageVars, copyVars, OneStorage, PageInv, Browsing,
                  Undisturbed
    <2>4. CASE OpenFirmwarePage
      BY <2>4 DEF OpenFirmwarePage, copyVars, OneStorage, PageInv, Browsing, NoModal
    <2>5. CASE FirmwareCopyEnds
      BY <2>5 DEF FirmwareCopyEnds, OneStorage, PageInv, Browsing
    <2>6. ~(StartPrint \/ PrintStarts \/ UpdateCurrentThing \/ PrintEnds \/ TapNotice)
      BY DEF StartPrint, PrintStarts, UpdateCurrentThing, PrintEnds, TapNotice, OneStorage,
             PageInv, Undisturbed
    <2> QED
      BY <1>0, <2>1, <2>2, <2>3, <2>4, <2>5, <2>6
  <1>3. PageInv'
    BY <1>1, <1>2 DEF OneStorage, PageInv, MediumShown, listVars
  <1>4. StackInv'
    BY <1>1, <1>2 DEF OneStorage, StackInv, listVars, Exists
  <1> QED
    BY <1>3, <1>4 DEF OneStorage

\* The stick: it comes when nothing of it is watched.
LEMMA StickKeepsStorage ==
    ASSUME TypesAndLists, OneStorage, Undisturbed, Plug \/ Mount \/ Unplug \/ Unmount
    PROVE  OneStorage'
  <1>1. ~Mount
    BY DEF Mount, OneStorage, PageInv
  <1>2. /\ UNCHANGED <<listVars, stack, pageVars, copyVars, printing>>
        /\ stick' # "seen"
    BY <1>1 DEF Plug, Unplug, Unmount, OneStorage, PageInv, Undisturbed
  <1>3. PageInv'
    BY <1>2 DEF OneStorage, PageInv, MediumShown, listVars, pageVars, copyVars, Browsing
  <1>4. \A d \in watched : d = prevDir \/ ~Exists(d)'
    <2>1. CASE Plug
      BY <2>1, PlugKeeps DEF OneStorage, StackInv, Exists
    <2>2. CASE Unplug \/ Unmount
      BY <2>2 DEF Unplug, Unmount, OneStorage, StackInv, Exists
    <2> QED
      BY <1>1, <2>1, <2>2
  <1>5. StackInv'
    BY <1>2, <1>4 DEF OneStorage, StackInv, listVars, pageVars
  <1> QED
    BY <1>3, <1>5 DEF OneStorage

\* The pages that use the stick are left, and the stack with them.
LEMMA UsbConnectedKeepsStorage ==
    ASSUME TypesAndLists, OneStorage, UpdateUsbStorageConnected
    PROVE  OneStorage'
  <1> DEFINE connected == stick \in {"seen", "mounted"}
             leaves == usbStorageConnected /\ ~connected
  <1>1. UNCHANGED <<stick, storageFileType, prevDir, watched, browsingUsb, menu, popup,
                   printing>>
    BY DEF UpdateUsbStorageConnected
  <1>2. /\ page' = page \/ (page' = "Base" /\ leaves /\ browsingUsb
                               /\ page \in {"Browser", "Confirm"})
        /\ choosing' => choosing
        /\ choosing /\ ~choosing' => leaves
        /\ list' = list \/ list' = NoList
        /\ stack' = IF ~connected /\ prevDir.medium = "usb" THEN <<>> ELSE stack
    BY DEF UpdateUsbStorageConnected
  <1> HIDE DEF connected
  <1>3. PageInv'
    BY <1>1, <1>2 DEF OneStorage, PageInv, MediumShown, Browsing
  <1>4. StackInv'
    BY <1>1, <1>2 DEF OneStorage, PageInv, StackInv, MediumShown, Browsing, Exists
  <1> QED
    BY <1>3, <1>4 DEF OneStorage

\* What a new list leaves watched.
LEMMA RelistedIsWatched ==
    ASSUME StackInv, stick' = stick,
           \A e \in watched' :
                e = prevDir' \/ (e \in watched /\ (e # prevDir \/ ~Exists(e)))
    PROVE  \A e \in watched' : e = prevDir' \/ ~Exists(e)'
  BY DEF StackInv, Exists

\* A report is of the directory listed last, or of a stick that is gone; it moves that
\* directory only under an empty stack.
LEMMA DirectoryChangedKeepsStorage ==
    ASSUME TypesAndLists, OneStorage, DirectoryChanged
    PROVE  OneStorage'
  <1>1. PICK d \in changed :
        /\ IF Exists(d)
           THEN IF storageFileType = "Print"
                THEN UpdatePrintFileList(d) ELSE UpdateFirmwareFileList(d)
           ELSE /\ watched' = watched \ {d} /\ changed' = changed \ {d}
                /\ list' = NoList
                /\ prevDir' = IF storageFileType = "Print" THEN prevDir ELSE d
        /\ UNCHANGED <<faults, disk, stickVars, storageFileType, stack, pageVars, copyVars,
                       printing, checked>>
    BY DEF DirectoryChanged
  <1>2. d \in Dirs /\ d \in watched
    BY DEF TypesAndLists, WatchInv
  <1>3. UNCHANGED <<disk, stick, storageFileType, stack, page, choosing, browsingUsb, menu,
                   popup, printing>>
    BY <1>1 DEF stickVars, pageVars, copyVars
  <1>4. storageFileType \in {"Print", "Firmware"}
    BY DEF TypesAndLists, BrowserTyped
  <1>5. CASE Exists(d)
    <2>1. d = prevDir
      BY <1>2, <1>5 DEF OneStorage, StackInv
    <2>2. /\ prevDir' = prevDir
          /\ list' # NoList => list'.type = storageFileType
          /\ \A e \in watched' :
                e = prevDir' \/ (e \in watched /\ (e # prevDir \/ ~Exists(e)))
      BY <1>1, <1>2, <1>3, <1>4, <1>5, <2>1, PrintRelists, FirmwareRelists
         DEF TypesAndLists
    <2>3. PageInv'
      BY <1>3, <2>2 DEF OneStorage, PageInv, MediumShown, Browsing
    <2>4. \A e \in watched' : e = prevDir' \/ ~Exists(e)'
      BY <1>3, <2>2, RelistedIsWatched DEF OneStorage
    <2>5. storageFileType = "Firmware" /\ watched \subseteq {prevDir}
            => watched' \subseteq {prevDir'}
      BY <2>2
    <2> QED
      BY <1>3, <2>2, <2>3, <2>4, <2>5 DEF OneStorage, StackInv
  <1>6. CASE ~Exists(d)
    <2>1. d.medium = "usb"
      BY <1>2, <1>6, DirsAre DEF Exists, Media
    <2>2. /\ watched' = watched \ {d} /\ list' = NoList
          /\ prevDir' = IF storageFileType = "Print" THEN prevDir ELSE d
      BY <1>1, <1>6
    <2>3. PageInv'
      BY <1>3, <1>4, <2>1, <2>2 DEF OneStorage, PageInv, MediumShown, Browsing
    <2>4. storageFileType = "Firmware" => \A e \in watched : e.medium = "usb" => ~Exists(e)
      BY <1>6, <2>1 DEF Exists
    <2>5. \A e \in watched' : e = prevDir' \/ ~Exists(e)'
      BY <1>3, <2>2, <2>4, <1>4 DEF OneStorage, PageInv, StackInv, Exists
    <2>6. stack # <<>> => prevDir' = prevDir
      BY <1>2, <1>4, <2>2 DEF OneStorage, StackInv
    <2> QED
      BY <1>3, <2>2, <2>3, <2>5, <2>6 DEF OneStorage, StackInv
  <1> QED
    BY <1>5, <1>6

\* The pages of prints.  A folder is listed only from its root, which is pushed.
LEMMA PrintBrowserKeepsStorage ==
    ASSUME TypesAndLists, OneStorage, Undisturbed,
           \/ \E m \in Media : TapStorage(m)
           \/ TapFolder \/ Back \/ Sort \/ ViewFiles
    PROVE  OneStorage'
  <1> USE DEF TypesAndLists, stickVars, pageVars, copyVars
  <1>1. ~ViewFiles
    BY DEF ViewFiles, OneStorage, PageInv
  <1>2. ASSUME NEW m \in Media, TapStorage(m)
        PROVE  OneStorage'
    <2>1. /\ page = "Base" /\ menu = NoFile /\ Exists(Root(m)) /\ Root(m) \in Dirs
      BY <1>2, DirsAre DEF TapStorage, NoModal, Undisturbed, Exists, Media, Root
    <2>2. /\ browsingUsb' = (m = "usb") /\ storageFileType' = "Print" /\ page' = "Browser"
          /\ UpdatePrintFileList(Root(m))
          /\ UNCHANGED <<disk, stick, stack, choosing, menu, popup, printing>>
      BY <1>2 DEF TapStorage, Browse
    <2>3. /\ prevDir' = Root(m)
          /\ list' # NoList => list'.type = "Print"
          /\ \A e \in watched' :
                e = prevDir' \/ (e \in watched /\ (e # prevDir \/ ~Exists(e)))
      BY <2>1, <2>2, PrintRelists
    <2>4. ~choosing /\ stack = <<>>
      BY <2>1 DEF OneStorage, PageInv, StackInv
    <2>5. prevDir'.medium = MediumShown'
      BY <2>2, <2>3, DirsAre DEF MediumShown, Media
    <2>6. PageInv'
      BY <2>2, <2>3, <2>4, <2>5 DEF OneStorage, PageInv, Browsing
    <2>7. StackInv'
      BY <2>2, <2>3, <2>4, RelistedIsWatched DEF OneStorage, StackInv
    <2> QED
      BY <2>6, <2>7 DEF OneStorage
  <1>3. ASSUME NEW d \in Dirs, page = "Browser", page' = "Browser", UpdatePrintFileList(d),
               UNCHANGED <<disk, stick, storageFileType, choosing, browsingUsb, menu,
                           popup, printing>>,
               Exists(d) => d.medium = prevDir.medium
        PROVE  /\ PageInv'
               /\ \A e \in watched' : e = prevDir' \/ ~Exists(e)'
               /\ prevDir' = IF Exists(d) THEN d ELSE prevDir
               /\ storageFileType' = "Print"
    <2>1. /\ prevDir' = IF Exists(d) THEN d ELSE prevDir
          /\ list' # NoList => list'.type = "Print"
          /\ \A e \in watched' :
                e = prevDir' \/ (e \in watched /\ (e # prevDir \/ ~Exists(e)))
      BY <1>3, PrintRelists
    <2>2. storageFileType = "Print"
      BY <1>3 DEF OneStorage, PageInv, Browsing
    <2>3. prevDir'.medium = prevDir.medium
      BY <1>3, <2>1
    <2>4. PageInv'
      BY <1>3, <2>1, <2>2, <2>3 DEF OneStorage, PageInv, Browsing, MediumShown
    <2>5. \A e \in watched' : e = prevDir' \/ ~Exists(e)'
      BY <1>3, <2>1, RelistedIsWatched DEF OneStorage
    <2> QED
      BY <1>3, <2>1, <2>2, <2>4, <2>5
  <1>4. CASE TapFolder
    <2>1. list.dir = prevDir /\ prevDir \in Dirs /\ prevDir.medium \in Media
      BY <1>4, ListedDir DEF TapFolder
    <2>2. ~prevDir.folder
      BY <1>4 DEF TapFolder, ListInv, NoList
    <2>3. stack = <<>> /\ prevDir = Root(prevDir.medium)
      BY <2>1, <2>2 DEF OneStorage, StackInv, Dirs, Root
    <2> DEFINE d == Folder(prevDir.medium)
    <2>4. d \in Dirs /\ d.medium = prevDir.medium /\ d.folder
      BY <2>1, DirsAre
    <2>5. /\ page = "Browser" /\ UpdatePrintFileList(d)
          /\ UNCHANGED <<disk, stick, storageFileType, page, choosing, browsingUsb, menu,
                         popup, printing>>
          /\ stack' = IF Exists(prevDir) THEN Append(stack, prevDir) ELSE stack
      BY <1>4, <2>1 DEF TapFolder, BackStackPush
    <2> HIDE DEF d
    <2>6. /\ PageInv' /\ \A e \in watched' : e = prevDir' \/ ~Exists(e)'
          /\ prevDir' = IF Exists(d) THEN d ELSE prevDir
          /\ storageFileType' = "Print"
      BY <1>3, <2>4, <2>5
    <2>7. Exists(prevDir) <=> Exists(d)
      BY <2>4 DEF Exists
    <2>8. CASE Exists(d)
      <3>1. stack' = <<prevDir>>
        BY <2>3, <2>5, <2>7, <2>8
      <3>2. prevDir' = d /\ prevDir = Root(d.medium)
        BY <2>3, <2>4, <2>6, <2>8
      <3> QED
        BY <2>4, <2>5, <2>6, <3>1, <3>2 DEF OneStorage, StackInv
    <2>9. CASE ~Exists(d)
      BY <2>3, <2>5, <2>6, <2>7, <2>9 DEF OneStorage, StackInv
    <2> QED
      BY <2>8, <2>9
  <1>5. CASE Back
    <2>1. /\ page = "Browser"
          /\ UNCHANGED <<disk, stick, storageFileType, choosing, browsingUsb, menu, popup,
                         printing>>
      BY <1>5 DEF Back
    <2>2. CASE stack = <<>>
      <3>1. UNCHANGED <<stack, prevDir, watched, list>> /\ page' = "Base"
        BY <1>5, <2>2 DEF Back
      <3>2. PageInv'
        BY <2>1, <3>1 DEF OneStorage, PageInv, Browsing, MediumShown
      <3> QED
        BY <2>1, <2>2, <3>1, <3>2 DEF OneStorage, StackInv, Exists
    <2>3. CASE stack # <<>>
      <3> DEFINE d == Root(prevDir.medium)
      <3>1. /\ stack = <<d>> /\ prevDir \in Dirs
        BY <2>3 DEF OneStorage, StackInv
      <3>2. d \in Dirs /\ d.medium = prevDir.medium
        BY <3>1, DirsAre
      <3> HIDE DEF d
      <3>3. Last(stack) = d /\ Front(stack) = <<>>
        BY <3>1, <3>2, StackOps DEF BrowserTyped
      <3>4. stack' = <<>> /\ UpdatePrintFileList(d) /\ page' = page
        BY <1>5, <2>3, <3>3 DEF Back
      <3>5. PageInv' /\ \A e \in watched' : e = prevDir' \/ ~Exists(e)'
        BY <1>3, <2>1, <3>2, <3>4
      <3> QED
        BY <3>4, <3>5 DEF OneStorage, StackInv
    <2> QED
      BY <2>2, <2>3
  <1>6. CASE Sort
    <2>1. prevDir \in Dirs
      BY <1>6 DEF Sort, BrowserTyped
    <2>2. /\ page = "Browser" /\ UpdatePrintFileList(prevDir)
          /\ UNCHANGED <<disk, stick, storageFileType, stack, page, choosing, browsingUsb,
                         menu, popup, printing>>
      BY <1>6 DEF Sort
    <2>3. /\ PageInv' /\ \A e \in watched' : e = prevDir' \/ ~Exists(e)'
          /\ prevDir' = prevDir /\ storageFileType' = "Print"
      BY <1>3, <2>1, <2>2
    <2> QED
      BY <2>2, <2>3 DEF OneStorage, StackInv
  <1> QED
    BY <1>1, <1>2, <1>4, <1>5, <1>6

\* The page of firmware files, which are those of the stick.
LEMMA FirmwareBrowserKeepsStorage ==
    ASSUME TypesAndLists, OneStorage, ChooseFile \/ TapFirmwareFolder \/ FirmwareBack
    PROVE  OneStorage'
  <1> USE DEF TypesAndLists, stickVars, copyVars
  <1>1. ASSUME NEW d \in Dirs, d.medium = "usb", UpdateFirmwareFileList(d),
               page = "Firmware", menu = NoFile, choosing', storageFileType' = "Firmware",
               UNCHANGED <<disk, stick, page, browsingUsb, menu, popup, printing>>
        PROVE  /\ PageInv'
               /\ \A e \in watched' : e = prevDir' \/ ~Exists(e)'
               /\ prevDir' = d
               /\ \A e \in watched' : e = d \/ (e \in watched /\ (e # prevDir \/ ~Exists(e)))
    <2>1. /\ prevDir' = d
          /\ list' # NoList => list'.type = "Firmware"
          /\ \A e \in watched' :
                e = prevDir' \/ (e \in watched /\ (e # prevDir \/ ~Exists(e)))
      BY <1>1, FirmwareRelists
    <2>2. PageInv'
      BY <1>1, <2>1 DEF OneStorage, PageInv, Browsing
    <2>3. \A e \in watched' : e = prevDir' \/ ~Exists(e)'
      BY <1>1, <2>1, RelistedIsWatched DEF OneStorage
    <2> QED
      BY <2>1, <2>2, <2>3
  <1>2. CASE ChooseFile
    <2>1. Root("usb") \in Dirs /\ Root("usb").medium = "usb"
      BY DirsAre DEF Media
    <2>2. /\ UpdateFirmwareFileList(Root("usb")) /\ page = "Firmware" /\ menu = NoFile
          /\ choosing' /\ storageFileType' = "Firmware" /\ stack' = <<>>
          /\ UNCHANGED <<disk, stick, page, browsingUsb, menu, popup, printing>>
      BY <1>2 DEF ChooseFile, NoModal
    <2>3. PageInv' /\ \A e \in watched' : e = prevDir' \/ ~Exists(e)'
      BY <1>1, <2>1, <2>2
    <2> QED
      BY <2>2, <2>3 DEF OneStorage, StackInv
  <1>3. CASE TapFirmwareFolder
    <2>1. /\ page = "Firmware" /\ choosing /\ menu = NoFile
          /\ UNCHANGED <<disk, stick, storageFileType, choosing, page, browsingUsb, menu,
                         popup, printing>>
      BY <1>3 DEF TapFirmwareFolder, NoModal, pageVars
    <2>2. list.dir = prevDir /\ prevDir \in Dirs
      BY <1>3, ListedDir DEF TapFirmwareFolder
    <2>3. ~prevDir.folder
      BY <1>3 DEF TapFirmwareFolder, ListInv, NoList
    <2>4. storageFileType = "Firmware" /\ prevDir.medium = "usb"
      BY <2>1 DEF OneStorage, PageInv
    <2>5. stack = <<>> /\ prevDir = Root("usb")
      BY <2>2, <2>3, <2>4 DEF OneStorage, StackInv, Dirs, Root
    <2> DEFINE d == Folder("usb")
    <2>6. d \in Dirs /\ d.medium = "usb" /\ d.folder
      BY DirsAre DEF Media
    <2>7. /\ UpdateFirmwareFileList(d)
          /\ stack' = IF Exists(prevDir) THEN Append(stack, prevDir) ELSE stack
      BY <1>3, <2>2, <2>4 DEF TapFirmwareFolder, FirmwareListOf, BackStackPush
    <2> HIDE DEF d
    <2>8. /\ PageInv' /\ \A e \in watched' : e = prevDir' \/ ~Exists(e)'
          /\ prevDir' = d
          /\ \A e \in watched' : e = d \/ (e \in watched /\ (e # prevDir \/ ~Exists(e)))
      BY <1>1, <2>1, <2>4, <2>6, <2>7
    <2>9. CASE Exists(prevDir)
      <3>1. stack' = <<prevDir>>
        BY <2>5, <2>7, <2>9
      <3>2. stack' = <<Root(prevDir'.medium)>>
        BY <2>5, <2>6, <2>8, <3>1
      <3>3. \A e \in watched : Exists(e)
        <4>1. \A e \in Dirs : Exists(e)
          BY <2>4, <2>9, DirsAre DEF Exists, Media
        <4> QED
          BY <4>1 DEF WatchInv
      <3>4. watched' \subseteq {prevDir'}
        BY <2>8, <3>3 DEF OneStorage, StackInv
      <3> QED
        BY <2>1, <2>6, <2>8, <3>2, <3>4 DEF OneStorage, StackInv
    <2>10. CASE ~Exists(prevDir)
      BY <2>5, <2>7, <2>8, <2>10 DEF OneStorage, StackInv
    <2> QED
      BY <2>9, <2>10
  <1>4. CASE FirmwareBack
    <2>1. /\ page = "Firmware" /\ menu = NoFile
          /\ UNCHANGED <<disk, stick, storageFileType, browsingUsb, menu, popup, printing>>
      BY <1>4 DEF FirmwareBack, NoModal
    <2>2. CASE choosing /\ stack # <<>>
      <3> DEFINE d == Root(prevDir.medium)
      <3>1. /\ stack = <<d>> /\ prevDir \in Dirs
            /\ storageFileType = "Firmware" /\ prevDir.medium = "usb"
        BY <2>2 DEF OneStorage, PageInv, StackInv
      <3>2. d \in Dirs /\ d.medium = "usb"
        BY <3>1, DirsAre
      <3> HIDE DEF d
      <3>3. Last(stack) = d /\ Front(stack) = <<>>
        BY <3>1, <3>2, StackOps DEF BrowserTyped
      <3>4. /\ stack' = <<>> /\ UpdateFirmwareFileList(d) /\ page' = page
            /\ choosing' = choosing
        BY <1>4, <2>2, <3>1, <3>3 DEF FirmwareBack, FirmwareListOf
      <3>5. PageInv' /\ \A e \in watched' : e = prevDir' \/ ~Exists(e)'
        BY <1>1, <2>1, <2>2, <3>1, <3>2, <3>4
      <3> QED
        BY <3>4, <3>5 DEF OneStorage, StackInv
    <2>3. CASE ~(choosing /\ stack # <<>>)
      <3>1. /\ UNCHANGED <<stack, prevDir, watched, list>> /\ ~choosing'
            /\ page' \in {page, "Base"}
        BY <1>4, <2>3 DEF FirmwareBack
      <3>2. stack = <<>>
        BY <2>1, <2>3 DEF OneStorage, StackInv
      <3>3. PageInv'
        BY <2>1, <3>1 DEF OneStorage, PageInv, Browsing, MediumShown
      <3> QED
        BY <2>1, <3>1, <3>2, <3>3 DEF OneStorage, StackInv, Exists
    <2> QED
      BY <2>2, <2>3
  <1> QED
    BY <1>2, <1>3, <1>4

-----------------------------------------------------------------------------
(* The theorems.                                                           *)

\* Only OpenFirmwarePage sets inFreStep, and only where the setup runs.
LEMMA SetupKept ==
    ASSUME SetupInv, [Next]_vars
    PROVE  faults' = faults /\ SetupInv'
  <1>1. CASE OpenFirmwarePage
    BY <1>1 DEF OpenFirmwarePage, SetupInv
  <1>2. CASE SkipFirmwareStep
    BY <1>2 DEF SkipFirmwareStep, SetupInv
  <1>3. CASE UNCHANGED setupVars
    BY <1>3 DEF SetupInv
  <1>4. OpenFirmwarePage \/ SkipFirmwareStep \/ UNCHANGED setupVars
    BY DEF Next, vars, Plug, Mount, Unplug, Unmount, UpdateUsbStorageConnected,
           WriteInternal, DirectoryChanged, TapStorage, TapFolder, Back, TapFile,
           BackToBrowser, Sort, OpenMenu, CloseMenu, TapRemove, TapAdd, ClosePopup,
           ViewFiles, CopyEnds, StartPrint, PrintStarts, UpdateCurrentThing, PrintEnds,
           TapNotice, ChooseFile, TapFirmwareFolder, FirmwareBack, TapFirmware,
           FirmwareCopyEnds
  <1> QED
    BY <1>1, <1>2, <1>3, <1>4

\* The inductive invariant of the browsers.
LEMMA BrowserInvariant == Spec => []BrowserInv
  <1>1. Init => BrowserInv
    <2> SUFFICES ASSUME Init
                 PROVE  BrowserInv
      OBVIOUS
    <2>1. disk \in [Dirs -> SUBSET {"makerbot", "zip"}]
      <3>1. PICK c \in Contents("internal") :
                disk = [d \in Dirs |-> IF d.medium = "usb" THEN {} ELSE c[d]]
        BY DEF Init
      <3>2. c \in [{Root("internal"), Folder("internal")} -> SUBSET {"makerbot", "zip"}]
        BY DEF Contents
      <3>3. \A d \in Dirs : d.medium = "usb" \/ d \in {Root("internal"), Folder("internal")}
        BY DEF Dirs, Media, Root, Folder
      <3>4. \A d \in Dirs : d.medium = "usb" \/ c[d] \in SUBSET {"makerbot", "zip"}
        BY <3>2, <3>3
      <3> QED
        BY <3>1, <3>4
    <2>2. stack \in Seq(Dirs) /\ stack = <<>>
      BY DEF Init
    <2>3. list = NoList /\ watched = {} /\ changed = {}
      BY DEF Init
    <2>4. BrowserTyped
      BY <2>1, <2>2 DEF Init, BrowserTyped, NoList
    <2>5. WatchInv /\ ListInv
      BY <2>3 DEF WatchInv, ListInv
    <2>6. PageInv /\ StackInv
      BY <2>2, <2>3 DEF Init, PageInv, StackInv, Browsing
    <2>7. SetupInv
      BY DEF Init, SetupInv
    <2> QED
      BY <2>4, <2>5, <2>6, <2>7 DEF BrowserInv, TypesAndLists, OneStorage
  <1>2. BrowserInv /\ [Next]_vars => BrowserInv'
    <2> SUFFICES ASSUME BrowserInv, [Next]_vars
                 PROVE  BrowserInv'
      OBVIOUS
    <2>1. TypesAndLists'
      BY TypesAndListsKept DEF BrowserInv
    <2>2. faults' = faults /\ SetupInv'
      BY SetupKept DEF BrowserInv
    <2>3. ASSUME Undisturbed
          PROVE  OneStorage'
      BY <2>3, PagesKeepStorage, StickKeepsStorage, UsbConnectedKeepsStorage,
         DirectoryChangedKeepsStorage, PrintBrowserKeepsStorage, FirmwareBrowserKeepsStorage
         DEF BrowserInv, Next
    <2> QED
      BY <2>1, <2>2, <2>3 DEF BrowserInv, Undisturbed
  <1> QED
    BY <1>1, <1>2, PTL DEF Spec

\* A list on the screen is what its directory holds, as long as nothing is left to
\* report: no writer of the storage is missed, whatever disturbs the browser
\* (MoreporkStorage::updatePrintFileList, updateFirmwareFileList).
THEOREM ListStaysTrue == Spec => []ListIsTrue
  <1>1. BrowserInv => ListIsTrue
    BY DEF BrowserInv, TypesAndLists, ListInv, ListIsTrue
  <1> QED
    BY <1>1, BrowserInvariant, PTL

\* The list on the screen is of the storage and the type its page is about, in every
\* behaviour without a full storage, a late mount, a print, a notification or a step of the
\* setup that is skipped.
THEOREM StaysInItsStorage == Spec => []ShowsItsStorageBarring
  <1>1. BrowserInv => ShowsItsStorageBarring
    <2> SUFFICES ASSUME TypesAndLists, OneStorage, ListIsShown
                 PROVE  ShowsItsStorage
      BY DEF BrowserInv, Undisturbed, ShowsItsStorageBarring, ShowsItsStorage
    <2>1. list.dir = prevDir /\ list.type = storageFileType
      BY DEF ListIsShown, TypesAndLists, ListInv, OneStorage, PageInv
    <2>2. CASE Choosing
      BY <2>1, <2>2 DEF Choosing, OneStorage, PageInv, ShowsItsStorage
    <2>3. CASE page = "Browser" /\ ~Choosing
      BY <2>1, <2>3 DEF OneStorage, PageInv, Browsing, MediumShown, ShowsItsStorage
    <2> QED
      BY <2>2, <2>3 DEF ListIsShown
  <1> QED
    BY <1>1, BrowserInvariant, PTL

\* Back leads from a folder to the root above it, and never past it, however deep
\* back_dir_stack_ may grow.
THEOREM BackLeadsUp == Spec => []BackGoesUp
  <1>1. BrowserInv => BackGoesUp
    <2> SUFFICES ASSUME TypesAndLists, OneStorage, ListIsShown, stack # <<>>
                 PROVE  list.dir.folder /\ stack = <<Root(list.dir.medium)>>
      BY DEF BrowserInv, Undisturbed, BackGoesUp
    <2>1. list.dir = prevDir
      BY DEF ListIsShown, TypesAndLists, ListInv
    <2> QED
      BY <2>1 DEF OneStorage, StackInv
  <1> QED
    BY <1>1, BrowserInvariant, PTL

\* The menu removes and copies the file it was opened for, or, after a print has
\* started under it, the one of that print (deletePrintFile() with fileName).
THEOREM MenuKeepsItsFile == Spec => []MenuActsOnItsFile
  <1>1. Init => MenuActsOnItsFile
    BY DEF Init, MenuActsOnItsFile
  <1>2. MenuActsOnItsFile /\ [Next]_vars => MenuActsOnItsFile'
    <2> SUFFICES ASSUME MenuActsOnItsFile, [Next]_vars
                 PROVE  MenuActsOnItsFile'
      OBVIOUS
    <2>1. CASE Plug \/ Mount \/ Unplug \/ Unmount \/ UpdateUsbStorageConnected
               \/ WriteInternal \/ DirectoryChanged
      BY <2>1 DEF Plug, Mount, Unplug, Unmount, UpdateUsbStorageConnected, WriteInternal,
                  DirectoryChanged, pageVars, MenuActsOnItsFile
    <2>2. CASE \/ \E m \in Media : TapStorage(m)
               \/ TapFolder \/ Back \/ TapFile \/ BackToBrowser \/ Sort
      BY <2>2 DEF TapStorage, TapFolder, Back, TapFile, BackToBrowser, Sort, NoModal,
                  pageVars, MenuActsOnItsFile
    <2>3. CASE OpenMenu \/ CloseMenu \/ TapRemove \/ TapAdd \/ ClosePopup \/ ViewFiles
               \/ CopyEnds
      BY <2>3 DEF OpenMenu, CloseMenu, TapRemove, TapAdd, ClosePopup, ViewFiles, CopyEnds,
                  pageVars, MenuActsOnItsFile
    <2>4. CASE StartPrint \/ PrintStarts \/ UpdateCurrentThing \/ PrintEnds \/ TapNotice
      BY <2>4 DEF StartPrint, PrintStarts, UpdateCurrentThing, PrintEnds, TapNotice,
                  pageVars, MenuActsOnItsFile
    <2>5. CASE OpenFirmwarePage \/ ChooseFile \/ TapFirmwareFolder \/ FirmwareBack
               \/ SkipFirmwareStep \/ TapFirmware \/ FirmwareCopyEnds \/ UNCHANGED vars
      BY <2>5 DEF OpenFirmwarePage, ChooseFile, TapFirmwareFolder, FirmwareBack,
                  SkipFirmwareStep, TapFirmware, FirmwareCopyEnds, vars, pageVars,
                  MenuActsOnItsFile
    <2> QED
      BY <2>1, <2>2, <2>3, <2>4, <2>5 DEF Next
  <1> QED
    BY <1>1, <1>2, PTL DEF Spec

=============================================================================
