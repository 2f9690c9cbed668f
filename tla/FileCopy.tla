------------------------------ MODULE FileCopy ------------------------------
(***************************************************************************)
(* Copying a file from a USB drive to the printer: ProgressCopy copies one *)
(* chunk per `iterate' event it posts to itself, MoreporkStorage publishes *)
(* fileIsCopying and fileCopySucceeded, and the pages of the UI react.  A  *)
(* print file goes to the internal storage; a firmware file goes to        *)
(* firmware.zip and is installed as soon as a copy succeeds.               *)
(*                                                                         *)
(* Copy, touch and directory events are handled by one thread, in an order *)
(* the code does not control: taps that pile up while a slow drive blocks  *)
(* a read are all handled before the posted `iterate'.                     *)
(***************************************************************************)
EXTENDS Naturals, Sequences, FiniteSets

CONSTANTS
    Size,       \* chunks in a source file
    MaxChains,  \* bound on the posted `iterate' events
    Scenarios   \* sets of faults: "unplug", the drive is pulled; "open", a file
                \* does not open; "full", a write fails; "crash", the UI restarts;
                \* "hasty", a copy starts before the events of the last are handled

Kinds == {"print", "firmware"}

ASSUME CopyAssumption ==
    /\ Size \in Nat \ {0} /\ MaxChains \in Nat \ {0}
    /\ Scenarios \subseteq SUBSET {"unplug", "open", "full", "crash", "hasty"}

VARIABLES
    faults,         \* what may go wrong in this behaviour
    usb,            \* a USB drive is plugged in
    usbEvent,       \* a change under /dev/disk/by-path is not yet delivered
    disk,           \* destination of each kind: its chunks, or Absent
    job,            \* the kind whose files ProgressCopy has
    src, dst,       \* src_qfile_ and dst_qfile_
    cancelled,      \* is_cancelled_
    written,        \* num_byte_writen_, in chunks
    iterates,       \* posted `iterate' events
    fileIsCopying, fileCopySucceeded,   \* MoreporkStorage's properties
    popup,          \* the modal popup that is open
    updateFirmware, \* FirmwareUpdatePageForm.updateFirmware
    install         \* the last installFirmwareFromPath(), for the properties

vars == <<faults, usb, usbEvent, disk, job, src, dst, cancelled, written, iterates,
          fileIsCopying, fileCopySucceeded, popup, updateFirmware, install>>

Absent == <<"absent">>
Chunks == {"zero", "data", "junk"}   \* hole, chunk of the source, anything else
Contents == [1 .. Size -> Chunks]
Blank == [i \in 1 .. Size |-> "zero"]
Copied == [i \in 1 .. Size |-> "data"]
NoInstall == [job |-> "none", file |-> Absent]

TypeOK ==
    /\ faults \in Scenarios
    /\ usb \in BOOLEAN /\ usbEvent \in BOOLEAN
    /\ disk \in [Kinds -> Contents \cup {Absent, <<>>}]
    /\ job \in Kinds
    /\ src \in {"closed", "open", "dead"} /\ dst \in {"closed", "open"}
    /\ cancelled \in BOOLEAN
    /\ written \in 0 .. Size
    /\ iterates \in 0 .. MaxChains
    /\ fileIsCopying \in BOOLEAN /\ fileCopySucceeded \in BOOLEAN
    /\ popup \in {"none", "print", "firmware"}
    /\ updateFirmware \in BOOLEAN
    /\ install \in [job : Kinds \cup {"none"}, file : Contents \cup {Absent, <<>>}]

\* The state of a UI that just started.
FreshUI ==
    /\ job' = "print" /\ src' = "closed" /\ dst' = "closed"
    /\ cancelled' = FALSE /\ written' = 0 /\ iterates' = 0
    /\ fileIsCopying' = FALSE /\ fileCopySucceeded' = FALSE
    /\ popup' = "none" /\ updateFirmware' = FALSE /\ usbEvent' = FALSE

Init ==
    /\ faults \in Scenarios
    /\ usb = TRUE /\ usbEvent = FALSE
    /\ disk = [k \in Kinds |-> Absent]
    /\ job = "print" /\ src = "closed" /\ dst = "closed"
    /\ cancelled = FALSE /\ written = 0 /\ iterates = 0
    /\ fileIsCopying = FALSE /\ fileCopySucceeded = FALSE
    /\ popup = "none" /\ updateFirmware = FALSE
    /\ install = NoInstall

-----------------------------------------------------------------------------
(* ProgressCopy::finished, MoreporkStorage::setFileCopySucceeded and the   *)
(* QML handlers of the two properties, all run inside the emission.        *)

ClosePopup == popup' = IF popup = "firmware" THEN "none" ELSE popup

Finished(success) ==
    /\ fileCopySucceeded' = success
    /\ fileIsCopying' = FALSE
    /\ ClosePopup
    /\ IF success /\ ~fileCopySucceeded /\ updateFirmware
       THEN /\ updateFirmware' = FALSE
            /\ install' = [job |-> job, file |-> disk["firmware"]]
       ELSE UNCHANGED <<updateFirmware, install>>

-----------------------------------------------------------------------------
(* The user.                                                               *)

\* A tap on a file of the drive: copyPrintFile() or copyFirmwareToDisk(), that
\* is setSrcDstFiles() and process(), and startFirmwareUpdate() after the
\* latter.  process() truncates the destination and gives it its final size
\* before the first chunk.
Start(k) ==
    /\ usb /\ popup = "none"
    /\ "hasty" \in faults \/ iterates = 0
    /\ job' = k
    /\ cancelled' = FALSE /\ written' = 0
    /\ fileCopySucceeded' = FALSE
    /\ updateFirmware' = (updateFirmware \/ k = "firmware")
    /\ \/ /\ iterates < MaxChains
          /\ src' = "open" /\ dst' = "open"
          /\ disk' = [disk EXCEPT ![k] = Blank]
          /\ fileIsCopying' = TRUE /\ popup' = k
          /\ iterates' = iterates + 1
       \/ \* the source or the destination does not open, or does not resize
          /\ "open" \in faults
          /\ \/ src' = "closed" /\ dst' = "closed" /\ UNCHANGED disk
             \/ src' = "open" /\ dst' = "closed" /\ UNCHANGED disk
             \/ src' = "open" /\ dst' = "open" /\ disk' = [disk EXCEPT ![k] = <<>>]
          /\ fileIsCopying' = FALSE
          /\ popup' = IF k = "print" THEN k ELSE "none"
          /\ UNCHANGED iterates
    /\ UNCHANGED <<faults, usb, usbEvent, install>>

\* CANCEL that does not forget the firmware.
Cancel_KeepsFirmware ==
    /\ popup # "none"
    /\ cancelled' = TRUE
    /\ fileIsCopying' = FALSE
    /\ popup' = "none"
    /\ UNCHANGED <<faults, usb, usbEvent, disk, job, src, dst, written, iterates,
                   fileCopySucceeded, updateFirmware, install>>

\* CANCEL or CLOSE on the popup: cancelCopy().
Cancel ==
    /\ popup # "none"
    /\ updateFirmware' = (updateFirmware /\ popup # "firmware")
    /\ cancelled' = TRUE
    /\ fileIsCopying' = FALSE
    /\ popup' = "none"
    /\ UNCHANGED <<faults, usb, usbEvent, disk, job, src, dst, written, iterates,
                   fileCopySucceeded, install>>

-----------------------------------------------------------------------------
(* ProgressCopy::iterate.                                                  *)

\* The results of read() and write() are not looked at: a failed read writes
\* what the buffer held before, a failed write leaves the hole, and neither
\* does anything to a file that is not open.
ChunkWritten ==
    {IF src = "open" THEN "data" ELSE "junk"}
    \cup (IF "full" \in faults THEN {disk[job][written + 1]} ELSE {})

IterateChunk ==
    /\ iterates > 0 /\ ~cancelled /\ written < Size
    /\ IF dst = "open" /\ disk[job] \in Contents
       THEN \E c \in ChunkWritten : disk' = [disk EXCEPT ![job][written + 1] = c]
       ELSE UNCHANGED disk
    /\ written' = written + 1
    /\ UNCHANGED <<faults, usb, usbEvent, job, src, dst, cancelled, iterates,
                   fileIsCopying, fileCopySucceeded, popup, updateFirmware, install>>

\* The end taken one chunk early.
IterateDone_Early ==
    /\ iterates > 0 /\ ~cancelled /\ written + 1 >= Size
    /\ iterates' = iterates - 1
    /\ Finished(TRUE)
    /\ UNCHANGED <<faults, usb, usbEvent, disk, job, src, dst, cancelled, written>>

IterateDone ==
    /\ iterates > 0 /\ ~cancelled /\ written = Size
    /\ iterates' = iterates - 1
    /\ Finished(TRUE)
    /\ UNCHANGED <<faults, usb, usbEvent, disk, job, src, dst, cancelled, written>>

\* A cancelled copy that leaves its destination behind.
IterateCancelled_KeepsFile ==
    /\ iterates > 0 /\ cancelled
    /\ iterates' = iterates - 1
    /\ Finished(FALSE)
    /\ UNCHANGED <<faults, usb, usbEvent, disk, job, src, dst, cancelled, written>>

\* A cancelled copy that ends without finished().
IterateCancelled_Silent ==
    /\ iterates > 0 /\ cancelled
    /\ iterates' = iterates - 1
    /\ disk' = [disk EXCEPT ![job] = Absent]
    /\ dst' = "closed"
    /\ UNCHANGED <<faults, usb, usbEvent, job, src, cancelled, written, fileIsCopying,
                   fileCopySucceeded, popup, updateFirmware, install>>

IterateCancelled ==
    /\ iterates > 0 /\ cancelled
    /\ iterates' = iterates - 1
    /\ disk' = [disk EXCEPT ![job] = Absent]
    /\ dst' = "closed"
    /\ Finished(FALSE)
    /\ UNCHANGED <<faults, usb, usbEvent, job, src, cancelled, written>>

-----------------------------------------------------------------------------
(* The drive, and the watcher of its device files.                         *)

Unplug ==
    /\ "unplug" \in faults /\ usb
    /\ usb' = FALSE /\ usbEvent' = TRUE
    /\ src' = IF src = "open" THEN "dead" ELSE src
    /\ UNCHANGED <<faults, disk, job, dst, cancelled, written, iterates, fileIsCopying,
                   fileCopySucceeded, popup, updateFirmware, install>>

PlugIn ==
    /\ ~usb
    /\ usb' = TRUE /\ usbEvent' = TRUE
    /\ UNCHANGED <<faults, disk, job, src, dst, cancelled, written, iterates, fileIsCopying,
                   fileCopySucceeded, popup, updateFirmware, install>>

UpdateUsbStorageConnected ==
    /\ usbEvent
    /\ usbEvent' = FALSE
    /\ cancelled' = (cancelled \/ (~usb /\ fileIsCopying))
    /\ UNCHANGED <<faults, usb, disk, job, src, dst, written, iterates, fileIsCopying,
                   fileCopySucceeded, popup, updateFirmware, install>>

\* The UI, or the printer, goes down and starts again.
Crash ==
    /\ "crash" \in faults
    /\ FreshUI
    /\ install' = NoInstall
    /\ UNCHANGED <<faults, usb, disk>>

-----------------------------------------------------------------------------

Next ==
    \/ \E k \in Kinds : Start(k)
    \/ Cancel
    \/ IterateChunk \/ IterateDone \/ IterateCancelled
    \/ Unplug \/ PlugIn \/ UpdateUsbStorageConnected
    \/ Crash

\* Posted events and watcher events are delivered.
Fairness ==
    /\ WF_vars(IterateChunk \/ IterateDone \/ IterateCancelled)
    /\ WF_vars(UpdateUsbStorageConnected)

Spec == Init /\ [][Next]_vars /\ Fairness

-----------------------------------------------------------------------------
(* Properties.                                                             *)

\* While the UI says that it copies, and covers the screen with a popup, there
\* is an event that will end the copy.
CopyIsDriven == fileIsCopying => iterates > 0

\* A copy that runs comes to an end, with the drive pulled, the disk full or
\* several chains of events at work on it.
CopyEnds == fileIsCopying ~> ~fileIsCopying

\* "tell UI if file copy was success" (storage.cpp:185): what is reported as
\* copied is the whole source, chunk by chunk.
SuccessIsComplete == fileCopySucceeded => disk[job] = Copied

\* ... which holds as long as the drive stays and the disk has room: restarts
\* and files that do not open never pass for a copy, nor do copies that overlap,
\* except when one that does not open meets the events of the one before.
SuccessIsCompleteBarring ==
    faults \subseteq {"crash", "open"} \/ faults \subseteq {"crash", "hasty"}
        => SuccessIsComplete

\* A destination is partial only while a copy to it runs: a cancelled copy
\* leaves nothing that would show up among the print files, if no restart,
\* failure or overlapping copy keeps it from removing its file.
NoPartialFile ==
    faults = {} => \A k \in Kinds :
        disk[k] \in {Absent, Copied} \/ (job = k /\ iterates > 0)

\* An installation is the end of the copy of a firmware file, never of a print
\* file copied after a firmware copy that failed (FirmwareFileListUsb.qml:12).
InstallIsFresh == install.job # "print"

\* ... which holds unless a firmware copy ends by itself, before its first chunk
\* or with the drive, in any overlap with other copies.
InstallIsFreshBarring ==
    faults \subseteq {"full", "crash", "hasty"} => InstallIsFresh

=============================================================================
