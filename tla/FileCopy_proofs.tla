--------------------------- MODULE FileCopy_proofs ---------------------------
(***************************************************************************)
(* For every size of a file and any number of chains of events: what is    *)
(* reported as copied is the source, a partial file has a copy that runs,  *)
(* and only a firmware file is installed, each barring the faults that its *)
(* property names.                                                         *)
(***************************************************************************)
EXTENDS FileCopy, TLAPS

\* The faults that leave what has been read and written as it is.
Steady == faults \subseteq {"crash", "open"} \/ faults \subseteq {"crash", "hasty"}

\* The files of the copy that the next event goes on with, and what it has
\* written of the destination.
ChunksAreWritten ==
    Steady /\ iterates > 0 /\ ~cancelled =>
        /\ src = "open" /\ dst = "open"
        /\ disk[job] \in Contents
        /\ \A i \in 1 .. written : disk[job][i] = "data"

\* Further chains of events find nothing left to write.
SuccessIsWhole == Steady /\ fileCopySucceeded => written = Size /\ disk[job] = Copied

\* The popup of a firmware copy is open until the copy succeeds or is cancelled,
\* so that no other copy starts before it.
FirmwareIsCopied ==
    faults \subseteq {"full", "crash", "hasty"} =>
        /\ usb
        /\ install.job # "print"
        /\ updateFirmware => /\ popup = "firmware" /\ job = "firmware"
                             /\ ~cancelled /\ ~fileCopySucceeded

CopyInv == TypeOK /\ ChunksAreWritten /\ SuccessIsWhole /\ NoPartialFile /\ FirmwareIsCopied

-----------------------------------------------------------------------------
(* Types.                                                                  *)

Installs == [job : Kinds \cup {"none"}, file : Contents \cup {Absent, <<>>}]

LEMMA ContentsTypes == Blank \in Contents /\ Copied \in Contents /\ NoInstall \in Installs
  BY CopyAssumption DEF Blank, Copied, Contents, Chunks, NoInstall, Installs

\* A chunk that is written leaves the file a file, and the other one alone.
LEMMA ChunkTyped ==
    ASSUME NEW f \in Contents, NEW c \in Chunks, NEW n \in Nat, n < Size
    PROVE  [f EXCEPT ![n + 1] = c] \in Contents
  BY CopyAssumption DEF Contents

LEMMA FinishedTypes ==
    ASSUME TypeOK, NEW success \in BOOLEAN, Finished(success)
    PROVE  /\ fileIsCopying' \in BOOLEAN /\ fileCopySucceeded' \in BOOLEAN
           /\ popup' \in {"none", "print", "firmware"}
           /\ updateFirmware' \in BOOLEAN
           /\ install' \in Installs
  <1>1. /\ fileIsCopying' \in BOOLEAN /\ fileCopySucceeded' \in BOOLEAN
        /\ popup' \in {"none", "print", "firmware"}
    BY DEF TypeOK, Finished, ClosePopup
  <1>2. CASE success /\ ~fileCopySucceeded /\ updateFirmware
    <2>1. updateFirmware' = FALSE /\ install' = [job |-> job, file |-> disk["firmware"]]
      BY <1>2 DEF Finished
    <2>2. job \in Kinds /\ disk["firmware"] \in Contents \cup {Absent, <<>>}
      BY DEF TypeOK, Kinds
    <2>3. install' \in Installs
      BY <2>1, <2>2 DEF Installs
    <2> QED
      BY <1>1, <2>1, <2>3
  <1>3. CASE ~(success /\ ~fileCopySucceeded /\ updateFirmware)
    <2>1. UNCHANGED <<updateFirmware, install>>
      BY <1>3, Zenon DEF Finished
    <2> QED
      BY <1>1, <2>1 DEF TypeOK, Installs
  <1> QED
    BY <1>2, <1>3

LEMMA InitTypeOK == Init => TypeOK
  <1>1. NoInstall \in [job : Kinds \cup {"none"}, file : Contents \cup {Absent, <<>>}]
    BY ContentsTypes DEF Installs
  <1>2. "print" \in Kinds
    BY DEF Kinds
  <1>3. [k \in Kinds |-> Absent] \in [Kinds -> Contents \cup {Absent, <<>>}]
    OBVIOUS
  <1>4. 0 \in 0 .. Size /\ 0 \in 0 .. MaxChains
    BY CopyAssumption
  <1> QED
    BY <1>1, <1>2, <1>3, <1>4 DEF Init, TypeOK

LEMMA NextTypeOK ==
    ASSUME TypeOK, [Next]_vars
    PROVE  TypeOK'
  <1> USE CopyAssumption
  <1>1. ASSUME NEW k \in Kinds, Start(k)
        PROVE  TypeOK'
    <2>1. disk' \in [Kinds -> Contents \cup {Absent, <<>>}]
      BY <1>1, ContentsTypes DEF Start, TypeOK
    <2>2. popup' \in {"none", "print", "firmware"}
      BY <1>1 DEF Start, Kinds
    <2>3. iterates' \in 0 .. MaxChains
      BY <1>1 DEF Start, TypeOK
    <2>4. updateFirmware' \in BOOLEAN
      BY <1>1, Zenon DEF Start
    <2>5. fileIsCopying' \in BOOLEAN /\ src' \in {"closed", "open"} /\ dst' \in {"closed", "open"}
      BY <1>1 DEF Start
    <2>6. UNCHANGED <<faults, usb, usbEvent, install>> /\ job' = k /\ cancelled' = FALSE
          /\ written' = 0 /\ fileCopySucceeded' = FALSE
      BY <1>1 DEF Start
    <2> QED
      <3>1. 0 \in 0 .. Size
        OBVIOUS
      <3>2. /\ faults' \in Scenarios /\ usb' \in BOOLEAN /\ usbEvent' \in BOOLEAN
            /\ install' \in [job : Kinds \cup {"none"}, file : Contents \cup {Absent, <<>>}]
        BY <2>6 DEF TypeOK
      <3>3. job' \in Kinds /\ cancelled' \in BOOLEAN /\ written' \in 0 .. Size
            /\ fileCopySucceeded' \in BOOLEAN
        BY <2>6, <3>1
      <3>4. src' \in {"closed", "open", "dead"}
        BY <2>5
      <3> QED
        BY <2>1, <2>2, <2>3, <2>4, <2>5, <3>2, <3>3, <3>4, Zenon DEF TypeOK
  <1>2. CASE Cancel
    BY <1>2 DEF Cancel, TypeOK
  <1>3. CASE IterateChunk
    <2>1. written \in Nat /\ written < Size /\ written' = written + 1 /\ job \in Kinds
      BY <1>3 DEF IterateChunk, TypeOK
    <2>2. written' \in 0 .. Size
      BY <2>1
    <2>3. disk' \in [Kinds -> Contents \cup {Absent, <<>>}]
      <3>1. CASE UNCHANGED disk
        BY <3>1 DEF TypeOK
      <3>2. CASE /\ disk[job] \in Contents
                 /\ \E c \in ChunkWritten : disk' = [disk EXCEPT ![job][written + 1] = c]
        <4>1. PICK c \in ChunkWritten : disk' = [disk EXCEPT ![job][written + 1] = c]
          BY <3>2
        <4>2. written + 1 \in 1 .. Size
          BY <2>1
        <4>3. c \in Chunks
          BY <3>2, <4>1, <4>2 DEF ChunkWritten, Chunks, Contents
        <4>4. [disk[job] EXCEPT ![written + 1] = c] \in Contents
          BY <3>2, <2>1, <4>3, ChunkTyped
        <4> QED
          BY <2>1, <4>1, <4>4 DEF TypeOK
      <3> QED
        BY <1>3, <3>1, <3>2 DEF IterateChunk
    <2> QED
      BY <1>3, <2>2, <2>3 DEF IterateChunk, TypeOK
  <1>4. CASE IterateDone
    <2>1. iterates' \in 0 .. MaxChains
      BY <1>4 DEF IterateDone, TypeOK
    <2> QED
      BY <1>4, <2>1, FinishedTypes DEF IterateDone, TypeOK, Installs
  <1>5. CASE IterateCancelled
    <2>1. iterates' \in 0 .. MaxChains
      BY <1>5 DEF IterateCancelled, TypeOK
    <2>2. disk' \in [Kinds -> Contents \cup {Absent, <<>>}]
      BY <1>5 DEF IterateCancelled, TypeOK
    <2> QED
      BY <1>5, <2>1, <2>2, FinishedTypes DEF IterateCancelled, TypeOK, Installs
  <1>6. CASE Unplug \/ PlugIn \/ UpdateUsbStorageConnected
    BY <1>6 DEF Unplug, PlugIn, UpdateUsbStorageConnected, TypeOK
  <1>7. CASE Crash
    <2>1. install' \in [job : Kinds \cup {"none"}, file : Contents \cup {Absent, <<>>}]
      BY <1>7, ContentsTypes DEF Crash, Installs
    <2>2. UNCHANGED <<faults, usb, disk>> /\ FreshUI
      BY <1>7 DEF Crash
    <2>3. disk' \in [Kinds -> Contents \cup {Absent, <<>>}]
      BY <2>2 DEF TypeOK
    <2>4. faults' \in Scenarios /\ usb' \in BOOLEAN
      BY <2>2 DEF TypeOK
    <2> QED
      <3>1. 0 \in 0 .. Size /\ 0 \in 0 .. MaxChains /\ "print" \in Kinds
        BY DEF Kinds
      <3>2. src' \in {"closed", "open", "dead"} /\ dst' \in {"closed", "open"}
            /\ popup' \in {"none", "print", "firmware"}
        BY <2>2 DEF FreshUI
      <3> QED
        BY <2>1, <2>2, <2>3, <2>4, <3>1, <3>2, Zenon DEF FreshUI, TypeOK
  <1>8. CASE UNCHANGED vars
    BY <1>8 DEF vars, TypeOK
  <1> QED
    BY <1>1, <1>2, <1>3, <1>4, <1>5, <1>6, <1>7, <1>8 DEF Next

-----------------------------------------------------------------------------
(* The steps of the copy.                                                  *)

LEMMA InitCopyInv == Init => CopyInv
  BY InitTypeOK DEF Init, CopyInv, ChunksAreWritten, SuccessIsWhole, NoPartialFile,
                    FirmwareIsCopied, NoInstall, Kinds

LEMMA StartKeeps ==
    ASSUME CopyInv, NEW k \in Kinds, Start(k), TypeOK'
    PROVE  CopyInv'
  <1> USE CopyAssumption
  <1>1. disk[k] \in Contents \cup {Absent, <<>>} /\ iterates \in Nat
    BY DEF CopyInv, TypeOK
  <1>2. ChunksAreWritten'
    <2>1. CASE iterates' = iterates + 1 /\ src' = "open" /\ dst' = "open"
               /\ disk' = [disk EXCEPT ![k] = Blank]
      <3>1. disk'[k] = Blank
        BY <2>1 DEF CopyInv, TypeOK
      <3>2. job' = k /\ written' = 0
        BY DEF Start
      <3> QED
        BY <2>1, <3>1, <3>2, ContentsTypes DEF ChunksAreWritten
    <2>2. CASE "open" \in faults /\ iterates' = iterates
      BY <1>1, <2>2 DEF Start, ChunksAreWritten, Steady
    <2> QED
      BY <2>1, <2>2 DEF Start
  <1>3. SuccessIsWhole'
    BY DEF Start, SuccessIsWhole
  <1>4. NoPartialFile'
    <2>1. SUFFICES ASSUME faults = {}, NEW j \in Kinds
                   PROVE  disk'[j] \in {Absent, Copied} \/ (job' = j /\ iterates' > 0)
      BY DEF Start, NoPartialFile
    <2>2. /\ iterates = 0 /\ iterates' = iterates + 1 /\ job' = k
          /\ disk' = [disk EXCEPT ![k] = Blank]
      BY <2>1 DEF Start
    <2>3. CASE j = k
      BY <2>2, <2>3
    <2>4. CASE j # k
      BY <2>1, <2>2, <2>4 DEF CopyInv, NoPartialFile, TypeOK
    <2> QED
      BY <2>3, <2>4
  <1>5. FirmwareIsCopied'
    <2>1. SUFFICES ASSUME faults \subseteq {"full", "crash", "hasty"}
                   PROVE  /\ usb' /\ install'.job # "print"
                          /\ updateFirmware' => /\ popup' = "firmware" /\ job' = "firmware"
                                                /\ ~cancelled' /\ ~fileCopySucceeded'
      BY DEF Start, FirmwareIsCopied
    <2>2. ~updateFirmware /\ usb /\ install.job # "print"
      BY <2>1 DEF CopyInv, FirmwareIsCopied, Start
    <2>3. updateFirmware' => k = "firmware"
      BY <2>2, Zenon DEF Start
    <2>4. popup' = k
      BY <2>1 DEF Start
    <2> QED
      BY <2>2, <2>3, <2>4 DEF Start
  <1> QED
    BY <1>2, <1>3, <1>4, <1>5 DEF CopyInv

LEMMA ChunkKeeps ==
    ASSUME CopyInv, IterateChunk, TypeOK'
    PROVE  CopyInv'
  <1> USE CopyAssumption
  <1>1. written \in Nat /\ written < Size /\ written' = written + 1 /\ job \in Kinds
        /\ disk \in [Kinds -> Contents \cup {Absent, <<>>}] /\ iterates > 0 /\ ~cancelled
    BY DEF IterateChunk, CopyInv, TypeOK
  <1>2. UNCHANGED <<faults, usb, job, src, dst, cancelled, iterates, fileCopySucceeded, popup,
                    updateFirmware, install>>
    BY DEF IterateChunk
  <1>3. ChunksAreWritten'
    <2>1. SUFFICES ASSUME Steady
                   PROVE  /\ src = "open" /\ dst = "open" /\ disk'[job] \in Contents
                          /\ \A i \in 1 .. written + 1 : disk'[job][i] = "data"
      BY <1>1, <1>2 DEF ChunksAreWritten, Steady
    <2>2. /\ src = "open" /\ dst = "open" /\ disk[job] \in Contents
          /\ \A i \in 1 .. written : disk[job][i] = "data"
      BY <1>1, <2>1 DEF CopyInv, ChunksAreWritten
    <2>3. disk' = [disk EXCEPT ![job][written + 1] = "data"]
      BY <2>1, <2>2 DEF IterateChunk, ChunkWritten, Steady
    <2>4. disk'[job] = [disk[job] EXCEPT ![written + 1] = "data"]
      BY <1>1, <2>3
    <2>5. disk'[job] \in Contents
      <3>1. "data" \in Chunks
        BY DEF Chunks
      <3> QED
        BY <1>1, <2>2, <2>4, <3>1, ChunkTyped
    <2>6. \A i \in 1 .. written + 1 : disk'[job][i] = "data"
      BY <1>1, <2>2, <2>4 DEF Contents
    <2> QED
      BY <2>2, <2>5, <2>6
  <1>4. SuccessIsWhole'
    BY <1>1, <1>2 DEF CopyInv, SuccessIsWhole, Steady
  <1>5. NoPartialFile'
    <2>1. \A j \in Kinds \ {job} : disk'[j] = disk[j]
      BY <1>1 DEF IterateChunk
    <2> QED
      BY <1>1, <1>2, <2>1 DEF CopyInv, NoPartialFile
  <1>6. FirmwareIsCopied'
    BY <1>2 DEF CopyInv, FirmwareIsCopied
  <1> QED
    BY <1>3, <1>4, <1>5, <1>6 DEF CopyInv

\* A destination whose chunks have all been written is the source.
LEMMA DoneIsCopied ==
    ASSUME CopyInv, IterateDone, Steady
    PROVE  disk[job] = Copied
  <1>1. disk[job] \in Contents /\ \A i \in 1 .. Size : disk[job][i] = "data"
    BY CopyAssumption DEF CopyInv, ChunksAreWritten, IterateDone, TypeOK
  <1> QED
    BY <1>1 DEF Contents, Copied

LEMMA DoneKeeps ==
    ASSUME CopyInv, IterateDone, TypeOK'
    PROVE  CopyInv'
  <1>1. /\ UNCHANGED <<faults, usb, disk, job, src, dst, cancelled, written>>
        /\ iterates > 0 /\ ~cancelled /\ written = Size /\ Finished(TRUE)
    BY DEF IterateDone
  <1>2. ChunksAreWritten'
    BY <1>1 DEF CopyInv, ChunksAreWritten, Steady
  <1>3. SuccessIsWhole'
    BY <1>1, DoneIsCopied DEF SuccessIsWhole, Steady
  <1>4. NoPartialFile'
    BY <1>1, DoneIsCopied DEF CopyInv, NoPartialFile, Steady
  <1>5. FirmwareIsCopied'
    <2>1. CASE updateFirmware /\ faults \subseteq {"full", "crash", "hasty"}
      <3>1. ~fileCopySucceeded /\ job = "firmware" /\ usb
        BY <2>1 DEF CopyInv, FirmwareIsCopied
      <3>2. updateFirmware' = FALSE /\ install' = [job |-> job, file |-> disk["firmware"]]
        BY <1>1, <2>1, <3>1, Zenon DEF Finished
      <3> QED
        BY <1>1, <3>1, <3>2 DEF FirmwareIsCopied
    <2>2. CASE ~updateFirmware
      BY <1>1, <2>2, Zenon DEF CopyInv, FirmwareIsCopied, Finished
    <2> QED
      BY <1>1, <2>1, <2>2 DEF FirmwareIsCopied
  <1> QED
    BY <1>2, <1>3, <1>4, <1>5 DEF CopyInv

LEMMA CancelledKeeps ==
    ASSUME CopyInv, IterateCancelled, TypeOK'
    PROVE  CopyInv'
  <1>1. /\ UNCHANGED <<faults, usb, job, src, cancelled, written>>
        /\ cancelled /\ Finished(FALSE) /\ fileCopySucceeded' = FALSE
        /\ UNCHANGED <<updateFirmware, install>>
    BY DEF IterateCancelled, Finished
  <1>2. ChunksAreWritten'
    BY <1>1 DEF ChunksAreWritten
  <1>3. SuccessIsWhole'
    BY <1>1 DEF SuccessIsWhole
  <1>4. NoPartialFile'
    <2>1. \A j \in Kinds : disk'[j] = IF j = job THEN Absent ELSE disk[j]
      BY DEF IterateCancelled, CopyInv, TypeOK
    <2> QED
      BY <1>1, <2>1 DEF CopyInv, NoPartialFile
  <1>5. FirmwareIsCopied'
    BY <1>1 DEF CopyInv, FirmwareIsCopied
  <1> QED
    BY <1>2, <1>3, <1>4, <1>5 DEF CopyInv

LEMMA NextCopyInv ==
    ASSUME CopyInv, [Next]_vars
    PROVE  CopyInv'
  <1>1. TypeOK'
    BY NextTypeOK DEF CopyInv
  <1>2. ASSUME NEW k \in Kinds, Start(k)
        PROVE  CopyInv'
    BY <1>1, <1>2, StartKeeps
  <1>3. CASE Cancel
    <2>1. UNCHANGED <<faults, usb, disk, job, src, dst, written, iterates, fileCopySucceeded,
                      install>> /\ cancelled'
      BY <1>3 DEF Cancel
    <2>2. updateFirmware' => updateFirmware /\ popup # "firmware"
      BY <1>3, Zenon DEF Cancel
    <2>3. FirmwareIsCopied'
      BY <2>1, <2>2 DEF CopyInv, FirmwareIsCopied
    <2> QED
      BY <1>1, <2>1, <2>3 DEF CopyInv, ChunksAreWritten, SuccessIsWhole, NoPartialFile, Steady
  <1>4. CASE IterateChunk \/ IterateDone \/ IterateCancelled
    BY <1>1, <1>4, ChunkKeeps, DoneKeeps, CancelledKeeps
  <1>5. CASE Unplug
    BY <1>1, <1>5 DEF Unplug, CopyInv, ChunksAreWritten, SuccessIsWhole, NoPartialFile,
                      FirmwareIsCopied, Steady
  <1>6. CASE PlugIn
    BY <1>1, <1>6 DEF PlugIn, CopyInv, ChunksAreWritten, SuccessIsWhole, NoPartialFile,
                      FirmwareIsCopied, Steady
  <1>7. CASE UpdateUsbStorageConnected
    <2>1. UNCHANGED <<faults, usb, disk, job, src, dst, written, iterates, fileCopySucceeded,
                      popup, updateFirmware, install>>
      BY <1>7 DEF UpdateUsbStorageConnected
    <2>2. (usb => cancelled' = cancelled) /\ (cancelled => cancelled')
      BY <1>7, Zenon DEF UpdateUsbStorageConnected, CopyInv, TypeOK
    <2>3. FirmwareIsCopied'
      BY <2>1, <2>2 DEF CopyInv, FirmwareIsCopied
    <2> QED
      BY <1>1, <2>1, <2>2, <2>3
         DEF CopyInv, ChunksAreWritten, SuccessIsWhole, NoPartialFile, Steady
  <1>8. CASE Crash
    BY <1>1, <1>8 DEF Crash, FreshUI, NoInstall, CopyInv, ChunksAreWritten, SuccessIsWhole,
                      NoPartialFile, FirmwareIsCopied, Steady
  <1>9. CASE UNCHANGED vars
    BY <1>1, <1>9 DEF vars, CopyInv, ChunksAreWritten, SuccessIsWhole, NoPartialFile,
                      FirmwareIsCopied, Steady
  <1> QED
    BY <1>2, <1>3, <1>4, <1>5, <1>6, <1>7, <1>8, <1>9 DEF Next

-----------------------------------------------------------------------------

LEMMA CopyInvHolds == Spec => []CopyInv
  BY InitCopyInv, NextCopyInv, PTL DEF Spec

\* The variables of a copy keep their types: the destination is a file of the
\* size of the source, an empty one or none (ProgressCopy::process()).
THEOREM TypeCorrect == Spec => []TypeOK
  <1>1. CopyInv => TypeOK
    BY DEF CopyInv
  <1> QED
    BY <1>1, CopyInvHolds, PTL

\* finished(true) means that the destination is the source, chunk by chunk, for
\* every size and any number of overlapping chains of `iterate' events, restarts
\* among them (ProgressCopy::iterate(), MoreporkStorage::setFileCopySucceeded()).
THEOREM CopiesAreComplete == Spec => []SuccessIsCompleteBarring
  <1>1. CopyInv => SuccessIsCompleteBarring
    BY DEF CopyInv, SuccessIsWhole, Steady, SuccessIsCompleteBarring, SuccessIsComplete
  <1> QED
    BY <1>1, CopyInvHolds, PTL

\* Where nothing fails a destination is never left partial: a cancelled copy
\* removes it with its next event (ProgressCopy::iterate(), cancel()).
THEOREM NoFileLeftPartial == Spec => []NoPartialFile
  <1>1. CopyInv => NoPartialFile
    BY DEF CopyInv
  <1> QED
    BY <1>1, CopyInvHolds, PTL

\* updateFirmware is still set when a copy succeeds only if the copy is that of
\* a firmware file (FirmwareUpdatePageForm, startFirmwareUpdate()).
THEOREM InstallsFirmware == Spec => []InstallIsFreshBarring
  <1>1. CopyInv => InstallIsFreshBarring
    BY DEF CopyInv, FirmwareIsCopied, InstallIsFreshBarring, InstallIsFresh
  <1> QED
    BY <1>1, CopyInvHolds, PTL

\* While the popup says that a file is copied an event that goes on with the
\* copy is under way, whatever fails: each ends in finished() or posts the next
\* (ProgressCopy::process(), iterate()).
THEOREM CopyHasItsEvent == Spec => []CopyIsDriven
  <1>1. Init => CopyIsDriven
    BY DEF Init, CopyIsDriven
  <1>2. TypeOK /\ CopyIsDriven /\ [Next]_vars => CopyIsDriven'
    <2> SUFFICES ASSUME TypeOK, CopyIsDriven, [Next]_vars
                 PROVE  CopyIsDriven'
      OBVIOUS
    <2>1. iterates \in Nat
      BY CopyAssumption DEF TypeOK
    <2>2. ASSUME NEW k \in Kinds, Start(k)
          PROVE  CopyIsDriven'
      BY <2>1, <2>2 DEF Start, CopyIsDriven
    <2>3. CASE Cancel \/ IterateDone \/ IterateCancelled \/ Crash
      BY <2>3 DEF Cancel, IterateDone, IterateCancelled, Finished, Crash, FreshUI, CopyIsDriven
    <2>4. CASE IterateChunk \/ Unplug \/ PlugIn \/ UpdateUsbStorageConnected \/ UNCHANGED vars
      BY <2>4 DEF IterateChunk, Unplug, PlugIn, UpdateUsbStorageConnected, vars, CopyIsDriven
    <2> QED
      BY <2>2, <2>3, <2>4 DEF Next
  <1> QED
    BY <1>1, <1>2, TypeCorrect, PTL DEF Spec

=============================================================================
