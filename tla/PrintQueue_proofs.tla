-------------------------- MODULE PrintQueue_proofs --------------------------
(***************************************************************************)
(* For every queue, every combination of faults and any number of files:   *)
(* the fetch of the details of a job and its popup agree, the outcome of a *)
(* download is on the screen, and a download is a FileTransfer.            *)
(***************************************************************************)
EXTENDS PrintQueue, TLAPS, WellFoundedInduction

\* getDestination() finds the first unused name.
LEMMA DestinationIsUnused ==
    ASSUME Unused # {}
    PROVE  Destination \in Unused
  <1>1. Unused \subseteq Nat
    BY QueueAssumption DEF Unused, Names
  <1>2. PICK n \in Unused : \A k \in Unused : ~ (<<k, n>> \in OpToRel(<, Nat))
    BY <1>1, WFMin, NatLessThanWellFounded
  <1>3. ASSUME NEW k \in Unused PROVE n <= k
    <2>1. OpToRel(<, Nat) = {p \in Nat \X Nat : p[1] < p[2]}
      BY DEF OpToRel
    <2>2. ~ (k < n)
      BY <1>1, <1>2, <2>1
    <2> QED
      BY <1>1, <2>2
  <1> QED
    BY <1>3 DEF Destination

-----------------------------------------------------------------------------
(* The fetch.                                                              *)

\* Both popups are modal.
FetchInv ==
    /\ FetchListens
    /\ confirming => popup = "None"

LEMMA InitFetch == Init => FetchInv
  BY DEF Init, FetchInv, FetchListens

\* The popup is modal: no job can be tapped while the details of one are
\* fetched, and closing it ends the request.
LEMMA NextFetch ==
    ASSUME FetchInv, [Next]_vars
    PROVE  FetchInv'
  <1> USE DEF FetchInv, FetchListens
  <1>1. ASSUME NEW j \in Jobs, TapJob(j) PROVE FetchInv'
    BY <1>1, QueueAssumption DEF TapJob, NoModal, FetchPrintMetadata, fetchVars
  <1>2. CASE FinishFetch
    BY <1>2 DEF FinishFetch
  <1>3. CASE ClosePopup
    BY <1>3 DEF ClosePopup, pageVars
  <1>4. CASE Confirm
    BY <1>4 DEF Confirm, NoModal
  <1>5. CASE CheckStartQueuedPrintTimeout \/ PrintStarts
    BY <1>5 DEF CheckStartQueuedPrintTimeout, PrintStarts, pageVars
  <1>6. CASE Crash
    BY <1>6 DEF Crash
  <1>7. CASE PrintQueueUpdate \/ AsyncFetchMeta \/ OpenQueue
    BY <1>7 DEF PrintQueueUpdate, AsyncFetchMeta, OpenQueue, fetchVars,
                 pageVars
  <1>8. CASE TapStart \/ DoNotStart \/ Back
    BY <1>8 DEF TapStart, DoNotStart, Back, NoModal, fetchVars
  <1>9. CASE UpdateCurrentThing \/ AcknowledgePrint \/ PrintEnds
    BY <1>9 DEF UpdateCurrentThing, AcknowledgePrint, PrintEnds, fetchVars,
                 pageVars
  <1>10. CASE TapDownload
    BY <1>10 DEF TapDownload, fetchVars
  <1>11. CASE HandleReadyRead
    <2>1. UNCHANGED <<fetchVars, pageVars>>
      BY <1>11 DEF HandleReadyRead
    <2> QED
      BY <2>1 DEF fetchVars, pageVars
  <1>12. CASE HandleResponseDownloadSlice
    BY <1>12 DEF HandleResponseDownloadSlice, fetchVars, pageVars
  <1>13. CASE CloseCopyingPopup \/ UNCHANGED vars
    BY <1>13 DEF CloseCopyingPopup, vars, fetchVars,
                 pageVars
  <1> QED
    BY <1>1, <1>2, <1>3, <1>4, <1>5, <1>6, <1>7, <1>8, <1>9, <1>10, <1>11, <1>12,
       <1>13 DEF Next

\* PrintQueue::fetchPrintMetadata and the handlers that PrintPage connects to its
\* signals: no reply is lost on the page, and none finds the page elsewhere.
THEOREM FetchIsListenedTo == Spec => []FetchListens
  <1>1. FetchInv => FetchListens
    BY DEF FetchInv
  <1> QED
    BY <1>1, InitFetch, NextFetch, PTL DEF Spec

-----------------------------------------------------------------------------
(* The job that is started.                                                *)

\* The details on the page and those that are fetched are of the job that was
\* chosen, until a print from elsewhere shows its own.
JobInv ==
    /\ FetchInv
    /\ metaReply # NoJob => metaReply = chosen /\ chosen \in Jobs
    /\ page = "Confirm" => chosen \in Jobs /\ shown \in {chosen, ThePrint}
    /\ confirming /\ source = "FromPrintQueue" => page = "Confirm"
    /\ StartsShownJob

LEMMA InitJob == Init => JobInv
  <1>1. ASSUME Init PROVE StartsShownJob
    BY <1>1 DEF Init, StartsShownJob, NoPost
  <1> QED
    BY <1>1, InitFetch DEF Init, JobInv

LEMMA NextJob ==
    ASSUME JobInv, [Next]_vars
    PROVE  JobInv'
  <1>1. FetchInv'
    BY NextFetch DEF JobInv
  <1> USE <1>1 DEF JobInv
  <1>2. ASSUME posted' = posted PROVE StartsShownJob'
    BY <1>2 DEF StartsShownJob
  <1>3. ASSUME NEW j \in Jobs, TapJob(j) PROVE JobInv'
    <2>1. metaReply = NoJob /\ ~confirming /\ page = "Queue"
      BY <1>3 DEF TapJob, NoModal, FetchInv, FetchListens
    <2>2. chosen' = j /\ posted' = posted /\ confirming' = confirming
      BY <1>3 DEF TapJob
    <2>3. CASE ShowDetails(j) /\ UNCHANGED fetchVars
      BY <1>2, <2>1, <2>2, <2>3 DEF ShowDetails, fetchVars
    <2>4. CASE FetchPrintMetadata(j) /\ UNCHANGED <<timer, page, source, shown>>
      BY <1>2, <2>1, <2>2, <2>4 DEF FetchPrintMetadata
    <2> QED
      BY <1>3, <2>3, <2>4 DEF TapJob
  <1>4. CASE FinishFetch
    BY <1>2, <1>4 DEF FinishFetch, ShowDetails, FetchInv, FetchListens
  <1>5. CASE ClosePopup
    BY <1>2, <1>5 DEF ClosePopup, pageVars
  <1>6. CASE Confirm
    <2>1. CASE source = "FromPrintQueue"
      <3>1. page' = page /\ UNCHANGED <<metaReply, source, chosen, shown>> /\ ~confirming'
        BY <1>6, <2>1 DEF Confirm
      <3>2. posted'.job = chosen /\ posted'.shown = shown
        BY <1>6, <2>1 DEF Confirm
      <3>3. chosen \in Jobs /\ shown \in {chosen, ThePrint}
        BY <1>6, <2>1 DEF Confirm
      <3> QED
        BY <3>1, <3>2, <3>3 DEF StartsShownJob
    <2>2. CASE source # "FromPrintQueue"
      BY <1>2, <1>6, <2>2 DEF Confirm
    <2> QED
      BY <2>1, <2>2
  <1>7. CASE PrintStarts \/ Crash
    <2>1. page' = "Base" /\ source' = "None" /\ StartsShownJob'
      BY <1>7 DEF PrintStarts, Crash, StartsShownJob, NoPost
    <2>2. metaReply' = NoJob \/ UNCHANGED <<metaReply, chosen>>
      BY <1>7 DEF PrintStarts, Crash
    <2> QED
      BY <2>1, <2>2
  <1>8. CASE Back \/ AcknowledgePrint
    BY <1>2, <1>8 DEF Back, AcknowledgePrint, NoModal, FetchInv, FetchListens, fetchVars
  <1>9. CASE TapStart \/ DoNotStart
    BY <1>2, <1>9 DEF TapStart, DoNotStart, fetchVars
  <1>10. CASE CheckStartQueuedPrintTimeout \/ UpdateCurrentThing
    BY <1>2, <1>10 DEF CheckStartQueuedPrintTimeout, UpdateCurrentThing, fetchVars, pageVars
  <1>11. CASE TapDownload
    BY <1>2, <1>11 DEF TapDownload, NoModal, FetchInv, FetchListens, fetchVars
  <1>12. CASE UNCHANGED <<metaReply, pageVars, posted>>
    BY <1>2, <1>12 DEF pageVars
  <1>13. CASE PrintQueueUpdate \/ AsyncFetchMeta \/ OpenQueue
    BY <1>2, <1>13 DEF PrintQueueUpdate, AsyncFetchMeta, OpenQueue, fetchVars, pageVars,
                       NoModal
  <1>14. CASE PrintEnds \/ CloseCopyingPopup \/ UNCHANGED vars
    BY <1>12, <1>14 DEF PrintEnds, CloseCopyingPopup, vars, fetchVars
  <1>15. CASE HandleReadyRead \/ HandleResponseDownloadSlice
    <2>1. UNCHANGED <<fetchVars, pageVars, posted>>
      BY <1>15 DEF HandleReadyRead, HandleResponseDownloadSlice
    <2> QED
      BY <1>12, <2>1 DEF fetchVars
  <1> QED
    BY <1>3, <1>4, <1>5, <1>6, <1>7, <1>8, <1>9, <1>10, <1>11, <1>13, <1>14, <1>15
    DEF Next

\* getQueuedPrintFileDetails, startQueuedPrint and the handlers of PrintPage: the
\* job that the cloud is asked to print is the one whose details were confirmed,
\* unless a print from elsewhere had replaced them on the page.
THEOREM ShownJobStarts == Spec => []StartsShownJob
  <1>1. JobInv => StartsShownJob
    BY DEF JobInv
  <1> QED
    BY <1>1, InitJob, NextJob, PTL DEF Spec

-----------------------------------------------------------------------------
(* The download.                                                           *)

\* A download in flight has a file, which no earlier outcome is shown for; only
\* a write that fails tears a file; the popup of a full storage is the popup.
DownloadInv ==
    /\ disk \in [Names -> {"absent", "part", "torn", "whole"}]
    /\ slot \in Names \cup {0}
    /\ slot # 0 => disk[slot] # "absent" /\ ~succeeded
    /\ \A n \in Names : disk[n] = "torn" => "full" \in faults
    /\ OutcomeIsShown
    /\ tooFull => copying

LEMMA ZeroIsNoName == 0 \notin Names
  BY QueueAssumption DEF Names

\* What a popup that is not open says of the download.
LEMMA NothingGoesOn ==
    ASSUME DownloadInv, NoModal
    PROVE  slot = 0 /\ ~succeeded /\ ~failed /\ ~tooFull
  BY DEF DownloadInv, NoModal, OutcomeIsShown

\* A download that starts takes a name that is not in use.
LEMMA StartDownload ==
    ASSUME DownloadInv, slot = 0, DownloadSlice
    PROVE  \/ slot' = 0 /\ disk' = disk /\ failed'
           \/ /\ slot' \in Names /\ disk[slot'] = "absent" /\ failed' = failed
              /\ disk' = [disk EXCEPT ![slot'] = "part"]
  <1>1. CASE UNCHANGED <<disk, slot>> /\ failed' = TRUE
    BY <1>1
  <1>2. CASE /\ Unused # {} /\ slot' = Destination
             /\ disk' = [disk EXCEPT ![Destination] = "part"] /\ UNCHANGED failed
    BY <1>2, DestinationIsUnused DEF Unused
  <1> QED
    BY <1>1, <1>2 DEF DownloadSlice

\* The other actions leave the download alone.
LEMMA OthersLeaveDownload ==
    ASSUME [Next]_vars
    PROVE  \/ TapDownload \/ HandleReadyRead \/ HandleResponseDownloadSlice
           \/ CloseCopyingPopup \/ Crash
           \/ UNCHANGED <<faults, downloadVars>>
  <1>1. CASE PrintQueueUpdate \/ AsyncFetchMeta \/ OpenQueue
    BY <1>1 DEF PrintQueueUpdate, AsyncFetchMeta, OpenQueue
  <1>2. CASE \E j \in Jobs : TapJob(j)
    BY <1>2 DEF TapJob
  <1>3. CASE FinishFetch \/ ClosePopup
    BY <1>3 DEF FinishFetch, ClosePopup
  <1>4. CASE TapStart \/ Confirm \/ DoNotStart
    BY <1>4 DEF TapStart, Confirm, DoNotStart
  <1>5. CASE CheckStartQueuedPrintTimeout \/ Back \/ PrintStarts
    BY <1>5 DEF CheckStartQueuedPrintTimeout, Back, PrintStarts
  <1>6. CASE UpdateCurrentThing \/ AcknowledgePrint \/ PrintEnds
    BY <1>6 DEF UpdateCurrentThing, AcknowledgePrint, PrintEnds
  <1>7. CASE UNCHANGED vars
    BY <1>7 DEF vars
  <1> QED
    BY <1>1, <1>2, <1>3, <1>4, <1>5, <1>6, <1>7 DEF Next

LEMMA InitDownload == Init => DownloadInv
  BY DEF Init, DownloadInv, OutcomeIsShown

LEMMA NextDownload ==
    ASSUME DownloadInv, [Next]_vars
    PROVE  DownloadInv'
  <1> USE DEF DownloadInv, OutcomeIsShown
  <1>1. CASE TapDownload
    <2>1. CASE DownloadSlice /\ UNCHANGED tooFull
      <3>1. slot = 0 /\ ~succeeded /\ ~tooFull
        BY <1>1, NothingGoesOn DEF TapDownload
      <3>2. copying' /\ faults' = faults /\ succeeded' = succeeded /\ ~tooFull'
        BY <1>1, <2>1, <3>1 DEF TapDownload
      <3>3. CASE slot' = 0 /\ disk' = disk
        BY <3>1, <3>2, <3>3
      <3>4. CASE slot' \in Names /\ disk' = [disk EXCEPT ![slot'] = "part"]
        BY <3>1, <3>2, <3>4
      <3> QED
        BY <2>1, <3>1, <3>3, <3>4, StartDownload
    <2>2. CASE tooFull' = TRUE /\ UNCHANGED <<disk, slot, failed>>
      BY <1>1, <2>2, NothingGoesOn DEF TapDownload
    <2> QED
      BY <1>1, <2>1, <2>2 DEF TapDownload
  <1>2. CASE HandleReadyRead
    <2>1. PICK content \in {"whole", "torn"} :
            /\ content = "torn" => "full" \in faults
            /\ disk' = [disk EXCEPT ![slot] = content]
      BY <1>2 DEF HandleReadyRead
    <2>2. slot \in Names /\ faults' = faults
      BY <1>2 DEF HandleReadyRead
    <2>3. UNCHANGED <<slot, succeeded, failed, copying, tooFull>>
      BY <1>2 DEF HandleReadyRead
    <2> QED
      BY <2>1, <2>2, <2>3
  <1>3. CASE HandleResponseDownloadSlice
    <2>1. slot # 0 /\ copying /\ ~tooFull /\ UNCHANGED <<faults, copying, tooFull>>
      BY <1>3 DEF HandleResponseDownloadSlice
    <2>2. slot' = 0 /\ (disk' = disk \/ disk' = [disk EXCEPT ![slot] = "absent"])
      BY <1>3 DEF HandleResponseDownloadSlice, CleanupDownloadSlice
    <2> QED
      BY <2>1, <2>2, ZeroIsNoName
  <1>4. CASE CloseCopyingPopup
    <2>1. ~copying' /\ ~tooFull' /\ faults' = faults
      BY <1>4 DEF CloseCopyingPopup
    <2>2. CASE tooFull
      BY <1>4, <2>1, <2>2 DEF CloseCopyingPopup
    <2>3. CASE ~tooFull
      <3>1. slot' = 0 /\ ~succeeded' /\ ~failed'
        BY <1>4, <2>3 DEF CloseCopyingPopup, CancelDownload, CleanupDownloadSlice
      <3>2. disk' = disk \/ disk' = [disk EXCEPT ![slot] = "absent"]
        BY <1>4, <2>3 DEF CloseCopyingPopup, CancelDownload, CleanupDownloadSlice
      <3> QED
        BY <2>1, <3>1, <3>2
    <2> QED
      BY <2>2, <2>3
  <1>5. CASE Crash
    BY <1>5 DEF Crash
  <1>6. CASE UNCHANGED <<faults, downloadVars>>
    BY <1>6 DEF downloadVars
  <1> QED
    BY <1>1, <1>2, <1>3, <1>4, <1>5, <1>6, OthersLeaveDownload

\* PrintQueue::downloadSlice, cancelDownload, handleResponseDownloadSlice and the
\* popup of PrintPage: a download or its outcome is never off the screen, so that
\* the next one starts from nothing.
THEOREM OutcomeStaysShown == Spec => []OutcomeIsShown
  <1>1. DownloadInv => OutcomeIsShown
    BY DEF DownloadInv
  <1> QED
    BY <1>1, InitDownload, NextDownload, PTL DEF Spec

-----------------------------------------------------------------------------
(* A download is a FileTransfer.                                           *)

\* The files of a storage d, but for the one that is written.
LeftOf(d, s) ==
    {[name |-> n, whole |-> d[n] = "whole"] : n \in {k \in Names \ {s} : d[k] # "absent"}}

LEMMA LeftIsLeftOf == Left = LeftOf(disk, slot) /\ Left' = LeftOf(disk', slot')
  BY DEF Left, LeftOf

\* What happens to a file that does not count changes nothing.
LEMMA LeftSame ==
    ASSUME NEW d, NEW s, NEW d2, NEW s2,
           \A n \in Names : (n # s /\ d[n] # "absent") <=> (n # s2 /\ d2[n] # "absent"),
           \A n \in Names : (n # s /\ d[n] # "absent") => d[n] = d2[n]
    PROVE  LeftOf(d, s) = LeftOf(d2, s2)
  <1>1. {k \in Names \ {s} : d[k] # "absent"} = {k \in Names \ {s2} : d2[k] # "absent"}
    OBVIOUS
  <1>2. \A n \in {k \in Names \ {s} : d[k] # "absent"} : d[n] = d2[n]
    OBVIOUS
  <1> QED
    BY <1>1, <1>2 DEF LeftOf

\* A file that is closed is one more.
LEMMA LeftAdds ==
    ASSUME NEW d, NEW s \in Names, d[s] # "absent"
    PROVE  LeftOf(d, 0) = LeftOf(d, s) \cup {[name |-> s, whole |-> d[s] = "whole"]}
  <1>1. {k \in Names \ {0} : d[k] # "absent"} = {k \in Names \ {s} : d[k] # "absent"} \cup {s}
    BY ZeroIsNoName
  <1> QED
    BY <1>1 DEF LeftOf

LEMMA LeftNames ==
    ASSUME NEW d, NEW s
    PROVE  s \notin {f.name : f \in LeftOf(d, s)}
  BY DEF LeftOf

\* The file of a transfer that fails or is cancelled is none of those left.
LEMMA RemovedIsLeft ==
    ASSUME DownloadInv, slot \in Names, slot' = 0, disk' = [disk EXCEPT ![slot] = "absent"]
    PROVE  Left' = Left
  <1>1. \A n \in Names : (n # slot /\ disk[n] # "absent") <=>
                         (n # 0 /\ disk'[n] # "absent")
    BY ZeroIsNoName DEF DownloadInv
  <1>2. \A n \in Names : (n # slot /\ disk[n] # "absent") => disk[n] = disk'[n]
    BY DEF DownloadInv
  <1>3. LeftOf(disk, slot) = LeftOf(disk', 0)
    BY ONLY <1>1, <1>2, LeftSame
  <1> QED
    BY <1>3, LeftIsLeftOf

LEMMA InitTransfer == Init => Transfer!Init
  <1>1. ASSUME Init PROVE Left = {}
    BY <1>1 DEF Init, Left
  <1>2. ASSUME Init PROVE Phase = "idle"
    BY <1>2 DEF Init, Phase
  <1> QED
    BY <1>1, <1>2 DEF Transfer!Init

\* A step of the queue is one step of the transfer, or none.
LEMMA NextTransfer ==
    ASSUME DownloadInv, [Next]_vars
    PROVE  [Transfer!Next]_(Transfer!vars)
  <1> DEFINE Reliable == faults \cap {"full", "crash"} = {}
  <1> SUFFICES ASSUME UNCHANGED <<Phase, Left, Reliable>> => FALSE
               PROVE  Transfer!Next
    BY DEF Transfer!vars
  <1>1. CASE TapDownload
    <2>1. slot = 0 /\ ~succeeded /\ ~failed /\ Phase = "idle"
      BY <1>1, NothingGoesOn DEF TapDownload, Phase
    <2>2. Reliable' = Reliable /\ succeeded' = succeeded
      BY <1>1 DEF TapDownload
    <2>3. CASE slot' = 0 /\ disk' = disk /\ failed'
      <3>1. Left' = Left
        BY <2>1, <2>3, LeftIsLeftOf
      <3>2. Phase' = "failed"
        BY <2>1, <2>2, <2>3 DEF Phase
      <3> QED
        BY <2>1, <2>2, <3>1, <3>2 DEF Transfer!Next, Transfer!Fail
    <2>4. CASE /\ slot' \in Names /\ disk[slot'] = "absent"
               /\ disk' = [disk EXCEPT ![slot'] = "part"]
      <3>1. \A n \in Names : /\ (n # 0 /\ disk[n] # "absent") <=>
                                (n # slot' /\ disk'[n] # "absent")
                             /\ (n # 0 /\ disk[n] # "absent") => disk[n] = disk'[n]
        BY <2>4, ZeroIsNoName DEF DownloadInv
      <3>2. Left' = Left
        BY <2>1, <3>1, LeftIsLeftOf, LeftSame
      <3>3. Phase' = "busy"
        BY <2>4, ZeroIsNoName DEF Phase
      <3> QED
        BY <2>1, <2>2, <3>2, <3>3 DEF Transfer!Next, Transfer!Start
    <2>5. CASE UNCHANGED <<disk, slot, failed>>
      <3>1. Phase' = Phase /\ Left' = Left
        BY <2>2, <2>5 DEF Phase, Left
      <3> QED
        BY <2>2, <3>1
    <2>6. DownloadSlice \/ UNCHANGED <<disk, slot, failed>>
      BY <1>1 DEF TapDownload
    <2> QED
      BY <2>1, <2>3, <2>4, <2>5, <2>6, StartDownload
  <1>2. CASE HandleReadyRead
    <2>1. PICK content : disk' = [disk EXCEPT ![slot] = content]
      BY <1>2 DEF HandleReadyRead
    <2>2. UNCHANGED <<faults, slot, succeeded, failed>>
      BY <1>2 DEF HandleReadyRead
    <2>3. \A n \in Names : n # slot => disk'[n] = disk[n]
      BY <2>1 DEF DownloadInv
    <2>4. Left' = Left
      BY <2>2, <2>3, LeftIsLeftOf, LeftSame
    <2>5. Phase' = Phase
      BY <2>2 DEF Phase
    <2> QED
      BY <2>2, <2>4, <2>5
  <1>3. CASE HandleResponseDownloadSlice
    <2>1. slot \in Names /\ disk[slot] # "absent" /\ ~succeeded /\ Phase = "busy"
      BY <1>3 DEF HandleResponseDownloadSlice, DownloadInv, Phase
    <2>2. faults' = faults /\ Reliable' = Reliable
      BY <1>3 DEF HandleResponseDownloadSlice
    <2>3. CASE disk[slot] # "part" /\ succeeded' = TRUE /\ CleanupDownloadSlice(FALSE)
      <3>1. slot' = 0 /\ disk' = disk
        BY <2>3 DEF CleanupDownloadSlice
      <3>2. Left' = Left \cup {[name |-> slot, whole |-> disk[slot] = "whole"]}
        BY <2>1, <3>1, LeftIsLeftOf, LeftAdds
      <3>3. slot \in Names \ {f.name : f \in Left}
        BY <2>1, LeftIsLeftOf, LeftNames
      <3>4. disk[slot] = "whole" \/ ~Reliable
        BY <2>1, <2>3 DEF DownloadInv
      <3>5. Phase' = "done"
        BY <2>3, <3>1 DEF Phase
      <3>6. (disk[slot] = "whole") \in BOOLEAN
        OBVIOUS
      <3> QED
        BY <2>1, <2>2, <3>2, <3>3, <3>4, <3>5, <3>6 DEF Transfer!Next, Transfer!Succeed
    <2>4. CASE failed' = TRUE /\ CleanupDownloadSlice(TRUE) /\ UNCHANGED succeeded
      <3>1. slot' = 0 /\ disk' = [disk EXCEPT ![slot] = "absent"]
        BY <2>4 DEF CleanupDownloadSlice
      <3>2. Left' = Left
        BY <2>1, <3>1, RemovedIsLeft
      <3>3. Phase' = "failed"
        BY <2>1, <2>4, <3>1 DEF Phase
      <3> QED
        BY <2>1, <2>2, <3>2, <3>3 DEF Transfer!Next, Transfer!Fail
    <2> QED
      BY <1>3, <2>3, <2>4 DEF HandleResponseDownloadSlice
  <1>4. CASE CloseCopyingPopup
    <2>1. faults' = faults /\ Reliable' = Reliable
      BY <1>4 DEF CloseCopyingPopup
    <2>2. CASE UNCHANGED <<disk, slot, succeeded, failed>>
      <3>1. Phase' = Phase /\ Left' = Left
        BY <2>2 DEF Phase, Left
      <3> QED
        BY <2>1, <3>1
    <2>3. CASE CancelDownload
      <3>1. Phase' = "idle"
        BY <2>3 DEF CancelDownload, CleanupDownloadSlice, Phase
      <3>2. Left' = Left
        <4>1. CASE slot = 0
          BY <2>3, <4>1, LeftIsLeftOf DEF CancelDownload
        <4>2. CASE slot # 0
          BY <2>3, <4>2, RemovedIsLeft DEF CancelDownload, CleanupDownloadSlice, DownloadInv
        <4> QED
          BY <4>1, <4>2
      <3>3. Phase # "idle"
        BY <2>1, <3>1, <3>2
      <3> QED
        BY <2>1, <3>1, <3>2, <3>3 DEF Transfer!Next, Transfer!Cancel
    <2> QED
      BY <1>4, <2>2, <2>3 DEF CloseCopyingPopup
  <1>5. CASE Crash
    <2>1. ~Reliable /\ Reliable' = Reliable /\ slot' = 0 /\ disk' = disk
      BY <1>5 DEF Crash
    <2>2. Phase' = "idle"
      BY <1>5 DEF Crash, Phase
    <2>3. CASE slot = 0
      <3>1. Left' = Left
        BY <2>1, <2>3, LeftIsLeftOf
      <3> QED
        BY <2>1, <2>2, <3>1 DEF Transfer!Next, Transfer!Interrupted
    <2>4. CASE slot # 0
      <3>1. slot \in Names /\ disk[slot] # "absent"
        BY <2>4 DEF DownloadInv
      <3>2. Left' = Left \cup {[name |-> slot, whole |-> disk[slot] = "whole"]}
        BY <2>1, <3>1, LeftIsLeftOf, LeftAdds
      <3>3. (disk[slot] = "whole") \in BOOLEAN
        OBVIOUS
      <3> QED
        BY <2>1, <2>2, <3>1, <3>2, <3>3 DEF Transfer!Next, Transfer!Interrupted
    <2> QED
      BY <2>3, <2>4
  <1>6. CASE UNCHANGED <<faults, downloadVars>>
    BY <1>6 DEF downloadVars, Phase, Left
  <1> QED
    BY <1>1, <1>2, <1>3, <1>4, <1>5, <1>6, OthersLeaveDownload

\* PrintQueue's download implements FileTransfer, for any number of names and every
\* combination of faults: what shows up in the internal storage is whole unless
\* the storage was full or the printer restarted, and nothing there is touched.
THEOREM ImplementsTransfer == Spec => Transfers
  <1>1. Init /\ [][Next]_vars => Transfer!Spec
    BY InitTransfer, NextTransfer, InitDownload, NextDownload, PTL DEF Transfer!Spec
  <1> QED
    BY <1>1, PTL DEF Spec, Transfers

=============================================================================
