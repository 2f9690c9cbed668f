----------------------------- MODULE PrintQueue -----------------------------
(***************************************************************************)
(* The print queue of the cloud: PrintQueue fetches the details of a job,  *)
(* asks the cloud to print it and downloads its slice to the internal      *)
(* storage; PrintPage chooses the job, shows the details and waits for the *)
(* print.  Replies, taps and the notifications of Kaiten are handled by    *)
(* one thread in any order.  abort() finishes a reply before it returns,   *)
(* so that a cancellation and the handler it sets off are one step.        *)
(***************************************************************************)
EXTENDS Naturals, FiniteSets

CONSTANTS
    Jobs,       \* jobs of the queue
    MaxNames,   \* bound on the files of downloads
    Scenarios   \* sets of faults: "net", requests fail; "open", a file does not
                \* open; "full", a write fails; "crash", the UI restarts; "print",
                \* prints are started from elsewhere

NoJob == "no job"
ThePrint == "current thing"     \* the file being printed
Names == 1 .. MaxNames     \* what getDestination() tries, in this order

ASSUME QueueAssumption ==
    /\ {NoJob, ThePrint} \cap Jobs = {}
    /\ MaxNames \in Nat
    /\ Scenarios \subseteq SUBSET {"net", "open", "full", "crash", "print"}

VARIABLES
    faults,         \* what may go wrong in this behaviour
    queue,          \* NetModel::PrintQueue
    withMeta,       \* jobs whose button has its details (hasMeta)
    metaReply,      \* the job of metaReply_, or NoJob
    handlers,       \* connections to each of the FetchMetadata signals
    popup,          \* printFromQueueState, whose popup is modal
    timer,          \* checkStartQueuedPrintTimeout runs
    page,           \* item of printSwipeView
    source,         \* startPrintSource
    chosen,         \* print_job_id
    shown,          \* what the page shows the details of: a job, ThePrint or NoJob
    confirming,     \* startPrintPopup is open
    posted,         \* what startQueuedPrint() asked for, and what was shown then
    printing,       \* isPrintProcess
    disk,           \* files of the downloads
    slot,           \* name of downloadFile_, or 0
    succeeded, failed,  \* downloadingSucceeded_, downloadingFailed_
    copying,        \* copyingFilePopup is open, modal
    tooFull         \* internalStorageFull

fetchVars == <<metaReply, handlers, popup, timer>>
pageVars == <<page, source, chosen, shown, confirming>>
downloadVars == <<disk, slot, succeeded, failed, copying, tooFull>>
vars == <<faults, queue, withMeta, fetchVars, pageVars, posted, printing, downloadVars>>

NoPost == [job |-> NoJob, shown |-> NoJob, any |-> FALSE]

TypeOK ==
    /\ faults \in Scenarios
    /\ queue \subseteq Jobs /\ withMeta \subseteq queue
    /\ metaReply \in Jobs \cup {NoJob} /\ handlers \in 0 .. 1
    /\ popup \in {"None", "FetchingPrintDetails", "FailedToGetPrintDetails",
                  "WaitingToStartPrint", "FailedToStartPrint"}
    /\ timer \in BOOLEAN
    /\ page \in {"Base", "Queue", "Confirm"} /\ source \in {"None", "FromPrintQueue"}
    /\ chosen \in Jobs \cup {NoJob} /\ shown \in Jobs \cup {NoJob, ThePrint}
    /\ confirming \in BOOLEAN /\ printing \in BOOLEAN
    /\ posted \in [job : Jobs \cup {NoJob}, shown : Jobs \cup {NoJob, ThePrint}, any : BOOLEAN]
    /\ disk \in [Names -> {"absent", "part", "torn", "whole"}]
    /\ slot \in Names \cup {0}
    /\ succeeded \in BOOLEAN /\ failed \in BOOLEAN
    /\ copying \in BOOLEAN /\ tooFull \in BOOLEAN

Init ==
    /\ faults \in Scenarios
    /\ queue = {} /\ withMeta = {}
    /\ metaReply = NoJob /\ handlers = 0 /\ popup = "None" /\ timer = FALSE
    /\ page = "Base" /\ source = "None" /\ chosen = NoJob /\ shown = NoJob
    /\ confirming = FALSE /\ posted = NoPost /\ printing = FALSE
    /\ disk = [n \in Names |-> "absent"] /\ slot = 0
    /\ succeeded = FALSE /\ failed = FALSE /\ copying = FALSE /\ tooFull = FALSE

NoModal == popup = "None" /\ ~confirming /\ ~copying

-----------------------------------------------------------------------------
(* The queue and its browser.                                              *)

\* A new queue from Kaiten makes new buttons, without details.
PrintQueueUpdate ==
    /\ \E q \in SUBSET Jobs : q # queue /\ queue' = q
    /\ withMeta' = {}
    /\ UNCHANGED <<faults, fetchVars, pageVars, posted, printing, downloadVars>>

\* A button that becomes visible has its details fetched in a thread.
AsyncFetchMeta ==
    /\ page = "Queue"
    /\ \E j \in queue : withMeta' = withMeta \cup {j}
    /\ UNCHANGED <<faults, queue, fetchVars, pageVars, posted, printing, downloadVars>>

OpenQueue ==
    /\ page = "Base" /\ ~printing /\ NoModal
    /\ page' = "Queue"
    /\ UNCHANGED <<faults, queue, withMeta, fetchVars, source, chosen, shown,
                   confirming, posted, printing, downloadVars>>

\* getQueuedPrintFileDetails() without its handlers and the popup.
ShowDetails(j) ==
    /\ shown' = j
    /\ source' = "FromPrintQueue" /\ page' = "Confirm"

FetchPrintMetadata(j) ==
    IF metaReply = NoJob
    THEN metaReply' = j /\ handlers' = handlers + 1 /\ popup' = "FetchingPrintDetails"
    ELSE metaReply' = metaReply /\ handlers' = 0 /\ popup' = "FailedToGetPrintDetails"

TapJob(j) ==
    /\ page = "Queue" /\ NoModal /\ j \in queue
    /\ chosen' = j
    /\ \/ /\ j \in withMeta
          /\ ShowDetails(j)
          /\ UNCHANGED fetchVars
       \/ /\ j \notin withMeta
          /\ FetchPrintMetadata(j)
          /\ UNCHANGED <<timer, page, source, shown>>
    /\ UNCHANGED <<faults, queue, withMeta, confirming, posted, printing, downloadVars>>

\* handleResponseFetchMetadata(); the reply of a cancelled request was aborted.
FinishFetch ==
    /\ metaReply # NoJob
    /\ metaReply' = NoJob
    /\ \/ /\ handlers > 0
          /\ ShowDetails(metaReply)
          /\ popup' = "None"
       \/ /\ "net" \in faults
          /\ popup' = IF handlers > 0 THEN "FailedToGetPrintDetails" ELSE popup
          /\ UNCHANGED <<page, source, shown>>
       \/ /\ handlers = 0
          /\ UNCHANGED <<popup, page, source, shown>>
    /\ handlers' = 0
    /\ UNCHANGED <<faults, queue, withMeta, timer, chosen, confirming, posted, printing,
                   downloadVars>>

\* Mutant: the request is not aborted.
ClosePopup_KeepsReply ==
    /\ popup \notin {"None", "WaitingToStartPrint"}
    /\ popup' = "None"
    /\ UNCHANGED <<faults, queue, withMeta, metaReply, handlers, timer, pageVars, posted,
                   printing, downloadVars>>

\* CANCEL while the details are fetched, CLOSE after a failure.
ClosePopup ==
    /\ popup \notin {"None", "WaitingToStartPrint"}
    /\ popup' = "None"
    /\ IF popup = "FetchingPrintDetails"
       THEN metaReply' = NoJob /\ handlers' = 0
       ELSE UNCHANGED <<metaReply, handlers>>
    /\ UNCHANGED <<faults, queue, withMeta, timer, pageVars, posted, printing,
                   downloadVars>>

-----------------------------------------------------------------------------
(* Starting a queued print.                                                *)

TapStart ==
    /\ page = "Confirm" /\ NoModal
    /\ confirming' = TRUE
    /\ UNCHANGED <<faults, queue, withMeta, fetchVars, page, source, chosen, shown,
                   posted, printing, downloadVars>>

\* A print that is not from the queue is started by Kaiten, if it can be.
Confirm ==
    /\ confirming
    /\ confirming' = FALSE
    /\ IF source = "FromPrintQueue"
       THEN /\ posted' = [job |-> chosen, shown |-> shown, any |-> TRUE]
            /\ popup' = "WaitingToStartPrint"
            /\ timer' = TRUE
            /\ UNCHANGED page
       ELSE /\ page' = "Base"
            /\ UNCHANGED <<posted, popup, timer>>
    /\ UNCHANGED <<faults, queue, withMeta, metaReply, handlers, source, chosen, shown,
                   printing, downloadVars>>

DoNotStart ==
    /\ confirming
    /\ confirming' = FALSE
    /\ UNCHANGED <<faults, queue, withMeta, fetchVars, page, source, chosen, shown,
                   posted, printing, downloadVars>>

CheckStartQueuedPrintTimeout ==
    /\ timer
    /\ timer' = FALSE
    /\ popup' = IF popup = "WaitingToStartPrint" THEN "FailedToStartPrint" ELSE popup
    /\ UNCHANGED <<faults, queue, withMeta, metaReply, handlers, pageVars, posted,
                   printing, downloadVars>>

\* altBack() and backClicked.
Back ==
    /\ page # "Base" /\ NoModal
    /\ IF page = "Confirm"
       THEN /\ chosen' = NoJob /\ shown' = NoJob /\ source' = "None"
            /\ page' = IF ~printing /\ source = "FromPrintQueue" THEN "Queue" ELSE "Base"
       ELSE page' = "Base" /\ UNCHANGED <<chosen, shown, source>>
    /\ UNCHANGED <<faults, queue, withMeta, fetchVars, confirming, posted, printing,
                   downloadVars>>

\* Mutant: the timer is stopped and the popup left open.
PrintStarts_KeepsPopup ==
    /\ ~printing /\ ("print" \in faults \/ posted.any)
    /\ printing' = TRUE
    /\ page' = "Base" /\ source' = "None"
    /\ timer' = FALSE
    /\ posted' = NoPost
    /\ UNCHANGED <<faults, queue, withMeta, metaReply, handlers, popup, chosen, shown,
                   confirming, downloadVars>>

\* onIsPrintProcessChanged, for a job that was asked for or another print.
PrintStarts ==
    /\ ~printing /\ ("print" \in faults \/ posted.any)
    /\ printing' = TRUE
    /\ page' = "Base" /\ source' = "None"
    /\ IF popup = "WaitingToStartPrint"
       THEN popup' = "None" /\ timer' = FALSE
       ELSE UNCHANGED <<popup, timer>>
    /\ posted' = NoPost
    /\ UNCHANGED <<faults, queue, withMeta, metaReply, handlers, chosen, shown,
                   confirming, downloadVars>>

\* The details of the print, when its file is found valid or after 3 seconds.
UpdateCurrentThing ==
    /\ printing
    /\ shown' = ThePrint
    /\ UNCHANGED <<faults, queue, withMeta, fetchVars, page, source, chosen, confirming,
                   posted, printing, downloadVars>>

\* acknowledgePrint() of a print that has finished.
AcknowledgePrint ==
    /\ printing /\ page = "Base" /\ NoModal
    /\ chosen' = NoJob /\ shown' = NoJob
    /\ UNCHANGED <<faults, queue, withMeta, fetchVars, page, source, confirming, posted,
                   printing, downloadVars>>

\* The details stay: storage.currentThingReset() is not a function, and the
\* error ends the handler before resetPrintFileDetails().
PrintEnds ==
    /\ printing
    /\ printing' = FALSE
    /\ UNCHANGED <<faults, queue, withMeta, fetchVars, pageVars, posted, downloadVars>>

-----------------------------------------------------------------------------
(* Downloading a slice.                                                    *)

Unused == {n \in Names : disk[n] = "absent"}
Destination == CHOOSE n \in Unused : \A k \in Unused : n <= k

DownloadSlice ==
    IF slot # 0
    THEN UNCHANGED <<disk, slot, failed>>
    ELSE /\ Unused # {}     \* bound: as many downloads as Names
         /\ \/ /\ "open" \in faults
               /\ failed' = TRUE
               /\ UNCHANGED <<disk, slot>>
            \/ /\ slot' = Destination
               /\ disk' = [disk EXCEPT ![Destination] = "part"]
               /\ UNCHANGED failed

\* The menu of a job, in the browser or next to its details.
TapDownload ==
    /\ NoModal
    /\ \/ page = "Queue" /\ \E j \in queue : chosen' = j
       \/ page = "Confirm" /\ source = "FromPrintQueue" /\ UNCHANGED chosen
    /\ \/ DownloadSlice /\ UNCHANGED tooFull
       \/ tooFull' = TRUE /\ UNCHANGED <<disk, slot, failed>>
    /\ copying' = TRUE
    /\ UNCHANGED <<faults, queue, withMeta, fetchVars, page, source, shown, confirming,
                   posted, printing, succeeded>>

\* The last data comes; what write() returns is not looked at.
HandleReadyRead ==
    /\ slot # 0 /\ disk[slot] = "part"
    /\ \E content \in {"whole"} \cup (IF "full" \in faults THEN {"torn"} ELSE {}) :
        disk' = [disk EXCEPT ![slot] = content]
    /\ UNCHANGED <<faults, queue, withMeta, fetchVars, pageVars, posted, printing, slot,
                   succeeded, failed, copying, tooFull>>

\* Mutant: the file of a failed download is left.
CleanupDownloadSlice_Leaves(remove) == slot' = 0 /\ disk' = disk

CleanupDownloadSlice(remove) ==
    /\ slot' = 0
    /\ disk' = IF remove THEN [disk EXCEPT ![slot] = "absent"] ELSE disk

HandleResponseDownloadSlice ==
    /\ slot # 0
    /\ \/ /\ disk[slot] # "part"
          /\ succeeded' = TRUE
          /\ CleanupDownloadSlice(FALSE)
          /\ UNCHANGED failed
       \/ /\ "net" \in faults
          /\ failed' = TRUE
          /\ CleanupDownloadSlice(TRUE)
          /\ UNCHANGED succeeded
    /\ UNCHANGED <<faults, queue, withMeta, fetchVars, pageVars, posted, printing,
                   copying, tooFull>>

\* Mutant: only a download in flight is reset.
CancelDownload_InFlight ==
    /\ IF slot # 0 THEN CleanupDownloadSlice(TRUE) ELSE UNCHANGED <<disk, slot>>
    /\ UNCHANGED <<succeeded, failed>>

CancelDownload ==
    /\ IF slot # 0 THEN CleanupDownloadSlice(TRUE) ELSE UNCHANGED <<disk, slot>>
    /\ succeeded' = FALSE /\ failed' = FALSE

\* BACK or VIEW FILES of a full storage; CANCEL or CLOSE of a download.
CloseCopyingPopup ==
    /\ copying
    /\ copying' = FALSE /\ tooFull' = FALSE
    /\ IF tooFull THEN UNCHANGED <<disk, slot, succeeded, failed>> ELSE CancelDownload
    /\ UNCHANGED <<faults, queue, withMeta, fetchVars, pageVars, posted, printing>>

Crash ==
    /\ "crash" \in faults
    /\ queue' = {} /\ withMeta' = {}
    /\ metaReply' = NoJob /\ handlers' = 0 /\ popup' = "None" /\ timer' = FALSE
    /\ page' = "Base" /\ source' = "None" /\ chosen' = NoJob /\ shown' = NoJob
    /\ confirming' = FALSE /\ posted' = NoPost /\ printing' = FALSE
    /\ slot' = 0
    /\ succeeded' = FALSE /\ failed' = FALSE /\ copying' = FALSE /\ tooFull' = FALSE
    /\ UNCHANGED <<faults, disk>>

-----------------------------------------------------------------------------

Next ==
    \/ PrintQueueUpdate \/ AsyncFetchMeta \/ OpenQueue
    \/ \E j \in Jobs : TapJob(j)
    \/ FinishFetch \/ ClosePopup
    \/ TapStart \/ Confirm \/ DoNotStart \/ CheckStartQueuedPrintTimeout \/ Back
    \/ PrintStarts \/ UpdateCurrentThing \/ AcknowledgePrint \/ PrintEnds
    \/ TapDownload \/ HandleReadyRead \/ HandleResponseDownloadSlice
    \/ CloseCopyingPopup
    \/ Crash

Spec == Init /\ [][Next]_vars /\ WF_vars(CheckStartQueuedPrintTimeout)

-----------------------------------------------------------------------------
(* Properties.                                                             *)

\* A fetch is in flight exactly while its popup is on the screen and its three
\* handlers are connected, once each: no reply is lost on the page, none finds
\* the page elsewhere, and the next fetch is never refused as busy.
FetchListens ==
    /\ metaReply # NoJob <=> popup = "FetchingPrintDetails"
    /\ handlers = IF metaReply # NoJob THEN 1 ELSE 0

\* The cloud is asked to print a job, and the one whose details the user confirmed.
\* The only other details it may be are those of a print that started while the
\* details were fetched: its updateCurrentThing() replaces what the page shows.
StartsShownJob ==
    posted.any => posted.job \in Jobs /\ posted.shown \in {posted.job, ThePrint}

\* The popup that has no button goes away.
WaitEnds == popup = "WaitingToStartPrint" ~> popup # "WaitingToStartPrint"

\* The popup of a download is open as long as the download or its outcome is
\* there, so that the next download starts from nothing.
OutcomeIsShown == (slot # 0 \/ succeeded \/ failed) => copying /\ ~tooFull

\* A download is a FileTransfer: its file shows up only when it is done, whole
\* unless the storage was full or the printer restarted.
Phase == IF slot # 0 THEN "busy"
         ELSE IF succeeded THEN "done" ELSE IF failed THEN "failed" ELSE "idle"

Left == {[name |-> n, whole |-> disk[n] = "whole"] :
            n \in {k \in Names \ {slot} : disk[k] # "absent"}}

Transfer == INSTANCE FileTransfer WITH
    phase <- Phase, files <- Left, reliable <- faults \cap {"full", "crash"} = {}

Transfers == Transfer!Spec

=============================================================================
