---------------------------- MODULE FileTransfer ----------------------------
(***************************************************************************)
(* What the user is promised about a file that is brought to the printer:  *)
(* a transfer ends as done or failed, or is cancelled; the files it leaves *)
(* in the internal storage are whole, one for each transfer that ended as  *)
(* done, and none of those that were there before is touched.              *)
(***************************************************************************)
EXTENDS Naturals

CONSTANT Names          \* names of files in the internal storage

VARIABLES
    phase,              \* what the UI says of the transfer
    files,              \* the files that the transfers have left
    reliable            \* no restart, no lack of room

vars == <<phase, files, reliable>>

Init == phase = "idle" /\ files = {} /\ reliable \in BOOLEAN

Start == phase = "idle" /\ phase' = "busy" /\ UNCHANGED files

Succeed ==
    /\ phase = "busy" /\ phase' = "done"
    /\ \E n \in Names \ {f.name : f \in files}, whole \in BOOLEAN :
        /\ whole \/ ~reliable
        /\ files' = files \cup {[name |-> n, whole |-> whole]}

Fail == phase \in {"idle", "busy"} /\ phase' = "failed" /\ UNCHANGED files

Cancel == phase # "idle" /\ phase' = "idle" /\ UNCHANGED files

\* A restart leaves what was written so far.
Interrupted ==
    /\ ~reliable
    /\ phase' = "idle"
    /\ \/ UNCHANGED files
       \/ \E n \in Names, whole \in BOOLEAN :
            files' = files \cup {[name |-> n, whole |-> whole]}

Next ==
    /\ Start \/ Succeed \/ Fail \/ Cancel \/ Interrupted
    /\ UNCHANGED reliable

Spec == Init /\ [][Next]_vars

=============================================================================
