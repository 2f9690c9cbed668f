--------------------------- MODULE BotConnection ---------------------------
(***************************************************************************)
(* What the rest of the UI is promised about BotModel::state.  The model   *)
(* starts Connecting; it may be told once that the first connection is     *)
(* late; from its first connection on it alternates between Connected and  *)
(* Disconnected and is never told of a late first connection again.        *)
(***************************************************************************)
VARIABLE state

Init == state = "Connecting"

FirstConnectionLate == state = "Connecting" /\ state' = "TimedOut"

Connected == state # "Connected" /\ state' = "Connected"

Disconnected == state = "Connected" /\ state' = "Disconnected"

Next == FirstConnectionLate \/ Connected \/ Disconnected

\* The user is not left on the start screen.
Progress == state = "Connecting" ~> state # "Connecting"

Spec == Init /\ [][Next]_state /\ Progress

=============================================================================
