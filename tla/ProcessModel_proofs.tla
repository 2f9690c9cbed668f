------------------------ MODULE ProcessModel_proofs ------------------------
(***************************************************************************)
(* For any number of processes and of notifications in flight.  Where      *)
(* every change is notified, what the UI shows and the notifications in    *)
(* flight are a trail that leads to Kaiten's process, step by step: that   *)
(* no print is taken to be loading, no flag outlives its error and no      *)
(* movement advances a later step of the setup follows from it.            *)
(***************************************************************************)
EXTENDS ProcessModel, TLAPS

\* The processes there may be, at the steps of their graphs.
Steps == UNION {DOMAIN Graph[n] : n \in DOMAIN Graph}
Processes ==
    {p \in [id : 1 .. MaxProcs, name : DOMAIN Graph, step : Steps, error : Errors,
            side : Sides, cancelled : BOOLEAN] :
        /\ p.step \in DOMAIN Graph[p.name]
        /\ p.step = "cancelling" => p.cancelled}
Notified == Processes \cup {NoProc}

NotifiedTyped == proc \in Notified /\ started \in 0 .. MaxProcs /\ sent \in Seq(Notified)

\* One change of Kaiten's process, from a to b: it begins, ends, goes on or has
\* an error come or go.
Begins(b) == b # NoProc /\ b.error = "NoError" /\ b.step = First(b.name)
GoesOn(a, b) ==
    /\ a # NoProc /\ b # NoProc
    /\ b.id = a.id /\ b.name = a.name
    /\ \/ /\ b.step \in Graph[a.name][a.step]
          /\ b.error = a.error /\ b.side = a.side
          /\ a.cancelled => b.cancelled
       \/ /\ b.step = a.step /\ b.cancelled = a.cancelled
          /\ a.error = "NoError" \/ b.error = "NoError"
Follows(a, b) == (a = NoProc /\ Begins(b)) \/ b = NoProc \/ GoesOn(a, b)

\* What the UI shows is p, the last notification it has handled.
FlagsOf(p) == IF p.error \in SideErrors THEN {<<p.error, p.side>>} ELSE {}
Shown(p) ==
    /\ id = p.id /\ errorType = p.error /\ sideFlags = FlagsOf(p)
    /\ type = IF p = NoProc THEN "None" ELSE TypeOf(p.name)
    /\ stateType = IF p = NoProc THEN "Loading" ELSE StateTypeOf(p.step)
    /\ isLoadUnloadWhilePaused => p # NoProc /\ loadOf = p.id

\* From the process that is shown over those in flight to that of Kaiten.
Trail(last, s) == [i \in 0 .. Len(s) |-> IF i = 0 THEN last ELSE s[i]]
LeadsTo(t, n, p) == t[n] = p /\ \A i \in 1 .. n : Follows(t[i - 1], t[i])

\* A movement that may still end is the only one, and the unpacking step waits
\* for it.
AtMove(p) == p.name = "MoveBuildPlateProcess" /\ p.step = "running"
AwaitsMove == unpacking = "moving" /\ freStep = 0
OneMove(t, n, awaited) ==
    /\ \A i \in 0 .. n : AtMove(t[i]) => awaited
    /\ \A i, j \in 0 .. n : i < j /\ AtMove(t[i]) /\ AtMove(t[j]) => AtMove(t[i + 1])

IsTrail(last) ==
    /\ Shown(last)
    /\ LeadsTo(Trail(last, sent), Len(sent), proc)
    /\ "remote" \notin faults => OneMove(Trail(last, sent), Len(sent), AwaitsMove)

TrailInv == "coalesce" \notin faults => \E last \in Notified : IsTrail(last)

IsReset(p) == p.name = "ResetToFactoryProcess"

\* A reset that is not done is the last process there was: what is notified after it
\* is of it too, and so is Kaiten's process.
LastIsReset ==
    /\ \A i, j \in 1 .. Len(sent) : i <= j /\ IsReset(sent[i]) => IsReset(sent[j])
    /\ \A i \in 1 .. Len(sent) : IsReset(sent[i]) => IsReset(proc)
    /\ type = "FactoryResetProcess" =>
            IsReset(proc) /\ \A i \in 1 .. Len(sent) : IsReset(sent[i])

\* A reset that the UI sees done has been done.
ResetDone(p) == IsReset(p) /\ p.step = "done"
WipedInv ==
    /\ ~wiped => LastIsReset
    /\ ResetDone(proc) => wiped
    /\ \A i \in 1 .. Len(sent) : ResetDone(sent[i]) => wiped
    /\ "factoryDone" \in reset => wiped
    /\ rebooting => wiped

-----------------------------------------------------------------------------
(* The graphs of the processes.                                            *)

LEMMA GraphNames ==
    /\ DOMAIN Graph = {"PrintProcess", "MoveBuildPlateProcess", "ZipLogsProcess",
                       "ResetToFactoryProcess"}
    /\ DOMAIN Graph["PrintProcess"] =
            {"initializing", "printing", "suspended", "preheating_loading", "cleaning_up"}
    /\ DOMAIN Graph["MoveBuildPlateProcess"] = {"running", "cancelling", "cleaning_up", "done"}
    /\ DOMAIN Graph["ZipLogsProcess"] = {"running", "done"}
    /\ DOMAIN Graph["ResetToFactoryProcess"] = {"running", "done"}
  BY DEF Graph

LEMMA GraphSteps ==
    ASSUME NEW n \in DOMAIN Graph, NEW s \in DOMAIN Graph[n], NEW u \in Graph[n][s]
    PROVE  /\ u = "none" \/ u \in DOMAIN Graph[n]
           /\ u # "running"
           /\ n = "MoveBuildPlateProcess" /\ u = "cancelling" => s = "running"
           /\ n = "MoveBuildPlateProcess" /\ u = "cleaning_up" => s \in {"running", "cancelling"}
  <1>1. CASE n = "PrintProcess"
    BY <1>1, GraphNames DEF Graph
  <1>2. CASE n = "MoveBuildPlateProcess"
    BY <1>2, GraphNames DEF Graph
  <1>3. CASE n \in {"ZipLogsProcess", "ResetToFactoryProcess"}
    BY <1>3, GraphNames DEF Graph
  <1> QED
    BY <1>1, <1>2, <1>3, GraphNames

LEMMA FirstSteps ==
    ASSUME NEW n \in DOMAIN Graph
    PROVE  First(n) \in DOMAIN Graph[n] /\ First(n) # "cancelling" /\ First(n) # "done"
  BY GraphNames DEF First

\* What begins, goes on or has an error is a process.
LEMMA BegunTyped ==
    ASSUME NEW n \in DOMAIN Graph, NEW i \in 1 .. MaxProcs
    PROVE  LET b == [NoProc EXCEPT !.id = i, !.name = n, !.step = First(n)]
           IN b \in Processes /\ Begins(b) /\ b.name = n /\ b.step = First(n)
  BY FirstSteps, GraphNames DEF NoProc, Processes, Begins, Steps, Errors, SideErrors, Sides

LEMMA StepTyped ==
    ASSUME NEW p \in Processes, NEW s \in Graph[p.name][p.step]
    PROVE  LET b == IF s = "none" THEN NoProc
                    ELSE [p EXCEPT !.step = s, !.cancelled = @ \/ s = "cancelling"]
           IN /\ b \in Notified /\ Follows(p, b) /\ ~AtMove(b)
              /\ s # "none" => b.name = p.name /\ b.step = s
  <1>1. s = "none" \/ s \in DOMAIN Graph[p.name]
    BY GraphSteps DEF Processes
  <1>2. s # "running"
    BY GraphSteps DEF Processes
  <1>3. CASE s = "none"
    BY <1>3 DEF Notified, Follows, AtMove, NoProc
  <1>4. CASE s # "none"
    <2> DEFINE b == [p EXCEPT !.step = s, !.cancelled = @ \/ s = "cancelling"]
    <2>1. /\ b.id = p.id /\ b.name = p.name /\ b.step = s /\ b.error = p.error
          /\ b.side = p.side
      BY DEF Processes
    <2>2. b.cancelled = (p.cancelled \/ s = "cancelling")
      BY DEF Processes
    <2>3. s \in Steps
      BY <1>1, <1>4 DEF Steps, Processes
    <2>4. (p.cancelled \/ s = "cancelling") \in BOOLEAN
      OBVIOUS
    <2>5. b \in [id : 1 .. MaxProcs, name : DOMAIN Graph, step : Steps, error : Errors,
                  side : Sides, cancelled : BOOLEAN]
      BY <2>3, <2>4 DEF Processes
    <2>6. b \in Processes
      BY <1>1, <1>4, <2>1, <2>2, <2>5, Zenon DEF Processes
    <2>7. p # NoProc /\ b # NoProc
      BY <2>6, GraphNames DEF Processes, NoProc
    <2>8. Follows(p, b)
      BY <2>1, <2>2, <2>7, Zenon DEF Follows, GoesOn
    <2> QED
      BY <1>2, <1>4, <2>1, <2>6, <2>8 DEF Notified, AtMove
  <1> QED
    BY <1>3, <1>4

LEMMA ErrorTyped ==
    ASSUME NEW p \in Processes, NEW e \in Errors, NEW s \in Sides,
           (e = "NoError") # (p.error = "NoError")
    PROVE  LET b == [p EXCEPT !.error = e, !.side = s]
           IN b \in Processes /\ Follows(p, b) /\ b.name = p.name /\ b.step = p.step
  <1> DEFINE b == [p EXCEPT !.error = e, !.side = s]
  <1>1. /\ b.id = p.id /\ b.name = p.name /\ b.step = p.step /\ b.error = e
        /\ b.cancelled = p.cancelled
    BY DEF Processes
  <1>2. b \in Processes
    BY DEF Processes
  <1>3. p # NoProc /\ b # NoProc
    BY <1>2, GraphNames DEF Processes, NoProc
  <1>4. Follows(p, b)
    BY <1>1, <1>3 DEF Follows, GoesOn
  <1> QED
    BY <1>1, <1>2, <1>4

-----------------------------------------------------------------------------
(* What ProcessModel makes of a process.                                   *)

LEMMA StepsAre ==
    Steps = {"initializing", "printing", "suspended", "preheating_loading", "cleaning_up",
             "running", "cancelling", "done"}
  BY GraphNames DEF Steps

LEMMA StateTypeFacts ==
    ASSUME NEW s \in Steps
    PROVE  /\ StateTypeOf(s) \in StateTypes
           /\ StateTypeOf(s) = "Cancelling" <=> s = "cancelling"
           /\ StateTypeOf(s) = "CleaningUp" <=> s = "cleaning_up"
           /\ StateTypeOf(s) = "Done" <=> s = "done"
  <1>1. StateTypeOf(s) \in StateTypes
    BY DEF StateTypes, Steps
  <1> QED
    BY <1>1, StepsAre DEF StateTypeOf

LEMMA NullTypes == "None" \in Types /\ "Loading" \in StateTypes
  <1>1. "initializing" \in Steps /\ StateTypeOf("initializing") = "Loading"
    BY StepsAre DEF StateTypeOf
  <1> QED
    BY <1>1 DEF Types, StateTypes, Steps

LEMMA TypeFacts ==
    ASSUME NEW n \in DOMAIN Graph
    PROVE  /\ TypeOf(n) \in Types \ {"None"}
           /\ TypeOf(n) = "MoveBuildPlateProcess" <=> n = "MoveBuildPlateProcess"
           /\ TypeOf(n) = "FactoryResetProcess" <=> n = "ResetToFactoryProcess"
  <1>1. TypeOf(n) \in Types
    BY DEF Types
  <1> QED
    BY <1>1, GraphNames DEF TypeOf

\* The step of a movement that a page reacts to is its end, or its cancelling:
\* the movement ran when the one before was notified.
LEMMA UnpackingReacts ==
    ASSUME NEW last \in Notified, Shown(last), NEW p \in Processes, Follows(last, p),
           StateTypeOf(p.step) # stateType,
           UnpackingStep(type, StateTypeOf(p.step), p.cancelled)
    PROVE  \/ UNCHANGED <<unpacking, freStep>>
           \/ AtMove(last) /\ ~AtMove(p)
  <1> SUFFICES ASSUME ~UNCHANGED <<unpacking, freStep>>
               PROVE  AtMove(last) /\ ~AtMove(p)
    OBVIOUS
  <1>1. p.step \in Steps /\ p # NoProc
    BY GraphNames DEF Processes, NoProc
  <1>2. /\ type = "MoveBuildPlateProcess"
        /\ StateTypeOf(p.step) \in {"Cancelling", "CleaningUp"}
        /\ StateTypeOf(p.step) = "CleaningUp" => ~p.cancelled
    BY DEF UnpackingStep
  <1>3. /\ p.step \in {"cancelling", "cleaning_up"}
        /\ p.step = "cleaning_up" => ~p.cancelled
    BY <1>1, <1>2, StateTypeFacts
  <1>4. last \in Processes /\ last.name = "MoveBuildPlateProcess" /\ last # NoProc
        /\ last.step \in DOMAIN Graph[last.name] /\ last.name \in DOMAIN Graph
    <2>1. last # NoProc
      BY <1>2 DEF Shown
    <2>2. last \in Processes
      BY <2>1 DEF Notified
    <2>3. TypeOf(last.name) = "MoveBuildPlateProcess"
      BY <1>2, <2>1 DEF Shown
    <2> QED
      BY <2>1, <2>2, <2>3, TypeFacts DEF Processes
  <1>5. stateType = StateTypeOf(last.step)
    BY <1>4 DEF Shown
  <1>6. p.step \in Graph[last.name][last.step] /\ (last.cancelled => p.cancelled)
    BY <1>1, <1>4, <1>5 DEF Follows, GoesOn
  <1>7. last.step = "cancelling" => last.cancelled
    BY <1>4 DEF Processes
  <1>8. last.step = "running"
    BY <1>3, <1>4, <1>6, <1>7, GraphSteps
  <1> QED
    BY <1>3, <1>4, <1>8 DEF AtMove

\* The flags are those of the error that there is.
LEMMA FlagsFollow ==
    ASSUME NEW last \in Notified, Shown(last), NEW p \in Processes, Follows(last, p),
           UpdateError(p)
    PROVE  errorType' = p.error /\ sideFlags' = FlagsOf(p)
  <1>1. p # NoProc
    BY GraphNames DEF Processes, NoProc
  <1>2. sideFlags = FlagsOf(last) /\ errorType' = p.error
    BY DEF Shown, UpdateError
  <1>3. CASE p.error = "NoError"
    BY <1>2, <1>3 DEF UpdateError, FlagsOf, SideErrors
  <1>4. CASE p.error # "NoError"
    <2>1. GoesOn(last, p)
      BY <1>1, <1>4 DEF Follows, Begins
    <2>2. last.error = "NoError" \/ (last.error = p.error /\ last.side = p.side)
      BY <1>4, <2>1 DEF GoesOn
    <2>3. sideFlags \subseteq FlagsOf(p)
      BY <1>2, <2>2 DEF FlagsOf, SideErrors
    <2> QED
      BY <1>2, <1>4, <2>3 DEF UpdateError, FlagsOf
  <1> QED
    BY <1>3, <1>4

\* A load or unload is of the print that is shown.
LEMMA LoadFollows ==
    ASSUME NEW last \in Notified, Shown(last), NEW p \in Processes, Follows(last, p),
           LoadUnload(p), isLoadUnloadWhilePaused'
    PROVE  loadOf' = p.id
  <1>1. p # NoProc
    BY GraphNames DEF Processes, NoProc
  <1>2. CASE p.step = "preheating_loading"
    BY <1>2 DEF LoadUnload
  <1>3. CASE p.step # "preheating_loading"
    <2>1. UNCHANGED <<isLoadUnloadWhilePaused, loadOf>>
      BY <1>3, Zenon DEF LoadUnload
    <2>2. last # NoProc /\ loadOf = last.id
      BY <2>1 DEF Shown
    <2>3. last.id = p.id
      BY <1>1, <2>2 DEF Follows, GoesOn
    <2> QED
      BY <2>1, <2>2, <2>3
  <1> QED
    BY <1>2, <1>3

-----------------------------------------------------------------------------
(* What Kaiten and the pages do to the trail.                              *)

LEMMA BecomesTypes ==
    ASSUME NotifiedTyped, Len(sent) <= MaxSent, NEW p \in Notified, Becomes(p)
    PROVE  /\ proc' \in Notified /\ sent' \in Seq(Notified) /\ Len(sent') <= MaxSent
           /\ \A i \in 1 .. Len(sent') :
                  sent'[i] = p \/ \E j \in 1 .. Len(sent) : sent'[i] = sent[j]
  BY ProcessAssumption DEF NotifiedTyped, Becomes

\* A request starts a process or is refused.
LEMMA AskedStarts ==
    ASSUME NotifiedTyped, NEW name \in DOMAIN Graph, Asked(name)
    PROVE  /\ UNCHANGED wiped /\ started' \in 0 .. MaxProcs
           /\ \/ UNCHANGED <<proc, sent>>
              \/ \E b \in Processes : /\ proc = NoProc /\ Begins(b) /\ Becomes(b)
                                      /\ b.name = name /\ b.step = First(name)
  <1>1. CASE proc = NoProc
    <2> DEFINE b == [NoProc EXCEPT !.id = started + 1, !.name = name, !.step = First(name)]
    <2>1. Becomes(b) /\ UNCHANGED wiped /\ started < MaxProcs /\ started' = started + 1
      BY <1>1 DEF Asked
    <2>2. started + 1 \in 1 .. MaxProcs
      BY <2>1, ProcessAssumption DEF NotifiedTyped
    <2>3. b \in Processes /\ Begins(b) /\ b.name = name /\ b.step = First(name)
      BY <2>2, BegunTyped
    <2> QED
      <3> HIDE DEF b
      <3>1. started' \in 0 .. MaxProcs
        BY <2>1, <2>2
      <3>2. \E c \in Processes : /\ proc = NoProc /\ Begins(c) /\ Becomes(c)
                                /\ c.name = name /\ c.step = First(name)
        BY <1>1, <2>1, <2>3
      <3> QED
        BY <2>1, <3>1, <3>2
  <1>2. CASE proc # NoProc
    BY <1>2 DEF Asked, kaitenVars, NotifiedTyped
  <1> QED
    BY <1>1, <1>2

\* What is in flight when a notification joins it.
LEMMA TrailGrows ==
    ASSUME sent \in Seq(Notified), NEW last \in Notified, NEW p \in Notified,
           sent' = Append(sent, p)
    PROVE  LET t == Trail(last, sent)
               n == Len(sent)
           IN /\ n \in Nat /\ Len(sent') = n + 1
              /\ \A i \in 0 .. n : Trail(last, sent')[i] = t[i]
              /\ Trail(last, sent')[n + 1] = p
  BY DEF Trail

LEMMA GrowsLeads ==
    ASSUME NEW n \in Nat, NEW t, NEW u, NEW p, NEW q, LeadsTo(t, n, p), Follows(p, q),
           \A i \in 0 .. n : u[i] = t[i], u[n + 1] = q
    PROVE  LeadsTo(u, n + 1, q)
  <1>1. ASSUME NEW i \in 1 .. n
        PROVE  Follows(u[i - 1], u[i])
    BY DEF LeadsTo
  <1>2. Follows(u[(n + 1) - 1], u[n + 1])
    BY DEF LeadsTo
  <1>3. \A i \in 1 .. n + 1 : Follows(u[i - 1], u[i])
    BY <1>1, <1>2
  <1> QED
    BY <1>3 DEF LeadsTo

\* A movement that begins is the only one if none is awaited before.
LEMMA GrowsOneMove ==
    ASSUME NEW n \in Nat, NEW t, NEW u, NEW q,
           NEW before \in BOOLEAN, NEW after \in BOOLEAN, before => after,
           OneMove(t, n, before),
           \A i \in 0 .. n : u[i] = t[i], u[n + 1] = q,
           AtMove(q) /\ ~AtMove(t[n]) => ~before /\ after
    PROVE  OneMove(u, n + 1, after)
  <1>1. AtMove(q) => after
    BY DEF OneMove
  <1>2. \A i \in 0 .. n + 1 : AtMove(u[i]) => after
    BY <1>1 DEF OneMove
  <1>3. ASSUME NEW i \in 0 .. n + 1, NEW j \in 0 .. n + 1, i < j, AtMove(u[i]), AtMove(u[j])
        PROVE  AtMove(u[i + 1])
    <2>1. i \in 0 .. n /\ i + 1 \in 0 .. n + 1 /\ AtMove(t[i])
      BY <1>3
    <2>2. CASE j \in 0 .. n
      BY <1>3, <2>1, <2>2 DEF OneMove
    <2>3. CASE j = n + 1
      <3>1. AtMove(t[n])
        BY <1>3, <2>1, <2>3 DEF OneMove
      <3>2. CASE i = n
        BY <1>3, <2>3, <3>2
      <3>3. CASE i < n
        BY <2>1, <3>1, <3>3 DEF OneMove
      <3> QED
        BY <2>1, <3>2, <3>3
    <2> QED
      BY <1>3, <2>2, <2>3
  <1> QED
    BY <1>2, <1>3 DEF OneMove

LEMMA KaitenKeepsTrail ==
    ASSUME NotifiedTyped, TrailInv, UNCHANGED <<faults, modelVars>>, AwaitsMove => AwaitsMove',
           \/ UNCHANGED <<proc, sent>>
           \/ \E p \in Notified :
                /\ Becomes(p) /\ Follows(proc, p)
                /\ "remote" \notin faults /\ AtMove(p) /\ ~AtMove(proc) =>
                        ~AwaitsMove /\ AwaitsMove'
    PROVE  TrailInv'
  <1> SUFFICES ASSUME "coalesce" \notin faults
               PROVE  \E last \in Notified : IsTrail(last)'
    BY DEF TrailInv
  <1>1. PICK last \in Notified : IsTrail(last)
    BY DEF TrailInv
  <1> DEFINE t == Trail(last, sent)
             n == Len(sent)
  <1>2. Shown(last)' /\ Shown(last)
    BY <1>1 DEF Shown, modelVars, IsTrail
  <1>3. AwaitsMove \in BOOLEAN /\ AwaitsMove' \in BOOLEAN
    BY DEF AwaitsMove
  <1>4. CASE UNCHANGED <<proc, sent>>
    <2>1. "remote" \notin faults => OneMove(t, n, AwaitsMove')
      BY <1>1 DEF IsTrail, OneMove
    <2>2. IsTrail(last)'
      BY <1>1, <1>2, <1>4, <2>1 DEF IsTrail
    <2> QED
      BY <2>2
  <1>5. CASE \E p \in Notified :
                /\ Becomes(p) /\ Follows(proc, p)
                /\ "remote" \notin faults /\ AtMove(p) /\ ~AtMove(proc) =>
                        ~AwaitsMove /\ AwaitsMove'
    <2>1. PICK p \in Notified :
                /\ Becomes(p) /\ Follows(proc, p)
                /\ "remote" \notin faults /\ AtMove(p) /\ ~AtMove(proc) =>
                        ~AwaitsMove /\ AwaitsMove'
      BY <1>5
    <2>2. proc' = p /\ sent' = Append(sent, p)
      BY <1>1, <2>1, Zenon DEF Becomes, TrailInv
    <2> DEFINE u == Trail(last, sent')
    <2>3. /\ n \in Nat /\ Len(sent') = n + 1
          /\ \A i \in 0 .. n : u[i] = t[i]
          /\ u[n + 1] = p
      BY <2>2, TrailGrows DEF NotifiedTyped
    <2>4. LeadsTo(t, n, proc) /\ t[n] = proc
      BY <1>1 DEF IsTrail, LeadsTo
    <2>5. LeadsTo(u, n + 1, p)
      <3> HIDE DEF t, n, u
      <3> QED
        BY <2>1, <2>3, <2>4, GrowsLeads
    <2>6. ASSUME "remote" \notin faults
          PROVE  OneMove(u, n + 1, AwaitsMove')
      <3>1. OneMove(t, n, AwaitsMove)
        BY <1>1, <2>6 DEF IsTrail
      <3> HIDE DEF t, n, u
      <3> QED
        BY <1>3, <2>1, <2>3, <2>4, <2>6, <3>1, GrowsOneMove
    <2>7. IsTrail(last)'
      BY <1>2, <2>2, <2>3, <2>5, <2>6 DEF IsTrail
    <2> QED
      BY <2>7
  <1> QED
    BY <1>4, <1>5

\* What is in flight when the first notification is handled.
LEMMA TrailShrinks ==
    ASSUME sent \in Seq(Notified), sent # <<>>, sent' = Tail(sent), NEW last
    PROVE  /\ Len(sent) \in Nat \ {0} /\ Len(sent') = Len(sent) - 1
           /\ sent' \in Seq(Notified)
           /\ Head(sent) = sent[1] /\ sent[1] \in Notified
           /\ Trail(last, sent)[0] = last /\ Trail(last, sent)[1] = sent[1]
           /\ \A i \in 0 .. Len(sent) - 1 :
                Trail(sent[1], sent')[i] = Trail(last, sent)[i + 1]
           /\ \A i \in 1 .. Len(sent') : sent'[i] = sent[i + 1]
  BY DEF Trail

LEMMA ShrinksLeads ==
    ASSUME NEW n \in Nat \ {0}, NEW t, NEW u, NEW p, LeadsTo(t, n, p),
           \A i \in 0 .. n - 1 : u[i] = t[i + 1]
    PROVE  LeadsTo(u, n - 1, p)
  <1>1. ASSUME NEW i \in 1 .. n - 1
        PROVE  Follows(u[i - 1], u[i])
    <2>1. i - 1 \in 0 .. n - 1 /\ i \in 0 .. n - 1 /\ i + 1 \in 1 .. n
      OBVIOUS
    <2>2. u[i - 1] = t[i] /\ u[i] = t[i + 1]
      BY <2>1
    <2>3. Follows(t[(i + 1) - 1], t[i + 1])
      BY <2>1 DEF LeadsTo
    <2> QED
      BY <2>2, <2>3
  <1>2. u[n - 1] = t[n]
    OBVIOUS
  <1> QED
    BY <1>1, <1>2 DEF LeadsTo

\* Of one movement nothing is left once it has been seen to end.
LEMMA ShrinksOneMove ==
    ASSUME NEW n \in Nat \ {0}, NEW t, NEW u,
           NEW before \in BOOLEAN, NEW after \in BOOLEAN, OneMove(t, n, before),
           \A i \in 0 .. n - 1 : u[i] = t[i + 1],
           (before => after) \/ (AtMove(t[0]) /\ ~AtMove(t[1]))
    PROVE  OneMove(u, n - 1, after)
  <1>1. ASSUME NEW i \in 0 .. n - 1, AtMove(u[i])
        PROVE  after
    <2>1. AtMove(t[i + 1]) /\ i + 1 \in 0 .. n /\ 0 \in 0 .. n
      BY <1>1
    <2>2. before
      BY <2>1 DEF OneMove
    <2>3. AtMove(t[0]) => AtMove(t[1])
      BY <2>1 DEF OneMove
    <2> QED
      BY <2>2, <2>3
  <1>2. ASSUME NEW i \in 0 .. n - 1, NEW j \in 0 .. n - 1, i < j, AtMove(u[i]), AtMove(u[j])
        PROVE  AtMove(u[i + 1])
    <2>1. /\ i + 1 \in 0 .. n /\ j + 1 \in 0 .. n /\ i + 1 < j + 1
          /\ i + 1 \in 0 .. n - 1
      BY <1>2
    <2>2. AtMove(t[i + 1]) /\ AtMove(t[j + 1]) /\ u[i + 1] = t[(i + 1) + 1]
      BY <1>2, <2>1
    <2>3. AtMove(t[(i + 1) + 1])
      BY <2>1, <2>2 DEF OneMove
    <2> QED
      BY <2>2, <2>3
  <1> QED
    BY <1>1, <1>2 DEF OneMove

\* What is shown next is the process that was notified.
LEMMA ProcUpdateShows ==
    ASSUME ProcUpdate, NEW last \in Notified, Shown(last),
           NEW p \in Notified, p = Head(sent), Follows(last, p)
    PROVE  Shown(p)'
  <1>1. CASE p = NoProc
    <2>1. Reset
      BY <1>1 DEF ProcUpdate
    <2> QED
      BY <1>1, <2>1 DEF Reset, Shown, FlagsOf, NoProc, SideErrors
  <1>2. CASE p # NoProc
    <2>1. p \in Processes
      BY <1>2 DEF Notified
    <2>2. /\ LoadUnload(p) /\ UpdateError(p)
          /\ stateType' = StateTypeOf(p.step) /\ type' = TypeOf(p.name) /\ id' = p.id
      BY <1>2 DEF ProcUpdate
    <2>3. errorType' = p.error /\ sideFlags' = FlagsOf(p)
      BY <2>1, <2>2, FlagsFollow
    <2>4. isLoadUnloadWhilePaused' => loadOf' = p.id
      BY <2>1, <2>2, LoadFollows
    <2> QED
      BY <1>2, <2>2, <2>3, <2>4 DEF Shown
  <1> QED
    BY <1>1, <1>2

\* The unpacking step goes on waiting, unless its movement was seen to end.
LEMMA ProcUpdateAwaits ==
    ASSUME ProcUpdate, NEW last \in Notified, Shown(last),
           NEW p \in Notified, p = Head(sent), Follows(last, p)
    PROVE  UNCHANGED <<unpacking, freStep>> \/ (AtMove(last) /\ ~AtMove(p))
  <1>1. CASE p = NoProc
    BY <1>1 DEF ProcUpdate, Reset, pageVars
  <1>2. CASE p # NoProc
    <2>1. p \in Processes
      BY <1>2 DEF Notified
    <2>2. CASE StateTypeOf(p.step) # stateType
      <3>1. UnpackingStep(type, StateTypeOf(p.step), p.cancelled)
        BY <1>2, <2>2 DEF ProcUpdate
      <3> QED
        BY <2>1, <2>2, <3>1, UnpackingReacts
    <2>3. CASE StateTypeOf(p.step) = stateType
      BY <1>2, <2>3 DEF ProcUpdate
    <2> QED
      BY <2>2, <2>3
  <1> QED
    BY <1>1, <1>2

LEMMA ProcUpdateKeepsTrail ==
    ASSUME NotifiedTyped, TrailInv, ProcUpdate
    PROVE  TrailInv'
  <1> SUFFICES ASSUME "coalesce" \notin faults
               PROVE  \E last \in Notified : IsTrail(last)'
    BY DEF TrailInv, ProcUpdate
  <1>1. PICK last \in Notified : IsTrail(last)
    BY DEF TrailInv
  <1> DEFINE t == Trail(last, sent)
             n == Len(sent)
  <1>2. sent \in Seq(Notified) /\ sent # <<>> /\ sent' = Tail(sent)
        /\ UNCHANGED <<faults, proc>>
    BY DEF NotifiedTyped, ProcUpdate
  <1>3. PICK p \in Notified : p = Head(sent)
    BY <1>2, TrailShrinks
  <1> DEFINE u == Trail(p, sent')
  <1>4. /\ n \in Nat \ {0} /\ Len(sent') = n - 1 /\ t[0] = last /\ t[1] = p
        /\ \A i \in 0 .. n - 1 : u[i] = t[i + 1]
    BY <1>2, <1>3, TrailShrinks
  <1>5. Shown(last) /\ LeadsTo(t, n, proc)
    BY <1>1 DEF IsTrail
  <1>6. Follows(last, p)
    <2>1. Follows(t[1 - 1], t[1])
      BY <1>4, <1>5 DEF LeadsTo
    <2> QED
      BY <1>4, <2>1
  <1>7. Shown(p)'
    BY <1>3, <1>5, <1>6, ProcUpdateShows
  <1>8. LeadsTo(u, n - 1, proc)
    <2> HIDE DEF t, n, u
    <2> QED
      BY <1>4, <1>5, ShrinksLeads
  <1>9. ASSUME "remote" \notin faults
        PROVE  OneMove(u, n - 1, AwaitsMove')
    <2>1. OneMove(t, n, AwaitsMove)
      BY <1>1, <1>9 DEF IsTrail
    <2>2. AwaitsMove \in BOOLEAN /\ AwaitsMove' \in BOOLEAN
      BY DEF AwaitsMove
    <2>3. (AwaitsMove => AwaitsMove') \/ (AtMove(last) /\ ~AtMove(p))
      BY <1>3, <1>5, <1>6, ProcUpdateAwaits DEF AwaitsMove
    <2> HIDE DEF t, n, u
    <2> QED
      BY <1>4, <2>1, <2>2, <2>3, ShrinksOneMove
  <1>10. IsTrail(p)'
    BY <1>2, <1>4, <1>7, <1>8, <1>9 DEF IsTrail
  <1> QED
    BY <1>10

-----------------------------------------------------------------------------
(* The changes of Kaiten's process by each action, and the types.          *)

KaitenTyped ==
    /\ NotifiedTyped /\ Len(sent) <= MaxSent
    /\ wiped \in BOOLEAN /\ faults \in Scenarios

ModelTyped ==
    /\ id \in 0 .. MaxProcs /\ type \in Types /\ stateType \in StateTypes
    /\ cancelled \in BOOLEAN /\ errorType \in Errors
    /\ sideFlags \subseteq SideErrors \X Sides
    /\ isLoadUnloadWhilePaused \in BOOLEAN /\ loadOf \in 0 .. MaxProcs

PagesTyped ==
    /\ unpacking \in {"remove_box_1", "confirm", "close_door", "moving", "move_paused",
                      "remove_box_2"}
    /\ lowering \in BOOLEAN /\ freStep \in 0 .. 2
    /\ zip \in {"closed", "copy_logs_state", "cancelling_copy_logs",
                "successfully_copied_logs", "failed_copied_logs"}
    /\ reset \subseteq ResetFlags /\ rebooting \in BOOLEAN

\* Kaiten's process is as it was, or changes as it may and is notified.
Changes ==
    \/ UNCHANGED <<proc, sent>>
    \/ \E p \in Notified :
        /\ Becomes(p) /\ Follows(proc, p)
        /\ "remote" \notin faults /\ AtMove(p) /\ ~AtMove(proc) => ~AwaitsMove /\ AwaitsMove'
        /\ ResetDone(p) /\ ~ResetDone(proc) => wiped'
        /\ IsReset(proc) /\ ~ResetDone(proc) => IsReset(p)

LEMMA KaitenStepChanges ==
    ASSUME NotifiedTyped, KaitenStep
    PROVE  Changes /\ (wiped => wiped') /\ wiped' \in BOOLEAN
  <1>1. proc \in Processes
    BY DEF NotifiedTyped, Notified, KaitenStep
  <1>2. PICK s \in Graph[proc.name][proc.step] :
            /\ Becomes(IF s = "none" THEN NoProc
                       ELSE [proc EXCEPT !.step = s, !.cancelled = @ \/ s = "cancelling"])
            /\ wiped' = (wiped \/ (proc.name = "ResetToFactoryProcess" /\ s = "done"))
    BY DEF KaitenStep
  <1> DEFINE b == IF s = "none" THEN NoProc
                  ELSE [proc EXCEPT !.step = s, !.cancelled = @ \/ s = "cancelling"]
  <1>3. /\ b \in Notified /\ Follows(proc, b) /\ ~AtMove(b)
        /\ s # "none" => b.name = proc.name /\ b.step = s
    BY <1>1, StepTyped
  <1>4. Becomes(b)
    BY <1>2
  <1>5. ResetDone(b) => wiped'
    <2>1. CASE s = "none"
      BY <2>1 DEF ResetDone, IsReset, NoProc
    <2>2. CASE s # "none"
      <3> HIDE DEF b
      <3> QED
        BY <1>2, <1>3, <2>2, Zenon DEF ResetDone, IsReset
    <2> QED
      BY <2>1, <2>2
  <1>7. IsReset(proc) /\ ~ResetDone(proc) => IsReset(b)
    <2>1. IsReset(proc) /\ ~ResetDone(proc) => s # "none"
      <3>1. proc.step \in DOMAIN Graph[proc.name]
        BY <1>1 DEF Processes
      <3> QED
        BY <1>2, <3>1 DEF ResetDone, IsReset, Graph
    <2> HIDE DEF b
    <2> QED
      BY <1>3, <2>1 DEF IsReset
  <1>6. wiped' \in BOOLEAN /\ (wiped => wiped')
    BY <1>2, Zenon
  <1> HIDE DEF b
  <1> QED
    BY <1>3, <1>4, <1>5, <1>6, <1>7 DEF Changes

LEMMA KaitenErrorChanges ==
    ASSUME NotifiedTyped, KaitenError
    PROVE  Changes
  <1>1. proc \in Processes
    BY DEF NotifiedTyped, Notified, KaitenError
  <1>2. PICK e \in Errors, s \in Sides :
            /\ (e = "NoError") # (proc.error = "NoError")
            /\ Becomes([proc EXCEPT !.error = e, !.side = s])
    BY DEF KaitenError
  <1> DEFINE b == [proc EXCEPT !.error = e, !.side = s]
  <1>3. b \in Processes /\ Follows(proc, b) /\ b.name = proc.name /\ b.step = proc.step
    BY <1>1, <1>2, ErrorTyped
  <1>4. Becomes(b)
    BY <1>2
  <1> HIDE DEF b
  <1> QED
    BY <1>3, <1>4 DEF Changes, Notified, AtMove, ResetDone, IsReset

\* A request is one of a page, and a movement is asked for only while none is
\* awaited.
LEMMA AskedChanges ==
    ASSUME NotifiedTyped, NEW name \in DOMAIN Graph, Asked(name),
           "remote" \notin faults /\ name = "MoveBuildPlateProcess" => ~AwaitsMove /\ AwaitsMove'
    PROVE  Changes /\ UNCHANGED wiped /\ started' \in 0 .. MaxProcs
  <1>1. CASE UNCHANGED <<proc, sent>>
    BY <1>1, AskedStarts DEF Changes
  <1>2. ASSUME NEW b \in Processes, proc = NoProc, Begins(b), Becomes(b),
               b.name = name, b.step = First(name)
        PROVE  Changes
    <2>1. Follows(proc, b) /\ b \in Notified
      BY <1>2 DEF Follows, Notified
    <2>2. ~ResetDone(b)
      BY <1>2, FirstSteps DEF ResetDone
    <2>3. AtMove(b) => name = "MoveBuildPlateProcess"
      BY <1>2 DEF AtMove
    <2>4. ~IsReset(proc)
      BY <1>2 DEF IsReset, NoProc
    <2> QED
      BY <1>2, <2>1, <2>2, <2>3, <2>4 DEF Changes
  <1> QED
    BY <1>1, <1>2, AskedStarts

LEMMA ChangesTyped ==
    ASSUME KaitenTyped, Changes, started' \in 0 .. MaxProcs, wiped' \in BOOLEAN,
           faults' = faults
    PROVE  KaitenTyped'
  <1>1. CASE UNCHANGED <<proc, sent>>
    BY <1>1 DEF KaitenTyped, NotifiedTyped
  <1>2. CASE ~UNCHANGED <<proc, sent>>
    BY <1>2, BecomesTypes DEF KaitenTyped, NotifiedTyped, Changes
  <1> QED
    BY <1>1, <1>2

\* What is seen done has been done, whoever asked for it.
LEMMA ChangesWiped ==
    ASSUME KaitenTyped, WipedInv, Changes, type' = type, wiped \in BOOLEAN, wiped => wiped',
           "factoryDone" \in reset' => wiped', rebooting' => wiped'
    PROVE  WipedInv'
  <1>1. CASE UNCHANGED <<proc, sent>>
    BY <1>1 DEF WipedInv, LastIsReset
  <1>2. CASE ~UNCHANGED <<proc, sent>>
    <2>1. PICK p \in Notified : /\ Becomes(p)
                                /\ ResetDone(p) /\ ~ResetDone(proc) => wiped'
                                /\ IsReset(proc) /\ ~ResetDone(proc) => IsReset(p)
      BY <1>2 DEF Changes
    <2>2. proc' = p
      BY <2>1 DEF Becomes
    <2>3. ResetDone(p) => wiped'
      BY <2>1 DEF WipedInv
    <2>4. \A i \in 1 .. Len(sent') : sent'[i] = p \/ \E j \in 1 .. Len(sent) : sent'[i] = sent[j]
      BY <2>1, BecomesTypes DEF KaitenTyped
    <2>5. \A i \in 1 .. Len(sent') : ResetDone(sent'[i]) => wiped'
      BY <2>3, <2>4 DEF WipedInv
    <2>6. ASSUME ~wiped'
          PROVE  LastIsReset'
      <3>1. LastIsReset /\ (IsReset(proc) => IsReset(p))
        BY <2>1, <2>6 DEF WipedInv
      <3>2. CASE sent' = sent
        BY <2>2, <3>1, <3>2 DEF LastIsReset
      <3>3. CASE sent' = Append(sent, p)
        <4>1. sent \in Seq(Notified) /\ Len(sent) \in Nat
          BY DEF KaitenTyped, NotifiedTyped
        <4>2. /\ Len(sent') = Len(sent) + 1 /\ sent'[Len(sent) + 1] = p
              /\ \A i \in 1 .. Len(sent) : sent'[i] = sent[i]
          BY <3>3, <4>1
        <4>3. \A i \in 1 .. Len(sent) : IsReset(sent[i]) => IsReset(p)
          BY <3>1 DEF LastIsReset
        <4>4. \A i, j \in 1 .. Len(sent') : i <= j /\ IsReset(sent'[i]) => IsReset(sent'[j])
          <5> SUFFICES ASSUME NEW i \in 1 .. Len(sent'), NEW j \in 1 .. Len(sent'),
                              i <= j, IsReset(sent'[i])
                       PROVE  IsReset(sent'[j])
            OBVIOUS
          <5>1. CASE j = Len(sent) + 1
            <6>1. i = Len(sent) + 1 \/ i \in 1 .. Len(sent)
              BY <4>1, <4>2
            <6> QED
              BY <4>2, <4>3, <5>1, <6>1
          <5>2. CASE j # Len(sent) + 1
            <6>1. i \in 1 .. Len(sent) /\ j \in 1 .. Len(sent)
              BY <4>1, <4>2, <5>2
            <6> QED
              BY <3>1, <4>2, <6>1 DEF LastIsReset
          <5> QED
            BY <5>1, <5>2
        <4>5. \A i \in 1 .. Len(sent') : i = Len(sent) + 1 \/ i \in 1 .. Len(sent)
          BY <4>1, <4>2
        <4> QED
          BY <2>2, <3>1, <4>2, <4>3, <4>4, <4>5 DEF LastIsReset
      <3> QED
        BY <2>1, <3>2, <3>3 DEF Becomes
    <2> QED
      BY <2>2, <2>3, <2>5, <2>6 DEF WipedInv
  <1> QED
    BY <1>1, <1>2

\* The process that is notified, and what it makes of the pages.
LEMMA ProcUpdateTypes ==
    ASSUME KaitenTyped, ModelTyped, PagesTyped, WipedInv, ProcUpdate
    PROVE  /\ KaitenTyped' /\ ModelTyped' /\ PagesTyped' /\ WipedInv'
  <1>1. /\ sent \in Seq(Notified) /\ sent # <<>> /\ sent' = Tail(sent)
        /\ UNCHANGED <<faults, proc, started, wiped>>
    BY DEF KaitenTyped, NotifiedTyped, ProcUpdate
  <1>2. PICK p \in Notified : p = Head(sent) /\ p = sent[1]
    BY <1>1, TrailShrinks
  <1>3. KaitenTyped'
    <2>1. sent' \in Seq(Notified) /\ Len(sent') = Len(sent) - 1 /\ Len(sent) \in Nat
      BY <1>1, TrailShrinks
    <2>2. Len(sent') <= MaxSent
      BY <2>1, ProcessAssumption DEF KaitenTyped
    <2>3. NotifiedTyped'
      BY <1>1, <2>1 DEF KaitenTyped, NotifiedTyped
    <2> QED
      BY <1>1, <2>2, <2>3 DEF KaitenTyped
  <1>4. \A i \in 1 .. Len(sent') : ResetDone(sent'[i]) => wiped'
    <2>1. \A i \in 1 .. Len(sent') : i + 1 \in 1 .. Len(sent) /\ sent'[i] = sent[i + 1]
      BY <1>1, TrailShrinks
    <2> QED
      BY <1>1, <2>1 DEF WipedInv
  <1>5. ResetDone(p) => wiped
    BY <1>1, <1>2, TrailShrinks DEF WipedInv
  <1>r. ASSUME ~wiped
        PROVE  /\ type = "FactoryResetProcess" => IsReset(p)
               /\ \A i, j \in 1 .. Len(sent') : i <= j /\ IsReset(sent'[i]) => IsReset(sent'[j])
               /\ \A i \in 1 .. Len(sent') : IsReset(sent'[i]) => IsReset(proc)
               /\ IsReset(p) => IsReset(proc) /\ \A i \in 1 .. Len(sent') : IsReset(sent'[i])
    <2>1. LastIsReset
      BY <1>r DEF WipedInv
    <2>2. Len(sent) \in Nat \ {0} /\ Len(sent') = Len(sent) - 1
      BY <1>1, TrailShrinks
    <2>3. \A i \in 1 .. Len(sent') : i + 1 \in 2 .. Len(sent) /\ sent'[i] = sent[i + 1]
      BY <1>1, <2>2, TrailShrinks
    <2>4. 1 \in 1 .. Len(sent)
      BY <2>2
    <2>5. \A i, j \in 1 .. Len(sent') : i <= j => i + 1 <= j + 1
      OBVIOUS
    <2> QED
      BY <1>2, <2>1, <2>3, <2>4, <2>5 DEF LastIsReset
  <1>6. CASE p = NoProc
    <2>1. Reset
      BY <1>2, <1>6 DEF ProcUpdate
    <2>2. ModelTyped'
      <3>1. id' \in 0 .. MaxProcs /\ loadOf' \in 0 .. MaxProcs
        BY <2>1, ProcessAssumption DEF Reset
      <3>2. errorType' \in Errors /\ sideFlags' \subseteq SideErrors \X Sides
        BY <2>1 DEF Reset, Errors
      <3>3. cancelled' \in BOOLEAN /\ isLoadUnloadWhilePaused' \in BOOLEAN
        BY <2>1 DEF Reset
      <3> QED
        BY <2>1, <3>1, <3>2, <3>3, NullTypes DEF Reset, ModelTyped
    <2>3. type' = "None" /\ UNCHANGED pageVars
      BY <2>1 DEF Reset
    <2>4. ~wiped' => LastIsReset'
      BY <1>1, <1>r, <2>3 DEF LastIsReset
    <2> QED
      BY <1>1, <1>3, <1>4, <2>2, <2>3, <2>4 DEF pageVars, PagesTyped, WipedInv
  <1>7. CASE p # NoProc
    <2>1. p \in Processes /\ p.step \in Steps /\ p.name \in DOMAIN Graph
          /\ p.id \in 0 .. MaxProcs /\ p.error \in Errors /\ p.side \in Sides
          /\ p.cancelled \in BOOLEAN
      BY <1>7, ProcessAssumption DEF Notified, Processes
    <2>2. /\ LoadUnload(p) /\ UpdateError(p) /\ cancelled' = p.cancelled
          /\ stateType' = StateTypeOf(p.step) /\ type' = TypeOf(p.name) /\ id' = p.id
          /\ FactoryReset(TypeOf(p.name), StateTypeOf(p.step))
          /\ UNCHANGED <<lowering, rebooting>>
          /\ \/ /\ UnpackingStep(type, StateTypeOf(p.step), p.cancelled)
                /\ ZipStep(type, StateTypeOf(p.step), p.error)
             \/ UNCHANGED <<unpacking, freStep, zip>>
      BY <1>2, <1>7 DEF ProcUpdate
    <2>3. ModelTyped'
      <3>1. isLoadUnloadWhilePaused' \in BOOLEAN /\ loadOf' \in 0 .. MaxProcs
        <4>1. 0 \in 0 .. MaxProcs
          BY ProcessAssumption
        <4>2. CASE p.step \in {"preheating_loading", "suspended"}
          BY <2>1, <2>2, <4>1, <4>2 DEF LoadUnload
        <4>3. CASE p.step \notin {"preheating_loading", "suspended"}
          <5>1. UNCHANGED <<isLoadUnloadWhilePaused, loadOf>>
            BY <2>2, <4>3 DEF LoadUnload
          <5> QED
            BY <5>1 DEF ModelTyped
        <4> QED
          BY <4>2, <4>3
      <3>2. errorType' \in Errors /\ sideFlags' \subseteq SideErrors \X Sides
        BY <2>1, <2>2 DEF UpdateError, ModelTyped
      <3> QED
        BY <2>1, <2>2, <3>1, <3>2, StateTypeFacts, TypeFacts DEF ModelTyped
    <2>4. /\ reset' \subseteq ResetFlags
          /\ "factoryDone" \in reset' => "factoryDone" \in reset \/ wiped
      <3>1. CASE /\ StateTypeOf(p.step) = "Done"
                 /\ "FactoryResetProcess" \in {type, TypeOf(p.name)}
        <4>1. p.step = "done" /\ (TypeOf(p.name) = "FactoryResetProcess" => IsReset(p))
          BY <2>1, <3>1, StateTypeFacts, TypeFacts DEF IsReset
        <4>2. wiped
          BY <1>5, <1>r, <3>1, <4>1 DEF ResetDone
        <4> QED
          BY <2>2, <4>2 DEF FactoryReset, PagesTyped, ResetFlags
      <3>2. CASE ~(/\ StateTypeOf(p.step) = "Done"
                   /\ "FactoryResetProcess" \in {type, TypeOf(p.name)})
        BY <2>2, <3>2 DEF FactoryReset, PagesTyped, ResetFlags
      <3> QED
        BY <3>1, <3>2
    <2>5. PagesTyped'
      <3>1. unpacking' \in {"remove_box_1", "confirm", "close_door", "moving", "move_paused",
                             "remove_box_2"}
            /\ freStep' \in 0 .. 2
        BY <2>2 DEF UnpackingStep, PagesTyped
      <3>2. zip' \in {"closed", "copy_logs_state", "cancelling_copy_logs",
                      "successfully_copied_logs", "failed_copied_logs"}
        BY <2>2 DEF ZipStep, PagesTyped
      <3> QED
        BY <2>2, <2>4, <3>1, <3>2 DEF PagesTyped
    <2>6. WipedInv'
      <3>1. type' = "FactoryResetProcess" => IsReset(p)
        BY <2>1, <2>2, TypeFacts DEF IsReset
      <3>2. ~wiped' => LastIsReset'
        BY <1>1, <1>r, <3>1 DEF LastIsReset
      <3> QED
        BY <1>1, <1>4, <2>2, <2>4, <3>2 DEF WipedInv
    <2> QED
      BY <1>3, <2>3, <2>5, <2>6
  <1> QED
    BY <1>6, <1>7

-----------------------------------------------------------------------------
(* The invariant.                                                          *)

ProcessInv == KaitenTyped /\ ModelTyped /\ PagesTyped /\ TrailInv /\ WipedInv

LEMMA InitProcessInv == Init => ProcessInv
  <1> SUFFICES ASSUME Init
               PROVE  ProcessInv
    OBVIOUS
  <1>1. NoProc \in Notified /\ ~ResetDone(NoProc) /\ ~AtMove(NoProc)
    BY DEF Notified, ResetDone, IsReset, AtMove, NoProc
  <1>2. sent = <<>> /\ sent \in Seq(Notified) /\ Len(sent) = 0
    BY DEF Init
  <1>3. KaitenTyped
    <2>1. started \in 0 .. MaxProcs /\ Len(sent) <= MaxSent
      BY <1>2, ProcessAssumption DEF Init
    <2> QED
      BY <1>1, <1>2, <2>1 DEF Init, KaitenTyped, NotifiedTyped
  <1>4. ModelTyped
    <2>1. id \in 0 .. MaxProcs /\ loadOf \in 0 .. MaxProcs
      BY ProcessAssumption DEF Init
    <2>2. errorType \in Errors /\ sideFlags \subseteq SideErrors \X Sides
      BY DEF Init, Errors
    <2>3. cancelled \in BOOLEAN /\ isLoadUnloadWhilePaused \in BOOLEAN
      BY DEF Init
    <2> QED
      BY <2>1, <2>2, <2>3, NullTypes DEF Init, ModelTyped
  <1>5. PagesTyped
    <2>1. freStep \in 0 .. 2 /\ reset \subseteq ResetFlags
      BY DEF Init
    <2>2. lowering \in BOOLEAN /\ rebooting \in BOOLEAN
      BY DEF Init
    <2> QED
      BY <2>1, <2>2 DEF Init, PagesTyped
  <1>6. IsTrail(NoProc)
    <2>1. Shown(NoProc)
      BY DEF Init, Shown, FlagsOf, NoProc, SideErrors
    <2>2. Trail(NoProc, sent)[0] = NoProc
      BY <1>2 DEF Trail
    <2>3. LeadsTo(Trail(NoProc, sent), Len(sent), proc)
      BY <1>2, <2>2 DEF Init, LeadsTo
    <2>4. OneMove(Trail(NoProc, sent), Len(sent), AwaitsMove)
      BY <1>1, <1>2, <2>2 DEF OneMove
    <2> QED
      BY <2>1, <2>3, <2>4 DEF IsTrail
  <1>7. WipedInv
    BY <1>1, <1>2 DEF Init, WipedInv, LastIsReset
  <1> QED
    BY <1>1, <1>3, <1>4, <1>5, <1>6, <1>7 DEF ProcessInv, TrailInv

\* A step that leaves the model alone keeps what follows from the changes of
\* Kaiten's process.
LEMMA ChangesKeep ==
    ASSUME ProcessInv, Changes, UNCHANGED <<faults, modelVars>>, AwaitsMove => AwaitsMove',
           started' \in 0 .. MaxProcs, wiped' \in BOOLEAN, wiped => wiped', PagesTyped',
           "factoryDone" \in reset' => "factoryDone" \in reset,
           rebooting' => rebooting \/ "factoryDone" \in reset
    PROVE  ProcessInv'
  <1>1. KaitenTyped'
    BY ChangesTyped DEF ProcessInv
  <1>2. ModelTyped'
    BY DEF ProcessInv, ModelTyped, modelVars
  <1>3. TrailInv'
    BY KaitenKeepsTrail DEF ProcessInv, KaitenTyped, Changes
  <1>4. ("factoryDone" \in reset' => wiped') /\ (rebooting' => wiped')
    BY DEF ProcessInv, WipedInv
  <1>5. WipedInv'
    BY <1>4, ChangesWiped DEF ProcessInv, KaitenTyped, modelVars
  <1> QED
    BY <1>1, <1>2, <1>3, <1>5 DEF ProcessInv

LEMMA NextProcessInv ==
    ASSUME ProcessInv, [Next]_vars
    PROVE  ProcessInv'
  <1> USE DEF ProcessInv
  <1>1. NotifiedTyped /\ started \in 0 .. MaxProcs /\ wiped \in BOOLEAN
    BY DEF KaitenTyped, NotifiedTyped
  <1>2. UNCHANGED pageVars => PagesTyped' /\ (AwaitsMove => AwaitsMove')
    BY DEF PagesTyped, pageVars, AwaitsMove
  <1>3. UNCHANGED kaitenVars => Changes /\ UNCHANGED wiped /\ started' \in 0 .. MaxProcs
    BY <1>1 DEF kaitenVars, Changes
  <1>4. CASE KaitenStep
    <2>1. UNCHANGED <<faults, started, modelVars, pageVars>>
      BY <1>4 DEF KaitenStep
    <2> QED
      BY <1>1, <1>2, <1>4, <2>1, KaitenStepChanges, ChangesKeep DEF pageVars
  <1>5. CASE KaitenError
    <2>1. UNCHANGED <<faults, started, wiped, modelVars, pageVars>>
      BY <1>5 DEF KaitenError
    <2> QED
      BY <1>1, <1>2, <1>5, <2>1, KaitenErrorChanges, ChangesKeep DEF pageVars
  <1>6. CASE RemoteProcess
    <2>1. UNCHANGED <<faults, modelVars, pageVars>>
      BY <1>6 DEF RemoteProcess
    <2>2. PICK name \in DOMAIN Graph : /\ Asked(name)
                                       /\ "remote" \notin faults => name = "PrintProcess"
      BY <1>6, GraphNames DEF RemoteProcess
    <2> QED
      BY <1>1, <1>2, <2>1, <2>2, AskedChanges, ChangesKeep DEF pageVars
  <1>7. CASE ProcUpdate
    BY <1>1, <1>7, ProcUpdateTypes, ProcUpdateKeepsTrail
  <1>8. CASE TapUnpacking
    <2>1. UNCHANGED <<faults, modelVars, freStep, zip, reset, rebooting>> /\ freStep = 0
      BY <1>8 DEF TapUnpacking
    <2>2. CASE UNCHANGED kaitenVars /\ unpacking # "moving" /\ PagesTyped'
      BY <1>3, <2>1, <2>2, <1>1, ChangesKeep DEF AwaitsMove
    <2>3. CASE /\ unpacking \in {"confirm", "close_door", "move_paused"}
               /\ DoMove /\ UNCHANGED lowering
      <3>1. Asked("MoveBuildPlateProcess") /\ ~AwaitsMove /\ AwaitsMove'
        BY <2>1, <2>3 DEF DoMove, AwaitsMove
      <3>2. Changes /\ UNCHANGED wiped /\ started' \in 0 .. MaxProcs
        BY <1>1, <3>1, AskedChanges, GraphNames
      <3>3. PagesTyped'
        BY <2>1, <2>3 DEF PagesTyped, DoMove
      <3> QED
        BY <1>1, <2>1, <3>1, <3>2, <3>3, ChangesKeep
    <2>4. CASE /\ unpacking \in {"remove_box_1", "remove_box_2"} /\ unpacking' = "confirm"
               /\ lowering' = (unpacking = "remove_box_2") /\ UNCHANGED kaitenVars
      <3>1. PagesTyped'
        BY <2>1, <2>4 DEF PagesTyped
      <3> QED
        BY <2>2, <2>4, <3>1
    <2>5. CASE /\ unpacking = "confirm"
               /\ unpacking' \in {IF lowering THEN "remove_box_2" ELSE "remove_box_1",
                                  "close_door"}
               /\ UNCHANGED <<kaitenVars, lowering>>
      <3>1. PagesTyped'
        BY <2>1, <2>5 DEF PagesTyped
      <3> QED
        BY <2>2, <2>5, <3>1
    <2> QED
      BY <1>8, <2>3, <2>4, <2>5 DEF TapUnpacking
  <1>9. CASE CopyLogs
    <2>1. /\ UNCHANGED <<faults, modelVars, unpacking, lowering, freStep, reset, rebooting>>
          /\ zip' = "copy_logs_state" /\ Asked("ZipLogsProcess")
      BY <1>9 DEF CopyLogs
    <2>2. PagesTyped' /\ (AwaitsMove => AwaitsMove')
      BY <2>1 DEF PagesTyped, AwaitsMove
    <2> QED
      BY <1>1, <2>1, <2>2, AskedChanges, ChangesKeep, GraphNames
  <1>10. CASE TapZipPopup
    <2>1. /\ UNCHANGED <<faults, modelVars, unpacking, lowering, freStep, reset, rebooting>>
          /\ UNCHANGED kaitenVars
      BY <1>10 DEF TapZipPopup
    <2>2. PagesTyped' /\ (AwaitsMove => AwaitsMove')
      BY <1>10, <2>1 DEF PagesTyped, AwaitsMove, TapZipPopup
    <2> QED
      BY <1>1, <1>3, <2>1, <2>2, ChangesKeep
  <1>11. CASE OpenResetPopup
    <2>1. /\ UNCHANGED <<faults, kaitenVars, modelVars, unpacking, lowering, freStep, zip,
                         rebooting>>
          /\ reset' = (reset \ {"factoryDone"}) \cup {"open"}
      BY <1>11 DEF OpenResetPopup
    <2>2. PagesTyped' /\ (AwaitsMove => AwaitsMove')
      BY <2>1 DEF PagesTyped, AwaitsMove, ResetFlags
    <2> QED
      BY <1>1, <1>3, <2>1, <2>2, ChangesKeep
  <1>12. CASE TapResetPopup
    <2>1. UNCHANGED <<faults, modelVars, unpacking, lowering, freStep, zip, rebooting>>
      BY <1>12 DEF TapResetPopup
    <2>2. /\ reset' \subseteq ResetFlags
          /\ "factoryDone" \in reset' => "factoryDone" \in reset
      BY <1>12 DEF TapResetPopup, PagesTyped, ResetFlags
    <2>3. PagesTyped' /\ (AwaitsMove => AwaitsMove')
      BY <2>1, <2>2 DEF PagesTyped, AwaitsMove
    <2>4. Changes /\ UNCHANGED wiped /\ started' \in 0 .. MaxProcs
      BY <1>1, <1>3, <1>12, AskedChanges, GraphNames DEF TapResetPopup
    <2> QED
      BY <1>1, <2>1, <2>2, <2>3, <2>4, ChangesKeep
  <1>13. CASE DoFinalResetProcedures
    <2>1. /\ UNCHANGED <<faults, kaitenVars, modelVars, unpacking, lowering, zip, rebooting>>
          /\ reset' = (reset \ {"timer"}) \cup {"finalDone"} /\ freStep' = 0
      BY <1>13 DEF DoFinalResetProcedures
    <2>2. PagesTyped' /\ (AwaitsMove => AwaitsMove')
      BY <2>1 DEF PagesTyped, AwaitsMove, ResetFlags
    <2> QED
      BY <1>1, <1>3, <2>1, <2>2, ChangesKeep
  <1>14. CASE TapRestart
    <2>1. /\ UNCHANGED <<faults, kaitenVars, modelVars, unpacking, lowering, freStep, zip, reset>>
          /\ rebooting' = TRUE /\ "factoryDone" \in reset
      BY <1>14 DEF TapRestart
    <2>2. PagesTyped' /\ (AwaitsMove => AwaitsMove')
      BY <2>1 DEF PagesTyped, AwaitsMove
    <2> QED
      BY <1>1, <1>3, <2>1, <2>2, ChangesKeep
  <1>15. CASE UNCHANGED vars
    BY <1>1, <1>2, <1>3, <1>15, ChangesKeep DEF vars, pageVars
  <1> QED
    BY <1>4, <1>5, <1>6, <1>7, <1>8, <1>9, <1>10, <1>11, <1>12, <1>13, <1>14, <1>15 DEF Next

LEMMA ProcessInvHolds == Spec => []ProcessInv
  BY InitProcessInv, NextProcessInv, PTL DEF Spec

-----------------------------------------------------------------------------
(* What follows from it.                                                   *)

\* Every variable keeps its type, and no more than MaxSent notifications are in
\* flight (KaitenProcessModel::procUpdate() and the three pages).
THEOREM TypeCorrect == Spec => []TypeOK
  <1>1. ProcessInv => TypeOK
    <2> SUFFICES ASSUME ProcessInv
                 PROVE  TypeOK
      OBVIOUS
    <2>1. proc.name \in {"none"} \cup DOMAIN Graph
      BY DEF ProcessInv, KaitenTyped, NotifiedTyped, Notified, Processes, NoProc
    <2> QED
      BY <2>1 DEF ProcessInv, TypeOK, KaitenTyped, NotifiedTyped, ModelTyped, PagesTyped
  <1> QED
    BY <1>1, ProcessInvHolds, PTL

\* A load or unload while paused is of the print that is shown, since the end of
\* every process is notified before the next one (procUpdate(), reset()).
THEOREM LoadsInPrint == Spec => []LoadsInItsPrint
  <1>1. ProcessInv => LoadsInItsPrint
    BY DEF ProcessInv, TrailInv, IsTrail, Shown, LoadsInItsPrint
  <1> QED
    BY <1>1, ProcessInvHolds, PTL

\* No flag of an extruder or bay outlives its error, since an error goes before
\* the next one comes (KaitenProcessModel::procUpdate()).
THEOREM FlagsTellError == Spec => []FlagsAreOfError
  <1>1. ProcessInv => FlagsAreOfError
    <2> SUFFICES ASSUME ProcessInv, "coalesce" \notin faults, sideFlags # {}
                 PROVE  /\ errorType \in SideErrors
                        /\ \E s \in Sides : sideFlags = {<<errorType, s>>}
      BY DEF FlagsAreOfError
    <2>1. PICK last \in Notified : Shown(last)
      BY DEF ProcessInv, TrailInv, IsTrail
    <2>2. errorType = last.error /\ errorType \in SideErrors
          /\ sideFlags = {<<last.error, last.side>>}
      BY <2>1 DEF Shown, FlagsOf
    <2>3. last.side \in Sides
      BY DEF Notified, Processes, NoProc, Sides
    <2> QED
      BY <2>2, <2>3
  <1> QED
    BY <1>1, ProcessInvHolds, PTL

\* RESTART is offered only after Kaiten has done a factory reset, also one that
\* somebody else asked for (resetToFactoryPopup, onDoneFactoryResetChanged).
THEOREM RestartsOnlyWhenReset == Spec => []RestartsWhenReset
  <1>1. ProcessInv => RestartsWhenReset
    BY DEF ProcessInv, WipedInv, RestartsWhenReset
  <1> QED
    BY <1>1, ProcessInvHolds, PTL

\* The step of the setup that the end of a movement leaves is the unpacking step:
\* the movement that is seen to end is the one this step asked for, and no other
\* is under way (SunflowerUnpackingForm.onCurrentStateChanged).
THEOREM AdvancesTheUnpacking == Spec => AdvancesFromUnpacking
  <1>1. ASSUME ProcessInv, [Next]_vars, freStep' > freStep,
               faults \cap {"remote", "coalesce"} = {}
        PROVE  freStep = 0
    <2>1. CASE ProcUpdate
      <3>1. PICK last \in Notified : IsTrail(last)
        BY <1>1 DEF ProcessInv, TrailInv
      <3> DEFINE t == Trail(last, sent)
                 n == Len(sent)
      <3>2. sent \in Seq(Notified) /\ sent # <<>> /\ sent' = Tail(sent)
        BY <1>1, <2>1 DEF ProcUpdate, ProcessInv, KaitenTyped, NotifiedTyped
      <3>3. PICK p \in Notified : p = Head(sent)
        BY <3>2, TrailShrinks
      <3>4. n \in Nat \ {0} /\ t[0] = last /\ t[1] = p
        BY <3>2, <3>3, TrailShrinks
      <3>5. Shown(last) /\ LeadsTo(t, n, proc) /\ OneMove(t, n, AwaitsMove)
        BY <1>1, <3>1 DEF IsTrail
      <3>6. Follows(last, p)
        <4>1. Follows(t[1 - 1], t[1])
          BY <3>4, <3>5 DEF LeadsTo
        <4> QED
          BY <3>4, <4>1
      <3>7. freStep' # freStep
        BY <1>1 DEF ProcessInv, PagesTyped
      <3>8. AtMove(last)
        BY <2>1, <3>3, <3>5, <3>6, <3>7, ProcUpdateAwaits
      <3>9. AwaitsMove
        BY <3>4, <3>5, <3>8 DEF OneMove
      <3> QED
        BY <3>9 DEF AwaitsMove
    <2>2. CASE DoFinalResetProcedures
      BY <1>1, <2>2 DEF DoFinalResetProcedures, ProcessInv, PagesTyped
    <2>3. CASE ~ProcUpdate /\ ~DoFinalResetProcedures
      <3>1. freStep' = freStep
        BY <1>1, <2>3 DEF Next, vars, pageVars, KaitenStep, KaitenError, RemoteProcess,
                          TapUnpacking, CopyLogs, TapZipPopup, OpenResetPopup, TapResetPopup,
                          TapRestart
      <3> QED
        BY <1>1, <3>1 DEF ProcessInv, PagesTyped
    <2> QED
      BY <2>1, <2>2, <2>3
  <1>2. ProcessInv /\ [Next]_vars =>
            [freStep' > freStep /\ faults \cap {"remote", "coalesce"} = {} => freStep = 0]_vars
    BY <1>1
  <1> QED
    BY <1>2, ProcessInvHolds, PTL DEF Spec, AdvancesFromUnpacking

=============================================================================
