-------------------------- MODULE BotMirror_proofs --------------------------
(***************************************************************************)
(* For any tools, any parts and any number of events: what is on its way   *)
(* to and from Kaiten makes up for whatever the mirror has missed.         *)
(***************************************************************************)
EXTENDS BotMirror, Integers, FiniteSetTheorems, TLAPS

\* What a sequence of messages holds, and what those of M among them end with.
Meets(s, M) == \E i \in DOMAIN s : s[i] \in M
Ends(s, M, G) == \E i \in DOMAIN s : s[i] \in G /\ \A j \in DOMAIN s : j > i => s[j] \notin M

\* Once the messages s are handled, what those of M set is as those of G say.
Latest(s, M, G, now) == Ends(s, M, G) \/ (now /\ ~Meets(s, M))

\* m comes first in s and never again.
FirstOnly(s, m) == \A i \in DOMAIN s : s[i] = m => i = 1

\* After one of G comes none of M.
NoneAfter(s, G, M) == \A i, j \in DOMAIN s : i < j /\ s[i] \in G => s[j] \notin M

LEMMA Empty == \A M : ~Meets(<<>>, M)
  BY DEF Meets

LEMMA NoneAtAll == \A s, G, M : ~Meets(s, M) => NoneAfter(s, G, M)
  BY DEF Meets, NoneAfter

LEMMA OfOne == ASSUME NEW S, NEW m \in S
               PROVE  <<m>> \in Seq(S) /\ \A M : Meets(<<m>>, M) <=> m \in M
  BY DEF Meets

LEMMA Appending ==
    ASSUME NEW S, NEW s \in Seq(S), NEW m \in S
    PROVE  /\ Append(s, m) \in Seq(S)
           /\ \A M : Meets(Append(s, m), M) <=> Meets(s, M) \/ m \in M
           /\ \A M, G : m \in G => Ends(Append(s, m), M, G)
           /\ \A M, G : Ends(s, M, G) /\ m \notin M => Ends(Append(s, m), M, G)
           /\ \A x : FirstOnly(s, x) /\ m # x => FirstOnly(Append(s, m), x)
           /\ \A G, M : NoneAfter(s, G, M) /\ (m \notin M \/ ~Meets(s, G)) =>
                 NoneAfter(Append(s, m), G, M)
  <1> DEFINE t == Append(s, m)
  <1>1. /\ t \in Seq(S) /\ Len(t) = Len(s) + 1 /\ DOMAIN t = 1 .. Len(s) + 1
        /\ DOMAIN s = 1 .. Len(s) /\ Len(s) \in Nat
        /\ t[Len(s) + 1] = m /\ \A i \in DOMAIN s : t[i] = s[i]
    OBVIOUS
  <1> HIDE DEF t
  <1>2. \A M : Meets(t, M) <=> Meets(s, M) \/ m \in M
    BY <1>1 DEF Meets
  <1>3. \A M, G : m \in G => Ends(t, M, G)
    BY <1>1 DEF Ends
  <1>4. \A M, G : Ends(s, M, G) /\ m \notin M => Ends(t, M, G)
    BY <1>1 DEF Ends
  <1>5. \A x : FirstOnly(s, x) /\ m # x => FirstOnly(t, x)
    BY <1>1 DEF FirstOnly
  <1>6. \A G, M : NoneAfter(s, G, M) /\ (m \notin M \/ ~Meets(s, G)) => NoneAfter(t, G, M)
    BY <1>1 DEF NoneAfter, Meets
  <1> QED
    BY <1>1, <1>2, <1>3, <1>4, <1>5, <1>6 DEF t

LEMMA Joining ==
    ASSUME NEW S, NEW s \in Seq(S), NEW t \in Seq(S)
    PROVE  /\ s \o t \in Seq(S)
           /\ \A M : Meets(s \o t, M) <=> Meets(s, M) \/ Meets(t, M)
           /\ \A x : FirstOnly(s, x) /\ ~Meets(t, {x}) => FirstOnly(s \o t, x)
           /\ \A G, M : NoneAfter(s, G, M) /\ ~Meets(t, M) => NoneAfter(s \o t, G, M)
  <1> DEFINE u == s \o t
  <1>1. /\ u \in Seq(S) /\ Len(u) = Len(s) + Len(t) /\ DOMAIN u = 1 .. Len(s) + Len(t)
        /\ DOMAIN s = 1 .. Len(s) /\ Len(s) \in Nat /\ DOMAIN t = 1 .. Len(t) /\ Len(t) \in Nat
        /\ \A i \in DOMAIN s : u[i] = s[i]
        /\ \A i \in DOMAIN t : u[Len(s) + i] = t[i]
    OBVIOUS
  <1>a. \A i \in DOMAIN u : i \in DOMAIN s \/ (i - Len(s) \in DOMAIN t /\ u[i] = t[i - Len(s)])
    OBVIOUS
  <1> HIDE DEF u
  <1>2. ASSUME NEW M PROVE Meets(u, M) <=> Meets(s, M) \/ Meets(t, M)
    <2>1. ASSUME Meets(s, M) PROVE Meets(u, M)
      BY <1>1, <2>1 DEF Meets
    <2>2. ASSUME Meets(t, M) PROVE Meets(u, M)
      <3>1. PICK i \in DOMAIN t : t[i] \in M
        BY <2>2 DEF Meets
      <3>2. Len(s) + i \in DOMAIN u /\ u[Len(s) + i] \in M
        BY <1>1, <3>1
      <3> QED
        BY <3>2 DEF Meets
    <2>3. ASSUME Meets(u, M) PROVE Meets(s, M) \/ Meets(t, M)
      BY <1>1, <1>a, <2>3 DEF Meets
    <2> QED
      BY <2>1, <2>2, <2>3
  <1>3. \A x : FirstOnly(s, x) /\ ~Meets(t, {x}) => FirstOnly(u, x)
    BY <1>1, <1>a DEF FirstOnly, Meets
  <1>4. ASSUME NEW G, NEW M, NoneAfter(s, G, M), ~Meets(t, M) PROVE NoneAfter(u, G, M)
    <2> SUFFICES ASSUME NEW i \in DOMAIN u, NEW j \in DOMAIN u, i < j, u[i] \in G, u[j] \in M
                 PROVE  FALSE
      BY DEF NoneAfter
    <2>1. j \in DOMAIN s
      BY <1>a, <1>4 DEF Meets
    <2>2. i \in DOMAIN s
      BY <1>1, <2>1
    <2> QED
      BY <1>1, <1>4, <2>1, <2>2 DEF NoneAfter
  <1> QED
    BY <1>1, <1>2, <1>3, <1>4 DEF u

LEMMA Taking ==
    ASSUME NEW S, NEW s \in Seq(S), s # <<>>
    PROVE  /\ Head(s) \in S /\ Tail(s) \in Seq(S)
           /\ \A M : Meets(s, M) <=> Head(s) \in M \/ Meets(Tail(s), M)
           /\ \A M, G : Ends(s, M, G) =>
                 Ends(Tail(s), M, G) \/ (Head(s) \in G /\ ~Meets(Tail(s), M))
           /\ \A x : FirstOnly(s, x) => ~Meets(Tail(s), {x}) /\ FirstOnly(Tail(s), x)
           /\ \A G, M : NoneAfter(s, G, M) =>
                 NoneAfter(Tail(s), G, M) /\ (Head(s) \in G => ~Meets(Tail(s), M))
  <1> DEFINE t == Tail(s)
             h == Head(s)
  <1>1. /\ t \in Seq(S) /\ h \in S /\ h = s[1] /\ Len(s) \in Nat \ {0}
        /\ DOMAIN s = 1 .. Len(s) /\ DOMAIN t = 1 .. Len(s) - 1
        /\ \A i \in DOMAIN t : t[i] = s[i + 1]
    OBVIOUS
  <1> HIDE DEF t, h
  <1>a. \A i \in DOMAIN s : i = 1 \/ (i - 1 \in DOMAIN t /\ s[i] = t[i - 1])
    BY <1>1
  <1>b. \A i \in DOMAIN t : i + 1 \in DOMAIN s /\ t[i] = s[i + 1] /\ i \in Nat /\ i + 1 # 1
    BY <1>1
  <1>2. \A M : Meets(s, M) <=> h \in M \/ Meets(t, M)
    <2>1. 1 \in DOMAIN s
      BY <1>1
    <2> QED
      BY <1>1, <1>a, <1>b, <2>1 DEF Meets
  <1>3. ASSUME NEW M, NEW G, Ends(s, M, G)
        PROVE  Ends(t, M, G) \/ (h \in G /\ ~Meets(t, M))
    <2>1. PICK i \in DOMAIN s : s[i] \in G /\ \A j \in DOMAIN s : j > i => s[j] \notin M
      BY <1>3 DEF Ends
    <2>2. CASE i = 1
      <3>1. \A j \in DOMAIN t : t[j] \notin M
        BY <1>1, <2>1, <2>2
      <3> QED
        BY <1>1, <2>1, <2>2, <3>1 DEF Meets
    <2>3. CASE i # 1
      <3>1. i - 1 \in DOMAIN t /\ t[i - 1] \in G
        BY <1>1, <1>a, <2>1, <2>3
      <3>2. \A j \in DOMAIN t : j > i - 1 => t[j] \notin M
        BY <1>1, <2>1
      <3> QED
        BY <3>1, <3>2 DEF Ends
    <2> QED
      BY <2>2, <2>3
  <1>4. \A x : FirstOnly(s, x) => ~Meets(t, {x}) /\ FirstOnly(t, x)
    BY <1>b DEF FirstOnly, Meets
  <1>5. ASSUME NEW G, NEW M, NoneAfter(s, G, M)
        PROVE  NoneAfter(t, G, M) /\ (h \in G => ~Meets(t, M))
    <2>1. NoneAfter(t, G, M)
      BY <1>1, <1>5 DEF NoneAfter
    <2>2. h \in G => ~Meets(t, M)
      BY <1>1, <1>5 DEF NoneAfter, Meets
    <2> QED
      BY <2>1, <2>2
  <1> QED
    BY <1>1, <1>2, <1>3, <1>4, <1>5 DEF t, h

-----------------------------------------------------------------------------
(* The messages there are, and what they say.                              *)

Tools == [Slots -> 0..2]
PartNames == {"net", "serial", "spool", "again", "cloud", "firmware", "time", "camera"}

SystemMsgs == [part : {"system"}, tool : Tools, process : Nat]
SystemSays(tool, process) == {[part |-> "system", tool |-> tool, process |-> process]}
Lacks(s) == {m \in SystemMsgs : m.tool[s] = 0}

ConfigsMsgs == [part : {"configs"}, tool : Tools]
ConfigsSay(tool) == {[part |-> "configs", tool |-> tool]}

\* Both bring what materials a tool takes.
MaterialMsgs(s) == ConfigsMsgs \cup [part : {"extruder"}, slot : {s}, fitted : 0..2]
MaterialsSay(s, t) ==
    {m \in MaterialMsgs(s) : IF m.part = "configs" THEN m.tool[s] = t ELSE m.fitted = t}

StatsMsgs(s) == [part : {"stats"}, slot : {s}, fitted : 0..2]
StatsSay(s, t) == {[part |-> "stats", slot |-> s, fitted |-> t]}

PartMsgs(p) == [part : {p}, value : Int]
PartSays(p, v) == {[part |-> p, value |-> v]}
SetReply(p) == [part |-> "set", of |-> p]

InMsgs(parts) ==
    UNION {SystemMsgs, ConfigsMsgs, [part : {"extruder", "stats"}, slot : Slots, fitted : 0..2],
           [part : {"warning"}], [part : {"set"}, of : parts \cap SetParts],
           [part : parts, value : Int]}

SysReq == Call("get_system_information", 0)
CfgReq == Call("get_extruders_configs", 0)
StatReq(s) == Call("get_tool_stats", s)
PartReq(p) == [call |-> "get", part |-> p, arg |-> 0]

OutMsgs(parts) ==
    UNION {{SysReq, CfgReq, Call("acknowledge_material", 0)},
           [call : {"get_tool_stats"}, part : {"none"}, arg : Slots],
           [call : {"get"}, part : parts, arg : {0}],
           [call : {"set"}, part : parts \cap SetParts, arg : Int],
           [call : {"start", "process", "other"}, part : {"none"}, arg : Nat]}

-----------------------------------------------------------------------------
(* The inductive invariant.                                                *)

KaitenTyped ==
    kaiten \in [tool : Tools, process : Nat, last : Nat, waits : BOOLEAN, data : [Parts -> Int]]
ModelTyped ==
    /\ shown \in [tool : Tools, process : Nat, data : [Parts -> Int]]
    /\ configs \in Tools /\ materials \in Tools /\ stats \in Tools
    /\ statsReady \in [Slots -> BOOLEAN]
WireTyped == in \in Seq(InMsgs(Parts)) /\ out \in Seq(OutMsgs(Parts))

\* While Kaiten is away nothing is under way.
LinkInv ==
    /\ link \in BOOLEAN /\ state \in {"Connecting", "Connected", "Disconnected"}
    /\ link <=> state = "Connected"
    /\ ~link => in = <<>> /\ out = <<>> /\ ~untold

\* What is asked for at the connection comes before any other call.
Asked == Meets(out, {SysReq})
AskedInv ==
    /\ FirstOnly(out, SysReq)
    /\ Asked => Meets(out, {CfgReq})
    /\ Asked /\ infoPage => \A s \in Slots : shown.tool[s] = 0 \/ Meets(out, {StatReq(s)})

\* The tools and the process: due, asked for, or last told as they are.
SystemFresh ==
    link => \/ untold \/ Asked
            \/ Latest(in, SystemMsgs, SystemSays(kaiten.tool, kaiten.process),
                      shown.tool = kaiten.tool /\ shown.process = kaiten.process)

MaterialsFresh ==
    link => \A s \in Slots :
        \/ Meets(out, {CfgReq})
        \/ Latest(in, MaterialMsgs(s), MaterialsSay(s, kaiten.tool[s]),
                  kaiten.tool[s] # 0 => materials[s] = kaiten.tool[s])

\* The tool of a slot is shown as missing, or will be.
Gone(s) == shown.tool[s] = 0 \/ Meets(in, Lacks(s))

\* The configurations, unless a tool is to appear that they are asked for with.
ConfigsFresh ==
    "swap" \notin faults /\ link /\ (\A s \in Slots : kaiten.tool[s] # 0) =>
        \/ Meets(out, {CfgReq})
        \/ Latest(in, ConfigsMsgs, ConfigsSay(kaiten.tool), configs = kaiten.tool)
        \/ \E s \in Slots : Gone(s)

StatsFresh ==
    "swap" \notin faults /\ link /\ infoPage =>
        \A s \in Slots : kaiten.tool[s] # 0 =>
            \/ Meets(out, {StatReq(s)})
            \/ Latest(in, StatsMsgs(s), StatsSay(s, kaiten.tool[s]),
                      statsReady[s] /\ stats[s] = kaiten.tool[s])
            \/ Gone(s)

PartsFresh ==
    link => \A p \in Parts \ {"firmware", "camera", "cloud"} :
        \/ Meets(out, {PartReq(p)})
        \/ Meets(in, {SetReply(p)})
        \/ Latest(in, PartMsgs(p), PartSays(p, kaiten.data[p]), shown.data[p] = kaiten.data[p])

Typed == scenario \in Scenarios /\ infoPage \in BOOLEAN /\ KaitenTyped /\ ModelTyped /\ WireTyped
Fresh == SystemFresh /\ MaterialsFresh /\ ConfigsFresh /\ StatsFresh /\ PartsFresh
MirrorInv == Typed /\ LinkInv /\ AskedInv /\ Fresh

-----------------------------------------------------------------------------
LEMMA ScenarioFacts == scenario \in Scenarios => Parts \subseteq PartNames
  BY MirrorAssumption DEF PartNames, Parts, AskOf

\* The parts of a message tell the kinds apart.
LEMMA InKinds ==
    ASSUME NEW parts \in SUBSET PartNames, NEW m \in InMsgs(parts)
    PROVE  \/ m.part = "system" /\ m \in SystemMsgs
           \/ m.part = "configs" /\ m \in ConfigsMsgs
           \/ m.part \in {"extruder", "stats"} /\ m.slot \in Slots /\ m.fitted \in 0..2
           \/ m.part = "warning"
           \/ m.part = "set" /\ m.of \in parts \cap SetParts
           \/ m.part \in parts /\ m.value \in Int
  BY DEF InMsgs, SystemMsgs, ConfigsMsgs

LEMMA OutKinds ==
    ASSUME NEW parts, NEW c \in OutMsgs(parts)
    PROVE  /\ c.call \in {"get_system_information", "get_extruders_configs", "get_tool_stats",
                          "acknowledge_material", "get", "set", "start", "process", "other"}
           /\ c.call = "get_system_information" <=> c = SysReq
           /\ c.call = "get_extruders_configs" <=> c = CfgReq
           /\ c.call = "get_tool_stats" => c.arg \in Slots /\ c = StatReq(c.arg)
           /\ c.call = "get" => c.part \in parts /\ c = PartReq(c.part)
           /\ c.call = "set" => c.part \in parts \cap SetParts /\ c.arg \in Int
           /\ c.call \in {"start", "process"} => c.arg \in Nat
  BY DEF OutMsgs, SysReq, CfgReq, StatReq, PartReq, Call

LEMMA ReqKinds ==
    /\ SysReq.call = "get_system_information" /\ CfgReq.call = "get_extruders_configs"
    /\ \A s : StatReq(s).call = "get_tool_stats" /\ StatReq(s).arg = s
    /\ \A p : PartReq(p).call = "get" /\ PartReq(p).part = p
    /\ \A name, arg : Call(name, arg).call = name /\ Call(name, arg).arg = arg
  BY DEF SysReq, CfgReq, StatReq, PartReq, Call

LEMMA Requests ==
    ASSUME NEW parts
    PROVE  /\ SysReq \in OutMsgs(parts) /\ CfgReq \in OutMsgs(parts)
           /\ Call("acknowledge_material", 0) \in OutMsgs(parts)
           /\ \A s \in Slots : StatReq(s) \in OutMsgs(parts)
           /\ \A p \in parts : PartReq(p) \in OutMsgs(parts)
           /\ \A kind \in {"start", "process", "other"}, arg \in Nat :
                Call(kind, arg) \in OutMsgs(parts)
           /\ \A p \in parts \cap SetParts, v \in Int :
                [call |-> "set", part |-> p, arg |-> v] \in OutMsgs(parts)
  BY DEF OutMsgs, StatReq, PartReq, Call

\* What a message sets is told by its part.
LEMMA MsgParts ==
    /\ \A m \in SystemMsgs : m.part = "system" /\ m.tool \in Tools /\ m.process \in Nat
    /\ \A m, s : m \in Lacks(s) <=> m \in SystemMsgs /\ m.tool[s] = 0
    /\ \A m \in ConfigsMsgs : m.part = "configs" /\ m.tool \in Tools
    /\ \A s : \A m \in MaterialMsgs(s) :
          m.part = "configs" \/ (m.part = "extruder" /\ m.slot = s)
    /\ \A s : \A m \in StatsMsgs(s) : m.part = "stats" /\ m.slot = s
    /\ \A p : \A m \in PartMsgs(p) : m.part = p
    /\ \A p, m : m \in {SetReply(p)} => m.part = "set" /\ m.of = p
  BY DEF SystemMsgs, Lacks, ConfigsMsgs, MaterialMsgs, StatsMsgs, PartMsgs, SetReply

\* What a message says is what it sets.
LEMMA MsgValues ==
    /\ \A m, tool, process : m \in SystemSays(tool, process) => m.tool = tool /\ m.process = process
    /\ \A m, tool : m \in ConfigsSay(tool) => m.tool = tool
    /\ \A s, t : \A m \in MaterialsSay(s, t) :
          /\ m \in MaterialMsgs(s)
          /\ m.part = "configs" => m.tool[s] = t
          /\ m.part = "extruder" => m.fitted = t
    /\ \A m, s, t : m \in StatsSay(s, t) => m.fitted = t
    /\ \A m, p, v : m \in PartSays(p, v) => m.value = v
  BY DEF SystemSays, ConfigsSay, MaterialsSay, MaterialMsgs, ConfigsMsgs, StatsSay, PartSays

-----------------------------------------------------------------------------
(* Every step keeps the invariant.                                         *)

LEMMA InitMirror == Init => MirrorInv
<1> SUFFICES ASSUME Init PROVE MirrorInv
  OBVIOUS
<1>1. Parts \subseteq PartNames /\ scenario \in Scenarios
  BY ScenarioFacts DEF Init
<1>2. link = FALSE /\ in = <<>> /\ out = <<>> /\ ~untold /\ state = "Connecting" /\ infoPage = FALSE
  BY DEF Init
<1>3. KaitenTyped
  <2>1. PICK tool \in InitialTools, p \in {0, 1} :
            kaiten = [tool |-> tool, process |-> p, last |-> p, waits |-> FALSE,
                      data |-> [part \in Parts |-> 1]]
    BY DEF Init
  <2>2. tool \in Tools
    BY MirrorAssumption DEF Tools
  <2> QED
    BY <2>1, <2>2 DEF KaitenTyped
<1>4. ModelTyped
  <2>1. [s \in Slots |-> 0] \in Tools
    BY DEF Tools
  <2>2. [p \in Parts |-> 0] \in [Parts -> Int]
    OBVIOUS
  <2>3. /\ shown = [tool |-> [s \in Slots |-> 0], process |-> 0, data |-> [p \in Parts |-> 0]]
        /\ configs = [s \in Slots |-> 0] /\ materials = configs /\ stats = configs
        /\ statsReady = [s \in Slots |-> FALSE]
    BY DEF Init
  <2>4. shown \in [tool : Tools, process : Nat, data : [Parts -> Int]]
    BY <2>1, <2>2, <2>3
  <2>5. configs \in Tools /\ materials \in Tools /\ stats \in Tools
    BY <2>1, <2>3
  <2>6. statsReady \in [Slots -> BOOLEAN]
    BY <2>3
  <2> QED
    BY <2>4, <2>5, <2>6 DEF ModelTyped
<1>5. WireTyped
  <2>1. <<>> \in Seq(InMsgs(Parts)) /\ <<>> \in Seq(OutMsgs(Parts))
    OBVIOUS
  <2> QED
    BY <1>2, <2>1 DEF WireTyped
<1>6. AskedInv
  BY <1>2, Empty DEF AskedInv, Asked, FirstOnly
<1> QED
  BY <1>1, <1>2, <1>3, <1>4, <1>5, <1>6
  DEF MirrorInv, Typed, LinkInv, Fresh, SystemFresh, MaterialsFresh, ConfigsFresh, StatsFresh,
      PartsFresh

\* Calls are added behind those that are under way, and none is the first.
Grows ==
    /\ out' \in Seq(OutMsgs(Parts))
    /\ \A M : Meets(out, M) => Meets(out', M)
    /\ FirstOnly(out', SysReq)
    /\ Asked' => Asked

\* No call that starts a process, or is for one, is added, and none is the first.
StartMsgs == [call : {"start"}, part : {"none"}, arg : Nat]
MoveMsgs == [call : {"start", "process"}, part : {"none"}, arg : Nat]
Calm ==
    /\ \A M \in SUBSET MoveMsgs : Meets(out', M) => Meets(out, M)
    /\ NoneAfter(out, StartMsgs, MoveMsgs) => NoneAfter(out', StartMsgs, MoveMsgs)
    /\ Asked' => Asked

\* Whoever asks for more takes nothing away from what is under way.
LEMMA AsksKeeps ==
    ASSUME MirrorInv, Grows, link \/ out' = out, infoPage' \in BOOLEAN,
           UNCHANGED <<scenario, link, in, kaitenVars, state, shown, configs, materials, stats,
                       statsReady>>,
           infoPage' => infoPage \/ \A s \in Slots : Meets(out', {StatReq(s)})
    PROVE  MirrorInv'
<1> USE DEF kaitenVars
<1>1. /\ Parts' = Parts /\ faults' = faults /\ scenario' = scenario /\ link' = link /\ in' = in
      /\ kaiten' = kaiten /\ untold' = untold /\ state' = state /\ shown' = shown
      /\ configs' = configs /\ materials' = materials /\ stats' = stats
      /\ statsReady' = statsReady
  BY DEF Parts, faults
<1>2. Typed'
  BY <1>1 DEF MirrorInv, Typed, KaitenTyped, ModelTyped, WireTyped, Grows
<1>3. LinkInv'
  BY <1>1 DEF MirrorInv, LinkInv
<1>4. AskedInv'
  BY <1>1 DEF MirrorInv, AskedInv, Grows
<1>5. SystemFresh'
  BY <1>1 DEF MirrorInv, Fresh, SystemFresh, Latest, Grows, Asked
<1>6. MaterialsFresh'
  <2> SUFFICES ASSUME link, NEW s \in Slots
               PROVE  \/ Meets(out', {CfgReq})
                      \/ Latest(in, MaterialMsgs(s), MaterialsSay(s, kaiten.tool[s]),
                                kaiten.tool[s] # 0 => materials[s] = kaiten.tool[s])
    BY <1>1 DEF MaterialsFresh
  <2> QED
    BY DEF MirrorInv, Fresh, MaterialsFresh, Grows
<1>7. ConfigsFresh'
  BY <1>1 DEF MirrorInv, Fresh, ConfigsFresh, Latest, Grows, Gone
<1>8. StatsFresh'
  BY <1>1 DEF MirrorInv, Fresh, StatsFresh, Latest, Grows, Gone
<1>9. PartsFresh'
  BY <1>1 DEF MirrorInv, Fresh, PartsFresh, Latest, Grows
<1> QED
  BY <1>2, <1>3, <1>4, <1>5, <1>6, <1>7, <1>8, <1>9 DEF MirrorInv, Fresh

LEMMA AppendGrows ==
    ASSUME MirrorInv, NEW c \in OutMsgs(Parts), c # SysReq, out' = Append(out, c)
    PROVE  Grows /\ (c.call \notin {"start", "process"} => Calm)
<1>1. out \in Seq(OutMsgs(Parts)) /\ FirstOnly(out, SysReq)
  BY DEF MirrorInv, Typed, WireTyped, AskedInv
<1>2. /\ out' \in Seq(OutMsgs(Parts))
      /\ \A M : Meets(out', M) <=> Meets(out, M) \/ c \in M
      /\ FirstOnly(out', SysReq)
      /\ NoneAfter(out, StartMsgs, MoveMsgs) /\ c \notin MoveMsgs =>
            NoneAfter(out', StartMsgs, MoveMsgs)
  BY <1>1, Appending
<1>3. c.call \notin {"start", "process"} => c \notin MoveMsgs
  BY DEF MoveMsgs
<1> QED
  BY <1>2, <1>3 DEF Grows, Asked, Calm

LEMMA JoinGrows ==
    ASSUME MirrorInv, NEW more \in Seq(OutMsgs(Parts)), ~Meets(more, {SysReq}),
           out' = out \o more
    PROVE  /\ Grows /\ \A M : Meets(more, M) => Meets(out', M)
           /\ ~Meets(more, MoveMsgs) => Calm
<1>1. out \in Seq(OutMsgs(Parts)) /\ FirstOnly(out, SysReq)
  BY DEF MirrorInv, Typed, WireTyped, AskedInv
<1>2. /\ out' \in Seq(OutMsgs(Parts))
      /\ \A M : Meets(out', M) <=> Meets(out, M) \/ Meets(more, M)
      /\ FirstOnly(out', SysReq)
      /\ NoneAfter(out, StartMsgs, MoveMsgs) /\ ~Meets(more, MoveMsgs) =>
            NoneAfter(out', StartMsgs, MoveMsgs)
  BY <1>1, Joining
<1>3. \A M \in SUBSET MoveMsgs : Meets(more, M) => Meets(more, MoveMsgs)
  BY DEF Meets
<1> QED
  BY <1>2, <1>3 DEF Grows, Asked, Calm

LEMMA StayGrows == ASSUME MirrorInv, out' = out PROVE Grows /\ Calm
  BY DEF Grows, MirrorInv, Typed, WireTyped, AskedInv, Asked, Calm

\* The statistics are asked for of the slots named.
LEMMA AskStatsFacts ==
    ASSUME NEW parts, NEW slots \in SUBSET Slots
    PROVE  /\ AskStats(slots) \in Seq(OutMsgs(parts))
           /\ \A M : Meets(AskStats(slots), M) <=> \E s \in slots : StatReq(s) \in M
<1> DEFINE ask(s) == IF s \in slots THEN <<StatReq(s)>> ELSE <<>>
<1>1. ASSUME NEW s \in Slots
      PROVE  /\ ask(s) \in Seq(OutMsgs(parts))
             /\ \A M : Meets(ask(s), M) <=> s \in slots /\ StatReq(s) \in M
  <2>1. CASE s \in slots
    <3>1. StatReq(s) \in OutMsgs(parts)
      BY Requests
    <3>2. <<StatReq(s)>> \in Seq(OutMsgs(parts))
          /\ \A M : Meets(<<StatReq(s)>>, M) <=> StatReq(s) \in M
      BY <3>1, OfOne
    <3> QED
      BY <2>1, <3>2
  <2>2. CASE s \notin slots
    BY <2>2, Empty
  <2> QED
    BY <2>1, <2>2
<1>2. AskStats(slots) = ask(1) \o ask(2)
  BY DEF AskStats, StatReq
<1>3. 1 \in Slots /\ 2 \in Slots
  BY DEF Slots
<1>a. /\ ask(1) \in Seq(OutMsgs(parts)) /\ ask(2) \in Seq(OutMsgs(parts))
      /\ \A M : Meets(ask(1), M) <=> 1 \in slots /\ StatReq(1) \in M
      /\ \A M : Meets(ask(2), M) <=> 2 \in slots /\ StatReq(2) \in M
  BY <1>1, <1>3
<1> HIDE DEF ask
<1>4. /\ AskStats(slots) \in Seq(OutMsgs(parts))
      /\ \A M : Meets(AskStats(slots), M) <=> Meets(ask(1), M) \/ Meets(ask(2), M)
  BY <1>2, <1>a, Joining
<1> QED
  BY <1>a, <1>4 DEF Slots

LEMMA CallKinds ==
    \A table \in CallTables : \A name \in DOMAIN table :
        table[name] \subseteq {"start", "process", "other"}
<1> DEFINE Ok(table) == \A name \in DOMAIN table :
                           table[name] \subseteq {"start", "process", "other"}
<1>1. Ok(PrintCalls) /\ Ok(FilamentCalls) /\ Ok(LevelCalls) /\ Ok(FirmwareCalls)
  BY DEF PrintCalls, FilamentCalls, LevelCalls, FirmwareCalls
<1>2. Ok(CalibrationCalls) /\ Ok(MachineCalls) /\ Ok(NetworkCalls) /\ Ok(SystemCalls)
  BY DEF CalibrationCalls, MachineCalls, NetworkCalls, SystemCalls
<1>3. Ok(MotionCalls) /\ Ok(DryCalls) /\ Ok(OffsetCalls) /\ Ok(CareCalls)
  BY DEF MotionCalls, DryCalls, OffsetCalls, CareCalls
<1>4. Ok(AnnealCalls) /\ Ok(FilterCalls) /\ Ok(ServiceCalls) /\ Ok(MeshCalls)
  BY DEF AnnealCalls, FilterCalls, ServiceCalls, MeshCalls
<1> HIDE DEF Ok
<1>5. \A table \in CallTables : Ok(table)
  BY <1>1, <1>2, <1>3, <1>4 DEF CallTables
<1> QED
  BY <1>5 DEF Ok

\* What the user and the timers do.
User ==
    \/ \E p \in Parts \cap SetParts : Toggle(p) \/ OpenSwitch(p)
    \/ OpenInfoPage \/ CloseInfoPage \/ FreCompletes
    \/ \E table \in CallTables : \E name \in DOMAIN table : Tap(table[name])
    \/ CheckSpoolValidity \/ AnswerMaterial \/ ClosePopup \/ CancelLoad \/ AcknowledgeSpool

\* The values of the mirror, and those whose types a proof needs.
LEMMA ModelFacts ==
    ASSUME MirrorInv
    PROVE  /\ DOMAIN shown = {"tool", "process", "data"}
           /\ shown.tool \in Tools /\ shown.process \in Nat /\ shown.data \in [Parts -> Int]
           /\ kaiten.tool \in Tools /\ kaiten.process \in Nat /\ kaiten.last \in Nat
           /\ kaiten.waits \in BOOLEAN /\ kaiten.data \in [Parts -> Int]
           /\ in \in Seq(InMsgs(Parts)) /\ out \in Seq(OutMsgs(Parts))
           /\ Parts \subseteq PartNames
  BY ScenarioFacts DEF MirrorInv, Typed, KaitenTyped, ModelTyped, WireTyped

LEMMA ToggleKeeps ==
    ASSUME MirrorInv, NEW p \in Parts \cap SetParts, Toggle(p)
    PROVE  MirrorInv' /\ Calm
<1> DEFINE c == [call |-> "set", part |-> p, arg |-> 1 - shown.data[p]]
<1>1. 1 - shown.data[p] \in Int
  BY ModelFacts
<1>2. c \in OutMsgs(Parts)
  BY <1>1, Requests
<1>3. c # SysReq /\ c.call = "set"
  BY DEF SysReq, Call
<1>4. out' = Append(out, c) /\ state = "Connected"
  BY DEF Toggle
<1> HIDE DEF c
<1>5. Grows /\ Calm
  BY <1>2, <1>3, <1>4, AppendGrows
<1>6. link
  BY <1>4 DEF MirrorInv, LinkInv
<1>7. infoPage \in BOOLEAN /\ infoPage' = infoPage
  BY DEF MirrorInv, Typed, Toggle, pageVars
<1> QED
  BY <1>5, <1>6, <1>7, AsksKeeps DEF Toggle, modelVars, kaitenVars

LEMMA OpenSwitchKeeps ==
    ASSUME MirrorInv, NEW p \in Parts \cap SetParts, OpenSwitch(p)
    PROVE  MirrorInv' /\ Calm
<1>1. PartReq(p) \in OutMsgs(Parts) /\ PartReq(p) # SysReq
  BY Requests DEF SysReq, Call, PartReq
<1>2. out' = out \o Get(p) /\ Get(p) = <<PartReq(p)>> /\ state = "Connected"
  BY DEF OpenSwitch, Get, PartReq
<1>a. PartReq(p) \notin MoveMsgs
  BY ReqKinds DEF MoveMsgs
<1>3. /\ Get(p) \in Seq(OutMsgs(Parts)) /\ ~Meets(Get(p), {SysReq})
      /\ ~Meets(Get(p), MoveMsgs)
  BY <1>1, <1>2, <1>a, OfOne
<1>5. Grows /\ Calm
  BY <1>2, <1>3, JoinGrows
<1>6. link
  BY <1>2 DEF MirrorInv, LinkInv
<1>7. infoPage \in BOOLEAN /\ infoPage' = infoPage
  BY DEF MirrorInv, Typed, OpenSwitch, pageVars
<1> QED
  BY <1>5, <1>6, <1>7, AsksKeeps DEF OpenSwitch, modelVars, kaitenVars

LEMMA OpenInfoPageKeeps == ASSUME MirrorInv, OpenInfoPage PROVE MirrorInv' /\ Calm
<1> DEFINE some == {s \in Slots : shown.tool[s] # 0}
<1>1. some \subseteq Slots /\ Slots \subseteq Slots
  OBVIOUS
<1>2. /\ out' = (out \o AskStats(some)) \o AskStats(Slots) /\ state = "Connected"
      /\ infoPage' = TRUE
  BY DEF OpenInfoPage
<1> HIDE DEF some
<1>3. /\ AskStats(some) \in Seq(OutMsgs(Parts)) /\ AskStats(Slots) \in Seq(OutMsgs(Parts))
      /\ ~Meets(AskStats(some), {SysReq}) /\ ~Meets(AskStats(Slots), {SysReq})
      /\ \A s \in Slots : Meets(AskStats(Slots), {StatReq(s)})
      /\ ~Meets(AskStats(some), MoveMsgs) /\ ~Meets(AskStats(Slots), MoveMsgs)
  <2>1. \A s : StatReq(s) # SysReq /\ StatReq(s) \notin MoveMsgs
    BY ReqKinds DEF MoveMsgs
  <2> QED
    BY <1>1, <2>1, AskStatsFacts
<1>4. out \in Seq(OutMsgs(Parts)) /\ FirstOnly(out, SysReq)
  BY DEF MirrorInv, Typed, WireTyped, AskedInv
<1> DEFINE half == out \o AskStats(some)
<1>5. /\ half \in Seq(OutMsgs(Parts)) /\ FirstOnly(half, SysReq)
      /\ \A M : Meets(half, M) <=> Meets(out, M) \/ Meets(AskStats(some), M)
      /\ NoneAfter(out, StartMsgs, MoveMsgs) => NoneAfter(half, StartMsgs, MoveMsgs)
  BY <1>3, <1>4, Joining
<1> HIDE DEF half
<1>6. /\ out' \in Seq(OutMsgs(Parts)) /\ FirstOnly(out', SysReq)
      /\ \A M : Meets(out', M) <=> Meets(half, M) \/ Meets(AskStats(Slots), M)
      /\ NoneAfter(half, StartMsgs, MoveMsgs) => NoneAfter(out', StartMsgs, MoveMsgs)
  <2>1. out' = half \o AskStats(Slots)
    BY <1>2 DEF half
  <2> QED
    BY <1>3, <1>5, <2>1, Joining
<1>7. Grows
  BY <1>3, <1>5, <1>6 DEF Grows, Asked
<1>8. link
  BY <1>2 DEF MirrorInv, LinkInv
<1>9. \A s \in Slots : Meets(out', {StatReq(s)})
  BY <1>3, <1>6
<1>10. Calm
  <2>1. \A M \in SUBSET MoveMsgs :
            /\ Meets(AskStats(some), M) => Meets(AskStats(some), MoveMsgs)
            /\ Meets(AskStats(Slots), M) => Meets(AskStats(Slots), MoveMsgs)
    BY DEF Meets
  <2> QED
    BY <1>3, <1>5, <1>6, <1>7, <2>1 DEF Calm, Grows
<1> QED
  BY <1>2, <1>7, <1>8, <1>9, <1>10, AsksKeeps DEF OpenInfoPage, modelVars, kaitenVars

LEMMA TapKeeps ==
    ASSUME MirrorInv, NEW kinds \in SUBSET {"start", "process", "other"}, Tap(kinds)
    PROVE  MirrorInv'
<1>1. PICK kind \in kinds : out' = Append(out, Call(kind, shown.process))
  BY DEF Tap
<1>2. Call(kind, shown.process) \in OutMsgs(Parts)
  BY ModelFacts, Requests
<1>3. Call(kind, shown.process) # SysReq
  BY ReqKinds
<1>5. Grows
  BY <1>1, <1>2, <1>3, AppendGrows
<1>6. link
  BY DEF MirrorInv, LinkInv, Tap
<1>7. infoPage \in BOOLEAN /\ infoPage' = infoPage
  BY DEF MirrorInv, Typed, Tap, pageVars
<1> QED
  BY <1>5, <1>6, <1>7, AsksKeeps DEF Tap, modelVars, kaitenVars

LEMMA AcknowledgeKeeps == ASSUME MirrorInv, Acknowledge PROVE MirrorInv' /\ Calm
<1>1. Call("acknowledge_material", 0) \in OutMsgs(Parts)
  BY Requests
<1>2. /\ Call("acknowledge_material", 0) # SysReq
      /\ Call("acknowledge_material", 0).call = "acknowledge_material"
  BY ReqKinds
<1>3. Grows /\ Calm /\ (link \/ out' = out)
  BY <1>1, <1>2, AppendGrows, StayGrows DEF Acknowledge
<1>4. infoPage \in BOOLEAN /\ infoPage' = infoPage
  BY DEF MirrorInv, Typed, Acknowledge, pageVars
<1> QED
  BY <1>3, <1>4, AsksKeeps DEF Acknowledge, kaitenVars

\* The check, the answers to its popup, and closing it.
LEMMA PopupKeeps ==
    ASSUME MirrorInv, CheckSpoolValidity \/ AnswerMaterial \/ ClosePopup \/ AcknowledgeSpool
    PROVE  MirrorInv' /\ Calm
<1>1. CASE Acknowledge
  BY <1>1, AcknowledgeKeeps
<1>2. CASE UNCHANGED <<scenario, link, out, in, kaitenVars, state, shown, configs, materials, stats,
                       statsReady, pageVars>>
  <2>1. Grows /\ Calm
    BY <1>2, StayGrows
  <2>2. infoPage' = infoPage /\ infoPage \in BOOLEAN
    BY <1>2 DEF pageVars, MirrorInv, Typed
  <2>3. out' = out /\ UNCHANGED <<scenario, link, in, kaitenVars, state, shown, configs,
                                  materials, stats, statsReady>>
    BY <1>2
  <2> QED
    BY <2>1, <2>2, <2>3, AsksKeeps
<1> QED
  BY <1>1, <1>2 DEF CheckSpoolValidity, AnswerMaterial, ClosePopup, AcknowledgeSpool

LEMMA CancelKeeps == ASSUME MirrorInv, CancelLoad PROVE MirrorInv'
<1>1. Call("process", shown.process) \in OutMsgs(Parts)
  BY ModelFacts, Requests
<1>2. Call("process", shown.process) # SysReq
  BY ReqKinds
<1>3. Grows /\ (link \/ out' = out)
  BY <1>1, <1>2, AppendGrows, StayGrows DEF CancelLoad
<1>4. infoPage \in BOOLEAN /\ infoPage' = infoPage
  BY DEF MirrorInv, Typed, CancelLoad, pageVars
<1> QED
  BY <1>3, <1>4, AsksKeeps DEF CancelLoad, kaitenVars

LEMMA UserKeeps == ASSUME MirrorInv, User PROVE MirrorInv'
<1>1. ASSUME NEW p \in Parts \cap SetParts, Toggle(p) \/ OpenSwitch(p) PROVE MirrorInv'
  BY <1>1, ToggleKeeps, OpenSwitchKeeps
<1>2. CASE OpenInfoPage
  BY <1>2, OpenInfoPageKeeps
<1>3. CASE CloseInfoPage \/ FreCompletes
  <2>1. out' = out /\ infoPage \in BOOLEAN /\ (infoPage' = FALSE \/ infoPage' = infoPage)
    BY <1>3 DEF CloseInfoPage, FreCompletes, MirrorInv, Typed
  <2>2. Grows
    BY <2>1, StayGrows
  <2>3. UNCHANGED <<scenario, link, in, kaitenVars, state, shown, configs, materials, stats,
                    statsReady>>
    BY <1>3 DEF CloseInfoPage, FreCompletes, modelVars
  <2>4. infoPage' \in BOOLEAN /\ (infoPage' => infoPage)
    <3>1. CASE infoPage' = FALSE
      BY <3>1
    <3>2. CASE infoPage' = infoPage
      BY <2>1, <3>2
    <3> QED
      BY <2>1, <3>1, <3>2
  <2> QED
    BY <2>1, <2>2, <2>3, <2>4, AsksKeeps
<1>4. ASSUME NEW table \in CallTables, NEW name \in DOMAIN table, Tap(table[name])
      PROVE  MirrorInv'
  BY <1>4, CallKinds, TapKeeps
<1>5. CASE CheckSpoolValidity \/ AnswerMaterial \/ ClosePopup \/ CancelLoad \/ AcknowledgeSpool
  BY <1>5, PopupKeeps, CancelKeeps
<1> QED
  BY <1>1, <1>2, <1>3, <1>4, <1>5 DEF User

\* What is asked for at the connection, in that order.
LEMMA GetsFacts ==
    ASSUME NEW p
    PROVE  /\ Gets(p) \in Seq(OutMsgs(Parts))
           /\ \A M : Meets(Gets(p), M) <=> p \in Parts /\ PartReq(p) \in M
<1>1. CASE p \in Parts
  <2>1. PartReq(p) \in OutMsgs(Parts) /\ Gets(p) = <<PartReq(p)>>
    BY <1>1, Requests DEF Gets, Get, PartReq
  <2> QED
    BY <1>1, <2>1, OfOne
<1>2. CASE p \notin Parts
  BY <1>2, Empty DEF Gets
<1> QED
  BY <1>1, <1>2

LEMMA ConnectsFacts ==
    /\ Connects \in Seq(OutMsgs(Parts))
    /\ FirstOnly(Connects, SysReq)
    /\ \A M : Meets(Connects, M) <=>
          SysReq \in M \/ CfgReq \in M
          \/ \E p \in Parts \cap {"net", "serial", "spool", "time", "again"} : PartReq(p) \in M
<1> DEFINE O == OutMsgs(Parts)
           c1 == <<SysReq>> \o Gets("net")
           c2 == c1 \o Gets("serial")
           c3 == c2 \o Gets("spool")
           c4 == c3 \o Gets("time")
           c5 == c4 \o <<CfgReq>>
<1>1. Connects = c5 \o Gets("again")
  BY DEF Connects, SysReq, CfgReq
<1>2. \A p : Gets(p) \in Seq(O) /\ ~Meets(Gets(p), {SysReq})
  BY GetsFacts, ReqKinds
<1>3. SysReq \in O /\ CfgReq \in O /\ CfgReq # SysReq
  BY Requests, ReqKinds
<1> HIDE DEF O
<1>a. <<SysReq>> \in Seq(O) /\ \A M : Meets(<<SysReq>>, M) <=> SysReq \in M
  BY <1>3, OfOne
<1>b. <<CfgReq>> \in Seq(O) /\ \A M : Meets(<<CfgReq>>, M) <=> CfgReq \in M
  BY <1>3, OfOne
<1>4. ~Meets(<<CfgReq>>, {SysReq})
  BY <1>3, <1>b
<1>5. FirstOnly(<<SysReq>>, SysReq)
  BY DEF FirstOnly
<1>6. /\ c1 \in Seq(O) /\ FirstOnly(c1, SysReq)
      /\ \A M : Meets(c1, M) <=> SysReq \in M \/ Meets(Gets("net"), M)
  BY <1>2, <1>a, <1>5, Joining
<1> HIDE DEF c1
<1>7. /\ c2 \in Seq(O) /\ FirstOnly(c2, SysReq)
      /\ \A M : Meets(c2, M) <=> Meets(c1, M) \/ Meets(Gets("serial"), M)
  BY <1>2, <1>6, Joining
<1> HIDE DEF c2
<1>8. /\ c3 \in Seq(O) /\ FirstOnly(c3, SysReq)
      /\ \A M : Meets(c3, M) <=> Meets(c2, M) \/ Meets(Gets("spool"), M)
  BY <1>2, <1>7, Joining
<1> HIDE DEF c3
<1>9. /\ c4 \in Seq(O) /\ FirstOnly(c4, SysReq)
      /\ \A M : Meets(c4, M) <=> Meets(c3, M) \/ Meets(Gets("time"), M)
  BY <1>2, <1>8, Joining
<1> HIDE DEF c4
<1>10. /\ c5 \in Seq(O) /\ FirstOnly(c5, SysReq)
       /\ \A M : Meets(c5, M) <=> Meets(c4, M) \/ CfgReq \in M
  BY <1>4, <1>b, <1>9, Joining
<1> HIDE DEF c5
<1>11. /\ Connects \in Seq(O) /\ FirstOnly(Connects, SysReq)
       /\ \A M : Meets(Connects, M) <=> Meets(c5, M) \/ Meets(Gets("again"), M)
  BY <1>1, <1>2, <1>10, Joining
<1>12. \A M : Meets(Connects, M) <=>
          \/ SysReq \in M \/ Meets(Gets("net"), M) \/ Meets(Gets("serial"), M)
          \/ Meets(Gets("spool"), M) \/ Meets(Gets("time"), M) \/ CfgReq \in M
          \/ Meets(Gets("again"), M)
  BY <1>6, <1>7, <1>8, <1>9, <1>10, <1>11
<1>13. ASSUME NEW M
       PROVE  Meets(Connects, M) <=>
          SysReq \in M \/ CfgReq \in M
          \/ \E p \in Parts \cap {"net", "serial", "spool", "time", "again"} : PartReq(p) \in M
  BY <1>12, GetsFacts
<1> QED
  BY <1>11, <1>13 DEF O

\* All that Connected sends.
LEMMA ConnectedFacts ==
    ASSUME MirrorInv, Connected
    PROVE  /\ out' \in Seq(OutMsgs(Parts))
           /\ FirstOnly(out', SysReq)
           /\ \A M : Meets(Connects, M) => Meets(out', M)
           /\ \A M : Meets(out', M) =>
                Meets(Connects, M) \/ (\E p \in Parts : PartReq(p) \in M)
                \/ \E s \in Slots : StatReq(s) \in M
           /\ \A s \in Slots : infoPage /\ shown.tool[s] # 0 => Meets(out', {StatReq(s)})
<1> DEFINE O == OutMsgs(Parts)
           fw == IF "firmware" \in Parts /\ "net" \in Parts /\ shown.data["net"] # 0
                 THEN Get("firmware") ELSE <<>>
           slots == {s \in Slots : infoPage /\ shown.tool[s] # 0}
           half == Connects \o fw
<1>1. out' = half \o AskStats(slots)
  BY DEF Connected
<1>2. fw \in {Gets("firmware"), <<>>}
  BY DEF Gets
<1> HIDE DEF fw
<1>3. /\ fw \in Seq(O)
      /\ \A M : Meets(fw, M) => "firmware" \in Parts /\ PartReq("firmware") \in M
  <2>1. CASE fw = <<>>
    <3>1. <<>> \in Seq(O)
      OBVIOUS
    <3> QED
      BY <2>1, <3>1, Empty
  <2>2. CASE fw = Gets("firmware")
    BY <2>2, GetsFacts
  <2> QED
    BY <1>2, <2>1, <2>2
<1>4. slots \subseteq Slots /\ \A s \in Slots : infoPage /\ shown.tool[s] # 0 => s \in slots
  OBVIOUS
<1> HIDE DEF slots
<1>5. /\ AskStats(slots) \in Seq(O)
      /\ \A M : Meets(AskStats(slots), M) <=> \E s \in slots : StatReq(s) \in M
  BY <1>4, AskStatsFacts
<1>6. ~Meets(fw, {SysReq}) /\ ~Meets(AskStats(slots), {SysReq})
  BY <1>3, <1>5, ReqKinds
<1>7. /\ half \in Seq(O) /\ FirstOnly(half, SysReq)
      /\ \A M : Meets(half, M) <=> Meets(Connects, M) \/ Meets(fw, M)
  BY <1>3, <1>6, ConnectsFacts, Joining
<1> HIDE DEF half
<1>8. /\ out' \in Seq(O) /\ FirstOnly(out', SysReq)
      /\ \A M : Meets(out', M) <=> Meets(half, M) \/ Meets(AskStats(slots), M)
  BY <1>1, <1>5, <1>6, <1>7, Joining
<1>9. \A s \in Slots : infoPage /\ shown.tool[s] # 0 => Meets(out', {StatReq(s)})
  BY <1>4, <1>5, <1>8
<1>10. \A M : Meets(Connects, M) => Meets(out', M)
  BY <1>7, <1>8
<1>11. \A M : Meets(out', M) =>
                Meets(Connects, M) \/ (\E p \in Parts : PartReq(p) \in M)
                \/ \E s \in Slots : StatReq(s) \in M
  BY <1>3, <1>4, <1>5, <1>7, <1>8
<1> QED
  BY <1>8, <1>9, <1>10, <1>11

LEMMA ConnectedKeeps == ASSUME MirrorInv, Connected PROVE MirrorInv'
<1>1. /\ Parts' = Parts /\ faults' = faults /\ scenario' = scenario /\ link' = TRUE /\ in' = in
      /\ kaiten' = kaiten /\ untold' = untold /\ state' = "Connected" /\ shown' = shown
      /\ configs' = configs /\ materials' = materials /\ stats' = stats
      /\ statsReady' = statsReady /\ infoPage' = infoPage
  BY DEF Parts, faults, Connected, kaitenVars
<1>2. Typed'
  BY <1>1, ConnectedFacts DEF MirrorInv, Typed, KaitenTyped, ModelTyped, WireTyped
<1>3. LinkInv'
  BY <1>1 DEF LinkInv
<1>4. Meets(out', {SysReq}) /\ Meets(out', {CfgReq})
  BY ConnectedFacts, ConnectsFacts
<1>5. AskedInv'
  BY <1>1, <1>4, ConnectedFacts DEF AskedInv
<1>6. (SystemFresh /\ MaterialsFresh /\ ConfigsFresh)'
  BY <1>4 DEF SystemFresh, MaterialsFresh, ConfigsFresh, Asked
<1>7. StatsFresh'
  <2> SUFFICES ASSUME infoPage, NEW s \in Slots PROVE Meets(out', {StatReq(s)}) \/ Gone(s)'
    BY <1>1 DEF StatsFresh
  <2> QED
    BY <1>1, ConnectedFacts DEF Gone
<1>8. PartsFresh'
  <2> SUFFICES ASSUME NEW p \in Parts \ {"firmware", "camera", "cloud"}
               PROVE  Meets(out', {PartReq(p)})
    BY <1>1 DEF PartsFresh
  <2>1. p \in {"net", "serial", "spool", "time", "again"}
    BY ModelFacts DEF PartNames
  <2> QED
    BY <2>1, ConnectedFacts, ConnectsFacts
<1> QED
  BY <1>2, <1>3, <1>5, <1>6, <1>7, <1>8 DEF MirrorInv, Fresh

LEMMA DisconnectedKeeps == ASSUME MirrorInv, Disconnected PROVE MirrorInv'
<1>1. /\ Parts' = Parts /\ scenario' = scenario /\ link' = FALSE /\ in' = <<>> /\ out' = <<>>
      /\ untold' = FALSE /\ state' = "Disconnected" /\ shown' = shown
      /\ configs' = configs /\ materials' = materials /\ stats' = stats
      /\ statsReady' = statsReady /\ infoPage' = infoPage
  BY DEF Parts, Disconnected, pageVars
<1>2. KaitenTyped'
  <2>1. PICK s \in Slots, t \in 0..2 :
            kaiten' = [kaiten EXCEPT !.tool[s] = t, !.process = 0, !.waits = FALSE]
    BY DEF Disconnected
  <2>2. [kaiten.tool EXCEPT ![s] = t] \in Tools
    BY ModelFacts DEF Tools
  <2>3. kaiten' = [kaiten EXCEPT !.tool = [kaiten.tool EXCEPT ![s] = t], !.process = 0,
                                 !.waits = FALSE]
    BY <2>1
  <2> QED
    BY <1>1, <2>2, <2>3 DEF MirrorInv, Typed, KaitenTyped
<1>3. WireTyped'
  <2>1. <<>> \in Seq(InMsgs(Parts)) /\ <<>> \in Seq(OutMsgs(Parts))
    OBVIOUS
  <2> QED
    BY <1>1, <2>1 DEF WireTyped
<1>4. Typed'
  BY <1>1, <1>2, <1>3 DEF MirrorInv, Typed, ModelTyped
<1>5. LinkInv' /\ Fresh'
  BY <1>1 DEF LinkInv, Fresh, SystemFresh, MaterialsFresh, ConfigsFresh, StatsFresh, PartsFresh
<1>6. AskedInv'
  BY <1>1, Empty DEF AskedInv, Asked, FirstOnly
<1> QED
  BY <1>4, <1>5, <1>6 DEF MirrorInv

\* What is under way from Kaiten still ends, of M, as it did.
Kept(M) ==
    /\ \A G : Ends(in, M, G) => Ends(in', M, G)
    /\ Meets(in', M) => Meets(in, M)
KeptCall(c) == Meets(out, {c}) => Meets(out', {c})

\* Each thing Kaiten has is told anew, or kept as it is with what tells it.
SystemOn ==
    \/ untold'
    \/ Ends(in', SystemMsgs, SystemSays(kaiten'.tool, kaiten'.process))
    \/ /\ ~untold /\ KeptCall(SysReq) /\ Kept(SystemMsgs)
       /\ kaiten'.tool = kaiten.tool /\ kaiten'.process = kaiten.process
MaterialsOn == \A s \in Slots :
    \/ Ends(in', MaterialMsgs(s), MaterialsSay(s, kaiten'.tool[s]))
    \/ KeptCall(CfgReq) /\ Kept(MaterialMsgs(s)) /\ kaiten'.tool[s] = kaiten.tool[s]
ConfigsOn ==
    /\ kaiten'.tool = kaiten.tool
    /\ \/ Ends(in', ConfigsMsgs, ConfigsSay(kaiten.tool))
       \/ KeptCall(CfgReq) /\ Kept(ConfigsMsgs)
StatsOn ==
    /\ kaiten'.tool = kaiten.tool
    /\ \A s \in Slots :
        \/ Ends(in', StatsMsgs(s), StatsSay(s, kaiten.tool[s]))
        \/ KeptCall(StatReq(s)) /\ Kept(StatsMsgs(s))
PartsOn == \A p \in Parts :
    \/ Ends(in', PartMsgs(p), PartSays(p, kaiten'.data[p]))
    \/ Meets(in', {SetReply(p)})
    \/ KeptCall(PartReq(p)) /\ Kept(PartMsgs(p)) /\ kaiten'.data[p] = kaiten.data[p]

MirrorStays ==
    /\ scenario' = scenario /\ link' = link /\ state' = state /\ infoPage' = infoPage
    /\ shown' = shown /\ configs' = configs /\ materials' = materials
    /\ stats' = stats /\ statsReady' = statsReady
    /\ \A M : Meets(in, M) => Meets(in', M)

\* What Kaiten does is told.
LEMMA OnKeeps ==
    ASSUME MirrorInv, MirrorStays
    PROVE  /\ SystemOn => SystemFresh'
           /\ MaterialsOn => MaterialsFresh'
           /\ ConfigsOn => ConfigsFresh'
           /\ StatsOn => StatsFresh'
           /\ PartsOn => PartsFresh'
<1> USE DEF MirrorStays
<1>0. Parts' = Parts /\ faults' = faults
  BY DEF Parts, faults
<1>1. ASSUME SystemOn PROVE SystemFresh'
  BY <1>1 DEF MirrorInv, Fresh, SystemFresh, SystemOn, Kept, KeptCall, Latest, Asked
<1>2. ASSUME MaterialsOn, link, NEW s \in Slots
      PROVE  \/ Meets(out', {CfgReq})
             \/ Latest(in', MaterialMsgs(s), MaterialsSay(s, kaiten'.tool[s]),
                       kaiten'.tool[s] # 0 => materials[s] = kaiten'.tool[s])
  BY <1>2 DEF MirrorInv, Fresh, MaterialsFresh, MaterialsOn, Kept, KeptCall, Latest
<1>3. ASSUME ConfigsOn PROVE ConfigsFresh'
  <2> SUFFICES ASSUME "swap" \notin faults, link, \A s \in Slots : kaiten.tool[s] # 0
               PROVE  \/ Meets(out', {CfgReq})
                      \/ Latest(in', ConfigsMsgs, ConfigsSay(kaiten.tool), configs = kaiten.tool)
                      \/ \E s \in Slots : Gone(s)'
    BY <1>0, <1>3 DEF ConfigsOn, ConfigsFresh
  <2>1. ASSUME NEW s \in Slots, Gone(s) PROVE Gone(s)'
    BY <2>1 DEF Gone
  <2> QED
    BY <1>3, <2>1 DEF MirrorInv, Fresh, ConfigsFresh, ConfigsOn, Kept, KeptCall, Latest
<1>4. ASSUME StatsOn PROVE StatsFresh'
  <2> SUFFICES ASSUME "swap" \notin faults, link, infoPage, NEW s \in Slots, kaiten.tool[s] # 0
               PROVE  \/ Meets(out', {StatReq(s)})
                      \/ Latest(in', StatsMsgs(s), StatsSay(s, kaiten.tool[s]),
                                statsReady[s] /\ stats[s] = kaiten.tool[s])
                      \/ Gone(s)'
    BY <1>0, <1>4 DEF StatsOn, StatsFresh
  <2>1. Gone(s) => Gone(s)'
    BY DEF Gone
  <2> QED
    BY <1>4, <2>1 DEF MirrorInv, Fresh, StatsFresh, StatsOn, Kept, KeptCall, Latest
<1>5. ASSUME PartsOn PROVE PartsFresh'
  <2> SUFFICES ASSUME link, NEW p \in Parts \ {"firmware", "camera", "cloud"}
               PROVE  \/ Meets(out', {PartReq(p)})
                      \/ Meets(in', {SetReply(p)})
                      \/ Latest(in', PartMsgs(p), PartSays(p, kaiten'.data[p]),
                                shown.data[p] = kaiten'.data[p])
    BY <1>0 DEF PartsFresh
  <2> QED
    BY <1>5 DEF MirrorInv, Fresh, PartsFresh, PartsOn, Kept, KeptCall, Latest
<1> QED
  BY <1>1, <1>2, <1>3, <1>4, <1>5 DEF MaterialsFresh

\* A message is added behind those that are under way.
LEMMA SayFacts ==
    ASSUME MirrorInv, NEW m \in InMsgs(Parts), link, Say(m)
    PROVE  /\ in' \in Seq(InMsgs(Parts))
           /\ \A M : Meets(in, M) => Meets(in', M)
           /\ \A M : m \in M => Meets(in', M)
           /\ \A M, G : m \in G => Ends(in', M, G)
           /\ \A M : m \notin M => Kept(M)
<1>1. in' = Append(in, m) /\ in \in Seq(InMsgs(Parts))
  BY ModelFacts DEF Say
<1>2. /\ in' \in Seq(InMsgs(Parts))
      /\ \A M : Meets(in', M) <=> Meets(in, M) \/ m \in M
      /\ \A M, G : m \in G => Ends(in', M, G)
      /\ \A M, G : Ends(in, M, G) /\ m \notin M => Ends(in', M, G)
  BY <1>1, Appending
<1> QED
  BY <1>2 DEF Kept

LEMMA SilenceFacts ==
    ASSUME in' = in
    PROVE  (\A M : Meets(in, M) => Meets(in', M)) /\ (\A M : Kept(M))
  BY DEF Kept

LEMMA StayCalls == ASSUME out' = out PROVE \A c : KeptCall(c)
  BY DEF KeptCall

\* While Kaiten is away, what it does is not told.
LEMMA AwayKeeps ==
    ASSUME MirrorInv, ~link, MirrorStays, KaitenTyped', in' = in, out' = out, ~untold'
    PROVE  MirrorInv'
<1>1. Parts' = Parts
  BY DEF Parts, MirrorStays
<1>2. Typed'
  BY <1>1 DEF MirrorInv, MirrorStays, Typed, ModelTyped, WireTyped
<1>3. LinkInv' /\ AskedInv'
  BY DEF MirrorInv, MirrorStays, LinkInv, AskedInv, Asked
<1>4. Fresh'
  BY DEF MirrorStays, Fresh, SystemFresh, MaterialsFresh, ConfigsFresh, StatsFresh, PartsFresh
<1> QED
  BY <1>2, <1>3, <1>4 DEF MirrorInv

LEMMA HereKeeps ==
    ASSUME MirrorInv, link, MirrorStays, KaitenTyped', in' \in Seq(InMsgs(Parts)), out' = out,
           SystemOn, MaterialsOn, PartsOn, ConfigsFresh', StatsFresh'
    PROVE  MirrorInv'
<1>1. Parts' = Parts
  BY DEF Parts, MirrorStays
<1>2. Typed'
  BY <1>1 DEF MirrorInv, MirrorStays, Typed, ModelTyped, WireTyped
<1>3. LinkInv' /\ AskedInv'
  BY DEF MirrorInv, MirrorStays, LinkInv, AskedInv, Asked
<1> QED
  BY <1>2, <1>3, OnKeeps DEF MirrorInv, Fresh

\* A tool that is missing is shown as missing, or it will be.
LEMMA MissingIsTold ==
    ASSUME MirrorInv, link, ~untold, NEW s \in Slots, kaiten.tool[s] = 0
    PROVE  Asked \/ Gone(s)
<1> SUFFICES ASSUME ~Asked PROVE Gone(s)
  OBVIOUS
<1>1. CASE shown.tool = kaiten.tool
  BY <1>1 DEF Gone
<1>2. CASE shown.tool # kaiten.tool
  <2>1. Ends(in, SystemMsgs, SystemSays(kaiten.tool, kaiten.process))
    BY <1>2 DEF MirrorInv, Fresh, SystemFresh, Latest
  <2>2. PICK i \in DOMAIN in : in[i] = [part |-> "system", tool |-> kaiten.tool,
                                        process |-> kaiten.process]
    BY <2>1 DEF Ends, SystemSays
  <2>3. in[i] \in Lacks(s)
    BY <2>2, ModelFacts DEF Lacks, SystemMsgs
  <2> QED
    BY <2>3 DEF Gone, Meets
<1> QED
  BY <1>1, <1>2

LEMMA KaitenNotifiesKeeps == ASSUME MirrorInv, KaitenNotifies PROVE MirrorInv'
<1>1. System \in InMsgs(Parts) /\ System.part = "system"
  BY ModelFacts DEF System, InMsgs, SystemMsgs
<1>2. link /\ Say(System) /\ kaiten' = kaiten /\ out' = out
  BY DEF KaitenNotifies
<1>3. MirrorStays
  BY <1>1, <1>2, SayFacts DEF MirrorStays, KaitenNotifies, modelVars, pageVars
<1>4. System \in SystemSays(kaiten.tool, kaiten.process)
  BY DEF System, SystemSays
<1>5. \A s, p \in PartNames : System \notin MaterialMsgs(s) /\ System \notin PartMsgs(p)
  BY <1>1, MsgParts DEF PartNames
<1>6. /\ System \notin ConfigsMsgs
      /\ \A s : System \notin StatsMsgs(s) /\ System \notin MaterialMsgs(s)
  BY <1>1, MsgParts
<1>7. SystemOn /\ MaterialsOn /\ ConfigsOn /\ StatsOn /\ PartsOn
  BY <1>1, <1>2, <1>4, <1>5, <1>6, SayFacts, StayCalls, ModelFacts
  DEF SystemOn, MaterialsOn, ConfigsOn, StatsOn, PartsOn
<1>8. KaitenTyped'
  BY <1>2 DEF MirrorInv, Typed, KaitenTyped, KaitenNotifies, Parts
<1> QED
  BY <1>1, <1>2, <1>3, <1>7, <1>8, SayFacts, OnKeeps, HereKeeps

\* A process starts or ends.
LEMMA ProcessKeeps == ASSUME MirrorInv, RemoteStart \/ EndProcess PROVE MirrorInv'
<1>1. /\ link' = link /\ out' = out /\ in' = in /\ untold' = link
      /\ kaiten'.tool = kaiten.tool /\ kaiten'.data = kaiten.data
  BY DEF RemoteStart, EndProcess, MirrorInv, Typed, KaitenTyped
<1>2. MirrorStays
  BY <1>1 DEF MirrorStays, RemoteStart, EndProcess, modelVars, pageVars
<1>3. KaitenTyped'
  <2>1. CASE RemoteStart
    <3>1. kaiten.last + 1 \in Nat
      BY ModelFacts
    <3>2. /\ kaiten' = [kaiten EXCEPT !.process = kaiten.last + 1, !.last = kaiten.last + 1]
          /\ Parts' = Parts
      BY <2>1 DEF RemoteStart, Parts
    <3> QED
      BY <3>1, <3>2 DEF MirrorInv, Typed, KaitenTyped
  <2>2. CASE EndProcess
    BY <2>2 DEF EndProcess, MirrorInv, Typed, KaitenTyped, Parts
  <2> QED
    BY <2>1, <2>2
<1>4. CASE link
  <2>1. SystemOn /\ MaterialsOn /\ ConfigsOn /\ StatsOn /\ PartsOn
    BY <1>1, <1>4, SilenceFacts, StayCalls
    DEF SystemOn, MaterialsOn, ConfigsOn, StatsOn, PartsOn
  <2> QED
    BY <1>1, <1>2, <1>3, <1>4, <2>1, ModelFacts, OnKeeps, HereKeeps
<1>5. CASE ~link
  BY <1>1, <1>2, <1>3, <1>5, AwayKeeps
<1> QED
  BY <1>4, <1>5

LEMMA AskMaterialKeeps == ASSUME MirrorInv, AskMaterial PROVE MirrorInv'
<1> DEFINE m == [part |-> "warning"]
<1>1. m \in InMsgs(Parts) /\ m.part = "warning"
  BY DEF InMsgs
<1>2. /\ link /\ Say(m) /\ out' = out /\ untold' = untold
      /\ kaiten'.tool = kaiten.tool /\ kaiten'.data = kaiten.data
      /\ kaiten'.process = kaiten.process
  BY DEF AskMaterial, MirrorInv, Typed, KaitenTyped
<1> HIDE DEF m
<1>3. MirrorStays
  BY <1>1, <1>2, SayFacts DEF MirrorStays, AskMaterial, modelVars, pageVars
<1>4. \A s : /\ m \notin SystemMsgs /\ m \notin ConfigsMsgs /\ m \notin StatsMsgs(s)
             /\ m \notin MaterialMsgs(s)
  BY <1>1, MsgParts
<1>5. \A p \in PartNames : m \notin PartMsgs(p)
  BY <1>1, MsgParts DEF PartNames
<1>7. SystemOn /\ MaterialsOn /\ ConfigsOn /\ StatsOn /\ PartsOn
  BY <1>1, <1>2, <1>4, <1>5, SayFacts, StayCalls, ModelFacts
  DEF SystemOn, MaterialsOn, ConfigsOn, StatsOn, PartsOn
<1>8. KaitenTyped'
  BY DEF AskMaterial, MirrorInv, Typed, KaitenTyped, Parts
<1> QED
  BY <1>1, <1>2, <1>3, <1>7, <1>8, SayFacts, OnKeeps, HereKeeps

\* One of the other values of Kaiten changes.
LEMMA ChangePartKeeps ==
    ASSUME MirrorInv, NEW p \in Parts \cap NotifiedParts, ChangePart(p)
    PROVE  MirrorInv'
<1> DEFINE m == [part |-> p, value |-> kaiten.data[p] + 1]
<1>1. m \in InMsgs(Parts) /\ m.part = p /\ m.value = kaiten.data[p] + 1
  BY ModelFacts DEF InMsgs
<1>2. /\ Say(m) /\ out' = out /\ untold' = untold /\ link' = link
      /\ kaiten'.tool = kaiten.tool /\ kaiten'.process = kaiten.process
      /\ kaiten'.data = [kaiten.data EXCEPT ![p] = @ + 1]
  BY DEF ChangePart, MirrorInv, Typed, KaitenTyped
<1>a. p \in PartNames /\ kaiten'.data[p] = kaiten.data[p] + 1
  BY <1>2, ModelFacts
<1>b. m \in PartSays(p, kaiten'.data[p])
  BY <1>a DEF PartSays
<1> HIDE DEF m
<1>3. KaitenTyped'
  <2>1. kaiten'.data \in [Parts -> Int]
    BY <1>2, ModelFacts
  <2> QED
    BY <2>1, ModelFacts DEF ChangePart, MirrorInv, Typed, KaitenTyped, Parts
<1>4. CASE link
  <2>1. MirrorStays
    BY <1>1, <1>2, <1>4, SayFacts DEF MirrorStays, ChangePart, modelVars, pageVars
  <2>2. \A s : /\ m \notin SystemMsgs /\ m \notin ConfigsMsgs /\ m \notin StatsMsgs(s)
               /\ m \notin MaterialMsgs(s)
    BY <1>1, <1>a, MsgParts DEF PartNames
  <2>3. SystemOn /\ MaterialsOn /\ ConfigsOn /\ StatsOn
    BY <1>1, <1>2, <1>4, <2>2, SayFacts, StayCalls
    DEF SystemOn, MaterialsOn, ConfigsOn, StatsOn
  <2>4. ASSUME NEW q \in Parts, q # p
        PROVE  KeptCall(PartReq(q)) /\ Kept(PartMsgs(q)) /\ kaiten'.data[q] = kaiten.data[q]
    <3>1. m \notin PartMsgs(q)
      BY <1>1, <2>4, MsgParts
    <3> QED
      BY <1>1, <1>2, <1>4, <2>4, <3>1, SayFacts, StayCalls, ModelFacts
  <2>5. PartsOn
    BY <1>1, <1>2, <1>4, <1>b, <2>4, SayFacts DEF PartsOn
  <2> QED
    BY <1>1, <1>2, <1>3, <1>4, <2>1, <2>3, <2>5, SayFacts, OnKeeps, HereKeeps
<1>5. CASE ~link
  <2>1. in' = in
    BY <1>2, <1>5 DEF Say
  <2>2. MirrorStays
    BY <1>2, <2>1 DEF MirrorStays, ChangePart, modelVars, pageVars
  <2>3. ~untold'
    BY <1>2, <1>5 DEF MirrorInv, LinkInv
  <2> QED
    BY <1>2, <1>3, <1>5, <2>1, <2>2, <2>3, AwayKeeps
<1> QED
  BY <1>4, <1>5

LEMMA ChangeToolKeeps == ASSUME MirrorInv, ChangeTool PROVE MirrorInv'
<1>1. PICK s \in Slots, t \in 0..2 :
        /\ (t = 0) # (kaiten.tool[s] = 0)
        /\ t = 0 \/ "swap" \in faults \/ ~untold
        /\ kaiten' = [kaiten EXCEPT !.tool[s] = t]
        /\ Say([part |-> "extruder", slot |-> s, fitted |-> t])
  BY DEF ChangeTool
<1> DEFINE m == [part |-> "extruder", slot |-> s, fitted |-> t]
<1>2. m \in InMsgs(Parts) /\ m.part = "extruder" /\ m.slot = s /\ m.fitted = t
  BY DEF InMsgs
<1>3. m \in MaterialsSay(s, t)
  BY DEF MaterialsSay, MaterialMsgs
<1>4. /\ Say(m) /\ link' = link /\ out' = out /\ untold' = link
      /\ faults' = faults /\ Parts' = Parts
  BY <1>1 DEF ChangeTool, faults, Parts
<1>5. /\ kaiten'.tool = [kaiten.tool EXCEPT ![s] = t] /\ kaiten'.tool \in Tools
      /\ kaiten'.data = kaiten.data /\ KaitenTyped'
  <2>1. kaiten'.tool = [kaiten.tool EXCEPT ![s] = t] /\ kaiten'.data = kaiten.data
    BY <1>1 DEF MirrorInv, Typed, KaitenTyped
  <2>2. [kaiten.tool EXCEPT ![s] = t] \in Tools
    BY ModelFacts DEF Tools
  <2>3. kaiten' = [kaiten EXCEPT !.tool = [kaiten.tool EXCEPT ![s] = t]]
    BY <1>1
  <2> QED
    BY <1>4, <2>1, <2>2, <2>3 DEF MirrorInv, Typed, KaitenTyped
<1>6. kaiten'.tool[s] = t /\ \A r \in Slots : r # s => kaiten'.tool[r] = kaiten.tool[r]
  BY <1>5, ModelFacts DEF Tools
<1> HIDE DEF m
<1>7. CASE link
  <2>1. MirrorStays
    BY <1>2, <1>4, <1>7, SayFacts DEF MirrorStays, ChangeTool, modelVars, pageVars
  <2>2. SystemOn
    BY <1>4, <1>7 DEF SystemOn
  <2>3. MaterialsOn
    <3>1. ASSUME NEW r \in Slots, r # s
          PROVE  KeptCall(CfgReq) /\ Kept(MaterialMsgs(r)) /\ kaiten'.tool[r] = kaiten.tool[r]
      <4>1. m \notin MaterialMsgs(r)
        BY <1>2, <3>1, MsgParts
      <4> QED
        BY <1>2, <1>4, <1>6, <1>7, <3>1, <4>1, SayFacts, StayCalls
    <3>2. Ends(in', MaterialMsgs(s), MaterialsSay(s, kaiten'.tool[s]))
      BY <1>2, <1>3, <1>4, <1>6, <1>7, SayFacts
    <3> QED
      BY <3>1, <3>2 DEF MaterialsOn
  <2>4. PartsOn
    <3>1. ASSUME NEW p \in Parts
          PROVE  KeptCall(PartReq(p)) /\ Kept(PartMsgs(p)) /\ kaiten'.data[p] = kaiten.data[p]
      <4>1. m \notin PartMsgs(p)
        BY <1>2, MsgParts, ModelFacts DEF PartNames
      <4> QED
        BY <1>2, <1>4, <1>5, <1>7, <4>1, SayFacts, StayCalls
    <3> QED
      BY <3>1 DEF PartsOn
  <2>5. \A r : Gone(r) => Gone(r)'
    BY <2>1 DEF Gone, MirrorStays
  <2>6. ASSUME "swap" \notin faults, t # 0
        PROVE  (Asked /\ Meets(out, {CfgReq})) \/ Gone(s)
    BY <1>1, <1>7, <2>6, MissingIsTold DEF MirrorInv, AskedInv
  <2>7. ConfigsFresh'
    <3> SUFFICES ASSUME "swap" \notin faults, \A r \in Slots : kaiten'.tool[r] # 0
                 PROVE  Meets(out, {CfgReq}) \/ \E r \in Slots : Gone(r)'
      BY <1>4 DEF ConfigsFresh
    <3> QED
      BY <1>6, <2>5, <2>6
  <2>8. StatsFresh'
    <3> SUFFICES ASSUME "swap" \notin faults, infoPage, NEW r \in Slots, kaiten'.tool[r] # 0
                 PROVE  \/ Meets(out, {StatReq(r)})
                        \/ Latest(in', StatsMsgs(r), StatsSay(r, kaiten'.tool[r]),
                                  statsReady[r] /\ stats[r] = kaiten'.tool[r])
                        \/ Gone(r)'
      BY <1>4, <2>1 DEF StatsFresh, MirrorStays
    <3>1. CASE r = s
      <4>1. Asked => shown.tool[s] = 0 \/ Meets(out, {StatReq(s)})
        BY DEF MirrorInv, AskedInv
      <4>2. shown.tool[s] = 0 => Gone(s)
        BY DEF Gone
      <4> QED
        BY <1>6, <2>5, <2>6, <3>1, <4>1, <4>2
    <3>2. CASE r # s
      <4>1. m \notin StatsMsgs(r)
        BY <1>2, MsgParts
      <4>2. Kept(StatsMsgs(r)) /\ kaiten'.tool[r] = kaiten.tool[r]
        BY <1>2, <1>4, <1>6, <1>7, <3>2, <4>1, SayFacts
      <4> QED
        BY <1>7, <2>5, <4>2 DEF MirrorInv, Fresh, StatsFresh, Kept, Latest
    <3> QED
      BY <3>1, <3>2
  <2> QED
    BY <1>2, <1>4, <1>5, <1>7, <2>1, <2>2, <2>3, <2>4, <2>7, <2>8, SayFacts, HereKeeps
<1>8. CASE ~link
  <2>1. in' = in
    BY <1>4, <1>8 DEF Say
  <2>2. MirrorStays
    BY <1>4, <2>1 DEF MirrorStays, ChangeTool, modelVars, pageVars
  <2> QED
    BY <1>4, <1>5, <1>8, <2>1, <2>2, AwayKeeps
<1> QED
  BY <1>7, <1>8

\* Kaiten takes the call c, the first of those under way.
Reads(c) == out # <<>> /\ c = Head(out) /\ out' = Tail(out)

LEMMA ReadsFacts ==
    ASSUME MirrorInv, NEW c, Reads(c)
    PROVE  /\ c \in OutMsgs(Parts) /\ link
           /\ out' \in Seq(OutMsgs(Parts))
           /\ \A x : x # c => KeptCall(x)
           /\ ~Meets(out', {SysReq}) /\ FirstOnly(out', SysReq)
           /\ \A M : Meets(out', M) => Meets(out, M)
<1>1. out # <<>> /\ out \in Seq(OutMsgs(Parts)) /\ FirstOnly(out, SysReq)
  BY ModelFacts DEF Reads, MirrorInv, AskedInv
<1>2. /\ c \in OutMsgs(Parts) /\ out' \in Seq(OutMsgs(Parts))
      /\ \A M : Meets(out, M) <=> c \in M \/ Meets(out', M)
      /\ ~Meets(out', {SysReq}) /\ FirstOnly(out', SysReq)
  BY <1>1, Taking DEF Reads
<1>3. link
  BY <1>1 DEF MirrorInv, LinkInv
<1> QED
  BY <1>2, <1>3 DEF KeptCall

\* A call is answered, or changes what Kaiten has and that is told.
LEMMA ReadKeeps ==
    ASSUME MirrorInv, NEW c, Reads(c), MirrorStays, KaitenTyped', in' \in Seq(InMsgs(Parts)),
           untold => untold',
           SystemOn, MaterialsOn, ConfigsOn, StatsOn, PartsOn
    PROVE  MirrorInv'
<1>1. Parts' = Parts
  BY DEF Parts, MirrorStays
<1>2. Typed'
  BY <1>1, ReadsFacts DEF MirrorInv, MirrorStays, Typed, ModelTyped, WireTyped
<1>3. LinkInv'
  BY ReadsFacts DEF MirrorInv, MirrorStays, LinkInv
<1>4. AskedInv'
  BY ReadsFacts DEF AskedInv, Asked
<1> QED
  BY <1>2, <1>3, <1>4, OnKeeps DEF MirrorInv, Fresh

LEMMA KaitenReadsKeeps == ASSUME MirrorInv, KaitenReads PROVE MirrorInv'
<1> DEFINE c == Head(out)
<1>1. Reads(c)
  BY DEF Reads, KaitenReads
<1>2. /\ scenario' = scenario /\ link' = link /\ state' = state /\ infoPage' = infoPage
      /\ shown' = shown /\ configs' = configs /\ materials' = materials
      /\ stats' = stats /\ statsReady' = statsReady /\ Parts' = Parts
  BY DEF KaitenReads, modelVars, Parts
<1>3. /\ c \in OutMsgs(Parts) /\ link
      /\ \A x : x # c => KeptCall(x)
  BY <1>1, ReadsFacts
<1>4. c.call \in {"get_system_information", "get_extruders_configs", "get_tool_stats",
                  "acknowledge_material", "get", "set", "start", "process", "other"}
  BY <1>3, OutKinds
<1>5. \/ /\ c.call = "get_system_information"
         /\ Say(System) /\ UNCHANGED kaitenVars
      \/ /\ c.call = "get_extruders_configs"
         /\ Say([part |-> "configs", tool |-> kaiten.tool]) /\ UNCHANGED kaitenVars
      \/ /\ c.call = "get_tool_stats"
         /\ Say([part |-> "stats", slot |-> c.arg, fitted |-> kaiten.tool[c.arg]])
         /\ UNCHANGED kaitenVars
      \/ c.call = "get" /\ Say(Told(c.part)) /\ UNCHANGED kaitenVars
      \/ /\ c.call = "set"
         /\ kaiten' = [kaiten EXCEPT !.data[c.part] = c.arg]
         /\ Say([part |-> "set", of |-> c.part]) /\ UNCHANGED untold
      \/ /\ c.call = "acknowledge_material"
         /\ kaiten' = [kaiten EXCEPT !.waits = FALSE] /\ UNCHANGED <<in, untold>>
      \/ /\ c.call = "start" /\ kaiten.process = 0
         /\ kaiten' = [kaiten EXCEPT !.process = kaiten.last + 1, !.last = @ + 1]
         /\ untold' = TRUE /\ UNCHANGED in
      \/ /\ c.call = "process" /\ UNCHANGED in
         /\ \/ UNCHANGED kaitenVars
            \/ kaiten' = [kaiten EXCEPT !.process = 0, !.waits = FALSE] /\ untold' = TRUE
      \/ c.call \in {"start", "other"} /\ UNCHANGED <<in, kaitenVars>>
  BY <1>4 DEF KaitenReads
<1> HIDE DEF c
<1>6. CASE /\ c.call = "get_system_information" /\ Say(System) /\ UNCHANGED kaitenVars
  <2>1. System \in InMsgs(Parts) /\ System.part = "system"
    BY ModelFacts DEF System, InMsgs, SystemMsgs
  <2>2. /\ System \in SystemSays(kaiten.tool, kaiten.process)
        /\ kaiten' = kaiten /\ untold' = untold /\ c = SysReq
    BY <1>3, <1>6, OutKinds DEF System, SystemSays, kaitenVars
  <2>3. /\ System \notin ConfigsMsgs
        /\ \A s : System \notin StatsMsgs(s) /\ System \notin MaterialMsgs(s)
    BY <2>1, MsgParts
  <2>4. \A p \in PartNames : System \notin PartMsgs(p)
    BY <2>1, MsgParts DEF PartNames
  <2>5. /\ KeptCall(CfgReq) /\ (\A s : KeptCall(StatReq(s))) /\ \A p : KeptCall(PartReq(p))
    BY <1>3, <2>2, ReqKinds
  <2>6. SystemOn /\ MaterialsOn /\ ConfigsOn /\ StatsOn /\ PartsOn
    BY <1>3, <1>6, <2>1, <2>2, <2>3, <2>4, <2>5, SayFacts, ModelFacts
    DEF SystemOn, MaterialsOn, ConfigsOn, StatsOn, PartsOn
  <2>7. MirrorStays /\ in' \in Seq(InMsgs(Parts))
    BY <1>2, <1>3, <1>6, <2>1, SayFacts DEF MirrorStays
  <2>8. KaitenTyped'
    BY <1>2, <2>2 DEF MirrorInv, Typed, KaitenTyped
  <2> QED
    BY <1>1, <2>2, <2>6, <2>7, <2>8, ReadKeeps
<1>7. CASE /\ c.call = "get_extruders_configs"
           /\ Say([part |-> "configs", tool |-> kaiten.tool]) /\ UNCHANGED kaitenVars
  <2> DEFINE m == [part |-> "configs", tool |-> kaiten.tool]
  <2>1. /\ m \in InMsgs(Parts) /\ m.part = "configs"
        /\ m \in ConfigsSay(kaiten.tool)
        /\ \A s \in Slots : m \in MaterialsSay(s, kaiten.tool[s])
    BY ModelFacts DEF InMsgs, ConfigsMsgs, ConfigsSay, MaterialsSay, MaterialMsgs
  <2>2. kaiten' = kaiten /\ untold' = untold /\ c = CfgReq /\ Say(m)
    BY <1>3, <1>7, OutKinds DEF kaitenVars
  <2> HIDE DEF m
  <2>3. m \notin SystemMsgs /\ \A s : m \notin StatsMsgs(s)
    BY <2>1, MsgParts
  <2>4. \A p \in PartNames : m \notin PartMsgs(p)
    BY <2>1, MsgParts DEF PartNames
  <2>5. /\ KeptCall(SysReq) /\ (\A s : KeptCall(StatReq(s))) /\ \A p : KeptCall(PartReq(p))
    BY <1>3, <2>2, ReqKinds
  <2>6. SystemOn /\ MaterialsOn /\ ConfigsOn /\ StatsOn /\ PartsOn
    BY <1>3, <2>1, <2>2, <2>3, <2>4, <2>5, SayFacts, ModelFacts
    DEF SystemOn, MaterialsOn, ConfigsOn, StatsOn, PartsOn
  <2>7. MirrorStays /\ in' \in Seq(InMsgs(Parts))
    BY <1>2, <1>3, <2>1, <2>2, SayFacts DEF MirrorStays
  <2>8. KaitenTyped'
    BY <1>2, <2>2 DEF MirrorInv, Typed, KaitenTyped
  <2> QED
    BY <1>1, <2>2, <2>6, <2>7, <2>8, ReadKeeps
<1>8. CASE /\ c.call = "get_tool_stats"
           /\ Say([part |-> "stats", slot |-> c.arg, fitted |-> kaiten.tool[c.arg]])
           /\ UNCHANGED kaitenVars
  <2> DEFINE m == [part |-> "stats", slot |-> c.arg, fitted |-> kaiten.tool[c.arg]]
  <2>1. c.arg \in Slots /\ c = StatReq(c.arg) /\ kaiten.tool[c.arg] \in 0..2
    BY <1>3, <1>8, OutKinds, ModelFacts DEF Tools
  <2>2. /\ m \in InMsgs(Parts) /\ m.part = "stats" /\ m.slot = c.arg
        /\ m \in StatsSay(c.arg, kaiten.tool[c.arg])
    BY <2>1 DEF InMsgs, StatsSay
  <2>3. kaiten' = kaiten /\ untold' = untold /\ Say(m)
    BY <1>8 DEF kaitenVars
  <2> HIDE DEF m
  <2>4. /\ m \notin SystemMsgs /\ m \notin ConfigsMsgs /\ (\A s : m \notin MaterialMsgs(s))
        /\ \A s : s # c.arg => m \notin StatsMsgs(s)
    BY <2>2, MsgParts
  <2>a. \A p \in PartNames : m \notin PartMsgs(p)
    BY <2>2, MsgParts DEF PartNames
  <2>5. /\ KeptCall(SysReq) /\ KeptCall(CfgReq) /\ (\A p : KeptCall(PartReq(p)))
        /\ \A s : s # c.arg => KeptCall(StatReq(s))
    BY <1>3, <1>8, ReqKinds
  <2>6. SystemOn /\ MaterialsOn /\ ConfigsOn /\ PartsOn
    BY <1>3, <2>2, <2>3, <2>4, <2>a, <2>5, SayFacts, ModelFacts
    DEF SystemOn, MaterialsOn, ConfigsOn, PartsOn
  <2>b. StatsOn
    BY <1>3, <2>2, <2>3, <2>4, <2>5, SayFacts DEF StatsOn
  <2>7. MirrorStays /\ in' \in Seq(InMsgs(Parts))
    BY <1>2, <1>3, <2>2, <2>3, SayFacts DEF MirrorStays
  <2>8. KaitenTyped'
    BY <1>2, <2>3 DEF MirrorInv, Typed, KaitenTyped
  <2> QED
    BY <1>1, <2>3, <2>6, <2>b, <2>7, <2>8, ReadKeeps
<1>9. CASE c.call = "get" /\ Say(Told(c.part)) /\ UNCHANGED kaitenVars
  <2> DEFINE m == Told(c.part)
  <2>1. c.part \in Parts /\ c = PartReq(c.part) /\ kaiten.data[c.part] \in Int
    BY <1>3, <1>9, OutKinds, ModelFacts
  <2>2. /\ m \in InMsgs(Parts) /\ m.part = c.part
        /\ m \in PartSays(c.part, kaiten.data[c.part])
    BY <2>1 DEF InMsgs, PartSays, Told
  <2>3. kaiten' = kaiten /\ untold' = untold /\ Say(m)
    BY <1>9 DEF kaitenVars
  <2> HIDE DEF m
  <2>4. /\ m \notin SystemMsgs /\ m \notin ConfigsMsgs /\ (\A s : m \notin MaterialMsgs(s))
        /\ (\A s : m \notin StatsMsgs(s))
        /\ \A p : p # c.part => m \notin PartMsgs(p)
    <3>1. m.part = c.part /\ m.part \in PartNames
      BY <2>1, <2>2, ModelFacts
    <3>2. m.part \notin {"system", "configs", "extruder", "stats"}
      BY <3>1 DEF PartNames
    <3> QED
      BY <3>1, <3>2, MsgParts
  <2>5. /\ KeptCall(SysReq) /\ KeptCall(CfgReq) /\ (\A s : KeptCall(StatReq(s)))
        /\ \A p : p # c.part => KeptCall(PartReq(p))
    BY <1>3, <1>9, ReqKinds
  <2>6. SystemOn /\ MaterialsOn /\ ConfigsOn /\ StatsOn
    BY <1>3, <2>2, <2>3, <2>4, <2>5, SayFacts DEF SystemOn, MaterialsOn, ConfigsOn, StatsOn
  <2>b. PartsOn
    BY <1>3, <2>2, <2>3, <2>4, <2>5, SayFacts DEF PartsOn
  <2>7. MirrorStays /\ in' \in Seq(InMsgs(Parts))
    BY <1>2, <1>3, <2>2, <2>3, SayFacts DEF MirrorStays
  <2>8. KaitenTyped'
    BY <1>2, <2>3 DEF MirrorInv, Typed, KaitenTyped
  <2> QED
    BY <1>1, <2>3, <2>6, <2>b, <2>7, <2>8, ReadKeeps
<1>10. CASE /\ c.call = "set" /\ kaiten' = [kaiten EXCEPT !.data[c.part] = c.arg]
            /\ Say([part |-> "set", of |-> c.part]) /\ UNCHANGED untold
  <2> DEFINE m == [part |-> "set", of |-> c.part]
  <2>1. c.part \in Parts \cap SetParts /\ c.arg \in Int
    BY <1>3, <1>10, OutKinds
  <2>2. m \in InMsgs(Parts) /\ m.part = "set" /\ m \in {SetReply(c.part)}
    BY <2>1 DEF InMsgs, SetReply
  <2>3. /\ untold' = untold /\ Say(m)
        /\ kaiten'.tool = kaiten.tool /\ kaiten'.process = kaiten.process
        /\ kaiten'.data = [kaiten.data EXCEPT ![c.part] = c.arg]
    BY <1>10 DEF MirrorInv, Typed, KaitenTyped
  <2>c. \A p \in Parts : p # c.part => kaiten'.data[p] = kaiten.data[p]
    BY <2>3, ModelFacts
  <2> HIDE DEF m
  <2>4. /\ m \notin SystemMsgs /\ m \notin ConfigsMsgs /\ (\A s : m \notin MaterialMsgs(s))
        /\ (\A s : m \notin StatsMsgs(s))
    BY <2>2, MsgParts
  <2>a. \A p \in PartNames : m \notin PartMsgs(p)
    BY <2>2, MsgParts DEF PartNames
  <2>5. /\ KeptCall(SysReq) /\ KeptCall(CfgReq) /\ (\A s : KeptCall(StatReq(s)))
        /\ \A p : KeptCall(PartReq(p))
    BY <1>3, <1>10, ReqKinds
  <2>6. SystemOn /\ MaterialsOn /\ ConfigsOn /\ StatsOn
    BY <1>3, <2>2, <2>3, <2>4, <2>5, SayFacts DEF SystemOn, MaterialsOn, ConfigsOn, StatsOn
  <2>b. PartsOn
    BY <1>3, <2>2, <2>3, <2>a, <2>c, <2>5, SayFacts, ModelFacts DEF PartsOn
  <2>7. MirrorStays /\ in' \in Seq(InMsgs(Parts))
    BY <1>2, <1>3, <2>2, <2>3, SayFacts DEF MirrorStays
  <2>8. KaitenTyped'
    <3>1. [kaiten.data EXCEPT ![c.part] = c.arg] \in [Parts -> Int]
      BY <2>1, ModelFacts
    <3>2. kaiten' = [kaiten EXCEPT !.data = [kaiten.data EXCEPT ![c.part] = c.arg]]
      BY <1>10
    <3> QED
      BY <1>2, <3>1, <3>2 DEF MirrorInv, Typed, KaitenTyped
  <2> QED
    BY <1>1, <2>3, <2>6, <2>b, <2>7, <2>8, ReadKeeps
<1>11. ASSUME c.call \in {"acknowledge_material", "start", "process", "other"}, in' = in,
              kaiten'.tool = kaiten.tool, kaiten'.data = kaiten.data, KaitenTyped',
              untold' \/ (untold' = untold /\ kaiten'.process = kaiten.process)
       PROVE  MirrorInv'
  <2>1. \A M : Kept(M)
    BY <1>11, SilenceFacts
  <2>2. /\ KeptCall(SysReq) /\ KeptCall(CfgReq) /\ (\A s : KeptCall(StatReq(s)))
        /\ \A p : KeptCall(PartReq(p))
    BY <1>3, <1>11, ReqKinds
  <2>3. SystemOn /\ MaterialsOn /\ ConfigsOn /\ StatsOn /\ PartsOn
    BY <1>11, <2>1, <2>2 DEF SystemOn, MaterialsOn, ConfigsOn, StatsOn, PartsOn
  <2>4. MirrorStays /\ in' \in Seq(InMsgs(Parts))
    BY <1>2, <1>11, SilenceFacts, ModelFacts DEF MirrorStays
  <2> QED
    BY <1>1, <1>11, <2>3, <2>4, ReadKeeps
<1>12. CASE /\ c.call = "acknowledge_material"
            /\ kaiten' = [kaiten EXCEPT !.waits = FALSE] /\ UNCHANGED <<in, untold>>
  BY <1>2, <1>11, <1>12 DEF MirrorInv, Typed, KaitenTyped
<1>13. CASE /\ c.call = "start" /\ kaiten.process = 0
            /\ kaiten' = [kaiten EXCEPT !.process = kaiten.last + 1, !.last = @ + 1]
            /\ untold' = TRUE /\ UNCHANGED in
  <2>1. kaiten.last + 1 \in Nat
    BY ModelFacts
  <2>2. kaiten' = [kaiten EXCEPT !.process = kaiten.last + 1, !.last = kaiten.last + 1]
    BY <1>13
  <2>3. KaitenTyped' /\ kaiten'.tool = kaiten.tool /\ kaiten'.data = kaiten.data
    BY <1>2, <2>1, <2>2 DEF MirrorInv, Typed, KaitenTyped
  <2> QED
    BY <1>11, <1>13, <2>3
<1>14. CASE /\ c.call = "process" /\ UNCHANGED in
            /\ \/ UNCHANGED kaitenVars
               \/ kaiten' = [kaiten EXCEPT !.process = 0, !.waits = FALSE] /\ untold' = TRUE
  <2>1. KaitenTyped' /\ kaiten'.tool = kaiten.tool /\ kaiten'.data = kaiten.data
    <3>1. CASE UNCHANGED kaitenVars
      BY <1>2, <3>1 DEF MirrorInv, Typed, KaitenTyped, kaitenVars
    <3>2. CASE kaiten' = [kaiten EXCEPT !.process = 0, !.waits = FALSE]
      BY <1>2, <3>2 DEF MirrorInv, Typed, KaitenTyped
    <3> QED
      BY <1>14, <3>1, <3>2
  <2>2. untold' \/ (untold' = untold /\ kaiten'.process = kaiten.process)
    BY <1>14 DEF kaitenVars
  <2> QED
    BY <1>11, <1>14, <2>1, <2>2
<1>15. CASE c.call \in {"start", "other"} /\ UNCHANGED <<in, kaitenVars>>
  <2>1. KaitenTyped' /\ kaiten' = kaiten /\ untold' = untold
    BY <1>2, <1>15 DEF MirrorInv, Typed, KaitenTyped, kaitenVars
  <2> QED
    BY <1>11, <1>15, <2>1
<1> QED
  BY <1>5, <1>6, <1>7, <1>8, <1>9, <1>10, <1>12, <1>13, <1>14, <1>15

LEMMA PresentFacts ==
    ASSUME NEW tool \in Tools
    PROVE  /\ Present(tool) \in [Slots -> BOOLEAN]
           /\ \A s \in Slots : Present(tool)[s] <=> tool[s] # 0
           /\ Both(Present(tool)) <=> \A s \in Slots : tool[s] # 0
<1>1. /\ Present(tool) \in [Slots -> BOOLEAN]
      /\ \A s \in Slots : Present(tool)[s] <=> tool[s] # 0
  BY DEF Present
<1>2. 1 \in Slots /\ 2 \in Slots /\ \A s \in Slots : s = 1 \/ s = 2
  BY DEF Slots
<1> QED
  BY <1>1, <1>2 DEF Both

\* The configurations are asked for when the second of two tools appears.
LEMMA AskConfigsFacts ==
    ASSUME NEW parts, NEW a \in Tools, NEW b \in Tools
    PROVE  LET asked == AskConfigs(Present(a), Present(b))
           IN /\ asked \in Seq(OutMsgs(parts))
              /\ \A M : Meets(asked, M) => CfgReq \in M
              /\ (\E s \in Slots : a[s] = 0) /\ (\A s \in Slots : b[s] # 0) =>
                    Meets(asked, {CfgReq})
<1> DEFINE old == Present(a)
           new == Present(b)
           half == [new EXCEPT ![2] = old[2]]
           ask(x, y) == IF Both(x) = Both(y) THEN <<>> ELSE <<CfgReq>>
<1>1. AskConfigs(old, new) = ask(old, half) \o ask(half, new)
  BY DEF AskConfigs, CfgReq
<1>2. \A x, y : ask(x, y) = <<>> \/ ask(x, y) = <<CfgReq>>
  OBVIOUS
<1>3. /\ <<CfgReq>> \in Seq(OutMsgs(parts))
      /\ \A M : Meets(<<CfgReq>>, M) <=> CfgReq \in M
  BY Requests, OfOne
<1>4. <<>> \in Seq(OutMsgs(parts))
  OBVIOUS
<1>5. \A x, y : /\ ask(x, y) \in Seq(OutMsgs(parts))
                /\ \A M : Meets(ask(x, y), M) => CfgReq \in M
  <2> TAKE x, y
  <2>1. CASE ask(x, y) = <<>>
    BY <1>4, <2>1, Empty
  <2>2. CASE ask(x, y) = <<CfgReq>>
    BY <1>3, <2>2
  <2> QED
    BY <1>2, <2>1, <2>2
<1>6. ASSUME NEW x, NEW y, ~Both(x), Both(y) PROVE Meets(ask(x, y), {CfgReq})
  <2>1. ask(x, y) = <<CfgReq>>
    BY <1>6, Zenon DEF Both
  <2> QED
    BY <1>3, <2>1
<1> HIDE DEF ask
<1>7. /\ AskConfigs(old, new) \in Seq(OutMsgs(parts))
      /\ \A M : Meets(AskConfigs(old, new), M) <=>
            Meets(ask(old, half), M) \/ Meets(ask(half, new), M)
  BY <1>1, <1>5, Joining
<1>8. ASSUME \E s \in Slots : a[s] = 0, \A s \in Slots : b[s] # 0
      PROVE  Meets(AskConfigs(old, new), {CfgReq})
  <2>1. ~Both(old) /\ Both(new)
    BY <1>8, PresentFacts
  <2>2. CASE Both(half)
    BY <1>6, <1>7, <2>1, <2>2
  <2>3. CASE ~Both(half)
    BY <1>6, <1>7, <2>1, <2>3
  <2> QED
    BY <2>2, <2>3
<1> QED
  BY <1>5, <1>7, <1>8

\* What the pages ask for as the mirror changes.
LEMMA SysInfoFacts ==
    ASSUME MirrorInv, NEW m \in SystemMsgs, SysInfoUpdate(m)
    PROVE  /\ Grows /\ Calm
           /\ \A s \in Slots : infoPage /\ shown.tool[s] = 0 /\ m.tool[s] # 0 =>
                 Meets(out', {StatReq(s)})
           /\ (\E s \in Slots : shown.tool[s] = 0) /\ (\A s \in Slots : m.tool[s] # 0) =>
                 Meets(out', {CfgReq})
           /\ shown' = [shown EXCEPT !.tool = m.tool, !.process = m.process]
           /\ statsReady' \in [Slots -> BOOLEAN]
           /\ \A s \in Slots : statsReady'[s] <=> statsReady[s] /\ m.tool[s] # 0
<1> DEFINE O == OutMsgs(Parts)
           old == Present(shown.tool)
           new == Present(m.tool)
           slots == {s \in Slots : infoPage /\ ~old[s] /\ new[s]}
           half == out \o AskStats(slots)
           asked == AskConfigs(old, new)
<1>1. out' = half \o asked
  BY DEF SysInfoUpdate
<1>2. shown.tool \in Tools /\ m.tool \in Tools
  BY ModelFacts, MsgParts
<1>3. /\ asked \in Seq(O)
      /\ \A M : Meets(asked, M) => CfgReq \in M
      /\ (\E s \in Slots : shown.tool[s] = 0) /\ (\A s \in Slots : m.tool[s] # 0) =>
            Meets(asked, {CfgReq})
  BY <1>2, AskConfigsFacts
<1>4. /\ slots \subseteq Slots
      /\ \A s \in Slots : infoPage /\ shown.tool[s] = 0 /\ m.tool[s] # 0 => s \in slots
  BY <1>2, PresentFacts
<1>5. /\ shown' = [shown EXCEPT !.tool = m.tool, !.process = m.process]
      /\ statsReady' = [s \in Slots |-> statsReady[s] /\ new[s]]
  BY DEF SysInfoUpdate
<1>6. /\ statsReady' \in [Slots -> BOOLEAN]
      /\ \A s \in Slots : statsReady'[s] <=> statsReady[s] /\ m.tool[s] # 0
  <2>1. /\ statsReady' \in [Slots -> BOOLEAN]
        /\ \A s \in Slots : statsReady'[s] <=> statsReady[s] /\ new[s]
    BY <1>5
  <2>2. \A s \in Slots : new[s] <=> m.tool[s] # 0
    BY <1>2, PresentFacts
  <2> QED
    BY <2>1, <2>2
<1> HIDE DEF O, slots, asked
<1>7. /\ AskStats(slots) \in Seq(O)
      /\ \A M : Meets(AskStats(slots), M) <=> \E s \in slots : StatReq(s) \in M
  BY <1>4, AskStatsFacts DEF O
<1>a. CfgReq \notin MoveMsgs /\ \A s : StatReq(s) \notin MoveMsgs
  BY ReqKinds DEF MoveMsgs
<1>8. /\ ~Meets(asked, {SysReq}) /\ ~Meets(AskStats(slots), {SysReq})
      /\ ~Meets(asked, MoveMsgs) /\ ~Meets(AskStats(slots), MoveMsgs)
  BY <1>3, <1>7, <1>a, ReqKinds
<1>9. out \in Seq(O) /\ FirstOnly(out, SysReq)
  BY ModelFacts DEF MirrorInv, AskedInv, O
<1>10. /\ half \in Seq(O) /\ FirstOnly(half, SysReq)
       /\ \A M : Meets(half, M) <=> Meets(out, M) \/ Meets(AskStats(slots), M)
       /\ NoneAfter(out, StartMsgs, MoveMsgs) => NoneAfter(half, StartMsgs, MoveMsgs)
  BY <1>7, <1>8, <1>9, Joining
<1> HIDE DEF half
<1>11. /\ out' \in Seq(O) /\ FirstOnly(out', SysReq)
       /\ \A M : Meets(out', M) <=> Meets(half, M) \/ Meets(asked, M)
       /\ NoneAfter(half, StartMsgs, MoveMsgs) => NoneAfter(out', StartMsgs, MoveMsgs)
  BY <1>1, <1>3, <1>8, <1>10, Joining
<1>12. Grows
  BY <1>8, <1>10, <1>11 DEF Grows, Asked, O
<1>13. \A s \in Slots : infoPage /\ shown.tool[s] = 0 /\ m.tool[s] # 0 =>
                 Meets(out', {StatReq(s)})
  BY <1>4, <1>7, <1>10, <1>11
<1>14. (\E s \in Slots : shown.tool[s] = 0) /\ (\A s \in Slots : m.tool[s] # 0) =>
                 Meets(out', {CfgReq})
  BY <1>3, <1>11
<1>15. Calm
  <2>1. \A M \in SUBSET MoveMsgs :
            /\ Meets(AskStats(slots), M) => Meets(AskStats(slots), MoveMsgs)
            /\ Meets(asked, M) => Meets(asked, MoveMsgs)
    BY DEF Meets
  <2> QED
    BY <1>8, <1>10, <1>11, <1>12, <2>1 DEF Calm, Grows
<1> QED
  BY <1>5, <1>6, <1>12, <1>13, <1>14, <1>15

\* The first message m is taken, and what the mirror then shows.
Takes(m) == in # <<>> /\ m = Head(in) /\ in' = Tail(in)

LEMMA TakesFacts ==
    ASSUME MirrorInv, NEW m, Takes(m)
    PROVE  /\ m \in InMsgs(Parts) /\ link
           /\ in' \in Seq(InMsgs(Parts))
           /\ \A M : Meets(in, M) <=> m \in M \/ Meets(in', M)
           /\ \A M, G : Ends(in, M, G) => Ends(in', M, G) \/ (m \in G /\ ~Meets(in', M))
<1>1. in # <<>> /\ in \in Seq(InMsgs(Parts))
  BY ModelFacts DEF Takes
<1>2. link
  BY <1>1 DEF MirrorInv, LinkInv
<1> QED
  BY <1>1, <1>2, Taking DEF Takes

\* How each value of the mirror follows from the message.
Values(m) ==
    /\ IF m.part = "system" THEN shown'.tool = m.tool /\ shown'.process = m.process
                            ELSE shown'.tool = shown.tool /\ shown'.process = shown.process
    /\ m.part # "configs" => configs' = configs
    /\ m.part = "configs" /\ (\A s \in Slots : m.tool[s] # 0) => configs' = m.tool
    /\ \A s \in Slots :
        /\ m.part = "configs" /\ m.tool[s] # 0 => materials'[s] = m.tool[s]
        /\ m.part = "extruder" /\ m.slot = s /\ m.fitted # 0 => materials'[s] = m.fitted
        /\ m.part # "configs" /\ ~(m.part = "extruder" /\ m.slot = s) =>
              materials'[s] = materials[s]
    /\ \A s \in Slots : stats'[s] = IF m.part = "stats" /\ m.slot = s THEN m.fitted ELSE stats[s]
    /\ \A p \in Parts : shown'.data[p] = IF m.part = p THEN m.value ELSE shown.data[p]
Readies(m) == \A s \in Slots :
    \/ m.part = "stats" /\ m.slot = s /\ statsReady'[s]
    \/ ~(m.part = "stats" /\ m.slot = s) /\ (statsReady'[s] <=> statsReady[s])
    \/ m.part = "system" /\ m.tool[s] = 0

\* What is asked for because of it.
Asks(m) ==
    /\ m.part = "system" =>
        /\ \A s \in Slots : infoPage /\ shown.tool[s] = 0 /\ m.tool[s] # 0 =>
              Meets(out', {StatReq(s)})
        /\ (\E s \in Slots : shown.tool[s] = 0) /\ (\A s \in Slots : m.tool[s] # 0) =>
              Meets(out', {CfgReq})
    /\ m.part = "set" => Meets(out', {PartReq(m.of)})

Mirrors(m) == Values(m) /\ Readies(m) /\ Asks(m) /\ ModelTyped' /\ Grows /\ Calm

LEMMA ReceiveFacts == ASSUME MirrorInv, Receive PROVE Takes(Head(in)) /\ Mirrors(Head(in))
<1> DEFINE m == Head(in)
<1>1. Takes(m) /\ Parts' = Parts
  BY DEF Receive, Takes, Parts
<1>2. m \in InMsgs(Parts)
  BY <1>1, TakesFacts
<1>3. \/ m.part = "system" /\ SysInfoUpdate(m)
      \/ m.part = "configs" /\ ExtrudersConfigsUpdate(m)
      \/ m.part = "extruder" /\ ExtChangeUpdate(m)
      \/ m.part = "stats" /\ ToolStatsUpdate(m)
      \/ m.part = "warning" /\ UnknownMatWarningUpdate
      \/ m.part = "set" /\ SetUpdate(m)
      \/ /\ m.part \notin {"system", "configs", "extruder", "stats", "warning", "set"}
         /\ PartUpdate(m)
  BY DEF Receive
<1> SUFFICES Takes(m) /\ Mirrors(m)
  OBVIOUS
<1> HIDE DEF m
<1>4. Parts \subseteq PartNames /\ shown.tool \in Tools /\ shown.data \in [Parts -> Int]
  BY ModelFacts
<1>5. \A p \in Parts : p \notin {"system", "configs", "extruder", "stats", "warning", "set"}
  BY <1>4 DEF PartNames
<1>6. CASE m.part = "system" /\ SysInfoUpdate(m)
  <2>1. m \in SystemMsgs /\ m.tool \in Tools /\ m.process \in Nat
    BY <1>2, <1>4, <1>6, InKinds, MsgParts DEF PartNames
  <2>2. shown' = [shown EXCEPT !.tool = m.tool, !.process = m.process]
    BY <1>6 DEF SysInfoUpdate
  <2>3. configs' = configs /\ materials' = materials /\ stats' = stats
    BY <1>6 DEF SysInfoUpdate
  <2>4. /\ shown'.tool = m.tool /\ shown'.process = m.process /\ shown'.data = shown.data
        /\ shown' \in [tool : Tools, process : Nat, data : [Parts -> Int]]
    BY <2>1, <2>2 DEF MirrorInv, Typed, ModelTyped
  <2>5. ModelTyped'
    BY <1>1, <1>6, <2>1, <2>3, <2>4, SysInfoFacts DEF MirrorInv, Typed, ModelTyped
  <2>6. \A s \in Slots : (statsReady'[s] <=> statsReady[s]) \/ m.tool[s] = 0
    BY <1>6, <2>1, SysInfoFacts
  <2>v. Values(m)
    BY <1>5, <1>6, <2>3, <2>4 DEF Values
  <2>r. Readies(m)
    BY <1>6, <2>6 DEF Readies
  <2>a. Asks(m)
    BY <1>6, <2>1, SysInfoFacts DEF Asks
  <2> QED
    BY <1>1, <2>v, <2>r, <2>a, <1>6, <2>1, <2>5, SysInfoFacts DEF Mirrors
<1>7. CASE m.part = "configs" /\ ExtrudersConfigsUpdate(m)
  <2>1. m.tool \in Tools
    BY <1>2, <1>4, <1>7, InKinds, MsgParts DEF PartNames
  <2>2. /\ configs' \in Listed(configs, m.tool) /\ materials' \in Listed(materials, m.tool)
        /\ stats' = stats /\ out' = out /\ statsReady' = statsReady /\ shown' = shown
    BY <1>7 DEF ExtrudersConfigsUpdate
  <2>4. /\ configs' \in Tools /\ materials' \in Tools
        /\ \A s \in Slots : m.tool[s] # 0 =>
              configs'[s] = m.tool[s] /\ materials'[s] = m.tool[s]
    BY <2>2 DEF Listed, Tools
  <2>3. ModelTyped'
    BY <1>1, <2>2, <2>4 DEF MirrorInv, Typed, ModelTyped
  <2>5. (\A s \in Slots : m.tool[s] # 0) => configs' = m.tool
    BY <2>1, <2>4 DEF Tools
  <2>v. Values(m)
    BY <1>5, <1>7, <2>2, <2>4, <2>5 DEF Values
  <2>r. Readies(m)
    BY <1>7, <2>2 DEF Readies
  <2>a. Asks(m)
    BY <1>7 DEF Asks
  <2> QED
    BY <1>1, <2>v, <2>r, <2>a, <2>2, <2>3, StayGrows DEF Mirrors
<1>8. CASE m.part = "extruder" /\ ExtChangeUpdate(m)
  <2>1. m.slot \in Slots /\ m.fitted \in 0..2
    BY <1>2, <1>4, <1>8, InKinds DEF PartNames
  <2>2. /\ configs' = configs
        /\ materials' \in Listed(materials, [materials EXCEPT ![m.slot] = m.fitted])
        /\ stats' = stats /\ out' = out /\ statsReady' = statsReady /\ shown' = shown
    BY <1>8 DEF ExtChangeUpdate
  <2>3. materials \in Tools
    BY DEF MirrorInv, Typed, ModelTyped
  <2>4. /\ materials' \in Tools
        /\ \A s \in Slots : m.slot # s => materials'[s] = materials[s]
        /\ m.fitted # 0 => materials'[m.slot] = m.fitted
    <3> DEFINE new == [materials EXCEPT ![m.slot] = m.fitted]
    <3>1. /\ materials' \in Tools
          /\ \A s \in Slots : materials'[s] = new[s] \/ (new[s] = 0 /\ materials'[s] = materials[s])
      BY <2>2 DEF Listed, Tools
    <3>2. new[m.slot] = m.fitted /\ \A s \in Slots : m.slot # s => new[s] = materials[s]
      BY <2>1, <2>3 DEF Tools
    <3> HIDE DEF new
    <3> QED
      BY <2>1, <3>1, <3>2
  <2>5. ModelTyped'
    BY <1>1, <2>2, <2>4 DEF MirrorInv, Typed, ModelTyped
  <2>v. Values(m)
    BY <1>5, <1>8, <2>2, <2>4 DEF Values
  <2>r. Readies(m)
    BY <1>8, <2>2 DEF Readies
  <2>a. Asks(m)
    BY <1>8 DEF Asks
  <2> QED
    BY <1>1, <2>v, <2>r, <2>a, <2>2, <2>5, StayGrows DEF Mirrors
<1>9. CASE m.part = "stats" /\ ToolStatsUpdate(m)
  <2>1. m.slot \in Slots /\ m.fitted \in 0..2
    BY <1>2, <1>4, <1>9, InKinds DEF PartNames
  <2>2. /\ configs' = configs /\ materials' = materials
        /\ stats' = [stats EXCEPT ![m.slot] = m.fitted]
        /\ statsReady' = [statsReady EXCEPT ![m.slot] = TRUE]
        /\ out' = out /\ shown' = shown
    BY <1>9 DEF ToolStatsUpdate
  <2>3. stats \in Tools /\ statsReady \in [Slots -> BOOLEAN]
    BY DEF MirrorInv, Typed, ModelTyped
  <2>4. /\ stats' \in Tools
        /\ \A s \in Slots : stats'[s] = IF m.slot = s THEN m.fitted ELSE stats[s]
    BY <2>1, <2>2, <2>3 DEF Tools
  <2>5. /\ statsReady' \in [Slots -> BOOLEAN]
        /\ \A s \in Slots : IF m.slot = s THEN statsReady'[s]
                                         ELSE statsReady'[s] <=> statsReady[s]
    BY <2>1, <2>2, <2>3
  <2>6. ModelTyped'
    BY <1>1, <2>2, <2>4, <2>5 DEF MirrorInv, Typed, ModelTyped
  <2>v. Values(m)
    BY <1>5, <1>9, <2>2, <2>4 DEF Values
  <2>r. Readies(m)
    BY <1>9, <2>5 DEF Readies
  <2>a. Asks(m)
    BY <1>9 DEF Asks
  <2> QED
    BY <1>1, <2>v, <2>r, <2>a, <2>2, <2>6, StayGrows DEF Mirrors
<1>10. CASE m.part = "warning" /\ UnknownMatWarningUpdate
  <2>2. /\ configs' = configs /\ materials' = materials /\ stats' = stats /\ out' = out
        /\ statsReady' = statsReady /\ shown' = shown
    BY <1>10 DEF UnknownMatWarningUpdate
  <2>3. ModelTyped'
    BY <1>1, <2>2 DEF MirrorInv, Typed, ModelTyped
  <2>v. Values(m)
    BY <1>5, <1>10, <2>2 DEF Values
  <2>r. Readies(m)
    BY <1>10, <2>2 DEF Readies
  <2>a. Asks(m)
    BY <1>10 DEF Asks
  <2> QED
    BY <1>1, <2>v, <2>r, <2>a, <2>2, <2>3, StayGrows DEF Mirrors
<1>11. CASE m.part = "set" /\ SetUpdate(m)
  <2>1. m.of \in Parts
    BY <1>2, <1>4, <1>11, InKinds DEF PartNames
  <2>2. /\ configs' = configs /\ materials' = materials /\ stats' = stats
        /\ out' = out \o Get(m.of) /\ statsReady' = statsReady /\ shown' = shown
    BY <1>11 DEF SetUpdate
  <2>3. ModelTyped'
    BY <1>1, <2>2 DEF MirrorInv, Typed, ModelTyped
  <2>4. PartReq(m.of) \in OutMsgs(Parts) /\ PartReq(m.of) # SysReq
    BY <2>1, Requests, ReqKinds
  <2>5. Get(m.of) = <<PartReq(m.of)>>
    BY DEF Get, PartReq
  <2>6. /\ Get(m.of) \in Seq(OutMsgs(Parts))
        /\ \A M : Meets(Get(m.of), M) <=> PartReq(m.of) \in M
    BY <2>4, <2>5, OfOne
  <2>b. PartReq(m.of) \notin MoveMsgs
    BY ReqKinds DEF MoveMsgs
  <2>7. Grows /\ Calm /\ Meets(out', {PartReq(m.of)})
    BY <2>2, <2>4, <2>6, <2>b, JoinGrows
  <2>v. Values(m)
    BY <1>5, <1>11, <2>2 DEF Values
  <2>r. Readies(m)
    BY <1>11, <2>2 DEF Readies
  <2>a. Asks(m)
    BY <1>11, <2>7 DEF Asks
  <2> QED
    BY <1>1, <2>v, <2>r, <2>a, <2>3, <2>7 DEF Mirrors
<1>12. CASE /\ m.part \notin {"system", "configs", "extruder", "stats", "warning", "set"}
            /\ PartUpdate(m)
  <2>1. m.part \in Parts /\ m.value \in Int
    BY <1>2, <1>4, <1>12, InKinds
  <2>2. /\ configs' = configs /\ materials' = materials /\ stats' = stats
        /\ out' = out /\ statsReady' = statsReady
        /\ shown' = [shown EXCEPT !.data = [shown.data EXCEPT ![m.part] = m.value]]
    BY <1>12 DEF PartUpdate
  <2>3. [shown.data EXCEPT ![m.part] = m.value] \in [Parts -> Int]
    BY <1>4, <2>1
  <2>4. /\ shown' \in [tool : Tools, process : Nat, data : [Parts -> Int]]
        /\ shown'.tool = shown.tool /\ shown'.process = shown.process
        /\ shown'.data = [shown.data EXCEPT ![m.part] = m.value]
    BY <2>2, <2>3 DEF MirrorInv, Typed, ModelTyped
  <2>5. ModelTyped'
    BY <1>1, <2>2, <2>4 DEF MirrorInv, Typed, ModelTyped
  <2>6. \A p \in Parts : shown'.data[p] = IF m.part = p THEN m.value ELSE shown.data[p]
    BY <1>4, <2>1, <2>4
  <2>v. Values(m)
    BY <1>12, <2>2, <2>4, <2>6 DEF Values
  <2>r. Readies(m)
    BY <1>12, <2>2 DEF Readies
  <2>a. Asks(m)
    BY <1>12 DEF Asks
  <2> QED
    BY <1>1, <2>v, <2>r, <2>a, <2>2, <2>5, StayGrows DEF Mirrors
<1> QED
  BY <1>1, <1>3, <1>6, <1>7, <1>8, <1>9, <1>10, <1>11, <1>12

LEMMA ReceiveKeeps == ASSUME MirrorInv, Receive PROVE MirrorInv'
<1> DEFINE m == Head(in)
<1>1. /\ scenario' = scenario /\ link' = link /\ kaiten' = kaiten /\ untold' = untold
      /\ state' = state /\ infoPage' = infoPage /\ Parts' = Parts /\ faults' = faults
  BY DEF Receive, kaitenVars, Parts, faults
<1>2. Takes(m) /\ Mirrors(m)
  BY ReceiveFacts
<1> HIDE DEF m
<1>3. /\ m \in InMsgs(Parts) /\ link
      /\ in' \in Seq(InMsgs(Parts))
      /\ \A M : Meets(in, M) <=> m \in M \/ Meets(in', M)
      /\ \A M, G : Ends(in, M, G) => Ends(in', M, G) \/ (m \in G /\ ~Meets(in', M))
  BY <1>2, TakesFacts
<1>4. Values(m) /\ Readies(m) /\ Asks(m) /\ ModelTyped' /\ Grows
  BY <1>2 DEF Mirrors
<1>5. Parts \subseteq PartNames
  BY ModelFacts
<1>a. /\ m.part = "system" <=> m \in SystemMsgs
      /\ m.part = "configs" <=> m \in ConfigsMsgs
  BY <1>3, <1>5, InKinds, MsgParts DEF PartNames
<1>6. Typed'
  BY <1>1, <1>3, <1>4 DEF MirrorInv, Typed, KaitenTyped, WireTyped, Grows
<1>7. LinkInv'
  BY <1>1, <1>3 DEF MirrorInv, LinkInv
<1>8. AskedInv'
  <2>1. FirstOnly(out', SysReq) /\ (Asked' => Meets(out', {CfgReq}))
    BY <1>4 DEF MirrorInv, AskedInv, Grows
  <2>2. ASSUME Asked', infoPage, NEW s \in Slots
        PROVE  shown'.tool[s] = 0 \/ Meets(out', {StatReq(s)})
    BY <1>4, <2>2 DEF MirrorInv, AskedInv, Grows, Values, Asks
  <2> QED
    BY <1>1, <2>1, <2>2 DEF AskedInv
<1>9. SystemFresh'
  <2> SUFFICES ASSUME ~untold, ~Asked'
               PROVE  Latest(in', SystemMsgs, SystemSays(kaiten.tool, kaiten.process),
                             shown'.tool = kaiten.tool /\ shown'.process = kaiten.process)
    BY <1>1 DEF SystemFresh
  <2>1. ~Asked
    BY <1>4 DEF Grows, Asked
  <2>2. Latest(in, SystemMsgs, SystemSays(kaiten.tool, kaiten.process),
               shown.tool = kaiten.tool /\ shown.process = kaiten.process)
    BY <1>3, <2>1 DEF MirrorInv, Fresh, SystemFresh
  <2>3. m \in SystemSays(kaiten.tool, kaiten.process) =>
            m.tool = kaiten.tool /\ m.process = kaiten.process /\ m.part = "system"
    BY DEF SystemSays
  <2> QED
    BY <1>3, <1>4, <1>a, <2>2, <2>3 DEF Latest, Values
<1>10. MaterialsFresh'
  <2> SUFFICES ASSUME NEW s \in Slots, ~Meets(out', {CfgReq})
               PROVE  Latest(in', MaterialMsgs(s), MaterialsSay(s, kaiten.tool[s]),
                             kaiten.tool[s] # 0 => materials'[s] = kaiten.tool[s])
    BY <1>1 DEF MaterialsFresh
  <2>1. Latest(in, MaterialMsgs(s), MaterialsSay(s, kaiten.tool[s]),
               kaiten.tool[s] # 0 => materials[s] = kaiten.tool[s])
    BY <1>3, <1>4 DEF MirrorInv, Fresh, MaterialsFresh, Grows
  <2>2. m \in MaterialMsgs(s) <=> m.part = "configs" \/ (m.part = "extruder" /\ m.slot = s)
    <3>1. m.part = "extruder" /\ m.slot = s => m \in MaterialMsgs(s)
      <4>1. m.part = "extruder" =>
               m \in [part : {"extruder", "stats"}, slot : Slots, fitted : 0..2]
        BY <1>3, <1>5 DEF InMsgs, SystemMsgs, ConfigsMsgs, PartNames
      <4> QED
        BY <4>1 DEF MaterialMsgs
    <3>2. m.part = "configs" => m \in MaterialMsgs(s)
      BY <1>a DEF MaterialMsgs
    <3> QED
      BY <3>1, <3>2, MsgParts
  <2>3. m \in MaterialsSay(s, kaiten.tool[s]) =>
            /\ m \in MaterialMsgs(s)
            /\ m.part = "configs" => m.tool[s] = kaiten.tool[s]
            /\ m.part = "extruder" => m.fitted = kaiten.tool[s]
    BY MsgValues
  <2> QED
    BY <1>3, <1>4, <2>1, <2>2, <2>3 DEF Latest, Values
<1>11. \A s \in Slots : Gone(s) =>
          Gone(s)' \/ (m.part = "system" /\ shown.tool[s] = 0 /\ m.tool[s] # 0)
  <2> SUFFICES ASSUME NEW s \in Slots, Gone(s), ~Gone(s)'
               PROVE  m.part = "system" /\ shown.tool[s] = 0 /\ m.tool[s] # 0
    OBVIOUS
  <2>1. m \in Lacks(s) <=> m \in SystemMsgs /\ m.tool[s] = 0
    BY MsgParts
  <2> QED
    BY <1>3, <1>4, <1>a, <2>1 DEF Gone, Values
<1>12. ConfigsFresh'
  <2> SUFFICES ASSUME "swap" \notin faults, \A s \in Slots : kaiten.tool[s] # 0,
                      ~Meets(out', {CfgReq}), \A s \in Slots : ~Gone(s)'
               PROVE  Latest(in', ConfigsMsgs, ConfigsSay(kaiten.tool), configs' = kaiten.tool)
    BY <1>1 DEF ConfigsFresh
  <2>1. ~Meets(out, {CfgReq})
    BY <1>4 DEF Grows
  <2>2. \A s \in Slots : m.part = "system" => m.tool[s] # 0
    BY <1>4 DEF Gone, Values
  <2>3. \A s \in Slots : ~Gone(s)
    BY <1>4, <1>11, <2>2 DEF Asks
  <2>4. Latest(in, ConfigsMsgs, ConfigsSay(kaiten.tool), configs = kaiten.tool)
    BY <1>3, <2>1, <2>3 DEF MirrorInv, Fresh, ConfigsFresh
  <2>5. m \in ConfigsSay(kaiten.tool) => m.tool = kaiten.tool /\ m.part = "configs"
    BY DEF ConfigsSay
  <2> QED
    BY <1>3, <1>4, <1>a, <2>4, <2>5 DEF Latest, Values
<1>13. StatsFresh'
  <2> SUFFICES ASSUME "swap" \notin faults, infoPage, NEW s \in Slots, kaiten.tool[s] # 0,
                      ~Meets(out', {StatReq(s)}), ~Gone(s)'
               PROVE  Latest(in', StatsMsgs(s), StatsSay(s, kaiten.tool[s]),
                             statsReady'[s] /\ stats'[s] = kaiten.tool[s])
    BY <1>1 DEF StatsFresh
  <2>1. ~Meets(out, {StatReq(s)})
    BY <1>4 DEF Grows
  <2>2. m.part = "system" => m.tool[s] # 0
    BY <1>4 DEF Gone, Values
  <2>3. ~Gone(s)
    BY <1>4, <1>11, <2>2 DEF Asks
  <2>4. Latest(in, StatsMsgs(s), StatsSay(s, kaiten.tool[s]),
               statsReady[s] /\ stats[s] = kaiten.tool[s])
    BY <1>3, <2>1, <2>3 DEF MirrorInv, Fresh, StatsFresh
  <2>5. m \in StatsSay(s, kaiten.tool[s]) =>
            m.part = "stats" /\ m.slot = s /\ m.fitted = kaiten.tool[s]
    BY DEF StatsSay
  <2>6. m \in StatsMsgs(s) <=> m.part = "stats" /\ m.slot = s
    <3>1. m.part = "stats" => m \in [part : {"extruder", "stats"}, slot : Slots, fitted : 0..2]
      BY <1>3, <1>5 DEF InMsgs, SystemMsgs, ConfigsMsgs, PartNames
    <3> QED
      BY <3>1 DEF StatsMsgs
  <2>7. \/ m.part = "stats" /\ m.slot = s /\ statsReady'[s]
        \/ ~(m.part = "stats" /\ m.slot = s) /\ (statsReady'[s] <=> statsReady[s])
    BY <1>4, <2>2 DEF Readies
  <2>8. stats'[s] = IF m.part = "stats" /\ m.slot = s THEN m.fitted ELSE stats[s]
    BY <1>4 DEF Values
  <2> QED
    BY <1>3, <2>4, <2>5, <2>6, <2>7, <2>8 DEF Latest
<1>14. PartsFresh'
  <2> SUFFICES ASSUME NEW p \in Parts \ {"firmware", "camera", "cloud"},
                      ~Meets(out', {PartReq(p)}), ~Meets(in', {SetReply(p)})
               PROVE  Latest(in', PartMsgs(p), PartSays(p, kaiten.data[p]),
                             shown'.data[p] = kaiten.data[p])
    BY <1>1 DEF PartsFresh
  <2>1. ~Meets(out, {PartReq(p)}) /\ ~Meets(in, {SetReply(p)})
    BY <1>3, <1>4, MsgParts DEF Grows, Asks
  <2>2. Latest(in, PartMsgs(p), PartSays(p, kaiten.data[p]), shown.data[p] = kaiten.data[p])
    BY <1>3, <2>1 DEF MirrorInv, Fresh, PartsFresh
  <2>3. m \in PartSays(p, kaiten.data[p]) => m.part = p /\ m.value = kaiten.data[p]
    BY DEF PartSays
  <2>4. m \in PartMsgs(p) <=> m.part = p
    <3>1. m.part = p => m \in [part : Parts, value : Int]
      BY <1>3, <1>5 DEF InMsgs, SystemMsgs, ConfigsMsgs, PartNames
    <3> QED
      BY <3>1 DEF PartMsgs
  <2> QED
    BY <1>3, <1>4, <2>2, <2>3, <2>4 DEF Latest, Values
<1> QED
  BY <1>6, <1>7, <1>8, <1>9, <1>10, <1>12, <1>13, <1>14 DEF MirrorInv, Fresh

LEMMA NextMirror == MirrorInv /\ [Next]_vars => MirrorInv'
<1> SUFFICES ASSUME MirrorInv, [Next]_vars PROVE MirrorInv'
  OBVIOUS
<1>1. CASE Receive \/ Connected \/ Disconnected
  BY <1>1, ReceiveKeeps, ConnectedKeeps, DisconnectedKeeps
<1>2. CASE User
  BY <1>2, UserKeeps
<1>3. CASE KaitenReads \/ KaitenNotifies \/ ChangeTool \/ RemoteStart \/ EndProcess \/ AskMaterial
  BY <1>3, KaitenReadsKeeps, KaitenNotifiesKeeps, ChangeToolKeeps, ProcessKeeps, AskMaterialKeeps
<1>4. ASSUME NEW p \in Parts \cap NotifiedParts, ChangePart(p) PROVE MirrorInv'
  BY <1>4, ChangePartKeeps
<1>5. CASE UNCHANGED vars
  <2>1. Grows
    BY <1>5, StayGrows DEF vars
  <2>2. infoPage' \in BOOLEAN /\ (infoPage' => infoPage)
    BY <1>5 DEF vars, pageVars, MirrorInv, Typed
  <2>3. out' = out /\ UNCHANGED <<scenario, link, in, kaitenVars, state, shown, configs,
                                  materials, stats, statsReady>>
    BY <1>5 DEF vars, modelVars
  <2> QED
    BY <2>1, <2>2, <2>3, AsksKeeps
<1> QED
  BY <1>1, <1>2, <1>3, <1>4, <1>5 DEF Next, User

LEMMA MirrorAlways == Spec => []MirrorInv
  BY InitMirror, NextMirror, PTL DEF Spec

\* When nothing is under way, the mirror is as Kaiten is (connected(),
\* sysInfoUpdate(), extrudersConfigsUpdate(), extChangeUpdate()).
THEOREM SettlesOnKaiten == Spec => []FreshWhenQuiet
<1>1. ASSUME MirrorInv PROVE FreshWhenQuiet
  <2> SUFFICES ASSUME Quiet
               PROVE  /\ shown.tool = kaiten.tool /\ shown.process = kaiten.process
                      /\ \A s \in Slots :
                            kaiten.tool[s] # 0 => materials[s] = kaiten.tool[s]
                      /\ "swap" \notin faults /\ Both(Present(kaiten.tool)) =>
                            configs = kaiten.tool
                      /\ \A p \in Parts \ {"firmware", "camera", "cloud"} :
                            shown.data[p] = kaiten.data[p]
    BY DEF FreshWhenQuiet
  <2>1. link /\ ~untold /\ in = <<>> /\ out = <<>>
    BY DEF Quiet
  <2>2. /\ \A M : ~Meets(in, M) /\ ~Meets(out, M)
        /\ \A M, G : ~Ends(in, M, G)
    BY <2>1, Empty DEF Ends
  <2>3. shown.tool = kaiten.tool /\ shown.process = kaiten.process
    BY <1>1, <2>1, <2>2 DEF MirrorInv, Fresh, SystemFresh, Latest, Asked
  <2>4. \A s \in Slots : kaiten.tool[s] # 0 => materials[s] = kaiten.tool[s]
    BY <1>1, <2>1, <2>2 DEF MirrorInv, Fresh, MaterialsFresh, Latest
  <2>6. ASSUME "swap" \notin faults, Both(Present(kaiten.tool)) PROVE configs = kaiten.tool
    <3>1. \A s \in Slots : kaiten.tool[s] # 0
      BY <1>1, <2>6, ModelFacts, PresentFacts
    <3>2. \A s \in Slots : ~Gone(s)
      BY <2>2, <2>3, <3>1 DEF Gone
    <3> QED
      BY <1>1, <2>1, <2>2, <2>6, <3>1, <3>2 DEF MirrorInv, Fresh, ConfigsFresh, Latest
  <2>7. \A p \in Parts \ {"firmware", "camera", "cloud"} : shown.data[p] = kaiten.data[p]
    BY <1>1, <2>1, <2>2 DEF MirrorInv, Fresh, PartsFresh, Latest
  <2> QED
    BY <2>3, <2>4, <2>6, <2>7
<1> QED
  BY <1>1, MirrorAlways, PTL

\* The figures on the page of the extruders are of the tools that are there.
THEOREM StatsSettle == Spec => []StatsAreOfTool
<1>1. ASSUME MirrorInv PROVE StatsAreOfTool
  <2> SUFFICES ASSUME "swap" \notin faults, Quiet, infoPage, NEW s \in Slots, kaiten.tool[s] # 0
               PROVE  statsReady[s] /\ stats[s] = kaiten.tool[s]
    BY DEF StatsAreOfTool
  <2>1. link /\ ~untold /\ in = <<>> /\ out = <<>>
    BY DEF Quiet
  <2>2. /\ \A M : ~Meets(in, M) /\ ~Meets(out, M)
        /\ \A M, G : ~Ends(in, M, G)
    BY <2>1, Empty DEF Ends
  <2>3. shown.tool = kaiten.tool
    BY <1>1, <2>1, <2>2 DEF MirrorInv, Fresh, SystemFresh, Latest, Asked
  <2>4. ~Gone(s)
    BY <2>2, <2>3 DEF Gone
  <2> QED
    BY <1>1, <2>1, <2>2, <2>4 DEF MirrorInv, Fresh, StatsFresh, Latest
<1> QED
  BY <1>1, MirrorAlways, PTL

-----------------------------------------------------------------------------
(* The calls of the user.                                                  *)

StrayCalls(q) == [call : {"process"}, part : {"none"}, arg : Nat \ {q}]
StraySystem(q) == {m \in SystemMsgs : m.process \notin {0, q}}
SystemOf(q) == {m \in SystemMsgs : m.process = q}
Over == SystemOf(0)

\* Kaiten's process is the one that everything under way and the mirror are
\* about; nothing is while a start is under way, which no call comes after.
OneProcess ==
    /\ stray = FALSE
    /\ ~link \/ Asked => kaiten.process = 0
    /\ NoneAfter(out, StartMsgs, MoveMsgs)
    /\ Meets(out, StartMsgs) =>
        /\ kaiten.process = 0 /\ shown.process = 0
        /\ ~Meets(in, StraySystem(0))
    /\ kaiten.process # 0 =>
        /\ shown.process \in {0, kaiten.process}
        /\ ~Meets(out, StrayCalls(kaiten.process))
        /\ ~Meets(in, StraySystem(kaiten.process))

\* A process that is shown is not shown as over before it is; and while a popup
\* asks, which it began to do of a process, nothing starts one.
PopupInv ==
    /\ kaiten.process # 0 =>
        /\ NoneAfter(in, SystemOf(kaiten.process), Over)
        /\ shown.process = kaiten.process => ~Meets(in, Over)
    /\ asking => ~Meets(out, StartMsgs) /\ (shown.process # 0 \/ kaiten.process = 0)

Alone == faults \cap {"remote", "hasty"} = {}

LEMMA MoveFacts ==
    /\ StartMsgs \in SUBSET MoveMsgs
    /\ \A q : StrayCalls(q) \in SUBSET MoveMsgs
    /\ \A q, m : m \in StraySystem(q) => m.part = "system" /\ m.process \notin {0, q}
    /\ \A q, m : m \in StraySystem(q) => m \in StraySystem(0)
    /\ \A q, m : m \in SystemOf(q) => m.part = "system" /\ m.process = q
    /\ \A m : m \in Over => m.part = "system" /\ m.process = 0
    /\ \A q, m : q # 0 /\ m \in SystemOf(q) => m \in StraySystem(0)
  BY DEF StartMsgs, MoveMsgs, StrayCalls, StraySystem, SystemOf, Over, SystemMsgs

LEMMA SubMeets == ASSUME NEW s, NEW M, NEW N, \A m \in M : m \in N
                  PROVE  Meets(s, M) => Meets(s, N)
  BY DEF Meets

LEMMA InitOneProcess == Init /\ Alone => OneProcess /\ PopupInv
<1> SUFFICES ASSUME Init, Alone PROVE OneProcess /\ PopupInv
  OBVIOUS
<1>1. stray = FALSE /\ in = <<>> /\ out = <<>> /\ kaiten.process = 0 /\ asking = FALSE
  BY DEF Init, Alone
<1>2. NoneAfter(out, StartMsgs, MoveMsgs)
  BY <1>1, Empty, NoneAtAll
<1> QED
  BY <1>1, <1>2, Empty DEF OneProcess, Asked, PopupInv

\* Whoever asks for more, or takes what is told, adds no call of this kind.
LEMMA CalmKeeps ==
    ASSUME MirrorInv, OneProcess, PopupInv, Calm, UNCHANGED <<link, kaiten, shown, stray, in>>,
           asking' => asking \/ shown.process # 0
    PROVE  OneProcess' /\ PopupInv'
<1>1. OneProcess'
  BY MoveFacts DEF OneProcess, Calm
<1>2. asking' => ~Meets(out', StartMsgs) /\ (shown.process # 0 \/ kaiten.process = 0)
  BY MoveFacts DEF OneProcess, PopupInv, Calm
<1> QED
  BY <1>1, <1>2 DEF PopupInv

LEMMA LoadFacts == ASSUME MirrorInv PROVE Load(shown.process) => shown.process # 0
  BY MirrorAssumption DEF Load, MirrorInv, Typed

LEMMA UserCalm ==
    ASSUME MirrorInv, OneProcess, PopupInv,
           \/ \E p \in Parts \cap SetParts : Toggle(p) \/ OpenSwitch(p)
           \/ OpenInfoPage \/ CloseInfoPage \/ FreCompletes
           \/ CheckSpoolValidity \/ AnswerMaterial \/ ClosePopup \/ AcknowledgeSpool
    PROVE  OneProcess' /\ PopupInv'
<1>1. Calm
  <2>1. ASSUME NEW p \in Parts \cap SetParts, Toggle(p) \/ OpenSwitch(p) PROVE Calm
    BY <2>1, ToggleKeeps, OpenSwitchKeeps
  <2>2. CASE OpenInfoPage
    BY <2>2, OpenInfoPageKeeps
  <2>3. CASE CloseInfoPage \/ FreCompletes
    BY <2>3, StayGrows DEF CloseInfoPage, FreCompletes
  <2>4. CASE CheckSpoolValidity \/ AnswerMaterial \/ ClosePopup \/ AcknowledgeSpool
    BY <2>4, PopupKeeps
  <2> QED
    BY <2>1, <2>2, <2>3, <2>4
<1>2. UNCHANGED <<link, kaiten, shown, stray, in>>
  BY DEF Toggle, OpenSwitch, OpenInfoPage, CloseInfoPage, FreCompletes, CheckSpoolValidity,
         AnswerMaterial, ClosePopup, AcknowledgeSpool, Acknowledge, kaitenVars, modelVars, pageVars
<1>3. asking' => asking \/ shown.process # 0
  BY LoadFacts DEF Toggle, OpenSwitch, OpenInfoPage, CloseInfoPage, FreCompletes,
         CheckSpoolValidity, AnswerMaterial, ClosePopup, AcknowledgeSpool, WarningCloses, modelVars
<1> QED
  BY <1>1, <1>2, <1>3, CalmKeeps

\* A tap is for the process shown, or starts one when nothing is to be shown.
LEMMA TapCalm ==
    ASSUME MirrorInv, OneProcess, PopupInv, Alone,
           NEW kinds \in SUBSET {"start", "process", "other"}, Tap(kinds)
    PROVE  OneProcess' /\ PopupInv'
<1>p. PopupInv'
  BY DEF Tap, kaitenVars, modelVars, PopupInv
<1>1. PICK kind \in kinds :
        /\ kind = "start" => shown.process = 0 /\ ("hasty" \in faults \/ ~Starting)
        /\ kind = "process" => shown.process # 0
        /\ out' = Append(out, Call(kind, shown.process))
  BY DEF Tap
<1> DEFINE c == Call(kind, shown.process)
<1>a. c \in OutMsgs(Parts)
  BY ModelFacts, Requests
<1>b. c # SysReq /\ c.call = kind /\ c.arg = shown.process
  BY ReqKinds
<1>2. c \in OutMsgs(Parts) /\ c # SysReq /\ c.call = kind /\ c.arg = shown.process
  BY <1>a, <1>b
<1>3. UNCHANGED <<link, kaiten, shown, stray, in>> /\ link
  BY DEF Tap, kaitenVars, modelVars, pageVars, MirrorInv, LinkInv
<1>4. /\ \A M : Meets(out', M) <=> Meets(out, M) \/ c \in M
      /\ NoneAfter(out, StartMsgs, MoveMsgs) /\ (c \notin MoveMsgs \/ ~Meets(out, StartMsgs)) =>
            NoneAfter(out', StartMsgs, MoveMsgs)
  BY <1>1, <1>2, ModelFacts, Appending
<1>5. /\ c \in StartMsgs => kind = "start"
      /\ c \in MoveMsgs => kind \in {"start", "process"}
      /\ \A q : c \in StrayCalls(q) => kind = "process" /\ c.arg # q
  BY <1>2 DEF StartMsgs, MoveMsgs, StrayCalls
<1> HIDE DEF c
<1>6. Asked' => Asked
  BY <1>2, <1>4 DEF Asked
<1>7. CASE kind = "start"
  <2>1. /\ shown.process = 0 /\ ~untold
        /\ \A i \in DOMAIN out : out[i].call # "start"
        /\ \A i \in DOMAIN in : in[i].part # "system"
    BY <1>1, <1>7 DEF Starting, Alone
  <2>2. ~Meets(out, StartMsgs) /\ ~Meets(in, StraySystem(0))
    BY <2>1, MoveFacts DEF Meets, StartMsgs
  <2>3. kaiten.process = 0
    <3>1. CASE Asked
      BY <3>1 DEF OneProcess
    <3>2. CASE ~Asked
      <4>1. ~Ends(in, SystemMsgs, SystemSays(kaiten.tool, kaiten.process))
        BY <2>1 DEF Ends, SystemSays
      <4> QED
        BY <1>3, <2>1, <3>2, <4>1 DEF MirrorInv, Fresh, SystemFresh, Latest
    <3> QED
      BY <3>1, <3>2
  <2> QED
    BY <1>p, <1>3, <1>4, <1>6, <2>1, <2>2, <2>3 DEF OneProcess
<1>8. CASE kind = "process"
  <2>1. shown.process # 0 /\ ~Meets(out, StartMsgs)
    BY <1>1, <1>8 DEF OneProcess
  <2>2. kaiten.process # 0 => c \notin StrayCalls(kaiten.process)
    BY <1>2, <1>5, <2>1 DEF OneProcess
  <2> QED
    BY <1>p, <1>3, <1>4, <1>5, <1>6, <1>8, <2>1, <2>2 DEF OneProcess
<1>9. CASE kind = "other"
  BY <1>p, <1>3, <1>4, <1>5, <1>6, <1>9 DEF OneProcess
<1> QED
  BY <1>7, <1>8, <1>9

\* The call that ends a load is for the process shown, or none runs.
LEMMA CancelCalm ==
    ASSUME MirrorInv, OneProcess, PopupInv, CancelLoad
    PROVE  OneProcess' /\ PopupInv'
<1> DEFINE c == Call("process", shown.process)
<1>1. c \in OutMsgs(Parts)
  BY ModelFacts, Requests
<1>2. c # SysReq /\ c.call = "process" /\ c.arg = shown.process
  BY ReqKinds
<1>3. /\ UNCHANGED <<link, kaiten, shown, stray, in>>
      /\ asking /\ asking' = FALSE
      /\ out' = IF link THEN Append(out, c) ELSE out
  BY DEF CancelLoad, kaitenVars, pageVars
<1>4. ~Meets(out, StartMsgs) /\ (shown.process # 0 \/ kaiten.process = 0)
  BY <1>3 DEF PopupInv
<1>5. c \notin StartMsgs /\ \A q : c \in StrayCalls(q) => shown.process # q
  BY <1>2 DEF StartMsgs, StrayCalls
<1> HIDE DEF c
<1>p. PopupInv'
  BY <1>3 DEF PopupInv
<1>6. CASE ~link
  BY <1>3, <1>6, <1>p, StayGrows, CalmKeeps
<1>7. CASE link
  <2>1. /\ \A M : Meets(out', M) <=> Meets(out, M) \/ c \in M
        /\ NoneAfter(out, StartMsgs, MoveMsgs) => NoneAfter(out', StartMsgs, MoveMsgs)
    BY <1>1, <1>3, <1>4, <1>7, ModelFacts, Appending
  <2>2. ~Meets(out', StartMsgs) /\ (Asked' => Asked)
    BY <1>2, <1>4, <1>5, <2>1 DEF Asked
  <2>3. kaiten.process # 0 => c \notin StrayCalls(kaiten.process)
    BY <1>4, <1>5 DEF OneProcess
  <2> QED
    BY <1>3, <1>7, <1>p, <2>1, <2>2, <2>3 DEF OneProcess
<1> QED
  BY <1>6, <1>7

LEMMA ReceiveCalm ==
    ASSUME MirrorInv, OneProcess, PopupInv, Receive
    PROVE  OneProcess' /\ PopupInv'
<1> DEFINE m == Head(in)
<1>1. link' = link /\ kaiten' = kaiten /\ stray' = stray
  BY DEF Receive, kaitenVars
<1>2. Takes(m) /\ Values(m) /\ Calm
  BY ReceiveFacts DEF Mirrors
<1> HIDE DEF m
<1>3. m \in InMsgs(Parts) /\ \A M : Meets(in, M) <=> m \in M \/ Meets(in', M)
  BY <1>2, TakesFacts
<1>4. m.part = "system" => m \in SystemMsgs
  BY <1>3, InKinds, ModelFacts DEF PartNames
<1>5. \A q : m \in SystemMsgs /\ m \notin StraySystem(q) => m.process \in {0, q}
  BY DEF StraySystem
<1>6. OneProcess'
  BY <1>1, <1>2, <1>3, <1>4, <1>5, MoveFacts DEF OneProcess, Calm, Values
<1>7. shown'.process = shown.process \/ (m \in SystemOf(shown'.process))
  BY <1>2, <1>4 DEF Values, SystemOf
<1>8. asking' => asking
  BY DEF Receive, WarningCloses
<1>9. ASSUME kaiten.process # 0
      PROVE  /\ NoneAfter(in', SystemOf(kaiten.process), Over)
             /\ shown'.process = kaiten.process => ~Meets(in', Over)
  <2>1. in # <<>> /\ in \in Seq(InMsgs(Parts)) /\ m = Head(in) /\ in' = Tail(in)
    BY <1>2, ModelFacts DEF Takes
  <2>2. NoneAfter(in, SystemOf(kaiten.process), Over)
    BY <1>9 DEF PopupInv
  <2>3. /\ NoneAfter(in', SystemOf(kaiten.process), Over)
        /\ m \in SystemOf(kaiten.process) => ~Meets(in', Over)
    BY <2>1, <2>2, Taking
  <2> QED
    BY <1>3, <1>7, <1>9, <2>3 DEF PopupInv
<1>10. ASSUME asking'
       PROVE  ~Meets(out', StartMsgs) /\ (shown'.process # 0 \/ kaiten.process = 0)
  <2>1. ~Meets(out', StartMsgs)
    BY <1>2, <1>8, <1>10, MoveFacts DEF Calm, PopupInv
  <2>2. ASSUME shown'.process = 0, kaiten.process # 0 PROVE FALSE
    <3>1. shown.process = kaiten.process
      BY <1>8, <1>10, <2>2 DEF OneProcess, PopupInv
    <3>2. m \in Over
      BY <1>7, <2>2, <3>1 DEF Over
    <3> QED
      BY <1>3, <2>2, <3>1, <3>2 DEF PopupInv
  <2> QED
    BY <2>1, <2>2
<1> QED
  BY <1>1, <1>6, <1>9, <1>10 DEF PopupInv

LEMMA ConnectedCalm ==
    ASSUME MirrorInv, OneProcess, Connected
    PROVE  OneProcess' /\ PopupInv'
<1>1. kaiten' = kaiten /\ stray' = stray /\ kaiten.process = 0
  BY DEF Connected, kaitenVars, OneProcess
<1>2. ~Meets(out', MoveMsgs)
  <2>1. /\ SysReq \notin MoveMsgs /\ CfgReq \notin MoveMsgs
        /\ \A p : PartReq(p) \notin MoveMsgs /\ StatReq(p) \notin MoveMsgs
    BY ReqKinds DEF MoveMsgs
  <2> QED
    BY <2>1, ConnectedFacts, ConnectsFacts
<1>3. ~Meets(out', StartMsgs)
  BY <1>2, MoveFacts, SubMeets
<1> QED
  BY <1>1, <1>2, <1>3, NoneAtAll DEF OneProcess, PopupInv

LEMMA DisconnectedCalm ==
    ASSUME MirrorInv, OneProcess, Disconnected
    PROVE  OneProcess' /\ PopupInv'
<1>1. out' = <<>> /\ stray' = stray
  BY DEF Disconnected, pageVars
<1>2. kaiten'.process = 0
  BY DEF Disconnected, MirrorInv, Typed, KaitenTyped
<1> QED
  BY <1>1, <1>2, Empty, NoneAtAll DEF OneProcess, PopupInv

\* What Kaiten tells of no process, or of its own, is never astray.
LEMMA SayCalm ==
    ASSUME MirrorInv, NEW m \in InMsgs(Parts), Say(m)
    PROVE  \A M : m \notin M => (Meets(in', M) => Meets(in, M))
<1>1. CASE link
  BY <1>1, SayFacts DEF Kept
<1>2. CASE ~link
  BY <1>2 DEF Say
<1> QED
  BY <1>1, <1>2

\* Kaiten never says that its process is over while it runs.
LEMMA SayPopup ==
    ASSUME MirrorInv, PopupInv, NEW m \in InMsgs(Parts), Say(m),
           m \in Over => kaiten.process = 0, kaiten'.process = kaiten.process,
           UNCHANGED <<shown, asking>>, Meets(out', StartMsgs) => Meets(out, StartMsgs)
    PROVE  PopupInv'
<1>1. CASE kaiten.process = 0
  BY <1>1 DEF PopupInv
<1>2. CASE kaiten.process # 0
  <2>1. m \notin Over /\ (Meets(in', Over) => Meets(in, Over))
    BY <1>2, SayCalm
  <2>2. NoneAfter(in', SystemOf(kaiten.process), Over)
    <3>1. CASE link
      BY <1>2, <2>1, <3>1, ModelFacts, Appending DEF Say, PopupInv
    <3>2. CASE ~link
      BY <1>2, <3>2 DEF Say, PopupInv
    <3> QED
      BY <3>1, <3>2
  <2> QED
    BY <1>2, <2>1, <2>2 DEF PopupInv
<1> QED
  BY <1>1, <1>2

LEMMA SilencePopup ==
    ASSUME PopupInv, UNCHANGED <<in, shown, asking>>, kaiten'.process \in {0, kaiten.process},
           Meets(out', StartMsgs) => Meets(out, StartMsgs)
    PROVE  PopupInv'
  BY DEF PopupInv

LEMMA KaitenCalm ==
    ASSUME MirrorInv, OneProcess, PopupInv, Alone,
           \/ KaitenNotifies \/ ChangeTool \/ RemoteStart \/ EndProcess \/ AskMaterial
           \/ \E p \in Parts \cap NotifiedParts : ChangePart(p)
    PROVE  OneProcess' /\ PopupInv'
<1>a. asking' = asking
  BY DEF KaitenNotifies, ChangeTool, RemoteStart, EndProcess, AskMaterial, ChangePart, modelVars
<1>1. CASE KaitenNotifies
  <2>1. System \in InMsgs(Parts) /\ System.process = kaiten.process
    BY ModelFacts DEF System, InMsgs, SystemMsgs
  <2>2. /\ link' = link /\ out' = out /\ kaiten' = kaiten /\ shown' = shown /\ stray' = stray
        /\ Say(System)
    BY <1>1 DEF KaitenNotifies, modelVars, pageVars
  <2>3. /\ System \notin StraySystem(kaiten.process)
        /\ kaiten.process = 0 => System \notin StraySystem(0)
        /\ System \in Over => kaiten.process = 0
    BY <2>1, MoveFacts
  <2>4. PopupInv'
    BY <1>a, <2>1, <2>2, <2>3, SayPopup
  <2> QED
    BY <2>1, <2>2, <2>3, <2>4, SayCalm DEF OneProcess, Asked
<1>2. ASSUME NEW m \in InMsgs(Parts), m.part # "system", Say(m),
             link' = link, out' = out, shown' = shown, stray' = stray,
             kaiten'.process = kaiten.process
      PROVE  OneProcess' /\ PopupInv'
  <2>1. m \notin Over /\ \A q : m \notin StraySystem(q)
    BY <1>2, MoveFacts
  <2>2. PopupInv'
    BY <1>2, <1>a, <2>1, SayPopup
  <2> QED
    BY <1>2, <2>1, <2>2, SayCalm DEF OneProcess, Asked
<1>3. CASE ChangeTool
  <2>1. PICK s \in Slots, t \in 0..2 :
          /\ kaiten' = [kaiten EXCEPT !.tool[s] = t]
          /\ Say([part |-> "extruder", slot |-> s, fitted |-> t])
    BY <1>3 DEF ChangeTool
  <2>2. /\ [part |-> "extruder", slot |-> s, fitted |-> t] \in InMsgs(Parts)
        /\ kaiten'.process = kaiten.process
    BY <2>1 DEF InMsgs, MirrorInv, Typed, KaitenTyped
  <2>3. link' = link /\ out' = out /\ shown' = shown /\ stray' = stray
    BY <1>3 DEF ChangeTool, modelVars, pageVars
  <2> QED
    BY <1>2, <2>1, <2>2, <2>3
<1>4. CASE RemoteStart
  BY <1>4 DEF RemoteStart, Alone
<1>5. CASE EndProcess
  <2>1. /\ link' = link /\ out' = out /\ in' = in /\ shown' = shown /\ stray' = stray
        /\ kaiten'.process = 0
    BY <1>5 DEF EndProcess, modelVars, pageVars, MirrorInv, Typed, KaitenTyped
  <2>2. PopupInv'
    BY <1>a, <2>1, SilencePopup
  <2> QED
    BY <2>1, <2>2 DEF OneProcess, Asked
<1>6. CASE AskMaterial
  <2>1. /\ [part |-> "warning"] \in InMsgs(Parts) /\ Say([part |-> "warning"])
        /\ kaiten'.process = kaiten.process
    BY <1>6 DEF AskMaterial, InMsgs, MirrorInv, Typed, KaitenTyped
  <2>2. link' = link /\ out' = out /\ shown' = shown /\ stray' = stray
    BY <1>6 DEF AskMaterial, modelVars, pageVars
  <2> QED
    BY <1>2, <2>1, <2>2
<1>7. ASSUME NEW p \in Parts \cap NotifiedParts, ChangePart(p) PROVE OneProcess' /\ PopupInv'
  <2> DEFINE m == [part |-> p, value |-> kaiten.data[p] + 1]
  <2>a. m \in InMsgs(Parts) /\ m.part = p
    BY ModelFacts DEF InMsgs
  <2>2. /\ Say(m) /\ kaiten'.process = kaiten.process
        /\ link' = link /\ out' = out /\ shown' = shown /\ stray' = stray
    BY <1>7 DEF ChangePart, MirrorInv, Typed, KaitenTyped, modelVars, pageVars
  <2> HIDE DEF m
  <2>b. p # "system"
    BY ModelFacts DEF PartNames
  <2>1. m \in InMsgs(Parts) /\ m.part # "system"
    BY <2>a, <2>b
  <2> QED
    BY <1>2, <2>1, <2>2
<1> QED
  BY <1>1, <1>3, <1>4, <1>5, <1>6, <1>7

\* What Kaiten reads is done with, and starts or ends nothing else.
LEMMA ReadCalm ==
    ASSUME MirrorInv, OneProcess, NEW c, Reads(c), link' = link, shown' = shown, stray' = stray,
           kaiten'.process \in {0, kaiten.process},
           Meets(in', StraySystem(kaiten.process)) => Meets(in, StraySystem(kaiten.process))
    PROVE  OneProcess'
<1>1. /\ link /\ ~Asked'
      /\ \A M : Meets(out', M) => Meets(out, M)
  BY ReadsFacts DEF Asked
<1>2. NoneAfter(out', StartMsgs, MoveMsgs)
  BY ModelFacts, Taking DEF Reads, OneProcess
<1> QED
  BY <1>1, <1>2 DEF OneProcess

LEMMA KaitenReadsCalm ==
    ASSUME MirrorInv, OneProcess, PopupInv, KaitenReads
    PROVE  OneProcess' /\ PopupInv'
<1> DEFINE c == Head(out)
<1>1. Reads(c)
  BY DEF Reads, KaitenReads
<1>2. link' = link /\ shown' = shown /\ asking' = asking
  BY DEF KaitenReads, modelVars
<1>a. Meets(out', StartMsgs) => Meets(out, StartMsgs)
  BY <1>1, ReadsFacts
<1>3. c \in OutMsgs(Parts) /\ link
  BY <1>1, ReadsFacts
<1>4. c.call \in {"get_system_information", "get_extruders_configs", "get_tool_stats",
                  "acknowledge_material", "get", "set", "start", "process", "other"}
  BY <1>3, OutKinds
<1>5. \/ Say(System) /\ UNCHANGED <<kaitenVars, stray>>
      \/ Say([part |-> "configs", tool |-> kaiten.tool]) /\ UNCHANGED <<kaitenVars, stray>>
      \/ /\ c.call = "get_tool_stats"
         /\ Say([part |-> "stats", slot |-> c.arg, fitted |-> kaiten.tool[c.arg]])
         /\ UNCHANGED <<kaitenVars, stray>>
      \/ c.call = "get" /\ Say(Told(c.part)) /\ UNCHANGED <<kaitenVars, stray>>
      \/ /\ c.call = "set"
         /\ kaiten' = [kaiten EXCEPT !.data[c.part] = c.arg]
         /\ Say([part |-> "set", of |-> c.part]) /\ UNCHANGED stray
      \/ kaiten' = [kaiten EXCEPT !.waits = FALSE] /\ UNCHANGED <<in, stray>>
      \/ /\ c.call = "start" /\ kaiten.process = 0
         /\ kaiten' = [kaiten EXCEPT !.process = kaiten.last + 1, !.last = @ + 1]
         /\ UNCHANGED <<in, stray>>
      \/ /\ c.call = "process" /\ UNCHANGED in
         /\ stray' = (stray \/ kaiten.process \notin {0, c.arg})
         /\ kaiten' = kaiten \/ kaiten' = [kaiten EXCEPT !.process = 0, !.waits = FALSE]
      \/ UNCHANGED <<in, kaitenVars, stray>>
  BY <1>4 DEF KaitenReads, kaitenVars
<1> HIDE DEF c
<1>6. ASSUME NEW m \in InMsgs(Parts), m \notin StraySystem(kaiten.process), Say(m),
             m \in Over => kaiten.process = 0, kaiten'.process = kaiten.process, stray' = stray
      PROVE  OneProcess' /\ PopupInv'
  <2>1. OneProcess'
    BY <1>1, <1>2, <1>6, SayCalm, ReadCalm
  <2>2. PopupInv'
    BY <1>2, <1>a, <1>6, SayPopup
  <2> QED
    BY <2>1, <2>2
<1>7. ASSUME in' = in, kaiten'.process \in {0, kaiten.process}, stray' = stray
      PROVE  OneProcess' /\ PopupInv'
  <2>1. OneProcess'
    BY <1>1, <1>2, <1>7, ReadCalm
  <2>2. PopupInv'
    BY <1>2, <1>a, <1>7, SilencePopup
  <2> QED
    BY <2>1, <2>2
<1>8. CASE Say(System) /\ UNCHANGED <<kaitenVars, stray>>
  <2>1. System \in InMsgs(Parts) /\ System.process = kaiten.process
    BY ModelFacts DEF System, InMsgs, SystemMsgs
  <2>2. System \notin StraySystem(kaiten.process) /\ (System \in Over => kaiten.process = 0)
    BY <2>1, MoveFacts
  <2> QED
    BY <1>6, <1>8, <2>1, <2>2 DEF kaitenVars
<1>9. ASSUME NEW m \in InMsgs(Parts), m.part # "system", Say(m),
             kaiten'.process = kaiten.process, stray' = stray
      PROVE  OneProcess' /\ PopupInv'
  <2>1. m \notin Over /\ m \notin StraySystem(kaiten.process)
    BY <1>9, MoveFacts
  <2> QED
    BY <1>6, <1>9, <2>1
<1>10. CASE Say([part |-> "configs", tool |-> kaiten.tool]) /\ UNCHANGED <<kaitenVars, stray>>
  <2>1. [part |-> "configs", tool |-> kaiten.tool] \in InMsgs(Parts)
    BY ModelFacts DEF InMsgs, ConfigsMsgs
  <2> QED
    BY <1>9, <1>10, <2>1 DEF kaitenVars
<1>11. CASE /\ c.call = "get_tool_stats"
            /\ Say([part |-> "stats", slot |-> c.arg, fitted |-> kaiten.tool[c.arg]])
            /\ UNCHANGED <<kaitenVars, stray>>
  <2>1. c.arg \in Slots /\ kaiten.tool[c.arg] \in 0..2
    BY <1>3, <1>11, OutKinds, ModelFacts DEF Tools
  <2>2. [part |-> "stats", slot |-> c.arg, fitted |-> kaiten.tool[c.arg]] \in InMsgs(Parts)
    BY <2>1 DEF InMsgs
  <2> QED
    BY <1>9, <1>11, <2>2 DEF kaitenVars
<1>12. CASE c.call = "get" /\ Say(Told(c.part)) /\ UNCHANGED <<kaitenVars, stray>>
  <2> DEFINE m == Told(c.part)
  <2>1. c.part \in Parts /\ kaiten.data[c.part] \in Int
    BY <1>3, <1>12, OutKinds, ModelFacts
  <2>2. m \in InMsgs(Parts) /\ m.part = c.part
    BY <2>1 DEF InMsgs, Told
  <2>3. Say(m) /\ kaiten'.process = kaiten.process /\ stray' = stray
    BY <1>12 DEF kaitenVars
  <2> HIDE DEF m
  <2>4. c.part # "system"
    BY <2>1, ModelFacts DEF PartNames
  <2> QED
    BY <1>9, <2>2, <2>3, <2>4
<1>13. CASE /\ c.call = "set"
            /\ kaiten' = [kaiten EXCEPT !.data[c.part] = c.arg]
            /\ Say([part |-> "set", of |-> c.part]) /\ UNCHANGED stray
  <2>1. c.part \in Parts \cap SetParts
    BY <1>3, <1>13, OutKinds
  <2>2. [part |-> "set", of |-> c.part] \in InMsgs(Parts)
    BY <2>1 DEF InMsgs
  <2>3. kaiten'.process = kaiten.process
    BY <1>13 DEF MirrorInv, Typed, KaitenTyped
  <2> QED
    BY <1>9, <1>13, <2>2, <2>3
<1>14. CASE kaiten' = [kaiten EXCEPT !.waits = FALSE] /\ UNCHANGED <<in, stray>>
  <2>1. kaiten'.process = kaiten.process
    BY <1>14 DEF MirrorInv, Typed, KaitenTyped
  <2> QED
    BY <1>7, <1>14, <2>1
<1>15. CASE /\ c.call = "start" /\ kaiten.process = 0
            /\ kaiten' = [kaiten EXCEPT !.process = kaiten.last + 1, !.last = @ + 1]
            /\ UNCHANGED <<in, stray>>
  <2> DEFINE q == kaiten'.process
  <2>1. c \in StartMsgs
    <3>1. c.call = "start" =>
             c \in [call : {"start", "process", "other"}, part : {"none"}, arg : Nat]
      BY <1>3 DEF OutMsgs, SysReq, CfgReq, Call
    <3> QED
      BY <1>15, <3>1 DEF StartMsgs
  <2>2. out # <<>> /\ out \in Seq(OutMsgs(Parts)) /\ c = Head(out) /\ out' = Tail(out)
    BY <1>1, ModelFacts DEF Reads
  <2>3. Meets(out, StartMsgs) /\ ~Meets(out', MoveMsgs)
    BY <2>1, <2>2, Taking DEF OneProcess
  <2>4. ~Meets(out', StartMsgs) /\ ~Meets(out', StrayCalls(q))
    BY <2>3, MoveFacts, SubMeets
  <2>5. shown.process = 0 /\ ~Meets(in, StraySystem(0))
    BY <2>3 DEF OneProcess
  <2>6. ~Meets(in, StraySystem(q))
    BY <2>5, MoveFacts, SubMeets
  <2>7. ~Asked' /\ link'
    BY <1>1, <1>2, <1>3, ReadsFacts DEF Asked
  <2>8. NoneAfter(out', StartMsgs, MoveMsgs) /\ stray' = FALSE /\ in' = in
    BY <1>15, <2>3, NoneAtAll DEF OneProcess
  <2>a. PopupInv'
    <3>1. asking' = FALSE \/ ~asking'
      BY <1>2, <2>3 DEF PopupInv
    <3>2. q # 0 => ~Meets(in', SystemOf(q)) /\ shown'.process # q
      BY <1>2, <2>5, <2>8, MoveFacts, SubMeets
    <3>3. q # 0 => NoneAfter(in', SystemOf(q), Over)
      BY <3>2 DEF Meets, NoneAfter
    <3> QED
      BY <3>1, <3>2, <3>3 DEF PopupInv, q
  <2> HIDE DEF q
  <2>9. /\ stray' = FALSE
        /\ ~link' \/ Asked' => q = 0
        /\ NoneAfter(out', StartMsgs, MoveMsgs) /\ ~Meets(out', StartMsgs)
        /\ shown'.process \in {0, q}
        /\ ~Meets(out', StrayCalls(q)) /\ ~Meets(in', StraySystem(q))
    BY <1>2, <2>4, <2>5, <2>6, <2>7, <2>8
  <2> QED
    BY <2>9, <2>a DEF OneProcess, q
<1>16. CASE /\ c.call = "process" /\ UNCHANGED in
            /\ stray' = (stray \/ kaiten.process \notin {0, c.arg})
            /\ kaiten' = kaiten \/ kaiten' = [kaiten EXCEPT !.process = 0, !.waits = FALSE]
  <2>1. c \in [call : {"process"}, part : {"none"}, arg : Nat]
    <3>1. c.call = "process" =>
             c \in [call : {"start", "process", "other"}, part : {"none"}, arg : Nat]
      BY <1>3 DEF OutMsgs, SysReq, CfgReq, Call
    <3> QED
      BY <1>16, <3>1
  <2>2. \A M : c \in M => Meets(out, M)
    BY <1>1, ModelFacts, Taking DEF Reads
  <2>3. kaiten.process # 0 => c \notin StrayCalls(kaiten.process)
    BY <2>2 DEF OneProcess
  <2>4. kaiten.process # 0 => c.arg = kaiten.process
    BY <2>1, <2>3 DEF StrayCalls
  <2>5. stray' = FALSE /\ stray = FALSE
    BY <1>16, <2>4 DEF OneProcess
  <2>6. kaiten'.process \in {0, kaiten.process}
    BY <1>16 DEF MirrorInv, Typed, KaitenTyped
  <2> QED
    BY <1>7, <1>16, <2>5, <2>6
<1>17. CASE UNCHANGED <<in, kaitenVars, stray>>
  BY <1>7, <1>17 DEF kaitenVars
<1> QED
  BY <1>5, <1>8, <1>10, <1>11, <1>12, <1>13, <1>14, <1>15, <1>16, <1>17

LEMMA NextCalm ==
    ASSUME MirrorInv, OneProcess, PopupInv, Alone, [Next]_vars
    PROVE  OneProcess' /\ PopupInv'
<1>1. CASE Receive \/ Connected \/ Disconnected
  BY <1>1, ReceiveCalm, ConnectedCalm, DisconnectedCalm
<1>2. ASSUME NEW table \in CallTables, NEW name \in DOMAIN table, Tap(table[name])
      PROVE  OneProcess' /\ PopupInv'
  BY <1>2, CallKinds, TapCalm
<1>3. ASSUME NEW p \in Parts \cap SetParts, Toggle(p) \/ OpenSwitch(p)
      PROVE  OneProcess' /\ PopupInv'
  BY <1>3, UserCalm
<1>4. CASE \/ OpenInfoPage \/ CloseInfoPage \/ FreCompletes
           \/ CheckSpoolValidity \/ AnswerMaterial \/ ClosePopup \/ AcknowledgeSpool
  BY <1>4, UserCalm
<1>c. CASE CancelLoad
  BY <1>c, CancelCalm
<1>5. CASE KaitenReads
  BY <1>5, KaitenReadsCalm
<1>6. CASE KaitenNotifies \/ ChangeTool \/ RemoteStart \/ EndProcess \/ AskMaterial
  BY <1>6, KaitenCalm
<1>7. ASSUME NEW p \in Parts \cap NotifiedParts, ChangePart(p) PROVE OneProcess' /\ PopupInv'
  BY <1>7, KaitenCalm
<1>8. CASE UNCHANGED vars
  <2>1. out' = out /\ UNCHANGED <<link, kaiten, shown, stray, in, asking>>
    BY <1>8 DEF vars, kaitenVars, modelVars, pageVars
  <2> QED
    BY <2>1, StayGrows, CalmKeeps
<1> QED
  BY <1>1, <1>2, <1>3, <1>4, <1>5, <1>6, <1>7, <1>8, <1>c DEF Next

LEMMA ScenarioStays == [Next]_vars => scenario' = scenario
  BY DEF Next, vars, Receive, Connected, Disconnected, Toggle, OpenSwitch, OpenInfoPage,
         CloseInfoPage, FreCompletes, Tap, CheckSpoolValidity, AnswerMaterial, ClosePopup,
         CancelLoad, AcknowledgeSpool, Acknowledge, KaitenReads, KaitenNotifies, ChangeTool,
         ChangePart, RemoteStart, EndProcess, AskMaterial

\* While only pages start processes, one at a time, a call that names no
\* process reaches the one it was meant for (isProcessRunning()).
THEOREM CallsReach == Spec => []CallsReachTheirProcess
<1>1. Init => MirrorInv /\ (Alone => OneProcess /\ PopupInv)
  BY InitMirror, InitOneProcess
<1>2. ASSUME MirrorInv, Alone => OneProcess /\ PopupInv, [Next]_vars
      PROVE  MirrorInv' /\ (Alone => OneProcess /\ PopupInv)'
  <2>1. Alone' => Alone
    BY <1>2, ScenarioStays DEF Alone, faults
  <2> QED
    BY <1>2, <2>1, NextMirror, NextCalm
<1>3. ASSUME MirrorInv, Alone => OneProcess /\ PopupInv PROVE CallsReachTheirProcess
  BY <1>3 DEF CallsReachTheirProcess, Alone, OneProcess
<1> QED
  BY <1>1, <1>2, <1>3, PTL DEF Spec

-----------------------------------------------------------------------------
(* The question of a load.                                                 *)

WarningMsgs == [part : {"warning"}]

\* Kaiten asks about a process while the UI is there, and what it asks is under
\* way, or known and not to be reset, until the answer is under way.
QuestionInv ==
    kaiten.waits =>
        /\ link /\ kaiten.process # 0
        /\ \/ Meets(out, {Call("acknowledge_material", 0)})
           \/ Latest(in, Over \cup WarningMsgs, WarningMsgs, spoolValidityCheckPending)

LEMMA InitQuestion == Init => QuestionInv
  BY DEF Init, QuestionInv

\* Whatever is sent, the question stays as it is.
LEMMA SendQuestion ==
    ASSUME MirrorInv, QuestionInv, Grows,
           UNCHANGED <<link, in, kaiten, spoolValidityCheckPending>>
    PROVE  QuestionInv'
  BY DEF QuestionInv, Grows, Latest

LEMMA AcknowledgeQuestion == ASSUME MirrorInv, QuestionInv, Acknowledge PROVE QuestionInv'
<1>1. Call("acknowledge_material", 0) \in OutMsgs(Parts)
  BY Requests
<1>2. ASSUME link PROVE Meets(out', {Call("acknowledge_material", 0)})
  <2>1. out' = Append(out, Call("acknowledge_material", 0))
    BY <1>2 DEF Acknowledge
  <2> QED
    BY <1>1, <2>1, ModelFacts, Appending
<1> QED
  BY <1>2 DEF QuestionInv, Acknowledge, kaitenVars

LEMMA ReceiveQuestion == ASSUME MirrorInv, QuestionInv, Receive PROVE QuestionInv'
<1> DEFINE m == Head(in)
           M == Over \cup WarningMsgs
<1>1. Takes(m) /\ Grows
  BY ReceiveFacts DEF Mirrors
<1>2. link' = link /\ kaiten' = kaiten
  BY DEF Receive, kaitenVars
<1>3. /\ m.part = "system" => spoolValidityCheckPending' =
                                  (spoolValidityCheckPending /\ m.process # 0)
      /\ m.part = "warning" => spoolValidityCheckPending' = TRUE
      /\ m.part \notin {"system", "warning"} =>
            spoolValidityCheckPending' = spoolValidityCheckPending
  BY DEF Receive, SysInfoUpdate, ExtrudersConfigsUpdate, ExtChangeUpdate, ToolStatsUpdate,
         UnknownMatWarningUpdate, SetUpdate, PartUpdate
<1> HIDE DEF m
<1>4. /\ m \in InMsgs(Parts)
      /\ \A N : Meets(in, N) <=> m \in N \/ Meets(in', N)
      /\ \A N, G : Ends(in, N, G) => Ends(in', N, G) \/ (m \in G /\ ~Meets(in', N))
  BY <1>1, TakesFacts
<1>5. /\ m.part = "system" /\ m.process = 0 => m \in Over
      /\ m \in WarningMsgs => m.part = "warning"
  BY <1>4, InKinds, ModelFacts DEF PartNames, Over, SystemOf, WarningMsgs
<1>6. ASSUME Latest(in, M, WarningMsgs, spoolValidityCheckPending)
      PROVE  Latest(in', M, WarningMsgs, spoolValidityCheckPending')
  <2>1. CASE Ends(in, M, WarningMsgs)
    BY <1>3, <1>4, <1>5, <2>1 DEF Latest
  <2>2. CASE spoolValidityCheckPending /\ ~Meets(in, M)
    <3>1. m \notin M /\ ~Meets(in', M)
      BY <1>4, <2>2
    <3>2. spoolValidityCheckPending'
      BY <1>3, <1>5, <2>2, <3>1
    <3> QED
      BY <3>1, <3>2 DEF Latest
  <2> QED
    BY <1>6, <2>1, <2>2 DEF Latest
<1> QED
  BY <1>1, <1>2, <1>6 DEF QuestionInv, Grows

\* Kaiten says nothing that resets the question while it waits.
LEMMA SayQuestion ==
    ASSUME MirrorInv, QuestionInv, NEW m \in InMsgs(Parts), Say(m),
           m \in Over => kaiten.process = 0, m.part # "warning",
           kaiten'.process = kaiten.process, kaiten'.waits => kaiten.waits,
           KeptCall(Call("acknowledge_material", 0)),
           UNCHANGED <<link, spoolValidityCheckPending>>
    PROVE  QuestionInv'
<1> SUFFICES ASSUME kaiten'.waits
             PROVE  /\ link /\ kaiten.process # 0
                    /\ \/ Meets(out', {Call("acknowledge_material", 0)})
                       \/ Latest(in', Over \cup WarningMsgs, WarningMsgs,
                                 spoolValidityCheckPending)
  BY DEF QuestionInv
<1>1. link /\ kaiten.process # 0
  BY DEF QuestionInv
<1>2. m \notin Over \cup WarningMsgs
  BY <1>1 DEF WarningMsgs
<1>3. Kept(Over \cup WarningMsgs)
  BY <1>1, <1>2, SayFacts
<1> QED
  BY <1>1, <1>3 DEF QuestionInv, Kept, KeptCall, Latest

LEMMA SilenceQuestion ==
    ASSUME QuestionInv, UNCHANGED <<link, in, spoolValidityCheckPending>>,
           kaiten'.waits => kaiten.waits /\ kaiten'.process = kaiten.process,
           KeptCall(Call("acknowledge_material", 0)) \/ ~kaiten'.waits
    PROVE  QuestionInv'
  BY DEF QuestionInv, KeptCall

LEMMA ReadsQuestion == ASSUME MirrorInv, QuestionInv, KaitenReads PROVE QuestionInv'
<1> DEFINE c == Head(out)
           ack == Call("acknowledge_material", 0)
<1>1. Reads(c)
  BY DEF Reads, KaitenReads
<1>2. link' = link /\ spoolValidityCheckPending' = spoolValidityCheckPending
  BY DEF KaitenReads, modelVars
<1>3. c \in OutMsgs(Parts) /\ link
  BY <1>1, ReadsFacts
<1>4. c.call \in {"get_system_information", "get_extruders_configs", "get_tool_stats",
                  "acknowledge_material", "get", "set", "start", "process", "other"}
  BY <1>3, OutKinds
<1>5. c.call # "acknowledge_material" => KeptCall(ack)
  <2>1. ack.call = "acknowledge_material"
    BY ReqKinds
  <2>2. c.call # "acknowledge_material" => c # ack
    BY <2>1
  <2> QED
    BY <1>1, <2>2, ModelFacts, Taking DEF Reads, KeptCall
<1>6. \/ c.call = "get_system_information" /\ Say(System) /\ kaiten' = kaiten
      \/ /\ c.call = "get_extruders_configs"
         /\ Say([part |-> "configs", tool |-> kaiten.tool]) /\ kaiten' = kaiten
      \/ /\ c.call = "get_tool_stats" /\ kaiten' = kaiten
         /\ Say([part |-> "stats", slot |-> c.arg, fitted |-> kaiten.tool[c.arg]])
      \/ c.call = "get" /\ Say(Told(c.part)) /\ kaiten' = kaiten
      \/ /\ c.call = "set" /\ Say([part |-> "set", of |-> c.part])
         /\ kaiten' = [kaiten EXCEPT !.data[c.part] = c.arg]
      \/ c.call = "acknowledge_material" /\ kaiten' = [kaiten EXCEPT !.waits = FALSE] /\ in' = in
      \/ /\ c.call = "start" /\ kaiten.process = 0 /\ in' = in
         /\ kaiten' = [kaiten EXCEPT !.process = kaiten.last + 1, !.last = @ + 1]
      \/ /\ c.call = "process" /\ in' = in
         /\ kaiten' = kaiten \/ kaiten' = [kaiten EXCEPT !.process = 0, !.waits = FALSE]
      \/ c.call \in {"other", "start"} /\ in' = in /\ kaiten' = kaiten
  BY <1>4 DEF KaitenReads, kaitenVars
<1> HIDE DEF c, ack
<1>7. ASSUME NEW m \in InMsgs(Parts), Say(m), m.part # "warning",
             m.part = "system" => m = System, c.call # "acknowledge_material",
             kaiten'.process = kaiten.process, kaiten'.waits = kaiten.waits
      PROVE  QuestionInv'
  <2>1. m \in Over => kaiten.process = 0
    BY <1>7, MoveFacts DEF System
  <2>2. KeptCall(Call("acknowledge_material", 0))
    BY <1>5, <1>7 DEF ack
  <2> QED
    BY <1>2, <1>7, <2>1, <2>2, SayQuestion
<1>8. CASE c.call = "get_system_information" /\ Say(System) /\ kaiten' = kaiten
  <2>1. System \in InMsgs(Parts) /\ System.part = "system"
    BY ModelFacts DEF System, InMsgs, SystemMsgs
  <2> QED
    BY <1>7, <1>8, <2>1
<1>9. CASE /\ c.call = "get_extruders_configs"
           /\ Say([part |-> "configs", tool |-> kaiten.tool]) /\ kaiten' = kaiten
  <2>1. [part |-> "configs", tool |-> kaiten.tool] \in InMsgs(Parts)
    BY ModelFacts DEF InMsgs, ConfigsMsgs
  <2> QED
    BY <1>7, <1>9, <2>1
<1>10. CASE /\ c.call = "get_tool_stats" /\ kaiten' = kaiten
            /\ Say([part |-> "stats", slot |-> c.arg, fitted |-> kaiten.tool[c.arg]])
  <2>1. c.arg \in Slots /\ kaiten.tool[c.arg] \in 0..2
    BY <1>3, <1>10, OutKinds, ModelFacts DEF Tools
  <2>2. [part |-> "stats", slot |-> c.arg, fitted |-> kaiten.tool[c.arg]] \in InMsgs(Parts)
    BY <2>1 DEF InMsgs
  <2> QED
    BY <1>7, <1>10, <2>2
<1>11. CASE c.call = "get" /\ Say(Told(c.part)) /\ kaiten' = kaiten
  <2> DEFINE m == Told(c.part)
  <2>1. c.part \in Parts /\ kaiten.data[c.part] \in Int
    BY <1>3, <1>11, OutKinds, ModelFacts
  <2>2. m \in InMsgs(Parts) /\ m.part = c.part
    BY <2>1 DEF InMsgs, Told
  <2> HIDE DEF m
  <2>3. c.part \notin {"system", "warning"}
    BY <2>1, ModelFacts DEF PartNames
  <2>4. Say(m)
    BY <1>11 DEF m
  <2> QED
    BY <1>7, <1>11, <2>2, <2>3, <2>4
<1>12. CASE /\ c.call = "set" /\ Say([part |-> "set", of |-> c.part])
            /\ kaiten' = [kaiten EXCEPT !.data[c.part] = c.arg]
  <2>1. [part |-> "set", of |-> c.part] \in InMsgs(Parts)
    BY <1>3, <1>12, OutKinds DEF InMsgs
  <2>2. kaiten'.process = kaiten.process /\ kaiten'.waits = kaiten.waits
    BY <1>12 DEF MirrorInv, Typed, KaitenTyped
  <2> QED
    BY <1>7, <1>12, <2>1, <2>2
<1>13. CASE /\ c.call = "acknowledge_material" /\ kaiten' = [kaiten EXCEPT !.waits = FALSE]
            /\ in' = in
  <2>1. ~kaiten'.waits
    BY <1>13 DEF MirrorInv, Typed, KaitenTyped
  <2> QED
    BY <2>1 DEF QuestionInv
<1>14. CASE /\ c.call = "start" /\ kaiten.process = 0 /\ in' = in
            /\ kaiten' = [kaiten EXCEPT !.process = kaiten.last + 1, !.last = @ + 1]
  <2>1. kaiten'.waits = kaiten.waits /\ ~kaiten.waits
    BY <1>14 DEF MirrorInv, Typed, KaitenTyped, QuestionInv
  <2> QED
    BY <2>1 DEF QuestionInv
<1>15. CASE kaiten' = kaiten /\ in' = in /\ c.call # "acknowledge_material"
  BY <1>2, <1>5, <1>15, SilenceQuestion DEF ack
<1>16. CASE kaiten' = [kaiten EXCEPT !.process = 0, !.waits = FALSE]
  <2>1. ~kaiten'.waits
    BY <1>16 DEF MirrorInv, Typed, KaitenTyped
  <2> QED
    BY <2>1 DEF QuestionInv
<1> QED
  BY <1>6, <1>8, <1>9, <1>10, <1>11, <1>12, <1>13, <1>14, <1>15, <1>16

LEMMA KaitenQuestion ==
    ASSUME MirrorInv, QuestionInv,
           \/ KaitenNotifies \/ ChangeTool \/ RemoteStart \/ EndProcess \/ AskMaterial
           \/ \E p \in Parts \cap NotifiedParts : ChangePart(p)
    PROVE  QuestionInv'
<1>1. /\ link' = link /\ out' = out /\ spoolValidityCheckPending' = spoolValidityCheckPending
      /\ KeptCall(Call("acknowledge_material", 0))
  BY StayCalls DEF KaitenNotifies, ChangeTool, RemoteStart, EndProcess, AskMaterial, ChangePart,
     modelVars
<1>2. CASE KaitenNotifies
  <2>1. System \in InMsgs(Parts) /\ System.part = "system" /\ System.process = kaiten.process
    BY ModelFacts DEF System, InMsgs, SystemMsgs
  <2>2. System \in Over => kaiten.process = 0
    BY <2>1, MoveFacts
  <2>3. Say(System) /\ kaiten' = kaiten
    BY <1>2 DEF KaitenNotifies
  <2> QED
    BY <1>1, <2>1, <2>2, <2>3, SayQuestion
<1>3. ASSUME NEW m \in InMsgs(Parts), m.part \notin {"system", "warning"}, Say(m),
             kaiten'.process = kaiten.process, kaiten'.waits = kaiten.waits
      PROVE  QuestionInv'
  BY <1>1, <1>3, SayQuestion, MoveFacts
<1>4. CASE ChangeTool
  <2>1. PICK s \in Slots, t \in 0..2 :
          /\ kaiten' = [kaiten EXCEPT !.tool[s] = t]
          /\ Say([part |-> "extruder", slot |-> s, fitted |-> t])
    BY <1>4 DEF ChangeTool
  <2>2. /\ [part |-> "extruder", slot |-> s, fitted |-> t] \in InMsgs(Parts)
        /\ kaiten'.process = kaiten.process /\ kaiten'.waits = kaiten.waits
    BY <2>1 DEF InMsgs, MirrorInv, Typed, KaitenTyped
  <2> QED
    BY <1>3, <2>1, <2>2
<1>5. CASE RemoteStart
  <2>1. kaiten.process = 0 /\ kaiten'.waits = kaiten.waits
    BY <1>5 DEF RemoteStart, MirrorInv, Typed, KaitenTyped
  <2> QED
    BY <2>1 DEF QuestionInv
<1>6. CASE EndProcess
  <2>1. ~kaiten'.waits
    BY <1>6 DEF EndProcess, MirrorInv, Typed, KaitenTyped
  <2> QED
    BY <2>1 DEF QuestionInv
<1>7. CASE AskMaterial
  <2>1. /\ [part |-> "warning"] \in InMsgs(Parts) /\ Say([part |-> "warning"])
        /\ [part |-> "warning"] \in WarningMsgs /\ link /\ kaiten.process # 0
        /\ kaiten'.process = kaiten.process
    BY <1>7 DEF AskMaterial, InMsgs, WarningMsgs, MirrorInv, Typed, KaitenTyped
  <2>2. Ends(in', Over \cup WarningMsgs, WarningMsgs)
    BY <2>1, SayFacts
  <2> QED
    BY <1>1, <2>1, <2>2 DEF QuestionInv, Latest
<1>8. ASSUME NEW p \in Parts \cap NotifiedParts, ChangePart(p) PROVE QuestionInv'
  <2> DEFINE m == [part |-> p, value |-> kaiten.data[p] + 1]
  <2>1. m \in InMsgs(Parts) /\ m.part = p
    BY ModelFacts DEF InMsgs
  <2>2. Say(m) /\ kaiten'.process = kaiten.process /\ kaiten'.waits = kaiten.waits
    BY <1>8 DEF ChangePart, MirrorInv, Typed, KaitenTyped
  <2> HIDE DEF m
  <2>3. p \notin {"system", "warning"}
    BY ModelFacts DEF PartNames
  <2> QED
    BY <1>3, <2>1, <2>2, <2>3
<1> QED
  BY <1>2, <1>4, <1>5, <1>6, <1>7, <1>8

LEMMA UserQuestion == ASSUME MirrorInv, QuestionInv, User PROVE QuestionInv'
<1>1. CASE Acknowledge
  BY <1>1, AcknowledgeQuestion
<1>2. ASSUME Grows, UNCHANGED <<link, in, kaiten, spoolValidityCheckPending>> PROVE QuestionInv'
  BY <1>2, SendQuestion
<1>3. ASSUME UNCHANGED <<link, in, kaiten, spoolValidityCheckPending>>,
             KeptCall(Call("acknowledge_material", 0))
      PROVE  QuestionInv'
  BY <1>3 DEF QuestionInv, KeptCall
<1>4. ASSUME NEW c \in OutMsgs(Parts), out' = Append(out, c)
      PROVE  KeptCall(Call("acknowledge_material", 0))
  BY <1>4, ModelFacts, Appending DEF KeptCall
<1>5. ASSUME NEW more \in Seq(OutMsgs(Parts)), out' = out \o more
      PROVE  KeptCall(Call("acknowledge_material", 0))
  BY <1>5, ModelFacts, Joining DEF KeptCall
<1>6. ASSUME NEW p \in Parts \cap SetParts, Toggle(p) PROVE QuestionInv'
  <2>1. [call |-> "set", part |-> p, arg |-> 1 - shown.data[p]] \in OutMsgs(Parts)
    BY ModelFacts, Requests
  <2> QED
    BY <1>3, <1>4, <1>6, <2>1 DEF Toggle, kaitenVars, modelVars
<1>7. ASSUME NEW p \in Parts \cap SetParts, OpenSwitch(p) PROVE QuestionInv'
  <2>1. Get(p) \in Seq(OutMsgs(Parts))
    BY Requests, OfOne DEF Get, PartReq
  <2> QED
    BY <1>3, <1>5, <1>7, <2>1 DEF OpenSwitch, kaitenVars, modelVars
<1>8. CASE OpenInfoPage
  <2> DEFINE some == {s \in Slots : shown.tool[s] # 0}
             half == out \o AskStats(some)
  <2>1. AskStats(some) \in Seq(OutMsgs(Parts)) /\ AskStats(Slots) \in Seq(OutMsgs(Parts))
    <3>1. some \in SUBSET Slots /\ Slots \in SUBSET Slots
      OBVIOUS
    <3> QED
      BY <3>1, AskStatsFacts
  <2>2. half \o AskStats(Slots) = out'
    BY <1>8 DEF OpenInfoPage
  <2> HIDE DEF some
  <2>3. half \in Seq(OutMsgs(Parts)) /\ \A M : Meets(out, M) => Meets(half, M)
    BY <2>1, ModelFacts, Joining
  <2> HIDE DEF half
  <2>4. KeptCall(Call("acknowledge_material", 0))
    BY <2>1, <2>2, <2>3, Joining DEF KeptCall
  <2> QED
    BY <1>3, <1>8, <2>4 DEF OpenInfoPage, kaitenVars, modelVars
<1>9. CASE out' = out /\ UNCHANGED <<link, in, kaiten, spoolValidityCheckPending>>
  BY <1>3, <1>9, StayCalls
<1>10. ASSUME NEW table \in CallTables, NEW name \in DOMAIN table, Tap(table[name])
       PROVE  QuestionInv'
  <2>1. PICK kind \in table[name] : out' = Append(out, Call(kind, shown.process))
    BY <1>10 DEF Tap
  <2>2. Call(kind, shown.process) \in OutMsgs(Parts)
    BY CallKinds, ModelFacts, Requests
  <2> QED
    BY <1>3, <1>4, <1>10, <2>1, <2>2 DEF Tap, kaitenVars, modelVars
<1>11. CASE CancelLoad
  <2>1. Call("process", shown.process) \in OutMsgs(Parts)
    BY ModelFacts, Requests
  <2>2. KeptCall(Call("acknowledge_material", 0))
    BY <1>4, <1>11, <2>1, StayCalls DEF CancelLoad
  <2> QED
    BY <1>3, <1>11, <2>2 DEF CancelLoad, kaitenVars
<1>12. CASE CloseInfoPage \/ FreCompletes
  BY <1>9, <1>12 DEF CloseInfoPage, FreCompletes, kaitenVars, modelVars
<1>13. CASE CheckSpoolValidity \/ AnswerMaterial \/ ClosePopup \/ AcknowledgeSpool
  BY <1>1, <1>9, <1>13 DEF CheckSpoolValidity, AnswerMaterial, ClosePopup, AcknowledgeSpool,
     kaitenVars
<1> QED
  BY <1>6, <1>7, <1>8, <1>10, <1>11, <1>12, <1>13 DEF User

LEMMA NextQuestion == ASSUME MirrorInv, QuestionInv, [Next]_vars PROVE QuestionInv'
<1>1. CASE Receive
  BY <1>1, ReceiveQuestion
<1>2. CASE Connected
  BY <1>2 DEF Connected, QuestionInv, kaitenVars
<1>3. CASE Disconnected
  <2>1. ~kaiten'.waits
    BY <1>3 DEF Disconnected, MirrorInv, Typed, KaitenTyped
  <2> QED
    BY <2>1 DEF QuestionInv
<1>4. CASE User
  BY <1>4, UserQuestion
<1>5. CASE KaitenReads
  BY <1>5, ReadsQuestion
<1>6. CASE \/ KaitenNotifies \/ ChangeTool \/ RemoteStart \/ EndProcess \/ AskMaterial
           \/ \E p \in Parts \cap NotifiedParts : ChangePart(p)
  BY <1>6, KaitenQuestion
<1>7. CASE UNCHANGED vars
  BY <1>7, StayCalls, SilenceQuestion DEF vars, kaitenVars, modelVars
<1> QED
  BY <1>1, <1>2, <1>3, <1>4, <1>5, <1>6, <1>7 DEF Next, User

\* Whatever faults there are, what Kaiten asks about a load is known to the UI
\* once nothing is under way (sysInfoUpdate(), acknowledgeMaterial()).
THEOREM QuestionStays == Spec => []QuestionIsHeld
<1>1. ASSUME QuestionInv PROVE QuestionIsHeld
  <2> SUFFICES ASSUME Quiet, kaiten.waits PROVE spoolValidityCheckPending
    BY DEF QuestionIsHeld
  <2>1. in = <<>> /\ out = <<>>
    BY DEF Quiet
  <2>2. (\A M : ~Meets(out, M)) /\ \A M, G : ~Ends(in, M, G)
    BY <2>1, Empty DEF Ends
  <2> QED
    BY <1>1, <2>2 DEF QuestionInv, Latest
<1> QED
  BY <1>1, InitMirror, InitQuestion, NextMirror, NextQuestion, PTL DEF Spec

-----------------------------------------------------------------------------
(* The notice of the extruders that are missing.                           *)

Missing(present) == {s \in Slots : ~present[s]}
Presents == [Slots -> BOOLEAN]

NoticeInv ==
    /\ freComplete \in BOOLEAN
    /\ "restart" \notin faults =>
        /\ state # "Disconnected"
        /\ state = "Connecting" => notice = {} /\ \A s \in Slots : shown.tool[s] = 0
        /\ state = "Connected" =>
            notice = IF freComplete THEN Missing(Present(shown.tool)) ELSE Slots

LEMMA MissingFacts ==
    ASSUME NEW a \in Presents
    PROVE  Cardinality(Missing(a)) = 1 <=> (a[1] <=> ~a[2])
<1>1. /\ Cardinality({}) = 0 /\ Cardinality({1}) = 1 /\ Cardinality({2}) = 1
      /\ Cardinality({1, 2}) = 2
  <2>1. /\ IsFiniteSet({1}) /\ Cardinality({1}) = 1 /\ Cardinality({2}) = 1
        /\ Cardinality({}) = 0
    BY FS_EmptySet, FS_Singleton
  <2>2. Cardinality({1} \cup {2}) = 2
    BY <2>1, FS_AddElement
  <2>3. {1} \cup {2} = {1, 2}
    OBVIOUS
  <2> QED
    BY <2>1, <2>2, <2>3
<1>2. CASE a[1] /\ a[2]
  <2>1. Missing(a) = {}
    BY <1>2 DEF Missing, Slots
  <2> QED
    BY <1>1, <1>2, <2>1
<1>3. CASE a[1] /\ ~a[2]
  <2>1. Missing(a) = {2}
    BY <1>3 DEF Missing, Slots
  <2> QED
    BY <1>1, <1>3, <2>1
<1>4. CASE ~a[1] /\ a[2]
  <2>1. Missing(a) = {1}
    BY <1>4 DEF Missing, Slots
  <2> QED
    BY <1>1, <1>4, <2>1
<1>5. CASE ~a[1] /\ ~a[2]
  <2>1. Missing(a) = {1, 2}
    BY <1>5 DEF Missing, Slots
  <2> QED
    BY <1>1, <1>5, <2>1
<1> QED
  BY <1>2, <1>3, <1>4, <1>5

\* The notice is replaced when the tools of one slot change.
LEMMA OneChanges ==
    ASSUME NEW a \in Presents, NEW b \in Presents, ~(a[1] <=> b[1]), a[2] <=> b[2]
    PROVE  /\ MaybeNotifyExtruderNotDetected(Missing(a), b) = Missing(b)
           /\ MaybeNotifyExtruderNotDetected(Missing(b), a) = Missing(a)
<1>1. ~(Cardinality(Missing(a)) = 1 /\ Cardinality(Missing(b)) = 1)
  BY MissingFacts
<1> QED
  BY <1>1 DEF MaybeNotifyExtruderNotDetected, Missing

LEMMA OtherChanges ==
    ASSUME NEW a \in Presents, NEW b \in Presents, a[1] <=> b[1], ~(a[2] <=> b[2])
    PROVE  MaybeNotifyExtruderNotDetected(Missing(a), b) = Missing(b)
<1>1. ~(Cardinality(Missing(a)) = 1 /\ Cardinality(Missing(b)) = 1)
  BY MissingFacts
<1> QED
  BY <1>1 DEF MaybeNotifyExtruderNotDetected, Missing

LEMMA NoticesFacts ==
    ASSUME NEW old \in Presents, NEW new \in Presents, freComplete = TRUE,
           notice = Missing(old)
    PROVE  Notices(old, new) = Missing(new)
<1> DEFINE half == [new EXCEPT ![2] = old[2]]
           first == IF new[1] = old[1] THEN notice
                    ELSE MaybeNotifyExtruderNotDetected(notice, half)
<1>1. half \in Presents /\ half[1] = new[1] /\ half[2] = old[2]
  BY DEF Presents, Slots
<1>2. Notices(old, new) =
          IF new[2] = old[2] THEN first ELSE MaybeNotifyExtruderNotDetected(first, new)
  BY DEF Notices
<1> HIDE DEF half
<1>3. first = Missing(half)
  <2>1. CASE new[1] = old[1]
    <3>1. Missing(half) = Missing(old)
      BY <1>1, <2>1 DEF Missing, Slots
    <3> QED
      BY <2>1, <3>1
  <2>2. CASE new[1] # old[1]
    <3>1. ~(old[1] <=> half[1]) /\ (old[2] <=> half[2])
      BY <1>1, <2>2 DEF Presents, Slots
    <3> QED
      BY <1>1, <2>2, <3>1, OneChanges
  <2> QED
    BY <2>1, <2>2
<1> HIDE DEF first
<1>4. CASE new[2] = old[2]
  <2>1. Missing(half) = Missing(new)
    BY <1>1, <1>4 DEF Missing, Slots
  <2> QED
    BY <1>2, <1>3, <1>4, <2>1
<1>5. CASE new[2] # old[2]
  <2>1. (half[1] <=> new[1]) /\ ~(half[2] <=> new[2])
    BY <1>1, <1>5 DEF Presents, Slots
  <2> QED
    BY <1>1, <1>2, <1>3, <1>5, <2>1, OtherChanges
<1> QED
  BY <1>4, <1>5

\* A notice that names every slot, or none before the first, is replaced.
LEMMA FirstNotice ==
    ASSUME NEW a \in Presents, NEW n \in {{}, Slots}
    PROVE  MaybeNotifyExtruderNotDetected(n, a) = Missing(a)
<1>1. Cardinality(n) # 1
  <2>1. Cardinality({}) # 1
    BY FS_EmptySet
  <2>2. Cardinality(Slots) # 1
    <3>1. [s \in Slots |-> FALSE] \in Presents /\ Missing([s \in Slots |-> FALSE]) = Slots
      BY DEF Presents, Missing
    <3> QED
      BY <3>1, MissingFacts DEF Slots
  <2> QED
    BY <2>1, <2>2
<1> QED
  BY <1>1 DEF MaybeNotifyExtruderNotDetected, Missing

LEMMA InitNotice == Init => NoticeInv
<1> SUFFICES ASSUME Init PROVE NoticeInv
  OBVIOUS
<1>1. /\ freComplete \in BOOLEAN /\ state = "Connecting" /\ notice = {}
      /\ shown = [tool |-> [s \in Slots |-> 0], process |-> 0, data |-> [p \in Parts |-> 0]]
  BY DEF Init
<1> QED
  BY <1>1 DEF NoticeInv

LEMMA NextNotice == ASSUME MirrorInv, NoticeInv, [Next]_vars PROVE NoticeInv'
<1>1. faults' = faults
  BY ScenarioStays DEF faults
<1>2. shown.tool \in Tools /\ Present(shown.tool) \in Presents
  BY ModelFacts, PresentFacts DEF Presents
<1>3. CASE Receive
  <2> DEFINE m == Head(in)
  <2>1. Takes(m) /\ Values(m)
    BY <1>3, ReceiveFacts DEF Mirrors
  <2>2. state = "Connected" /\ m \in InMsgs(Parts)
    BY <2>1, TakesFacts DEF MirrorInv, LinkInv
  <2>3. state' = state /\ freComplete' = freComplete
    BY <1>3 DEF Receive
  <2>4. CASE m.part = "system"
    <3>1. m \in SystemMsgs
      BY <2>2, <2>4, InKinds, ModelFacts DEF PartNames
    <3>2. m.tool \in Tools /\ Present(m.tool) \in Presents
      BY <3>1, MsgParts, PresentFacts DEF Presents
    <3>3. shown'.tool = m.tool
      BY <2>1, <2>4 DEF Values
    <3>4. notice' = Notices(Present(shown.tool), Present(m.tool))
      BY <1>3, <2>4 DEF Receive, SysInfoUpdate
    <3>5. Present(shown.tool)' = Present(m.tool)
      BY <3>3 DEF Present
    <3> HIDE DEF m
    <3>6. CASE freComplete = TRUE /\ "restart" \notin faults
      <4>1. notice = Missing(Present(shown.tool))
        BY <2>2, <3>6 DEF NoticeInv
      <4>2. notice' = Missing(Present(m.tool))
        BY <1>2, <3>2, <3>4, <3>6, <4>1, NoticesFacts
      <4>3. Missing(Present(shown.tool))' = Missing(Present(m.tool))
        BY <3>5 DEF Missing
      <4> QED
        BY <1>1, <2>2, <2>3, <3>6, <4>2, <4>3 DEF NoticeInv
    <3>7. CASE freComplete = FALSE /\ "restart" \notin faults
      <4>1. notice' = notice /\ notice = Slots
        BY <2>2, <3>4, <3>7 DEF NoticeInv, Notices
      <4> QED
        BY <1>1, <2>2, <2>3, <3>7, <4>1 DEF NoticeInv
    <3> QED
      BY <1>1, <2>3, <3>6, <3>7 DEF NoticeInv
  <2>5. CASE m.part # "system"
    <3>1. shown'.tool = shown.tool
      BY <2>1, <2>5 DEF Values
    <3>2. notice' = notice
      BY <1>3, <2>5 DEF Receive, ExtrudersConfigsUpdate, ExtChangeUpdate, ToolStatsUpdate,
                        UnknownMatWarningUpdate, SetUpdate, PartUpdate
    <3>3. Missing(Present(shown.tool))' = Missing(Present(shown.tool))
      BY <3>1 DEF Missing, Present
    <3> QED
      BY <1>1, <2>2, <2>3, <3>2, <3>3 DEF NoticeInv
  <2> QED
    BY <2>4, <2>5
<1>4. CASE Connected
  <2>1. /\ state' = "Connected" /\ shown' = shown /\ freComplete' = freComplete
        /\ notice' = MaybeNotifyExtruderNotDetected(notice, Present(shown.tool)) /\ ~link
    BY <1>4 DEF Connected
  <2>2. Missing(Present(shown.tool))' = Missing(Present(shown.tool))
    BY <2>1 DEF Missing, Present
  <2> SUFFICES ASSUME "restart" \notin faults
               PROVE  notice' = IF freComplete THEN Missing(Present(shown.tool)) ELSE Slots
    BY <1>1, <2>1, <2>2 DEF NoticeInv
  <2>3. notice = {} /\ \A s \in Slots : shown.tool[s] = 0
    BY <2>1 DEF NoticeInv, MirrorInv, LinkInv
  <2>4. Missing(Present(shown.tool)) = Slots
    BY <1>2, <2>3, PresentFacts DEF Missing
  <2> QED
    BY <1>2, <2>1, <2>3, <2>4, FirstNotice
<1>5. CASE FreCompletes
  <2>1. /\ state' = state /\ state = "Connected" /\ shown' = shown
        /\ freComplete' = TRUE /\ freComplete # TRUE
        /\ notice' = MaybeNotifyExtruderNotDetected(notice, Present(shown.tool))
    BY <1>5 DEF FreCompletes, modelVars
  <2>2. Missing(Present(shown.tool))' = Missing(Present(shown.tool))
    BY <2>1 DEF Missing, Present
  <2>3. ASSUME "restart" \notin faults PROVE notice' = Missing(Present(shown.tool))
    <3>1. notice = Slots
      BY <2>1, <2>3 DEF NoticeInv
    <3> QED
      BY <1>2, <2>1, <3>1, FirstNotice
  <2> QED
    BY <1>1, <2>1, <2>2, <2>3 DEF NoticeInv
<1>6. CASE Disconnected
  BY <1>1, <1>6 DEF Disconnected, NoticeInv, pageVars
<1>7. ASSUME UNCHANGED <<state, shown, notice, freComplete>> PROVE NoticeInv'
  BY <1>1, <1>7 DEF NoticeInv, Missing, Present
<1>8. CASE \/ \E p \in Parts \cap SetParts : Toggle(p) \/ OpenSwitch(p)
           \/ OpenInfoPage \/ CloseInfoPage \/ CheckSpoolValidity \/ AnswerMaterial
           \/ ClosePopup \/ CancelLoad \/ AcknowledgeSpool
           \/ \E table \in CallTables : \E name \in DOMAIN table : Tap(table[name])
  BY <1>7, <1>8 DEF Toggle, OpenSwitch, OpenInfoPage, CloseInfoPage, CheckSpoolValidity,
     AnswerMaterial, ClosePopup, CancelLoad, AcknowledgeSpool, Acknowledge, Tap, modelVars, pageVars
<1>9. CASE \/ KaitenReads \/ KaitenNotifies \/ ChangeTool \/ RemoteStart \/ EndProcess
           \/ AskMaterial \/ \E p \in Parts \cap NotifiedParts : ChangePart(p)
  BY <1>7, <1>9 DEF KaitenReads, KaitenNotifies, ChangeTool, RemoteStart, EndProcess,
     AskMaterial, ChangePart, modelVars, pageVars
<1>10. CASE UNCHANGED vars
  BY <1>7, <1>10 DEF vars, modelVars, pageVars
<1> QED
  BY <1>3, <1>4, <1>5, <1>6, <1>8, <1>9, <1>10 DEF Next

\* The notice is of the extruders that are missing, as long as Kaiten does
\* not restart (maybeNotifyExtruderNotDetected()).
THEOREM NoticeStaysTrue == Spec => []NoticeIsTrueBarring
<1>1. ASSUME MirrorInv, NoticeInv PROVE NoticeIsTrueBarring
  <2> SUFFICES ASSUME "restart" \notin faults, state = "Connected", freComplete
               PROVE  notice = {s \in Slots : shown.tool[s] = 0}
    BY DEF NoticeIsTrueBarring, NoticeIsTrue
  <2>1. notice = Missing(Present(shown.tool))
    BY <1>1 DEF NoticeInv
  <2> QED
    BY <1>1, <2>1, ModelFacts, PresentFacts DEF Missing
<1> QED
  BY <1>1, InitMirror, InitNotice, NextMirror, NextNotice, PTL DEF Spec

-----------------------------------------------------------------------------
(* The rest of the types.                                                  *)

PageTyped ==
    /\ events \in 0..scenario.events
    /\ untold \in BOOLEAN /\ spoolValidityCheckPending \in BOOLEAN
    /\ checking \in BOOLEAN /\ asking \in BOOLEAN
    /\ freComplete \in BOOLEAN /\ stray \in BOOLEAN /\ notice \subseteq Slots

LEMMA NotifySlots ==
    ASSUME NEW n \in SUBSET Slots, NEW present
    PROVE  MaybeNotifyExtruderNotDetected(n, present) \in SUBSET Slots
  BY DEF MaybeNotifyExtruderNotDetected

LEMMA InitPage == Init => PageTyped
<1> SUFFICES ASSUME Init PROVE PageTyped
  OBVIOUS
<1>1. scenario.events \in Nat /\ events = scenario.events
  BY MirrorAssumption DEF Init
<1>2. /\ untold = FALSE /\ spoolValidityCheckPending = FALSE /\ freComplete \in BOOLEAN
      /\ stray = FALSE /\ notice = {} /\ checking = FALSE /\ asking = FALSE
  BY DEF Init
<1>3. events \in 0..scenario.events
  BY <1>1
<1> QED
  BY <1>2, <1>3 DEF PageTyped

LEMMA PopupTyped ==
    ASSUME PageTyped, [Next]_vars
    PROVE  checking' \in BOOLEAN /\ asking' \in BOOLEAN
<1>1. ASSUME UNCHANGED <<checking, asking>> PROVE checking' \in BOOLEAN /\ asking' \in BOOLEAN
  BY <1>1 DEF PageTyped
<1>2. ASSUME WarningCloses PROVE asking' \in BOOLEAN
  BY <1>2 DEF WarningCloses, PageTyped
<1>3. CASE Receive
  <2>1. checking' = (checking \/ StartsCheck) /\ WarningCloses
    BY <1>3 DEF Receive
  <2>2. checking' \in BOOLEAN
    BY <2>1
  <2> QED
    BY <1>2, <2>1, <2>2
<1>4. CASE CheckSpoolValidity
  <2>1. checking' = FALSE /\ (WarningCloses \/ asking' = (asking \/ Load(shown.process)))
    BY <1>4 DEF CheckSpoolValidity
  <2>2. CASE WarningCloses
    BY <1>2, <2>1, <2>2
  <2>3. CASE asking' = (asking \/ Load(shown.process))
    BY <2>1, <2>3
  <2> QED
    BY <2>1, <2>2, <2>3
<1>5. CASE AcknowledgeSpool
  BY <1>2, <1>5 DEF AcknowledgeSpool, PageTyped
<1>6. CASE AnswerMaterial \/ ClosePopup \/ CancelLoad
  BY <1>6 DEF AnswerMaterial, ClosePopup, CancelLoad, PageTyped
<1>7. CASE \/ Connected \/ Disconnected
           \/ \E p \in Parts \cap SetParts : Toggle(p) \/ OpenSwitch(p)
           \/ OpenInfoPage \/ CloseInfoPage \/ FreCompletes
           \/ \E table \in CallTables : \E name \in DOMAIN table : Tap(table[name])
  BY <1>1, <1>7 DEF Connected, Disconnected, Toggle, OpenSwitch, OpenInfoPage, CloseInfoPage,
     FreCompletes, Tap, modelVars
<1>8. CASE \/ KaitenReads \/ KaitenNotifies \/ ChangeTool \/ RemoteStart \/ EndProcess
           \/ AskMaterial \/ \E p \in Parts \cap NotifiedParts : ChangePart(p)
  BY <1>1, <1>8 DEF KaitenReads, KaitenNotifies, ChangeTool, RemoteStart, EndProcess, AskMaterial,
     ChangePart, modelVars
<1>9. CASE UNCHANGED vars
  BY <1>1, <1>9 DEF vars, modelVars
<1> QED
  BY <1>3, <1>4, <1>5, <1>6, <1>7, <1>8, <1>9 DEF Next

LEMMA NextPage == ASSUME MirrorInv, PageTyped, [Next]_vars PROVE PageTyped'
<1>1. scenario' = scenario /\ scenario.events \in Nat
  BY ScenarioStays, MirrorAssumption DEF MirrorInv, Typed
<1>2. link \in BOOLEAN
  BY DEF MirrorInv, LinkInv
<1>3. events' \in 0..scenario.events /\ checking' \in BOOLEAN /\ asking' \in BOOLEAN
  <2>1. events' = events \/ (events > 0 /\ events' = events - 1)
    BY DEF Next, vars, Event, Receive, Connected, Disconnected, Toggle, OpenSwitch, OpenInfoPage,
       CloseInfoPage, FreCompletes, Tap, CheckSpoolValidity, AnswerMaterial, ClosePopup,
       CancelLoad, AcknowledgeSpool, Acknowledge, KaitenReads, KaitenNotifies, ChangeTool,
       ChangePart, RemoteStart, EndProcess, AskMaterial
  <2>2. checking' \in BOOLEAN /\ asking' \in BOOLEAN
    BY PopupTyped
  <2> QED
    BY <1>1, <2>1, <2>2 DEF PageTyped
<1>4. CASE Receive
  <2>1. spoolValidityCheckPending' \in BOOLEAN
    <3>1. CASE Head(in).part = "system"
      <4>1. spoolValidityCheckPending' =
                (spoolValidityCheckPending /\ Head(in).process # 0)
        BY <1>4, <3>1 DEF Receive, SysInfoUpdate
      <4> QED
        BY <4>1
    <3>2. CASE Head(in).part # "system"
      <4>1. \/ spoolValidityCheckPending' = TRUE
            \/ spoolValidityCheckPending' = spoolValidityCheckPending
        BY <1>4, <3>2 DEF Receive, ExtrudersConfigsUpdate, ExtChangeUpdate, ToolStatsUpdate,
                          UnknownMatWarningUpdate, SetUpdate, PartUpdate
      <4> QED
        BY <4>1 DEF PageTyped
    <3> QED
      BY <3>1, <3>2
  <2>2. notice' \in SUBSET Slots
    <3>1. CASE Head(in).part = "system"
      <4> DEFINE old == Present(shown.tool)
                 new == Present(Head(in).tool)
      <4>1. notice' = Notices(old, new)
        BY <1>4, <3>1 DEF Receive, SysInfoUpdate
      <4> HIDE DEF old, new
      <4>2. notice \in SUBSET Slots
        BY DEF PageTyped
      <4> QED
        BY <4>1, <4>2, NotifySlots DEF Notices
    <3>2. CASE Head(in).part # "system"
      <4>1. notice' = notice
        BY <1>4, <3>2 DEF Receive, ExtrudersConfigsUpdate, ExtChangeUpdate, ToolStatsUpdate,
                          UnknownMatWarningUpdate, SetUpdate, PartUpdate
      <4> QED
        BY <4>1 DEF PageTyped
    <3> QED
      BY <3>1, <3>2
  <2>3. untold' = untold /\ freComplete' = freComplete /\ stray' = stray
    BY <1>4 DEF Receive, kaitenVars
  <2> QED
    BY <1>1, <1>3, <2>1, <2>2, <2>3 DEF PageTyped
<1>5. CASE Connected \/ FreCompletes
  <2>1. /\ notice' = MaybeNotifyExtruderNotDetected(notice, Present(shown.tool))
        /\ untold' = untold /\ spoolValidityCheckPending' = spoolValidityCheckPending
        /\ freComplete' = freComplete \/ freComplete' = TRUE
        /\ stray' = stray
    BY <1>5 DEF Connected, FreCompletes, kaitenVars, modelVars
  <2>2. notice' \in SUBSET Slots
    BY <2>1, NotifySlots DEF PageTyped
  <2> QED
    BY <1>1, <1>3, <2>1, <2>2 DEF PageTyped
<1>6. ASSUME UNCHANGED <<freComplete, notice>>,
             untold' \in {TRUE, FALSE, untold, link},
             spoolValidityCheckPending' \in {FALSE, spoolValidityCheckPending},
             stray' = stray \/ stray' = (stray \/ kaiten.process \notin {0, Head(out).arg})
      PROVE  PageTyped'
  <2>1. stray' \in BOOLEAN
    <3>1. CASE stray' = stray
      BY <3>1 DEF PageTyped
    <3>2. CASE stray' = (stray \/ kaiten.process \notin {0, Head(out).arg})
      BY <3>2
    <3> QED
      BY <1>6, <3>1, <3>2
  <2>2. untold' \in BOOLEAN /\ spoolValidityCheckPending' \in BOOLEAN
    BY <1>2, <1>6 DEF PageTyped
  <2> QED
    BY <1>1, <1>3, <1>6, <2>1, <2>2 DEF PageTyped
<1>7. CASE KaitenReads
  <2>1. UNCHANGED <<freComplete, notice>> /\ spoolValidityCheckPending' = spoolValidityCheckPending
    BY <1>7 DEF KaitenReads, modelVars
  <2>2. untold' \in {TRUE, untold}
    BY <1>7 DEF KaitenReads, kaitenVars
  <2>3. stray' = stray \/ stray' = (stray \/ kaiten.process \notin {0, Head(out).arg})
    BY <1>7 DEF KaitenReads
  <2> QED
    BY <1>6, <2>1, <2>2, <2>3
<1>8. CASE \/ Disconnected \/ KaitenNotifies \/ ChangeTool \/ RemoteStart \/ EndProcess
           \/ AskMaterial \/ \E p \in Parts \cap NotifiedParts : ChangePart(p)
  BY <1>6, <1>8 DEF Disconnected, KaitenNotifies, ChangeTool, RemoteStart, EndProcess, AskMaterial,
     ChangePart, modelVars, pageVars
<1>9. CASE \/ \E p \in Parts \cap SetParts : Toggle(p) \/ OpenSwitch(p)
           \/ OpenInfoPage \/ CloseInfoPage \/ CheckSpoolValidity \/ AnswerMaterial
           \/ ClosePopup \/ CancelLoad \/ AcknowledgeSpool
           \/ \E table \in CallTables : \E name \in DOMAIN table : Tap(table[name])
  BY <1>6, <1>9 DEF Toggle, OpenSwitch, OpenInfoPage, CloseInfoPage, CheckSpoolValidity,
     AnswerMaterial, ClosePopup, CancelLoad, AcknowledgeSpool, Acknowledge, Tap,
     kaitenVars, modelVars, pageVars
<1>10. CASE UNCHANGED vars
  BY <1>6, <1>10 DEF vars, kaitenVars, modelVars, pageVars
<1> QED
  BY <1>4, <1>5, <1>7, <1>8, <1>9, <1>10 DEF Next

\* Every variable of BotMirror has its type, with any number of messages
\* under way.
THEOREM TypeCorrect == Spec => []TypeOK
<1>1. ASSUME MirrorInv, PageTyped PROVE TypeOK
  BY <1>1, ModelFacts DEF TypeOK, PageTyped, MirrorInv, Typed, ModelTyped, LinkInv, Tools
<1> QED
  BY <1>1, InitMirror, InitPage, NextMirror, NextPage, PTL DEF Spec

=============================================================================
