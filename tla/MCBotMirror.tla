---------------------------- MODULE MCBotMirror ----------------------------
\* Two to four events at a time beside the traffic, of a few kinds each; the other slot may
\* have its tool before the UI connects.
EXTENDS BotMirror

MCTools == {<<1, 0>>}
Scenario(f, a, n, p) == [faults |-> f, acts |-> a, events |-> n, parts |-> p, loads |-> {}]
Loading(f, n, l) ==
    [faults |-> f, acts |-> {"calls", "material"}, events |-> n, parts |-> {}, loads |-> l]
MCScenarios == {
    Scenario({}, {"tools", "info"}, 2, {}),
    Scenario({"restart"}, {"tools"}, 3, {}),
    Scenario({"restart"}, {"info"}, 2, {}),
    Scenario({"swap"}, {"tools"}, 3, {}),
    Loading({}, 4, {1, 2}),
    Loading({"swap"}, 3, {1, 2}),
    Loading({"early", "back"}, 3, {1}),
    Loading({"remote"}, 2, {1, 2}),
    Scenario({"hasty"}, {"calls"}, 3, {}),
    Scenario({"restart"}, {"parts"}, 3, {"spool"}),
    Scenario({"restart"}, {"parts"}, 3, {"again"}),
    Scenario({"restart"}, {"parts"}, 2, {"net", "firmware", "cloud", "camera"})}

=============================================================================
