--------------------------- MODULE MCProcessModel ---------------------------
\* Up to three processes, two of whose changes may be under way.
EXTENDS ProcessModel

MCScenarios == {{}, {"coalesce"}, {"hasty"}, {"remote"}, {"error"}}

=============================================================================
