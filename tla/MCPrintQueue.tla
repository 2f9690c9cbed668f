---------------------------- MODULE MCPrintQueue ----------------------------
\* Two jobs of the queue and two names for downloads.
EXTENDS PrintQueue

MCJobs == {"a", "b"}
MCScenarios == {{"net", "open"}, {"full"}, {"crash"}, {"net", "print"}}

=============================================================================
