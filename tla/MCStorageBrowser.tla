-------------------------- MODULE MCStorageBrowser --------------------------
\* A print in the internal storage, a print and a firmware file on the stick.
EXTENDS StorageBrowser

MCHolds == [d \in Dirs |-> IF d.folder = (d.medium = "usb") THEN {"makerbot"}
                           ELSE IF d.medium = "usb" THEN {"zip"} ELSE {}]
MCManifests == {<<7>>, <<7, 9>>}
MCScenarios == {{}, {"full"}, {"late"}, {"print"}, {"notice"}, {"setup"}}

=============================================================================
