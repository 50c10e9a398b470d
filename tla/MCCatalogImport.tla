--------------------------- MODULE MCCatalogImport ---------------------------
EXTENDS CatalogImport

CONSTANTS server, worker, NoNameRow

MCProcesses == {server, worker}
MCWorkers == {worker}
MCJobs == 1 .. 2
MCKeys == MCJobs \X (1 .. MaxFaults + 1) \X (1 .. 2)
MCWatched == {<<1, 1, 2>>}

Row(name, valid) == [name |-> name, valid |-> valid]

\* The first row of a product is invalid, its other row is not.
MCUploads == {"file"}
MCFileOf == [u \in MCUploads |->
    <<Row("shirt", TRUE), Row("mug", FALSE), Row(NoNameRow, TRUE),
      Row("cap", TRUE), Row(NoNameRow, TRUE)>>]

=============================================================================
