------------------------------ MODULE MCLogSync ------------------------------
(* LogSync with the manager, the benchmark client and one worker.          *)
EXTENDS LogSync

CONSTANTS manager, main, client, worker

MCThread == {manager, main, client, worker}
MCInClient == {main, client}
MCSynced == {manager, main, client}
MCMessage == {"request", "answer"}
=============================================================================
