--------------------------- MODULE MC_ChatClient ---------------------------
(* Instances of ChatClient for TLC.  The environment may fall silent for     *)
(* good, and every task then waits: the runs do not check for deadlock.      *)
EXTENDS ChatClient
=============================================================================
