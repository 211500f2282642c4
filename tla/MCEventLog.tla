------------------------------ MODULE MCEventLog ------------------------------
(* Identities of tabs, handlers and answers are interchangeable.            *)
EXTENDS EventLog, TLC

MCSymmetry == Permutations(Clients) \cup Permutations(Sockets) \cup Permutations(ClientEvents)
=============================================================================
