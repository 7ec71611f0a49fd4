--------------------------- MODULE MCPersistence ---------------------------
(***************************************************************************)
(* Instances of Persistence for TLC.                                       *)
(***************************************************************************)
EXTENDS Persistence, TLC

Careful  == [c \in Clients |-> {}]
Careless == [c \in Clients |-> AllHabits]
=============================================================================
