-------------------------------- MODULE MCAnswers --------------------------------
(***************************************************************************)
(* Instances of the order service with a history of what requests wrote.   *)
(***************************************************************************)
EXTENDS OrderAnswers, MCOrders
================================================================================
