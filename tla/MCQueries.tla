-------------------------------- MODULE MCQueries --------------------------------
(***************************************************************************)
(* Instances of the order service with a reader.                           *)
(***************************************************************************)
EXTENDS OrderQueries, MCOrders
================================================================================
