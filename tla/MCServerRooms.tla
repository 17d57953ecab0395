----------------------------- MODULE MCServerRooms -----------------------------
(* ServerRooms on small instances.                                           *)
EXTENDS ServerRooms
===============================================================================
