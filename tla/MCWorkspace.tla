------------------------------ MODULE MCWorkspace ------------------------------
(* Workspace on small instances.                                            *)
EXTENDS Workspace

CONSTANTS home, other

Documented == AllOrders \ {"composition during the commit of the last one",
                           "invalid link during a composition"}

Hasty == Documented \cup {"composition during the commit of the last one"}
===============================================================================
