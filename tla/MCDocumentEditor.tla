---------------------------- MODULE MCDocumentEditor ----------------------------
(***************************************************************************)
(* DocumentEditor on small instances.                                      *)
(***************************************************************************)
EXTENDS DocumentEditor
=================================================================================
