------------------------------ MODULE MCRender ------------------------------
(* Small instances of Render for TLC.                                      *)
EXTENDS Render
=============================================================================
