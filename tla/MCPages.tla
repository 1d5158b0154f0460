------------------------------ MODULE MCPages ------------------------------
(***************************************************************************)
(* All twelve pages in one run: Init opens any of them.                    *)
(***************************************************************************)
EXTENDS Pages
=============================================================================
