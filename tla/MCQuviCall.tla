----------------------------- MODULE MCQuviCall -----------------------------
(* Small instances of QuviCall for TLC.                                    *)
EXTENDS QuviCall

\* Every script's file defines a function `parse'.
AllParse == ParseIds
=============================================================================
