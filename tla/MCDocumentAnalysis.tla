------------------------- MODULE MCDocumentAnalysis -------------------------
(***************************************************************************)
(* Small instances of DocumentAnalysis.                                    *)
(***************************************************************************)
EXTENDS DocumentAnalysis

CONSTANTS c1, c2, w1, f1, f2
=============================================================================
