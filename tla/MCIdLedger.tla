----------------------------- MODULE MCIdLedger -----------------------------
(* The id schemes callers ask for: a first scheme, the same scheme grown   *)
(* by a family (so that a caller who still passes the first one would      *)
(* remove that family), and one that gives two families the same base.     *)
EXTENDS IdLedger

CONSTANTS f1, f2, b1, b2

MCFamilies  == {f1, f2}
MCBaseNames == {b1, b2}
MCSchemes   == {[f \in {f1} |-> b1],
                [f \in {f1, f2} |-> IF f = f1 THEN b1 ELSE b2],
                [f \in {f1, f2} |-> b1]}
=============================================================================
