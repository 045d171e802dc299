-------------------------- MODULE MCSqlTransactions --------------------------
(* The database has the entry p.  Calls save the entry a, which refers to  *)
(* d and has the element k, and g, which brings the id of a; replace p by  *)
(* b; save cc and h as alternatives of p; and save ee, which refers to a d *)
(* of its own and to a k whose metadata differs from the other's.          *)
EXTENDS SqlTransactions, TLC

CONSTANTS s1, s2, p, a, g, b, cc, h, d, k, kk, ee, i1, i2

Interchangeable == Permutations(Stores)
Plain == {p, b, cc, h, g, d, k}

MCContent == [o \in Objects |-> IF o = kk THEN k ELSE o]
MCMeta == [o \in Objects |-> IF o = kk THEN 2 ELSE 1]
MCRefs == [o \in Objects |-> IF o = a THEN {d} ELSE IF o = ee THEN {d, kk} ELSE {}]
MCItems == [o \in Objects |-> IF o = a THEN {k} ELSE {}]
MCDepth == [o \in Objects \ {kk} |-> IF o \in {a, ee} THEN 2 ELSE 1]
MCPolicy == (d :> "none") @@ (ee :> "by_value") @@ [o \in Objects \ {kk, d, ee} |-> "content_id"]
MCBacking == [o \in {p, a, b, cc, h} |-> 1] @@ (g :> 2)
MCGivenId == [o \in Objects |-> IF o \in {a, g} THEN i2 ELSE IF o = p THEN i1 ELSE None]
MCEarlier ==
  {[sid |-> 1, key |-> [content |-> p, of |-> None, kind |-> None], obj |-> p, refs |-> {}, kids |-> {},
    kin |-> 1, group |-> 1, kind |-> None, id |-> i1, imm |-> <<i1, None, 1>>,
    ts |-> 1, who |-> s1, torn |-> FALSE, by |-> None]}

Save(o) == [do |-> "save", obj |-> o, old |-> o, of |-> None, kind |-> None]
Alternative(o) == [Save(o) EXCEPT !.of = i1, !.kind = "alternative"]
Replace(o) == [Save(o) EXCEPT !.do = "replace", !.old = p]
MCRequests == {Save(a), Save(g), Save(ee), Save(k), Alternative(cc), Alternative(h), Replace(b), Replace(cc)}
=============================================================================
