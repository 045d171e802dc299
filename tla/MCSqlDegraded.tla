---------------------------- MODULE MCSqlDegraded ----------------------------
(* Instances of SqlDegraded: an entry m1 that refers to a dependency a and *)
(* has two child elements, a scalar x and the entry m2 of its own type; in *)
(* the chain, m1 refers to the dependencies a and b of two types, and a to *)
(* b.  Stores and saves are interchangeable.                               *)
EXTENDS SqlDegraded, TLC

CONSTANTS s1, s2, s3, o1, o2, f1, m1, m2, a, b, x, tm, ta, tb

Entries == {m1, m2, a}
EntryType == (m1 :> tm) @@ (m2 :> tm) @@ (a :> ta)
EntryRefs == (m1 :> {a}) @@ (m2 :> {}) @@ (a :> {})
EntryItems == (m1 :> {x, m2}) @@ (m2 :> {}) @@ (a :> {})

Chain == {m1, a, b}
ChainType == (m1 :> tm) @@ (a :> ta) @@ (b :> tb)
ChainRefs == (m1 :> {a, b}) @@ (a :> {b}) @@ (b :> {})
ChainItems == (m1 :> {}) @@ (a :> {}) @@ (b :> {})

Interchangeable == Permutations(Stores) \cup Permutations(Saves)
=============================================================================
