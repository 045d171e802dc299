---------------------------- MODULE MCBulkIngest ----------------------------
(* Instances of BulkIngest, for the two runs of a SQL store that an ingest *)
(* is one part of.  Calls save a, which refers to b, and again, with b     *)
(* promoted or with other metadata; h and g, which refer to the same value *)
(* v of a b; p, with an element n of its own, which a populated store has  *)
(* already; and e1 and e2, which bring the same entry id.                  *)
EXTENDS Naturals, TLC

BulkObjects == {"a", "ax", "b", "h", "g", "v", "vv", "p", "n", "e1", "e2", "u"}
BulkContent == [o \in BulkObjects |-> IF o = "ax" THEN "a" ELSE IF o = "vv" THEN "v" ELSE o]
BulkMeta == [o \in BulkObjects |-> IF o = "ax" THEN 2 ELSE 1]
BulkRefs == [o \in BulkObjects |-> CASE o \in {"a", "ax", "v", "vv"} -> {"b"}
                                     [] o = "h" -> {"v"}
                                     [] o = "g" -> {"vv"}
                                     [] OTHER -> {}]
BulkItems == [o \in BulkObjects |-> IF o = "p" THEN {"n"} ELSE {}]
BulkSkips == [o \in BulkObjects |-> IF o = "g" THEN {"b"} ELSE {}]
BulkPolicy == ("n" :> "none") @@ ("v" :> "by_value") @@ [o \in BulkObjects |-> "content_id"]
BulkEntries == {"e1", "e2"}
BulkGivenId(none) == [o \in BulkObjects |-> IF o \in BulkEntries THEN "id" ELSE none]
BulkEarlier ==
  {[sid |-> 1, obj |-> "p", refs |-> {}, skips |-> {}, kids |-> {2}, main |-> FALSE],
   [sid |-> 2, obj |-> "n", refs |-> {}, skips |-> {}, kids |-> {}, main |-> FALSE]}

BulkCall(o, promoted) == [obj |-> o, promote |-> promoted]
BulkCalls == {BulkCall("a", {"b"})} \cup {BulkCall(o, {}) : o \in {"a", "ax", "h", "g", "p", "e1", "e2", "u"}}
FewCalls == {BulkCall("b", {}), BulkCall("u", {})}

Mode(w, finalize, tracked, populated, kind) ==
  [workers |-> w, finalize |-> finalize, tracked |-> tracked, verify |-> TRUE,
   populated |-> populated, engine |-> kind]
BulkModes ==
  {Mode(0, "parity", TRUE, TRUE, "sqlite"), Mode(0, "parity", TRUE, FALSE, "sqlite"),
   Mode(0, "deferred", TRUE, FALSE, "postgresql"),
   Mode(2, "parity", TRUE, FALSE, "sqlite"), Mode(2, "parity", FALSE, FALSE, "postgresql"),
   Mode(2, "deferred", TRUE, FALSE, "sqlite")}
=============================================================================
