----------------------------- MODULE IdRegistry -----------------------------
(***************************************************************************)
(* What the id ledger promises its users, without files, segments or       *)
(* locks: a registry of ids that only grows, read and published to in      *)
(* single steps.  Publishing is a compare-and-swap on the registry the     *)
(* publisher has read.                                                     *)
(***************************************************************************)
EXTENDS Naturals

CONSTANTS Procs, None

VARIABLES
  registry,  \* owners: which key each id was minted for; bindings: each key's live id
  view       \* the registry a process has read and not yet let go of, or None

vars == <<registry, view>>

Minted(r) == {o[1] : o \in r.owners}
Bound(r)  == {b[1] : b \in r.bindings}

\* A publication mints new ids, above the ones in use, and binds keys.
Extends(old, new) ==
  /\ old.owners \subseteq new.owners
  /\ \A o1, o2 \in new.owners : o1[1] = o2[1] => o1 = o2
  /\ \A n \in Minted(new) \ Minted(old), o \in Minted(old) : n.base = o.base => n.num > o.num
  /\ Bound(old) \subseteq Bound(new)
  /\ \A b1, b2 \in new.bindings : b1[1] = b2[1] => b1 = b2
  /\ \A b \in new.bindings : b[2] \in Minted(new)

Init ==
  /\ registry = [owners |-> {}, bindings |-> {}]
  /\ view = [p \in Procs |-> None]

Read(p) ==
  /\ view[p] = None
  /\ view' = [view EXCEPT ![p] = registry]
  /\ UNCHANGED registry

Publish(p) ==
  /\ view[p] = registry
  /\ Extends(registry, registry')
  /\ view' = [view EXCEPT ![p] = registry']

LetGo(p) ==
  /\ view' = [view EXCEPT ![p] = None]
  /\ UNCHANGED registry

Next == \E p \in Procs : Read(p) \/ Publish(p) \/ LetGo(p)

Spec == Init /\ [][Next]_vars
=============================================================================
