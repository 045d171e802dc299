------------------------------ MODULE MCStores ------------------------------
\* Four parts of a store that share no state, each in its own initial states
\* with the others away: opening and upgrading, searching and linking, paging,
\* and the federation of several stores.
EXTENDS StoreOpening, Searching, ResultPages, Federation, TLC
CONSTANTS o1, o2, i1, i2
MCProcs == {o1, o2}
MCIds == {i1, i2}
MCSymmetry == Permutations(MCProcs) \cup Permutations(MCIds)
MCDeployments == {"sqlite", "degraded", "postgresql", "mongo", "clickhouse"}
\* Version 2 adds a table and a field to version 1, version 3 another field; of the
\* two upgrades neither leads to the other.
Table(fields) == [fixed |-> 1, fields |-> fields]
MCSchema == <<("records" :> Table({"name"})),
              ("records" :> Table({"name", "note"})) @@ ("added" :> Table({"name"})),
              ("records" :> Table({"name", "size"}))>>

\* The steps that may fail. Those whose clean-up drops tables that another process
\* may have made anew are left out: "owners" and "stamp" of PostgreSQL, "unfence"
\* of ClickHouse (CleanUpHarmless); "load" fails in LoadShard itself.
MCFaultsAt ==
  [d \in Deployments |->
     CASE d = "sqlite" -> {"meta", "owners", "stamp", "claims", "ownership", "tables", "column", "restamp"}
       [] d = "degraded" -> {"meta", "owners", "protocol", "schemas", "timestamps", "ownership", "profile", "lease", "claims",
                             "tables", "column", "restamp"}
       [] d = "postgresql" -> {"meta", "claims", "ownership", "tables", "column", "restamp"}
       [] d = "mongo" -> {"layout", "owners", "ownership", "claims", "restamp"}
       [] d = "clickhouse" -> {"fence", "meta", "protocol", "schemas", "timestamps", "ownership", "profile", "lease", "claims", "marker",
                               "relations", "project", "verify", "sweep", "clear"}]

\* The rows, links and atoms of the searches.
MCLinkPairs == {<<1, 1>>}
Target(s, l, t, n) == [sid |-> s, lid |-> l, ts |-> t, num |-> n, alt |-> Null]
MCTargets == {Target(1, 1, 1, 1), Target(2, 2, 1, Null), Target(3, 1, 2, 2)}
Source(s, l, t, n, k, r, a, e) == [sid |-> s, lid |-> l, ts |-> t, num |-> n, kids |-> k, ref |-> r, alt |-> a, edges |-> e]
MCSources == {Source(1, 1, 1, 1, {}, Null, Null, {2}), Source(2, 2, 1, Null, {1}, 1, Null, {3}), Source(3, 3, 1, 2, {1, 2}, 2, Null, {}),
              Source(4, 1, 2, Null, {2}, 3, Null, {3}), Source(5, 5, 2, 2, {}, Null, "relaxed", {2, 6}), Source(6, 6, 2, 1, {2}, Null, Null, {2, 3})}
Row(s, l, x, y, d, t) == [sid |-> s, lid |-> l, src |-> x, tgt |-> y, retracted |-> d, ts |-> t]
\* Source 1 is linked, 2 is linked and unlinked, 3 is linked twice.
MCLinked == {Row(1, 1, 1, 1, 0, 1), Row(2, 2, 2, 1, 0, 1), Row(3, 2, 2, 1, 1, 2), Row(4, 4, 3, 1, 0, 1), Row(5, 5, 3, 2, 0, 2),
             Row(6, 6, 3, 1, 0, 2)}
Atom(o, t, S) == [on |-> o, test |-> t, set |-> S]
MCAtoms == {Atom("all", "true", {}), Atom("num", "eq", {1}), Atom("num", "lt", {2}), Atom("num", "null", {}), Atom("num", "in", {1}),
   Atom("num", "in", {Null, 2}), Atom("num", "same", {}), Atom("kids", "eq", {1}), Atom("kids", "ne", {1}), Atom("kids", "any", {2}),
   Atom("kids", "only", {1}), Atom("kids", "only", {}), Atom("kids", "in", {2}), Atom("ref", "null", {}), Atom("ref", "eq", {1}), 
   Atom("refNum", "eq", {1}), Atom("link", "any", {1}), Atom("link", "only", {1}), Atom("linkField", "eq", {2}), Atom("linkField", "ne", {2}),
   Atom("join", "join", {}), Atom("other", "eq", {1}), Atom("edge", "any", {3}), Atom("owner", "only", {2}), Atom("owner", "eq", {1})}
Scope(t, l, m) == [asOf |-> t, latest |-> l, mains |-> m]
MCScopes == {Scope(Null, FALSE, TRUE), Scope(Null, TRUE, FALSE), Scope(1, TRUE, TRUE)}
MCLinkProbes == {Atom("link", "only", {1}), Atom("linkField", "eq", {2})}
MCLinkScopes == {Scope(Null, TRUE, TRUE), Scope(1, TRUE, TRUE)}

\* Rows with missing keys and equal keys, two of them inserted late. The third
\* key is a logical id, which every row has; MongoDB's walks by a key that some
\* rows lack would repeat them without end. The last three requests cannot be
\* paged.
PageRow(s, k) == [sid |-> s, keys |-> k]
MCPageRows == {PageRow(1, <<Missing, 1, 1>>), PageRow(2, <<2, 1, 2>>), PageRow(3, <<1, Missing, 1>>), PageRow(4, <<Missing, 2, 4>>),
               PageRow(5, <<2, 1, 2>>), PageRow(6, <<Missing, 1, 4>>), PageRow(7, <<1, 2, 1>>)}
MCLateRows == {r \in MCPageRows : r.sid \in {5, 6}}
MCOutputs == {[name |-> n, scalar |-> n # "object", managed |-> n = "m", column |-> IF n = "b" THEN 2 ELSE IF n = "m" THEN 3 ELSE 1] :
                n \in {"a", "b", "m", "object"}}
OrderBy(n, d, k) == [name |-> n, descending |-> d, nulls |-> k]
Plans(b, os, c, v) == [backend |-> b, plain |-> TRUE, orders |-> os, candidates |-> c, verified |-> v]
AllSids == 1..7
MCRequests == {Plans("sql", <<OrderBy("a", TRUE, "last"), OrderBy("b", FALSE, "last")>>, AllSids, AllSids),
 Plans("sql", <<OrderBy("m", TRUE, "last"), OrderBy("a", FALSE, "first")>>, AllSids, AllSids),
 Plans("mongo", <<OrderBy("b", FALSE, "first"), OrderBy("a", TRUE, "first")>>, AllSids, {1,2,5,7}),
 Plans("mongo", <<OrderBy("m", FALSE, "last")>>, AllSids, AllSids),
 Plans("mongo", <<>>, AllSids, {3,4,6}),
 Plans("mongo", <<OrderBy("a", TRUE, "last"), OrderBy("a", FALSE, "last")>>, AllSids, AllSids),
 Plans("sql", <<OrderBy("object", TRUE, "last")>>, AllSids, AllSids),
 [Plans("sql", <<>>, AllSids, AllSids) EXCEPT !.plain = FALSE]}

\* Two record classes of a store with a coarse clock, a store with a coarser
\* one under the same prefix, and a store without timestamps.
MCUnion == <<<<1, 2, 0>>, <<>>, <<2, 1, 2>>>>
Stream(s, r, p) == [source |-> s, resolution |-> r, prefix |-> p]
MCStreams == <<Stream(1, 2, 1), Stream(1, 2, 1), Stream(2, 3, 1), Stream(3, Absent, 2)>>
By(n, d) == [name |-> n, descending |-> d]
MCSorts == {<<>>, <<By("key", TRUE)>>, <<By("id", TRUE), By("key", FALSE)>>}
MCEntryKeys == <<{Absent, 2}, {1}, {1}, {1}>>

StoresInit ==
  \/ OpeningInit /\ SearchAway /\ PagesAway /\ FederationAway
  \/ OpeningAway /\ SearchInit /\ PagesAway /\ FederationAway
  \/ OpeningAway /\ SearchAway /\ PagesInit /\ FederationAway
  \/ OpeningAway /\ SearchAway /\ PagesAway /\ FederationInit
StoresNext ==
  \/ OpeningNext /\ UNCHANGED <<searchVars, pageVars, federationVars>>
  \/ /\ deployment = None /\ UNCHANGED openingVars
     /\ \/ SearchNext /\ UNCHANGED <<pageVars, federationVars>>
        \/ PagesNext /\ UNCHANGED <<searchVars, federationVars>>
        \/ FederationNext /\ UNCHANGED <<searchVars, pageVars>>
StoresSpec == StoresInit /\ [][StoresNext]_<<openingVars, searchVars, pageVars, federationVars>>
TypeOK == OpeningTypeOK /\ SearchTypeOK /\ PageTypeOK
=============================================================================
