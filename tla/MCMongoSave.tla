----------------------------- MODULE MCMongoSave -----------------------------
EXTENDS MongoSave, TLC
CONSTANTS s1, s2, g, h, dd, v, w, u, cg, ch, cd, cv, cu, X
MCStores == {s1, s2}
MCObjects == {g, h, dd, v, w, u}
\* u, g and h are entries; g and h bring the same id; v and w are one value.
MCContent == (g :> cg) @@ (h :> ch) @@ (dd :> cd) @@ (v :> cv) @@ (w :> cv) @@ (u :> cu)
MCRefs == (w :> {dd}) @@ (u :> {dd, w}) @@ [o \in MCObjects |-> {}]
MCListed == (w :> {dd}) @@ [o \in MCObjects |-> {}]
MCPolicy == (cv :> "by_value") @@ [c \in {cg, ch, cd, cu} |-> "content_id"]
MCEntries == {cg, ch, cu}
MCGivenId == (g :> X) @@ (h :> X) @@ [o \in MCObjects |-> None]
MCCalls == MCObjects \ {dd}
MCDeployments == {"standalone", "replica set"}
MCSymmetry == Permutations(MCStores)
=============================================================================
