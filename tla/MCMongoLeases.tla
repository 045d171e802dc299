---------------------------- MODULE MCMongoLeases ----------------------------
(* Instances of MongoLeases: two stores, two saves and two fsck runs, all  *)
(* model values; each configuration chooses which of them take part and    *)
(* which are slow, forced or late.                                         *)
EXTENDS MongoLeases, TLC

CONSTANTS w1, w2, f1, f2, s1, s2

MCWriters == {w1, w2}
MCFscks == {f1, f2}
MCStores == {s1, s2}
=============================================================================
