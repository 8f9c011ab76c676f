-------------------------- MODULE MCBlobMigration --------------------------
(* Small instances of BlobMigration: one older version beside the current. *)
EXTENDS BlobMigration, TLC

CONSTANTS NewIds, r1, lo

MCVersions == LegacyIds \cup NewIds

Scenario(faults) == [requests |-> {r1}, faults |-> faults, limits |-> {2}]

(* One request at a time: without failures, with crashes and lost replies  *)
(* but a store and a database that answer, and with all of it.             *)
MCScenarios ==
    {Scenario({}), Scenario({"crash", "lost_reply"}),
     Scenario({"store", "db", "crash"})}

(* A store without versions, one that kept the older version, and a second *)
(* server beside the one that migrates.                                    *)
MCSites ==
    {[versioned |-> FALSE, replicas |-> FALSE, kept |-> {}],
     [versioned |-> TRUE,  replicas |-> FALSE, kept |-> {lo}],
     [versioned |-> TRUE,  replicas |-> TRUE,  kept |-> {lo}]}
=============================================================================
