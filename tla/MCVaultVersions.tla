-------------------------- MODULE MCVaultVersions --------------------------
(* Small instances of VaultVersions: Legacy ids are those of the vault an  *)
(* older release left, NewIds those that clients' saves will be given.     *)
EXTENDS VaultVersions, TLC

CONSTANTS NewIds, r1, r2

MCVersions == LegacyIds \cup NewIds

(* Two requests at a time with every failure, and one at a time with both  *)
(* retention settings.                                                     *)
MCScenarios ==
    {[requests |-> {r1, r2}, faults |-> FaultKinds, limits |-> {2}],
     [requests |-> {r1}, faults |-> {"store", "db", "crash"}, limits |-> {1, 2}]}

(* Requests are interchangeable, and so are the ids not yet minted. *)
MCSymmetry == Permutations(Requests) \cup Permutations(NewIds)

(* All that decides what the code does next: the ghost is left out where   *)
(* no property reads it.                                                   *)
MCView == <<scenario, life, row, objects, minted, pending, req, cleanup,
            IF Orderly THEN ghost ELSE <<>> >>
=============================================================================
