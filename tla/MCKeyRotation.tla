--------------------------- MODULE MCKeyRotation ---------------------------
(* Small instances of KeyRotation: one vault, to which every attachment    *)
(* belongs.                                                                *)
EXTENDS KeyRotation, TLC

CONSTANTS c1, c2, r1, r2, v1, a1, a2, s0, s1, s2

MCVaultOf == [a \in Attachments |-> v1]

Scenario(clients, requests, rows, secrets, faults) ==
    [clients |-> clients, requests |-> requests, rows |-> rows,
     secrets |-> secrets, faults |-> faults]

(* Two browsers that only sign in, refresh and rotate, with every failure; *)
(* one whose writes run beside its rotation, with every failure; and two,  *)
(* one request at a time, that rotate twice and write in between.          *)
MCScenarios ==
    {Scenario({c1, c2}, {r1, r2}, {}, {s1, s2}, FaultKinds),
     Scenario({c1}, {r1, r2}, {v1, a1, a2}, {s1}, FaultKinds),
     Scenario({c1, c2}, {r1}, {v1, a1}, {s1, s2}, {"db", "crash"})}

(* One browser, no failures, two requests at a time. *)
MCTwoCalm == {Scenario({c1}, {r1, r2}, {v1, a1}, {s1}, {})}

(* Browsers, requests and attachments are interchangeable, and so are the  *)
(* secrets not yet made.                                                   *)
MCSymmetry == Permutations(Clients) \cup Permutations(Requests)
                \cup Permutations(Attachments)
                \cup Permutations(Secrets \ {FirstSecret})
=============================================================================
