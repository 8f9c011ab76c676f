----------------------------- MODULE MCAccounts -----------------------------
(* A small instance of Accounts. *)
EXTENDS Accounts, TLC

CONSTANTS r1, r2

Scenario(slots, ops, faults) == [slots |-> slots, ops |-> ops, faults |-> faults]

(* Sign-up with every failure but a lost reply, and with statements that   *)
(* fail and nothing else; federated sign-in beside the timer, with every   *)
(* failure, beside people who delete accounts, and with the provider       *)
(* changed meanwhile; passwords guessed, of names that are being taken and *)
(* across the timer's pruning; and, one request at a time, accounts locked *)
(* and deleted, and sign-up beside both ways to sign in.                   *)
MCScenarios ==
    {Scenario({r1, r2}, {"sign_up", "invites"}, FaultKinds \ {"lost_reply"}),
     Scenario({r1, r2}, {"sign_up", "invites"}, {"write"}),
     Scenario({r1, r2}, {"oidc", "sweep"}, FaultKinds),
     Scenario({r1, r2}, {"oidc", "sweep", "accounts"}, {}),
     Scenario({r1, r2}, {"oidc", "provider"}, {}),
     Scenario({r1, r2}, {"sign_up", "login"}, {"lookup", "crash"}),
     Scenario({r1, r2}, {"login", "sweep"}, {"crash"}),
     Scenario({r1}, {"sign_up", "login", "accounts"}, {}),
     Scenario({r1}, {"sign_up", "login", "oidc"}, {})}

MCSymmetry == Permutations(Requests) \cup Permutations(Ids)
              \cup Permutations(Flows) \cup Permutations(Bundles)
              \cup Permutations(Names)
=============================================================================
