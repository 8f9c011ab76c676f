----------------------------- MODULE MCSession -----------------------------
(* Instances of Session for TLC. *)
EXTENDS Session

CONSTANTS ann, bob, m1, m2, t1, t2

MCAccounts == {ann, bob}
MCMethods == {m1, m2}
MCTasks == {t1, t2}

Case(steps, ops) ==
    [steps |-> steps, ops |-> ops, start |-> ann, known |-> MCAccounts,
     ready |-> MCAccounts, patient |-> TRUE, fails |-> FALSE,
     expires |-> FALSE]

(* One account after another, with each way of signing in; a device that   *)
(* is remembered, with calls that fail and answers that are lost; a        *)
(* passphrase changed elsewhere, and here by a session that is behind;     *)
(* tokens that expire; users who do not wait.                              *)
MCScenarios ==
    {[Case(6, {"sign_in", "sign_out", "unlock", "go", "save"}) EXCEPT
         !.expires = TRUE],
     [Case(6, {"oidc", "sign_up", "sign_out", "go", "unlock"}) EXCEPT
         !.ready = {ann}, !.known = {ann}, !.start = None],
     [Case(6, {"unlock", "remember", "reload", "rotate", "sign_out", "sign_in"})
         EXCEPT !.fails = TRUE],
     Case(6, {"unlock", "remember", "reload", "elsewhere", "render", "rotate"}),
     [Case(5, {"unlock", "remember", "reload", "rotate", "render", "save"})
         EXCEPT !.expires = TRUE],
     [Case(5, {"unlock", "remember", "reload", "sign_out", "sign_in", "render"})
         EXCEPT !.patient = FALSE, !.expires = TRUE],
     [Case(5, {"oidc", "unlock", "remember", "sign_out", "rotate", "reload"})
         EXCEPT !.patient = FALSE, !.fails = TRUE]}
=============================================================================
