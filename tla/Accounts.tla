------------------------------ MODULE Accounts ------------------------------
(***************************************************************************)
(* How accounts of the server come to be and how people get into them:     *)
(* sign-up, with an invite where registration is closed, and sign-in with  *)
(* a password (backend/src/routes/auth_sql.rs, with the throttle of        *)
(* LoginThrottle and the verification budget); federated sign-in and the   *)
(* enrolment that gives its account keys (routes/oidc.rs); the console's   *)
(* part in it (routes/admin.rs) and the timer of main.rs.                  *)
(*                                                                         *)
(* Every statement sent to the database is a step of its own, and so is    *)
(* every call that leaves the thread.  The instance has one identity       *)
(* provider.  A request the address bucket turns away changes nothing but  *)
(* the bucket and is not modelled.                                         *)
(***************************************************************************)
EXTENDS LoginThrottle, FiniteSets

CONSTANTS
    Requests,   \* slots for requests
    Ids,        \* ids accounts may get: bounds how many are ever made
    Names,      \* user names a person may choose
    Subjects,   \* people, as the identity provider names them
    Invites,    \* invites the console may create
    Flows,      \* states of federated sign-ins: bounds how many start
    Bundles,    \* key bundles clients come up with
    Permits,    \* how many verifications the budget lets run at a time
    Scenarios,  \* the kinds of run there are
    None

(* Which operations a behaviour has and what may fail in it.  "lookup": a  *)
(* query fails; "write": an INSERT or UPDATE fails and has no effect;      *)
(* "release": so does the one that gives an invite back; "lost_reply": a   *)
(* statement takes effect and its reply is lost; "crash": a handler's      *)
(* future is dropped at an await.                                          *)
Operations == {"sign_up", "invites", "login", "oidc", "provider", "accounts",
               "sweep"}
FaultKinds == {"lookup", "write", "release", "lost_reply", "crash"}

ASSUME AccountsAssumption ==
    /\ None \notin Names \cup Subjects \cup Invites \cup Ids \cup Bundles
    /\ IsFiniteSet(Requests)
    /\ Permits \in Nat \ {0}
    /\ Scenarios \subseteq [slots  : SUBSET Requests,
                            ops    : SUBSET Operations,
                            faults : SUBSET FaultKinds]

VARIABLES
    scenario, \* what may happen in this behaviour; never changes
    users,    \* the table users: see User
    identity, \* federated_identities: the account of each subject
    invite,   \* registration_invites: see Invite
    open,     \* registration_enabled
    provider, \* the provider's row: "enabled", "disabled" or "gone"
    flows,    \* the sign-ins OidcFlows remembers
    failures, \* the throttle's record of each name
    tokens,   \* the accounts somebody holds an access token of
    req,      \* what each request is doing
    via,      \* ghost: the invite each account was made with
    origin,   \* ghost: the subject each account was made for
    raced,    \* ghost: subjects two of whose first callbacks overlapped
    cut,      \* ghost: the provider was removed at some time
    guesses   \* ghost: wrong passwords judged since a name's record began

store == <<users, identity, invite, open, provider>>
memory == <<flows, failures, tokens>>
ghosts == <<via, origin, raced, cut, guesses>>
vars == <<scenario, store, memory, req, ghosts>>

Faults == scenario.faults

Offered(op) == op \in scenario.ops

(* name is None for the placeholder a shell account has, pending-<id>,     *)
(* which is unique; password is whether auth_hash is set; keys is None     *)
(* while argon2_salt is empty; old is whether created_at is more than      *)
(* UNENROLLED_ACCOUNT_TTL_HOURS ago.                                       *)
User == [row : {"new", "present", "gone"}, name : Names \cup {None},
         password : BOOLEAN, keys : Bundles \cup {None}, locked : BOOLEAN,
         old : BOOLEAN]

NoUser == [row |-> "new", name |-> None, password |-> FALSE, keys |-> None,
           locked |-> FALSE, old |-> FALSE]

(* What register and resolve_account insert. *)
LocalAccount(n, k) == [row |-> "present", name |-> n, password |-> TRUE,
                       keys |-> k, locked |-> FALSE, old |-> FALSE]

NewShell == [NoUser EXCEPT !.row = "present"]

Invite == [row : {"new", "present", "gone"}, used : BOOLEAN,
           expired : BOOLEAN]

NoInvite == [row |-> "new", used |-> FALSE, expired |-> FALSE]

Present(u) == users[u].row = "present"

HasName(u, n) == Present(u) /\ users[u].name = n

Taken(n) == \E u \in Ids : HasName(u, n)

Linked(u) == \E s \in Subjects : identity[s] = u

(* An account of a federated sign-in that has not finished enrolling: what *)
(* purge_unenrolled_accounts tells by its two empty columns.               *)
Shell(u) == Present(u) /\ users[u].keys = None /\ ~users[u].password

Enrolled(u) == Present(u) /\ users[u].keys # None

-----------------------------------------------------------------------------
SignUpPcs == {"reg_lookup", "reg_create", "reg_release"}
Pcs == SignUpPcs \cup {"idle", "log_load", "log_wait", "log_verify", "left",
                       "cb_lookup", "cb_create", "cb_link", "enrol"}

Request == [pc : Pcs, name : Names \cup {None}, user : Ids \cup {None},
            invite : Invites \cup {None}, subject : Subjects \cup {None},
            keys : Bundles \cup {None}, right : BOOLEAN]

Idle == [pc |-> "idle", name |-> None, user |-> None, invite |-> None,
         subject |-> None, keys |-> None, right |-> FALSE]

(* The requests as they begin. *)
SignUp(n, k, i) == [Idle EXCEPT !.pc = "reg_lookup", !.name = n, !.keys = k,
                                !.invite = i]
SignIn(n, right) == [Idle EXCEPT !.pc = "log_load", !.name = n,
                                 !.right = right]
Return(s) == [Idle EXCEPT !.pc = "cb_lookup", !.subject = s]
Enrolment(u, n, k) == [Idle EXCEPT !.pc = "enrol", !.user = u, !.name = n,
                                   !.keys = k]

Doing(r, pc) == req[r].pc = pc

Goto(r, pc) == req' = [req EXCEPT ![r].pc = pc]

(* A request learns which account it is about. *)
GotoWith(r, pc, u) ==
    req' = [req EXCEPT ![r] = [@ EXCEPT !.pc = pc, !.user = u]]

Finish(r) == req' = [req EXCEPT ![r] = Idle]

(* A slot that is idle takes up a request. *)
Start(r, op, q) ==
    /\ Offered(op)
    /\ Doing(r, "idle")
    /\ req' = [req EXCEPT ![r] = q]

(* A query that fails ends the request with nothing changed. *)
LookupFails(r) == "lookup" \in Faults /\ Finish(r)

-----------------------------------------------------------------------------
(* register *)

(* Mutant of the next: the claim does not ask whether the code was used. *)
ClaimableAgain(i) == invite[i].row = "present" /\ ~invite[i].expired

Claimable(i) ==
    invite[i].row = "present" /\ ~invite[i].used /\ ~invite[i].expired

(* register as far as load_user_by_username: where registration is closed, *)
(* claim_registration_invite spends the code in one statement.             *)
Register(r, n, k) ==
    /\ open
    /\ Start(r, "sign_up", SignUp(n, k, None))
    /\ UNCHANGED <<store, memory, ghosts>>

RegisterInvited(r, n, k, i) ==
    /\ ~open
    /\ Claimable(i)
    /\ invite' = [invite EXCEPT ![i].used = TRUE]
    /\ \/ Start(r, "sign_up", SignUp(n, k, i))
       \/ /\ "lost_reply" \in Faults
          /\ Start(r, "sign_up", Idle)
    /\ UNCHANGED <<users, identity, open, provider, memory, ghosts>>

(* Mutant of the next: an error is returned with the invite kept. *)
GiveUpForGood(r) == Finish(r)

(* An error goes through release_invite, which has something to do where   *)
(* an invite was claimed.                                                  *)
GiveUp(r) ==
    IF req[r].invite = None THEN Finish(r) ELSE Goto(r, "reg_release")

(* load_user_by_username.  Its failure is returned by the ? operator and   *)
(* does not pass through release_invite.                                   *)
RegisterLookup(r) ==
    /\ Doing(r, "reg_lookup")
    /\ \/ LookupFails(r)
       \/ Taken(req[r].name) /\ GiveUp(r)
       \/ ~Taken(req[r].name) /\ Goto(r, "reg_create")
    /\ UNCHANGED <<store, memory, ghosts>>

(* INSERT INTO users, whose UNIQUE name and fresh id the database checks. *)
Insert(u, user, i, s) ==
    /\ users[u].row = "new"
    /\ users' = [users EXCEPT ![u] = user]
    /\ via' = [via EXCEPT ![u] = i]
    /\ origin' = [origin EXCEPT ![u] = s]

NoInsert == UNCHANGED <<users, via, origin>>

(* create_user, after hash_auth_token. *)
RegisterCreate(r) ==
    /\ Doing(r, "reg_create")
    /\ \/ /\ ~Taken(req[r].name)
          /\ \E u \in Ids :
               Insert(u, LocalAccount(req[r].name, req[r].keys),
                      req[r].invite, None)
          /\ Finish(r) \/ ("lost_reply" \in Faults /\ GiveUp(r))
       \/ /\ Taken(req[r].name) \/ "write" \in Faults
          /\ NoInsert
          /\ GiveUp(r)
    /\ UNCHANGED <<identity, invite, open, provider, memory, raced, cut,
                   guesses>>

(* release_registration_invite; a failure of it is logged. *)
ReleaseInvite(r) ==
    /\ Doing(r, "reg_release")
    /\ \/ invite' = [invite EXCEPT ![req[r].invite].used = FALSE]
       \/ "release" \in Faults /\ invite' = invite
    /\ Finish(r)
    /\ UNCHANGED <<users, identity, open, provider, memory, ghosts>>

-----------------------------------------------------------------------------
(* login *)

(* lockout_remaining; right is whether the password is the account's. *)
Login(r, n, right) ==
    /\ ~LockedOut(failures[n])
    /\ failures' = [failures EXCEPT ![n] = ClearEnded(@)]
    /\ guesses' = IF failures[n].lock = "over"
                  THEN [guesses EXCEPT ![n] = 0] ELSE guesses
    /\ Start(r, "login", SignIn(n, right))
    /\ UNCHANGED <<store, flows, tokens, via, origin, raced, cut>>

Fail(n) ==
    /\ failures' = [failures EXCEPT ![n] = RecordFailure(@)]
    /\ guesses' = [guesses EXCEPT
                     ![n] = IF failures[n].stale THEN 1 ELSE @ + 1]

NotCounted == UNCHANGED <<failures, guesses>>

(* load_user_by_username and the checks before the hash is compared.  A    *)
(* name nobody has counts as a wrong password.                             *)
LoginLoad(r) ==
    /\ Doing(r, "log_load")
    /\ \/ LookupFails(r) /\ NotCounted
       \/ ~Taken(req[r].name) /\ Fail(req[r].name) /\ Finish(r)
       \/ \E u \in Ids :
            /\ HasName(u, req[r].name)
            /\ IF users[u].locked \/ ~users[u].password
               THEN Finish(r)
               ELSE GotoWith(r, "log_wait", u)
            /\ NotCounted
    /\ UNCHANGED <<store, flows, tokens, via, origin, raced, cut>>

Verifying == {r \in Requests : Doing(r, "log_verify") \/ Doing(r, "left")}

(* VerifyBudget::run takes a permit, or gives up after QUEUE_FOR. *)
TakePermit(r) ==
    /\ Doing(r, "log_wait")
    /\ \/ Cardinality(Verifying) < Permits /\ Goto(r, "log_verify")
       \/ Cardinality(Verifying) >= Permits /\ Finish(r)
    /\ UNCHANGED <<store, memory, ghosts>>

(* The rest of login once verify_auth_token has answered. *)
LoginJudged(r) ==
    /\ Doing(r, "log_verify")
    /\ \/ /\ ~req[r].right
          /\ Fail(req[r].name)
          /\ tokens' = tokens
       \/ /\ req[r].right
          /\ failures' = [failures EXCEPT ![req[r].name] = RecordSuccess(@)]
          /\ guesses' = [guesses EXCEPT ![req[r].name] = 0]
          /\ tokens' = tokens \cup {req[r].user}
    /\ Finish(r)
    /\ UNCHANGED <<store, flows, via, origin, raced, cut>>

(* The thread of a request that was dropped runs on and keeps its permit. *)
LeftEnds(r) ==
    /\ Doing(r, "left")
    /\ Finish(r)
    /\ UNCHANGED <<store, memory, ghosts>>

-----------------------------------------------------------------------------
(* Federated sign-in: start, callback and resolve_account *)

OidcStart(f) ==
    /\ Offered("oidc")
    /\ provider = "enabled"
    /\ flows[f] = "new"
    /\ flows' = [flows EXCEPT ![f] = "pending"]
    /\ UNCHANGED <<store, failures, tokens, req, ghosts>>

(* The provider sends subject s back with flow f.  take removes the flow,  *)
(* whatever becomes of the callback; a flow past FLOW_TTL is refused, and  *)
(* so is a callback while the provider is not enabled or one whose code    *)
(* and ID token do not hold.                                               *)
Callback(r, f, s) ==
    /\ flows[f] \in {"pending", "late"}
    /\ flows' = [flows EXCEPT ![f] = "taken"]
    /\ \/ /\ flows[f] = "pending" /\ provider = "enabled"
          /\ Start(r, "oidc", Return(s))
       \/ Start(r, "oidc", Idle)
    /\ UNCHANGED <<store, failures, tokens, ghosts>>

(* Another first callback of the same subject is past its look-up. *)
Overlaps(r) ==
    \E q \in Requests \ {r} :
        /\ Doing(q, "cb_create") \/ Doing(q, "cb_link")
        /\ req[q].subject = req[r].subject

(* load_user_by_federated_identity and what follows from its answer. *)
CallbackLookup(r) ==
    LET s == req[r].subject
        u == identity[s]
    IN  /\ Doing(r, "cb_lookup")
        /\ \/ /\ LookupFails(r) \/ (u = None /\ ~open /\ Finish(r))
              /\ UNCHANGED <<tokens, raced>>
           \/ /\ u # None
              /\ tokens' = IF users[u].locked THEN tokens ELSE tokens \cup {u}
              /\ Finish(r)
              /\ raced' = raced
           \/ /\ u = None /\ open
              /\ Goto(r, "cb_create")
              /\ raced' = IF Overlaps(r) THEN raced \cup {s} ELSE raced
              /\ tokens' = tokens
        /\ UNCHANGED <<store, flows, failures, via, origin, cut, guesses>>

(* create_user for a shell account. *)
CallbackCreate(r) ==
    /\ Doing(r, "cb_create")
    /\ \/ \E u \in Ids :
            /\ Insert(u, NewShell, None, req[r].subject)
            /\ \/ GotoWith(r, "cb_link", u)
               \/ "lost_reply" \in Faults /\ Finish(r)
       \/ "write" \in Faults /\ NoInsert /\ Finish(r)
    /\ UNCHANGED <<identity, invite, open, provider, memory, raced, cut,
                   guesses>>

(* Mutant of the next: a link that fails is logged, and the callback goes  *)
(* on to sign the account in.                                              *)
CallbackLinkUnchecked(r) ==
    LET u == req[r].user
        s == req[r].subject
    IN  /\ Doing(r, "cb_link")
        /\ \/ /\ Present(u) /\ provider # "gone"
              /\ identity' = IF identity[s] = None
                             THEN [identity EXCEPT ![s] = u] ELSE identity
           \/ /\ "write" \in Faults
              /\ identity' = identity
        /\ tokens' = tokens \cup {u}
        /\ Finish(r)
        /\ UNCHANGED <<users, invite, open, provider, flows, failures, ghosts>>

(* link_federated_identity, ON CONFLICT DO NOTHING.  It fails where one of *)
(* the rows it refers to is gone.  The callback then signs its own account *)
(* in, linked or not.                                                      *)
CallbackLink(r) ==
    LET u == req[r].user
        s == req[r].subject
    IN  /\ Doing(r, "cb_link")
        /\ \/ /\ Present(u) /\ provider # "gone"
              /\ identity' = IF identity[s] = None
                             THEN [identity EXCEPT ![s] = u] ELSE identity
              /\ \/ tokens' = tokens \cup {u}
                 \/ "lost_reply" \in Faults /\ tokens' = tokens
           \/ /\ ~Present(u) \/ provider = "gone" \/ "write" \in Faults
              /\ UNCHANGED <<identity, tokens>>
        /\ Finish(r)
        /\ UNCHANGED <<users, invite, open, provider, flows, failures, ghosts>>

(* enrol, for whoever holds a token: the name must be free when it looks.  *)
Enrol(r, u, n, k) ==
    /\ u \in tokens
    /\ \/ /\ ~Taken(n)
          /\ Start(r, "oidc", Enrolment(u, n, k))
       \/ Taken(n) /\ Start(r, "oidc", Idle)
    /\ UNCHANGED <<store, memory, ghosts>>

(* Mutant of the next: the UPDATE without AND argon2_salt = ''. *)
EnrolKeysAnyway(user, r) ==
    IF user.row = "present"
    THEN [user EXCEPT !.name = req[r].name, !.keys = req[r].keys]
    ELSE user

(* enrol_account_keys: only over an empty argon2_salt. *)
EnrolKeys(user, r) ==
    IF user.row = "present" /\ user.keys = None
    THEN [user EXCEPT !.name = req[r].name, !.keys = req[r].keys]
    ELSE user

EnrolWrite(r) ==
    /\ Doing(r, "enrol")
    /\ \/ /\ ~Taken(req[r].name) \/ ~Shell(req[r].user)
          /\ users' = [users EXCEPT ![req[r].user] = EnrolKeys(@, r)]
       \/ /\ Taken(req[r].name) \/ "write" \in Faults
          /\ users' = users
    /\ Finish(r)
    /\ UNCHANGED <<identity, invite, open, provider, memory, ghosts>>

-----------------------------------------------------------------------------
(* The console, and people who delete their accounts *)

CreateInvite(i) ==
    /\ Offered("invites")
    /\ invite[i].row = "new"
    /\ invite' = [invite EXCEPT ![i].row = "present"]
    /\ UNCHANGED <<users, identity, open, provider, memory, req, ghosts>>

RevokeInvite(i) ==
    /\ Offered("invites")
    /\ invite[i].row = "present"
    /\ invite' = [invite EXCEPT ![i].row = "gone"]
    /\ UNCHANGED <<users, identity, open, provider, memory, req, ghosts>>

SetRegistration(b) ==
    /\ Offered("invites")
    /\ open # b
    /\ open' = b
    /\ UNCHANGED <<users, identity, invite, provider, memory, req, ghosts>>

SetUserLock(u, b) ==
    /\ Offered("accounts")
    /\ Present(u) /\ users[u].locked # b
    /\ users' = [users EXCEPT ![u].locked = b]
    /\ UNCHANGED <<identity, invite, open, provider, memory, req, ghosts>>

(* DELETE FROM users for the accounts of U, with the links that cascade. *)
Unlink(U) == [s \in Subjects |-> IF identity[s] \in U THEN None
                                                      ELSE identity[s]]

DeleteUsers(U) ==
    /\ users' = [u \in Ids |-> IF u \in U THEN [NoUser EXCEPT !.row = "gone"]
                                          ELSE users[u]]
    /\ identity' = Unlink(U)

(* delete_profile and delete_user_account *)
DeleteAccount(u) ==
    /\ Offered("accounts")
    /\ Present(u)
    /\ DeleteUsers({u})
    /\ UNCHANGED <<invite, open, provider, memory, req, ghosts>>

(* Mutant of the next: the row is replaced, and the links cascade. *)
SaveProviderAnew(p) ==
    /\ Offered("provider")
    /\ provider # p
    /\ provider' = p
    /\ identity' = [s \in Subjects |-> None]
    /\ UNCHANGED <<users, invite, open, memory, req, ghosts>>

SaveProvider(p) ==
    /\ Offered("provider")
    /\ provider # p
    /\ provider' = p
    /\ UNCHANGED <<users, identity, invite, open, memory, req, ghosts>>

RemoveProvider ==
    /\ Offered("provider")
    /\ provider # "gone"
    /\ provider' = "gone"
    /\ identity' = [s \in Subjects |-> None]
    /\ cut' = TRUE
    /\ UNCHANGED <<users, invite, open, memory, req, via, origin, raced,
                   guesses>>

-----------------------------------------------------------------------------
(* Time, and the timer of main.rs *)

ExpireInvite(i) ==
    /\ Offered("invites")
    /\ invite[i].row = "present" /\ ~invite[i].expired
    /\ invite' = [invite EXCEPT ![i].expired = TRUE]
    /\ UNCHANGED <<users, identity, open, provider, memory, req, ghosts>>

Grow(u) ==
    /\ Offered("sweep")
    /\ Present(u) /\ ~users[u].old
    /\ users' = [users EXCEPT ![u].old = TRUE]
    /\ UNCHANGED <<identity, invite, open, provider, memory, req, ghosts>>

FlowIsLate(f) ==
    /\ flows[f] = "pending"
    /\ flows' = [flows EXCEPT ![f] = "late"]
    /\ UNCHANGED <<store, failures, tokens, req, ghosts>>

TimePasses(n) ==
    /\ failures[n].known
    /\ \/ /\ LockedOut(failures[n])
          /\ failures' = [failures EXCEPT ![n] = LockEnded(@)]
       \/ /\ ~LockedOut(failures[n]) /\ ~failures[n].stale
          /\ failures' = [failures EXCEPT ![n] = Stale(@)]
    /\ UNCHANGED <<store, flows, tokens, req, ghosts>>

(* prune of the throttle, for records that have been left for a day, prune *)
(* of the flows, and purge_unenrolled_accounts.                            *)
Sweep ==
    /\ Offered("sweep")
    /\ \E P \in SUBSET {n \in Names : Prunable(failures[n])} :
         /\ failures' = [n \in Names |-> IF n \in P THEN NoFailures
                                                    ELSE failures[n]]
         /\ guesses' = [n \in Names |-> IF n \in P THEN 0 ELSE guesses[n]]
    /\ flows' = [f \in Flows |-> IF flows[f] = "late" THEN "taken"
                                                      ELSE flows[f]]
    /\ \/ DeleteUsers({u \in Ids : Shell(u) /\ users[u].old /\ Linked(u)})
       \/ "write" \in Faults /\ UNCHANGED <<users, identity>>
    /\ UNCHANGED <<invite, open, provider, tokens, req, via, origin, raced,
                   cut>>

(* A client that goes away drops its request's future at an await. *)
Cancel(r) ==
    /\ "crash" \in Faults
    /\ ~Doing(r, "idle") /\ ~Doing(r, "left")
    /\ IF Doing(r, "log_verify") THEN Goto(r, "left") ELSE Finish(r)
    /\ UNCHANGED <<store, memory, ghosts>>

-----------------------------------------------------------------------------
Init ==
    /\ scenario \in Scenarios
    /\ users = [u \in Ids |-> NoUser]
    /\ identity = [s \in Subjects |-> None]
    /\ invite = [i \in Invites |-> NoInvite]
    /\ open \in BOOLEAN
    /\ provider = "enabled"
    /\ flows = [f \in Flows |-> "new"]
    /\ failures = [n \in Names |-> NoFailures]
    /\ tokens = {}
    /\ req = [r \in Requests |-> Idle]
    /\ via = [u \in Ids |-> None]
    /\ origin = [u \in Ids |-> None]
    /\ raced = {}
    /\ cut = FALSE
    /\ guesses = [n \in Names |-> 0]

Begin(r) ==
    \/ \E n \in Names, k \in Bundles :
         \/ Register(r, n, k)
         \/ \E i \in Invites : RegisterInvited(r, n, k, i)
         \/ \E u \in Ids : Enrol(r, u, n, k)
    \/ \E n \in Names, right \in BOOLEAN : Login(r, n, right)
    \/ \E f \in Flows, s \in Subjects : Callback(r, f, s)

Continue(r) ==
    \/ RegisterLookup(r) \/ RegisterCreate(r) \/ ReleaseInvite(r)
    \/ LoginLoad(r) \/ TakePermit(r) \/ LoginJudged(r) \/ LeftEnds(r)
    \/ CallbackLookup(r) \/ CallbackCreate(r) \/ CallbackLink(r)
    \/ EnrolWrite(r)

Console ==
    \/ \E i \in Invites : CreateInvite(i) \/ RevokeInvite(i)
    \/ \E b \in BOOLEAN : SetRegistration(b)
    \/ \E u \in Ids, b \in BOOLEAN : SetUserLock(u, b)
    \/ \E u \in Ids : DeleteAccount(u)
    \/ \E p \in {"enabled", "disabled"} : SaveProvider(p)
    \/ RemoveProvider

Clock ==
    \/ \E i \in Invites : ExpireInvite(i)
    \/ \E u \in Ids : Grow(u)
    \/ \E f \in Flows : FlowIsLate(f)
    \/ \E n \in Names : TimePasses(n)
    \/ Sweep

Next ==
    /\ \/ \E r \in scenario.slots : Begin(r) \/ Continue(r) \/ Cancel(r)
       \/ \E f \in Flows : OidcStart(f)
       \/ Console
       \/ Clock
    /\ UNCHANGED scenario

Spec == Init /\ [][Next]_vars

-----------------------------------------------------------------------------
(* Properties *)

(* Every variable keeps its shape. *)
TypeOK ==
    /\ users \in [Ids -> User]
    /\ identity \in [Subjects -> Ids \cup {None}]
    /\ invite \in [Invites -> Invite]
    /\ open \in BOOLEAN
    /\ provider \in {"enabled", "disabled", "gone"}
    /\ flows \in [Flows -> {"new", "pending", "late", "taken"}]
    /\ failures \in [Names -> Failures]
    /\ tokens \subseteq Ids
    /\ req \in [Requests -> Request]
    /\ via \in [Ids -> Invites \cup {None}]
    /\ origin \in [Ids -> Subjects \cup {None}]
    /\ raced \subseteq Subjects
    /\ cut \in BOOLEAN
    /\ guesses \in [Names -> Nat]

(* A code admits one account, whoever races for it, whatever fails on the  *)
(* way and however often it was handed back.  A create_user whose reply is *)
(* lost is taken for one that failed: its invite is released although the  *)
(* account exists, which is left out here.                                 *)
InviteAdmitsOne ==
    "lost_reply" \notin Faults =>
        \A u, v \in Ids : via[u] # None /\ via[u] = via[v] => u = v

Holds(r, i) == req[r].pc \in SignUpPcs /\ req[r].invite = i

(* "If the sign-up then fails, it is handed back": a spent invite made an  *)
(* account or is held by a sign-up under way.  It takes quieter runs than  *)
(* the comment says: the failure of load_user_by_username is returned with *)
(* the invite kept, and so are a dropped request and a failed release.     *)
SpentInvitesMadeAccounts ==
    Faults \subseteq {"write"} =>
        \A i \in Invites : invite[i].used =>
            \/ \E u \in Ids : via[u] = i
            \/ \E r \in Requests : Holds(r, i)

(* The guard of enrol_account_keys "is the whole safety property": keys an *)
(* account has are never replaced, by an enrolment sent twice, from two    *)
(* tabs or across the purge, and only its deletion takes it away.          *)
EnrolledStay ==
    [][\A u \in Ids : Enrolled(u) =>
         users'[u].keys = users[u].keys \/ DeleteAccount(u)]_vars

(* Somebody who enrolled the account their first sign-in made gets to it   *)
(* with every later one, unless two first callbacks overlapped (the second *)
(* link is then ignored while its session enrols an account no sign-in     *)
(* leads to) or the provider was removed.                                  *)
EnrolledIsReached ==
    ~cut => \A u \in Ids, s \in Subjects \ raced :
        Enrolled(u) /\ origin[u] = s => identity[s] = u

(* The sweep can tell every account that was never finished: it is linked, *)
(* or its callback is about to link it.  A callback that dies in between,  *)
(* a link that fails and one that is ignored leave a shell for good.       *)
Linking(u) == \E r \in Requests : Doing(r, "cb_link") /\ req[r].user = u

ShellIsKnown(u) == Linked(u) \/ origin[u] \in raced \/ Linking(u)

ShellsCanBeSwept ==
    Faults \subseteq {"lookup", "release"} /\ ~cut =>
        \A u \in Ids : Shell(u) => ShellIsKnown(u)

(* However attempts interleave, the wrong passwords judged against a name  *)
(* before its lock-out ends are the threshold and those that had passed    *)
(* the check when the lock fell.                                           *)
GuessesAreBounded ==
    Threshold > 0 =>
        \A n \in Names :
            guesses[n] <= Threshold + Cardinality(scenario.slots) - 1
=============================================================================
