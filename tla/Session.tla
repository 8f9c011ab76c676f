------------------------------ MODULE Session ------------------------------
(***************************************************************************)
(* One browser tab of frontend_app and the accounts that sign in on it:     *)
(* the store of tokens and keys (store/auth.ts), the requests that renew a  *)
(* token and try again (api/client.ts), the pages that sign in, the unlock  *)
(* screen (components/UnlockModal.tsx) and the device that is remembered    *)
(* (crypto/trustedDevice.ts).  The server is as routes/auth_sql.rs has it,  *)
(* and another browser may change an account's passphrase.                  *)
(*                                                                          *)
(* A callback is one step up to its next call to the server; key derivation *)
(* and IndexedDB belong to the step before them.  The server takes a call   *)
(* in one step and the tab hears the answer in another, so an answer may be *)
(* old when it arrives; a call that a reload cuts off was taken before it   *)
(* or never.  The page is rendered at the end of a step.                    *)
(***************************************************************************)
EXTENDS Naturals, FiniteSets, Functions

CONSTANTS
    Accounts,
    Methods,   \* ids of remembered devices
    Tasks,     \* callbacks that may be waiting for the server at once
    MaxVersion,
    None,
    Scenarios

(* What a user may do, and what may happen.                                *)
OpKinds == {"sign_in", "sign_up", "oidc", "sign_out", "go", "reload",
            "render", "unlock", "remember", "save", "rotate", "elsewhere"}

(* start holds the tokens left in localStorage, known the accounts on the  *)
(* server, ready those with keys; patient says that nobody signs in or out *)
(* while a call is under way, or changes the passphrase here while one is, *)
(* other than a save.                                                      *)
ASSUME SessionAssumption ==
    /\ None \notin Accounts \cup Methods \cup Tasks
    /\ None \notin [acct : Accounts, ver : 1 .. MaxVersion]
    /\ MaxVersion \in Nat \ {0}
    /\ \A s \in Scenarios :
          /\ s.ops \subseteq OpKinds
          /\ s.steps \in Nat
          /\ s.start \in Accounts \cup {None}
          /\ s.ready \subseteq s.known /\ s.known \subseteq Accounts
          /\ s.start # None => s.start \in s.ready
          /\ {s.patient, s.fails, s.expires} \subseteq BOOLEAN

VARIABLES
    scenario,
    left,      \* how many more things the user does
    store,     \* useAuthStore
    page,      \* the route
    modal,     \* the unlock screen
    device,    \* IndexedDB: the method each account is remembered by
    task,      \* the callbacks that wait for an answer
    server     \* key versions, remembered devices, accounts

vars == <<scenario, left, store, page, modal, device, task, server>>

(* A token or a master key of an account, at a version of its passphrase.  *)
Secret == [acct : Accounts, ver : 1 .. MaxVersion]
Of(a) == [acct |-> a, ver |-> server.ver[a]]

(* named: username is set.                                                 *)
SignedOut == [access |-> None, refresh |-> None, named |-> None, keys |-> None]

Closed == [open |-> FALSE, user |-> None, checking |-> FALSE, start |-> FALSE]

Idle == [kind |-> "idle"]

Ops(k) == k \in scenario.ops

AccountId(token) == IF token = None THEN None ELSE token.acct

IsAuthenticated(s) == s.access # None \/ (s.named # None /\ s.keys # None)

(* The effect's clean-up: cancelled; own says whether the task's unlock    *)
(* screen is still there.                                                  *)
Cancel(ts, own) ==
    [t \in Tasks |-> IF ts[t].kind = "silent"
                       THEN [ts[t] EXCEPT !.cancelled = TRUE, !.own = @ /\ own]
                       ELSE ts[t]]

(* The store becomes s, the route p and the tasks ts, and the page is      *)
(* rendered: ProtectedRoute, the unlock screen and its effect.             *)
Become(s, p, ts) ==
    LET at == IF p = "vaults" /\ ~IsAuthenticated(s) THEN "door" ELSE p
        user == AccountId(s.access)
    IN  /\ store' = s
        /\ page' = at
        /\ IF ~(at = "vaults" /\ s.keys = None)
             THEN modal' = Closed /\ task' = Cancel(ts, FALSE)
           ELSE IF ~modal.open
             THEN /\ modal' = [open |-> TRUE, user |-> user, checking |-> TRUE,
                               start |-> TRUE]
                  /\ task' = ts
           ELSE IF modal.user # user
             THEN /\ modal' = [modal EXCEPT !.user = user, !.start = TRUE]
                  /\ task' = Cancel(ts, TRUE)
           ELSE modal' = modal /\ task' = ts

Init ==
    /\ scenario \in Scenarios
    /\ left = scenario.steps
    /\ server = [ver |-> [a \in Accounts |-> 1], methods |-> <<>>,
                 known |-> scenario.known, ready |-> scenario.ready]
    /\ store = IF scenario.start = None THEN SignedOut
               ELSE [access |-> Of(scenario.start), refresh |-> Of(scenario.start),
                     named |-> scenario.start, keys |-> None]
    /\ page = IF scenario.start = None THEN "door" ELSE "vaults"
    /\ modal = IF scenario.start = None THEN Closed
               ELSE [open |-> TRUE, user |-> scenario.start,
                     checking |-> TRUE, start |-> TRUE]
    /\ device = [a \in Accounts |-> None]
    /\ task = [t \in Tasks |-> Idle]

UserDoes(k) ==
    /\ Ops(k)
    /\ left > 0
    /\ left' = left - 1
    /\ UNCHANGED scenario

Quiet == \A t \in Tasks : task[t] = Idle
Waits == scenario.patient => Quiet
-----------------------------------------------------------------------------
(* A request captures the tokens when it is made, and is made once more if *)
(* they could be renewed.                                                  *)

Request(kind, call, user) ==
    [kind |-> kind, call |-> call, user |-> user, key |-> None,
     method |-> None, remember |-> FALSE, cancelled |-> FALSE, own |-> TRUE,
     had |-> [access |-> store.access, refresh |-> store.refresh],
     access |-> store.access, refresh |-> store.refresh,
     retry |-> TRUE, refreshing |-> FALSE, answered |-> FALSE, reply |-> None]

NextCall(r, call) ==
    [r EXCEPT !.call = call, !.access = store.access,
              !.refresh = store.refresh, !.retry = TRUE,
              !.answered = FALSE, !.reply = None]

Sends(t, r) ==
    /\ task[t] = Idle
    /\ task' = [task EXCEPT ![t] = r]
    /\ UNCHANGED <<store, page, modal>>

Waiting(t, call) ==
    task[t].kind # "idle" /\ task[t].call = call /\ ~task[t].refreshing

(* The request is with the server; its answer is with the tab.             *)
Asked(t, call) == Waiting(t, call) /\ ~task[t].answered
Heard(t, call) == Waiting(t, call) /\ task[t].answered /\ task[t].reply # None

(* Routes for strangers, for readers, and for those who write, whose token *)
(* must be of the account's present version (VerifiedWriter).              *)
Accepts(r) ==
    \/ r.call \in {"login", "create"}
    \/ r.access # None
         /\ (r.call = "save" => r.access.ver = server.ver[r.access.acct])

(* The account that the server takes a request for.                        *)
Caller(t) == task[t].access.acct

Ends(t) == [task EXCEPT ![t] = Idle]

ForgetDevice(user) == [device EXCEPT ![user] = None]

(* Nothing more comes of the call.                                         *)
StopWaiting(t, s) ==
    LET r == task[t]
    IN  IF r.kind = "unlock" /\ r.call = "register"
          THEN /\ device' = ForgetDevice(r.user)
               /\ Become([s EXCEPT !.keys = r.key], page, Ends(t))
          ELSE /\ UNCHANGED device
               /\ IF s = store
                    THEN /\ task' = Ends(t)
                         /\ modal' = IF r.kind = "silent" /\ r.own
                                       THEN [modal EXCEPT !.checking = FALSE]
                                       ELSE modal
                         /\ UNCHANGED <<store, page>>
                    ELSE Become(s, page, Ends(t))

(* The passphrase that a rotation is asked with is another than the        *)
(* account's (verify_auth_token).                                          *)
WrongPassphrase(r) ==
    r.call = "rotate" /\ r.access # None /\ r.key # Of(r.access.acct)

(* 401, answered and heard in one step: what a request is refused for it   *)
(* is refused for ever after.                                              *)
Unauthorized(t) ==
    /\ task[t].kind # "idle" /\ ~task[t].refreshing /\ ~task[t].answered
    /\ \/ scenario.expires \/ task[t].call = "login"
       \/ ~Accepts(task[t]) \/ WrongPassphrase(task[t])
    /\ IF task[t].retry /\ task[t].refresh # None
         THEN /\ task' = [task EXCEPT ![t].refreshing = TRUE]
              /\ UNCHANGED <<store, page, modal, device>>
         ELSE StopWaiting(t, store)
    /\ UNCHANGED <<scenario, left, server>>

(* tryRefresh writes into the store that is there by then.                 *)
TryRefresh(t) ==
    /\ task[t].kind # "idle" /\ task[t].refreshing /\ task[t].answered
    /\ LET new == task[t].reply
       IN  Become([store EXCEPT !.access = new], page,
                  [task EXCEPT ![t].refreshing = FALSE, ![t].retry = FALSE,
                               ![t].access = new,
                               ![t].answered = FALSE, ![t].reply = None])
    /\ UNCHANGED <<scenario, left, device, server>>

(* logout, which ends whatever session there is by then.                   *)
RefreshFails(t) ==
    /\ task[t].kind # "idle" /\ task[t].refreshing
    /\ \/ scenario.fails
       \/ /\ ~task[t].answered
          /\ \/ scenario.expires
             \/ task[t].refresh.ver # server.ver[task[t].refresh.acct]
    /\ StopWaiting(t, SignedOut)
    /\ UNCHANGED <<scenario, left, server>>

(* The network fails: the request is lost, or the answer of a server that  *)
(* did what was asked.                                                     *)
CallFails(t) ==
    /\ task[t].kind # "idle" /\ ~task[t].refreshing
    /\ scenario.fails
    /\ StopWaiting(t, store)
    /\ UNCHANGED <<scenario, left, server>>

(* Another answer than 401 says no.                                        *)
Refused(t) ==
    /\ task[t].kind # "idle" /\ ~task[t].refreshing
    /\ task[t].answered /\ task[t].reply = None
    /\ StopWaiting(t, store)
    /\ UNCHANGED <<scenario, left, server>>
-----------------------------------------------------------------------------
(* The server takes a call.  Its answer names an account, at the version   *)
(* that was there then, or says no.                                        *)

Says(t, reply) ==
    /\ task' = [task EXCEPT ![t].answered = TRUE, ![t].reply = reply]
    /\ UNCHANGED <<scenario, left, store, page, modal, device>>

(* A wrapped master key is given to the account that registered it; the    *)
(* bundle of an account without keys opens under nothing.                  *)
Found(r) ==
    LET a == r.access.acct
    IN  CASE r.call = "login" -> Of(r.user)
          [] r.call \in {"profile", "save"} -> Of(a)
          [] r.call \in {"bundle", "manifest"} ->
               IF a \in server.ready THEN Of(a) ELSE None
          [] r.call = "wrapped" ->
               IF r.method \in DOMAIN server.methods
                  /\ server.methods[r.method].owner = a
                 THEN server.methods[r.method].key ELSE None

ServerReads(t) ==
    /\ \E c \in {"login", "profile", "save", "bundle", "manifest", "wrapped"} :
          Asked(t, c)
    /\ Accepts(task[t])
    /\ Says(t, Found(task[t]))
    /\ UNCHANGED server

(* An account that exists is refused.                                      *)
ServerCreates(t) ==
    /\ Asked(t, "create")
    /\ LET a == task[t].user
       IN  IF a \in server.known THEN Says(t, None) /\ UNCHANGED server
           ELSE /\ server' = [server EXCEPT !.known = @ \cup {a},
                                            !.ready = @ \cup {a}]
                /\ Says(t, Of(a))

ServerEnrols(t) ==
    /\ Asked(t, "enrol") /\ Accepts(task[t])
    /\ LET a == Caller(t)
       IN  IF a \in server.ready THEN Says(t, None) /\ UNCHANGED server
           ELSE server' = [server EXCEPT !.ready = @ \cup {a}] /\ Says(t, Of(a))

WithMethod(r) ==
    [server EXCEPT !.methods =
        [m \in DOMAIN @ \cup {r.method} |->
            IF m = r.method THEN [owner |-> r.access.acct, key |-> r.key]
                            ELSE @[m]]]

ServerRegisters(t) ==
    /\ Asked(t, "register") /\ Accepts(task[t])
    /\ server' = WithMethod(task[t])
    /\ Says(t, task[t].key)

(* The account's remembered devices are dropped after the commit, unless   *)
(* that fails.                                                             *)
Rotate(a) ==
    /\ server.ver[a] < MaxVersion /\ a \in server.ready
    /\ \E drop \in {TRUE, ~scenario.fails} :
          server' = [server EXCEPT
             !.ver[a] = @ + 1,
             !.methods = IF drop
                THEN Restrict(@, {m \in DOMAIN @ : @[m].owner # a}) ELSE @]

(* The passphrase and the version decide, not the version of the token; a  *)
(* rotation that overtakes another's check is refused under the lock.      *)
ServerRotates(t) ==
    /\ Asked(t, "rotate") /\ Accepts(task[t])
    /\ LET a == Caller(t)
       IN  IF WrongPassphrase(task[t]) THEN Says(t, None) /\ UNCHANGED server
           ELSE Rotate(a) /\ Says(t, [acct |-> a, ver |-> server.ver[a] + 1])

(* refresh; a token of an earlier version is refused.                      *)
ServerRenews(t) ==
    /\ task[t].kind # "idle" /\ task[t].refreshing /\ ~task[t].answered
    /\ task[t].refresh = Of(task[t].refresh.acct)
    /\ Says(t, task[t].refresh)
    /\ UNCHANGED server
-----------------------------------------------------------------------------
(* Signing in and out.                                                     *)

SignIn ==
    /\ UserDoes("sign_in") /\ page = "door" /\ Waits
    /\ \E t \in Tasks, a \in server.ready : Sends(t, Request("sign_in", "login", a))
    /\ UNCHANGED <<device, server>>

SignUp ==
    /\ UserDoes("sign_up") /\ page = "door" /\ Waits
    /\ \E t \in Tasks, a \in Accounts : Sends(t, Request("sign_in", "create", a))
    /\ UNCHANGED <<device, server>>

Registered(t) ==
    /\ Heard(t, "create")
    /\ task' = [task EXCEPT ![t] = NextCall(@, "login")]
    /\ UNCHANGED <<scenario, left, store, page, modal, device, server>>

SignedInAs(a, token, keys) ==
    [access |-> token, refresh |-> token, named |-> a, keys |-> keys]

LoggedInKeepsKeys(t) ==
    /\ Heard(t, "login")
    /\ LET new == task[t].reply
       IN  Become(SignedInAs(task[t].user, new,
                             IF store.keys = None THEN new ELSE store.keys),
                  "vaults", Ends(t))
    /\ UNCHANGED <<scenario, left, device, server>>

LoggedIn(t) ==
    /\ Heard(t, "login")
    /\ LET new == task[t].reply
       IN  Become(SignedInAs(task[t].user, new, new), "vaults", Ends(t))
    /\ UNCHANGED <<scenario, left, device, server>>

(* The provider's answer loads the application anew, with tokens in the    *)
(* address.  An account it has not seen has no keys yet.                   *)
OidcCallback ==
    /\ UserDoes("oidc") /\ page = "door"
    /\ \E a \in Accounts, t \in Tasks :
          /\ store' = [access |-> Of(a), refresh |-> Of(a), named |-> None,
                       keys |-> None]
          /\ page' = IF a \in server.ready THEN "callback" ELSE "finish"
          /\ task' = [k \in Tasks |->
                IF k = t /\ a \in server.ready
                  THEN [Request("oidc", "profile", a) EXCEPT
                           !.had = [access |-> Of(a), refresh |-> Of(a)],
                           !.access = Of(a), !.refresh = Of(a)]
                  ELSE Idle]
          /\ server' = [server EXCEPT !.known = @ \cup {a}]
    /\ modal' = Closed
    /\ UNCHANGED device

(* setTokens once more, with the tokens of the callback.                   *)
ProfileRead(t) ==
    /\ Heard(t, "profile")
    /\ Become([store EXCEPT !.access = task[t].had.access,
                            !.refresh = task[t].had.refresh,
                            !.named = task[t].reply.acct], "vaults", Ends(t))
    /\ UNCHANGED <<scenario, left, device, server>>

(* Without the profile the vaults are opened all the same.                 *)
ProfileMissed ==
    /\ page = "callback" /\ Quiet
    /\ Become(store, "vaults", task)
    /\ UNCHANGED <<scenario, left, device, server>>

Enrol ==
    /\ UserDoes("oidc") /\ page = "finish" /\ Waits
    /\ \E t \in Tasks : Sends(t, Request("enrol", "enrol", None))
    /\ UNCHANGED <<device, server>>

(* The tokens are set again where the page still has both.                *)
Enrolled(t) ==
    /\ Heard(t, "enrol")
    /\ LET had == task[t].had
           named == IF had.access # None /\ had.refresh # None
                      THEN [access |-> had.access, refresh |-> had.refresh,
                            named |-> task[t].reply.acct]
                      ELSE store
       IN  Become([access |-> named.access, refresh |-> named.refresh,
                   named |-> named.named, keys |-> task[t].reply],
                  "vaults", Ends(t))
    /\ UNCHANGED <<scenario, left, device, server>>

(* The button, or the timer of an idle session.                            *)
Logout ==
    /\ UserDoes("sign_out") /\ store.access # None /\ Waits
    /\ Become(SignedOut, page, task)
    /\ UNCHANGED <<device, server>>

Go ==
    /\ UserDoes("go") /\ Waits
    /\ \E p \in {"door", "vaults"} \ {page} : Become(store, p, task)
    /\ UNCHANGED <<device, server>>

(* Keys are never stored; the tokens and the name are.                     *)
Reload ==
    /\ UserDoes("reload") /\ page \in {"door", "vaults"}
    /\ LET s == [store EXCEPT !.keys = None]
           open == page = "vaults" /\ IsAuthenticated(s)
       IN  /\ store' = s
           /\ page' = IF open THEN "vaults" ELSE "door"
           /\ modal' = IF open THEN [open |-> TRUE, user |-> AccountId(s.access),
                                     checking |-> TRUE, start |-> TRUE]
                               ELSE Closed
    /\ task' = [t \in Tasks |-> Idle]
    /\ UNCHANGED <<device, server>>
-----------------------------------------------------------------------------
(* The unlock screen.                                                      *)

(* Its page renders again and hands it another onUnlocked: the effect is   *)
(* run again.                                                              *)
ParentRenders ==
    /\ UserDoes("render") /\ modal.open
    /\ modal' = [modal EXCEPT !.start = TRUE]
    /\ task' = Cancel(task, TRUE)
    /\ UNCHANGED <<store, page, device, server>>

LoadDeviceRecord(user) == device[user]

StartSilent(t) ==
    /\ modal.open /\ modal.start /\ task[t] = Idle
    /\ IF modal.user = None \/ LoadDeviceRecord(modal.user) = None
         THEN /\ modal' = [modal EXCEPT !.checking = FALSE, !.start = FALSE]
              /\ UNCHANGED task
         ELSE /\ modal' = [modal EXCEPT !.start = FALSE]
              /\ task' = [task EXCEPT ![t] =
                    [Request("silent", "wrapped", modal.user) EXCEPT
                        !.method = LoadDeviceRecord(modal.user)]]
    /\ UNCHANGED <<scenario, left, store, page, device, server>>

EndSilentUnsaid(t) == task' = Ends(t) /\ UNCHANGED <<store, page, modal, device>>

EndSilent(t) ==
    /\ task' = Ends(t)
    /\ modal' = IF task[t].own THEN [modal EXCEPT !.checking = FALSE] ELSE modal
    /\ UNCHANGED <<store, page, device>>

(* The device's key opens what was wrapped for its method.                 *)
WrappedMasterKey(t) ==
    /\ Heard(t, "wrapped")
    /\ IF task[t].cancelled THEN EndSilent(t)
       ELSE /\ task' = [task EXCEPT ![t] =
                  [NextCall(@, "bundle") EXCEPT !.key = task[t].reply]]
            /\ UNCHANGED <<store, page, modal, device>>
    /\ UNCHANGED <<scenario, left, server>>

(* A bundle opens under the key of its own version, whatever the version   *)
(* is by the time it arrives.  The flag is not looked at again.            *)
SilentBundle(t) ==
    /\ Heard(t, "bundle") /\ task[t].kind = "silent"
    /\ IF task[t].key = task[t].reply
         THEN Become([store EXCEPT !.keys = task[t].key], page, Ends(t))
              /\ UNCHANGED device
         ELSE EndSilent(t)
    /\ UNCHANGED <<scenario, left, server>>

(* The passphrase is typed when the device had its turn.                   *)
HandleUnlock ==
    /\ UserDoes("unlock") /\ modal.open /\ ~modal.checking
    /\ \A t \in Tasks : task[t].kind # "unlock"
    /\ \E t \in Tasks, remember \in BOOLEAN :
          /\ remember => Ops("remember") /\ modal.user # None
          /\ Sends(t, [Request("unlock", "bundle", modal.user) EXCEPT
                          !.remember = remember])
    /\ UNCHANGED <<device, server>>

FreshMethods == Methods \ (DOMAIN server.methods \cup
                   {device[a] : a \in Accounts} \cup
                   {task[t].method : t \in {k \in Tasks : task[k].kind # "idle"}})

TrustForWhoIsIn(user, m) == [device EXCEPT ![AccountId(store.access)] = m]

TrustThisDevice(user, m) == [device EXCEPT ![user] = m]

(* The user types the passphrase of the account the screen names, the one  *)
(* that opens the bundle; any other ends the unlock.                       *)
UnlockBundle(t) ==
    /\ Heard(t, "bundle") /\ task[t].kind = "unlock"
    /\ LET r == task[t]
       IN  \/ StopWaiting(t, store)
          \/ /\ r.reply.acct = r.user /\ ~r.remember
             /\ Become([store EXCEPT !.keys = r.reply], page, Ends(t))
             /\ UNCHANGED device
          \/ /\ r.reply.acct = r.user /\ r.remember
             /\ \E m \in FreshMethods :
                   /\ device' = TrustThisDevice(r.user, m)
                   /\ task' = [task EXCEPT ![t] =
                         [NextCall(@, "register") EXCEPT !.key = r.reply,
                                                         !.method = m]]
             /\ UNCHANGED <<store, page, modal>>
    /\ UNCHANGED <<scenario, left, server>>

UnlockRegistered(t) ==
    /\ Heard(t, "register")
    /\ Become([store EXCEPT !.keys = task[t].key], page, Ends(t))
    /\ UNCHANGED <<scenario, left, device, server>>
-----------------------------------------------------------------------------
(* A session at work.                                                      *)

(* Any write of a page that has the keys.                                  *)
Save ==
    /\ UserDoes("save") /\ page = "vaults" /\ store.keys # None
    /\ \E t \in Tasks : Sends(t, Request("save", "save", None))
    /\ UNCHANGED <<device, server>>

Saved(t) ==
    /\ Heard(t, "save")
    /\ task' = Ends(t)
    /\ UNCHANGED <<scenario, left, store, page, modal, device, server>>

(* An unlock under way, typed or by the device, opens the session once     *)
(* more when it ends, with the key it found.                               *)
RotateForm ==
    /\ UserDoes("rotate") /\ page = "vaults" /\ store.keys # None
    /\ scenario.patient => \A t \in Tasks : task[t] # Idle => task[t].call = "save"
    /\ \E t \in Tasks : Sends(t, Request("rotate", "manifest", store.named))
    /\ UNCHANGED <<device, server>>

(* What is typed as the current passphrase opens the manifest, or does not;*)
(* the keys of the session are not asked.                                  *)
ManifestRead(t) ==
    /\ Heard(t, "manifest")
    /\ \/ /\ task' = [task EXCEPT ![t] =
                [NextCall(@, "rotate") EXCEPT !.key = task[t].reply]]
          /\ UNCHANGED <<store, page, modal, device>>
       \/ StopWaiting(t, store)
    /\ UNCHANGED <<scenario, left, server>>

(* The new master key; and the new tokens, if the form had a name.         *)
Rotated(t) ==
    /\ Heard(t, "rotate")
    /\ LET new == task[t].reply
           user == task[t].user
       IN  Become(IF user = None THEN [store EXCEPT !.keys = new]
                  ELSE SignedInAs(user, new, new), page, Ends(t))
    /\ UNCHANGED <<scenario, left, device, server>>

RotatedElsewhere ==
    /\ UserDoes("elsewhere")
    /\ \E a \in Accounts : Rotate(a)
    /\ UNCHANGED <<store, page, modal, device, task>>
-----------------------------------------------------------------------------
Serve(t) ==
    \/ ServerReads(t) \/ ServerCreates(t) \/ ServerEnrols(t)
    \/ ServerRegisters(t) \/ ServerRotates(t) \/ ServerRenews(t)

Answer(t) ==
    \/ Registered(t) \/ LoggedIn(t) \/ ProfileRead(t) \/ Enrolled(t)
    \/ WrappedMasterKey(t) \/ SilentBundle(t) \/ UnlockBundle(t)
    \/ UnlockRegistered(t) \/ Saved(t) \/ ManifestRead(t) \/ Rotated(t)
    \/ Unauthorized(t) \/ TryRefresh(t) \/ RefreshFails(t) \/ CallFails(t)
    \/ Refused(t)

Next ==
    \/ SignIn \/ SignUp \/ OidcCallback \/ ProfileMissed \/ Enrol \/ Logout
    \/ Go \/ Reload \/ ParentRenders \/ HandleUnlock \/ Save \/ RotateForm
    \/ RotatedElsewhere
    \/ \E t \in Tasks : StartSilent(t) \/ Serve(t) \/ Answer(t)

Spec == Init /\ [][Next]_vars

(* Calls are served and heard of, and an effect that is due is run.        *)
Fairness ==
    \A t \in Tasks : WF_vars(StartSilent(t)) /\ WF_vars(Serve(t) \/ Answer(t))

FairSpec == Spec /\ Fairness
-----------------------------------------------------------------------------
Wrapped == [owner : Accounts, key : Secret]

Registry == UNION {[D -> Wrapped] : D \in SUBSET Methods}

Token == Secret \cup {None}

Session == [access : Token, refresh : Token, named : Accounts \cup {None},
            keys : Token]

(* What a callback has captured while it waits.                            *)
Call == [kind : {"sign_in", "oidc", "enrol", "silent", "unlock", "save", "rotate"},
         call : {"login", "create", "profile", "enrol", "wrapped", "bundle",
                 "register", "save", "manifest", "rotate"},
         user : Accounts \cup {None}, key : Token, method : Methods \cup {None},
         remember : BOOLEAN, cancelled : BOOLEAN, own : BOOLEAN,
         had : [access : Token, refresh : Token],
         access : Token, refresh : Token, retry : BOOLEAN, refreshing : BOOLEAN,
         answered : BOOLEAN, reply : Token]

(* Every variable keeps its shape, and the unlock screen is there only on  *)
(* the page of a session that has no keys (ProtectedRoute, VaultsPage).    *)
TypeOK ==
    /\ scenario \in Scenarios /\ left \in Nat
    /\ store \in Session
    /\ page \in {"door", "callback", "finish", "vaults"}
    /\ modal \in [open : BOOLEAN, user : Accounts \cup {None},
                  checking : BOOLEAN, start : BOOLEAN]
    /\ modal.open => page = "vaults" /\ store.keys = None /\ IsAuthenticated(store)
    /\ ~modal.open => modal = Closed
    /\ device \in [Accounts -> Methods \cup {None}]
    /\ task \in [Tasks -> Call \cup {Idle}]
    /\ server \in [ver : [Accounts -> 1 .. MaxVersion], methods : Registry,
                   known : SUBSET Accounts, ready : SUBSET Accounts]

(* store/auth.ts: the tokens, the name and the keys of a session belong to *)
(* one account, and a token that may write comes with the present keys.    *)
OneAccount ==
    LET a == AccountId(store.access)
    IN  a # None =>
          /\ AccountId(store.refresh) \in {a, None}
          /\ store.named \in {a, None}
          /\ store.keys # None =>
                /\ store.keys.acct = a
                /\ store.access.ver = server.ver[a] => store.keys.ver = server.ver[a]

SessionIsOneAccount == scenario.patient => OneAccount

(* trustedDevice.ts:28: what the record of an account opens is that        *)
(* account's master key, whoever signed in, out or in again meanwhile.     *)
DeviceOpensOwn ==
    \A a \in Accounts : device[a] \in DOMAIN server.methods
        => server.methods[device[a]].key.acct = a

(* UnlockModal.tsx:37-38 and 90-93: the screen does not wait for ever,     *)
(* however often its page renders; and where calls succeed, a device that  *)
(* the server knows with the present key lets the user in.                 *)
Spins == modal.open /\ modal.checking

Trusted ==
    /\ modal.open /\ modal.user # None
    /\ device[modal.user] \in DOMAIN server.methods
    /\ server.methods[device[modal.user]] =
          [owner |-> modal.user, key |-> Of(modal.user)]

Calm == scenario.patient /\ ~scenario.fails /\ ~scenario.expires

UnlockIsAnswered ==
    /\ Spins ~> ~Spins
    /\ Calm => (Spins /\ Trusted ~> ~Trusted)
=============================================================================
