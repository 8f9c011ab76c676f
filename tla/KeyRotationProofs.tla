------------------------- MODULE KeyRotationProofs -------------------------
(***************************************************************************)
(* Proofs about KeyRotation, for any number of browsers, requests, vaults, *)
(* attachments and rotations and under all failures: TypeOK (with the      *)
(* cache never ahead of the row), TokenNamesKeys and CommitCoversKeys; and *)
(* for requests one at a time, SerialStrandsNothing and SerialRefusesStale.*)
(***************************************************************************)
EXTENDS KeyRotation, TLAPS

-----------------------------------------------------------------------------
(* The inductive invariant. *)

(* What a holder of version kv and master key s may hold. *)
Agrees(kv, s) == kv <= user.kv /\ (kv = user.kv => s = user.secret)

SessionsAgree == \A c \in Clients : Agrees(sessions[c].kv, sessions[c].secret)

(* The lock on the user's row admits one transaction. *)
OneTx == \A r, q \in Requests : InTx(r) /\ InTx(q) => r = q

WritePcs == {"load_kv", "seed", "read", "write"}

(* What a request x has read still bounds, or is, what the rows say.  The  *)
(* last two conjuncts keep what the transaction's checks found: nothing    *)
(* can be created until it commits.                                        *)
Fits(x) ==
    /\ x.pc = "sign_in" => Agrees(x.kv, x.secret) /\ x.client \in Clients
    /\ x.pc = "refresh" => x.kv <= user.kv
    /\ x.pc = "seed" => x.seen <= user.kv
    /\ x.pc \in TxPcs => x.kv = user.kv
    /\ x.pc = "publish" => Agrees(x.kv + 1, x.new)
    /\ x.pc \in WritePcs =>
         /\ x.op \in {"create", "rename", "meta"} => x.row \in Vaults
         /\ x.op \in {"init", "copy"} => x.row \in Attachments
         /\ x.row \in Vaults \cup Attachments
    /\ x.pc = "write" /\ x.op \in {"rename", "meta"} =>
         \A i \in Items : i[1] # "note" /\ i # Title(x.row) => x.put[i] = Keep
    /\ x.pc = "write" /\ x.op = "delete" =>
         \A i \in Items : x.put[i] \in {Keep, None}
    /\ x.pc \in {"tx_attachments", "tx_rewrite"} =>
         \A i \in Items : i[1] = "title" /\ cipher[i] # None => i \in x.items
    /\ x.pc = "tx_rewrite" =>
         \A i \in Items : i[1] = "wrap" /\ cipher[i] # None => i \in x.items

RotationInv == /\ TypeOK
               /\ user.kv >= 1
               /\ SessionsAgree
               /\ OneTx
               /\ \A r \in Requests : Fits(req[r])

-----------------------------------------------------------------------------
(* The clients, requests, rows and secrets of a scenario are the module's. *)
LEMMA ScenarioWithin ==
    ASSUME scenario \in Scenarios
    PROVE  /\ scenario.clients \subseteq Clients
           /\ scenario.requests \subseteq Requests
           /\ scenario.rows \subseteq Vaults \cup Attachments
           /\ scenario.secrets \subseteq Secrets
  BY KeyRotationAssumption

(* The columns, told apart by their first component. *)
LEMMA ItemShapes ==
    /\ \A v \in Vaults : /\ Title(v) \in Items /\ Note(v) \in Items
                         /\ Title(v)[1] = "title" /\ Note(v)[1] = "note"
                         /\ Title(v)[2] = v /\ Note(v)[2] = v
    /\ \A a \in Attachments : Wrap(a) \in Items /\ Wrap(a)[1] = "wrap" /\ Wrap(a)[2] = a
    /\ \A i \in Items : /\ i[1] \in {"title", "note", "wrap"}
                        /\ i[1] = "title" => i[2] \in Vaults /\ i = Title(i[2])
                        /\ i[1] = "note" => i[2] \in Vaults /\ i = Note(i[2])
                        /\ i[1] = "wrap" => i[2] \in Attachments /\ i = Wrap(i[2])
  BY DEF Items, Title, Note, Wrap

(* The idle record and the empty put have their types. *)
LEMMA IdleType == Idle \in Request /\ NoPut \in [Items -> Secrets \cup {None, Keep}]
  BY KeyRotationAssumption DEF Idle, Request, NoPut, Pcs, WriteOps

(* A put of one value has its type. *)
LEMMA PutType ==
    ASSUME NEW S, NEW s \in Secrets \cup {None}
    PROVE  Put(S, s) \in [Items -> Secrets \cup {None, Keep}]
  BY DEF Put

(* The initial states satisfy the invariant. *)
LEMMA InitRotationInv == Init => RotationInv
<1> SUFFICES ASSUME Init PROVE RotationInv
  OBVIOUS
<1>1. TypeOK
  <2>1. user \in [kv : Nat, secret : Secrets] /\ user.kv = 1 /\ cache = 0
    BY KeyRotationAssumption DEF Init, Cold
  <2>2. cipher \in [Items -> Secrets \cup {None}]
    BY KeyRotationAssumption DEF Init
  <2>3. sessions \in [Clients -> [kv : Nat, secret : Secrets]]
    BY <2>1, KeyRotationAssumption DEF Init, SignedOut
  <2>4. req \in [Requests -> Request]
    BY IdleType DEF Init
  <2>5. outcome \in [Clients -> [says : Answers, old : Secrets, new : Secrets]]
    BY KeyRotationAssumption DEF Init, NoOutcome, Answers
  <2>6. minted \subseteq Secrets \cup Vaults \cup Attachments
    BY ItemShapes, KeyRotationAssumption DEF Init, Row
  <2> QED BY <2>1, <2>2, <2>3, <2>4, <2>5, <2>6 DEF TypeOK
<1>2. user.kv >= 1 /\ SessionsAgree
  BY DEF Init, SessionsAgree, Agrees, SignedOut
<1>3. \A r \in Requests : req[r].pc = "idle"
  BY DEF Init, Idle
<1>4. OneTx /\ \A r \in Requests : Fits(req[r])
  BY <1>3 DEF OneTx, Fits, InTx, TxPcs, WritePcs
<1> QED
  BY <1>1, <1>2, <1>4 DEF RotationInv

-----------------------------------------------------------------------------
(* A step that changes one request, and no row, keeps the invariant if the *)
(* request fits afterwards.                                                *)
LEMMA OneRequest ==
  ASSUME RotationInv, NEW r \in Requests,
         req' \in [Requests -> Request],
         \A q \in Requests \ {r} : req'[q] = req[q],
         UNCHANGED <<user, cipher>>,
         Fits(req[r])',
         InTx(r)' => InTx(r) \/ ~UserLocked,
         cache' \in Nat, cache' <= user.kv,
         sessions' \in [Clients -> [kv : Nat, secret : Secrets]],
         SessionsAgree',
         outcome' \in [Clients -> [says : Answers, old : Secrets, new : Secrets]],
         minted' \subseteq Secrets \cup Vaults \cup Attachments
  PROVE  RotationInv'
<1>1. TypeOK' /\ user'.kv >= 1
  BY DEF RotationInv, TypeOK
<1>2. OneTx'
  BY DEF RotationInv, OneTx, InTx, UserLocked
<1>3. ASSUME NEW q \in Requests PROVE Fits(req[q])'
  <2>1. CASE q # r
    BY <2>1 DEF RotationInv, Fits, Agrees
  <2> QED
    BY <2>1
<1> QED
  BY <1>1, <1>2, <1>3 DEF RotationInv

(* Assigning to one request keeps the type. *)
LEMMA SetOK ==
  ASSUME TypeOK, NEW r \in Requests, NEW x \in Request,
         req' = [req EXCEPT ![r] = x]
  PROVE  /\ req' \in [Requests -> Request]
         /\ \A q \in Requests \ {r} : req'[q] = req[q]
         /\ req'[r] = x
  BY DEF TypeOK

(* Goto and Finish change one request and keep its type. *)
LEMMA GotoOK ==
  ASSUME TypeOK, NEW r \in Requests, NEW pc \in Pcs, Goto(r, pc)
  PROVE  /\ req' \in [Requests -> Request]
         /\ \A q \in Requests \ {r} : req'[q] = req[q]
         /\ req'[r].pc = pc
         /\ req'[r].kv = req[r].kv /\ req'[r].items = req[r].items
<1> DEFINE x == [req[r] EXCEPT !.pc = pc]
<1>1. req[r] \in Request
  BY DEF TypeOK
<1>2. x \in Request /\ x.pc = pc /\ x.kv = req[r].kv /\ x.items = req[r].items
  BY <1>1 DEF Request
<1>3. req' = [req EXCEPT ![r] = x]
  BY DEF Goto
<1> HIDE DEF x
<1> QED
  BY <1>2, <1>3, SetOK

(* A request that ends fits, and holds no transaction. *)
LEMMA FinishOK ==
  ASSUME TypeOK, NEW r \in Requests, Finish(r)
  PROVE  /\ req' \in [Requests -> Request]
         /\ \A q \in Requests \ {r} : req'[q] = req[q]
         /\ Fits(req[r])' /\ ~InTx(r)'
<1>1. req'[r] = Idle /\ Idle.pc = "idle"
  BY DEF Finish, TypeOK, Idle
<1> QED
  BY <1>1, IdleType DEF TypeOK, Finish, Fits, InTx, TxPcs, WritePcs

(* Asking keeps the type of outcome. *)
LEMMA AskingType ==
  ASSUME TypeOK, NEW r \in Requests
  PROVE  Asking(r) \in [Clients -> [says : Answers, old : Secrets, new : Secrets]]
  BY DEF TypeOK, Asking, Request, Answers

(* Finish, with no row changed. *)
LEMMA FinishKeeps ==
  ASSUME RotationInv, NEW r \in Requests, Finish(r),
         UNCHANGED <<user, cipher, sessions, minted>>,
         cache' \in Nat, cache' <= user.kv,
         outcome' \in {outcome, Asking(r)}
  PROVE  RotationInv'
<1>1. SessionsAgree'
  BY DEF RotationInv, SessionsAgree, Agrees
<1>2. outcome' \in [Clients -> [says : Answers, old : Secrets, new : Secrets]]
  BY AskingType DEF RotationInv, TypeOK
<1>3. TypeOK
  BY DEF RotationInv
<1> QED
  BY <1>1, <1>2, <1>3, FinishOK, OneRequest DEF TypeOK

-----------------------------------------------------------------------------
(* Tokens. *)
LEMMA TokenKeeps ==
  ASSUME RotationInv, scenario \in Scenarios, NEW r \in Requests, Token(r)
  PROVE  RotationInv'
<1>1. TypeOK /\ user \in [kv : Nat, secret : Secrets] /\ req[r] \in Request
  BY DEF RotationInv, TypeOK
<1>2. SessionsAgree /\ Fits(req[r])
  BY DEF RotationInv
<1>3. ASSUME NEW c \in Clients, SignIn(r, c) PROVE RotationInv'
  <2> DEFINE x == [Idle EXCEPT !.pc = "sign_in", !.client = c,
                               !.kv = user.kv, !.secret = user.secret]
  <2>1. x \in Request /\ x.pc = "sign_in" /\ x.client = c
          /\ x.kv = user.kv /\ x.secret = user.secret
    BY <1>1, KeyRotationAssumption DEF Idle, Request, NoPut, Pcs, WriteOps
  <2>2. req' = [req EXCEPT ![r] = x] /\ UNCHANGED <<user, cipher, cache, sessions, outcome, minted>>
    BY <1>3 DEF SignIn
  <2> HIDE DEF x
  <2>3. /\ req' \in [Requests -> Request]
        /\ \A q \in Requests \ {r} : req'[q] = req[q]
        /\ req'[r] = x
    BY <1>1, <2>1, <2>2, SetOK
  <2>4. Fits(req[r])' /\ ~InTx(r)'
    BY <1>1, <2>1, <2>2, <2>3 DEF Fits, Agrees, InTx, TxPcs, WritePcs
  <2>5. SessionsAgree'
    BY <1>2, <2>2 DEF SessionsAgree, Agrees
  <2> QED
    BY <1>1, <2>2, <2>3, <2>4, <2>5, OneRequest DEF TypeOK
<1>4. ASSUME NEW c \in Clients, Refresh(r, c) PROVE RotationInv'
  <2> DEFINE x == [Idle EXCEPT !.pc = "refresh", !.kv = user.kv]
  <2>1. x \in Request /\ x.pc = "refresh" /\ x.kv = user.kv
    BY <1>1, KeyRotationAssumption DEF Idle, Request, NoPut, Pcs, WriteOps
  <2>2. req' = [req EXCEPT ![r] = x] /\ UNCHANGED <<user, cipher, cache, sessions, outcome, minted>>
    BY <1>4 DEF Refresh
  <2> HIDE DEF x
  <2>3. /\ req' \in [Requests -> Request]
        /\ \A q \in Requests \ {r} : req'[q] = req[q]
        /\ req'[r] = x
    BY <1>1, <2>1, <2>2, SetOK
  <2>4. Fits(req[r])' /\ ~InTx(r)'
    BY <1>1, <2>1, <2>2, <2>3 DEF Fits, InTx, TxPcs, WritePcs
  <2>5. SessionsAgree'
    BY <1>2, <2>2 DEF SessionsAgree, Agrees
  <2> QED
    BY <1>1, <2>2, <2>3, <2>4, <2>5, OneRequest DEF TypeOK
<1>5. CASE SignedIn(r)
  <2>1. Agrees(req[r].kv, req[r].secret) /\ req[r].client \in Clients
    BY <1>2, <1>5 DEF SignedIn, Doing, Fits
  <2>2. /\ sessions' \in [Clients -> [kv : Nat, secret : Secrets]]
        /\ SessionsAgree'
    BY <1>1, <1>2, <1>5, <2>1 DEF SignedIn, SessionsAgree, Agrees, TypeOK, Request
  <2>3. cache' \in Nat /\ cache' <= user.kv
    BY <1>1, <1>5, <2>1 DEF SignedIn, Agrees, Request
  <2>4. Finish(r) /\ UNCHANGED <<user, cipher, outcome, minted>>
    BY <1>5 DEF SignedIn
  <2> QED
    BY <1>1, <2>2, <2>3, <2>4, FinishOK, OneRequest DEF TypeOK
<1>6. CASE Refreshed(r)
  <2>1. cache' \in Nat /\ cache' <= user.kv
    BY <1>1, <1>2, <1>6 DEF Refreshed, Doing, Fits, Request
  <2> QED
    BY <1>6, <2>1, FinishKeeps DEF Refreshed
<1> QED
  BY <1>3, <1>4, <1>5, <1>6, ScenarioWithin DEF Token

(* A reloaded page takes the current secret. *)
LEMMA UnlockKeeps ==
  ASSUME RotationInv, NEW c \in Clients, Unlock(c)
  PROVE  RotationInv'
<1>1. TypeOK' /\ user'.kv >= 1
  BY DEF RotationInv, TypeOK, Unlock
<1>2. SessionsAgree'
  BY DEF RotationInv, TypeOK, Unlock, SessionsAgree, Agrees
<1>3. OneTx' /\ \A r \in Requests : Fits(req[r])'
  BY DEF RotationInv, Unlock, OneTx, InTx, Fits, Agrees
<1> QED
  BY <1>1, <1>2, <1>3 DEF RotationInv

-----------------------------------------------------------------------------
(* Writes. *)

(* VerifiedWriter lets a write in, or sends it to read the key version. *)
LEMMA VerifiedWriterKeeps ==
  ASSUME RotationInv, scenario \in Scenarios,
         NEW r \in Requests, NEW c \in Clients, Write(r, c)
  PROVE  RotationInv'
<1>1. TypeOK /\ user \in [kv : Nat, secret : Secrets] /\ SessionsAgree
  BY DEF RotationInv, TypeOK
<1>2. PICK op \in WriteOps, row \in Vaults \cup Attachments : VerifiedWriter(r, c, op, row)
  BY ScenarioWithin DEF Write
<1> DEFINE x == [Idle EXCEPT !.pc = IF cache = Cold THEN "load_kv" ELSE "read",
                             !.op = op, !.row = row, !.kv = sessions[c].kv,
                             !.secret = sessions[c].secret]
<1>3. /\ x \in Request /\ x.pc \in {"load_kv", "read"}
      /\ x.op = op /\ x.row = row
  BY <1>1, KeyRotationAssumption DEF Idle, Request, NoPut, Pcs, WriteOps, TypeOK
<1>4. req' = [req EXCEPT ![r] = x] /\ UNCHANGED <<user, cipher, cache, sessions, outcome>>
  BY <1>2 DEF VerifiedWriter
<1>5. /\ op \in {"create", "rename", "meta"} => row \in Vaults
      /\ op \in {"init", "copy"} => row \in Attachments
      /\ minted' \subseteq Secrets \cup Vaults \cup Attachments
  BY <1>1, <1>2 DEF VerifiedWriter, TypeOK
<1> HIDE DEF x
<1>6. /\ req' \in [Requests -> Request]
      /\ \A q \in Requests \ {r} : req'[q] = req[q]
      /\ req'[r] = x
  BY <1>1, <1>3, <1>4, SetOK
<1>7. Fits(req[r])' /\ ~InTx(r)'
  BY <1>3, <1>5, <1>6 DEF Fits, InTx, TxPcs, WritePcs
<1>8. SessionsAgree'
  BY <1>1, <1>4 DEF SessionsAgree, Agrees
<1> QED
  BY <1>1, <1>4, <1>5, <1>6, <1>7, <1>8, OneRequest DEF TypeOK

(* The cold cache is filled from the row. *)
LEMMA SeedKeeps ==
  ASSUME RotationInv, NEW r \in Requests, LoadKeyVersion(r) \/ SeedCache(r)
  PROVE  RotationInv'
<1>1. TypeOK /\ user \in [kv : Nat, secret : Secrets] /\ req[r] \in Request
         /\ SessionsAgree /\ Fits(req[r])
  BY DEF RotationInv, TypeOK
<1>2. CASE LoadKeyVersion(r)
  <2> DEFINE x == [req[r] EXCEPT !.pc = "seed", !.seen = user.kv]
  <2>1. /\ x \in Request /\ x.pc = "seed" /\ x.seen = user.kv
        /\ x.op = req[r].op /\ x.row = req[r].row
    BY <1>1 DEF Request, Pcs
  <2>2. req' = [req EXCEPT ![r] = x] /\ UNCHANGED <<user, cipher, cache, sessions, outcome, minted>>
    BY <1>2 DEF LoadKeyVersion
  <2> HIDE DEF x
  <2>3. /\ req' \in [Requests -> Request]
        /\ \A q \in Requests \ {r} : req'[q] = req[q]
        /\ req'[r] = x
    BY <1>1, <2>1, <2>2, SetOK
  <2>4. Fits(req[r])' /\ ~InTx(r)'
    BY <1>1, <1>2, <2>1, <2>2, <2>3 DEF Fits, InTx, TxPcs, WritePcs, LoadKeyVersion, Doing
  <2>5. SessionsAgree'
    BY <1>1, <2>2 DEF SessionsAgree, Agrees
  <2> QED
    BY <1>1, <2>2, <2>3, <2>4, <2>5, OneRequest DEF TypeOK
<1>3. CASE SeedCache(r)
  <2>1. /\ UNCHANGED <<user, cipher, sessions, outcome, minted>>
        /\ cache' \in Nat /\ cache' <= user.kv
    BY <1>1, <1>3 DEF SeedCache, Doing, Fits, Request
  <2>2. CASE Finish(r)
    BY <2>1, <2>2, FinishKeeps
  <2>3. CASE req' = [req EXCEPT ![r].pc = "read", ![r].seen = 0]
    <3> DEFINE x == [req[r] EXCEPT !.pc = "read", !.seen = 0]
    <3>1. /\ x \in Request /\ x.pc = "read"
          /\ x.op = req[r].op /\ x.row = req[r].row
      BY <1>1 DEF Request, Pcs
    <3>2. req' = [req EXCEPT ![r] = x]
      BY <2>3
    <3> HIDE DEF x
    <3>3. /\ req' \in [Requests -> Request]
          /\ \A q \in Requests \ {r} : req'[q] = req[q]
          /\ req'[r] = x
      BY <1>1, <3>1, <3>2, SetOK
    <3>4. Fits(req[r])' /\ ~InTx(r)'
      BY <1>1, <1>3, <3>1, <3>3 DEF Fits, InTx, TxPcs, WritePcs, SeedCache, Doing
    <3>5. SessionsAgree'
      BY <1>1, <2>1 DEF SessionsAgree, Agrees
    <3> QED
      BY <1>1, <2>1, <3>3, <3>4, <3>5, OneRequest DEF TypeOK
  <2> QED
    BY <1>3, <2>2, <2>3 DEF SeedCache
<1> QED
  BY <1>2, <1>3

(* What a handler stores has its type, and an update or a deletion brings  *)
(* no column to life but a note.                                           *)
LEMMA StoresFit ==
  ASSUME RotationInv, NEW r \in Requests, Doing(r, "read"), NEW put \in Stores(r)
  PROVE  /\ put \in [Items -> Secrets \cup {None, Keep}]
         /\ req[r].op \in {"rename", "meta"} =>
              \A i \in Items : i[1] # "note" /\ i # Title(req[r].row) => put[i] = Keep
         /\ req[r].op = "delete" => \A i \in Items : put[i] \in {Keep, None}
<1> DEFINE row == req[r].row
           own == req[r].secret
<1>1. /\ own \in Secrets /\ req[r].op \in WriteOps
      /\ req[r].op \in {"create", "rename", "meta"} => row \in Vaults
      /\ req[r].op \in {"init", "copy"} => row \in Attachments
      /\ cipher \in [Items -> Secrets \cup {None}]
  BY DEF RotationInv, TypeOK, Request, Fits, WritePcs, Doing
<1>2. CASE req[r].op \in {"create", "rename"}
  <2>1. put = Put({Title(row)}, own)
    BY <1>2 DEF Stores
  <2> QED
    BY <1>1, <1>2, <2>1, PutType DEF Put
<1>3. CASE req[r].op = "meta"
  <2>1. PICK t \in {own, cipher[Title(row)]}, n \in {own, None, cipher[Note(row)]} :
          put = [Put({Title(row)}, t) EXCEPT ![Note(row)] = n]
    BY <1>3 DEF Stores
  <2>2. t \in Secrets \cup {None} /\ n \in Secrets \cup {None}
    BY <1>1, <1>3, ItemShapes
  <2>3. \A i \in Items : i[1] # "note" => i # Note(row)
    BY <1>1, <1>3, ItemShapes
  <2> QED
    BY <1>3, <2>1, <2>2, <2>3, PutType DEF Put
<1>4. CASE req[r].op = "init"
  <2>1. put = Put({Wrap(row)}, own)
    BY <1>4 DEF Stores
  <2> QED
    BY <1>1, <1>4, <2>1, PutType
<1>5. CASE req[r].op = "copy"
  <2>1. PICK a \in Attachments : put = Put({Wrap(row)}, cipher[Wrap(a)])
    BY <1>5 DEF Stores
  <2>2. cipher[Wrap(a)] \in Secrets \cup {None}
    BY <1>1, ItemShapes
  <2> QED
    BY <1>5, <2>1, <2>2, PutType
<1>6. CASE req[r].op = "delete"
  <2>1. PICK S : put = Put(S, None)
    BY <1>6 DEF Stores
  <2> QED
    BY <1>6, <2>1, PutType DEF Put
<1> QED
  BY <1>1, <1>2, <1>3, <1>4, <1>5, <1>6 DEF WriteOps

(* A handler's read, and what it is about to store. *)
LEMMA ReadRowKeeps ==
  ASSUME RotationInv, NEW r \in Requests, ReadRow(r)
  PROVE  RotationInv'
<1>1. TypeOK /\ req[r] \in Request /\ SessionsAgree /\ Fits(req[r]) /\ Doing(r, "read")
  BY DEF RotationInv, TypeOK, ReadRow
<1>2. UNCHANGED <<user, cipher, cache, sessions, outcome, minted>>
  BY DEF ReadRow
<1>3. CASE Finish(r)
  BY <1>1, <1>2, <1>3, FinishKeeps DEF TypeOK
<1>4. ASSUME NEW put \in Stores(r),
             req' = [req EXCEPT ![r] = [Idle EXCEPT !.pc = "write", !.op = req[r].op,
                                           !.row = req[r].row, !.put = put]]
      PROVE  RotationInv'
  <2> DEFINE x == [Idle EXCEPT !.pc = "write", !.op = req[r].op,
                               !.row = req[r].row, !.put = put]
  <2>1. /\ put \in [Items -> Secrets \cup {None, Keep}]
        /\ req[r].op \in {"rename", "meta"} =>
             \A i \in Items : i[1] # "note" /\ i # Title(req[r].row) => put[i] = Keep
        /\ req[r].op = "delete" => \A i \in Items : put[i] \in {Keep, None}
    BY <1>1, StoresFit
  <2>2. /\ x \in Request /\ x.pc = "write" /\ x.op = req[r].op
        /\ x.row = req[r].row /\ x.put = put
    BY <1>1, <2>1, KeyRotationAssumption DEF Idle, Request, Pcs, WriteOps
  <2>3. req' = [req EXCEPT ![r] = x]
    BY <1>4
  <2> HIDE DEF x
  <2>4. /\ req' \in [Requests -> Request]
        /\ \A q \in Requests \ {r} : req'[q] = req[q]
        /\ req'[r] = x
    BY <1>1, <2>2, <2>3, SetOK
  <2>5. Fits(req[r])' /\ ~InTx(r)'
    BY <1>1, <2>1, <2>2, <2>4 DEF Fits, InTx, TxPcs, WritePcs, Doing
  <2>6. SessionsAgree'
    BY <1>1, <1>2 DEF SessionsAgree, Agrees
  <2> QED
    BY <1>1, <1>2, <2>4, <2>5, <2>6, OneRequest DEF TypeOK
<1> QED
  BY <1>3, <1>4 DEF ReadRow

(* While a transaction is open no write gives a value to a title or a wrap *)
(* that had none.                                                          *)
LEMMA WriteRowCreatesNothing ==
  ASSUME RotationInv, NEW r \in Requests, WriteRow(r)
  PROVE  /\ cipher' \in [Items -> Secrets \cup {None}]
         /\ UserLocked => \A i \in Items :
              i[1] # "note" /\ cipher'[i] # None => cipher[i] # None
<1>1. /\ cipher \in [Items -> Secrets \cup {None}] /\ req[r] \in Request
      /\ req[r].put \in [Items -> Secrets \cup {None, Keep}]
      /\ req[r].op \in WriteOps /\ Fits(req[r]) /\ Doing(r, "write")
  BY DEF RotationInv, TypeOK, WriteRow, Request
<1>2. \/ cipher' = cipher
      \/ /\ Writable(r)
         /\ cipher' = [i \in Items |-> IF req[r].put[i] = Keep
                                       THEN cipher[i] ELSE req[r].put[i]]
  BY DEF WriteRow
<1>3. cipher' \in [Items -> Secrets \cup {None}]
  BY <1>1, <1>2
<1>4. ASSUME UserLocked, NEW i \in Items, i[1] # "note", cipher'[i] # None
      PROVE  cipher[i] # None
  <2>1. req[r].op \in {"rename", "meta", "delete"}
    BY <1>1, <1>4 DEF WriteRow, WriteOps
  <2>2. CASE req[r].put[i] = Keep
    BY <1>2, <1>4, <2>2
  <2>3. CASE req[r].put[i] # Keep /\ cipher' # cipher
    <3>1. cipher'[i] = req[r].put[i] /\ Writable(r) /\ req[r].put[i] # None
      BY <1>2, <1>4, <2>3
    <3>2. req[r].op \in {"rename", "meta"} /\ i = Title(req[r].row)
      BY <1>1, <1>4, <2>1, <2>3, <3>1 DEF Fits, Doing
    <3>3. req[r].row \in Vaults /\ Exists(req[r].row)
      BY <1>1, <3>1, <3>2 DEF Writable, Fits, Doing, WritePcs
    <3>4. PICK j \in Items : j[2] = req[r].row /\ j[1] # "note" /\ cipher[j] # None
      BY <3>3 DEF Exists, Row
    <3>5. j = Title(req[r].row)
      BY <3>3, <3>4, ItemShapes, KeyRotationAssumption
    <3> QED
      BY <3>2, <3>4, <3>5
  <2> QED
    BY <1>4, <2>2, <2>3
<1> QED
  BY <1>3, <1>4

(* A write takes effect, or finds its row gone. *)
LEMMA WriteRowKeeps ==
  ASSUME RotationInv, NEW r \in Requests, WriteRow(r)
  PROVE  RotationInv'
<1>1. TypeOK
  BY DEF RotationInv
<1>2. Finish(r) /\ UNCHANGED <<user, cache, sessions, outcome, minted>>
  BY DEF WriteRow
<1>3. /\ req' \in [Requests -> Request]
      /\ \A q \in Requests \ {r} : req'[q] = req[q]
      /\ Fits(req[r])' /\ ~InTx(r)'
  BY <1>1, <1>2, FinishOK
<1>4. TypeOK' /\ user'.kv >= 1
  BY <1>1, <1>2, <1>3, WriteRowCreatesNothing DEF RotationInv, TypeOK
<1>5. SessionsAgree'
  BY <1>2 DEF RotationInv, SessionsAgree, Agrees
<1>6. OneTx'
  BY <1>3 DEF RotationInv, OneTx, InTx
<1>7. ASSUME NEW q \in Requests \ {r} PROVE Fits(req[q])'
  <2>1. Fits(req[q]) /\ req'[q] = req[q]
    BY <1>3 DEF RotationInv
  <2>2. CASE InTx(q)
    <3>1. \A i \in Items : i[1] # "note" /\ cipher'[i] # None => cipher[i] # None
      BY <2>2, WriteRowCreatesNothing DEF UserLocked
    <3> QED
      BY <1>2, <2>1, <3>1 DEF Fits, Agrees
  <2>3. CASE ~InTx(q)
    BY <1>2, <2>1, <2>3 DEF Fits, Agrees, InTx, TxPcs
  <2> QED
    BY <2>2, <2>3
<1> QED
  BY <1>3, <1>4, <1>5, <1>6, <1>7 DEF RotationInv

-----------------------------------------------------------------------------
(* The rotation, up to its transaction. *)

(* The manifest, the bundle and the check of the password. *)
LEMMA BundleKeeps ==
  ASSUME RotationInv, scenario \in Scenarios, NEW r \in Requests,
         \/ \E c \in Clients : RotationManifest(r, c)
         \/ ManifestVaults(r)
         \/ BuildPasswordRotationBundle(r)
  PROVE  RotationInv'
<1>1. /\ TypeOK /\ req[r] \in Request /\ SessionsAgree
      /\ user \in [kv : Nat, secret : Secrets]
  BY DEF RotationInv, TypeOK
<1>2. \A kinds : Stored(kinds) \subseteq Items
  BY DEF Stored
<1>3. ASSUME NEW c \in Clients, RotationManifest(r, c) PROVE RotationInv'
  <2> DEFINE x == [Idle EXCEPT !.pc = "manifest_vaults", !.client = c,
                               !.kv = user.kv, !.secret = user.secret]
  <2>1. x \in Request /\ x.pc = "manifest_vaults"
    BY <1>1, KeyRotationAssumption DEF Idle, Request, NoPut, Pcs, WriteOps
  <2>2. /\ req' = [req EXCEPT ![r] = x]
        /\ UNCHANGED <<user, cipher, cache, sessions, minted>>
        /\ outcome' = [outcome EXCEPT ![c] = NoOutcome]
    BY <1>3 DEF RotationManifest
  <2>3. outcome' \in [Clients -> [says : Answers, old : Secrets, new : Secrets]]
    BY <1>1, <2>2, KeyRotationAssumption DEF TypeOK, NoOutcome, Answers
  <2> HIDE DEF x
  <2>4. /\ req' \in [Requests -> Request]
        /\ \A q \in Requests \ {r} : req'[q] = req[q]
        /\ req'[r] = x
    BY <1>1, <2>1, <2>2, SetOK
  <2>5. Fits(req[r])' /\ ~InTx(r)'
    BY <2>1, <2>4 DEF Fits, InTx, TxPcs, WritePcs
  <2>6. SessionsAgree'
    BY <1>1, <2>2 DEF SessionsAgree, Agrees
  <2> QED
    BY <1>1, <2>2, <2>3, <2>4, <2>5, <2>6, OneRequest DEF TypeOK
<1>4. CASE ManifestVaults(r)
  <2>1. UNCHANGED <<user, cipher, cache, sessions, outcome, minted>>
    BY <1>4 DEF ManifestVaults
  <2> DEFINE x == [req[r] EXCEPT !.pc = "manifest_attachments",
                                 !.items = Stored({"title", "note"})]
  <2>2. CASE req' = [req EXCEPT ![r] = x]
    <3>1. x \in Request /\ x.pc = "manifest_attachments"
      BY <1>1, <1>2 DEF Request, Pcs
    <3> HIDE DEF x
    <3>2. /\ req' \in [Requests -> Request]
          /\ \A q \in Requests \ {r} : req'[q] = req[q]
          /\ req'[r] = x
      BY <1>1, <2>2, <3>1, SetOK
    <3>3. Fits(req[r])' /\ ~InTx(r)'
      BY <3>1, <3>2 DEF Fits, InTx, TxPcs, WritePcs
    <3>4. SessionsAgree'
      BY <1>1, <2>1 DEF SessionsAgree, Agrees
    <3> QED
      BY <1>1, <2>1, <3>2, <3>3, <3>4, OneRequest DEF TypeOK
  <2>3. CASE Finish(r)
    BY <1>1, <2>1, <2>3, FinishKeeps DEF TypeOK
  <2> QED
    BY <1>4, <2>2, <2>3 DEF ManifestVaults
<1>5. CASE BuildPasswordRotationBundle(r)
  <2>1. PICK s \in Secrets \ minted :
          /\ minted' = minted \cup {s}
          /\ \/ req' = [req EXCEPT ![r].pc = "rotate", ![r].new = s,
                                   ![r].items = @ \cup Stored({"wrap"})]
             \/ Finish(r)
    BY <1>5, ScenarioWithin DEF BuildPasswordRotationBundle
  <2>2. /\ UNCHANGED <<user, cipher, cache, sessions, outcome>>
        /\ minted' \subseteq Secrets \cup Vaults \cup Attachments
    BY <1>1, <1>5, <2>1 DEF BuildPasswordRotationBundle, TypeOK
  <2>3. SessionsAgree'
    BY <1>1, <2>2 DEF SessionsAgree, Agrees
  <2> DEFINE x == [req[r] EXCEPT !.pc = "rotate", !.new = s,
                                 !.items = @ \cup Stored({"wrap"})]
  <2>4. CASE req' = [req EXCEPT ![r] = x]
    <3>1. x \in Request /\ x.pc = "rotate"
      BY <1>1, <1>2 DEF Request, Pcs, PostPcs
    <3> HIDE DEF x
    <3>2. /\ req' \in [Requests -> Request]
          /\ \A q \in Requests \ {r} : req'[q] = req[q]
          /\ req'[r] = x
      BY <1>1, <2>4, <3>1, SetOK
    <3>3. Fits(req[r])' /\ ~InTx(r)'
      BY <3>1, <3>2 DEF Fits, InTx, TxPcs, WritePcs
    <3> QED
      BY <1>1, <2>2, <2>3, <3>2, <3>3, OneRequest DEF TypeOK
  <2>5. CASE Finish(r)
    BY <1>1, <2>2, <2>3, <2>5, FinishOK, OneRequest DEF TypeOK
  <2> QED
    BY <2>1, <2>4, <2>5
<1> QED
  BY <1>3, <1>4, <1>5

(* A request that moves on inside the POST, or is refused. *)
LEMMA AdvanceKeeps ==
  ASSUME RotationInv, NEW r \in Requests, NEW pc \in {"tx_begin"} \cup TxPcs,
         \/ Goto(r, pc) /\ outcome' = outcome
         \/ Refused(r),
         Goto(r, pc) /\ pc \in TxPcs => /\ InTx(r) \/ ~UserLocked
                                       /\ req[r].kv = user.kv,
         Goto(r, pc) /\ pc \in {"tx_attachments", "tx_rewrite"} =>
           Stored({"title"}) \subseteq req[r].items,
         Goto(r, pc) /\ pc = "tx_rewrite" => Stored({"wrap"}) \subseteq req[r].items,
         UNCHANGED <<user, cipher, cache, sessions, minted>>
  PROVE  RotationInv'
<1>1. TypeOK /\ SessionsAgree
  BY DEF RotationInv
<1>2. CASE Refused(r)
  BY <1>1, <1>2, FinishKeeps DEF Refused, TypeOK
<1>3. CASE Goto(r, pc) /\ outcome' = outcome
  <2>1. /\ req' \in [Requests -> Request]
        /\ \A q \in Requests \ {r} : req'[q] = req[q]
        /\ req'[r].pc = pc
        /\ req'[r].kv = req[r].kv /\ req'[r].items = req[r].items
    BY <1>1, <1>3, GotoOK DEF Pcs, PostPcs
  <2>2. Fits(req[r])'
    BY <1>3, <2>1 DEF Fits, TxPcs, WritePcs, Stored
  <2>3. InTx(r)' => InTx(r) \/ ~UserLocked
    BY <1>3, <2>1 DEF InTx
  <2>4. SessionsAgree'
    BY <1>1 DEF SessionsAgree, Agrees
  <2> QED
    BY <1>1, <1>3, <2>1, <2>2, <2>3, <2>4, OneRequest DEF TypeOK
<1> QED
  BY <1>2, <1>3

(* The lock and the two coverage checks establish what Fits remembers. *)
LEMMA ChecksKeep ==
  ASSUME RotationInv, NEW r \in Requests,
         RotateCredentials(r) \/ LockUser(r) \/ CheckVaults(r) \/ CheckAttachments(r)
  PROVE  RotationInv'
<1>1. TypeOK /\ Fits(req[r]) /\ req[r] \in Request /\ user.kv \in Nat
  BY DEF RotationInv, TypeOK
<1>2. CASE RotateCredentials(r)
  BY <1>2, AdvanceKeeps DEF RotateCredentials, TxPcs
<1>3. CASE LockUser(r)
  <2>1. Goto(r, "tx_vaults") => req[r].kv = user.kv
    <3> SUFFICES ASSUME Goto(r, "tx_vaults"), req[r].kv # user.kv PROVE FALSE
      OBVIOUS
    <3>1. Refused(r)
      BY <1>1, <1>3 DEF LockUser, Request
    <3>2. req'[r].pc = "idle"
      BY <1>1, <3>1 DEF Refused, Finish, TypeOK, Idle
    <3>3. req'[r].pc = "tx_vaults"
      BY <1>1, GotoOK DEF Pcs, PostPcs, TxPcs
    <3> QED
      BY <3>2, <3>3
  <2> QED
    BY <1>3, <2>1, AdvanceKeeps DEF LockUser, TxPcs
<1>4. CASE CheckVaults(r)
  <2>1. req[r].kv = user.kv /\ InTx(r)
    BY <1>1, <1>4 DEF CheckVaults, Doing, Fits, TxPcs, InTx
  <2>2. CASE Stored({"title"}) \subseteq req[r].items
    BY <1>4, <2>1, <2>2, AdvanceKeeps DEF CheckVaults, TxPcs
  <2>3. CASE ~(Stored({"title"}) \subseteq req[r].items)
    <3>1. Refused(r) /\ UNCHANGED <<user, cipher, cache, sessions, minted>>
      BY <1>4, <2>3 DEF CheckVaults
    <3> QED
      BY <1>1, <3>1, FinishKeeps DEF Refused, TypeOK
  <2> QED
    BY <2>2, <2>3
<1>5. CASE CheckAttachments(r)
  <2>1. /\ req[r].kv = user.kv /\ InTx(r)
        /\ Stored({"title"}) \subseteq req[r].items
    BY <1>1, <1>5 DEF CheckAttachments, Doing, Fits, TxPcs, InTx, Stored
  <2>2. CASE Stored({"wrap"}) \subseteq req[r].items
    BY <1>5, <2>1, <2>2, AdvanceKeeps DEF CheckAttachments, TxPcs
  <2>3. CASE ~(Stored({"wrap"}) \subseteq req[r].items)
    <3>1. Refused(r) /\ UNCHANGED <<user, cipher, cache, sessions, minted>>
      BY <1>5, <2>3 DEF CheckAttachments
    <3> QED
      BY <1>1, <3>1, FinishKeeps DEF Refused, TypeOK
  <2> QED
    BY <2>2, <2>3
<1> QED
  BY <1>2, <1>3, <1>4, <1>5

-----------------------------------------------------------------------------
(* The transaction's updates and its commit. *)

(* An UPDATE locks its row, or drops an item whose row is gone. *)
LEMMA RewriteRowKeeps ==
  ASSUME RotationInv, NEW r \in Requests, RewriteRow(r)
  PROVE  RotationInv'
<1>1. /\ TypeOK /\ Fits(req[r]) /\ req[r] \in Request /\ SessionsAgree
      /\ Doing(r, "tx_rewrite")
      /\ UNCHANGED <<user, cipher, cache, sessions, outcome, minted>>
  BY DEF RotationInv, TypeOK, RewriteRow
<1>2. PICK row \in RowsLeft(r) :
        req' = IF Exists(row)
               THEN [req EXCEPT ![r].rows = @ \cup {row}]
               ELSE [req EXCEPT ![r].items = {i \in @ : Row(i) # row}]
  BY DEF RewriteRow
<1>3. row \in Vaults \cup Attachments
  BY <1>1, <1>2, ItemShapes DEF RowsLeft, Row, Request
<1>4. SessionsAgree'
  BY <1>1 DEF SessionsAgree, Agrees
<1>5. ASSUME NEW x \in Request, x.pc = "tx_rewrite", x.kv = req[r].kv,
             x.items \subseteq req[r].items,
             \A i \in req[r].items \ x.items : i[1] # "note" => cipher[i] = None,
             req' = [req EXCEPT ![r] = x]
      PROVE  RotationInv'
  <2>1. /\ req' \in [Requests -> Request]
        /\ \A q \in Requests \ {r} : req'[q] = req[q]
        /\ req'[r] = x
    BY <1>1, <1>5, SetOK
  <2>2. Fits(req[r])'
    BY <1>1, <1>5, <2>1 DEF Fits, TxPcs, WritePcs, Doing
  <2>3. InTx(r)
    BY <1>1 DEF InTx, Doing, TxPcs
  <2> QED
    BY <1>1, <1>4, <2>1, <2>2, <2>3, OneRequest DEF TypeOK
<1>6. CASE Exists(row)
  <2> DEFINE x == [req[r] EXCEPT !.rows = @ \cup {row}]
  <2>1. /\ x \in Request /\ x.pc = "tx_rewrite" /\ x.kv = req[r].kv
        /\ x.items = req[r].items
    BY <1>1, <1>3 DEF Request, Doing
  <2>2. req' = [req EXCEPT ![r] = x]
    BY <1>2, <1>6
  <2> HIDE DEF x
  <2> QED
    BY <1>5, <2>1, <2>2
<1>7. CASE ~Exists(row)
  <2> DEFINE x == [req[r] EXCEPT !.items = {i \in @ : Row(i) # row}]
  <2>1. /\ x \in Request /\ x.pc = "tx_rewrite" /\ x.kv = req[r].kv
        /\ x.items = {i \in req[r].items : Row(i) # row}
    BY <1>1 DEF Request, Doing
  <2>2. req' = [req EXCEPT ![r] = x]
    BY <1>2, <1>7
  <2> HIDE DEF x
  <2>3. \A i \in req[r].items \ x.items : i[1] # "note" => cipher[i] = None
    BY <1>1, <1>7, <2>1 DEF Exists, Request
  <2> QED
    BY <1>5, <2>1, <2>2, <2>3
<1> QED
  BY <1>6, <1>7

(* What the commit does to the rows: no key is left under another secret,  *)
(* and every other request and every session is of an older version.       *)
LEMMA CommitTxCovers ==
  ASSUME RotationInv, NEW r \in Requests, CommitTx(r)
  PROVE  /\ user' \in [kv : Nat, secret : Secrets]
         /\ user'.kv = user.kv + 1 /\ user'.secret = req[r].new
         /\ req[r].kv = user.kv
         /\ cipher' \in [Items -> Secrets \cup {None}]
         /\ \A i \in Items : i[1] # "note" => cipher'[i] \in {None, user'.secret}
         /\ \A q \in Requests \ {r} : ~InTx(q)
<1>1. /\ TypeOK /\ Fits(req[r]) /\ req[r] \in Request /\ Doing(r, "tx_rewrite")
      /\ req[r].new \in Secrets /\ user.kv \in Nat
      /\ cipher \in [Items -> Secrets \cup {None}]
  BY DEF RotationInv, TypeOK, CommitTx, Request
<1>2. req[r].kv = user.kv /\ InTx(r)
  BY <1>1 DEF Fits, Doing, TxPcs, InTx
<1>3. /\ user' = [kv |-> user.kv + 1, secret |-> req[r].new]
      /\ cipher' = [i \in Items |-> IF i \in req[r].items THEN req[r].new ELSE cipher[i]]
  BY <1>2 DEF CommitTx
<1>4. \A i \in Items : i[1] # "note" /\ cipher[i] # None => i \in req[r].items
  BY <1>1, ItemShapes DEF Fits, Doing
<1> QED
  BY <1>1, <1>2, <1>3, <1>4 DEF RotationInv, OneTx

(* The commit, heard of or not. *)
LEMMA CommitKeeps ==
  ASSUME RotationInv, NEW r \in Requests, Commit(r) \/ CommitUnheard(r)
  PROVE  RotationInv'
<1>1. /\ TypeOK /\ req[r] \in Request /\ CommitTx(r) /\ user.kv \in Nat
      /\ UNCHANGED <<cache, sessions, minted>>
  BY DEF RotationInv, TypeOK, Commit, CommitUnheard
<1>2. /\ user' \in [kv : Nat, secret : Secrets]
      /\ user'.kv = user.kv + 1 /\ user'.secret = req[r].new
      /\ req[r].kv = user.kv
      /\ cipher' \in [Items -> Secrets \cup {None}]
      /\ \A q \in Requests \ {r} : ~InTx(q)
  BY <1>1, CommitTxCovers
<1>3. /\ req' \in [Requests -> Request]
      /\ \A q \in Requests \ {r} : req'[q] = req[q]
      /\ Fits(req[r])' /\ ~InTx(r)'
      /\ outcome' \in [Clients -> [says : Answers, old : Secrets, new : Secrets]]
  <2>1. CASE Commit(r)
    <3> DEFINE x == [req[r] EXCEPT !.pc = "publish", !.rows = {}, !.items = {}]
    <3>1. /\ x \in Request /\ x.pc = "publish" /\ x.kv = req[r].kv
          /\ x.new = req[r].new
      BY <1>1 DEF Request, Pcs, PostPcs
    <3>2. req' = [req EXCEPT ![r] = x] /\ outcome' = outcome
      BY <2>1 DEF Commit
    <3> HIDE DEF x
    <3>3. /\ req' \in [Requests -> Request]
          /\ \A q \in Requests \ {r} : req'[q] = req[q]
          /\ req'[r] = x
      BY <1>1, <3>1, <3>2, SetOK
    <3>4. Fits(req[r])' /\ ~InTx(r)'
      BY <1>1, <1>2, <3>1, <3>3 DEF Fits, Agrees, InTx, TxPcs, WritePcs
    <3> QED
      BY <1>1, <3>2, <3>3, <3>4 DEF TypeOK
  <2>2. CASE CommitUnheard(r)
    BY <1>1, <2>2, FinishOK, AskingType DEF CommitUnheard, Refused
  <2> QED
    BY <2>1, <2>2
<1>4. TypeOK' /\ user'.kv >= 1
  BY <1>1, <1>2, <1>3 DEF TypeOK
<1>5. SessionsAgree'
  BY <1>1, <1>2 DEF RotationInv, SessionsAgree, Agrees, TypeOK
<1>6. OneTx'
  BY <1>2, <1>3 DEF OneTx, InTx
<1>7. ASSUME NEW q \in Requests \ {r} PROVE Fits(req[q])'
  <2>1. Fits(req[q]) /\ req'[q] = req[q] /\ req[q].pc \notin TxPcs /\ req[q] \in Request
    BY <1>2, <1>3 DEF RotationInv, TypeOK, InTx
  <2>2. req[q].kv \in Nat /\ req[q].seen \in Nat
    BY <2>1 DEF Request
  <2> QED
    BY <1>1, <1>2, <2>1, <2>2 DEF Fits, Agrees, TxPcs
<1> QED
  BY <1>3, <1>4, <1>5, <1>6, <1>7 DEF RotationInv

(* The version that is published is the row's, or an older one. *)
LEMMA PublishKeeps ==
  ASSUME RotationInv, NEW r \in Requests, Publish(r)
  PROVE  RotationInv'
<1>1. /\ TypeOK /\ req[r] \in Request /\ SessionsAgree /\ user.kv \in Nat
      /\ Agrees(req[r].kv + 1, req[r].new)
  BY DEF RotationInv, TypeOK, Publish, Doing, Fits
<1>2. /\ sessions' \in [Clients -> [kv : Nat, secret : Secrets]]
      /\ SessionsAgree'
  BY <1>1 DEF Publish, SessionsAgree, Agrees, TypeOK, Request
<1>3. cache' \in Nat /\ cache' <= user.kv
  BY <1>1 DEF Publish, Agrees, Request
<1>4. Finish(r) /\ UNCHANGED <<user, cipher, outcome, minted>>
  BY DEF Publish
<1> QED
  BY <1>1, <1>2, <1>3, <1>4, FinishOK, OneRequest DEF TypeOK

-----------------------------------------------------------------------------
(* Failures, and the browser that gives up. *)

(* A request that fails, or whose browser stops waiting. *)
LEMMA FailuresKeep ==
  ASSUME RotationInv, NEW r \in Requests, Abort(r) \/ ConnectionLost(r)
  PROVE  RotationInv'
<1>1. /\ TypeOK /\ req[r] \in Request /\ SessionsAgree /\ Fits(req[r])
      /\ UNCHANGED <<user, cipher, cache, sessions, minted>>
  BY DEF RotationInv, TypeOK, Abort, ConnectionLost
<1>2. CASE Abort(r)
  BY <1>1, <1>2, FinishKeeps DEF Abort, TypeOK
<1>3. CASE ConnectionLost(r)
  <2> DEFINE x == [req[r] EXCEPT !.client = None]
  <2>1. /\ x \in Request /\ x.pc = req[r].pc /\ x.pc \in PostPcs
        /\ x.kv = req[r].kv /\ x.new = req[r].new /\ x.items = req[r].items
    BY <1>1, <1>3 DEF Request, ConnectionLost
  <2>2. req' = [req EXCEPT ![r] = x] /\ outcome' = Asking(r)
    BY <1>3 DEF ConnectionLost
  <2> HIDE DEF x
  <2>3. /\ req' \in [Requests -> Request]
        /\ \A q \in Requests \ {r} : req'[q] = req[q]
        /\ req'[r] = x
    BY <1>1, <2>1, <2>2, SetOK
  <2>4. Fits(req[r])' /\ (InTx(r)' => InTx(r))
    BY <1>1, <2>1, <2>3 DEF Fits, Agrees, InTx, TxPcs, WritePcs, PostPcs
  <2>5. SessionsAgree'
    BY <1>1 DEF SessionsAgree, Agrees
  <2> QED
    BY <1>1, <2>2, <2>3, <2>4, <2>5, AskingType, OneRequest DEF TypeOK
<1> QED
  BY <1>2, <1>3

(* The process loses its requests and its cache. *)
LEMMA CrashKeeps ==
  ASSUME RotationInv, Crash
  PROVE  RotationInv'
<1>1. TypeOK /\ SessionsAgree /\ UNCHANGED <<user, cipher, sessions, minted>>
         /\ user.kv \in Nat
  BY DEF RotationInv, TypeOK, Crash
<1>2. outcome' \in [Clients -> [says : Answers, old : Secrets, new : Secrets]]
  <2>1. ASSUME NEW c \in Clients
        PROVE  outcome'[c] \in [says : Answers, old : Secrets, new : Secrets]
    <3> DEFINE mine == {r \in Requests : req[r].client = c /\ req[r].pc \in PostPcs}
    <3>1. CASE mine = {}
      BY <1>1, <3>1 DEF Crash, TypeOK
    <3>2. CASE mine # {}
      <4> DEFINE q == CHOOSE r \in Requests : req[r].client = c /\ req[r].pc \in PostPcs
      <4>1. q \in Requests
        BY <3>2
      <4>2. outcome'[c] = Asking(q)[c]
        BY <3>2 DEF Crash
      <4> HIDE DEF q
      <4> QED
        BY <1>1, <4>1, <4>2, AskingType
    <3> QED
      BY <3>1, <3>2
  <2>2. outcome' = [c \in Clients |-> outcome'[c]]
    BY DEF Crash
  <2> QED
    BY <2>1, <2>2
<1>3. req' = [r \in Requests |-> Idle] /\ cache' = 0
  BY DEF Crash, Cold
<1>4. TypeOK' /\ user'.kv >= 1
  BY <1>1, <1>2, <1>3, IdleType DEF TypeOK, RotationInv
<1>5. SessionsAgree'
  BY <1>1 DEF SessionsAgree, Agrees
<1>6. \A r \in Requests : req'[r].pc = "idle"
  BY <1>3 DEF Idle
<1>7. OneTx' /\ \A r \in Requests : Fits(req[r])'
  BY <1>6 DEF OneTx, InTx, Fits, TxPcs, WritePcs
<1> QED
  BY <1>4, <1>5, <1>7 DEF RotationInv

(* The form learns what it can from the salt. *)
LEMMA ProbeKeeps ==
  ASSUME RotationInv, NEW c \in Clients, Probe(c)
  PROVE  RotationInv'
<1>1. TypeOK /\ SessionsAgree /\ UNCHANGED <<user, cipher, cache, req, minted>>
         /\ user.kv >= 1 /\ user.kv \in Nat
  BY DEF RotationInv, TypeOK, Probe
<1>2. outcome' \in [Clients -> [says : Answers, old : Secrets, new : Secrets]]
  <2>1. NoOutcome \in [says : Answers, old : Secrets, new : Secrets]
    BY KeyRotationAssumption DEF NoOutcome, Answers
  <2>2. outcome \in [Clients -> [says : Answers, old : Secrets, new : Secrets]]
    BY <1>1 DEF TypeOK
  <2>3. [outcome[c] EXCEPT !.says = "unchanged"]
          \in [says : Answers, old : Secrets, new : Secrets]
    BY <2>2 DEF Answers
  <2>4. \/ outcome' = [outcome EXCEPT ![c] = [outcome[c] EXCEPT !.says = "unchanged"]]
        \/ outcome' = [outcome EXCEPT ![c] = NoOutcome]
    BY DEF Probe
  <2> QED
    BY <2>1, <2>2, <2>3, <2>4
<1>3. /\ sessions' \in [Clients -> [kv : Nat, secret : Secrets]]
      /\ SessionsAgree'
  BY <1>1, KeyRotationAssumption DEF Probe, TypeOK, SessionsAgree, Agrees, SignedOut
<1>4. OneTx' /\ \A r \in Requests : Fits(req[r])'
  BY <1>1 DEF RotationInv, OneTx, InTx, Fits, Agrees
<1> QED
  BY <1>1, <1>2, <1>3, <1>4 DEF RotationInv, TypeOK

-----------------------------------------------------------------------------
(* Every step keeps the invariant. *)
LEMMA NextKeepsRotationInv ==
    RotationInv /\ scenario \in Scenarios /\ [Next]_vars => RotationInv'
<1> SUFFICES ASSUME RotationInv, scenario \in Scenarios, [Next]_vars
             PROVE  RotationInv'
  OBVIOUS
<1>1. ASSUME NEW r \in Requests,
             Token(r) \/ WriteStep(r) \/ Rotation(r) \/ Abort(r) \/ ConnectionLost(r)
      PROVE  RotationInv'
  <2>1. CASE Token(r)
    BY <2>1, TokenKeeps
  <2>2. CASE WriteStep(r)
    BY <2>2, VerifiedWriterKeeps, SeedKeeps, ReadRowKeeps, WriteRowKeeps,
       ScenarioWithin DEF WriteStep
  <2>3. CASE Rotation(r)
    BY <2>3, BundleKeeps, ChecksKeep, RewriteRowKeeps, CommitKeeps, PublishKeeps,
       ScenarioWithin DEF Rotation
  <2>4. CASE Abort(r) \/ ConnectionLost(r)
    BY <2>4, FailuresKeep
  <2> QED
    BY <1>1, <2>1, <2>2, <2>3, <2>4
<1>2. ASSUME NEW c \in Clients, Unlock(c) \/ Probe(c) PROVE RotationInv'
  BY <1>2, UnlockKeeps, ProbeKeeps
<1>3. CASE Crash
  BY <1>3, CrashKeeps
<1>4. CASE UNCHANGED vars
  BY <1>4 DEF vars, RotationInv, TypeOK, SessionsAgree, Agrees, OneTx, InTx, Fits
<1> QED
  BY <1>1, <1>2, <1>3, <1>4, ScenarioWithin DEF Next

(* A version number and a transaction belong together: the row changes     *)
(* only in a commit.                                                       *)
LEMMA OnlyCommitsChangeTheUser ==
  ASSUME scenario \in Scenarios, [Next]_vars, user' # user
  PROVE  \E r \in Requests : CommitTx(r)
<1>1. ASSUME NEW r \in Requests, Token(r) \/ WriteStep(r) PROVE FALSE
  BY <1>1 DEF Token, WriteStep, SignIn, Refresh, SignedIn, Refreshed, Write,
              VerifiedWriter, LoadKeyVersion, SeedCache, ReadRow, WriteRow
<1>2. ASSUME NEW r \in Requests, Rotation(r) PROVE CommitTx(r)
  BY <1>2 DEF Rotation, RotationManifest, ManifestVaults,
              BuildPasswordRotationBundle, RotateCredentials, LockUser,
              CheckVaults, CheckAttachments, RewriteRow, Commit, CommitUnheard,
              Publish
<1>3. ASSUME NEW r \in Requests, Abort(r) \/ ConnectionLost(r) PROVE FALSE
  BY <1>3 DEF Abort, ConnectionLost
<1>4. ASSUME NEW c \in Clients, Unlock(c) \/ Probe(c) PROVE FALSE
  BY <1>4 DEF Unlock, Probe
<1> QED
  BY <1>1, <1>2, <1>3, <1>4, ScenarioWithin DEF Next, vars, Crash

(* A behaviour stays in its scenario. *)
THEOREM ScenarioFixed == Spec => [](scenario \in Scenarios)
<1>1. Init => scenario \in Scenarios
  BY DEF Init
<1>2. scenario \in Scenarios /\ [Next]_vars => (scenario \in Scenarios)'
  BY DEF Next, vars
<1> QED
  BY <1>1, <1>2, PTL DEF Spec

(* The invariant holds in every reachable state. *)
THEOREM RotationInvariant == Spec => []RotationInv
  BY InitRotationInv, NextKeepsRotationInv, ScenarioFixed, PTL DEF Spec

(* The state keeps its shape and the key-version cache never runs ahead of *)
(* the row it caches.                                                      *)
THEOREM RotationTypeCorrect == Spec => []TypeOK
<1>1. RotationInv => TypeOK
  BY DEF RotationInv
<1> QED
  BY <1>1, RotationInvariant, PTL

(* A token of the current version belongs to a browser that holds the      *)
(* current keys, however rotations and sign-ins race: the comparison of    *)
(* version numbers in VerifiedWriter stands for one of keys.               *)
THEOREM TokensNameKeys == Spec => []TokenNamesKeys
<1>1. RotationInv => TokenNamesKeys
  BY DEF RotationInv, SessionsAgree, Agrees, TokenNamesKeys
<1> QED
  BY <1>1, RotationInvariant, PTL

(* rotate_user_credentials leaves no title and no file key behind under    *)
(* the old password, whatever ran beside it.                               *)
THEOREM CommitsCoverKeys == Spec => CommitCoversKeys
<1>1. RotationInv /\ scenario \in Scenarios /\ [Next]_vars =>
        [user' # user =>
           \A i \in Items : i[1] # "note" => cipher'[i] \in {None, user'.secret}]_vars
  BY CommitTxCovers, OnlyCommitsChangeTheUser
<1> QED
  BY <1>1, RotationInvariant, ScenarioFixed, PTL DEF Spec, CommitCoversKeys

-----------------------------------------------------------------------------
(* One request at a time, and nothing that hides a commit: what each step  *)
(* of a request still knows of the rows, because nobody else writes them.  *)

(* A vault has no note without a row to hold it. *)
NotesHaveRows == \A v \in Vaults : cipher[Title(v)] = None => cipher[Note(v)] = None

(* What a write is about to store keeps it so. *)
NotePut(put) ==
    \A v \in Vaults : /\ put[Title(v)] = None => put[Note(v)] = None
                      /\ put[Note(v)] \notin {Keep, None}
                           => put[Title(v)] \notin {Keep, None}

(* The versions a request has read are the row's, its key is the current   *)
(* one when its version is, and a bundle covers just what has a value.     *)
SerialRequest(x) ==
    /\ x.pc \in {"sign_in", "refresh"} => x.kv = user.kv
    /\ x.pc \in {"load_kv", "seed"} => Agrees(x.kv, x.secret)
    /\ x.pc = "seed" => x.seen = user.kv
    /\ x.pc = "read" => x.secret = user.secret
    /\ x.pc = "write" => /\ \A i \in Items : x.put[i] \in {Keep, None, user.secret}
                         /\ NotePut(x.put)
    /\ x.pc = "manifest_attachments" =>
         \A i \in Items : i \in x.items <=> i[1] # "wrap" /\ cipher[i] # None
    /\ x.pc \in {"rotate", "tx_begin"} \cup TxPcs =>
         \A i \in Items : i \in x.items <=> cipher[i] # None
    /\ x.pc = "publish" => x.kv + 1 = user.kv

SerialOK == /\ NothingUnderDeadKeys
            /\ StaleSessionsRefused
            /\ NotesHaveRows
            /\ \A r \in Requests : /\ r \notin scenario.requests => Doing(r, "idle")
                                   /\ SerialRequest(req[r])

SerialInv == Orderly => SerialOK

LEMMA InitIsSerial == Init => SerialOK
<1> SUFFICES ASSUME Init PROVE SerialOK
  OBVIOUS
<1>1. \A r \in Requests : req[r].pc = "idle"
  BY DEF Init, Idle
<1>2. \A r \in Requests : SerialRequest(req[r])
  BY <1>1 DEF SerialRequest, TxPcs
<1>3. NothingUnderDeadKeys
  BY DEF Init, NothingUnderDeadKeys
<1>4. StaleSessionsRefused /\ NotesHaveRows
  BY DEF Init, StaleSessionsRefused, NotesHaveRows
<1> QED
  BY <1>1, <1>2, <1>3, <1>4 DEF SerialOK, Doing

(* While one request acts, the others stay as they are: idle. *)
LEMMA OthersAreIdle ==
  ASSUME Orderly, SerialOK, scenario \in Scenarios, NEW r \in scenario.requests
  PROVE  \A q \in Requests \ {r} : Doing(q, "idle")
  BY DEF Orderly, SerialOK

(* Hence a step of that request need only account for itself. *)
LEMMA OneSerialRequest ==
  ASSUME Orderly, SerialOK, scenario \in Scenarios, scenario' = scenario,
         NEW r \in scenario.requests,
         \A q \in Requests \ {r} : req'[q] = req[q],
         SerialRequest(req[r])',
         NothingUnderDeadKeys', StaleSessionsRefused', NotesHaveRows'
  PROVE  SerialOK'
<1>1. ASSUME NEW q \in Requests
      PROVE  (q \notin scenario.requests => Doing(q, "idle"))' /\ SerialRequest(req[q])'
  <2>1. CASE q = r
    BY <2>1
  <2>2. CASE q # r
    <3>1. req'[q] = req[q] /\ req[q].pc = "idle"
      BY <2>2, OthersAreIdle DEF Doing
    <3> QED
      BY <3>1 DEF SerialRequest, TxPcs, Doing
  <2> QED
    BY <2>1, <2>2
<1> QED
  BY <1>1 DEF SerialOK

(* The same for a step that changes no row: the cache is still cold or the *)
(* row's, and no publication is forgotten.                                 *)
LEMMA OneSerialReader ==
  ASSUME RotationInv, Orderly, SerialOK, scenario \in Scenarios, scenario' = scenario,
         NEW r \in scenario.requests,
         \A q \in Requests \ {r} : req'[q] = req[q],
         SerialRequest(req[r])', UNCHANGED <<user, cipher>>,
         \/ cache' \in {Cold, user.kv}
         \/ cache' = cache /\ (Doing(r, "publish") => Doing(r, "publish")')
  PROVE  SerialOK'
<1>1. NothingUnderDeadKeys' /\ NotesHaveRows'
  BY DEF SerialOK, NothingUnderDeadKeys, NotesHaveRows
<1>2. StaleSessionsRefused'
  <2>1. r \in Requests
    BY ScenarioWithin
  <2> QED
    BY <2>1, OthersAreIdle DEF SerialOK, StaleSessionsRefused, Doing
<1> QED
  BY <1>1, <1>2, OneSerialRequest

(* A request that ends knows nothing that could turn out wrong. *)
LEMMA FinishIsSerial ==
  ASSUME TypeOK, NEW r \in Requests, Finish(r)
  PROVE  /\ \A q \in Requests \ {r} : req'[q] = req[q]
         /\ SerialRequest(req[r])'
<1>1. req'[r] = Idle /\ Idle.pc = "idle"
  BY DEF Finish, TypeOK, Idle
<1> QED
  BY <1>1 DEF TypeOK, Finish, SerialRequest, TxPcs

(* Tokens carry the row's version into the cache. *)
LEMMA TokenIsSerial ==
  ASSUME RotationInv, Orderly, SerialOK, scenario \in Scenarios, scenario' = scenario,
         NEW r \in scenario.requests, Token(r)
  PROVE  SerialOK'
<1>1. /\ TypeOK /\ r \in Requests /\ req[r] \in Request /\ SerialRequest(req[r])
      /\ UNCHANGED <<user, cipher>>
  BY ScenarioWithin DEF RotationInv, TypeOK, SerialOK, Token, SignIn, Refresh,
     SignedIn, Refreshed
<1>2. ASSUME NEW c \in Clients, SignIn(r, c) \/ Refresh(r, c) PROVE SerialOK'
  <2>1. /\ req'[r].pc \in {"sign_in", "refresh"} /\ req'[r].kv = user.kv
        /\ \A q \in Requests \ {r} : req'[q] = req[q]
        /\ cache' = cache /\ Doing(r, "idle")
    <3>1. CASE SignIn(r, c)
      BY <1>1, <3>1 DEF SignIn, TypeOK, Idle
    <3>2. CASE Refresh(r, c)
      BY <1>1, <3>2 DEF Refresh, TypeOK, Idle
    <3> QED
      BY <1>2, <3>1, <3>2
  <2>2. SerialRequest(req[r])'
    BY <1>1, <2>1 DEF SerialRequest, TxPcs
  <2> QED
    BY <1>1, <2>1, <2>2, OneSerialReader DEF Doing
<1>3. CASE SignedIn(r) \/ Refreshed(r)
  <2>1. cache' = user.kv /\ Finish(r)
    BY <1>1, <1>3 DEF SignedIn, Refreshed, Doing, SerialRequest
  <2> QED
    BY <1>1, <2>1, FinishIsSerial, OneSerialReader
<1> QED
  BY <1>2, <1>3, ScenarioWithin DEF Token

(* VerifiedWriter's comparison lets no other key through than the current  *)
(* one: the cache is cold, or it has the row's version.                    *)
LEMMA VerifiedWriterIsSerial ==
  ASSUME RotationInv, Orderly, SerialOK, scenario \in Scenarios, scenario' = scenario,
         NEW r \in scenario.requests, NEW c \in Clients, Write(r, c)
  PROVE  SerialOK'
<1>1. TypeOK /\ r \in Requests /\ Agrees(sessions[c].kv, sessions[c].secret)
  BY ScenarioWithin DEF RotationInv, SessionsAgree
<1>2. PICK op \in WriteOps, row \in Vaults \cup Attachments : VerifiedWriter(r, c, op, row)
  BY ScenarioWithin DEF Write
<1>3. /\ req'[r].pc = IF cache = Cold THEN "load_kv" ELSE "read"
      /\ req'[r].kv = sessions[c].kv /\ req'[r].secret = sessions[c].secret
      /\ \A q \in Requests \ {r} : req'[q] = req[q]
      /\ cache \in {Cold, sessions[c].kv} /\ Doing(r, "idle")
      /\ UNCHANGED <<user, cipher, cache>>
  BY <1>1, <1>2 DEF VerifiedWriter, TypeOK, Idle
<1>4. cache \in {Cold, user.kv}
  BY <1>3, OthersAreIdle DEF SerialOK, StaleSessionsRefused, Doing
<1>5. req'[r].pc = "read" => req'[r].secret = user.secret
  BY <1>1, <1>3, <1>4 DEF Agrees
<1>6. SerialRequest(req[r])'
  BY <1>1, <1>3, <1>5 DEF SerialRequest, TxPcs, Agrees
<1> QED
  BY <1>3, <1>6, OneSerialReader DEF Doing

(* A cold cache is filled with the row's version. *)
LEMMA SeedIsSerial ==
  ASSUME RotationInv, Orderly, SerialOK, scenario \in Scenarios, scenario' = scenario,
         NEW r \in scenario.requests, LoadKeyVersion(r) \/ SeedCache(r)
  PROVE  SerialOK'
<1>1. /\ TypeOK /\ r \in Requests /\ req[r] \in Request /\ SerialRequest(req[r])
      /\ UNCHANGED <<user, cipher>>
  BY ScenarioWithin DEF RotationInv, TypeOK, SerialOK, LoadKeyVersion, SeedCache
<1>2. CASE LoadKeyVersion(r)
  <2>1. /\ req'[r].pc = "seed" /\ req'[r].seen = user.kv
        /\ req'[r].kv = req[r].kv /\ req'[r].secret = req[r].secret
        /\ \A q \in Requests \ {r} : req'[q] = req[q]
        /\ cache' = cache /\ req[r].pc = "load_kv"
    BY <1>1, <1>2 DEF LoadKeyVersion, TypeOK, Doing, Request
  <2>2. SerialRequest(req[r])'
    BY <1>1, <2>1 DEF SerialRequest, TxPcs, Agrees
  <2> QED
    BY <1>1, <2>1, <2>2, OneSerialReader DEF Doing
<1>3. CASE SeedCache(r)
  <2>1. cache' = user.kv /\ req[r].pc = "seed" /\ req[r].seen = user.kv
    BY <1>1, <1>3 DEF SeedCache, Doing, SerialRequest
  <2>2. CASE Finish(r)
    BY <1>1, <2>1, <2>2, FinishIsSerial, OneSerialReader
  <2>3. CASE /\ req[r].seen = req[r].kv
             /\ req' = [req EXCEPT ![r].pc = "read", ![r].seen = 0]
    <3>1. /\ req'[r].pc = "read" /\ req'[r].secret = req[r].secret
          /\ \A q \in Requests \ {r} : req'[q] = req[q]
      BY <1>1, <2>3 DEF TypeOK, Request
    <3>2. req[r].secret = user.secret
      BY <1>1, <2>1, <2>3 DEF SerialRequest, Agrees
    <3>3. SerialRequest(req[r])'
      BY <1>1, <3>1, <3>2 DEF SerialRequest, TxPcs
    <3> QED
      BY <1>1, <2>1, <3>1, <3>3, OneSerialReader
  <2> QED
    BY <1>3, <2>2, <2>3 DEF SeedCache
<1> QED
  BY <1>2, <1>3

(* A handler stores its own key, which is the current one, or what it has  *)
(* read; nothing is read under another.                                    *)
LEMMA StoresCurrent ==
  ASSUME RotationInv, SerialOK, NEW r \in Requests, Doing(r, "read"), NEW put \in Stores(r)
  PROVE  /\ \A i \in Items : put[i] \in {Keep, None, user.secret}
         /\ NotePut(put)
<1> DEFINE row == req[r].row
           own == req[r].secret
<1>1. /\ own = user.secret /\ req[r].op \in WriteOps /\ own # None /\ own # Keep
      /\ req[r].op \in {"create", "rename", "meta"} => row \in Vaults
      /\ req[r].op \in {"init", "copy"} => row \in Attachments
      /\ row \in Vaults \cup Attachments
      /\ \A i \in Items : cipher[i] \in {None, own}
      /\ None # Keep
  BY KeyRotationAssumption DEF RotationInv, TypeOK, Request, Fits, WritePcs, Doing,
     SerialOK, SerialRequest, NothingUnderDeadKeys
<1> HIDE DEF row, own
<1>2. CASE req[r].op \in {"create", "rename"}
  <2>1. put = Put({Title(row)}, own) /\ row \in Vaults
    BY <1>1, <1>2 DEF Stores, row, own
  <2>2. \A v \in Vaults : put[Note(v)] = Keep /\ put[Title(v)] # None
    BY <1>1, <2>1, ItemShapes DEF Put
  <2> QED
    BY <1>1, <2>1, <2>2 DEF Put, NotePut
<1>3. CASE req[r].op = "meta"
  <2>1. Exists(row) /\ row \in Vaults
    BY <1>1, <1>3 DEF Stores, row
  <2>2. PICK t \in {own, cipher[Title(row)]}, n \in {own, None, cipher[Note(row)]} :
          put = [Put({Title(row)}, t) EXCEPT ![Note(row)] = n]
    BY <1>3, <2>1 DEF Stores, row, own
  <2>3. cipher[Title(row)] = own
    <3>1. PICK j \in Items : j[2] = row /\ j[1] # "note" /\ cipher[j] # None
      BY <2>1 DEF Exists, Row
    <3>2. j = Title(row)
      BY <2>1, <3>1, ItemShapes, KeyRotationAssumption
    <3> QED
      BY <1>1, <3>1, <3>2
  <2>4. t = own /\ n \in {own, None}
    BY <1>1, <2>1, <2>2, <2>3, ItemShapes
  <2>5. \A i \in Items : put[i] = IF i = Note(row) THEN n
                                  ELSE IF i = Title(row) THEN own ELSE Keep
    BY <2>2, <2>4 DEF Put
  <2>6. \A v \in Vaults : /\ put[Title(v)] = IF v = row THEN own ELSE Keep
                          /\ put[Note(v)] = IF v = row THEN n ELSE Keep
    BY <2>1, <2>5, ItemShapes
  <2> QED
    BY <1>1, <2>4, <2>5, <2>6 DEF NotePut
<1>4. CASE req[r].op \in {"init", "copy"}
  <2>1. PICK s \in {own} \cup {cipher[Wrap(a)] : a \in Attachments} :
          put = Put({Wrap(row)}, s)
    <3>1. CASE req[r].op = "init"
      BY <3>1 DEF Stores, row, own
    <3>2. CASE req[r].op = "copy"
      BY <3>2 DEF Stores, row, own
    <3> QED
      BY <1>4, <3>1, <3>2
  <2>2. s \in {None, own} /\ row \in Attachments
    BY <1>1, <1>4, ItemShapes
  <2>3. \A v \in Vaults : put[Note(v)] = Keep /\ put[Title(v)] = Keep
    BY <2>1, <2>2, ItemShapes DEF Put
  <2> QED
    BY <1>1, <2>1, <2>2, <2>3 DEF Put, NotePut
<1>5. CASE req[r].op = "delete"
  <2> DEFINE S == {i \in Items : Row(i) = row \/ (i[1] = "wrap" /\ VaultOf[Row(i)] = row)}
  <2>1. put = Put(S, None)
    BY <1>5 DEF Stores, row, own
  <2>2. \A v \in Vaults : Title(v) \in S <=> Note(v) \in S
    BY ItemShapes DEF Row
  <2> HIDE DEF S
  <2>3. \A v \in Vaults : put[Title(v)] = put[Note(v)] /\ put[Note(v)] \in {Keep, None}
    BY <2>1, <2>2, ItemShapes DEF Put
  <2> QED
    BY <1>1, <2>1, <2>3 DEF Put, NotePut
<1> QED
  BY <1>1, <1>2, <1>3, <1>4, <1>5 DEF WriteOps

(* A handler's read. *)
LEMMA ReadRowIsSerial ==
  ASSUME RotationInv, Orderly, SerialOK, scenario \in Scenarios, scenario' = scenario,
         NEW r \in scenario.requests, ReadRow(r)
  PROVE  SerialOK'
<1>1. /\ TypeOK /\ r \in Requests /\ Doing(r, "read")
      /\ UNCHANGED <<user, cipher, cache>>
  BY ScenarioWithin DEF RotationInv, ReadRow
<1>2. CASE Finish(r)
  BY <1>1, <1>2, FinishIsSerial, OneSerialReader DEF Doing
<1>3. ASSUME NEW put \in Stores(r),
             req' = [req EXCEPT ![r] = [Idle EXCEPT !.pc = "write", !.op = req[r].op,
                                           !.row = req[r].row, !.put = put]]
      PROVE  SerialOK'
  <2>1. /\ req'[r].pc = "write" /\ req'[r].put = put
        /\ \A q \in Requests \ {r} : req'[q] = req[q]
    BY <1>1, <1>3 DEF TypeOK, Idle
  <2>2. SerialRequest(req[r])'
    BY <1>1, <2>1, StoresCurrent DEF SerialRequest, TxPcs, NotePut
  <2> QED
    BY <1>1, <2>1, <2>2, OneSerialReader DEF Doing
<1> QED
  BY <1>2, <1>3 DEF ReadRow

(* A handler's write. *)
LEMMA WriteRowIsSerial ==
  ASSUME RotationInv, Orderly, SerialOK, scenario \in Scenarios, scenario' = scenario,
         NEW r \in scenario.requests, WriteRow(r)
  PROVE  SerialOK'
<1>1. /\ TypeOK /\ r \in Requests /\ SerialRequest(req[r]) /\ Doing(r, "write")
      /\ Finish(r) /\ UNCHANGED <<user, cache>>
      /\ NothingUnderDeadKeys /\ NotesHaveRows /\ StaleSessionsRefused
  BY ScenarioWithin DEF RotationInv, SerialOK, WriteRow
<1>2. /\ \A i \in Items : req[r].put[i] \in {Keep, None, user.secret}
      /\ NotePut(req[r].put)
  BY <1>1 DEF SerialRequest, Doing
<1>3. \/ cipher' = cipher
      \/ \A i \in Items : cipher'[i] = IF req[r].put[i] = Keep
                                       THEN cipher[i] ELSE req[r].put[i]
  BY DEF WriteRow
<1>4. NothingUnderDeadKeys'
  BY <1>1, <1>2, <1>3 DEF NothingUnderDeadKeys
<1>5. NotesHaveRows'
  BY <1>1, <1>2, <1>3, ItemShapes DEF NotesHaveRows, NotePut
<1>6. StaleSessionsRefused'
  BY <1>1, OthersAreIdle DEF StaleSessionsRefused, Doing
<1> QED
  BY <1>1, <1>4, <1>5, <1>6, FinishIsSerial, OneSerialRequest

(* The manifest and the bundle: nothing is written while they are built,   *)
(* so the bundle covers what there is.                                     *)
LEMMA BundleIsSerial ==
  ASSUME RotationInv, Orderly, SerialOK, scenario \in Scenarios, scenario' = scenario,
         NEW r \in scenario.requests,
         \/ \E c \in Clients : RotationManifest(r, c)
         \/ ManifestVaults(r)
         \/ BuildPasswordRotationBundle(r)
  PROVE  SerialOK'
<1>1. /\ TypeOK /\ r \in Requests /\ req[r] \in Request /\ SerialRequest(req[r])
      /\ UNCHANGED <<user, cipher, cache>>
  BY ScenarioWithin DEF RotationInv, TypeOK, SerialOK, RotationManifest, ManifestVaults,
     BuildPasswordRotationBundle
<1>2. ASSUME NEW c \in Clients, RotationManifest(r, c) PROVE SerialOK'
  <2>1. /\ req'[r].pc = "manifest_vaults" /\ Doing(r, "idle")
        /\ \A q \in Requests \ {r} : req'[q] = req[q]
    BY <1>1, <1>2 DEF RotationManifest, TypeOK, Idle
  <2>2. SerialRequest(req[r])'
    BY <1>1, <2>1 DEF SerialRequest, TxPcs
  <2> QED
    BY <1>1, <2>1, <2>2, OneSerialReader DEF Doing
<1>3. CASE ManifestVaults(r)
  <2>1. CASE Finish(r)
    BY <1>1, <1>3, <2>1, FinishIsSerial, OneSerialReader DEF ManifestVaults, Doing
  <2>2. CASE req' = [req EXCEPT ![r].pc = "manifest_attachments",
                                ![r].items = Stored({"title", "note"})]
    <3>1. /\ req'[r].pc = "manifest_attachments" /\ Doing(r, "manifest_vaults")
          /\ req'[r].items = Stored({"title", "note"})
          /\ \A q \in Requests \ {r} : req'[q] = req[q]
      BY <1>1, <1>3, <2>2 DEF ManifestVaults, TypeOK, Request
    <3>2. \A i \in Items : i \in req'[r].items <=> i[1] # "wrap" /\ cipher[i] # None
      BY <3>1, ItemShapes DEF Stored
    <3>3. SerialRequest(req[r])'
      BY <1>1, <3>1, <3>2 DEF SerialRequest, TxPcs
    <3> QED
      BY <1>1, <3>1, <3>3, OneSerialReader DEF Doing
  <2> QED
    BY <1>3, <2>1, <2>2 DEF ManifestVaults
<1>4. CASE BuildPasswordRotationBundle(r)
  <2>1. CASE Finish(r)
    BY <1>1, <1>4, <2>1, FinishIsSerial, OneSerialReader
       DEF BuildPasswordRotationBundle, Doing
  <2>2. ASSUME NEW s,
               req' = [req EXCEPT ![r].pc = "rotate", ![r].new = s,
                                  ![r].items = @ \cup Stored({"wrap"})]
        PROVE  SerialOK'
    <3>1. /\ req'[r].pc = "rotate" /\ Doing(r, "manifest_attachments")
          /\ req'[r].items = req[r].items \cup Stored({"wrap"})
          /\ \A q \in Requests \ {r} : req'[q] = req[q]
      BY <1>1, <1>4, <2>2 DEF BuildPasswordRotationBundle, TypeOK, Request
    <3>2. \A i \in Items : i \in req'[r].items <=> cipher[i] # None
      BY <1>1, <3>1, ItemShapes DEF Stored, SerialRequest, Doing
    <3>3. SerialRequest(req[r])'
      BY <1>1, <3>1, <3>2 DEF SerialRequest, TxPcs
    <3> QED
      BY <1>1, <3>1, <3>3, OneSerialReader DEF Doing
  <2> QED
    BY <1>4, <2>1, <2>2 DEF BuildPasswordRotationBundle
<1> QED
  BY <1>2, <1>3, <1>4

(* The checks of the handler and of the transaction. *)
LEMMA ChecksAreSerial ==
  ASSUME RotationInv, Orderly, SerialOK, scenario \in Scenarios, scenario' = scenario,
         NEW r \in scenario.requests,
         \/ RotateCredentials(r) \/ LockUser(r) \/ CheckVaults(r) \/ CheckAttachments(r)
  PROVE  SerialOK'
<1>1. /\ TypeOK /\ r \in Requests /\ req[r] \in Request /\ SerialRequest(req[r])
      /\ UNCHANGED <<user, cipher, cache>>
      /\ req[r].pc \in {"rotate", "tx_begin"} \cup TxPcs
  BY ScenarioWithin DEF RotationInv, TypeOK, SerialOK, RotateCredentials, LockUser,
     CheckVaults, CheckAttachments, Doing, TxPcs
<1>2. CASE Finish(r)
  BY <1>1, <1>2, FinishIsSerial, OneSerialReader DEF Doing, TxPcs
<1>3. ASSUME NEW pc \in {"tx_begin"} \cup TxPcs, Goto(r, pc)
      PROVE  SerialOK'
  <2>1. /\ req'[r].pc = pc /\ req'[r].items = req[r].items
        /\ \A q \in Requests \ {r} : req'[q] = req[q]
    BY <1>1, <1>3, GotoOK DEF Pcs, PostPcs
  <2>2. SerialRequest(req[r])'
    BY <1>1, <1>3, <2>1 DEF SerialRequest, TxPcs
  <2> QED
    BY <1>1, <2>1, <2>2, OneSerialReader DEF Doing, TxPcs
<1> QED
  BY <1>2, <1>3 DEF RotateCredentials, LockUser, CheckVaults, CheckAttachments, Refused,
     TxPcs

(* An UPDATE of the transaction finds its row: nothing was deleted since   *)
(* the check, and a note has its vault.                                    *)
LEMMA RewriteRowIsSerial ==
  ASSUME RotationInv, Orderly, SerialOK, scenario \in Scenarios, scenario' = scenario,
         NEW r \in scenario.requests, RewriteRow(r)
  PROVE  SerialOK'
<1>1. /\ TypeOK /\ r \in Requests /\ req[r] \in Request /\ SerialRequest(req[r])
      /\ UNCHANGED <<user, cipher, cache>> /\ Doing(r, "tx_rewrite") /\ NotesHaveRows
  BY ScenarioWithin DEF RotationInv, TypeOK, SerialOK, RewriteRow
<1>2. PICK row \in RowsLeft(r) :
        req' = IF Exists(row)
               THEN [req EXCEPT ![r].rows = @ \cup {row}]
               ELSE [req EXCEPT ![r].items = {i \in @ : Row(i) # row}]
  BY DEF RewriteRow
<1>3. /\ req'[r].pc = "tx_rewrite"
      /\ req'[r].items = IF Exists(row) THEN req[r].items
                         ELSE {i \in req[r].items : Row(i) # row}
      /\ \A q \in Requests \ {r} : req'[q] = req[q]
  <2>1. CASE Exists(row)
    BY <1>1, <1>2, <2>1 DEF TypeOK, Request, Doing
  <2>2. CASE ~Exists(row)
    BY <1>1, <1>2, <2>2 DEF TypeOK, Request, Doing
  <2> QED
    BY <2>1, <2>2
<1>4. ASSUME NEW i \in Items PROVE i \in req'[r].items <=> cipher[i] # None
  <2>1. i \in req[r].items <=> cipher[i] # None
    BY <1>1 DEF SerialRequest, Doing, TxPcs
  <2>2. cipher[i] # None /\ Row(i) = row => Exists(row)
    <3>1. CASE i[1] # "note"
      BY <3>1 DEF Exists
    <3>2. CASE i[1] = "note" /\ cipher[i] # None
      <4>1. i[2] \in Vaults /\ i = Note(i[2]) /\ cipher[Title(i[2])] # None
        BY <1>1, <3>2, ItemShapes DEF NotesHaveRows
      <4> QED
        BY <4>1, ItemShapes DEF Exists, Row
    <3> QED
      BY <3>1, <3>2
  <2> QED
    BY <1>3, <2>1, <2>2
<1>5. SerialRequest(req[r])'
  BY <1>1, <1>3, <1>4 DEF SerialRequest, TxPcs
<1> QED
  BY <1>1, <1>3, <1>5, OneSerialReader DEF Doing

(* The commit rewrites every column with a value, and its handler lives to *)
(* publish the version.                                                    *)
LEMMA CommitIsSerial ==
  ASSUME RotationInv, Orderly, SerialOK, scenario \in Scenarios, scenario' = scenario,
         NEW r \in scenario.requests, Commit(r) \/ CommitUnheard(r)
  PROVE  SerialOK'
<1>1. /\ TypeOK /\ r \in Requests /\ req[r] \in Request /\ SerialRequest(req[r])
      /\ CommitTx(r) /\ Doing(r, "tx_rewrite") /\ Fits(req[r]) /\ NotesHaveRows
  BY ScenarioWithin DEF RotationInv, TypeOK, SerialOK, Commit, CommitUnheard, CommitTx
<1>2. Commit(r)
  BY DEF Orderly, CommitUnheard
<1>3. /\ req'[r].pc = "publish" /\ req'[r].kv = req[r].kv
      /\ \A q \in Requests \ {r} : req'[q] = req[q]
  BY <1>1, <1>2 DEF Commit, TypeOK, Request
<1>4. /\ user'.kv = req[r].kv + 1 /\ user'.secret = req[r].new
      /\ \A i \in Items : cipher'[i] = IF i \in req[r].items THEN req[r].new
                                       ELSE cipher[i]
      /\ \A i \in Items : i \in req[r].items <=> cipher[i] # None
      /\ req[r].new # None
  BY <1>1, KeyRotationAssumption DEF CommitTx, SerialRequest, Doing, TxPcs, Request
<1>5. NothingUnderDeadKeys'
  BY <1>4 DEF NothingUnderDeadKeys
<1>6. StaleSessionsRefused'
  BY <1>1, <1>3 DEF StaleSessionsRefused, Doing
<1>7. NotesHaveRows'
  BY <1>1, <1>4, ItemShapes DEF NotesHaveRows
<1>8. SerialRequest(req[r])'
  BY <1>3, <1>4 DEF SerialRequest, TxPcs
<1> QED
  BY <1>1, <1>3, <1>5, <1>6, <1>7, <1>8, OneSerialRequest

(* The version just committed goes into the cache. *)
LEMMA PublishIsSerial ==
  ASSUME RotationInv, Orderly, SerialOK, scenario \in Scenarios, scenario' = scenario,
         NEW r \in scenario.requests, Publish(r)
  PROVE  SerialOK'
<1>1. /\ TypeOK /\ r \in Requests /\ Finish(r) /\ UNCHANGED <<user, cipher>>
      /\ cache' = user.kv
  BY ScenarioWithin DEF RotationInv, SerialOK, Publish, SerialRequest, Doing
<1> QED
  BY <1>1, FinishIsSerial, OneSerialReader

(* A failed statement ends its request; only a dropped handler could fail  *)
(* between the commit and the publication.  A browser that stops waiting   *)
(* does not stop the handler.                                              *)
LEMMA FailuresAreSerial ==
  ASSUME RotationInv, Orderly, SerialOK, scenario \in Scenarios, scenario' = scenario,
         NEW r \in scenario.requests, Abort(r) \/ ConnectionLost(r)
  PROVE  SerialOK'
<1>1. /\ TypeOK /\ r \in Requests /\ req[r] \in Request /\ SerialRequest(req[r])
      /\ UNCHANGED <<user, cipher, cache>>
  BY ScenarioWithin DEF RotationInv, TypeOK, SerialOK, Abort, ConnectionLost
<1>2. CASE Abort(r)
  BY <1>1, <1>2, FinishIsSerial, OneSerialReader DEF Abort, Orderly, Doing
<1>3. CASE ConnectionLost(r)
  <2>1. /\ req'[r] = [req[r] EXCEPT !.client = None]
        /\ \A q \in Requests \ {r} : req'[q] = req[q]
    BY <1>1, <1>3 DEF ConnectionLost, TypeOK
  <2>2. /\ req'[r].pc = req[r].pc /\ req'[r].kv = req[r].kv
        /\ req'[r].items = req[r].items /\ req[r].pc \in PostPcs
    BY <1>1, <1>3, <2>1 DEF ConnectionLost, Request
  <2>3. SerialRequest(req[r])'
    BY <1>1, <2>2 DEF SerialRequest, TxPcs, PostPcs
  <2> QED
    BY <1>1, <2>1, <2>2, <2>3, OneSerialReader DEF Doing
<1> QED
  BY <1>2, <1>3

(* The process starts again, with a cold cache. *)
LEMMA CrashIsSerial ==
  ASSUME RotationInv, SerialOK, scenario' = scenario, Crash
  PROVE  SerialOK'
<1>1. /\ \A r \in Requests : req'[r].pc = "idle"
      /\ cache' = Cold /\ UNCHANGED <<user, cipher>>
  BY DEF Crash, Idle
<1>2. \A r \in Requests : SerialRequest(req[r])' /\ Doing(r, "idle")'
  BY <1>1 DEF SerialRequest, TxPcs, Doing
<1> QED
  BY <1>1, <1>2 DEF SerialOK, NothingUnderDeadKeys, StaleSessionsRefused, NotesHaveRows

(* With one request at a time, every step keeps what it knows true. *)
LEMMA NextIsSerial ==
    RotationInv /\ scenario \in Scenarios /\ SerialInv /\ [Next]_vars => SerialInv'
<1> SUFFICES ASSUME RotationInv, scenario \in Scenarios, SerialInv, [Next]_vars, Orderly'
             PROVE  SerialOK'
  BY DEF SerialInv
<1>1. scenario' = scenario /\ Orderly /\ SerialOK
  BY DEF Next, vars, Orderly, Faults, SerialInv
<1>2. ASSUME NEW r \in scenario.requests,
             Token(r) \/ WriteStep(r) \/ Rotation(r) \/ Abort(r) \/ ConnectionLost(r)
      PROVE  SerialOK'
  <2>1. CASE WriteStep(r)
    BY <1>1, <2>1, VerifiedWriterIsSerial, SeedIsSerial, ReadRowIsSerial,
       WriteRowIsSerial, ScenarioWithin DEF WriteStep
  <2>2. CASE Rotation(r)
    BY <1>1, <2>2, BundleIsSerial, ChecksAreSerial, RewriteRowIsSerial, CommitIsSerial,
       PublishIsSerial, ScenarioWithin DEF Rotation
  <2> QED
    BY <1>1, <1>2, <2>1, <2>2, TokenIsSerial, FailuresAreSerial
<1>3. ASSUME NEW c \in Clients, Unlock(c) \/ Probe(c) PROVE SerialOK'
  <2>1. UNCHANGED <<user, cipher, cache, req>>
    BY <1>3 DEF Unlock, Probe
  <2> QED
    BY <1>1, <2>1 DEF SerialOK, NothingUnderDeadKeys, StaleSessionsRefused, NotesHaveRows,
       Doing, SerialRequest, Agrees
<1>4. CASE Crash
  BY <1>1, <1>4, CrashIsSerial
<1>5. CASE UNCHANGED vars
  BY <1>1, <1>5 DEF vars, SerialOK, NothingUnderDeadKeys, StaleSessionsRefused,
     NotesHaveRows, Doing, SerialRequest, Agrees
<1> QED
  BY <1>2, <1>3, <1>4, <1>5, ScenarioWithin DEF Next

(* The invariant of orderly behaviours. *)
THEOREM SerialRotations == Spec => []SerialInv
<1>1. Init => SerialInv
  BY InitIsSerial DEF SerialInv
<1> QED
  BY <1>1, NextIsSerial, RotationInvariant, ScenarioFixed, PTL DEF Spec

(* Rotations one after the other, from any number of browsers, with writes *)
(* of stale sessions, cold caches, failed statements, restarts and lost    *)
(* connections between them, leave no column under a password that is no   *)
(* longer in force.                                                        *)
THEOREM NothingIsStranded == Spec => []SerialStrandsNothing
<1>1. SerialInv => SerialStrandsNothing
  BY DEF SerialInv, SerialOK, SerialStrandsNothing
<1> QED
  BY <1>1, SerialRotations, PTL

(* In the same behaviours the cache of VerifiedWriter is cold or current   *)
(* whenever a request can ask it, so no session of an older version gets   *)
(* through.                                                                *)
THEOREM StaleTokensAreRefused == Spec => []SerialRefusesStale
<1>1. SerialInv => SerialRefusesStale
  BY DEF SerialInv, SerialOK, SerialRefusesStale
<1> QED
  BY <1>1, SerialRotations, PTL
=============================================================================
