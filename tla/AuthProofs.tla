------------------------------ MODULE AuthProofs ------------------------------
(***************************************************************************)
(* Proofs about Auth, for any number of clients, slots, names and          *)
(* credentials: credentials follow their account, RAM and NVM agree,       *)
(* sessions are current, nobody is locked out, and no permission comes     *)
(* from nowhere.                                                           *)
(*                                                                         *)
(* The properties of Auth speak of the moments between requests.  Their    *)
(* inductive form speaks of the accounts as they are going to be if the    *)
(* request in progress fails: a user being deleted still counts, one being *)
(* added does not count yet.                                               *)
(***************************************************************************)
EXTENDS Auth, WellFoundedInduction, TLAPS

Adding == pc \in {"add_cred", "add_index"}
Deleting == pc \in {"del_index", "del_cred"}

\* The accounts, with the one that a deletion may yet restore.
Accounts == IF Deleting THEN [users EXCEPT ![op.slot] = op.saved] ELSE users

\* The accounts that the index in NVM has.
InIndex ==
  IF pc \in {"add_cred", "add_index", "del_undo"} THEN [users EXCEPT ![op.slot] = Empty]
  ELSE IF pc = "del_index" THEN [users EXCEPT ![op.slot] = op.saved]
  ELSE users

\* Where the request in progress is, and that nothing goes on before the boot.
JobInv ==
  /\ Adding =>
       /\ users[op.slot] # Empty
       /\ ~users[op.slot].active
       /\ users[op.slot].cred = (op.secret # None)
       /\ given[op.slot] = {}
  /\ pc = "add_cred" => op.secret # None
  /\ pc = "add_index" /\ op.secret # None => creds[op.slot] = op.secret
  /\ pc = "add_undo" => users[op.slot] = Empty
  /\ Deleting => users[op.slot] = Empty /\ op.saved # Empty
  /\ pc = "del_undo" => users[op.slot] = op.saved /\ op.saved # Empty
  /\ ~up => /\ \A s \in Slot : users[s] = Empty
            /\ \A c \in Ctx : session[c] = NoSession

\* What an account was given is in NVM, and RAM knows of it.
CredInv ==
  \A s \in Slot : given[s] # {} =>
    /\ creds[s] \in given[s]
    /\ up => Accounts[s] # Empty /\ Accounts[s].cred
    /\ ~up => index[s] # Empty

SyncInv == up /\ ~unsynced => index = Persisted(InIndex)

SessionInv ==
  \A c \in Ctx \ stale : LoggedIn(c) =>
    /\ connected[c]
    /\ Accounts[Self(c)] # Empty
    /\ Accounts[Self(c)].active
    /\ Accounts[Self(c)].perm = session[c].perm
    /\ \A d \in Ctx \ stale : LoggedIn(d) /\ Self(d) = Self(c) => d = c

LockInv ==
  \A s \in Slot : Accounts[s] # Empty /\ Accounts[s].active =>
    \E c \in Ctx : LoggedIn(c) /\ Self(c) = s

IInv == TypeOK /\ JobInv /\ CredInv /\ SyncInv /\ SessionInv /\ LockInv

(***************************************************************************)
(* Accounts and what is made of them.                                      *)
(***************************************************************************)
Table == [Slot -> User \union {Empty}]

LEMMA EmptyIsNone ==
  /\ \A u \in User : u # Empty
  /\ \A r \in Stored : r # Empty
  /\ \A w \in Session : w # NoSession
  /\ \A j \in Job : j # NoJob
<1>1. \A u \in User : u.name # None
  BY AuthAssumption DEF User
<1>2. \A r \in Stored : r.name # None
  BY AuthAssumption DEF Stored
<1>3. \A w \in Session : w.user # 0
  BY AuthAssumption DEF Session, Slot
<1>4. \A j \in Job : j.slot # 0
  BY AuthAssumption DEF Job, Slot
<1> QED
  BY <1>1, <1>2, <1>3, <1>4 DEF Empty, NoSession, NoJob

\* wh_Auth_BaseUserAdd takes the first slot without a user.
LEMMA FreeSlot == ASSUME Free # {} PROVE FirstFree \in Slot /\ users[FirstFree] = Empty
<1> DEFINE Less == {ss \in Nat \X Nat : ss[1] < ss[2]}
<1>1. Free \subseteq Nat
  BY AuthAssumption DEF Free, Slot
<1>2. PICK s \in Free : \A t \in Free : <<t, s>> \notin Less
  <2>1. IsWellFoundedOn(Less, Nat)
    BY NatLessThanWellFounded DEF OpToRel
  <2> QED
    BY <1>1, <2>1, WFMin
<1>3. ASSUME NEW t \in Free PROVE s <= t
  <2>1. s \in Nat /\ t \in Nat
    BY <1>1
  <2>2. CASE t < s
    <3>1. <<t, s>> \in Nat \X Nat /\ <<t, s>>[1] = t /\ <<t, s>>[2] = s
      BY <2>1
    <3>2. <<t, s>> \in Less
      BY <2>2, <3>1
    <3> QED
      BY <1>2, <3>2
  <2> QED
    BY <2>1, <2>2
<1>4. FirstFree \in Free
  BY <1>2, <1>3 DEF FirstFree
<1> QED
  BY <1>4 DEF Free

LEMMA PersistedOK == ASSUME NEW us \in Table PROVE Persisted(us) \in [Slot -> Stored \union {Empty}]
<1>1. ASSUME NEW s \in Slot, us[s] # Empty
      PROVE  [name |-> us[s].name, perm |-> us[s].perm] \in Stored
  BY <1>1 DEF Table, User, Stored
<1> QED
  BY <1>1 DEF Persisted

\* What a slot persists as tells whether it is taken.
LEMMA PersistedEmpty ==
  ASSUME NEW us \in Table, NEW s \in Slot
  PROVE  Persisted(us)[s] = Empty <=> us[s] = Empty
<1>1. CASE us[s] = Empty
  BY <1>1 DEF Persisted
<1>2. CASE us[s] # Empty
  <2>1. Persisted(us)[s] = [name |-> us[s].name, perm |-> us[s].perm]
    BY <1>2 DEF Persisted
  <2>2. [name |-> us[s].name, perm |-> us[s].perm] \in Stored
    BY <1>2 DEF Table, User, Stored
  <2> QED
    BY <1>2, <2>1, <2>2, EmptyIsNone
<1> QED
  BY <1>1, <1>2

\* Only names and permissions are persisted.
LEMMA PersistedSame ==
  ASSUME NEW us \in Table, NEW vs \in Table,
         \A s \in Slot : /\ us[s] = Empty <=> vs[s] = Empty
                         /\ us[s] # Empty => us[s].name = vs[s].name /\ us[s].perm = vs[s].perm
  PROVE  Persisted(us) = Persisted(vs)
BY DEF Persisted

LEMMA LoadedOK ==
  ASSUME TypeOK
  PROVE  /\ Loaded \in Table
         /\ \A s \in Slot :
              /\ Loaded[s] = Empty <=> index[s] = Empty
              /\ Loaded[s] # Empty => /\ Loaded[s].name = index[s].name
                                      /\ Loaded[s].perm = index[s].perm
                                      /\ Loaded[s].cred = (creds[s] # None)
                                      /\ ~Loaded[s].active
<1>1. ASSUME NEW s \in Slot, index[s] # Empty
      PROVE  [name |-> index[s].name, perm |-> index[s].perm,
              cred |-> creds[s] # None, active |-> FALSE] \in User
  BY <1>1 DEF TypeOK, Stored, User
<1> QED
  BY <1>1, EmptyIsNone DEF Loaded, Table

LEMMA DeactivatedOK ==
  ASSUME users \in Table, NEW s \in Slot
  PROVE  /\ Deactivated(s) \in Table
         /\ \A t \in Slot \ {s} : Deactivated(s)[t] = users[t]
         /\ users[s] = Empty => Deactivated(s)[s] = Empty
         /\ users[s] # Empty => /\ Deactivated(s)[s] # Empty
                                /\ Deactivated(s)[s].name = users[s].name
                                /\ Deactivated(s)[s].perm = users[s].perm
                                /\ Deactivated(s)[s].cred = users[s].cred
                                /\ ~Deactivated(s)[s].active
<1>1. CASE users[s] = Empty
  BY <1>1 DEF Deactivated
<1>2. CASE users[s] # Empty
  <2>1. users[s] \in User
    BY <1>2 DEF Table
  <2>2. [users[s] EXCEPT !.active = FALSE] \in User
    BY <2>1 DEF User
  <2>3. [users[s] EXCEPT !.active = FALSE] # Empty
    BY <2>2, EmptyIsNone
  <2>4. Deactivated(s) = [users EXCEPT ![s] = [users[s] EXCEPT !.active = FALSE]]
    BY <1>2 DEF Deactivated
  <2> QED
    BY <1>2, <2>1, <2>2, <2>3, <2>4 DEF Table, User
<1> QED
  BY <1>1, <1>2

LEMMA TypeFacts ==
  ASSUME TypeOK
  PROVE  /\ users \in Table
         /\ pc # "idle" => /\ op \in Job /\ op.slot \in Slot /\ up
                           /\ op.secret \in Secret \union {None}
                           /\ op.saved \in User \union {Empty}
         /\ Accounts \in Table
         /\ \A c \in Ctx : LoggedIn(c) => Self(c) \in Slot
<1>1. users \in Table
  BY DEF TypeOK, Table
<1>2. pc # "idle" => /\ op \in Job /\ op.slot \in Slot /\ up
                     /\ op.secret \in Secret \union {None}
                     /\ op.saved \in User \union {Empty}
  BY DEF TypeOK, Job
<1>3. Accounts \in Table
  BY <1>1, <1>2 DEF Accounts, Deleting, Table
<1>4. \A c \in Ctx : LoggedIn(c) => Self(c) \in Slot
  BY DEF TypeOK, LoggedIn, Self, Session
<1> QED
  BY <1>1, <1>2, <1>3, <1>4

\* Between requests.
LEMMA IdleFacts ==
  ASSUME pc = "idle" PROVE Accounts = users /\ InIndex = users /\ ~Adding /\ ~Deleting
BY DEF Accounts, InIndex, Adding, Deleting

\* A step that leaves the request in progress and the accounts alone.
LEMMA SameAccounts ==
  ASSUME UNCHANGED <<users, pc, op>> PROVE UNCHANGED <<Accounts, InIndex, Adding, Deleting>>
BY DEF Accounts, InIndex, Adding, Deleting

(***************************************************************************)
(* The invariant is what the properties say between requests.              *)
(***************************************************************************)
LEMMA Means == IInv => OwnCredential /\ IndexInSync /\ SessionIsCurrent
<1> SUFFICES ASSUME IInv, pc = "idle"
             PROVE  OwnCredential /\ IndexInSync /\ SessionIsCurrent
  BY DEF OwnCredential, IndexInSync, SessionIsCurrent
<1>1. Accounts = users /\ InIndex = users
  BY IdleFacts
<1>2. OwnCredential
  BY DEF IInv, CredInv, OwnCredential
<1>3. IndexInSync
  BY <1>1 DEF IInv, CredInv, SyncInv, IndexInSync
<1>4. SessionIsCurrent
  BY <1>1 DEF IInv, SessionInv, SessionIsCurrent, SessionsOf
<1> QED
  BY <1>2, <1>3, <1>4

LEMMA MeansNoLockout == IInv => NoLockout
<1> SUFFICES ASSUME IInv, NEW s \in Slot, users[s] # Empty, users[s].active
             PROVE  SessionsOf(s) # {}
  BY DEF NoLockout
<1>1. Accounts[s] = users[s]
  BY TypeFacts DEF IInv, JobInv, Accounts, Table
<1> QED
  BY <1>1 DEF IInv, LockInv, SessionsOf

(***************************************************************************)
(* Connections and sessions.                                               *)
(***************************************************************************)
LEMMA InitOK == Init => IInv
<1> SUFFICES ASSUME Init PROVE IInv
  OBVIOUS
<1>0. 1 \in Slot /\ [name |-> Founder, perm |-> Root] \in Stored
  BY AuthAssumption DEF Slot, Stored, Root, Perm
<1>1. TypeOK
  <2>1. index \in [Slot -> Stored \union {Empty}]
    BY <1>0 DEF Init
  <2>2. creds \in [Slot -> Secret \union {None}] /\ given \in [Slot -> SUBSET Secret]
    BY DEF Init
  <2>3. /\ users \in [Slot -> User \union {Empty}]
        /\ session \in [Ctx -> Session \union {NoSession}]
        /\ connected \in [Ctx -> BOOLEAN]
    BY DEF Init
  <2>4. /\ up \in BOOLEAN /\ unsynced \in BOOLEAN /\ stale \subseteq Ctx
        /\ pc = "idle" /\ pc \in Pc /\ op = NoJob
    BY DEF Init, Pc
  <2> QED
    BY <2>1, <2>2, <2>3, <2>4 DEF TypeOK
<1>2. JobInv
  BY DEF Init, JobInv, Adding, Deleting
<1>3. CredInv
  BY <1>0, EmptyIsNone DEF Init, CredInv
<1>4. SyncInv /\ SessionInv /\ LockInv
  BY DEF Init, SyncInv, SessionInv, LockInv, LoggedIn, Accounts, Deleting
<1> QED
  BY <1>1, <1>2, <1>3, <1>4 DEF IInv

LEMMA BootOK == ASSUME IInv, Boot PROVE IInv'
<1>0. pc = "idle" /\ pc' = "idle"
  BY DEF Boot, IInv, TypeOK
<1>1. TypeOK'
  BY LoadedOK DEF Boot, IInv, TypeOK, Table, nvm
<1>2. Accounts' = Loaded /\ InIndex' = Loaded /\ ~Adding' /\ ~Deleting'
  BY <1>0, IdleFacts DEF Boot, Accounts, InIndex, Adding, Deleting
<1>3. JobInv'
  BY <1>0, <1>2 DEF Boot, JobInv
<1>4. CredInv'
  <2> SUFFICES ASSUME NEW s \in Slot, given'[s] # {}
               PROVE  creds'[s] \in given'[s] /\ Loaded[s] # Empty /\ Loaded[s].cred
    BY <1>2 DEF Boot, CredInv
  <2>1. given' = given /\ creds' = creds /\ ~up
    BY DEF Boot, nvm
  <2>2. creds[s] \in given[s] /\ index[s] # Empty
    BY <2>1 DEF IInv, CredInv
  <2>3. creds[s] # None
    BY <2>2, AuthAssumption DEF IInv, TypeOK
  <2>4. TypeOK
    BY DEF IInv
  <2> QED BY <2>1, <2>2, <2>3, <2>4, LoadedOK
<1>5. SyncInv'
  <2>1. index = Persisted(Loaded)
    <3>1. ASSUME NEW s \in Slot PROVE index[s] = Persisted(Loaded)[s]
      BY LoadedOK DEF IInv, TypeOK, Persisted, Stored
    <3> QED
      BY <3>1, PersistedOK, LoadedOK DEF IInv, TypeOK
  <2> QED
    BY <1>2, <2>1 DEF Boot, SyncInv, nvm
<1>6. SessionInv'
  BY DEF Boot, IInv, JobInv, SessionInv, LoggedIn
<1>7. LockInv'
  BY <1>2, LoadedOK DEF Boot, IInv, LockInv
<1> QED
  BY <1>1, <1>3, <1>4, <1>5, <1>6, <1>7 DEF IInv

LEMMA ConnectOK == ASSUME IInv, NEW c \in Ctx, Connect(c) PROVE IInv'
<1>1. TypeOK'
  BY DEF Connect, IInv, TypeOK, nvm
<1>2. UNCHANGED <<Accounts, InIndex, Adding, Deleting>>
  BY SameAccounts DEF Connect
<1>3. JobInv' /\ CredInv' /\ SyncInv'
  BY <1>2 DEF Connect, IInv, JobInv, CredInv, SyncInv, nvm, Persisted
<1>4. SessionInv' /\ LockInv'
  BY <1>2 DEF Connect, IInv, TypeOK, SessionInv, LockInv, LoggedIn, Self
<1> QED
  BY <1>1, <1>3, <1>4 DEF IInv

\* Deactivating a user changes nothing that is persisted.
LEMMA DeactivatedSync ==
  ASSUME users \in Table, NEW s \in Slot
  PROVE  Persisted(Deactivated(s)) = Persisted(users)
BY DeactivatedOK, PersistedSame

\* What a step that only deactivates a user and ends sessions keeps.
LEMMA DeactivateOK ==
  ASSUME IInv, pc = "idle", up, NEW s \in Slot, users' = Deactivated(s),
         UNCHANGED <<nvm, up, pc, op, given, unsynced>>,
         session' \in [Ctx -> Session \union {NoSession}],
         connected' \in [Ctx -> BOOLEAN],
         stale' \subseteq Ctx,
         \A c \in Ctx \ stale' : session'[c] # NoSession =>
           /\ c \notin stale /\ session'[c] = session[c] /\ connected'[c] = connected[c]
           /\ Self(c) # s,
         \A c \in Ctx : session'[c] = session[c] \/ (session'[c] = NoSession /\ Self(c) = s)
  PROVE  IInv'
<1>1. users \in Table
  BY TypeFacts DEF IInv
<1>2. TypeOK'
  BY <1>1, DeactivatedOK DEF IInv, TypeOK, nvm, Table
<1>3. Accounts = users /\ InIndex = users /\ ~Adding /\ ~Deleting
  BY IdleFacts
<1>4. Accounts' = Deactivated(s) /\ InIndex' = Deactivated(s) /\ ~Adding' /\ ~Deleting'
  BY DEF Accounts, InIndex, Adding, Deleting
<1>5. JobInv'
  BY <1>4 DEF JobInv
<1>6. CredInv'
  BY <1>1, <1>3, <1>4, DeactivatedOK DEF IInv, CredInv, nvm
<1>7. SyncInv'
  BY <1>1, <1>3, <1>4, DeactivatedSync DEF IInv, SyncInv, nvm
<1>8. SessionInv'
  BY <1>1, <1>3, <1>4, DeactivatedOK, TypeFacts DEF IInv, SessionInv, LoggedIn, Self
<1>9. LockInv'
  BY <1>1, <1>3, <1>4, DeactivatedOK DEF IInv, LockInv, LoggedIn, Self
<1> QED
  BY <1>2, <1>5, <1>6, <1>7, <1>8, <1>9 DEF IInv

LEMMA DisconnectOK == ASSUME IInv, NEW c \in Ctx, Disconnect(c) PROVE IInv'
<1>1. CASE LoggedIn(c)
  <2>1. Self(c) \in Slot
    BY <1>1, TypeFacts DEF IInv
  <2>2. session' \in [Ctx -> Session \union {NoSession}] /\ connected' \in [Ctx -> BOOLEAN]
    BY DEF Disconnect, IInv, TypeOK
  <2>3. stale' = (stale \union SessionsOf(Self(c))) \ {c} /\ stale' \subseteq Ctx
    BY <1>1 DEF Disconnect, IInv, TypeOK, SessionsOf
  <2> QED
    BY <1>1, <2>1, <2>2, <2>3, DeactivateOK
    DEF Disconnect, Serving, IInv, TypeOK, LoggedIn, SessionsOf
<1>2. CASE ~LoggedIn(c)
  <2>1. session' = session
    BY <1>2 DEF Disconnect, LoggedIn, IInv, TypeOK
  <2>2. UNCHANGED <<Accounts, InIndex, Adding, Deleting>>
    BY <1>2, SameAccounts DEF Disconnect
  <2>3. TypeOK'
    BY <1>2, <2>1 DEF Disconnect, IInv, TypeOK, nvm
  <2>4. JobInv' /\ CredInv' /\ SyncInv'
    BY <1>2, <2>1, <2>2 DEF Disconnect, IInv, JobInv, CredInv, SyncInv, nvm, Persisted
  <2>5. SessionInv' /\ LockInv'
    BY <1>2, <2>1, <2>2 DEF Disconnect, IInv, TypeOK, SessionInv, LockInv, LoggedIn, Self
  <2> QED
    BY <2>3, <2>4, <2>5 DEF IInv
<1> QED
  BY <1>1, <1>2

LEMMA LogoutOK == ASSUME IInv, NEW c \in Ctx, NEW s \in Slot, Logout(c, s) PROVE IInv'
<1>1. session' \in [Ctx -> Session \union {NoSession}] /\ connected' \in [Ctx -> BOOLEAN]
  BY DEF Logout, IInv, TypeOK
<1>2. stale' \subseteq Ctx
  BY DEF Logout, IInv, TypeOK, SessionsOf
<1>3. CASE s = Self(c)
  BY <1>1, <1>2, <1>3, DeactivateOK DEF Logout, Serving, IInv, TypeOK, LoggedIn, SessionsOf
<1>4. CASE s # Self(c)
  BY <1>1, <1>2, <1>4, DeactivateOK DEF Logout, Serving, IInv, TypeOK, LoggedIn, SessionsOf
<1> QED
  BY <1>3, <1>4

LEMMA LoginOK ==
  ASSUME IInv, NEW c \in Ctx, NEW n \in Name, NEW k \in Secret, Login(c, n, k) PROVE IInv'
<1>1. PICK s \in Named(n) :
        /\ users[s].cred
        /\ creds[s] = k
        /\ ~users[s].active
        /\ users' = [users EXCEPT ![s].active = TRUE]
        /\ session' = [session EXCEPT ![c] = [user |-> s, perm |-> users[s].perm]]
  BY DEF Login
<1>2. s \in Slot /\ users[s] # Empty /\ users \in Table /\ users[s] \in User
  BY TypeFacts DEF IInv, Named, Table
<1> DEFINE U == [users[s] EXCEPT !.active = TRUE]
<1>3. /\ U \in User /\ U # Empty /\ U.active
      /\ U.name = users[s].name /\ U.perm = users[s].perm /\ U.cred = users[s].cred
  BY <1>2, EmptyIsNone DEF User
<1>4. users' = [users EXCEPT ![s] = U] /\ users' \in Table
  BY <1>1, <1>2, <1>3 DEF Table
<1> DEFINE W == [user |-> s, perm |-> users[s].perm]
<1>5. W \in Session /\ W # NoSession /\ W.user = s /\ W.perm = U.perm
  BY <1>2, <1>3, EmptyIsNone DEF Session, User
<1> HIDE DEF U, W
<1>6. session' = [session EXCEPT ![c] = W]
  BY <1>1 DEF W
<1>7. pc = "idle" /\ pc' = "idle" /\ up /\ connected[c] /\ ~LoggedIn(c)
  BY DEF Login, Serving
<1>8. Accounts = users /\ InIndex = users /\ ~Adding /\ ~Deleting
  BY <1>7, IdleFacts
<1>9. Accounts' = users' /\ InIndex' = users' /\ ~Adding' /\ ~Deleting'
  BY <1>7 DEF Accounts, InIndex, Adding, Deleting
<1>10. TypeOK'
  BY <1>4, <1>5, <1>6 DEF Login, IInv, TypeOK, nvm, Table
<1>11. JobInv'
  BY <1>7, <1>9 DEF Login, JobInv
<1>12. CredInv'
  BY <1>2, <1>3, <1>4, <1>8, <1>9 DEF Login, IInv, CredInv, nvm, Table
<1>13. SyncInv'
  <2>1. Persisted(users') = Persisted(users)
    BY <1>2, <1>3, <1>4, PersistedSame DEF Table
  <2> QED
    BY <1>8, <1>9, <2>1 DEF Login, IInv, SyncInv, nvm
<1>14. SessionInv'
  <2>1. ASSUME NEW d \in Ctx \ stale, LoggedIn(d) PROVE Self(d) # s
    BY <1>1, <1>8, <2>1 DEF IInv, SessionInv
  <2>2. \A d \in Ctx : session'[d] = IF d = c THEN W ELSE session[d]
    BY <1>6 DEF IInv, TypeOK
  <2> QED
    BY <1>2, <1>3, <1>4, <1>5, <1>7, <1>8, <1>9, <2>1, <2>2
    DEF Login, IInv, TypeOK, SessionInv, LoggedIn, Self, Table
<1>15. LockInv'
  BY <1>2, <1>3, <1>4, <1>5, <1>6, <1>7, <1>8, <1>9
  DEF IInv, TypeOK, LockInv, LoggedIn, Self, Table
<1> QED
  BY <1>10, <1>11, <1>12, <1>13, <1>14, <1>15 DEF IInv

(***************************************************************************)
(* Adding a user.                                                          *)
(***************************************************************************)
LEMMA UserAddOK ==
  ASSUME IInv, NEW c \in Ctx, NEW n \in Name, NEW p \in Perms,
         NEW k \in Secret \union {None}, UserAdd(c, n, p, k)
  PROVE  IInv'
<1> DEFINE U == [name |-> n, perm |-> p, cred |-> k # None, active |-> FALSE]
           f == FirstFree
           J == [slot |-> f, secret |-> k, saved |-> Empty]
<1>1. f \in Slot /\ users[f] = Empty /\ users \in Table
  BY FreeSlot, TypeFacts DEF UserAdd, IInv
<1>2. /\ U \in User /\ U # Empty /\ ~U.active /\ U.cred = (k # None)
  BY EmptyIsNone, AuthAssumption DEF User
<1>3. J \in Job /\ J.slot = f /\ J.secret = k /\ J.saved = Empty
  BY <1>1 DEF Job
<1>4. users' = [users EXCEPT ![f] = U] /\ op' = J
  BY DEF UserAdd
<1>5. /\ pc = "idle" /\ up
      /\ pc' = IF k # None THEN "add_cred" ELSE "add_index"
      /\ UNCHANGED <<nvm, up, session, connected, given, stale, unsynced>>
  BY DEF UserAdd, Allowed, Serving
<1> HIDE DEF U, f, J
<1>6. users' \in Table
  BY <1>1, <1>2, <1>4 DEF Table
<1>7. Accounts = users /\ InIndex = users /\ ~Adding /\ ~Deleting
  BY <1>5, IdleFacts
<1>8. /\ Accounts' = users' /\ Adding' /\ ~Deleting'
      /\ InIndex' = [users' EXCEPT ![f] = Empty]
  BY <1>3, <1>4, <1>5 DEF Accounts, InIndex, Adding, Deleting
<1>9. InIndex' = users
  BY <1>1, <1>4, <1>6, <1>8 DEF Table
<1>10. TypeOK'
  BY <1>3, <1>4, <1>5, <1>6 DEF IInv, TypeOK, Table, Pc, nvm
<1>11. JobInv'
  <2>1. users'[f] = U
    BY <1>1, <1>4 DEF Table
  <2>2. given[f] = {}
    BY <1>1, <1>5, <1>7 DEF IInv, CredInv
  <2> QED
    BY <1>2, <1>3, <1>4, <1>5, <1>8, <2>1, <2>2 DEF JobInv
<1>12. CredInv'
  BY <1>1, <1>4, <1>5, <1>7, <1>8 DEF IInv, CredInv, nvm, Table
<1>13. SyncInv'
  BY <1>5, <1>7, <1>9 DEF IInv, SyncInv, nvm
<1>14. SessionInv'
  BY <1>1, <1>4, <1>5, <1>7, <1>8, TypeFacts DEF IInv, SessionInv, LoggedIn, Self, Table
<1>15. LockInv'
  BY <1>1, <1>2, <1>4, <1>5, <1>7, <1>8 DEF IInv, LockInv, LoggedIn, Self, Table
<1> QED
  BY <1>10, <1>11, <1>12, <1>13, <1>14, <1>15 DEF IInv

LEMMA AddCredOK == ASSUME IInv, AddCred PROVE IInv'
<1>1. users \in Table /\ op \in Job /\ op.slot \in Slot /\ op.secret \in Secret \union {None} /\ up
  BY TypeFacts DEF AddCred, IInv
<1>2. /\ pc = "add_cred" /\ pc' = "add_index" /\ Adding /\ Adding' /\ ~Deleting /\ ~Deleting'
      /\ UNCHANGED <<Accounts, InIndex>>
  BY DEF AddCred, Accounts, InIndex, Adding, Deleting
<1>3. TypeOK'
  BY <1>1, <1>2 DEF AddCred, IInv, TypeOK, Pc
<1>4. JobInv'
  BY <1>1, <1>2 DEF AddCred, IInv, TypeOK, JobInv
<1>5. CredInv'
  BY <1>1, <1>2 DEF AddCred, IInv, TypeOK, JobInv, CredInv
<1>6. SyncInv'
  BY <1>2 DEF AddCred, IInv, SyncInv, Persisted
<1>7. SessionInv' /\ LockInv'
  BY <1>2 DEF AddCred, IInv, SessionInv, LockInv, LoggedIn, Self
<1> QED
  BY <1>3, <1>4, <1>5, <1>6, <1>7 DEF IInv

\* The entry in RAM goes again: nobody was logged in as that user.
LEMMA ForgottenOK ==
  ASSUME IInv, Adding, Forgotten,
         UNCHANGED <<nvm, up, session, connected, given, stale, unsynced>>,
         \/ Done
         \/ pc' = "add_undo" /\ op' = op
  PROVE  IInv'
<1>1. users \in Table /\ op \in Job /\ op.slot \in Slot /\ up
  BY TypeFacts DEF Adding, IInv
<1>2. users' = [users EXCEPT ![op.slot] = Empty] /\ users' \in Table
  BY <1>1 DEF Forgotten, Table
<1>3. Accounts = users /\ InIndex = users'
  BY <1>2 DEF Accounts, InIndex, Adding, Deleting
<1>4. Accounts' = users' /\ InIndex' = users' /\ ~Adding' /\ ~Deleting'
  BY DEF Done, Accounts, InIndex, Adding, Deleting
<1>5. TypeOK'
  BY <1>1, <1>2 DEF Done, IInv, TypeOK, Table, Pc, nvm
<1>6. JobInv'
  BY <1>1, <1>2, <1>4 DEF Done, JobInv, Table
<1>7. CredInv'
  BY <1>1, <1>2, <1>3, <1>4 DEF IInv, JobInv, CredInv, nvm, Table
<1>8. SyncInv'
  BY <1>3, <1>4 DEF IInv, SyncInv, nvm
<1>9. SessionInv'
  BY <1>1, <1>2, <1>3, <1>4, TypeFacts DEF IInv, JobInv, SessionInv, LoggedIn, Self, Table
<1>10. LockInv'
  BY <1>1, <1>2, <1>3, <1>4 DEF IInv, LockInv, LoggedIn, Self, Table
<1> QED
  BY <1>5, <1>6, <1>7, <1>8, <1>9, <1>10 DEF IInv

LEMMA AddCredFailsOK == ASSUME IInv, AddCredFails PROVE IInv'
BY ForgottenOK DEF AddCredFails, Adding

LEMMA AddIndexFailsOK == ASSUME IInv, AddIndexFails PROVE IInv'
BY ForgottenOK DEF AddIndexFails, Adding

LEMMA AddIndexOK == ASSUME IInv, AddIndex PROVE IInv'
<1>1. users \in Table /\ op \in Job /\ op.slot \in Slot /\ op.secret \in Secret \union {None} /\ up
  BY TypeFacts DEF AddIndex, IInv
<1>2. pc = "add_index" /\ pc' = "idle" /\ op' = NoJob /\ Adding
  BY DEF AddIndex, Done, Adding
<1>3. /\ Accounts = users /\ Accounts' = users /\ InIndex' = users
      /\ ~Deleting /\ ~Adding' /\ ~Deleting'
  BY <1>2 DEF AddIndex, Accounts, InIndex, Adding, Deleting
<1>4. index' = Persisted(users) /\ Persisted(users) \in [Slot -> Stored \union {Empty}]
  BY <1>1, PersistedOK DEF AddIndex
<1>5. TypeOK'
  BY <1>1, <1>2, <1>4 DEF AddIndex, IInv, TypeOK, Pc
<1>6. JobInv'
  BY <1>1, <1>2, <1>3 DEF JobInv, AddIndex
<1>7. CredInv'
  BY <1>1, <1>2, <1>3 DEF AddIndex, IInv, TypeOK, JobInv, CredInv
<1>8. SyncInv'
  BY <1>3, <1>4 DEF AddIndex, SyncInv
<1>9. SessionInv' /\ LockInv'
  BY <1>3 DEF AddIndex, IInv, SessionInv, LockInv, LoggedIn, Self
<1> QED
  BY <1>5, <1>6, <1>7, <1>8, <1>9 DEF IInv

LEMMA AddUndoOK == ASSUME IInv, AddUndo PROVE IInv'
<1>1. users \in Table /\ op \in Job /\ op.slot \in Slot /\ up
  BY TypeFacts DEF AddUndo, IInv
<1>2. pc = "add_undo" /\ pc' = "idle" /\ op' = NoJob
  BY DEF AddUndo, Done
<1>3. /\ Accounts = users /\ InIndex = users /\ Accounts' = users /\ InIndex' = users
      /\ ~Adding' /\ ~Deleting'
  BY <1>2 DEF AddUndo, Accounts, InIndex, Adding, Deleting
<1>4. TypeOK'
  BY <1>1, <1>2 DEF AddUndo, IInv, TypeOK, Pc
<1>5. JobInv'
  BY <1>1, <1>2, <1>3 DEF JobInv, AddUndo
<1>6. CredInv'
  <2>1. given[op.slot] = {}
    BY <1>1, <1>2, <1>3 DEF IInv, JobInv, CredInv
  <2> QED
    BY <1>1, <1>3, <2>1 DEF AddUndo, IInv, TypeOK, CredInv
<1>7. SyncInv'
  BY <1>3 DEF AddUndo, IInv, SyncInv
<1>8. SessionInv' /\ LockInv'
  BY <1>3 DEF AddUndo, IInv, SessionInv, LockInv, LoggedIn, Self
<1> QED
  BY <1>4, <1>5, <1>6, <1>7, <1>8 DEF IInv

(***************************************************************************)
(* Deleting a user.                                                        *)
(***************************************************************************)
LEMMA UserDeleteOK ==
  ASSUME IInv, NEW c \in Ctx, NEW s \in Slot, UserDelete(c, s) PROVE IInv'
<1> DEFINE J == [slot |-> s, secret |-> None, saved |-> users[s]]
<1>1. users \in Table /\ users[s] # Empty /\ users[s] \in User
  BY TypeFacts DEF UserDelete, IInv, Table
<1>2. J \in Job /\ J.slot = s /\ J.saved = users[s]
  BY <1>1 DEF Job
<1>3. op' = J /\ users' = [users EXCEPT ![s] = Empty] /\ users' \in Table
  BY <1>1 DEF UserDelete, Table
<1> HIDE DEF J
<1>4. /\ pc = "idle" /\ up /\ pc' = "del_index"
      /\ UNCHANGED <<nvm, up, session, connected, given, stale, unsynced>>
  BY DEF UserDelete, Allowed, Serving
<1>5. Accounts = users /\ InIndex = users
  BY <1>4, IdleFacts
<1>6. [users' EXCEPT ![s] = users[s]] = users
  BY <1>1, <1>3 DEF Table
<1>7. Accounts' = users /\ InIndex' = users /\ ~Adding' /\ Deleting'
  BY <1>2, <1>3, <1>4, <1>6 DEF Accounts, InIndex, Adding, Deleting
<1>8. TypeOK'
  BY <1>2, <1>3, <1>4 DEF IInv, TypeOK, Table, Pc, nvm
<1>9. JobInv'
  BY <1>1, <1>2, <1>3, <1>4, <1>7 DEF JobInv, Table
<1>10. CredInv' /\ SyncInv'
  BY <1>4, <1>5, <1>7 DEF IInv, CredInv, SyncInv, nvm
<1>11. SessionInv' /\ LockInv'
  BY <1>4, <1>5, <1>7 DEF IInv, SessionInv, LockInv, LoggedIn, Self
<1> QED
  BY <1>8, <1>9, <1>10, <1>11 DEF IInv

\* The account of the slot is gone, and nothing is owed to it.
LEMMA RemovedOK ==
  ASSUME IInv, Deleting, Removed,
         UNCHANGED <<up, users, session, connected>>,
         \/ /\ pc = "del_index" /\ index' = Persisted(users) /\ unsynced' = FALSE
            /\ creds' = creds
         \/ /\ pc = "del_cred" /\ UNCHANGED <<index, unsynced>>
            /\ creds' = [creds EXCEPT ![op.slot] = None]
  PROVE  IInv'
<1>1. users \in Table /\ op \in Job /\ op.slot \in Slot /\ up
  BY TypeFacts DEF Deleting, IInv
<1>2. pc' = "idle" /\ op' = NoJob
  BY DEF Removed, Done
<1>3. /\ Accounts = [users EXCEPT ![op.slot] = op.saved]
      /\ Accounts' = users /\ InIndex' = users
      /\ ~Adding' /\ ~Deleting'
  BY <1>2 DEF Accounts, InIndex, Adding, Deleting
<1>4. users[op.slot] = Empty
  BY DEF IInv, JobInv
<1>5. TypeOK'
  BY <1>1, <1>2, PersistedOK DEF Removed, IInv, TypeOK, Pc, SessionsOf
<1>6. JobInv'
  BY <1>1, <1>2, <1>3 DEF JobInv
<1>7. CredInv'
  BY <1>1, <1>3, <1>4 DEF Removed, IInv, TypeOK, CredInv, Table
<1>8. SyncInv'
  <2>1. CASE pc = "del_index"
    BY <1>3, <2>1 DEF SyncInv
  <2>2. CASE pc = "del_cred"
    BY <1>3, <2>2 DEF IInv, SyncInv, InIndex, Persisted
  <2> QED
    BY <2>1, <2>2 DEF Deleting
<1>9. SessionInv'
  BY <1>1, <1>3, TypeFacts DEF Removed, SessionsOf, IInv, SessionInv, LoggedIn, Self, Table
<1>10. LockInv'
  BY <1>1, <1>3, <1>4 DEF IInv, LockInv, LoggedIn, Self, Table
<1> QED
  BY <1>5, <1>6, <1>7, <1>8, <1>9, <1>10 DEF IInv

LEMMA DelIndexOK == ASSUME IInv, DelIndex PROVE IInv'
<1>1. users \in Table /\ op \in Job /\ op.slot \in Slot /\ up
  BY TypeFacts DEF DelIndex, IInv
<1>2. CASE op.saved.cred
  <2>1. /\ pc = "del_index" /\ pc' = "del_cred" /\ op' = op
        /\ UNCHANGED <<creds, up, users, session, connected, given, stale>>
    BY <1>2 DEF DelIndex
  <2>2. UNCHANGED Accounts /\ InIndex' = users /\ ~Adding' /\ Deleting' /\ Deleting
    BY <2>1 DEF Accounts, InIndex, Adding, Deleting
  <2>3. TypeOK'
    <3>1. index' \in [Slot -> Stored \union {Empty}] /\ unsynced' = FALSE
      BY <1>1, PersistedOK DEF DelIndex
    <3> QED
      BY <1>1, <2>1, <3>1 DEF IInv, TypeOK, Pc
  <2>4. JobInv'
    BY <1>1, <2>1, <2>2 DEF IInv, JobInv
  <2>5. CredInv'
    BY <1>1, <2>1, <2>2 DEF IInv, CredInv
  <2>6. SyncInv'
    BY <2>2 DEF DelIndex, SyncInv
  <2>7. SessionInv' /\ LockInv'
    BY <2>1, <2>2 DEF IInv, SessionInv, LockInv, LoggedIn, Self
  <2> QED
    BY <2>3, <2>4, <2>5, <2>6, <2>7 DEF IInv
<1>3. CASE ~op.saved.cred
  BY <1>3, RemovedOK DEF DelIndex, Deleting
<1> QED
  BY <1>2, <1>3

LEMMA DelCredOK == ASSUME IInv, DelCred PROVE IInv'
BY RemovedOK DEF DelCred, Deleting

\* A deletion that fails leaves the account as it was.
LEMMA RestoredOK ==
  ASSUME IInv, Deleting, Restored,
         UNCHANGED <<nvm, up, session, connected, given, stale, unsynced>>,
         \/ pc = "del_index" /\ Done
         \/ pc = "del_cred" /\ pc' = "del_undo" /\ op' = op
  PROVE  IInv'
<1>1. /\ users \in Table /\ op \in Job /\ op.slot \in Slot /\ up
      /\ op.saved \in User \union {Empty}
  BY TypeFacts DEF Deleting, IInv
<1>2. /\ users' = [users EXCEPT ![op.slot] = op.saved] /\ users' \in Table
      /\ users'[op.slot] = op.saved
  BY <1>1 DEF Restored, Table
<1>3. users[op.slot] = Empty /\ op.saved # Empty
  BY DEF IInv, JobInv
<1>4. Accounts = users' /\ Accounts' = users' /\ ~Adding' /\ ~Deleting'
  BY <1>2 DEF Done, Accounts, Adding, Deleting
<1>5. InIndex' = InIndex
  <2>1. CASE pc = "del_index" /\ Done
    BY <1>2, <2>1 DEF Done, InIndex
  <2>2. CASE pc = "del_cred" /\ pc' = "del_undo" /\ op' = op
    <3>1. [users' EXCEPT ![op.slot] = Empty] = users
      BY <1>1, <1>2, <1>3 DEF Table
    <3> QED
      BY <2>2, <3>1 DEF InIndex
  <2> QED
    BY <2>1, <2>2
<1>6. TypeOK'
  BY <1>1, <1>2 DEF Done, IInv, TypeOK, Table, Pc, nvm
<1>7. JobInv'
  BY <1>1, <1>2, <1>3, <1>4 DEF Done, JobInv
<1>8. CredInv'
  BY <1>1, <1>4 DEF IInv, CredInv, nvm
<1>9. SyncInv'
  BY <1>5 DEF IInv, SyncInv, nvm
<1>10. SessionInv' /\ LockInv'
  BY <1>4 DEF IInv, SessionInv, LockInv, LoggedIn, Self
<1> QED
  BY <1>6, <1>7, <1>8, <1>9, <1>10 DEF IInv

LEMMA DelIndexFailsOK == ASSUME IInv, DelIndexFails PROVE IInv'
BY RestoredOK DEF DelIndexFails, Deleting

LEMMA DelCredFailsOK == ASSUME IInv, DelCredFails PROVE IInv'
BY RestoredOK DEF DelCredFails, Deleting

LEMMA DelUndoOK == ASSUME IInv, DelUndo PROVE IInv'
<1>1. users \in Table /\ op \in Job /\ op.slot \in Slot /\ up
  BY TypeFacts DEF DelUndo, IInv
<1>2. pc = "del_undo" /\ pc' = "idle" /\ op' = NoJob
  BY DEF DelUndo, Done
<1>3. Accounts = users /\ Accounts' = users /\ InIndex' = users /\ ~Adding' /\ ~Deleting'
  BY <1>2 DEF DelUndo, Accounts, InIndex, Adding, Deleting
<1>4. TypeOK'
  BY <1>1, <1>2, PersistedOK DEF DelUndo, IInv, TypeOK, Pc
<1>5. JobInv'
  BY <1>1, <1>2, <1>3 DEF JobInv, DelUndo
<1>6. CredInv'
  BY <1>1, <1>3 DEF DelUndo, IInv, CredInv
<1>7. SyncInv'
  BY <1>3 DEF DelUndo, SyncInv
<1>8. SessionInv' /\ LockInv'
  BY <1>3 DEF DelUndo, IInv, SessionInv, LockInv, LoggedIn, Self
<1> QED
  BY <1>4, <1>5, <1>6, <1>7, <1>8 DEF IInv

(***************************************************************************)
(* Changing a user, and the reset.                                         *)
(***************************************************************************)
\* The record of a slot with other permissions, or a credential or none.
LEMMA ChangedUser ==
  ASSUME users \in Table, NEW s \in Slot, users[s] # Empty,
         NEW p \in Perm, NEW b \in BOOLEAN
  PROVE  /\ [users[s] EXCEPT !.perm = p] \in User /\ [users[s] EXCEPT !.perm = p] # Empty
         /\ [users[s] EXCEPT !.perm = p].perm = p
         /\ [users[s] EXCEPT !.perm = p].cred = users[s].cred
         /\ [users[s] EXCEPT !.perm = p].active = users[s].active
         /\ [users[s] EXCEPT !.cred = b] \in User /\ [users[s] EXCEPT !.cred = b] # Empty
         /\ [users[s] EXCEPT !.cred = b].name = users[s].name
         /\ [users[s] EXCEPT !.cred = b].perm = users[s].perm
         /\ [users[s] EXCEPT !.cred = b].cred = b
         /\ [users[s] EXCEPT !.cred = b].active = users[s].active
<1>1. users[s] \in User
  BY DEF Table
<1>2. [users[s] EXCEPT !.perm = p] \in User /\ [users[s] EXCEPT !.cred = b] \in User
  BY <1>1 DEF User
<1> QED
  BY <1>1, <1>2, EmptyIsNone DEF User

LEMMA SetPermissionsOK ==
  ASSUME IInv, NEW c \in Ctx, NEW s \in Slot, NEW p \in Perms, SetPermissions(c, s, p)
  PROVE  IInv'
<1> DEFINE U == [users[s] EXCEPT !.perm = p]
<1>1. users \in Table /\ users[s] # Empty /\ p \in Perm
  BY TypeFacts, AuthAssumption DEF SetPermissions, IInv
<1>2. /\ U \in User /\ U # Empty /\ U.perm = p
      /\ U.cred = users[s].cred /\ U.active = users[s].active
  BY <1>1, ChangedUser
<1>3. users' = [users EXCEPT ![s] = U] /\ users' \in Table /\ users'[s] = U
  BY <1>1, <1>2 DEF SetPermissions, Table
<1> HIDE DEF U
<1>4. pc = "idle" /\ up /\ LoggedIn(c) /\ connected[c]
      /\ UNCHANGED <<creds, up, connected, pc, op, given>>
  BY DEF SetPermissions, Allowed, Serving
<1>5. Accounts = users /\ InIndex = users
  BY <1>4, IdleFacts
<1>6. Accounts' = users' /\ InIndex' = users' /\ ~Adding' /\ ~Deleting'
  BY <1>4 DEF Accounts, InIndex, Adding, Deleting
<1> DEFINE W == [session[c] EXCEPT !.perm = p]
<1>7. session[c] \in Session
  BY <1>4 DEF IInv, TypeOK, LoggedIn
<1>8. W \in Session /\ W # NoSession /\ W.user = session[c].user /\ W.perm = p
  <2>1. W \in Session
    BY <1>1, <1>7 DEF Session
  <2> QED
    BY <1>7, <2>1, EmptyIsNone DEF Session
<1> HIDE DEF W
<1>9. session' = IF s = Self(c) THEN [session EXCEPT ![c] = W] ELSE session
  BY DEF SetPermissions, W
<1>10. \A d \in Ctx : session'[d] = IF s = Self(c) /\ d = c THEN W ELSE session[d]
  BY <1>9 DEF IInv, TypeOK
<1>11. stale' = stale \union (SessionsOf(s) \ {c})
  BY DEF SetPermissions
<1>12. TypeOK'
  <2>1. session' \in [Ctx -> Session \union {NoSession}]
    BY <1>8, <1>9 DEF IInv, TypeOK
  <2>2. stale' \subseteq Ctx /\ unsynced' \in BOOLEAN
    BY <1>11 DEF IInv, TypeOK, SessionsOf, SetPermissions
  <2>3. index' \in [Slot -> Stored \union {Empty}]
    BY <1>3, PersistedOK DEF SetPermissions
  <2> QED
    BY <1>3, <1>4, <2>1, <2>2, <2>3 DEF IInv, TypeOK, Table
<1>13. JobInv'
  BY <1>4, <1>6 DEF JobInv
<1>14. CredInv'
  BY <1>1, <1>2, <1>3, <1>4, <1>5, <1>6 DEF IInv, CredInv, Table
<1>15. SyncInv'
  BY <1>6 DEF SetPermissions, SyncInv
<1>16. \A d \in Ctx : (LoggedIn(d))' = LoggedIn(d) /\ (LoggedIn(d) => (Self(d))' = Self(d))
  BY <1>4, <1>8, <1>10 DEF LoggedIn, Self
<1>17. SessionInv'
  <2>1. ASSUME NEW d \in Ctx \ stale', LoggedIn(d)'
        PROVE  /\ connected'[d]
               /\ Accounts'[Self(d)'] # Empty
               /\ Accounts'[Self(d)'].active
               /\ Accounts'[Self(d)'].perm = session'[d].perm
    <3>1. d \notin stale /\ LoggedIn(d) /\ Self(d)' = Self(d) /\ Self(d) \in Slot
      BY <1>11, <1>16, <2>1, TypeFacts DEF IInv
    <3>2. CASE Self(d) = s
      <4>1. d = c /\ s = Self(c)
        BY <1>11, <2>1, <3>1, <3>2 DEF SessionsOf
      <4> QED
        BY <1>2, <1>3, <1>4, <1>5, <1>6, <1>8, <1>10, <3>1, <4>1 DEF IInv, SessionInv
    <3>3. CASE Self(d) # s
      <4>1. session'[d] = session[d] /\ users'[Self(d)] = users[Self(d)]
        BY <1>1, <1>3, <1>10, <3>1, <3>3 DEF Table
      <4> QED
        BY <1>4, <1>5, <1>6, <3>1, <4>1 DEF IInv, SessionInv
    <3> QED
      BY <3>2, <3>3
  <2>2. ASSUME NEW d \in Ctx \ stale', NEW e \in Ctx \ stale', LoggedIn(d)', LoggedIn(e)',
               Self(e)' = Self(d)'
        PROVE  e = d
    BY <1>11, <1>16, <2>2 DEF IInv, SessionInv
  <2> QED
    BY <2>1, <2>2 DEF SessionInv
<1>18. LockInv'
  BY <1>1, <1>2, <1>3, <1>5, <1>6, <1>16 DEF IInv, LockInv, Table
<1> QED
  BY <1>12, <1>13, <1>14, <1>15, <1>17, <1>18 DEF IInv

LEMMA SetCredentialsOK ==
  ASSUME IInv, NEW c \in Ctx, NEW s \in Slot, NEW cur \in Secret \union {None},
         NEW new \in Secret \union {None}, SetCredentials(c, s, cur, new)
  PROVE  IInv'
<1> DEFINE U == [users[s] EXCEPT !.cred = new # None]
<1>1. users \in Table /\ users[s] # Empty
  BY TypeFacts DEF SetCredentials, IInv
<1>2. PICK p \in Perm : TRUE
  <2>1. users[s] \in User
    BY <1>1 DEF Table
  <2>2. users[s].perm \in Perm
    BY <2>1 DEF User
  <2> QED BY <2>2
<1>3. /\ U \in User /\ U # Empty /\ U.cred = (new # None)
      /\ U.name = users[s].name /\ U.perm = users[s].perm /\ U.active = users[s].active
  BY <1>1, <1>2, ChangedUser
<1>4. users' = [users EXCEPT ![s] = U] /\ users' \in Table /\ users'[s] = U
  <2>1. users' = [users EXCEPT ![s] = U]
    BY DEF SetCredentials
  <2> HIDE DEF U
  <2> QED BY <1>1, <1>3, <2>1 DEF Table
<1> HIDE DEF U
<1>5. /\ pc = "idle" /\ up
      /\ UNCHANGED <<index, up, session, connected, pc, op, stale, unsynced>>
  BY DEF SetCredentials, Allowed, Serving
<1>6. Accounts = users /\ InIndex = users
  BY <1>5, IdleFacts
<1>7. Accounts' = users' /\ InIndex' = users' /\ ~Adding' /\ ~Deleting'
  BY <1>5 DEF Accounts, InIndex, Adding, Deleting
<1>8. TypeOK'
  BY <1>4, <1>5 DEF SetCredentials, IInv, TypeOK, Table
<1>9. JobInv'
  BY <1>5, <1>7 DEF JobInv
<1>10. CredInv'
  <2>1. creds' = [creds EXCEPT ![s] = new] /\ given' = [given EXCEPT ![s] = {new} \ {None}]
    BY DEF SetCredentials
  <2>2. creds'[s] = new /\ given'[s] = {new} \ {None}
    BY <2>1 DEF IInv, TypeOK
  <2>3. ASSUME NEW t \in Slot, t # s
        PROVE  creds'[t] = creds[t] /\ given'[t] = given[t] /\ users'[t] = users[t]
    BY <1>1, <1>4, <2>1, <2>3 DEF IInv, TypeOK, Table
  <2>4. ASSUME NEW t \in Slot, given'[t] # {}
        PROVE  creds'[t] \in given'[t] /\ users'[t] # Empty /\ users'[t].cred
    <3>1. CASE t = s
      BY <1>3, <1>4, <2>2, <2>4, <3>1
    <3>2. CASE t # s
      BY <1>5, <1>6, <2>3, <2>4, <3>2 DEF IInv, CredInv
    <3> QED
      BY <3>1, <3>2
  <2> QED
    BY <1>5, <1>7, <2>4 DEF CredInv
<1>11. SyncInv'
  <2>1. Persisted(users') = Persisted(users)
    BY <1>1, <1>3, <1>4, PersistedSame DEF Table
  <2> QED
    BY <1>5, <1>6, <1>7, <2>1 DEF IInv, SyncInv
<1>12. SessionInv'
  BY <1>1, <1>3, <1>4, <1>5, <1>6, <1>7, TypeFacts
  DEF IInv, SessionInv, LoggedIn, Self, Table
<1>13. LockInv'
  BY <1>1, <1>3, <1>4, <1>5, <1>6, <1>7 DEF IInv, LockInv, LoggedIn, Self, Table
<1> QED
  BY <1>8, <1>9, <1>10, <1>11, <1>12, <1>13 DEF IInv

LEMMA ResetOK == ASSUME IInv, Reset PROVE IInv'
<1>1. TypeOK'
  BY DEF Reset, IInv, TypeOK, Pc, nvm
<1>2. Accounts' = users' /\ ~Adding' /\ ~Deleting'
  BY DEF Reset, Accounts, Adding, Deleting
<1>3. JobInv'
  BY <1>2 DEF Reset, JobInv
<1>4. CredInv'
  BY DEF Reset, IInv, TypeOK, CredInv, nvm
<1>5. SyncInv' /\ SessionInv'
  BY DEF Reset, SyncInv, SessionInv, LoggedIn
<1>6. LockInv'
  BY <1>2 DEF Reset, LockInv
<1> QED
  BY <1>1, <1>3, <1>4, <1>5, <1>6 DEF IInv

(***************************************************************************)
(* All steps.                                                              *)
(***************************************************************************)
LEMMA RequestOK == ASSUME IInv, NEW c \in Ctx, Request(c) PROVE IInv'
<1>1. CASE Connect(c) \/ Disconnect(c)
  BY <1>1, ConnectOK, DisconnectOK
<1>2. CASE \E n \in Name, k \in Secret : Login(c, n, k)
  BY <1>2, LoginOK
<1>3. CASE \E s \in Slot : Logout(c, s) \/ UserDelete(c, s)
  BY <1>3, LogoutOK, UserDeleteOK
<1>4. CASE \E n \in Name, p \in Perms, k \in Secret \union {None} : UserAdd(c, n, p, k)
  BY <1>4, UserAddOK
<1>5. CASE \E s \in Slot, p \in Perms : SetPermissions(c, s, p)
  BY <1>5, SetPermissionsOK
<1>6. CASE \E s \in Slot, cur \in Secret \union {None}, new \in Secret \union {None} :
             SetCredentials(c, s, cur, new)
  BY <1>6, SetCredentialsOK
<1> QED
  BY <1>1, <1>2, <1>3, <1>4, <1>5, <1>6 DEF Request

LEMMA NvmWriteOK == ASSUME IInv, NvmWrite PROVE IInv'
BY AddCredOK, AddCredFailsOK, AddIndexOK, AddIndexFailsOK, AddUndoOK,
   DelIndexOK, DelIndexFailsOK, DelCredOK, DelCredFailsOK, DelUndoOK DEF NvmWrite

LEMMA NextOK == IInv /\ [Next]_vars => IInv'
<1> SUFFICES ASSUME IInv, [Next]_vars PROVE IInv'
  OBVIOUS
<1>1. CASE Boot \/ Reset \/ NvmWrite
  BY <1>1, BootOK, ResetOK, NvmWriteOK
<1>2. ASSUME NEW c \in Ctx, Request(c) PROVE IInv'
  BY <1>2, RequestOK
<1>3. CASE UNCHANGED vars
  <2>1. UNCHANGED <<Accounts, InIndex, Adding, Deleting>>
    BY <1>3, SameAccounts DEF vars
  <2>2. TypeOK'
    BY <1>3 DEF vars, nvm, IInv, TypeOK
  <2>3. JobInv' /\ CredInv' /\ SyncInv'
    BY <1>3, <2>1 DEF vars, nvm, IInv, JobInv, CredInv, SyncInv, Persisted
  <2>4. SessionInv' /\ LockInv'
    BY <1>3, <2>1 DEF vars, IInv, SessionInv, LockInv, LoggedIn, Self
  <2> QED
    BY <2>2, <2>3, <2>4 DEF IInv
<1> QED
  BY <1>1, <1>2, <1>3 DEF Next

\* What src/wh_auth.c and src/wh_auth_base.c keep true of accounts, credentials
\* and sessions at each NVM write, failed writes and resets included.
THEOREM Invariant == Spec => []IInv
BY InitOK, NextOK, PTL DEF Spec

\* The user table, the sessions and the request in progress are well typed.
THEOREM TypeCorrect == Spec => []TypeOK
<1>1. IInv => TypeOK
  BY DEF IInv
<1> QED
  BY <1>1, Invariant, PTL

\* wh_Auth_BaseUserAdd, wh_Auth_BaseUserDelete and
\* wh_Auth_BaseUserSetCredentials never leave an account that was given a
\* credential with another one, for any number of slots.
THEOREM CredentialsFollow == Spec => []OwnCredential
BY Means, Invariant, PTL

\* RAM and NVM agree between requests, unless an undo failed.
THEOREM IndexAgrees == Spec => []IndexInSync
BY Means, Invariant, PTL

\* The session of a user whom no other context has touched is connected, has
\* the permissions of the account, and is the user's only one.
THEOREM SessionsAreCurrent == Spec => []SessionIsCurrent
BY Means, Invariant, PTL

\* A user marked as logged in has a session, through every disconnect, logout
\* and failed deletion, so that the mark locks nobody out.
THEOREM NobodyLockedOut == Spec => []NoLockout
BY MeansNoLockout, Invariant, PTL

(***************************************************************************)
(* Delegation.                                                             *)
(***************************************************************************)
\* A step that holds no permission that was not held before.
LEMMA NothingNew ==
  ASSUME Held' \subseteq Held PROVE Delegated' \subseteq Delegated /\ (AnyAdmin' => AnyAdmin)
BY DEF Delegated, AnyAdmin

\* The permissions of the three tables and of a deletion in progress are held.
LEMMA HeldHas ==
  /\ \A s \in Slot : index[s] # Empty => index[s].perm \in Held
  /\ \A s \in Slot : users[s] # Empty => users[s].perm \in Held
  /\ \A c \in Ctx : LoggedIn(c) => session[c].perm \in Held
  /\ op # NoJob /\ op.saved # Empty => op.saved.perm \in Held
BY DEF Held

\* A step after which the same holds of the permissions before it adds none.
LEMMA Narrows ==
  ASSUME \A s \in Slot : index'[s] # Empty => index'[s].perm \in Held,
         \A s \in Slot : users'[s] # Empty => users'[s].perm \in Held,
         \A c \in Ctx : session'[c] # NoSession => session'[c].perm \in Held,
         op' # NoJob /\ op'.saved # Empty => op'.saved.perm \in Held
  PROVE  Held' \subseteq Held
BY DEF Held, LoggedIn

\* Persisting the table adds no permission.
LEMMA PersistedPerms ==
  ASSUME users \in Table, NEW s \in Slot, Persisted(users)[s] # Empty
  PROVE  Persisted(users)[s].perm \in Held
BY HeldHas DEF Persisted

\* What a request or a write does to the four places, when it adds nothing.
LEMMA WriteNarrows == ASSUME TypeOK, NvmWrite PROVE Held' \subseteq Held
<1>1. users \in Table /\ op \in Job /\ op # NoJob /\ op.slot \in Slot
  BY TypeFacts, EmptyIsNone DEF TypeOK, NvmWrite, AddCred, AddCredFails, AddIndex, AddIndexFails,
     AddUndo, DelIndex, DelIndexFails, DelCred, DelCredFails, DelUndo
<1>2. session' = session /\ (op' = op \/ op' = NoJob)
  BY DEF NvmWrite, AddCred, AddCredFails, AddIndex, AddIndexFails, AddUndo, DelIndex,
     DelIndexFails, DelCred, DelCredFails, DelUndo, Done, Removed
<1>3. index' = index \/ index' = Persisted(users)
  BY DEF NvmWrite, AddCred, AddCredFails, AddIndex, AddIndexFails, AddUndo, DelIndex,
     DelIndexFails, DelCred, DelCredFails, DelUndo, nvm
<1>4. users' = users \/ Forgotten \/ Restored
  BY DEF NvmWrite, AddCred, AddCredFails, AddIndex, AddIndexFails, AddUndo, DelIndex,
     DelIndexFails, DelCred, DelCredFails, DelUndo
<1>5. \A s \in Slot : index'[s] # Empty => index'[s].perm \in Held
  BY <1>1, <1>3, HeldHas, PersistedPerms
<1>6. \A s \in Slot : users'[s] # Empty => users'[s].perm \in Held
  <2>1. CASE users' = users
    BY <2>1, HeldHas
  <2>2. CASE Forgotten
    BY <1>1, <2>2, HeldHas DEF Forgotten, Table
  <2>3. CASE Restored
    BY <1>1, <2>3, HeldHas DEF Restored, Table
  <2> QED
    BY <1>4, <2>1, <2>2, <2>3
<1>7. \A c \in Ctx : session'[c] # NoSession => session'[c].perm \in Held
  BY <1>2, HeldHas DEF LoggedIn
<1>8. op' # NoJob /\ op'.saved # Empty => op'.saved.perm \in Held
  BY <1>1, <1>2, HeldHas
<1> QED
  BY <1>5, <1>6, <1>7, <1>8, Narrows

\* Deactivating a user and ending sessions adds nothing.
LEMMA EndNarrows ==
  ASSUME users \in Table, NEW s \in Slot, users' = Deactivated(s), UNCHANGED <<index, op>>,
         \A c \in Ctx : session'[c] = session[c] \/ session'[c] = NoSession
  PROVE  Held' \subseteq Held
<1>1. \A t \in Slot : users'[t] # Empty => users'[t].perm \in Held
  BY DeactivatedOK, HeldHas
<1>2. \A c \in Ctx : session'[c] # NoSession => session'[c].perm \in Held
  BY HeldHas DEF LoggedIn
<1> QED
  BY <1>1, <1>2, HeldHas, Narrows

LEMMA LoginNarrows ==
  ASSUME TypeOK, NEW c \in Ctx, NEW n \in Name, NEW k \in Secret, Login(c, n, k)
  PROVE  Held' \subseteq Held
<1>1. PICK s \in Named(n) :
        /\ users' = [users EXCEPT ![s].active = TRUE]
        /\ session' = [session EXCEPT ![c] = [user |-> s, perm |-> users[s].perm]]
  BY DEF Login
<1>2. s \in Slot /\ users[s] # Empty /\ users \in Table /\ users[s] \in User
  BY TypeFacts DEF Named, Table
<1>3. users[s].perm \in Held
  BY <1>2, HeldHas
<1>4. \A t \in Slot : users'[t] # Empty => users'[t].perm \in Held
  <2>1. \A t \in Slot \ {s} : users'[t] = users[t]
    BY <1>1, <1>2 DEF Table
  <2>2. users'[s].perm = users[s].perm
    BY <1>1, <1>2 DEF Table, User
  <2> QED
    BY <1>3, <2>1, <2>2, HeldHas
<1>5. \A d \in Ctx : session'[d] # NoSession => session'[d].perm \in Held
  BY <1>1, <1>3, HeldHas DEF TypeOK, LoggedIn
<1> QED
  BY <1>4, <1>5, HeldHas, Narrows DEF Login, nvm

\* A user who is no admin adds one with some of its own permissions.
LEMMA AddNarrows ==
  ASSUME TypeOK, NEW c \in Ctx, ~session[c].perm.admin, NEW n \in Name, NEW p \in Perms,
         NEW k \in Secret \union {None}, UserAdd(c, n, p, k)
  PROVE  Delegated' \subseteq Delegated /\ (AnyAdmin' => AnyAdmin)
<1>1. ~p.admin /\ p.acts \subseteq session[c].perm.acts
  BY DEF UserAdd, MayGrant
<1>2. session[c].perm \in Held
  BY HeldHas DEF UserAdd, Allowed
<1>3. p.acts \subseteq Delegated
  BY <1>1, <1>2 DEF Delegated
<1>4. FirstFree \in Slot /\ users \in Table
  BY FreeSlot, TypeFacts DEF UserAdd
<1>5. \A s \in Slot : users'[s] # Empty => users'[s].perm \in Held \union {p}
  BY <1>4, HeldHas DEF UserAdd, Table
<1>6. Held' \subseteq Held \union {p}
  <2>1. \A s \in Slot : index'[s] # Empty => index'[s].perm \in Held
    BY HeldHas DEF UserAdd, nvm
  <2>2. \A d \in Ctx : session'[d] # NoSession => session'[d].perm \in Held
    BY HeldHas DEF UserAdd, LoggedIn
  <2>3. op'.saved = Empty
    BY DEF UserAdd
  <2> QED
    BY <1>5, <2>1, <2>2, <2>3 DEF Held, LoggedIn
<1>7. Delegated' \subseteq Delegated
  BY <1>3, <1>6 DEF Delegated
<1> QED
  BY <1>1, <1>6, <1>7 DEF AnyAdmin

LEMMA RequestNarrows ==
  ASSUME TypeOK, NEW c \in Ctx, Request(c),
         \A d \in Ctx : LoggedIn(d) => ~session[d].perm.admin /\ ~IsAdmin(Self(d))
  PROVE  Delegated' \subseteq Delegated /\ (AnyAdmin' => AnyAdmin)
<1>0. users \in Table
  BY TypeFacts
<1>1. CASE Connect(c)
  <2>1. Held' \subseteq Held
    BY <1>1, HeldHas, Narrows DEF Connect, nvm, LoggedIn
  <2> QED
    BY <2>1, NothingNew
<1>2. CASE Disconnect(c)
  <2>1. \A d \in Ctx : session'[d] = session[d] \/ session'[d] = NoSession
    BY <1>2 DEF Disconnect, TypeOK
  <2>2. CASE LoggedIn(c)
    BY <1>0, <1>2, <2>1, <2>2, TypeFacts, EndNarrows, NothingNew DEF Disconnect, nvm
  <2>3. CASE ~LoggedIn(c)
    <3>1. Held' \subseteq Held
      BY <1>2, <2>1, <2>3, HeldHas, Narrows DEF Disconnect, nvm, LoggedIn
    <3> QED
      BY <3>1, NothingNew
  <2> QED
    BY <2>2, <2>3
<1>3. CASE \E n \in Name, k \in Secret : Login(c, n, k)
  BY <1>3, LoginNarrows, NothingNew
<1>4. ASSUME NEW s \in Slot, Logout(c, s)
      PROVE  Delegated' \subseteq Delegated /\ (AnyAdmin' => AnyAdmin)
  <2>1. \A d \in Ctx : session'[d] = session[d] \/ session'[d] = NoSession
    BY <1>4 DEF Logout, TypeOK
  <2> QED
    BY <1>0, <1>4, <2>1, EndNarrows, NothingNew DEF Logout, nvm
<1>5. ASSUME NEW s \in Slot, UserDelete(c, s) PROVE FALSE
  BY <1>5 DEF UserDelete, Allowed
<1>6. CASE \E n \in Name, p \in Perms, k \in Secret \union {None} : UserAdd(c, n, p, k)
  BY <1>6, AddNarrows DEF UserAdd, Allowed
<1>7. ASSUME NEW s \in Slot, NEW p \in Perms, SetPermissions(c, s, p) PROVE FALSE
  BY <1>7 DEF SetPermissions, Allowed
<1>8. ASSUME NEW s \in Slot, NEW cur \in Secret \union {None}, NEW new \in Secret \union {None},
             SetCredentials(c, s, cur, new)
      PROVE  Delegated' \subseteq Delegated /\ (AnyAdmin' => AnyAdmin)
  <2>1. users[s] \in User
    BY <1>0, <1>8 DEF SetCredentials, Table
  <2>2. users' = [users EXCEPT ![s] = [users[s] EXCEPT !.cred = new # None]]
    BY <1>8 DEF SetCredentials
  <2>3. \A t \in Slot : users'[t] # Empty => users'[t].perm \in Held
    <3>1. users'[s].perm = users[s].perm /\ users[s] # Empty
      BY <1>0, <1>8, <2>1, <2>2 DEF SetCredentials, Table, User
    <3>2. \A t \in Slot \ {s} : users'[t] = users[t]
      BY <1>0, <2>2 DEF Table
    <3> QED
      BY <3>1, <3>2, HeldHas
  <2>4. Held' \subseteq Held
    BY <1>8, <2>3, HeldHas, Narrows DEF SetCredentials, LoggedIn
  <2> QED
    BY <2>4, NothingNew
<1> QED
  BY <1>1, <1>2, <1>3, <1>4, <1>5, <1>6, <1>7, <1>8 DEF Request

\* While no admin is logged in, the checks of wh_Auth_UserAdd and of the
\* admin's requests let no permission arise that nobody had.
THEOREM OnlyDown == Spec => DelegateDown
<1> DEFINE A == (\A c \in Ctx : LoggedIn(c) => ~session[c].perm.admin /\ ~IsAdmin(Self(c)))
                => Delegated' \subseteq Delegated /\ (AnyAdmin' => AnyAdmin)
<1>1. ASSUME TypeOK, [Next]_vars PROVE A
  <2>1. ASSUME NEW c \in Ctx, Request(c) PROVE A
    BY <1>1, <2>1, RequestNarrows
  <2>2. CASE NvmWrite
    BY <1>1, <2>2, WriteNarrows, NothingNew
  <2>3. CASE Boot
    <3>1. Held' \subseteq Held
      BY <1>1, <2>3, LoadedOK, HeldHas, Narrows DEF Boot, nvm, LoggedIn
    <3> QED
      BY <3>1, NothingNew
  <2>4. CASE Reset
    <3>1. Held' \subseteq Held
      BY <2>4, HeldHas, Narrows DEF Reset, nvm
    <3> QED
      BY <3>1, NothingNew
  <2>5. CASE UNCHANGED vars
    <3>1. Held' \subseteq Held
      BY <2>5 DEF vars, nvm, Held, LoggedIn
    <3> QED
      BY <3>1, NothingNew
  <2> QED
    BY <1>1, <2>1, <2>2, <2>3, <2>4, <2>5 DEF Next
<1>2. TypeOK /\ [Next]_vars => [A]_vars
  BY <1>1
<1> QED
  BY <1>2, TypeCorrect, PTL DEF Spec, DelegateDown
=============================================================================
