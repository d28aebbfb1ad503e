-------------------------------- MODULE Auth --------------------------------
(***************************************************************************)
(* Users, credentials and sessions: src/wh_auth.c, the base backend        *)
(* src/wh_auth_base.c with its NVM store, src/wh_server_auth.c, and the    *)
(* authorization gate and disconnect of src/wh_server.c.                   *)
(*                                                                         *)
(* The user index in RAM is shared by all server contexts and changes only *)
(* under the auth lock, so that requests do not interleave.  A request     *)
(* that writes NVM more than once may fail, or be cut off by a reset, at   *)
(* each write: pc says which write comes next.  In NVM the index is one    *)
(* object and each user's credential another.                              *)
(*                                                                         *)
(* A session caches the permissions of its user.  What another context     *)
(* does to that user does not reach it (history variable stale).           *)
(***************************************************************************)
EXTENDS Integers, FiniteSets

CONSTANTS Ctx,       \* server contexts, one client each
          Slots,     \* WH_AUTH_BASE_MAX_USERS
          Name,      \* user names
          Secret,    \* credentials, with their method
          Perms,     \* the permissions that requests name
          Founder,   \* the name of the first user
          None

\* A permission is a message group and action that may be requested; of the
\* auth group, the actions that change users are told apart.
AuthActs == {"user_add", "user_delete", "set_permissions", "set_credentials"}
Perm == [admin: BOOLEAN, acts: SUBSET AuthActs]
Root == [admin |-> TRUE, acts |-> AuthActs]

Slot == 1 .. Slots                       \* whUserId
Empty == [name |-> None]                 \* WH_USER_ID_INVALID
Stored == [name: Name, perm: Perm]
User == [name: Name, perm: Perm, cred: BOOLEAN, active: BOOLEAN]
NoSession == [user |-> 0]
Session == [user: Slot, perm: Perm]

ASSUME AuthAssumption ==
  /\ Slots \in Nat \ {0}
  /\ Perms \subseteq Perm
  /\ Founder \in Name
  /\ None \notin Name \union Secret

VARIABLES
  index,      \* NVM: the index object, permissions per slot
  creds,      \* NVM: the credential object of each slot, or None
  up,         \* the server has loaded the users
  users,      \* RAM: users[], cred stands for credentials_len > 0
  session,    \* whAuthContext.user of each context
  connected,  \* whServerContext.connected
  pc,         \* the next NVM write of the request in progress, or "idle"
  op,         \* that request: its slot, its credential, the saved record
  given,      \* history: credentials the account in a slot may have
  stale,      \* history: contexts whose user was changed from elsewhere
  unsynced    \* history: undoing a deletion in NVM failed

nvm == <<index, creds>>
vars == <<index, creds, up, users, session, connected, pc, op, given, stale, unsynced>>

Pc == {"idle", "add_cred", "add_index", "add_undo", "del_index", "del_cred", "del_undo"}
NoJob == [slot |-> 0]
Job == [slot: Slot, secret: Secret \union {None}, saved: User \union {Empty}]

(***************************************************************************)
(* The index in RAM and in NVM.                                            *)
(***************************************************************************)
\* wh_Auth_BasePersistIndex writes all slots; is_active and what is known of
\* the credential are left out.
Persisted(us) ==
  [s \in Slot |-> IF us[s] = Empty THEN Empty
                  ELSE [name |-> us[s].name, perm |-> us[s].perm]]

\* wh_Auth_BaseLoadFromNvm: a credential object makes a user one with a
\* credential.
Loaded ==
  [s \in Slot |-> IF index[s] = Empty THEN Empty
                  ELSE [name |-> index[s].name, perm |-> index[s].perm,
                        cred |-> creds[s] # None, active |-> FALSE]]

Named(n) == {s \in Slot : users[s] # Empty /\ users[s].name = n}
Free == {s \in Slot : users[s] = Empty}
FirstFree == CHOOSE s \in Free : \A t \in Free : s <= t

\* WH_AUTH_IS_ADMIN of the slot a session names, whoever is in it now.
IsAdmin(s) == users[s] # Empty /\ users[s].perm.admin

(***************************************************************************)
(* Sessions.                                                               *)
(***************************************************************************)
LoggedIn(c) == session[c] # NoSession
Self(c) == session[c].user
SessionsOf(s) == {c \in Ctx : LoggedIn(c) /\ Self(c) = s}

\* A request reaches its handler: wh_Auth_CheckRequestAuthorization looks at
\* the permissions cached in the session.
Serving(c) == up /\ pc = "idle" /\ connected[c]
Allowed(c, act) == Serving(c) /\ LoggedIn(c) /\ act \in session[c].perm.acts

Init ==
  /\ index = [s \in Slot |-> IF s = 1 THEN [name |-> Founder, perm |-> Root] ELSE Empty]
  /\ \E k \in Secret :
       /\ creds = [s \in Slot |-> IF s = 1 THEN k ELSE None]
       /\ given = [s \in Slot |-> IF s = 1 THEN {k} ELSE {}]
  /\ up = FALSE
  /\ users = [s \in Slot |-> Empty]
  /\ session = [c \in Ctx |-> NoSession]
  /\ connected = [c \in Ctx |-> FALSE]
  /\ pc = "idle"
  /\ op = NoJob
  /\ stale = {}
  /\ unsynced = FALSE

\* wh_Auth_Init of every context, before any of them serves.
Boot ==
  /\ ~up
  /\ up' = TRUE
  /\ users' = Loaded
  /\ UNCHANGED <<nvm, session, connected, pc, op, given, stale, unsynced>>

\* The application reports a connection (wh_Server_SetConnected).
Connect(c) ==
  /\ up
  /\ ~connected[c]
  /\ connected' = [connected EXCEPT ![c] = TRUE]
  /\ UNCHANGED <<nvm, up, users, session, pc, op, given, stale, unsynced>>

\* is_active of a slot is cleared; an empty slot has none.
Deactivated(s) ==
  IF users[s] = Empty THEN users ELSE [users EXCEPT ![s].active = FALSE]

\* Mutant: the session is cleared without a logout.
M_Disconnect(c) ==
  /\ Serving(c)
  /\ connected' = [connected EXCEPT ![c] = FALSE]
  /\ session' = [session EXCEPT ![c] = NoSession]
  /\ stale' = stale \ {c}
  /\ UNCHANGED <<nvm, up, users, pc, op, given, unsynced>>

\* COMM_CLOSE, or a connection the transport reports as lost: the user is
\* logged out and the session cleared.
Disconnect(c) ==
  /\ Serving(c)
  /\ connected' = [connected EXCEPT ![c] = FALSE]
  /\ session' = [session EXCEPT ![c] = NoSession]
  /\ IF LoggedIn(c)
     THEN /\ users' = Deactivated(Self(c))
          /\ stale' = (stale \union SessionsOf(Self(c))) \ {c}
     ELSE UNCHANGED <<users, stale>>
  /\ UNCHANGED <<nvm, up, pc, op, given, unsynced>>

\* One user per session, one session per user; the credential is read from NVM.
Login(c, n, k) ==
  /\ Serving(c)
  /\ ~LoggedIn(c)
  /\ \E s \in Named(n) :
       /\ users[s].cred
       /\ creds[s] = k
       /\ ~users[s].active
       /\ users' = [users EXCEPT ![s].active = TRUE]
       /\ session' = [session EXCEPT ![c] = [user |-> s, perm |-> users[s].perm]]
  /\ UNCHANGED <<nvm, up, connected, pc, op, given, stale, unsynced>>

\* An admin may log out others, whose contexts are not told.
Logout(c, s) ==
  /\ Serving(c)
  /\ LoggedIn(c)
  /\ s = Self(c) \/ IsAdmin(Self(c))
  /\ users' = Deactivated(s)
  /\ session' = IF s = Self(c) THEN [session EXCEPT ![c] = NoSession] ELSE session
  /\ stale' = IF s = Self(c) THEN (stale \union SessionsOf(s)) \ {c}
              ELSE stale \union SessionsOf(s)
  /\ UNCHANGED <<nvm, up, connected, pc, op, given, unsynced>>

(***************************************************************************)
(* Adding a user: the credential is written before the index.              *)
(***************************************************************************)
\* Mutant: a caller that is no admin may grant what it has not got.
M_MayGrant(c, p, k) == \/ session[c].perm.admin
                       \/ ~p.admin /\ k # None

\* wh_Auth_UserAdd, on the permissions cached in the session.
MayGrant(c, p, k) ==
  \/ session[c].perm.admin
  \/ ~p.admin /\ p.acts \subseteq session[c].perm.acts /\ k # None

UserAdd(c, n, p, k) ==
  /\ Allowed(c, "user_add")
  /\ MayGrant(c, p, k)
  /\ Named(n) = {}
  /\ Free # {}
  /\ users' = [users EXCEPT ![FirstFree] =
                 [name |-> n, perm |-> p, cred |-> k # None, active |-> FALSE]]
  /\ op' = [slot |-> FirstFree, secret |-> k, saved |-> Empty]
  /\ pc' = IF k # None THEN "add_cred" ELSE "add_index"
  /\ UNCHANGED <<nvm, up, session, connected, given, stale, unsynced>>

Done == pc' = "idle" /\ op' = NoJob
Forgotten == users' = [users EXCEPT ![op.slot] = Empty]
Restored == users' = [users EXCEPT ![op.slot] = op.saved]

AddCred ==
  /\ pc = "add_cred"
  /\ creds' = [creds EXCEPT ![op.slot] = op.secret]
  /\ pc' = "add_index"
  /\ UNCHANGED <<index, up, users, session, connected, op, given, stale, unsynced>>

AddCredFails ==
  /\ pc = "add_cred"
  /\ Forgotten
  /\ Done
  /\ UNCHANGED <<nvm, up, session, connected, given, stale, unsynced>>

AddIndex ==
  /\ pc = "add_index"
  /\ index' = Persisted(users)
  /\ given' = [given EXCEPT ![op.slot] = {op.secret} \ {None}]
  /\ unsynced' = FALSE
  /\ Done
  /\ UNCHANGED <<creds, up, users, session, connected, stale>>

\* Mutant: the entry in RAM outlives the failure.
M_AddIndexFails ==
  /\ pc = "add_index"
  /\ Done
  /\ UNCHANGED <<nvm, up, users, session, connected, given, stale, unsynced>>

AddIndexFails ==
  /\ pc = "add_index"
  /\ Forgotten
  /\ IF op.secret # None
     THEN pc' = "add_undo" /\ UNCHANGED op
     ELSE Done
  /\ UNCHANGED <<nvm, up, session, connected, given, stale, unsynced>>

\* The credential written for nothing is destroyed; a failure is ignored.
AddUndo ==
  /\ pc = "add_undo"
  /\ \/ creds' = [creds EXCEPT ![op.slot] = None]
     \/ UNCHANGED creds
  /\ Done
  /\ UNCHANGED <<index, up, users, session, connected, given, stale, unsynced>>

(***************************************************************************)
(* Deleting a user: the index is written before the credential goes.       *)
(***************************************************************************)
UserDelete(c, s) ==
  /\ Allowed(c, "user_delete")
  /\ IsAdmin(Self(c))
  /\ users[s] # Empty
  /\ op' = [slot |-> s, secret |-> None, saved |-> users[s]]
  /\ users' = [users EXCEPT ![s] = Empty]
  /\ pc' = "del_index"
  /\ UNCHANGED <<nvm, up, session, connected, given, stale, unsynced>>

\* The account of the slot is gone; sessions of its user stay as they are.
Removed ==
  /\ Done
  /\ given' = [given EXCEPT ![op.slot] = {}]
  /\ stale' = stale \union SessionsOf(op.slot)

DelIndex ==
  /\ pc = "del_index"
  /\ index' = Persisted(users)
  /\ unsynced' = FALSE
  /\ IF op.saved.cred
     THEN pc' = "del_cred" /\ UNCHANGED <<op, given, stale>>
     ELSE Removed
  /\ UNCHANGED <<creds, up, users, session, connected>>

DelIndexFails ==
  /\ pc = "del_index"
  /\ Restored
  /\ Done
  /\ UNCHANGED <<nvm, up, session, connected, given, stale, unsynced>>

DelCred ==
  /\ pc = "del_cred"
  /\ creds' = [creds EXCEPT ![op.slot] = None]
  /\ Removed
  /\ UNCHANGED <<index, up, users, session, connected, unsynced>>

\* "a destroy failure is fatal: roll the deletion back"
DelCredFails ==
  /\ pc = "del_cred"
  /\ Restored
  /\ pc' = "del_undo"
  /\ UNCHANGED <<nvm, up, session, connected, op, given, stale, unsynced>>

DelUndo ==
  /\ pc = "del_undo"
  /\ \/ index' = Persisted(users) /\ unsynced' = FALSE
     \/ UNCHANGED index /\ unsynced' = TRUE
  /\ Done
  /\ UNCHANGED <<creds, up, users, session, connected, given, stale>>

(***************************************************************************)
(* Changing a user: one write each.                                        *)
(***************************************************************************)
\* Mutant: the caller's own session keeps its old permissions.
M_SetPermissions(c, s, p) ==
  /\ Allowed(c, "set_permissions")
  /\ IsAdmin(Self(c))
  /\ users[s] # Empty
  /\ users' = [users EXCEPT ![s].perm = p]
  /\ index' = Persisted(users')
  /\ unsynced' = FALSE
  /\ stale' = stale \union (SessionsOf(s) \ {c})
  /\ UNCHANGED <<creds, up, session, connected, pc, op, given>>

\* A write that fails is undone in RAM, which leaves the state as it was.
SetPermissions(c, s, p) ==
  /\ Allowed(c, "set_permissions")
  /\ IsAdmin(Self(c))
  /\ users[s] # Empty
  /\ users' = [users EXCEPT ![s].perm = p]
  /\ index' = Persisted(users')
  /\ unsynced' = FALSE
  /\ session' = IF s = Self(c) THEN [session EXCEPT ![c].perm = p] ELSE session
  /\ stale' = stale \union (SessionsOf(s) \ {c})
  /\ UNCHANGED <<creds, up, connected, pc, op, given>>

\* Mutant: setting no credential leaves the old one in NVM.
M_SetCredentials(c, s, cur, new) ==
  /\ Allowed(c, "set_credentials")
  /\ s = Self(c) \/ IsAdmin(Self(c))
  /\ users[s] # Empty
  /\ cur = IF users[s].cred THEN creds[s] ELSE None
  /\ users' = [users EXCEPT ![s].cred = new # None]
  /\ given' = [given EXCEPT ![s] = {new} \ {None}]
  /\ UNCHANGED <<nvm, up, session, connected, pc, op, stale, unsynced>>

\* The current credential must be presented, or none if the user has none;
\* RAM follows only a write that succeeds.  No credential clears it.
SetCredentials(c, s, cur, new) ==
  /\ Allowed(c, "set_credentials")
  /\ s = Self(c) \/ IsAdmin(Self(c))
  /\ users[s] # Empty
  /\ cur = IF users[s].cred THEN creds[s] ELSE None
  /\ new # None \/ users[s].cred
  /\ creds' = [creds EXCEPT ![s] = new]
  /\ users' = [users EXCEPT ![s].cred = new # None]
  /\ given' = [given EXCEPT ![s] = {new} \ {None}]
  /\ UNCHANGED <<index, up, session, connected, pc, op, stale, unsynced>>

\* The device loses power: what is not in the index is no account.
Reset ==
  /\ up
  /\ up' = FALSE
  /\ users' = [s \in Slot |-> Empty]
  /\ session' = [c \in Ctx |-> NoSession]
  /\ connected' = [c \in Ctx |-> FALSE]
  /\ pc' = "idle"
  /\ op' = NoJob
  /\ given' = [s \in Slot |-> IF index[s] = Empty THEN {} ELSE given[s]]
  /\ stale' = {}
  /\ unsynced' = FALSE
  /\ UNCHANGED nvm

Request(c) ==
  \/ Connect(c) \/ Disconnect(c)
  \/ \E n \in Name, k \in Secret : Login(c, n, k)
  \/ \E s \in Slot : Logout(c, s) \/ UserDelete(c, s)
  \/ \E n \in Name, p \in Perms, k \in Secret \union {None} : UserAdd(c, n, p, k)
  \/ \E s \in Slot, p \in Perms : SetPermissions(c, s, p)
  \/ \E s \in Slot, cur \in Secret \union {None}, new \in Secret \union {None} :
       SetCredentials(c, s, cur, new)

NvmWrite ==
  \/ AddCred \/ AddCredFails \/ AddIndex \/ AddIndexFails \/ AddUndo
  \/ DelIndex \/ DelIndexFails \/ DelCred \/ DelCredFails \/ DelUndo

Next == Boot \/ Reset \/ NvmWrite \/ \E c \in Ctx : Request(c)

Spec == Init /\ [][Next]_vars

(***************************************************************************)
(* Properties.                                                             *)
(***************************************************************************)
\* The users, the sessions and the request in progress are well typed.
TypeOK ==
  /\ index \in [Slot -> Stored \union {Empty}]
  /\ creds \in [Slot -> Secret \union {None}]
  /\ up \in BOOLEAN
  /\ users \in [Slot -> User \union {Empty}]
  /\ session \in [Ctx -> Session \union {NoSession}]
  /\ connected \in [Ctx -> BOOLEAN]
  /\ pc \in Pc
  /\ IF pc = "idle" THEN op = NoJob ELSE up /\ op \in Job
  /\ given \in [Slot -> SUBSET Secret]
  /\ stale \in SUBSET Ctx
  /\ unsynced \in BOOLEAN

\* An account that was given a credential, when it was added or since, has
\* that credential in NVM at every point between requests, resets, failed
\* writes and other accounts in the slot before it notwithstanding.
OwnCredential ==
  pc = "idle" => \A s \in Slot : given[s] # {} => creds[s] \in given[s]

\* Between requests the index in NVM is the one in RAM, so that a reset brings
\* back what callers were told, and RAM knows of every credential an account
\* was given; only an undo that itself failed may leave them apart.
IndexInSync ==
  up /\ pc = "idle" /\ ~unsynced =>
    /\ index = Persisted(users)
    /\ \A s \in Slot : given[s] # {} => users[s].cred

\* A session whose user nobody else has touched is of a connected client, has
\* the permissions the account has now, and is the only one of its user.
SessionIsCurrent ==
  pc = "idle" =>
    \A c \in Ctx \ stale : LoggedIn(c) =>
      /\ connected[c]
      /\ users[Self(c)] # Empty
      /\ users[Self(c)].active
      /\ users[Self(c)].perm = session[c].perm
      /\ SessionsOf(Self(c)) \subseteq {c} \union stale

\* A user that the server takes for logged in has a session: otherwise no
\* login of that user would succeed until the next reset.
NoLockout ==
  \A s \in Slot : users[s] # Empty /\ users[s].active => SessionsOf(s) # {}

\* What those who are no admins may do, by their accounts in NVM and RAM, by their
\* sessions and by a deletion that may be undone.
Held ==
  {index[s].perm : s \in {t \in Slot : index[t] # Empty}}
    \union {users[s].perm : s \in {t \in Slot : users[t] # Empty}}
    \union {session[c].perm : c \in {d \in Ctx : LoggedIn(d)}}
    \union (IF op # NoJob /\ op.saved # Empty THEN {op.saved.perm} ELSE {})
Delegated == UNION {p.acts : p \in {q \in Held : ~q.admin}}
AnyAdmin == \E p \in Held : p.admin

\* While no admin is logged in, users with the right to add users cannot, in
\* any number of steps, give each other a right none of them had, nor make an
\* admin where there is none.
DelegateDown ==
  [][ (\A c \in Ctx : LoggedIn(c) => ~session[c].perm.admin /\ ~IsAdmin(Self(c)))
      => Delegated' \subseteq Delegated /\ (AnyAdmin' => AnyAdmin) ]_vars

\* "A lingering blob could resurrect the credential if the slot is reused":
\* the credential that logs a user in is one that was given to that account.
CredentialIsOwn ==
  pc = "idle" => \A s \in Slot :
    users[s] # Empty /\ users[s].cred => creds[s] \in given[s]
=============================================================================
