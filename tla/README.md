# TLA+ models of wolfHSM

This directory holds TLA+ models of wolfHSM, TLC configurations that check them
on small instances, and proofs that TLAPS checks for instances of every size.
All of it is written from the C code; where a document and the code disagree,
the model follows the code (see *Findings*).

## 1. The system

wolfHSM is a hardware security module in software: a **client** library on an
application core sends requests over a **transport** to a **server** on the
secure core, which keeps keys and objects in **non-volatile memory (NVM)** and
runs cryptography with them.

```
 application                                     server loop
   wh_client*.c  ── request ──►  transport  ──►  wh_server.c ──► handlers
   wh_comm.c     ◄─ response ──  mem/TCP/…  ◄──  wh_comm.c         │
                                                     key store ────┤  cache per server context,
                                                                   │  one for global keys
                                                     NVM layer  ◄──┘  policy, lock, reclaim
                                                     NVM backend      flash or flash log
                                                     flash units      program / erase
```

| Component | State it keeps | Operations | What makes it hard | What makes it correct |
|---|---|---|---|---|
| NVM flash backend (`wh_nvm_flash.c`) | two partitions on flash (header, entries, data), a directory in RAM | Init, AddObject, DestroyObjects (also compaction), List, GetMetadata, Read, GetAvailable | power loss and driver errors between and inside any two flash calls; the directory is kept by hand next to the flash | an operation is done or not begun after a reset; success only when durable; never formatted anew; RAM and flash agree |
| NVM flash log backend (`wh_nvm_flash_log.c`) | two images on flash, one in RAM | the same interface | a change is made in RAM before it is on flash; the undo reads flash; fallback at boot | the same contract |
| NVM layer (`wh_nvm.c`, `wh_server_nvm.c`) | the NVM lock | policy checks, add with reclaim, client requests | names objects directly, behind the key store | policy flags hold on every path |
| Key store (`wh_server_keystore.c`) | cache slots, small and big, each with id, key, flags, committed mark | cache, commit, evict, erase, revoke, export, freshen, unwrap | slots are taken from committed keys; requests fail half way; two copies of each key | one copy; no key lost to another; revocation and sealing are for good |
| Stateful signatures (in `wh_server_crypto.c`) | the index inside the key's slot and NVM object | key generation, sign | crash or NVM failure around the persist; several copies of one index | no index is used twice |
| Comm layer (`wh_comm.c`, `wh_timeout.c`) | sequence number, pending flag, response timer; server's buffer | send, receive, abort, serve | late answers, timeouts, abandoned calls, restarts | an answer goes to its own call; a request is handled once; calls return |
| Shared-memory transport | two control words with notify counters, two buffers | the four send/receive halves, init with clear | two cores without a lock | ownership of the buffers alternates |
| TCP transport | a buffer and offset per side, `request_sent`, `request_recv` | connect, accept, partial writes and reads | a packet stops anywhere; one buffer for both directions | pieces of two packets never mix |
| Server dispatch (`wh_server.c`) | connection state, client id | COMM requests, routing, authorisation | connection changes under a session | a refused request has no effect; sessions end with the connection |
| Authentication (`wh_auth*.c`) | user index in RAM and NVM, credentials in NVM, a session per context | login, logout, add, delete, permissions, credentials | two NVM writes per change, with an undo that may fail; permissions cached in sessions | a name logs in with its own credential; RAM and NVM agree; sessions are current; nobody locked out, no permission out of nothing |
| SHE (`wh_server_she.c`) | slots in NVM and cache, boot and random state per server | secure boot, GET_ID, LOAD_KEY, random seed | commands in any order and from several servers; stale cached copies; NVM errors taken for missing keys | a boot measures what it was fed; counters and write protection move forward; no seed twice |
| Certificate manager (`wh_server_cert.c`) | roots in NVM, verify cache | add, erase, verify, cache requests | a hit vouches for an earlier verify; the cache changes in the middle of another client's verify | what is accepted is vouched for by the roots of the moment |
| Client crypto (`wh_client_crypto.c`) | hash objects with a partial block, DMA mappings, temporary keys on the server | requests and responses, blocking calls | failures between a change of the object and the send; late answers; who evicts a temporary key | no byte lost or hashed twice; mappings returned; no key left behind or evicted twice |
| Server crypto handlers (`wh_server_crypto.c`) | none between requests | one handler per algorithm and operation | evict on every path, also under the id of a new key | see key store and client crypto |
| Key wrap, counters, image manager | keys, NVM objects; none | see `PROJECT.json` | counters of primed keys must not go back | |
| Logging, hardware key store, custom callbacks, message translation, tools | ring buffer; none | | | |

Interactions: the handlers call the key store, the key store the NVM layer, the
NVM layer one backend through the callback table `whNvmCb`; a handler takes the
NVM lock (`WH_SERVER_NVM_LOCK`) around the policy check and all writes. Several
server contexts, each with its own connection and its own key cache, may share
one NVM context. The client's blocking calls send one request and poll for its
answer; some send several, with cleaning up in between. `PROJECT.json` lists
every component with its status, and the hazards of the code by line.

## 2. Modules

| Module | Models | Kind |
|---|---|---|
| `NvmOps` | the operations of `whNvmCb` as effects on a map of objects | definitions |
| `NvmStore` | what a backend promises its callers | abstract specification |
| `NvmFlash` | `wh_nvm_flash.c` over flash units | implementation, refines `NvmStore` |
| `NvmFlashProofs` | headers, entries and data, the directory and its sums, the refinement | proofs |
| `NvmFlashLog` | `wh_nvm_flash_log.c` | implementation, refines `NvmStore` |
| `NvmFlashLogProofs` | the refinement | proofs |
| `Comm` | `wh_comm.c`, `wh_timeout.c`, the blocking client calls | shared by the two below |
| `CommMem` | `Comm` over `wh_transport_mem.c` | composition |
| `CommTcp` | `Comm` over `posix_transport_tcp.c` | composition |
| `Keystore` | `wh_server_keystore.c`, the NVM policy, LMS/XMSS signing, client NVM requests | state machine |
| `KeystoreProofs` | types, one copy, no index reuse, sealed, revoked, committed and other keys | proofs |
| `Auth` | `wh_auth.c`, `wh_auth_base.c`, `wh_server_auth.c`, the gate of `wh_server.c` | state machine |
| `AuthProofs` | credentials, sessions, delegation | proofs |
| `She` | `wh_server_she.c` over NVM and cache | state machine |
| `SheProofs` | boots, slots, seeds | proofs |
| `Cert` | `wh_server_cert.c` with the verify cache | state machine |
| `CertProofs` | the cache answers only for what roots vouch for | proofs |
| `CryptoClient` | hash and random requests of `wh_client_crypto.c` and their handlers, inline and by DMA | state machine |
| `ClientProofs` | mappings are returned, every byte is hashed once and in order; the comm layer over both transports | proofs |
| `CallTable` | what each client call and each handler does about keys | definitions |
| `Calls` | keys that client calls import, use and make | state machine over `CallTable` |
| `CallsProofs` | keys stay, and none is left behind | proofs |
| `MC...` | the small instance of the module it is named after | models |

### NVM flash: `NvmFlash`

`hdr`, `obj` and `dat` are the flash: the three state words of a partition
(epoch, start, count), the entries with theirs, and the data units.  `active`,
`epoch`, `dir`, `dirBad` are the RAM context (`whNvmFlashContext`): which
partition is in use and the directory with its counts of free and reclaimable
space.  `pc`, `op`, `cp` say how far the call in progress is: one action is one
call of the flash driver, so `DestroyObjects` with two survivors is about a dozen
steps.  `Reset` may happen at each. `Faults` says which calls may fail and how:
half done, done but reported as failed, or not readable afterwards.

Data is abstracted to units: `UnitsOf` gives the size of a content, and a copy
is checked unit by unit through what `View` reads back.  Calls of different
clients are serialised by the NVM lock, so there is one call at a time.

`NvmStore` has two maps, `mem` (what callers see) and `disk` (what a reset would
find), and lets an operation take effect on `disk` at one instant before it
returns.  `NvmFlash!StoreRefined` maps `disk` to what Init would recover from the
flash words as they are, at every single step.

### NVM flash log: `NvmFlashLog`

The whole store is one image in RAM (`ram`), and each change writes it to the
partition that is not in use, then that partition's header with the next epoch,
then erases the old one.  `hdr` and `dat` are the two partitions.  The code
changes RAM first; `left` is an object that it leaves at the start of the buffer
of an empty image, and `spoiled` remembers that a call failed in one of the two
ways that its undo does not cover: callers then see something else than flash
holds, until the next change or reset.  `BeyondSpoil` says whether calls are
explored after that.  Two things are taken from the flash interface: a header is
one write unit, so it is never half written, and a driver that reports an error
for a header has not programmed it.

The refinement of `NvmStore` is the same as that of `NvmFlash`: `disk` is what
Init would read, `mem` is RAM between calls and the image before the change
during one.

### Comm layer: `Comm`, `CommMem`, `CommTcp`

`Comm` holds the parts of each call that do not depend on the transport as
operators; the two others make actions of them.  `call` is the program counter of
the client's blocking call, `srv` that of `wh_Server_HandleRequestMessage`.  In
`CommMem` one action is what a core does between two accesses to memory the other
core writes (the writes of a buffer are hidden until its control word changes).
In `CommTcp` a packet is two pieces, header and content, so that every partial
write and read is a split between them; the stream keeps order and loses nothing.
All requests are alike: the number of the call stands for its content.

### Key store: `Keystore`

| Variable | In the code |
|---|---|
| `cache` | `whKeyCacheContext` of each server context, and the one of global keys in the NVM context |
| `nvm` | the objects in NVM, one per key id (the abstract store of `NvmStore`) |
| `at` | which server context has a connection of which client |
| `signing` | a signature whose index is on flash and which is not yet sent |
| `made`, `released`, `reused`, `moves`, `revoked`, `leaked`, and `stale` in a slot | history, for the properties only |

A key is its id, its material (a number, so that two keys are never taken for
each other), its kind (small, big, stateful), a signature index and the flags
that policy looks at.  A handler holds the NVM lock from its check to its last
write and is one action; a request that is refused is no step.  The search for a
slot, the eviction before it, and every failure after it (no room, copy fails,
NVM fails) is part of the action.  Signing is two steps, `SignPersist` (the write
callback has put the advanced index on flash) and `SignRelease` (the answer
leaves), with a `Reset` possible in between.  A signature that lies in the
client's DMA buffer counts as released with the answer: before it, wolfCrypt has
either persisted the index or wiped the buffer.

Eviction after use runs in a second section of the NVM lock in the code and is
one step with the use here: only the cache of global keys could change between,
and the run has none.

### Authentication: `Auth`

`index` and `creds` are the NVM objects (one index of all accounts, one
credential per slot), `users` the index in RAM that all contexts share,
`session` the `whAuthContext.user` of each context.  The auth lock serialises
requests; a request that writes NVM more than once is a step per write (`pc`),
and each write may fail, or the power may go, before it.  The action of a write
that fails contains the undo in RAM, `AddUndo` and `DelUndo` are the undo in NVM,
which may fail as well (`unsynced`).  `Allowed` is the gate of
`wh_Server_HandleRequestMessage` with `wh_Auth_BaseCheckRequestAuthorization`;
what is allowed of other message groups is like `user_delete`'s gate and changes
nothing here.

The model is deliberately silent, because the code is, about: a user deleted or
demoted by another context, whose session goes on with its permissions (`stale`);
and an admin who deletes or demotes itself as the last one (the example server
adds `admin` again at boot).  The documentation calls the base backend volatile;
the code persists.  A TCP client that closes is read as "not ready"
(`posix_transport_tcp.c:194`), and a client over shared memory may restart without
COMM_CLOSE: both keep the connection and its session, which is `Disconnect`
not being taken.

### SHE: `She`

`nvm` and `cache` are the slots in NVM and the key cache, `seed`/`seedCopy` the
PRNG seed in both; `sb`, `blSize`, `blRecv`, `cmac`, `keyFound`, `rnd`, `uid` are
the `whServerSheContext` of each server.  The module is the build with
`WOLFHSM_CFG_SHE_GLOBAL_KEYS`, whose slots several servers share; one server is
the build without.  A read of NVM may fail with another error than "not found",
which the code takes for "not found" when it looks for `BOOT_MAC_KEY` (line 397)
and for the target of a load (line 754): `unread` remembers it.  Cryptography is
ideal, so a load is "whoever knows the authorising key".  Three things are as in
the code and surprising: GET_ID computes its code in the CMAC of a secure boot in
progress (`cut`); a stray boot command after success resets the state; and a blob
primed by `wh_Client_ShePreProgramKey` may carry other flags than a
write-protected record (`primed`).  Left out: `ramKeyPlain` and its export, the
ciphers.

### Certificates: `Cert`

`roots` is NVM; `cache` the verify cache(s): one per server, or one for all
(`Global`).  `job` is the request that holds the NVM lock: a verify loads its
roots and then goes through the chain (`ReadNext`, `CacheHit`, `Accept`,
`InsertVerified`), a step per access to the cache, whose own lock is released in
between, so that other clients clear, disable and enable it in the middle.  `Below` is any
relation closed under issuing, so that "vouched for" needs no signatures.  Left
out: client NVM requests that write or destroy a root directly behind the cache,
caching a leaf's public key as a key, and failures to take a lock.  DMA variants
are the same code after their copy.

### Client crypto: `CryptoClient`

Hash objects with their partial block, the request outstanding, the buffer to be
released (`stash`), the mappings that the port's PRE callback made (`mapped`) and
the buffers themselves (`mem`).  A blocking call and the pair of non-blocking
functions it is made of are different actions (`call`).  The hash is perfect: the
chaining state is the sequence of bytes, so a byte lost, repeated or reordered shows.
SHA-224, SHA-384 and SHA-512 repeat the code with other sizes.  Not covered:
`wh_CommClient_AbortPending`, after which a DMA mapping is never released.  Use
outside the documented contract (a response function with another object) is
not explored.

### Keys of calls: `CallTable`, `Calls`

All of the client's blocking crypto calls have one shape about keys: import what
is not on the server, use it with a flag that asks the server to evict it,
evict by hand if the request was never sent; or make a key, and take it back if its
public half cannot be returned.  `CallTable` has one row for each of them, and one for
each server handler, read off the functions one by one: how many key arguments are
imported, whether the handler obeys the flags, what key it leaves in the cache,
how the call undoes it, and which functions share a row's code.  `Calls` gives the
rows their meaning: one client's calls one
after another, with refused sends, timeouts, denied requests and handlers that
fail.  `cache` is what the server holds, `net` the message under way, `call` the
call and its place in the code, `known` the keys the application has, `adrift`
(history) the keys that no call will evict any more.  A lost answer to an import,
a failed eviction and a denied request put a key adrift: the code has no other
way to know of it.  `Deniable` says for which of the four ways to undo (`Undos`) denied
requests are explored.  Key ids of wrapped keys are a namespace of their own in
the code and share the one of the module.

## 3. Runs

| Run | Result | Question | Bounds |
|---|---|---|---|
| `nvm_flash` | passes | does the store keep its promise through power loss and half-done flash calls? | 2 ids, contents of 0 and 2 units, 3 entries, 4 data units, 2 compactions |
| `nvm_flash_errors` | passes | do RAM directory and flash agree after every driver error? | the same, all run-time faults |
| `nvm_log` | passes | does the log backend keep the same promise? | 3 ids, 2 contents, 2 objects, 3 units, 4 epochs |
| `comm_mem` | passes | who gets which answer, is each request handled once, do calls return? | 4 calls, sequence and notify counters modulo 2, 1 restart |
| `comm_tcp` | passes | the same over TCP with partial writes and reads | 4 calls, sequence modulo 2 |
| `keystore` | passes | who owns which slot, what survives failures, is an index used twice? | 2 keys of one client, 1 small and 1 big slot, 2 materials, 2 indices, 1 move, NVM of 2 objects |
| `keystore_moved` | violated | is no index reused when a client moves between contexts? | 1 key, 2 contexts, 2 moves |
| `auth` | passes | do accounts, credentials and sessions follow each other? | 2 clients, 2 slots, 2 names, 2 secrets, 3 permission sets |
| `she` | passes | do boots measure, do slots move forward, are seeds new? | 2 servers, 1 application slot, counters 0 and 1, 3 seed updates |
| `cert` | passes | what is a cache hit worth when roots and cache change under it? | 2 clients, 3 ids, 4 certificates (2 roots, 1 intermediate, 1 leaf), 2 cache slots, one global cache |
| `crypto_client` | passes | is every byte hashed once, is every mapping returned? | 2 objects, 3 buffers (1 refused), block and inline size 2, 4 bytes per object |
| `calls` | passes | is a key evicted by exactly one? | 3 key ids, all rows, denials for three of the four ways to undo |

**Why the bounds are enough to show the interesting cases.**  NVM: with three
entries and two ids a partition fills up with superseded versions, so that adds
are refused, compaction is needed and copies one or two survivors; two epochs let
either partition be the newer one, in both orders.  With four units and a content
of two, data space runs out before entries do and the other way round.  Log: three ids for two
objects, so that a full image refuses; each partition is the target twice.  Comm:
counters modulo 2 wrap within four calls, which makes a late answer carry the
number of the current call: the transports alone must tell them apart.  Key
store: two small keys compete for one slot, a stateful and a committed key for one
big slot, NVM is full with two objects; one move is what separates settled from
unsettled.  Auth: two slots let an account follow another in a slot while the
other client is logged in; the permission sets are an admin, a user manager, and
a user that may only delete.  She: two servers are what stale copies need, a counter of 1 is the last
one.  Cert: the second slot makes a ring, three ids let a root be loaded, another
be replaced and a third be absent.  Crypto client: a block of two gives partial
blocks of 0 and 1, an inline size of one block gives several requests for one
call; two objects share the one outstanding request.  Calls: a call has two key
arguments and one output at most.

`VIEW` in the NVM runs leaves out a partition that is neither in use nor being
written, of which the code only looks at whether its header is complete and of
which epoch; `MCNvmFlash` gives the reason.  Symmetry is over ids, server
contexts, keys, objects or buffers, where no module tells them apart; the runs
that check liveness use none.

`CHECK_DEADLOCK FALSE` appears in the comm runs only: an application may stop
making calls.

### Properties

*NVM.* `StoreRefined` (above). `NeverUnformatted`: once a partition is complete,
there is always a complete one, so Init never formats a store in use.
`ActiveIsNewest`: the partition in use is the one a reset selects.
`DirectoryMatchesFlash`: the directory maintained call by call is the one that
would be parsed from flash. `FreeSpaceIsErased`: what the directory takes for
free can be programmed. `ReclaimIsExact`: compaction frees exactly what
`GetAvailable` announced. Both `DirectoryMatchesFlash` and `FreeSpaceIsErased`
exempt the time after a write that failed with nothing recorded in RAM, until
the next call notices.

*Comm.* `CleanAnswersMatch`, `CleanHandledOnce`: answers go to their calls and
requests are handled once, unless a client restarted under a busy server (`clean`)
or, over TCP, gave up in the middle of a packet. `PiecesMatch`: pieces of
two packets are never joined. `WaitsEnd`, `CallsReturn`: liveness.

*Key store.* `OneCopy`: a cache has a key once. `CommittedIsStored`: a slot that may be
taken without asking holds what NVM holds. `OthersUntouched`: a request for one
key, also one that fails half way, neither changes another key nor makes it
disappear. `RevokedForGood`, `SealedStaysInside`, `NoIndexReuse`, and
`CopiesAreFresh`, the reason for it. Promises for the keys of a client end when
it moves to another server context (`Settled`), because the caches it left stay
as they are; `keystore_moved` shows what happens then. Copies that NVM was
changed under by a client's NVM request (`stale`) are exempt from the two
properties that compare copy and object.

*Auth.* `OwnCredential`: an account's credential in NVM is one it was given, never
that of the account before it. `IndexInSync`: RAM and NVM agree between requests.
`SessionIsCurrent`: a session has the permissions of its account, a connection,
and the user to itself. `NoLockout`: "active" means that somebody is logged in.
`DelegateDown`: users who are no admins never reach a right that none of them had.

*SHE.* `BootOnTrack`, `BootMeasured`: the state of a boot is what was fed to it,
and success means the genuine image, or no boot key. `SlotsGuarded`: counters
rise, write protection stays, in NVM and in what the next load reads.
`SeedFresh`: no two generators start from one seed.

*Certificates.* `CacheIsRooted`: what the cache would answer for is vouched for by
the roots NVM holds now. `ChainIsRooted`: what a verify accepts is. `LeafHasIssuer`: a
leaf passes behind its issuer only.

*Client crypto.* `InputAccounted`: chaining state and partial block together are
the accepted input, or exactly one request less while it is outstanding.
`DigestsRight`, `RequestsAccepted`: the server computes from the right state and
never refuses a request that the client builds. `MappingsReturned`: a mapped buffer is the outstanding
request's.

*Calls.* `KnownStay`: a key the application has stays until it evicts it.
`NoneLeftBehind`: a temporary key always has somebody to evict it.
`OwnIsFresh`: the key that a call or message is to evict is its own, so
nothing is evicted twice.

Each property of a passing run has a mutant in `PROJECT.json`: a change of one
definition that a plausible mistake in the code would make, and that TLC finds.
The type invariants are proved where a module has proofs, and part of a run where
one was room for; those of the comm modules are `CommTypeOK` and `TypeOK`.

### Fairness

`FairSpec` of the comm modules has weak fairness of the client's steps: the
blocking API of `wh_client.c` polls in a loop.  `WaitsEnd` assumes that a running
timer expires, and nothing of the server, which may be dead.  `CallsReturn`
assumes in addition that the server's loop keeps calling
`wh_Server_HandleRequestMessage`, which the examples and every port do.  These are
premises of the properties, so each states what it needs.  There is no strong
fairness, and none on making calls, restarting or aborting.  The other modules
have safety properties only: nothing there waits.

## 4. Findings

`keystore_moved` is kept as a run: a server context keeps its cached keys when
clients come and go, so that a client which signs through two contexts in turn
uses a one-time index twice.  The others below were met while modelling; each is
found by TLC when the named definition is checked as the only property, with the
constants given.

| Check | With | Shows |
|---|---|---|
| `AddIsDurable` | `NvmFlash.cfg`, `Faults = {"program", "verify", "erase", "reread"}` | after an error that the driver reports for the last steps of DestroyObjects, the code goes on with the old partition (`wh_nvm_flash.c:1413`) while a reset selects the new one; objects added in between are lost |
| `InitFinishesErase` | `NvmFlash.cfg`, `Faults = {}` | `5-Features.md:227` and `wh_nvm.h:115` say that an interrupted erase is completed at the next boot; Init erases nothing |
| `CallersSeeFlash` | `NvmFlashLog.cfg` | a failed add to an empty store leaves the object visible until the next reset (`wh_nvm_flash_log.c:411`) |
| `AnswersMatch` | `CommMem.cfg`, both moduli 8 | a client that restarts while the server works takes the old answer for its own: `wh_transport_mem.c:223` reads `req->notify` again instead of the value saved, as `wh_transport_mem.h:47` has it |
| `UsableAfterTimeout` | `CommTcp.cfg`, `MaxCalls = 2` | after a timeout the TCP transport refuses every request (`posix_transport_tcp.c:483`); `wh_comm.c:257` says the context stays usable |
| `RevokedDoesNotSign` | `Keystore.cfg` with one key and one context | LMS and XMSS signing (`wh_server_crypto.c:8104`, `:8607`) do not check the usage flags, so a revoked key signs; `5-Features.md:465` says it cannot |
| `CredentialIsOwn` | `Auth.cfg` | a credential object that outlives its account logs in the next user of the slot, added without one, after a reset (`wh_auth_base.c:773`); the comment there rules out just that |
| `PiecesAreMeasured` | `She.cfg` | GET_ID during a secure boot overwrites the boot's CMAC (`wh_server_she.c:1870`), although it is permitted in every state |
| `ChainIsRooted` | `Cert.cfg`, `Global = FALSE` | a root replaced by one client stays in the other clients' caches; `5-Features.md:529` says every entry is dropped |
| `OwnIsFresh`, `KnownStay` | `Calls.cfg`, `Deniable` all four of `Undos` | key generation for Curve25519, Ed25519, ML-DSA and ML-KEM takes WH_ERROR_ABORTED for "the key was made and its public half lost" and evicts the caller's id, also when the request was denied before the server touched anything (`wh_client_crypto.c:3446`) |
| `BuffersStayQuiet` without `strayed` | `CryptoClient.cfg` | the server writes to a random buffer after its request timed out; `wh_client_crypto.c:415` calls the buffer safe then |

By reading only, with the models following the code: boot documentation
(`5-Features.md:778`, `:780`) calls a failed secure boot terminal, the code resets the
state; `wh_client_crypto.h:146` says an acquired mapping is released on failure, and a
mapping that the client's allow list then refuses is not; POST callbacks are
skipped when the operation fails for AES outputs, random bytes, and
ephemeral post-quantum keys, against the comment at `wh_server_crypto.c:6404`;
an import under an explicit id that fails has already destroyed the copy that was
cached; an LMS or XMSS key whose commit failed stays cached, uncommitted.  A
cached key under a *wrapped* id is in the cache only, and eviction after use
does not look at its policy flags, so that it can be unwrapped again after it was
revoked.

## 5. Proofs

All proofs are for every value of the constants that the named assumptions in
the modules admit.

**`NvmFlashProofs`.**  The inductive invariant `HeaderInv` says, for every
program counter, how far the header of the partition in question is written:
being filled, it has epoch and start but no count; the one in use is complete and
carries the epoch that RAM remembers.  Types alone are not inductive, because
what Init would choose depends on both headers and on where the code is.  From
it: `HeadersFollowCode`, `FormatIsSafe`,
`NeverUnformattedAgain` (the property `NeverUnformatted`) and
`ActiveStaysNewest` (`ActiveIsNewest`), the last from `NewestInv`.

`FlashInv` adds what headers point to:

- `SoundInv`: in a partition with a complete header, and in the one that a destroy
  copies to, the entries are written in order, the reservations of entries do not
  overlap, a complete entry has all of its data, and every written unit lies in
  a reservation (`Sound`); what is about to be written afresh is empty;
- `DirInv`: nothing is written behind the first free entry of the RAM directory, and what
  it takes for an object is a complete entry at the place it says;
- `TargetInv`: what the entry being written holds at each place of the code, which is
  where an interruption can leave it; `BadInv`: a directory that cannot be trusted is
  found out only when a call returns.

It is inductive with `HeaderInv`, whatever the faults of writing and erasing
(`FlashIsSound`), because a reservation is made in flash before its data, so that the next
start skips what an interrupted add left.  From it follows that the data area from where
the next object goes is erased: `FreeSpaceErased` (`FreeSpaceIsErased`).

`TallyInv` adds what the numbers in the directory mean.  Like `FlashInv` it assumes
only that the headers can be read at boot (`HeadersReadable`), and admits every other fault:

- `TiledInv`: in a partition that counts, each reservation starts where those before it end;
- `DirTally`: the RAM directory says of each entry before its first free one what the parser
  would, and its data end and both counters of reclaimable space are the sums of what they count;
- `CopyTally`: the part of a destroy done so far has taken one entry and the units of each
  object to keep that it passed, each id once.

The parser sums extents over a set with a fold, and no induction theorem can be
instantiated here.  The sums are reasoned about by a least counterexample instead:
if some subset of a finite set failed, one of smallest cardinality would, and the fold takes one
element off it (`SetInduction`, from the order of the natural numbers).  So a sum is
unique, adds up over disjoint sets and depends on what is summed only (`TotalOut`,
`TotalUnion`, `TotalSame`).  Theorems: `DirectoryMatches` (`DirectoryMatchesFlash`), because what the
parser returns `Mirrors` and `Tallies` the partition and these two leave only one directory;
`ReclaimExact` (`ReclaimIsExact`), because what a compaction keeps and what the directory calls
reclaimable are, without overlap, all of the entries; and `TypeCorrect` (`TypeOK`).

`ExactInv` is what is true only while errors are reported as they are
(`WritesReported`: no program that completes and is said to have failed, no new directory
that cannot be read, the first finding's faults).  `DirExact`: the directory names exactly the complete
entries with no later one of their id; `CopyExact`: the part of a destroy done so far has copied exactly the
objects to keep; `DestroyDone`: the partition switched to has none of what was
destroyed.  Parser, destroy and lookup take the first or last entry of a kind;
`Smallest` and `Largest` (a bounded set of numbers contains its bounds)
are where the induction is that this needs, and `Says` states what a partition
holds by its latest entries.  Under `StoreInv`, the conjunction of all of these, every action
maps to a step of `NvmStore` or a stutter: a crash to the abstract crash because the partition that a reset
would choose says what the map says, the header's count of a destroy to the abstract
destroy.  Theorems: `StoreRefinement` (`StoreRefined`) and `AddsAreDurable`
(`AddIsDurable`).

**`NvmFlashLogProofs`.**  The refinement of `NvmStore`, in full, for any ids,
contents, sizes and faults.  `IInv` is the conjunction of `TypeOK` and

- `OffInv`: what flash can hold between boots: the partition that a reset would
  choose is whole, and two headers differ in their epochs;
- `FormatInv`: while partition 0 is formatted there is no header at all;
- `NewestInv`: the partition in use is whole, and of a higher epoch than the other;
- `ImageInv`: RAM is the image in use or, during a change, what `NvmOps` makes of it;
- `ChangeInv`: how far the new image is written;
- `OpInv`: a call is in progress exactly during a change, and what `spoiled` covers.

`NewestInv` is where the order of the writes matters: the new header is the only
step at which the choice changes, and the image under it is whole by then.
Theorems: `Invariant`, `TypeCorrect`, `NewestHolds` (`ActiveIsNewest`), and
`Refinement` (`StoreRefined`): each action maps to a step of `NvmStore` or a
stutter.  `Refinement` assumes `~BeyondSpoil`: what callers see after RAM and
flash have come apart is the third finding.

**`KeystoreProofs`.**  The inductive invariant `IInv` is the conjunction of

- `Typed`, `Caching`: types; each cache holds an id at most once, in a slot of its size;
- `AtHome`: a key of a client that never moved is in no cache but its own;
- `Making`, `OneOwner`: a material was made before it is copied, and belongs to one id;
- `Fresh`: every copy of a settled key is past all released indices;
- `Sealing`: all copies of a material are marked non-exportable, or none is;
- `OnItsWay`: while a signature waits to leave, every copy of its key is past it;
- `NoIndexReuse` itself.

`NoIndexReuse` alone is not inductive: a signature reads whichever copy a
lookup finds, so every copy, wherever it is, has to be ahead, and advancing one
copy in one cache is enough only because there is no other.  The lemmas first
describe what an operation does to *one* cache (`Edit`: every key in it was there,
or is the request's key with an object from a given set), then to all of them
(`Derives`), and show once that such a step keeps the invariant (`QuietStep`);
each request is then shown to be such a step.  Signing, release and moving have
proofs of their own.  `Stems` adds what the other properties need: each copy a
request leaves `Continues` one that was there, as exportable and, if that was
revoked, revoked, or it is of a new material.

`SealedStaysInside` follows from `Sealing`: the copy that leaves is not sealed,
so none is.  `RevokedForGood` needs `Final`: NVM still has a revoked key of a
settled client, and every copy of it shows the revocation, so that neither the
key store nor the NVM policy lets it be replaced (`NotTaken`).
`CommittedIsStored` is inductive with `IInv`, slot by slot: a slot of
another key is compared with an object of NVM that the request does not touch, a
copy of the same key in another cache becomes stale, and the slot of the key in its own
cache is written together with NVM, or before it, when its index may run ahead
(`WriteBacked`, `StoreBacked`, `SignBacked`).

`OthersUntouched` is an action property, proved from `IInv` and `CommittedIsStored`.
Every operation on a cache that serves `k` changes only slots that were `k`'s, empty or
committed, and leaves them `k`'s or empty (`Spares`, which composes); so does every request,
for all caches (`LeavesOthers`).  Another key is then either in its slot as it was, or was
given up from a committed slot, and NVM has it with the same material and flags (`OthersFound`).

Theorems: `Invariant`, `TypeCorrect`, `OneCopyHolds`, `CopiesStayFresh`, `NoReuse`,
`SealedStays`, `RevokedStays`, `CommittedStays`, `OthersStay`.

**`AuthProofs`.**  All properties of `Auth`.  They speak of the moments between
requests and are not inductive.  The invariant speaks of `Accounts`, the accounts
as they are going to be if the request in progress fails (a user being deleted
still counts, one being added does not yet), and of `InIndex`, those that the
index in NVM has.  `IInv` is `TypeOK` and

- `JobInv`: what the request in progress has done so far;
- `CredInv`: an account that was given a credential has one of its own in NVM;
- `SyncInv`: the index in NVM is `InIndex`, unless an undo failed;
- `SessionInv`, `LockInv`: a session nobody else touched is its account's only one
  and has its permissions; an active account has a session.

Theorems: `Invariant`, `TypeCorrect`, `CredentialsFollow`, `IndexAgrees`,
`SessionsAreCurrent`, `NobodyLockedOut` and `OnlyDown` (`DelegateDown`, an action
property, one lemma for each request).

**`SheProofs`.**  All properties of `She` that a run checks.  `IInv` falls into parts
that hardly touch each other, each with a lemma for the commands that leave it alone:

- `BootInv`: for each server, `Track`: received size, CMAC and the pieces fed agree, or
  the CMAC was cut off;
- `SlotInv`: a committed copy is the record in NVM, another one was primed or is the
  RAM key, and no copy has a smaller counter than the record;
- `SeedInv`: a copy of the seed is the seed, and generators started from it at the latest.

`SlotsGuarded` needs `SlotInv`, because a load is checked against the copy that the
cache holds, not against NVM.  Theorems: `Invariant`, `TypeCorrect`,
`BootStaysOnTrack` (`BootOnTrack`), `BootIsMeasured` (`BootMeasured`),
`SlotsMoveForward` (`SlotsGuarded`), `SeedsAreFresh` (`SeedFresh`).

**`CertProofs`.**  Two inductive invariants.  `Mechanics` holds for every build:
types, `JobOK` (what a verify has loaded, read and trusted at each stage),
`OnlyCAs` (no leaf in a cache), `LeafHasIssuer` and `DisabledIsEmpty`.  `Trust` is
`CacheIsRooted` and `ChainIsRooted` together, and needs `OneCache` (a global cache, or
one server): a hit is as good as the cache, and an insertion as good as the chain.
That roots do not change during a verify comes from the lock, that is from `job`.
Theorems: `Bookkeeping`, `TypeCorrect`, `LeavesAreChained`, `DisableForgets`,
`CacheSound`, `VerifySound`.

**`ClientProofs`.**  The client's way to the server, in three parts.

*`CryptoClient`.*  `IInv` is `MappingsReturned` with `RngOutstanding`: a request for
random bytes that the server has not seen is the outstanding one or was given up.
Theorems: `Invariant`, `BuffersReturned`, `BuffersQuiet`.

The bytes take two more invariants, one on the other:

- `Kept` is type correctness and more: `PendingKept` and `NetKept` say which request
  may be on the transport for which call, and that what it has the server read lies
  within its buffer; `CallKept` ties a blocking call's rest to its buffer.  A lemma on
  packing (`Packs`: what travels, followed by the new partial block, is the old partial
  block followed by the input) carries `RequestsAccepted`.
- `Counted`: the digest that an object is going to have (`Ahead`), its partial block and
  what its call has not taken make up the bytes accepted (`Accounted`).  It is inductive
  only with `SavedGood` (so does what a blocking call would put back), `NoiseStrayed`
  (random bytes lie where data does only after a request for some was given up) and
  `EndGood` (the last request carries the whole partial block).  The proof rests on one
  lemma: bytes moved from input to partial block to digest change nothing of the
  concatenation (`GoodMove`), and `Alike` lets those read by DMA be random.

Theorems: `BytesKept`, `NoneRefused` (`RequestsAccepted`), `BytesAccounted`
(`InputAccounted`), `DigestsCorrect` (`DigestsRight`), for any number of objects and
buffers, any `Block`, any `Inline` that is a multiple of it, and any bound on the input.

*`CommMem`* (here `Mem`, an instance: its `pending` and `call` are not those of
`CryptoClient`).  While no restart has met the other side at work, `MemClean`:

- `Alternation`: whether the two counters agree says whose turn it is, and the buffers
  hold the request and the answer of the call in progress;
- `Succession`: everything handled so far is older than the request the server works on;
- the two properties themselves.

The sequence number takes no part in this: over shared memory a late answer is
found by the server's counter having caught up, which only `Alternation` knows.
Theorems: `MemInvariant`, `MemAnswers` (`CleanAnswersMatch`), `MemHandled`
(`CleanHandledOnce`), for any modulus of the counters above one.

*`CommTcp`* (`Tcp`).  `OnePacket` enumerates where the one packet is that is under way:
nowhere, its header sent, arriving, at the server, its answer's header sent,
leaving; it holds whatever is given up.  `Numbered`: it has the number that the client expects.  Only
`OwnPacket`, that it is the call's own, needs that no request was given up half
sent, so `PiecesMatch` holds without.  Theorems: `TcpInvariant`, `TcpAnswers`
(`CleanAnswersMatch`), `TcpPieces` (`PiecesMatch`).

**`CallsProofs`.**  `IInv` is `TypeOK` and

- `Paired`: message and call belong together, or the message is a request that was given up;
- `OwnKept`: the keys that a call imports stay cached until it asks for their use,
  and are its own no more from then on;
- `Spoken`: what a message speaks of is not the application's, and an answer with a
  key speaks of one that is cached;
- `Asked`: the request under way is the call's own, and its answer fits;
- `Kept`: `KnownStay`, `NoneLeftBehind` and `OwnIsFresh`.

A rollback is sound only if the server has made the key, which is what the answer
says except for WH_ERROR_ABORTED; the theorems assume `"aborted" \notin Deniable`.
Theorems: `Invariant`, `KeysStay`, `OwnStaysFresh`, `NoKeyLeftBehind`.

TLC checked each inductive invariant on an instance before it was proved.

**Model-checked only.**  The refinement of the flash backend with the faults outside
`WritesReported`, which the first finding shows to fail with one of them.
**Proved only**, not part of a run: most type
invariants of the modules with proofs, `DisabledIsEmpty`, and `ActiveIsNewest` of the log
backend.  Liveness (`WaitsEnd`, `CallsReturn`) is outside what these proofs can reach
and stays with TLC.

## 6. Plan

Done, in this order: `NvmStore` with `NvmFlash`, its proofs and that of the refinement;
`Comm` with two transports; `Keystore` with its proofs; `NvmFlashLog` with the proof of the
refinement; `Auth`, `She`, `Cert`, `CryptoClient` and `Calls`, each with its proofs.

Left, the most useful first:

1. Key wrap inside `Keystore`: unwrap-and-cache with trusted keys and wrapped ids.
2. Global keys: a run of `Keystore` with two clients and the eviction after use
   as a step of its own.
3. `CommTcp` with closing and reconnecting, composed with `Auth`.

## 7. Not modelled

- Cryptography itself, the content of keys and messages, byte order.  Most of the
  repository's lines are this: per-algorithm marshalling, its mirror on the
  other side, API headers and tests.  They keep no state, so that a model has
  nothing to say about them beyond the one row per function that `CallTable`
  has; the share of lines that the models stand for stays low for
  that reason.
- Preemption inside a handler: a handler holds the NVM lock; builds without
  thread safety run one context per NVM.  Failures to take a lock.
- Wear and bit errors of flash other than the faults named in `FaultKinds`;
  write locking of flash; the wrap of the 32-bit partition epoch (2^32
  compactions).
- The atomicity of eviction after use for global keys (plan, 2).
- Non-volatile counters: read, saturation at the largest value and write are one
  section of the NVM lock, and the write is one `add` of `NvmStore` (after a reclaim if need be), which gives its
  durability.  `WH_MAKE_KEYID` keeps eight bits of the 16-bit id a caller gives,
  so that ids which agree in them name one counter.
- The log ring buffer: one writer under a lock, whose count wraps as a `size_t`;
  the flash-backed image manager, which only reads; hardware key store and custom
  callbacks, which are hooks; message translation, which is stateless.
- In `Calls`: imports by DMA and the mappings around calls (`CryptoClient` has
  the mappings); in `She`: `ramKeyPlain`; in `Cert`: NVM requests on a root's id.
- Everything with status `not_modelled` in `PROJECT.json`, with the reason given
  there.

## 8. Running

```
tlasany M.tla                        # parse
tlc -workers 2 -config X.cfg M       # model-check a run of PROJECT.json
tlapm M.tla                          # check the proofs of a module
```

The larger runs (`nvm_flash_errors`, `keystore`, `auth`, `she`) take one to four
minutes, the others less; the proofs take a few minutes per module.
