------------------------------ MODULE CallTable ------------------------------
(***************************************************************************)
(* What each client call and each server handler does about keys: one row  *)
(* for each function of src/wh_client_crypto.c and src/wh_server_crypto.c  *)
(* that imports, evicts or makes a key, and for the key store's requests.  *)
(* What a function computes, and how its messages are laid out, is left    *)
(* out; Calls gives the rows their meaning.                                *)
(***************************************************************************)

\* A server handler: whether it obeys the eviction flags of the request, and
\* the key it leaves in the cache.  "public": the public key is returned when
\* it fits into the answer; "stored": the key is committed as well, and stays
\* in the cache when that fails; "new": only under an id that no cached key has.
Handler(evicts, makes) == [evicts |-> evicts, makes |-> makes]

\* A client call: for how many key arguments it imports a key object that is
\* not on the server, and what it takes back when it has no key to return:
\* "never"; "parsed": the id read from an answer; "assigned": an id that the
\* server chose; "aborted": that, or the caller's id after WH_ERROR_ABORTED.
Calling(imports, undo, on) == [imports |-> imports, undo |-> undo, on |-> on]

(* Handlers that use a key. *)
HandleRsaFunction == Handler(TRUE, "none")
HandleRsaGetSize == Handler(TRUE, "none")
HandleEccSign == Handler(TRUE, "none")
HandleEccVerify == Handler(TRUE, "none")
HandleEccMakePub == Handler(TRUE, "none")
HandleEccCheckPubKey == Handler(TRUE, "none")
HandleEd25519Sign == Handler(TRUE, "none")
HandleEd25519Verify == Handler(TRUE, "none")
HandleEd25519SignDma == Handler(TRUE, "none")
HandleEd25519VerifyDma == Handler(TRUE, "none")
HandleMlDsaSign == Handler(TRUE, "none")
HandleMlDsaVerify == Handler(TRUE, "none")
HandleMlDsaSignDma == Handler(TRUE, "none")
HandleMlDsaVerifyDma == Handler(TRUE, "none")
HandleMlKemEncaps == Handler(TRUE, "none")
HandleMlKemDecaps == Handler(TRUE, "none")
HandleMlKemEncapsDma == Handler(TRUE, "none")
HandleMlKemDecapsDma == Handler(TRUE, "none")

(* Shared secrets: they leave the cache, or go into it as a new key. *)
HandleEccSharedSecret(makes) == Handler(TRUE, makes)
HandleCurve25519SharedSecret(makes) == Handler(TRUE, makes)

(* Handlers that make a key. *)
HandleRsaKeyGen == Handler(FALSE, "public")
HandleEccKeyGen == Handler(FALSE, "public")
HandleCurve25519KeyGen == Handler(FALSE, "public")
HandleEd25519KeyGen == Handler(FALSE, "public")
HandleMlDsaKeyGen == Handler(FALSE, "public")
HandleMlKemKeyGen == Handler(FALSE, "public")
HandleMlDsaKeyGenDma == Handler(FALSE, "key")
HandleMlKemKeyGenDma == Handler(FALSE, "key")
HandleLmsKeyGenDma == Handler(FALSE, "stored")
HandleXmssKeyGenDma == Handler(FALSE, "stored")
HandleHkdf == Handler(FALSE, "key")
HandleCmacKdf == Handler(FALSE, "key")
HandleKeyCache == Handler(FALSE, "key")
HandleKeyCacheRandom == Handler(FALSE, "key")
HandleKeyCacheDma == Handler(FALSE, "key")
HandleKeyUnwrapAndCache == Handler(FALSE, "new")

(* Calls that use a key. *)
RsaFunction == Calling(1, "never", HandleRsaFunction)
RsaGetSize == Calling(1, "never", HandleRsaGetSize)
EccSign == Calling(1, "never", HandleEccSign)
EccVerify == Calling(1, "never", HandleEccVerify)
EccMakePub == Calling(1, "never", HandleEccMakePub)
EccCheckPubKey == Calling(1, "never", HandleEccCheckPubKey)
Ed25519Sign == Calling(1, "never", HandleEd25519Sign)
Ed25519Verify == Calling(1, "never", HandleEd25519Verify)
Ed25519SignDma == Calling(1, "never", HandleEd25519SignDma)
Ed25519VerifyDma == Calling(1, "never", HandleEd25519VerifyDma)
MlDsaSign == Calling(1, "never", HandleMlDsaSign)
MlDsaVerify == Calling(1, "never", HandleMlDsaVerify)
MlDsaSignDma == Calling(1, "never", HandleMlDsaSignDma)
MlDsaVerifyDma == Calling(1, "never", HandleMlDsaVerifyDma)
MlKemEncapsulate == Calling(1, "never", HandleMlKemEncaps)
MlKemDecapsulate == Calling(1, "never", HandleMlKemDecaps)
MlKemEncapsulateDma == Calling(1, "never", HandleMlKemEncapsDma)
MlKemDecapsulateDma == Calling(1, "never", HandleMlKemDecapsDma)
EccSharedSecret == Calling(2, "never", HandleEccSharedSecret("none"))
EccSharedSecretCacheKey == Calling(2, "never", HandleEccSharedSecret("key"))
Curve25519SharedSecret ==
  Calling(2, "never", HandleCurve25519SharedSecret("none"))
Curve25519SharedSecretCacheKey ==
  Calling(2, "never", HandleCurve25519SharedSecret("key"))

(* Calls that make a key, without or with its public key. *)
RsaMakeCacheKey == Calling(0, "never", HandleRsaKeyGen)
EccMakeCacheKey == Calling(0, "never", HandleEccKeyGen)
Curve25519MakeCacheKey == Calling(0, "never", HandleCurve25519KeyGen)
Ed25519MakeCacheKey == Calling(0, "never", HandleEd25519KeyGen)
MlDsaMakeCacheKey == Calling(0, "never", HandleMlDsaKeyGen)
MlKemMakeCacheKey == Calling(0, "never", HandleMlKemKeyGen)
RsaMakeCacheKeyAndExportPublic == Calling(0, "parsed", HandleRsaKeyGen)
EccMakeCacheKeyAndExportPublic == Calling(0, "parsed", HandleEccKeyGen)
Curve25519MakeCacheKeyAndExportPublic ==
  Calling(0, "aborted", HandleCurve25519KeyGen)
Ed25519MakeCacheKeyAndExportPublic ==
  Calling(0, "aborted", HandleEd25519KeyGen)
MlDsaMakeCacheKeyAndExportPublic == Calling(0, "aborted", HandleMlDsaKeyGen)
MlKemMakeCacheKeyAndExportPublic == Calling(0, "aborted", HandleMlKemKeyGen)
MlDsaMakeCacheKeyDma == Calling(0, "assigned", HandleMlDsaKeyGenDma)
MlKemMakeCacheKeyDma == Calling(0, "assigned", HandleMlKemKeyGenDma)
LmsMakeKeyDma == Calling(0, "never", HandleLmsKeyGenDma)
XmssMakeKeyDma == Calling(0, "never", HandleXmssKeyGenDma)
HkdfMakeCacheKey == Calling(0, "never", HandleHkdf)
CmacKdfMakeCacheKey == Calling(0, "never", HandleCmacKdf)
KeyCache == Calling(0, "never", HandleKeyCache)
KeyCacheRandom == Calling(0, "never", HandleKeyCacheRandom)
KeyCacheDma == Calling(0, "never", HandleKeyCacheDma)
KeyUnwrapAndCache == Calling(0, "never", HandleKeyUnwrapAndCache)

Users ==
  {RsaFunction, RsaGetSize, EccSign, EccVerify, EccMakePub, EccCheckPubKey,
   Ed25519Sign, Ed25519Verify, Ed25519SignDma, Ed25519VerifyDma, MlDsaSign,
   MlDsaVerify, MlDsaSignDma, MlDsaVerifyDma, MlKemEncapsulate,
   MlKemDecapsulate, MlKemEncapsulateDma, MlKemDecapsulateDma,
   EccSharedSecret, EccSharedSecretCacheKey, Curve25519SharedSecret,
   Curve25519SharedSecretCacheKey}
Makers ==
  {RsaMakeCacheKey, EccMakeCacheKey, Curve25519MakeCacheKey,
   Ed25519MakeCacheKey, MlDsaMakeCacheKey, MlKemMakeCacheKey,
   RsaMakeCacheKeyAndExportPublic, EccMakeCacheKeyAndExportPublic,
   Curve25519MakeCacheKeyAndExportPublic, Ed25519MakeCacheKeyAndExportPublic,
   MlDsaMakeCacheKeyAndExportPublic, MlKemMakeCacheKeyAndExportPublic,
   MlDsaMakeCacheKeyDma, MlKemMakeCacheKeyDma, LmsMakeKeyDma, XmssMakeKeyDma,
   HkdfMakeCacheKey, CmacKdfMakeCacheKey, KeyCache, KeyCacheRandom,
   KeyCacheDma, KeyUnwrapAndCache}
Rows == Users \union Makers
=============================================================================
