----------------------------- MODULE EngineKeys -----------------------------
(***************************************************************************)
(* Key blobs, key nodes and the operations of one call of the engine, as   *)
(* programs of Ownership.  keyBlobParamSet is the parameter set of a       *)
(* stored key, which holds the plain key while it is decrypted; newBlob is *)
(* the one of a key that is being built.  A cryptographic call of the      *)
(* engine is a step that may fail.  Buffers on the stack are left out, and *)
(* so is the failure of looking up a parameter the same function added.    *)
(***************************************************************************)
EXTENDS OwnershipSteps

----------------------------------------------------------------------------
(* Parameters of a cipher and formats of keys, hks_crypto_adapter.c        *)

HksFreeUsageSpec == <<IfSet("usageSpec", <<Free("algParam"), Free("usageSpec")>>, <<>>)>>
HksFillAeadParam == <<Try, Try, Try, Get("algParam")>>
HksFillIvParam == <<Try, Get("algParam")>>
HksBuildCipherUsageSpec ==
    <<Null("usageSpec"), Null("algParam"), Try, Get("usageSpec")>>
    \o Else(<<OneOf(<<<<Call(HksFillIvParam)>>, <<Call(HksFillAeadParam)>>, <<>>>>)>>, HksFreeUsageSpec)

\* The parameter set with the private key is freed, but not wiped.
BuildParamSetOut ==
    <<Get("tmpParamSetOut")>>
    \o Else(<<With("tmpParamSetOut"), With("tmpParamSetOut"), Fill("tmpParamSetOut"), Try>>,
            <<Free("tmpParamSetOut")>>)
    \o <<Free("tmpParamSetOut"), Try>>
FormatKeyInner == <<Call(BuildParamSetOut)>>
SetCurve25519KeyMaterial == <<Get("keyMaterial")>>
FormatCurve25519Key == <<Try, Call(BuildParamSetOut)>>
GetCurve25519FromKeyMaterial == <<Try, Try, Get("buffer")>>
FormatAesOrHmacKey == <<Call(BuildParamSetOut)>>
FormatRsaKey ==
    <<Try, Try, Get("publicKey")>> \o Do(<<Call(FormatKeyInner)>>, WipeFree("publicKey"))
FormatDsaKey == FormatRsaKey
FormatEccKey == FormatRsaKey
FormatDhKey == FormatRsaKey
HksSetKeyToMaterial ==
    <<OneOf(<<<<Call(SetCurve25519KeyMaterial)>>, <<Get("keyMaterial")>>, <<Fail>>>>)>>
HksFormatKeyFromMaterial ==
    <<OneOf(<<<<Call(FormatCurve25519Key)>>, <<Call(FormatAesOrHmacKey)>>, <<Call(FormatRsaKey)>>,
              <<Call(FormatDsaKey)>>, <<Call(FormatEccKey)>>, <<Call(FormatDhKey)>>, <<Fail>>>>)>>

----------------------------------------------------------------------------
(* Key blobs, hks_keyblob.c                                                *)

GetSalt == <<Try, Get("salt")>>
GetDeriveKey ==
    <<Call(GetSalt)>>
    \o Do(<<Try, Get("derivedKey")>> \o Else(<<Try>>, <<Free("derivedKey")>>) \o <<Fill("derivedKey")>>,
          <<Free("salt")>>)

BuildKeyBlobUsageSpec == <<Get("algParam")>>
EncryptAndDecryptKeyBlob ==
    <<Try, Null("algParam"), Get("usageSpec")>>
    \o Else(<<Call(BuildKeyBlobUsageSpec), Try, Call(GetDeriveKey)>>, HksFreeUsageSpec)
    \o Do(<<With("derivedKey")>>, WipeFree("derivedKey") \o HksFreeUsageSpec)
\* The key is encrypted and decrypted in place.
EncryptKeyBlob == <<Call(EncryptAndDecryptKeyBlob), Wipe("newBlob")>>
DecryptKeyBlob == <<Call(EncryptAndDecryptKeyBlob), Fill("keyBlobParamSet")>>

InitKeyBlobInfo ==
    <<Get("tmpKey")>> \o Else(<<Try, Try>>, <<Free("tmpKey")>>) \o <<Fill("tmpKey")>>
AddCoreServiceParams == <<Try, With("newParamSet")>>
BuildKeyBlobWithKeyParam ==
    <<Null("tmpKey"), Get("newParamSet")>>
    \o Else(<<With("newParamSet"), Call(InitKeyBlobInfo), Call(AddCoreServiceParams), With("newParamSet")>>,
            WipeFree("tmpKey") \o <<Free("newParamSet")>>)
    \o WipeFree("tmpKey") \o <<Fill("newParamSet"), Move("newParamSet", "newBlob")>>
HksBuildKeyBlob2 == Else(<<Call(EncryptKeyBlob)>>, <<Wipe("newBlob")>>) \o <<With("newBlob")>>
HksBuildKeyBlob ==
    <<Null("newBlob")>>
    \o Do(<<Call(BuildKeyBlobWithKeyParam), Call(HksBuildKeyBlob2)>>, <<Free("newBlob")>>)
HksBuildKeyBlobWithOutAddKeyParam ==
    Do(<<Get("newBlob"), Fill("newBlob"), Call(HksBuildKeyBlob2)>>, <<Free("newBlob")>>)

GetAadAndParamSet ==
    <<Get("keyBlob")>>
    \o Else(<<Get("keyBlobParamSet")>> \o Else(<<Try, Try>>, <<Free("keyBlobParamSet")>>), <<Free("keyBlob")>>)
    \o <<Move("keyBlob", "aad")>>
CleanKey == <<Wipe("keyBlobParamSet")>>
HksGenerateKeyNode ==
    <<Try, Call(GetAadAndParamSet)>>
    \o Else(<<Call(DecryptKeyBlob)>>, <<Free("aad"), Free("keyBlobParamSet")>>) \o <<Free("aad")>>
    \o Else(<<Get("keyNode")>>, CleanKey \o <<Free("keyBlobParamSet")>>)
HksFreeKeyNode == <<IfSet("keyNode", CleanKey \o <<Free("keyBlobParamSet"), Free("keyNode")>>, <<>>)>>

HksGetRawKey == <<Try, Use("keyBlobParamSet"), Try, Get("rawKey"), Fill("rawKey")>>
HksDecryptAuthToken == <<Try, Get("aead")>> \o Do(<<Try>>, <<Free("aead")>>)
GenerateAuthTokenKey ==
    <<Get("macKey"), Fill("macKey")>> \o Else(<<Get("cipherKey")>>, WipeFree("macKey"))
    \o <<Fill("cipherKey")>> \o WipeFree("macKey") \o WipeFree("cipherKey")

----------------------------------------------------------------------------
(* Operations of one call, hks_core_service_key_operate_one_stage.c        *)

OnRawKey(p) == <<Call(HksGetRawKey)>> \o Do(p, WipeFree("rawKey"))

GetSignVerifyMessage ==
    <<Try, Either(<<Null("message")>>, <<Get("message")>> \o Else(<<Try>>, <<Free("message")>>))>>
SignVerify ==
    <<Try, Null("message"), Call(HksGenerateKeyNode)>>
    \o Do(<<Try, Call(GetSignVerifyMessage)>> \o OnRawKey(<<With("rawKey")>>),
          HksFreeKeyNode \o <<Free("message")>>)

CipherEncrypt == <<Try, With("rawKey")>>
Cipher ==
    <<Try, Call(HksGenerateKeyNode)>>
    \o Do(<<Try, Call(HksGetRawKey)>>
          \o Else(<<Call(HksBuildCipherUsageSpec)>>, WipeFree("rawKey"))
          \o Do(<<Either(<<Call(CipherEncrypt)>>, <<With("rawKey")>>)>>, WipeFree("rawKey") \o HksFreeUsageSpec),
          HksFreeKeyNode)

HksCheckKeyValidity == <<Call(HksGenerateKeyNode)>> \o Do(<<Try>>, HksFreeKeyNode)
HksCoreExportPublicKey ==
    <<Try, Call(HksGenerateKeyNode)>> \o Do(<<Try>> \o OnRawKey(<<With("rawKey")>>), HksFreeKeyNode)
HksCoreAgreeKey ==
    <<Try, Call(HksGenerateKeyNode)>> \o Do(<<Try, Try>> \o OnRawKey(<<With("rawKey")>>), HksFreeKeyNode)
HksCoreDeriveKey ==
    <<Try, Call(HksGenerateKeyNode)>> \o Do(<<Try, Try>> \o OnRawKey(<<With("rawKey")>>), HksFreeKeyNode)
HksCoreMac ==
    <<Try, Call(HksGenerateKeyNode)>> \o Do(<<Try, Try, Try>> \o OnRawKey(<<With("rawKey")>>), HksFreeKeyNode)
=============================================================================
