--------------------------- MODULE EngineImports ----------------------------
(***************************************************************************)
(* How the engine makes keys: generation, agreement, import of plain and   *)
(* of wrapped keys, the upgrade of an old key and the platform keys, as    *)
(* programs of Ownership.  Every one of them handles plain keys on the     *)
(* heap, and most have a failing path after each of them.                  *)
(***************************************************************************)
EXTENDS EngineKeys

\* A parameter set that is initialised, given parameters and built.
ParamSet(x, adds) == <<Get(x)>> \o Else(adds \o <<With(x)>>, <<Free(x)>>)

----------------------------------------------------------------------------
(* Generation, hks_core_service_key_generate.c                             *)

GetAgreeBaseKey(plain, out) ==
    <<Get("buffer")>>
    \o IF plain THEN <<Move("buffer", out)>>
       ELSE Else(<<Call(HksGenerateKeyNode)>>, WipeFree("buffer")) \o WipeFree("buffer")
            \o Do(<<Try, Try, Call(HksGetRawKey), Move("rawKey", out)>>, HksFreeKeyNode)
GetAgreePubKey(out) == <<Either(<<Call(GetAgreeBaseKey(TRUE, out))>>, <<Call(GetAgreeBaseKey(FALSE, out))>>)>>
GenAgreeKey ==
    <<Try, Get("key")>> \o Else(<<Try, With("priKey")>>, <<Free("key")>>) \o <<Fill("key")>>
GenKeyByAgree ==
    <<Try, Null("priKey"), Null("pubKey")>>
    \o Do(<<Call(GetAgreeBaseKey(FALSE, "priKey")), Call(GetAgreePubKey("pubKey")), Call(GenAgreeKey)>>,
          WipeFree("priKey") \o WipeFree("pubKey"))
HksCoreGenerateKey ==
    <<Try, Try, Try, Either(<<Get("key"), Fill("key")>>, <<Call(GenKeyByAgree)>>)>>
    \o Do(<<Call(HksBuildKeyBlob)>>, WipeFree("key"))

----------------------------------------------------------------------------
(* Formats of imported keys, hks_client_service_adapter_common.c and       *)
(* hks_core_service_key_generate.c                                         *)

CopyToInnerKey(out) == <<Try, Get(out)>>
TranslateToInnerCurve25519Format(out) == <<Try, Get(out)>>
\* An X.509 key is translated by TranslateFromX509PublicKey: a buffer, or an error.
GetHksPubKeyInnerFormat(out) ==
    <<Try, Try, OneOf(<<<<Call(CopyToInnerKey(out))>>, <<Call(TranslateToInnerCurve25519Format(out))>>,
                        <<Get(out)>>, <<Fail>>>>)>>

CheckRsaKeyMaterialLen == <<Try, Try, Try>>
AppendRsaPublicExponent == <<Get("innerKey")>>
GetRsaPrivateOrPairInnerFormat ==
    <<Call(CheckRsaKeyMaterialLen), Either(<<Call(AppendRsaPublicExponent)>>, <<Call(CopyToInnerKey("innerKey"))>>)>>
GetCurve25519PrivateOrPairInnerFormat ==
    <<Either(<<Call(CopyToInnerKey("innerKey"))>>, <<Try, Get("innerKey")>>)>>
GetPrivateOrPairInnerFormat ==
    <<Try, Try, OneOf(<<<<Call(GetRsaPrivateOrPairInnerFormat)>>, <<Call(CopyToInnerKey("innerKey"))>>,
                        <<Call(GetCurve25519PrivateOrPairInnerFormat)>>, <<Fail>>>>)>>
HksCoreImportKey ==
    <<Either(<<Call(GetPrivateOrPairInnerFormat)>>, <<Call(CopyToInnerKey("innerKey"))>>), Fill("innerKey")>>
    \o Do(<<Try, Call(HksBuildKeyBlob)>>, WipeFree("innerKey"))

----------------------------------------------------------------------------
(* Wrapped keys of the X25519 and ECDH suites                              *)

AddProcessIdentityInfoToParamSet(x) == <<Try, With(x)>>
AddAgreeKeyParamSetFromUnwrapSuite(x) == <<With(x), Call(AddProcessIdentityInfoToParamSet(x))>>
GenAgreeKeyParamSetFromUnwrapSuite ==
    ParamSet("agreeKeyParamSet", <<Call(AddAgreeKeyParamSetFromUnwrapSuite("agreeKeyParamSet"))>>)
BuildDecryptUsageSpecOfUnwrap == <<Get("algParam")>>
CheckWrappingKeyIsUsedForUnwrap == <<Call(HksGenerateKeyNode)>> \o Do(<<Try, Try>>, HksFreeKeyNode)
GetPublicKeyInnerFormat ==
    <<Try, Call(HksGenerateKeyNode)>>
    \o Do(<<Call(GetHksPubKeyInnerFormat("peerPublicKey"))>>, HksFreeKeyNode)
AgreeSharedSecretWithPeerPublicKey ==
    <<Call(CheckWrappingKeyIsUsedForUnwrap), Call(GenAgreeKeyParamSetFromUnwrapSuite)>>
    \o Else(<<Get("agreeSharedSecret")>>, <<Free("agreeKeyParamSet")>>)
    \o Else(<<Call(HksCoreAgreeKey)>>, <<Free("agreeKeyParamSet"), Free("agreeSharedSecret")>>)
    \o <<Free("agreeKeyParamSet"), Fill("agreeSharedSecret")>>
ParseKekDecryptParams == <<Try, Try, Try, Try>>
DecryptKekWithAgreeSharedSecret ==
    <<Call(ParseKekDecryptParams), Null("algParam"), Get("usageSpec")>>
    \o Else(<<Call(BuildDecryptUsageSpecOfUnwrap), Get("kek")>>, HksFreeUsageSpec)
    \o Else(<<With("agreeSharedSecret")>>, HksFreeUsageSpec \o <<Free("kek")>>)
    \o HksFreeUsageSpec \o <<Fill("kek")>>
ParseImportedKeyDecryptParams == <<Try, Try, Try, Try, Try, Try, Try>>
DecryptImportedKeyWithKek ==
    <<Call(ParseImportedKeyDecryptParams), Null("algParam"), Get("originKey")>>
    \o Else(<<Get("usageSpec")>> \o Else(<<Call(BuildDecryptUsageSpecOfUnwrap)>>, HksFreeUsageSpec),
            <<Free("originKey")>>)
    \o Else(<<With("kek")>>, HksFreeUsageSpec \o <<Free("originKey")>>)
    \o HksFreeUsageSpec \o <<Fill("originKey")>>
ClearAndFreeKeyBlobsIfNeed ==
    WipeFree("originKey") \o WipeFree("kek") \o WipeFree("agreeSharedSecret") \o WipeFree("peerPublicKey")

----------------------------------------------------------------------------
(* Wrapped keys of the SM2 suites, hks_sm_import_wrap_key.c                *)

ClearAndFreeKeyBlob(x) == WipeFree(x)
ClearAndFreeWrappedBlob ==
    ClearAndFreeKeyBlob("originKey") \o ClearAndFreeKeyBlob("peerPublicKey")
    \o ClearAndFreeKeyBlob("kekAndSignData") \o ClearAndFreeKeyBlob("kekData")
    \o ClearAndFreeKeyBlob("signData") \o ClearAndFreeKeyBlob("deriveKekData1")
    \o ClearAndFreeKeyBlob("deriveKekData2")
GetDataLenFromWrappedData == <<Try, Try, Try>>
GetPublicKeyAndSignDataLength ==
    <<Try, Call(GetDataLenFromWrappedData), May(<<Call(GetHksPubKeyInnerFormat("peerPublicKey"))>>)>>
AddDecryptKeyParamSetFromUnwrapSuite == <<With("decryptParamSet"), Try, With("decryptParamSet")>>
GetSm2DecryptParamSet == ParamSet("decryptParamSet", <<Call(AddDecryptKeyParamSetFromUnwrapSuite)>>)
\* The plain text is the kek, or the kek and its signature.
DecryptKekWithSm2(out) ==
    LET end == <<Free("decryptParamSet")>> \o HksFreeUsageSpec \o ClearAndFreeKeyBlob("rawKey") IN
    <<Try, Call(GetDataLenFromWrappedData), Get("plainText")>>
    \o Else(<<Call(GetSm2DecryptParamSet), Call(HksGetRawKey), Call(HksBuildCipherUsageSpec), With("rawKey")>>,
            end \o <<Free("plainText")>>)
    \o end \o <<Fill("plainText"), Move("plainText", out)>>
\* When the signature cannot be allocated the kek is freed, but not wiped.
\* With a signature of length 0 the kek is in kekData already, and is overwritten.
SplitKekAndSignData(signed) ==
    <<Try, Get("kekDataBlob")>>
    \o IF signed THEN <<Fill("kekDataBlob")>> \o Else(<<Get("signData")>>, <<Free("kekDataBlob")>>)
                      \o <<Move("kekDataBlob", "kekData")>>
       ELSE <<Move("kekDataBlob", "kekData")>>
VerifyKekBySm2 ==
    ParamSet("verifyParamSet", <<With("verifyParamSet")>>)
    \o Else(<<Get("message")>>, <<Free("verifyParamSet")>>)
    \o Do(<<With("kekData"), Try>>, <<Free("message"), Free("verifyParamSet")>>)
DeriveKeyBySm3(out) == <<Get(out)>> \o Else(<<With("kekData")>>, <<Free(out)>>) \o <<Fill(out)>>
\* When the second key cannot be derived the first is freed, but not wiped.
DeriveKeyByFactor ==
    <<Try, Try>>
    \o Else(<<Call(DeriveKeyBySm3("deriveKekData1")), Call(DeriveKeyBySm3("deriveKekData2"))>>,
            <<Free("deriveKekData1"), Free("deriveKekData2")>>)
CompareWrapKeyHmac == <<Try, Try, Get("mac")>> \o Do(<<With("deriveKekData2"), Try>>, <<Free("mac")>>)
BuildDecryptUsageSpecOfSmUnwrap == <<Get("algParam")>>
SubPaddingPlaintext == <<Get("originKey"), Fill("originKey")>>
DecryptImportedSmKey ==
    <<Try, Call(GetDataLenFromWrappedData), Null("algParam"), Get("paddedKey")>>
    \o Else(<<Get("usageSpec")>> \o Else(<<Call(BuildDecryptUsageSpecOfSmUnwrap)>>, HksFreeUsageSpec),
            <<Free("paddedKey")>>)
    \o Else(<<With("deriveKekData1")>>, HksFreeUsageSpec \o <<Free("paddedKey")>>)
    \o HksFreeUsageSpec \o <<Fill("paddedKey")>>
    \o Do(<<Call(SubPaddingPlaintext)>>, ClearAndFreeKeyBlob("paddedKey"))

ImportBySm4 == <<Call(DeriveKeyByFactor), Call(CompareWrapKeyHmac), Call(DecryptImportedSmKey), Call(HksCoreImportKey)>>
HksSmImportWrappedKeyWithVerify ==
    Do(<<Call(GetPublicKeyAndSignDataLength),
         Either(<<Call(DecryptKekWithSm2("kekAndSignData")), Call(SplitKekAndSignData(TRUE))>>,
                <<Call(DecryptKekWithSm2("kekData")), Call(SplitKekAndSignData(FALSE))>>),
         Call(VerifyKekBySm2)>> \o ImportBySm4, ClearAndFreeWrappedBlob)
HksSmImportWrappedKeyWithoutVerify ==
    Do(<<Call(DecryptKekWithSm2("kekData"))>> \o ImportBySm4, ClearAndFreeWrappedBlob)
CheckAlgAndGetSuit == <<Try, Try, Try>>
HksSmImportWrappedKey ==
    <<Try, Call(CheckAlgAndGetSuit), Call(HksGenerateKeyNode)>>
    \o Do(<<OneOf(<<<<Call(HksSmImportWrappedKeyWithVerify)>>, <<Call(HksSmImportWrappedKeyWithoutVerify)>>,
                    <<Fail>>>>)>>, HksFreeKeyNode)

HksCoreImportWrappedKey ==
    <<Try, Either(<<Call(HksSmImportWrappedKey)>>,
                  Do(<<Call(GetPublicKeyInnerFormat), Call(AgreeSharedSecretWithPeerPublicKey),
                       Call(DecryptKekWithAgreeSharedSecret), Call(DecryptImportedKeyWithKek),
                       Call(HksCoreImportKey)>>, ClearAndFreeKeyBlobsIfNeed))>>

----------------------------------------------------------------------------
(* Upgrade of a key to the current version, hks_upgrade_key.c              *)

AddAlgParamsTags == <<With("newKeyBlobParamSet")>>
AddMandatoryParams == <<Try, With("newKeyBlobParamSet")>>
\* Only a pointer to the old key is in newMandatoryParamSet.
AddMandatoryParamsInCore ==
    <<Get("newMandatoryParamSet")>>
    \o Else(<<With("newMandatoryParamSet"), With("newMandatoryParamSet"), With("oldKeyBlobParamSet")>>,
            <<Free("newMandatoryParamSet")>>)
HksIsToSkipProcessVerify == <<Try, Try, Try>>
AuthChangeProcessName == <<Try, May(<<Try, Fail>>)>>
AuthUpgradeKey == <<Ignore(HksIsToSkipProcessVerify), May(<<Try>>), Call(AuthChangeProcessName)>>
CleanParamSetKey(x) == <<Wipe(x)>>
CheckIsNeedToUpgradeKey == <<Call(AuthUpgradeKey), Try, Try>>
ConstructNewKeyParamSet ==
    LET end == <<Free("newMandatoryParamSet")>> \o CleanParamSetKey("newKeyBlobParamSet") \o <<Free("newKeyBlobParamSet")>> IN
    Else(<<Call(AddMandatoryParamsInCore), Get("newKeyBlobParamSet"), Call(AddAlgParamsTags),
           Call(AddMandatoryParams), With("newKeyBlobParamSet"), Fill("newKeyBlobParamSet"), Try>>, end)
    \o <<Free("newMandatoryParamSet")>>
HksUpgradeKey ==
    Do(<<Call(HksGenerateKeyNode), Get("oldKeyBlobParamSet"), Fill("oldKeyBlobParamSet"),
         Call(CheckIsNeedToUpgradeKey), Call(ConstructNewKeyParamSet), Call(HksBuildKeyBlobWithOutAddKeyParam)>>,
       CleanParamSetKey("newKeyBlobParamSet") \o <<Free("newKeyBlobParamSet")>>
       \o CleanParamSetKey("oldKeyBlobParamSet") \o <<Free("oldKeyBlobParamSet")>> \o HksFreeKeyNode)

----------------------------------------------------------------------------
(* Platform keys, hks_chipset_platform_decrypt.c, and attestation of one   *)
(* key, hks_core_service_key_attest.c                                      *)

CheckParams == <<Try, Try, Try, Try, Try>>
CheckInput == <<Try, Call(CheckParams), Try, Try, Try>>
DoGenEcdhSharedKey ==
    <<Get("saltPadding")>> \o Do(<<Try, Try, Try, With("saltPadding"), Fill("sharedKey")>>, WipeFree("saltPadding"))
DoHmacSha256 == <<Try, With("sharedKey"), Fill("wrappedKey")>>
DoAesDecrypt == <<Try, Try, Try, Try, Try, Try, Try, With("wrappedKey")>>
HuksCoreChipsetPlatformDecrypt ==
    <<Call(CheckInput), Get("sharedKey")>> \o Else(<<Get("wrappedKey")>>, WipeFree("sharedKey"))
    \o Do(<<Call(DoGenEcdhSharedKey), Try, Call(DoHmacSha256), Call(DoAesDecrypt)>>,
          WipeFree("sharedKey") \o WipeFree("wrappedKey"))
HuksCoreExportChipsetPlatformPublicKey ==
    <<Try, Try, Get("saltPadding")>> \o Do(<<With("saltPadding")>>, WipeFree("saltPadding"))
\* A raw key that could not be read is neither set nor looked at before its
\* use, and it is freed without being wiped.
HksCoreAttestKey ==
    <<Try, Try, Call(HksGenerateKeyNode)>> \o Else(<<Try>>, HksFreeKeyNode)
    \o <<Null("rawKey"), Ignore(HksGetRawKey)>>
    \o Do(<<With("rawKey"), Try>>, HksFreeKeyNode \o <<Free("rawKey")>>)
=============================================================================
