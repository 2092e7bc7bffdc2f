---------------------------- MODULE MCOwnership -----------------------------
\* The entry functions of the crypto engines, of the key engine, of the service
\* and of the client as instances of Ownership.
EXTENDS Ownership, OpensslKeys, OpensslCiphers, EngineStages

Entry(body, keeps, known) == [body |-> body, keeps |-> keeps, known |-> known]
Whole(body) == Entry(body, {}, {})
MakesKey(body) == Entry(body, {"key"}, {})

\* A session: it ends by its last stage or is aborted; its context is freed
\* whatever the stages returned.
Session(init, update, final, free) ==
    Whole(<<Call(init), May(<<Ignore(update)>>), May(<<Ignore(final)>>), Ignore(free)>>)

\* What the code is known to mishandle on some path: pointers it uses unset or
\* freed, memory it does not free, key material it does not wipe.
Misuses(xs) == {"misuse"} \X xs
Leaks(xs) == {"leak"} \X xs
Exposes(xs) == {"expose"} \X xs
\* The entry e, of which flaws are known.
ButFor(flaws, e) == [e EXCEPT !.known = flaws]

OpensslEntries ==
    [RsaGenerate |-> MakesKey(HksOpensslRsaGenerateKey),
     RsaCheckKey |-> Whole(HksOpensslCheckRsaKey),
     RsaCrypt |-> Entry(HksOpensslRsaCrypt, {}, Exposes({"d"})),
     RsaSign |-> Entry(HksOpensslRsaSign, {}, Exposes({"d"})),
     RsaVerify |-> Whole(HksOpensslRsaVerify),
     EccGenerate |-> MakesKey(HksOpensslEccGenerateKey),
     Ecdh |-> Entry(HksOpensslEcdhAgreeKey, {}, Exposes({"pri"})),
     EcdsaSign |-> Entry(HksOpensslEcdsaSign, {}, Exposes({"pri"})),
     EcdsaVerify |-> Whole(HksOpensslEcdsaVerify),
     Sm2Generate |-> Entry(HksOpensslSm2GenerateKey, {"key"}, Exposes({"bn", "priv", "rawMaterial"})),
     Sm2Sign |-> Entry(HksOpensslSm2Sign, {}, Leaks({"fromCtx"}) \cup Exposes({"priBn"})),
     Sm2Verify |-> Entry(HksOpensslSm2Verify, {}, Leaks({"fromCtx"})),
     Sm2Encrypt |-> Entry(HksOpensslSm2Encrypt, {}, Leaks({"fromCtx"})),
     Sm2Decrypt |-> Entry(HksOpensslSm2Decrypt, {}, Leaks({"fromCtx"}) \cup Exposes({"priBn"})),
     DsaGenerate |-> Entry(HksOpensslDsaGenerateKey, {"key"}, Exposes({"rawMaterial"})),
     DsaSign |-> Entry(HksOpensslDsaSign, {}, Exposes({"buff", "x"})),
     DsaVerify |-> Whole(HksOpensslDsaVerify),
     DhGenerate |-> MakesKey(HksOpensslDhGenerateKey),
     DhCheckKey |-> Entry(HksOpensslCheckDhKey, {}, Leaks({"pubKey", "privKey"})),
     DhAgree |-> Entry(HksOpensslDhAgreeKey, {}, Leaks({"pubKey", "privKey"}) \cup Misuses({"dh"})),
     Curve25519Generate |-> MakesKey(HksOpensslCurve25519GenerateKey),
     X25519Agree |-> Whole(HksOpensslX25519AgreeKey),
     Ed25519Agree |-> Whole(HksOpensslEd25519AgreeKey),
     Ed25519Sign |-> Whole(HksOpensslEd25519Sign),
     Ed25519Verify |-> Whole(HksOpensslEd25519Verify),
     AesEncrypt |-> Whole(HksOpensslAesEncrypt),
     AesDecrypt |-> Whole(HksOpensslAesDecrypt),
     AesGcm |-> Session(HksOpensslAesEncryptInit("gcm"), HksOpensslAesEncryptUpdate("gcm"),
                        HksOpensslAesEncryptFinal("gcm"), HksOpensslAesHalFreeCtx),
     AesBlock |-> Session(HksOpensslAesDecryptInit("block"), HksOpensslAesDecryptUpdate("block"),
                          HksOpensslAesDecryptFinal("block"), HksOpensslAesHalFreeCtx),
     Sm4 |-> Session(HksOpensslSm4EncryptInit, HksOpensslSm4EncryptUpdate,
                     HksOpensslSm4EncryptFinal, HksOpensslSm4HalFreeCtx),
     Sm4Whole |-> Whole(HksOpensslSm4Encrypt),
     Sm4Back |-> Session(HksOpensslSm4DecryptInit, HksOpensslSm4DecryptUpdate,
                         HksOpensslSm4DecryptFinal, HksOpensslSm4HalFreeCtx),
     Sm4WholeBack |-> Whole(HksOpensslSm4Decrypt),
     RandomKey |-> MakesKey(HksOpensslGenerateRandomKey),
     Hash |-> ButFor(Misuses({"tmpctx"}), Session(HksOpensslHashInit, HksOpensslHashUpdate,
                                          HksOpensslHashFinal, HksOpensslHashFreeCtx)),
     Hmac |-> Session(HksOpensslHmacInit, HksOpensslHmacUpdate,
                      HksOpensslHmacFinal, HksOpensslHmacHalFreeCtx),
     Hkdf |-> Whole(HksOpensslHkdf),
     SmKdf |-> Entry(HksOpensslSmKdf, {}, Exposes({"appendedKeyData", "inputHash"})),
     BnExpMod |-> Whole(HksOpensslBnExpMod)]

\* A session of the engine, of one kind: whatever its stages return, it ends
\* by its last stage, by an abort or by the eviction of its node.
EngineStagesOf(kind, batch) ==
    <<Call(HksCoreInit(kind, batch)), May(<<Ignore(HksCoreUpdate(kind, batch))>>),
      OneOf(<<<<Ignore(HksCoreFinish(kind, batch))>>, <<Ignore(HksCoreAbort(kind))>>, <<>>>>)>>
    \o HksDeleteKeyNode(kind)
EngineSession(kind) == <<Either(EngineStagesOf(kind, FALSE), EngineStagesOf(kind, TRUE))>>

EngineEntries ==
    [SignVerify |-> Whole(SignVerify),
     Cipher |-> Whole(Cipher),
     CheckKeyValidity |-> Whole(HksCheckKeyValidity),
     ExportPublicKey |-> Whole(HksCoreExportPublicKey),
     AgreeKey |-> Whole(HksCoreAgreeKey),
     DeriveKey |-> Whole(HksCoreDeriveKey),
     Mac |-> Whole(HksCoreMac),
     GenerateAuthTokenKey |-> Whole(GenerateAuthTokenKey),
     SetKeyToMaterial |-> Entry(HksSetKeyToMaterial, {"keyMaterial"}, {}),
     GetCurve25519 |-> Entry(GetCurve25519FromKeyMaterial, {"buffer"}, {}),
     FormatKey |-> Entry(HksFormatKeyFromMaterial, {}, Exposes({"tmpParamSetOut"})),
     GenerateKey |-> Whole(HksCoreGenerateKey),
     ImportKey |-> Whole(HksCoreImportKey),
     ImportWrappedKey |-> Entry(HksCoreImportWrappedKey, {},
                               Exposes({"kekDataBlob", "deriveKekData1"}) \cup Leaks({"plainText"})),
     UpgradeKey |-> Whole(HksUpgradeKey),
     PlatformDecrypt |-> Whole(HuksCoreChipsetPlatformDecrypt),
     PlatformPublicKey |-> Whole(HuksCoreExportChipsetPlatformPublicKey),
     AttestKey |-> Entry(HksCoreAttestKey, {}, Misuses({"rawKey"}) \cup Exposes({"rawKey"}))]

SessionKnown(kind) ==
    CASE kind = "sm2" -> Leaks({"tempData", "newCachedBlob", "newData"})
      [] kind = "mac" -> Leaks({"rawKey"})
      [] OTHER -> {}

SessionEntries == [k \in Kinds |-> Entry(EngineSession(k), {}, SessionKnown(k))]

MC == INSTANCE MbedtlsCiphers
MK == INSTANCE MbedtlsKeys

MbedtlsEntries ==
    [MAesGenerate |-> MakesKey(MC!HksMbedtlsAesGenerateKey),
     MAesEncrypt |-> Whole(MC!HksMbedtlsAesEncrypt),
     MAesDecrypt |-> Whole(MC!HksMbedtlsAesDecrypt),
     MHash |-> Session(MC!HksMbedtlsHashInit, MC!HksMbedtlsHashUpdate,
                       MC!HksMbedtlsHashFinal, MC!HksMbedtlsHashFreeCtx),
     MHmac |-> Session(MC!HksMbedtlsHmacInit, MC!HksMbedtlsHmacUpdate,
                       MC!HksMbedtlsHmacFinal, MC!HksMbedtlsHmacHalFreeCtx),
     MDerive |-> Whole(MC!HksMbedtlsDeriveKey),
     MRandom |-> Whole(MC!HksMbedtlsFillRandom),
     MDesGenerate |-> MakesKey(MC!HksMbedtlsDesGenerateKey),
     M3DesGenerate |-> MakesKey(MC!HksMbedtls3DesGenerateKey),
     MHmacGenerate |-> MakesKey(MC!HksMbedtlsHmacGenerateKey),
     MHashWhole |-> Whole(MC!HksMbedtlsHash),
     MHmacWhole |-> Whole(MC!HksMbedtlsHmac),
     MRsaDecrypt |-> Whole(MK!HksMbedtlsRsaDecrypt),
     MRsaVerify |-> Whole(MK!HksMbedtlsRsaVerify),
     MRsaPublic |-> Whole(MK!HksMbedtlsGetRsaPubKey),
     MEccPublic |-> Whole(MK!HksMbedtlsGetEccPubKey),
     MDhPublic |-> Whole(MK!HksMbedtlsGetDhPubKey),
     MEd25519Public |-> Whole(MK!HksGetEd25519PubKey),
     MEd25519Sign |-> Whole(MK!HksEd25519Sign),
     MEd25519Verify |-> Whole(MK!HksEd25519Verify),
     MX25519Public |-> Whole(MK!HksMbedtlsGetX25519PubKey),
     MRsaGenerate |-> MakesKey(MK!HksMbedtlsRsaGenerateKey),
     MRsaCrypt |-> Whole(MK!HksMbedtlsRsaEncrypt),
     MRsaSign |-> Whole(MK!HksMbedtlsRsaSign),
     MEccGenerate |-> MakesKey(MK!HksMbedtlsEccGenerateKey),
     MEcdh |-> Whole(MK!HksMbedtlsEcdh),
     MEcdsaSign |-> Whole(MK!HksMbedtlsEcdsaSign),
     MEcdsaVerify |-> Whole(MK!HksMbedtlsEcdsaVerify),
     MDhGenerate |-> MakesKey(MK!HksMbedtlsDhGenerateKey),
     MDhAgree |-> Whole(MK!HksMbedtlsDhAgreeKey),
     MBnExpMod |-> Whole(MK!HksMbedtlsBnExpMod),
     MEd25519Generate |-> MakesKey(MK!HksEd25519GenerateKey),
     MX25519Generate |-> MakesKey(MK!HksMbedtlsX25519GenerateKey),
     MEd25519Agree |-> Entry(MK!HksMbedtlsEd25519KeyAgreement, {}, Misuses({"rawX25519NativeKey"}))]

MbedtlsSessions ==
    "MAesCbc" :> Session(MC!HksMbedtlsAesCryptoInit("cbc"), MC!HksMbedtlsAesCryptoUpdate("cbc"),
                         MC!HksMbedtlsAesCryptoFinal("cbc"), MC!HksMbedtlsAesHalFreeCtx("cbc"))
    @@ "MAesGcm" :> Session(MC!HksMbedtlsAesCryptoInit("gcm"), MC!HksMbedtlsAesCryptoUpdate("gcm"),
                            MC!HksMbedtlsAesCryptoFinal("gcm"), MC!HksMbedtlsAesHalFreeCtx("gcm"))
    @@ "MAesCtr" :> Session(MC!HksMbedtlsAesCryptoInit("ctr"), MC!HksMbedtlsAesCryptoUpdate("ctr"),
                            MC!HksMbedtlsAesCryptoFinal("ctr"), MC!HksMbedtlsAesHalFreeCtx("ctr"))
    @@ "MAesEcb" :> ButFor(Leaks({"ctx"}), Session(MC!HksMbedtlsAesCryptoInit("ecb"), MC!HksMbedtlsAesCryptoUpdate("ecb"),
                            MC!HksMbedtlsAesCryptoFinal("ecb"), MC!HksMbedtlsAesHalFreeCtx("ecb")))
    @@ "MDesCbc" :> Session(MC!HksMbedtlsDesCryptoInit("cbc"), MC!HksMbedtlsDesCryptoUpdate("cbc"),
                            MC!HksMbedtlsDesCryptoFinal("cbc"), MC!HksMbedtlsDesHalFreeCtx("cbc"))
    @@ "MDesEcb" :> ButFor(Leaks({"ctx"}), Session(MC!HksMbedtlsDesCryptoInit("ecb"), MC!HksMbedtlsDesCryptoUpdate("ecb"),
                            MC!HksMbedtlsDesCryptoFinal("ecb"), MC!HksMbedtlsDesHalFreeCtx("ecb")))
    @@ "M3DesCbc" :> Session(MC!HksMbedtls3DesCryptoInit("cbc"), MC!HksMbedtls3DesCryptoUpdate("cbc"),
                             MC!HksMbedtls3DesCryptoFinal("cbc"), MC!HksMbedtls3DesHalFreeCtx("cbc"))
    @@ "M3DesEcb" :> ButFor(Leaks({"ctx"}), Session(MC!HksMbedtls3DesCryptoInit("ecb"), MC!HksMbedtls3DesCryptoUpdate("ecb"),
                             MC!HksMbedtls3DesCryptoFinal("ecb"), MC!HksMbedtls3DesHalFreeCtx("ecb")))

RK == INSTANCE RkcKeys
AT == INSTANCE Attestation
SK == INSTANCE ServiceKeys
IP == INSTANCE IpcService
CI == INSTANCE PublicKeys
ST == INSTANCE StorageFiles

RootEntries ==
    [RkcInit |-> Entry(RK!HksRkcInit, {"rkcName1", "rkcName2", "mkName1", "mkName2"}, Leaks({"rkcName1", "rkcName2"})),
     AttestChain |-> Entry(AT!CreateAttestCertChain, {}, Leaks({"attestSpec", "claims"}))]

ServiceEntries ==
    [SGenerateKey |-> Whole(SK!HksServiceGenerateKey),
     SImportKey |-> Whole(SK!HksServiceImportKey),
     SImportWrappedKey |-> Whole(SK!HksServiceImportWrappedKey),
     SDeleteKey |-> Whole(SK!HksServiceDeleteKey),
     SKeyExist |-> Whole(SK!HksServiceKeyExist),
     SSign |-> Whole(SK!HksServiceSign),
     SVerify |-> Whole(SK!HksServiceVerify),
     SEncrypt |-> Whole(SK!HksServiceEncrypt),
     SDecrypt |-> Whole(SK!HksServiceDecrypt),
     SExportPublicKey |-> Whole(SK!HksServiceExportPublicKey),
     SAgreeKey |-> Whole(SK!HksServiceAgreeKey),
     SDeriveKey |-> Whole(SK!HksServiceDeriveKey),
     SMac |-> Whole(SK!HksServiceMac),
     SGetKeyParamSet |-> Whole(SK!HksServiceGetKeyParamSet),
     SAttestKey |-> Whole(SK!HksServiceAttestKey),
     SGetKeyInfoList |-> Whole(SK!HksServiceGetKeyInfoList),
     SListAliases |-> Whole(SK!HksServiceListAliases),
     SGenerateRandom |-> Whole(SK!HksServiceGenerateRandom),
     SInit |-> Whole(SK!HksServiceInit),
     SUpdate |-> Whole(SK!HksServiceUpdate),
     SAbort |-> Whole(SK!HksServiceAbort),
     SFinish |-> Whole(SK!HksServiceFinish),
     SReport |-> Whole(SK!ReportFaultEvent),
     SFrontUser |-> Entry(SK!BuildFrontUserIdParamSet("ps"), {"ps"}, Leaks({"ps"}))]

\* A request of the IPC, whose caller waits for a reply.
Handled(body) == Whole(<<Maybe("reply")>> \o body)

IpcEntries ==
    [IGenerateKey |-> Handled(IP!HksIpcServiceGenerateKey),
     IImportKey |-> Handled(IP!HksIpcServiceImportKey),
     IImportWrappedKey |-> Handled(IP!HksIpcServiceImportWrappedKey),
     IExportPublicKey |-> Handled(IP!HksIpcServiceExportPublicKey),
     IDeleteKey |-> Handled(IP!HksIpcServiceDeleteKey),
     IGetKeyParamSet |-> ButFor(Leaks({"paramSetOut"}), Handled(IP!HksIpcServiceGetKeyParamSet)),
     IKeyExist |-> Handled(IP!HksIpcServiceKeyExist),
     IGenerateRandom |-> Handled(IP!HksIpcServiceGenerateRandom),
     ISign |-> Handled(IP!HksIpcServiceSign),
     IVerify |-> Handled(IP!HksIpcServiceVerify),
     IEncrypt |-> Handled(IP!HksIpcServiceEncrypt),
     IDecrypt |-> Handled(IP!HksIpcServiceDecrypt),
     IMac |-> Handled(IP!HksIpcServiceMac),
     IAgreeKey |-> ButFor(Exposes({"agreedKey"}), Handled(IP!HksIpcServiceAgreeKey)),
     IDeriveKey |-> ButFor(Exposes({"derivedKey"}), Handled(IP!HksIpcServiceDeriveKey)),
     IGetKeyInfoList |-> Handled(IP!HksIpcServiceGetKeyInfoList),
     IAttestKey |-> Handled(IP!HksIpcServiceAttestKey),
     IListAliases |-> Handled(IP!HksIpcServiceListAliases),
     IInit |-> Handled(IP!HksIpcServiceInit),
     IUpdate |-> Handled(IP!HksIpcServiceUpdate),
     IFinish |-> Handled(IP!HksIpcServiceFinish),
     IAbort |-> Handled(IP!HksIpcServiceAbort),
     IPlatformKey |-> Handled(IP!HksIpcServiceExportChipsetPlatformPublicKey)]

ClientEntries ==
    [CGenerateKey |-> Whole(CI!HksClientGenerateKey),
     CImportKey |-> Entry(CI!HksImportKeyAdapter, {}, Exposes({"inBlob"})),
     CImportWrappedKey |-> Whole(CI!HksClientImportWrappedKey),
     CExportPublicKey |-> Whole(CI!HksExportPublicKeyAdapter),
     CDeleteKey |-> Whole(CI!HksClientDeleteKey),
     CGetKeyParamSet |-> Whole(CI!HksClientGetKeyParamSet),
     CKeyExist |-> Whole(CI!HksClientKeyExist),
     CSign |-> Whole(CI!HksClientSign),
     CVerify |-> Whole(CI!HksClientVerify),
     CMac |-> Whole(CI!HksClientMac),
     CDecrypt |-> Whole(CI!HksClientDecrypt),
     CFinish |-> Whole(CI!HksClientFinish),
     CAbort |-> Whole(CI!HksClientAbort),
     CPlatformKey |-> Whole(CI!HksClientExportChipsetPlatformPublicKey),
     CEncrypt |-> Whole(CI!HksClientEncrypt),
     CAgreeKey |-> Whole(CI!HksAgreeKeyAdapter),
     CDeriveKey |-> Whole(CI!HksClientDeriveKey),
     CGetKeyInfoList |-> Whole(CI!HksClientGetKeyInfoList),
     CAttestKey |-> Whole(CI!HksClientAttestKey),
     CListAliases |-> Entry(CI!HksClientListAliases, {"aliasSet", "aliases", "alias"}, {}),
     CInit |-> Whole(CI!HksClientInit),
     CUpdate |-> Whole(CI!HksClientUpdate)]

\* The third name of a directory that has grown is read past the end of the list.
StorageEntries ==
    [TWriteFile |-> Whole(ST!HksStorageWriteFile),
     TReadFile |-> Whole(ST!HksStorageReadFile),
     TFileExist |-> Whole(ST!HksIsFileExist),
     TFileSize |-> Whole(ST!HksFileSize),
     TStoreKey |-> Whole(ST!HksManageStoreKeyBlob),
     TDeleteKey |-> Whole(ST!HksManageStoreDeleteKeyBlob),
     TKeyExist |-> Whole(ST!HksManageStoreIsKeyBlobExist),
     TGetKey |-> Whole(ST!HksManageStoreGetKeyBlob),
     TGetKeySize |-> Whole(ST!HksManageStoreGetKeyBlobSize),
     TGetAliases |-> Entry(ST!HksManageGetKeyAliasByProcessName, {}, Misuses({"name3"})),
     TCountKeys |-> Whole(ST!HksManageGetKeyCountByProcessName),
     TListAliases |-> Entry(ST!HksManageListAliasesByProcessName, {"aliasSet", "aliases", "alias1", "alias2"}, {}),
     TDestroy |-> Whole(ST!HksStoreDestroy),
     TDeleteUser |-> Whole(ST!HksServiceDeleteUserIDKeyAliasFile),
     TDeleteProcess |-> Whole(ST!HksServiceDeleteUIDKeyAliasFile)]

AllEntries ==
    OpensslEntries @@ EngineEntries @@ SessionEntries @@ MbedtlsEntries @@ MbedtlsSessions
    @@ RootEntries @@ ServiceEntries @@ IpcEntries @@ ClientEntries @@ StorageEntries
=============================================================================
