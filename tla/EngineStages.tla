---------------------------- MODULE EngineStages ----------------------------
(***************************************************************************)
(* The stages of a session inside the engine, as programs of Ownership:    *)
(* the key node with the plain key, its runtime parameters, and the        *)
(* context ctx the stages leave for each other in HKS_TAG_CRYPTO_CTX.      *)
(* Depending on the session's kind the context is one of the crypto        *)
(* library, or a blob of the engine's with the data cached so far or the   *)
(* key agreed on, in ctx.data.  A session may end in its last stage, by an *)
(* abort, in a stage that fails, or by the eviction of its node: whatever  *)
(* it holds is freed by DeleteKeyNodeFree then, which works out from the   *)
(* parameters what the context is.                                         *)
(***************************************************************************)
EXTENDS EngineImports

Signs == {"cached signature", "hashed signature"}
Ciphers == {"aes", "ccm", "rsa", "sm2", "des", "3des", "sm4"}
\* The kinds of session whose context is a blob.
Cached == {"cached signature", "ccm", "rsa", "sm2"}
Kinds == Signs \cup Ciphers \cup {"derive", "agree", "mac"}

----------------------------------------------------------------------------
(* Cached data, hks_core_service_three_stage.c                             *)

SetCacheModeCtx == <<Get("tempData"), Move("tempData", "ctx"), Null("ctx.data")>>
CopyNewCachedData == <<Try, Try>>
GetNewCachedData(out) ==
    <<Try, Get("newData")>> \o Else(<<Call(CopyNewCachedData)>>, <<Free("newData")>>) \o <<Move("newData", out)>>
UpdateCachedData ==
    <<Need("ctx"), Use("ctx"), Get("newCachedBlob")>>
    \o Else(<<Call(GetNewCachedData("newCachedBlob.data"))>>, <<Free("newCachedBlob")>>)
    \o <<Free("ctx.data"), Free("ctx"), Move("newCachedBlob", "ctx"), Move("newCachedBlob.data", "ctx.data")>>
FreeCachedData == <<IfSet("ctx", WipeFree("ctx.data") \o <<Free("ctx")>>, <<>>)>>
FinishCachedData(out) ==
    <<Need("ctx"), Use("ctx")>> \o Do(<<Call(GetNewCachedData(out))>>, FreeCachedData)
CheckCachedDataMaxSize == <<Need("ctx"), With("ctx"), Try>>

\* The last call of the crypto library on a context frees it.
HalFinal(x) == Do(<<With(x)>>, <<Free(x)>>)

----------------------------------------------------------------------------
(* Signatures                                                              *)

SignVerifyAuth == <<Try, Try, Try>>
CoreHashInit == <<Get("ctx")>>
CoreHashUpdate == <<Need("ctx"), With("ctx")>>
CoreHashFinish(out) ==
    <<Need("ctx"), Get(out)>> \o Else(<<Call(HalFinal("ctx"))>>, <<Free(out)>>)
CheckSignVerifyParams == <<Try, Try, Try, Try, Try>>
CoreSignVerify ==
    <<Call(CheckSignVerifyParams)>> \o OnRawKey(<<With("rawKey")>>)
FreeSignVerifyCtx(kind) == IF kind = "cached signature" THEN FreeCachedData ELSE <<Free("ctx")>>

HksCoreSignVerifyThreeStageInit(kind) ==
    <<Call(SignVerifyAuth), Try, Call(IF kind \in Cached THEN SetCacheModeCtx ELSE CoreHashInit)>>
HksCoreSignVerifyThreeStageUpdate(kind) ==
    <<Try, Call(IF kind \in Cached THEN UpdateCachedData ELSE CoreHashUpdate)>>
HksCoreSignVerifyThreeStageFinish(kind) ==
    <<Try, Try, Call(IF kind \in Cached THEN FinishCachedData("signVerifyData") ELSE CoreHashFinish("signVerifyData"))>>
    \o Do(<<Call(CoreSignVerify)>>, <<Free("signVerifyData")>>)
HksCoreSignVerifyThreeStageAbort(kind) == FreeSignVerifyCtx(kind)

----------------------------------------------------------------------------
(* Ciphers                                                                 *)

CheckWhetherUpdateAesNonce == <<Try, Try, Try, Try>>
AddNonceToParamSet ==
    ParamSet("paramSet", <<With("paramSet"), With("paramSet")>>)
    \o <<Free("runtimeParamSet"), Move("paramSet", "runtimeParamSet")>>
UpdateNonceForAesAeMode ==
    <<Call(CheckWhetherUpdateAesNonce),
      May(<<Get("data")>> \o Do(<<Try, Call(AddNonceToParamSet)>>, <<Free("data")>>))>>

CoreCipherInit ==
    <<Call(UpdateNonceForAesAeMode), Use("runtimeParamSet"), Try, Null("usageSpec"), Null("rawKey")>>
    \o Do(<<Call(HksBuildCipherUsageSpec), Call(HksGetRawKey), Get("ctx")>>, WipeFree("rawKey") \o HksFreeUsageSpec)
CoreCipherUpdate == <<Try, Try, Need("ctx"), Try, With("ctx")>>
AppendNonceWhenNeeded == <<Try, Try, Try>>
CoreAesEncryptFinish ==
    <<Try, Try, Need("ctx"), Try, Call(HalFinal("ctx")), Call(AppendNonceWhenNeeded)>>
CoreAesDecryptFinish == <<Try, Try, Try, Need("ctx"), Call(HalFinal("ctx"))>>
CoreDesEncryptFinish == <<Try, Need("ctx"), Call(HalFinal("ctx"))>>
CoreDesDecryptFinish == CoreDesEncryptFinish
Core3DesEncryptFinish == CoreDesEncryptFinish
Core3DesDecryptFinish == CoreDesEncryptFinish
CoreSm4EncryptFinish == CoreDesEncryptFinish
CoreSm4DecryptFinish == CoreDesEncryptFinish
CoreAesCcmCipherFinish ==
    <<Try, Null("usageSpec"), Null("rawKey")>>
    \o Do(<<Call(HksBuildCipherUsageSpec), Call(HksGetRawKey), Try, Use("usageSpec"),
            Either(<<Try, With("rawKey"), Call(AppendNonceWhenNeeded)>>, <<Try, With("rawKey")>>)>>,
          WipeFree("rawKey") \o HksFreeUsageSpec)

OnCachedData(p) == <<Call(FinishCachedData("tempInData"))>> \o Do(<<Call(p)>>, <<Free("tempInData")>>)
RsaCipherFinish == OnRawKey(<<Try, With("rawKey")>>)
Sm2CipherFinish == OnRawKey(<<Try, With("rawKey")>>)
CoreRsaCipherFinish == OnCachedData(RsaCipherFinish)
CoreSm2CipherFinish == OnCachedData(Sm2CipherFinish)

CoreAesCipherInit(kind) ==
    <<Try>> \o IF kind = "ccm" THEN <<Call(UpdateNonceForAesAeMode), Call(SetCacheModeCtx)>> ELSE <<Call(CoreCipherInit)>>
CoreAesCipherUpdate(kind) ==
    <<Try>> \o IF kind = "ccm" THEN <<Call(CheckCachedDataMaxSize), Call(UpdateCachedData)>> ELSE <<Call(CoreCipherUpdate)>>
CoreAesCipherFinish(kind) ==
    <<Try>> \o IF kind = "ccm" THEN <<Call(CheckCachedDataMaxSize)>> \o OnCachedData(CoreAesCcmCipherFinish)
               ELSE <<Either(<<Call(CoreAesEncryptFinish)>>, <<Call(CoreAesDecryptFinish)>>)>>
CoreDesCipherInit == <<Try, Call(CoreCipherInit)>>
CoreDesCipherUpdate == <<Try, Call(CoreCipherUpdate)>>
CoreDesCipherFinish == <<Try, Either(<<Call(CoreDesEncryptFinish)>>, <<Call(CoreDesDecryptFinish)>>)>>
Core3DesCipherInit == CoreDesCipherInit
Core3DesCipherUpdate == CoreDesCipherUpdate
Core3DesCipherFinish == <<Try, Either(<<Call(Core3DesEncryptFinish)>>, <<Call(Core3DesDecryptFinish)>>)>>
FreeCryptoCtx(kind) == IF kind \in Cached THEN FreeCachedData ELSE <<Free("ctx")>>

HksCoreCryptoThreeStageInit(kind) ==
    <<Try, Try, Call(CASE kind \in {"rsa", "sm2"} -> SetCacheModeCtx
                       [] kind \in {"aes", "ccm"} -> CoreAesCipherInit(kind)
                       [] kind = "des" -> CoreDesCipherInit
                       [] kind = "3des" -> Core3DesCipherInit
                       [] kind = "sm4" -> CoreCipherInit)>>
HksCoreCryptoThreeStageUpdate(kind) ==
    <<Try, Call(CASE kind \in {"rsa", "sm2"} -> UpdateCachedData
                  [] kind \in {"aes", "ccm"} -> CoreAesCipherUpdate(kind)
                  [] kind = "des" -> CoreDesCipherUpdate
                  [] kind = "3des" -> Core3DesCipherUpdate
                  [] kind = "sm4" -> CoreCipherUpdate)>>
CipherFinish(kind, sm4) ==
    <<Try, Try, Call(CASE kind = "rsa" -> CoreRsaCipherFinish
                       [] kind = "sm2" -> CoreSm2CipherFinish
                       [] kind \in {"aes", "ccm"} -> CoreAesCipherFinish(kind)
                       [] kind = "des" -> CoreDesCipherFinish
                       [] kind = "3des" -> Core3DesCipherFinish
                       [] kind = "sm4" -> sm4)>>
HksCoreEncryptThreeStageFinish(kind) == CipherFinish(kind, CoreSm4EncryptFinish)
HksCoreDecryptThreeStageFinish(kind) == CipherFinish(kind, CoreSm4DecryptFinish)
HksCoreCryptoThreeStageAbort(kind) == FreeCryptoCtx(kind)

----------------------------------------------------------------------------
(* Derivation and agreement: the key is in ctx.data until the last stage.  *)

GetRawkey == <<IfSet("ctx", <<Fail>>, <<>>), Try, Call(HksGetRawKey)>>
FreeOutBlob(x, data) == <<Free(data), Free(x)>>
ConstructDervieBlob ==
    <<Try, Try, Get("deriveBlob")>> \o Else(<<Get("deriveBlob.data")>>, <<Free("deriveBlob")>>)
ConstructAgreeBlob == <<Get("agreeTemp")>> \o Else(<<Get("agreeTemp.data")>>, <<Free("agreeTemp")>>)

HksCoreDeriveThreeStageInit == <<>>
HksCoreDeriveThreeStageUpdate ==
    <<Null("rawKey")>>
    \o Do(<<Call(GetRawkey), Call(ConstructDervieBlob)>>
          \o Else(<<With("rawKey")>>, FreeOutBlob("deriveBlob", "deriveBlob.data"))
          \o <<Fill("deriveBlob.data"), Move("deriveBlob", "ctx"), Move("deriveBlob.data", "ctx.data")>>,
          WipeFree("rawKey"))
DoBuildKeyBlobOrGetOutDataAction == <<Either(<<Call(HksBuildKeyBlob)>>, <<Try>>)>>
BuildAgreeDeriveKeyBlobOrGetOutData ==
    <<Try, May(<<Try>>), Either(<<Call(DoBuildKeyBlobOrGetOutDataAction)>>, <<Fail>>)>>
HksCoreDeriveThreeStageFinish ==
    <<Try, Need("ctx"), Use("ctx")>> \o Do(<<Call(BuildAgreeDeriveKeyBlobOrGetOutData)>>, FreeCachedData)
HksCoreDeriveThreeStageAbort == <<Need("ctx")>> \o FreeCachedData

HksCoreAgreeThreeStageInit == <<Try, Try>>
HksCoreAgreeThreeStageUpdate ==
    <<IfSet("ctx", <<Fail>>, <<>>), Null("rawKey"), Null("publicKey")>>
    \o Do(<<Call(GetHksPubKeyInnerFormat("publicKey")), Call(ConstructAgreeBlob)>>
          \o Else(<<Call(HksGetRawKey), With("rawKey")>>, FreeOutBlob("agreeTemp", "agreeTemp.data"))
          \o <<Fill("agreeTemp.data"), Move("agreeTemp", "ctx"), Move("agreeTemp.data", "ctx.data")>>,
          WipeFree("rawKey") \o <<Free("publicKey")>>)
HksCoreAgreeThreeStageFinish == HksCoreDeriveThreeStageFinish
HksCoreAgreeThreeStageAbort == HksCoreDeriveThreeStageAbort

----------------------------------------------------------------------------
(* MACs.  Init returns from the middle of its block when the caller's      *)
(* parameters name no algorithm, past the lines that free the raw key.     *)

HksCoreMacThreeStageInit ==
    <<Try, Try, Call(HksGetRawKey), Try>> \o Do(<<With("rawKey"), Get("ctx")>>, WipeFree("rawKey"))
HksCoreMacThreeStageUpdate == <<Need("ctx"), Try, With("ctx")>>
HksCoreMacThreeStageFinish == <<Try, Try, Try, Try, Need("ctx"), Call(HalFinal("ctx"))>>
HksCoreMacThreeStageAbort == <<Need("ctx"), Try, Free("ctx")>>

----------------------------------------------------------------------------
(* Key nodes, hks_keynode.c                                                *)

FreeKeyBlobParamSet == <<Wipe("keyBlobParamSet"), Free("keyBlobParamSet")>>
\* The context of an SM2 cipher is a blob, but is given to the crypto library,
\* which has nothing to free for this algorithm.
KeyNodeFreeCtx(kind) ==
    CASE kind \in {"agree", "derive", "cached signature", "rsa"} -> FreeCachedData
      [] kind = "sm2" -> <<>>
      [] OTHER -> <<Free("ctx")>>
FreeRuntimeParamSet(kind, x) ==
    <<IfSet(x, <<IfSet("ctx", IF kind = "ccm" THEN FreeCachedData ELSE KeyNodeFreeCtx(kind), <<>>),
                 Null("ctx"), Free(x)>>, <<>>)>>
DeleteKeyNodeFree(kind) ==
    FreeKeyBlobParamSet \o FreeRuntimeParamSet(kind, "runtimeParamSet")
    \o <<Free("authRuntimeParamSet"), Free("keyNode")>>
HksDeleteKeyNode(kind) == <<IfSet("keyNode", DeleteKeyNodeFree(kind), <<>>)>>

BuildRuntimeParamSet(x) == ParamSet(x, <<May(<<Try, With(x)>>), With(x)>>)
FreeParamsForBuildKeyNode ==
    <<Free("aad"), Free("runtimeParamSet")>> \o FreeKeyBlobParamSet \o <<Free("keyNode")>>
HksCreateKeyNode ==
    <<Null("aad"), Null("runtimeParamSet"), Null("keyBlobParamSet"), Get("keyNode")>>
    \o Else(<<Try, Call(BuildRuntimeParamSet("runtimeParamSet")), Call(GetAadAndParamSet),
              Call(DecryptKeyBlob), Try>>, FreeParamsForBuildKeyNode)
    \o <<Null("authRuntimeParamSet"), Free("aad")>>
\* An update of a batch has a node of its own with its own runtime parameters,
\* which stand in for those of the session; it borrows the key.
HksCreateBatchKeyNode ==
    <<Get("updateKeyNode")>>
    \o Else(<<Call(BuildRuntimeParamSet("batchParamSet"))>>, <<Free("updateKeyNode")>>)
    \o <<Move("runtimeParamSet", "sessionParamSet"), Move("batchParamSet", "runtimeParamSet")>>
HksFreeUpdateKeyNode(kind) ==
    FreeRuntimeParamSet(kind, "runtimeParamSet")
    \o <<Free("updateKeyNode"), Move("sessionParamSet", "runtimeParamSet")>>

----------------------------------------------------------------------------
(* Access control of a session, hks_secure_access.c: the tokens a user     *)
(* gives, and the information that is put before the data to be signed.    *)

BuildAuthRuntimeParamSet ==
    ParamSet("authParams", <<Try, Try, With("authParams"), May(<<With("authParams")>>), With("authParams")>>)
    \o <<Move("authParams", "authRuntimeParamSet")>>
HksCoreSecureAccessInitParams == <<Try, Call(BuildAuthRuntimeParamSet)>>
ParseAuthToken == <<Try, Get("authToken")>>
GetAuthToken == <<Try, Call(ParseAuthToken)>>
HksAddVerifiedAuthTokenIfNeed ==
    <<With("authRuntimeParamSet"),
      May(ParamSet("newAuthRuntimeParamSet", <<With("newAuthRuntimeParamSet"), With("newAuthRuntimeParamSet")>>)
          \o <<Free("authRuntimeParamSet"), Move("newAuthRuntimeParamSet", "authRuntimeParamSet")>>)>>
VerifyChallengeOrTimeStamp == <<Try, With("authRuntimeParamSet"), Use("authToken"), Try>>
VerifyAuthTokenInfo == <<Use("authToken"), With("keyBlobParamSet"), Try>>
AssignVerifyResultAndFree(ok) ==
    <<Use("authRuntimeParamSet")>>
    \o IF ok THEN Do(<<Call(HksAddVerifiedAuthTokenIfNeed)>>, <<Free("authToken")>>)
       ELSE <<Free("authToken"), Free("authToken")>>
HksCoreSecureAccessVerifyParams ==
    <<With("authRuntimeParamSet"),
      May(<<Try, Null("authToken")>>
          \o Else(<<Call(GetAuthToken), With("authToken"), With("authToken"), Call(HksDecryptAuthToken),
                    Call(VerifyChallengeOrTimeStamp), Call(VerifyAuthTokenInfo)>>, AssignVerifyResultAndFree(FALSE))
          \o AssignVerifyResultAndFree(TRUE))>>
CheckIfNeedAppendUpdateData == <<With("authRuntimeParamSet"), Try>>
DoAppendPrefixAuthInfoToUpdateInData ==
    <<Get("outData")>> \o Else(<<With("authRuntimeParamSet"), Try>>, <<Free("outData")>>)
    \o <<Move("outData", "appendInData")>>
HksCoreAppendAuthInfoBeforeUpdate ==
    <<Null("appendInData"),
      May(<<Call(CheckIfNeedAppendUpdateData), May(<<Try, With("authRuntimeParamSet"), Call(DoAppendPrefixAuthInfoToUpdateInData)>>)>>)>>
HksCoreAppendAuthInfoBeforeFinish == HksCoreAppendAuthInfoBeforeUpdate
CheckIfNeedAppendFinishData == <<With("authRuntimeParamSet"), Try, Try>>
DoAppendPrefixDataToFinishData ==
    <<With("authRuntimeParamSet"), Get("cacheOutData")>> \o Do(<<Try>>, <<Free("cacheOutData")>>)
HksCoreAppendAuthInfoAfterFinish ==
    <<May(<<Call(CheckIfNeedAppendFinishData), May(<<Call(DoAppendPrefixDataToFinishData)>>)>>)>>

----------------------------------------------------------------------------
(* Stages of a session, hks_core_service_key_operate_three_stage.c         *)

g_hksCoreInitHandler(kind) ==
    CASE kind \in Signs -> HksCoreSignVerifyThreeStageInit(kind)
      [] kind \in Ciphers -> HksCoreCryptoThreeStageInit(kind)
      [] kind = "derive" -> HksCoreDeriveThreeStageInit
      [] kind = "agree" -> HksCoreAgreeThreeStageInit
      [] kind = "mac" -> HksCoreMacThreeStageInit
g_hksCoreUpdateHandler(kind) ==
    CASE kind \in Signs -> HksCoreSignVerifyThreeStageUpdate(kind)
      [] kind \in Ciphers -> HksCoreCryptoThreeStageUpdate(kind)
      [] kind = "derive" -> HksCoreDeriveThreeStageUpdate
      [] kind = "agree" -> HksCoreAgreeThreeStageUpdate
      [] kind = "mac" -> HksCoreMacThreeStageUpdate
g_hksCoreFinishHandler(kind) ==
    CASE kind \in Signs -> HksCoreSignVerifyThreeStageFinish(kind)
      [] kind \in Ciphers -> <<Either(<<Call(HksCoreEncryptThreeStageFinish(kind))>>,
                                     <<Call(HksCoreDecryptThreeStageFinish(kind))>>)>>
      [] kind = "derive" -> HksCoreDeriveThreeStageFinish
      [] kind = "agree" -> HksCoreAgreeThreeStageFinish
      [] kind = "mac" -> HksCoreMacThreeStageFinish
g_hksCoreAbortHandler(kind) ==
    CASE kind \in Signs -> HksCoreSignVerifyThreeStageAbort(kind)
      [] kind \in Ciphers -> HksCoreCryptoThreeStageAbort(kind)
      [] kind = "derive" -> HksCoreDeriveThreeStageAbort
      [] kind = "agree" -> HksCoreAgreeThreeStageAbort
      [] kind = "mac" -> HksCoreMacThreeStageAbort

CoreInitPreCheck == <<Try, Try>>
GetPurposeAndAlgorithm(x) == <<Need(x), With(x)>>
HksAddBatchTimeToKeyNode == <<Use("keyNode"), Try>>
HksCoreInitProcess(kind) == <<Use("keyNode"), Call(g_hksCoreInitHandler(kind))>>
HksCoreUpdateProcess(kind) ==
    <<Call(GetPurposeAndAlgorithm("runtimeParamSet")), Call(HksCoreAppendAuthInfoBeforeUpdate)>>
    \o Do(<<Call(g_hksCoreUpdateHandler(kind))>>, <<Free("appendInData")>>)
HksCoreFinishProcess(kind) ==
    <<Call(GetPurposeAndAlgorithm("runtimeParamSet")), Call(HksCoreAppendAuthInfoBeforeFinish)>>
    \o Do(<<Call(g_hksCoreFinishHandler(kind))>>, <<Free("appendInData")>>)
    \o <<Call(HksCoreAppendAuthInfoAfterFinish)>>

\* The session of a batch has no stage of its own: Init stops before it.
HksCoreInit(kind, batch) ==
    <<Null("ctx"), Call(CoreInitPreCheck), Call(HksCreateKeyNode)>>
    \o Else(<<Call(HksAddBatchTimeToKeyNode), With("keyBlobParamSet"), Try, Call(HksCoreSecureAccessInitParams), Try>>
            \o IF batch THEN <<>> ELSE <<Call(HksCoreInitProcess(kind))>>, HksDeleteKeyNode(kind))
GetParamsForUpdateAndFinish == <<Try, Need("keyNode")>>
HksCheckBatchUpdateTime == <<Use("keyNode"), Try>>
HksBatchUpdate(kind) ==
    <<With("authRuntimeParamSet"), With("authRuntimeParamSet"), Call(HksCheckBatchUpdateTime), Call(HksCreateBatchKeyNode)>>
    \o Do(<<Try, Call(HksCoreInitProcess(kind)), Call(HksCoreFinishProcess(kind))>>, HksFreeUpdateKeyNode(kind))
HksCoreUpdate(kind, batch) ==
    <<Try, Call(GetParamsForUpdateAndFinish)>>
    \o Else(<<With("keyBlobParamSet"), Call(HksCoreSecureAccessVerifyParams), Try,
              Call(IF batch THEN HksBatchUpdate(kind) ELSE HksCoreUpdateProcess(kind))>>, HksDeleteKeyNode(kind))
HksCoreFinish(kind, batch) ==
    <<Try, Call(GetParamsForUpdateAndFinish)>>
    \o Do(IF batch THEN <<With("keyBlobParamSet"), Try>>
          ELSE <<With("keyBlobParamSet"), Call(HksCoreSecureAccessVerifyParams), Call(HksCoreFinishProcess(kind))>>,
          HksDeleteKeyNode(kind))
HksCoreAbort(kind) ==
    <<Try, Try, IfSet("keyNode", Do(<<Call(GetPurposeAndAlgorithm("runtimeParamSet")),
                                     Call(g_hksCoreAbortHandler(kind))>>, HksDeleteKeyNode(kind)), <<>>)>>
=============================================================================
