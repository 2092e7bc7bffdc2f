---------------------------- MODULE MbedtlsKeys -----------------------------
(***************************************************************************)
(* The asymmetric keys on mbedtls: RSA, ECC, DH and the curves of 25519,   *)
(* and big numbers, as programs of Ownership.  A library object on the     *)
(* stack stands for the memory the library hangs on it; the library clears *)
(* what it frees.  The key material a function hands out is "key".         *)
(***************************************************************************)
EXTENDS OwnershipSteps, SequencesExt

CtrDrbgSeed == <<Get("ctrDrbg")>> \o Else(<<With("ctrDrbg")>>, <<Free("ctrDrbg")>>)

\* Key material is written into a new buffer, which is wiped when that fails.
SaveKeyMaterial(raw, p) ==
    <<Get(raw), Fill(raw)>> \o Else(p, WipeFree(raw)) \o <<Move(raw, "key")>>

\* The library objects xs are set up, used by p and freed.
WithObjects(xs, p) == Do(Each(Get, xs) \o p, FlattenSeq(Each(WipeFree, xs)))

\* p works with the library object ctx and with random numbers.
WithRandom(p) == <<Call(CtrDrbgSeed)>> \o Do(p, <<Free("ctrDrbg")>>)
WithCtxAndRandom(p) ==
    Do(<<Get("ctx"), Call(CtrDrbgSeed)>>
       \o Do(p, <<Free("ctrDrbg")>>), WipeFree("ctx"))

----------------------------------------------------------------------------
(* RSA, hks_mbedtls_rsa.c                                                  *)

RsaCheckKeySize == <<Try>>
RsaKeyMaterialNedSizeCheck == <<Try>>
RsaKeyCheck == <<Call(RsaCheckKeySize), Call(RsaKeyMaterialNedSizeCheck), Try>>
RsaSaveKeyMaterial == SaveKeyMaterial("rawMaterial", <<With("ctx"), With("ctx"), With("ctx")>>)
HksMbedtlsRsaGenerateKey == WithCtxAndRandom(<<Fill("ctx"), With("ctx"), Call(RsaSaveKeyMaterial)>>)
RsaKeyMaterialToCtx ==
    WithObjects(<<"n", "e", "d">>,
                <<With("n"), With("e"), May(<<Fill("d"), With("d"), Fill("ctx")>>), With("ctx"), With("ctx")>>)
HksToMbedtlsPadding == <<Try>>
\* The context is the caller's, but is freed here.
HksMbedtlsRsaCryptMbedtls ==
    <<Call(CtrDrbgSeed)>>
    \o Do(<<Get("ctx"), Call(RsaKeyMaterialToCtx), OneOf(<<<<Try, With("ctx")>>, <<With("ctx")>>>>)>>,
          WipeFree("ctx") \o <<Free("ctrDrbg")>>)
HksMbedtlsRsaCrypt ==
    <<Call(RsaKeyCheck), Call(HksToMbedtlsPadding), May(<<Try>>), Call(HksMbedtlsRsaCryptMbedtls)>>
HksMbedtlsRsaEncrypt == <<Call(HksMbedtlsRsaCrypt)>>
HksMbedtlsRsaDecrypt == <<Call(HksMbedtlsRsaCrypt)>>
HksToMbedtlsSignPadding == <<Try>>
HksMbedtlsRsaSignVerify ==
    <<Try, Call(HksToMbedtlsSignPadding)>>
    \o WithRandom(<<Get("ctx")>> \o Do(<<Call(RsaKeyMaterialToCtx), With("ctx")>>, WipeFree("ctx")))
HksMbedtlsRsaSign == <<Call(RsaKeyCheck), Call(HksMbedtlsRsaSignVerify)>>
HksMbedtlsRsaVerify == <<Call(RsaKeyCheck), Call(HksMbedtlsRsaSignVerify)>>
GetRsaPubKeyCheckParams == <<Call(RsaKeyCheck), Try>>
HksMbedtlsGetRsaPubKey == <<Call(GetRsaPubKeyCheckParams), Try>>

----------------------------------------------------------------------------
(* ECC, hks_mbedtls_ecc.c, hks_mbedtls_ecdh.c, hks_mbedtls_ecdsa.c         *)

GetEccGroupId == <<Try>>
EccKeyMaterialXyzSizeCheck == <<Try>>
EccKeyCheck == <<Try, Call(EccKeyMaterialXyzSizeCheck), Try>>
HksMbedtlsEccGetKeyCurveNist == <<Try, Call(GetEccGroupId)>>
HksEccKeyMaterialToPub == <<With("ctx"), With("ctx"), With("ctx")>>
HksEccKeyMaterialToPri == <<Fill("ctx"), With("ctx")>>
EccSaveKeyMaterial == SaveKeyMaterial("rawMaterial", <<With("ctx"), With("ctx"), With("ctx")>>)
HksMbedtlsEccGenerateKey ==
    <<Call(GetEccGroupId)>>
    \o WithRandom(<<Get("ctx")>> \o Do(<<Fill("ctx"), With("ctx"), Call(EccSaveKeyMaterial)>>, WipeFree("ctx")))
GetEccPubKeyCheckParams == <<Call(EccKeyCheck), Try>>
HksMbedtlsGetEccPubKey == <<Call(GetEccPubKeyCheckParams), Try>>

EccKeyMaterialToCtx == <<Call(HksEccKeyMaterialToPub), Call(HksEccKeyMaterialToPri)>>
HksMbedtlsEcdh ==
    <<Call(EccKeyCheck), Call(HksMbedtlsEccGetKeyCurveNist)>>
    \o WithRandom(<<Get("ctx")>>
                  \o Do(<<With("ctx"), Call(EccKeyMaterialToCtx), With("ctx"), With("ctx")>>, WipeFree("ctx")))
HksMbedtlsEcdsaSign ==
    <<Call(EccKeyCheck), Call(HksMbedtlsEccGetKeyCurveNist)>>
    \o WithRandom(<<Get("ctx")>>
                  \o Do(<<With("ctx"), Call(HksEccKeyMaterialToPri), Try, With("ctx")>>, WipeFree("ctx")))
HksMbedtlsEcdsaVerify ==
    <<Call(EccKeyCheck), Call(HksMbedtlsEccGetKeyCurveNist), Get("ctx")>>
    \o Do(<<With("ctx"), Call(HksEccKeyMaterialToPub), With("ctx")>>, WipeFree("ctx"))

----------------------------------------------------------------------------
(* DH, hks_mbedtls_dh.c, and big numbers, hks_mbedtls_bn.c                 *)

GetDhParam == <<Try>>
DhSaveKeyMaterial == SaveKeyMaterial("rawMaterial", <<With("ctx"), With("ctx")>>)
HksMbedtlsDhGenerateKey ==
    WithCtxAndRandom(<<Call(GetDhParam), With("ctx"), Get("output")>>
                     \o Do(<<Fill("ctx"), With("ctx"), Call(DhSaveKeyMaterial)>>, <<Free("output")>>))
HksMbedtlsGetDhPubKey == <<Try>>
DhKeyMaterialToCtx ==
    <<Call(GetDhParam), With("ctx"), With("ctx"), May(<<Fill("ctx"), With("ctx")>>)>>
HksMbedtlsDhAgreeKey ==
    <<Try>> \o WithCtxAndRandom(<<Call(DhKeyMaterialToCtx), With("ctx"), With("ctx")>>)

CheckBnExpModNx == <<Try>>
HksMbedtlsBnExpMod ==
    <<Call(CheckBnExpModNx)>>
    \o WithObjects(<<"bnX", "bnA", "bnE", "bnN">>, <<With("bnA"), With("bnE"), With("bnN"), With("bnX"), With("bnX")>>)

----------------------------------------------------------------------------
(* Ed25519, hks_crypto_ed25519.c                                           *)

SaveEd25519KeyMaterial == SaveKeyMaterial("buffer", <<Try, Try>>)
HksEd25519GenerateKey == <<Try, Try, Call(SaveEd25519KeyMaterial)>>
CheckEd25519Material == <<Try, Try>>
GetEd25519PubKeyCheck == <<Call(CheckEd25519Material), Try>>
HksGetEd25519PubKey == <<Call(GetEd25519PubKeyCheck), Try>>
HksEd25519Sign == <<Call(CheckEd25519Material), Try, Try>>
HksEd25519Verify == <<Call(CheckEd25519Material), Try, Try>>

----------------------------------------------------------------------------
(* X25519, and Ed25519 keys turned into X25519 keys, hks_mbedtls_x25519.c  *)

X25519CheckKeyMaterialSize == <<Try>>
X25519SaveKeyMaterial == SaveKeyMaterial("rawMaterial", <<With("pub"), Try, With("pri")>>)
HksMbedtlsX25519GenerateKey ==
    WithRandom(WithObjects(<<"grp", "pub", "pri">>,
                           <<With("grp"), Fill("pri"), With("pri"), Call(X25519SaveKeyMaterial)>>))
X25519KeyMaterialToPub ==
    <<Get("tmpPubKey")>> \o Do(<<Try, Try, With("ctx"), With("ctx")>>, <<Free("tmpPubKey")>>)
X25519KeyMaterialToPri == <<Fill("ctx"), With("ctx")>>
HksMbedtlsX25519KeyAgreement ==
    <<Call(X25519CheckKeyMaterialSize)>>
    \o WithCtxAndRandom(<<With("ctx"), Call(X25519KeyMaterialToPub), Call(X25519KeyMaterialToPri),
                          With("ctx"), With("ctx"), Try>>)
GetX25519PubKeyCheckParams == <<Try>>
HksMbedtlsGetX25519PubKey == <<Call(GetX25519PubKeyCheckParams), Try>>

HksCurveInitConstPara == <<Get("curvePara")>>
HksCurveSetConstPara == <<With("curvePara")>>
HksCurveFreeConstPara == <<Free("curvePara")>>
HksCurvePskCalcA == WithObjects(<<"mpiE", "swap">>, <<With("mpiE"), With("swap"), With("mpiE"), With("mpiA")>>)
HksCurvePskCheckA == <<With("mpiA")>>
HksCurvePskCheckPoint ==
    WithObjects(<<"mpiA">>, <<With("edwardsY"), Call(HksCurvePskCalcA), Call(HksCurvePskCheckA)>>)
HksCurvePskCalcC ==
    WithObjects(<<"curveX", "result">>, <<With("result"), With("curveX"), With("rawX25519PubKey")>>)
ConvertPublicKey ==
    <<Try, Get("edwardsY")>>
    \o Do(HksCurveInitConstPara
          \o Do(<<Call(HksCurveSetConstPara), With("edwardsY"), Call(HksCurvePskCheckPoint), Get("rawX25519PubKey")>>
                \o Else(<<Call(HksCurvePskCalcC), With("rawX25519PubKey")>>, WipeFree("rawX25519PubKey")),
                HksCurveFreeConstPara),
          <<Free("edwardsY")>>)
ConvertPrivateKey ==
    <<Try, Get("rawX25519NativeKey"), Fill("rawX25519NativeKey")>>
    \o Else(<<Try, With("rawX25519NativeKey")>>, WipeFree("rawX25519NativeKey"))
\* Whether the private key could be converted is not looked at.
MbedtlsEd25519KeyToX25519 == <<Call(ConvertPublicKey), Ignore(ConvertPrivateKey)>>

KeyInfo == <<"rawNativeKey", "rawPubKey", "rawX25519NativeKey", "rawX25519PubKey",
             "kmX25519NativeKey", "kmX25519PubKey">>
HksFreeKeyInfo == FlattenSeq(Each(WipeFree, KeyInfo))
HksMbedtlsEd25519KeyAgreement ==
    <<Call(X25519CheckKeyMaterialSize)>>
    \o Do(<<Try, Get("rawNativeKey"), Fill("rawNativeKey"), Try, Get("rawPubKey"),
            Call(MbedtlsEd25519KeyToX25519),
            Get("kmX25519NativeKey"), Use("rawX25519NativeKey"), Fill("kmX25519NativeKey"),
            Get("kmX25519PubKey"), Use("rawX25519PubKey"),
            Call(HksMbedtlsX25519KeyAgreement)>>,
          HksFreeKeyInfo)
=============================================================================
