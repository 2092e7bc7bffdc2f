----------------------------- MODULE OpensslKeys ----------------------------
(***************************************************************************)
(* The asymmetric keys on OpenSSL: RSA, ECC, SM2, DSA, DH and the curves   *)
(* of 25519, as programs of Ownership.  A key the library makes (rsa,      *)
(* eccKey, dsa) is given to the EVP_PKEY it is assigned to; the key        *)
(* material a function hands out is "key".                                 *)
(***************************************************************************)
EXTENDS OwnershipSteps

\* k becomes part of a new EVP_PKEY pkey.
AssignTo(pkey, k) ==
    Else(<<Get(pkey)>>, <<Release(k)>>)
    \o Else(<<With(pkey)>>, <<Release(k), Release(pkey)>>) \o <<Give(k)>>

\* One call of the library on the context that init makes.
OnCtx(init) == <<Call(init)>> \o Do(<<With("ctx")>>, <<Release("ctx")>>)

----------------------------------------------------------------------------
(* RSA, hks_openssl_rsa.c                                                  *)

InitRsaKeyBuf == <<Get("buf")>>
RsaNumbers(needPrivateExponent) ==
    <<Call(InitRsaKeyBuf), Maybe("n"), Maybe("e"), Null("d")>>
    \o (IF needPrivateExponent THEN <<Fill("buf")>> \o MaybeKey("d") ELSE <<>>)
RsaFromNumbers == <<Try, Get("rsa")>> \o Else(<<With("rsa")>>, <<Free("rsa")>>)
\* Slip: the buffer that held the private exponent is freed as it is.
InitRsaStructUnwiped(needPrivateExponent) ==
    RsaNumbers(needPrivateExponent)
    \o Else(RsaFromNumbers, <<Free("n"), Free("e"), Free("d"), Free("buf")>>)
    \o <<Give("n"), Give("e"), Give("d"), Free("buf")>>
\* The private exponent is freed, but not cleared, when no key comes to own it.
InitRsaStruct(needPrivateExponent) ==
    RsaNumbers(needPrivateExponent)
    \o Else(RsaFromNumbers, <<Free("n"), Free("e"), Free("d")>> \o WipeFree("buf"))
    \o <<Give("n"), Give("e"), Give("d")>> \o WipeFree("buf")

\* Slip: the second allocation fails and the function returns at once.
HksOpensslCheckRsaKeyEarly ==
    <<Get("e"), Get("eMin")>> \o Do(<<With("e")>>, <<Release("e"), Release("eMin")>>)
HksOpensslCheckRsaKey == Do(<<Get("e"), Get("eMin"), With("e")>>, <<Release("e"), Release("eMin")>>)

RsaSaveKeyMaterial ==
    <<Get("rawMaterial")>> \o Else(<<Try, Try>>, <<Free("rawMaterial")>>)
    \o <<Fill("rawMaterial"), Move("rawMaterial", "key")>>
HksOpensslRsaGenerateKey ==
    <<Try, Maybe("rsa"), Maybe("e")>>
    \o Else(<<Need("rsa"), Need("e"), With("e")>>, <<Free("rsa"), Free("e")>>)
    \o Else(<<With("rsa")>>, <<Release("e"), Release("rsa")>>)
    \o <<Release("e")>> \o Do(<<Call(RsaSaveKeyMaterial)>>, <<Release("rsa")>>)

InitEvpPkeyCtx(encrypt) ==
    <<Try, Call(InitRsaStruct(~encrypt))>> \o AssignTo("pkey", "rsa")
    \o Else(<<Get("ctx")>>, <<Release("pkey")>>)
    \o Else(<<With("ctx")>>, <<Release("pkey"), Release("ctx")>>) \o <<Release("pkey")>>
HksOpensslRsaCryptInit == <<Try, With("ctx"), May(<<With("ctx")>>)>>
HksOpensslRsaCrypt ==
    <<Either(<<Call(InitEvpPkeyCtx(TRUE))>>, <<Call(InitEvpPkeyCtx(FALSE))>>)>>
    \o Do(<<Call(HksOpensslRsaCryptInit), With("ctx"), Try, With("ctx")>>, <<Release("ctx")>>)

SetRsaPadding == <<Try, With("ctx"), May(<<With("ctx")>>)>>
InitRsaEvpKey(signing) ==
    <<Call(InitRsaStruct(signing))>> \o Else(<<Get("pkey")>>, <<Free("rsa")>>)
    \o Else(<<With("pkey")>>, <<Free("rsa"), Free("pkey")>>) \o <<Give("rsa")>>
InitRsaCtx(signing) ==
    <<Try, Null("pkey"), Null("ctx")>>
    \o Else(<<Call(InitRsaEvpKey(signing)), Get("ctx"), With("ctx"), Call(SetRsaPadding), With("ctx")>>,
            <<Free("pkey"), Free("ctx")>>)
    \o <<Free("pkey")>>
\* Slip: the context is freed where the call failed and at the end.
HksOpensslRsaSignTwice ==
    <<Call(InitRsaCtx(TRUE))>>
    \o Do(Else(<<With("ctx")>>, <<Release("ctx")>>), <<Release("ctx")>>)
HksOpensslRsaSign == OnCtx(InitRsaCtx(TRUE))
HksOpensslRsaVerify == OnCtx(InitRsaCtx(FALSE))

----------------------------------------------------------------------------
(* ECC, hks_openssl_ecc.c                                                  *)

TransEccKeyToKeyBlob == <<Use("eccKey"), With("pubX"), Try, Fill("rawMaterial")>>
EccSaveKeyMaterial ==
    <<Get("rawMaterial"), Maybe("pubX"), Maybe("pubY")>>
    \o Else(<<Need("pubX"), Need("pubY"), Call(TransEccKeyToKeyBlob)>>,
            <<Free("rawMaterial"), Free("pubX"), Free("pubY")>>)
    \o <<Move("rawMaterial", "key"), Free("pubX"), Free("pubY")>>
HksOpensslEccGenerateKey ==
    <<Try>> \o Do(<<Get("eccKey"), With("eccKey"), Call(EccSaveKeyMaterial)>>, <<Free("eccKey")>>)

EccInitPublicKey ==
    <<Try, Maybe("pub"), Maybe("pubX"), Maybe("pubY")>>
    \o Do(<<Need("pubX"), Need("pubY"), Need("pub"), With("pub"), With("eccKey")>>,
          <<Free("pubX"), Free("pubY"), Free("pub")>>)
\* A private key number that could not be set is freed, but not cleared.
EccInitKey(private) ==
    <<Try, Get("eccKey")>>
    \o IF private
         THEN Else(<<Get("pri"), Fill("pri"), With("eccKey")>>, <<Release("pri"), Release("eccKey")>>)
              \o <<Wipe("pri"), Release("pri")>>
         ELSE Else(<<Call(EccInitPublicKey)>>, <<Release("eccKey")>>)

GetEvpKey(key, private) ==
    <<Call(EccInitKey(private))>> \o Else(<<With(key)>>, <<Release("eccKey")>>) \o <<Give("eccKey")>>
EcdhDerive == <<With("ctx"), Use("peerKey"), With("ctx"), Try, With("ctx")>>
AgreeKeyEcdh ==
    <<Maybe("pKey"), Maybe("peerKey"), Null("ctx")>>
    \o Do(<<Need("peerKey"), Need("pKey"), Call(GetEvpKey("pKey", TRUE)),
            Call(GetEvpKey("peerKey", FALSE)), Get("ctx"), Call(EcdhDerive)>>,
          <<Release("ctx"), Release("peerKey"), Release("pKey")>>)
HksOpensslEcdhAgreeKey == <<Try, Call(AgreeKeyEcdh)>>

\* The key is freed as soon as the context holds it.
SignatureCtx(key) ==
    Else(<<Get("ctx")>>, <<Release(key)>>)
    \o Else(<<With("ctx")>>, <<Release(key), Release("ctx")>>) \o <<Release(key)>>
    \o Else(<<With("ctx")>>, <<Release("ctx")>>)
InitEcdsaCtx(sign) == <<Try, Call(EccInitKey(sign))>> \o AssignTo("key", "eccKey") \o SignatureCtx("key")
HksOpensslEcdsaVerify == OnCtx(InitEcdsaCtx(FALSE))
HksOpensslEcdsaSign == OnCtx(InitEcdsaCtx(TRUE))

----------------------------------------------------------------------------
(* SM2, hks_openssl_sm2.c                                                  *)

FillIf(private, x) == IF private THEN <<Fill(x)>> ELSE <<>>
\* One number of the key, and its bytes in out.  A private one is cleared
\* neither here nor where its bytes are freed.
GetBnBinpadFromPkey(out, private) ==
    <<Get("bn")>>
    \o Do(<<With("bn")>> \o FillIf(private, "bn") \o <<Try, Get(out)>>
          \o Else(<<With("bn")>>, <<Free(out)>>) \o FillIf(private, out),
          <<Free("bn")>>)
EvpPkeyToKeyMaterialEc ==
    <<Null("pubX"), Null("pubY"), Null("priv"), Ignore(GetBnBinpadFromPkey("pubX", FALSE)),
      Ignore(GetBnBinpadFromPkey("pubY", FALSE)), Ignore(GetBnBinpadFromPkey("priv", TRUE))>>
    \o Do(<<Need("pubX"), Need("pubY"), Need("priv"), Get("rawMaterial"), Fill("rawMaterial")>>
          \o Else(<<Try>>, <<Free("rawMaterial")>>) \o <<Move("rawMaterial", "key")>>,
          <<Free("priv"), Free("pubX"), Free("pubY")>>)
HksOpensslSm2GenerateKey ==
    <<Try, Get("ctx"), Null("pkey")>>
    \o Do(<<With("ctx"), Get("pkey"), Call(EvpPkeyToKeyMaterialEc)>>, <<Free("pkey"), Free("ctx")>>)

PushPubKeyToParam == <<Use("uncompressedPublicKey"), Try, With("paramBld")>>
\* The private number is freed, but not cleared, also when all went well.
ConstructSm2ParamsFromRawKey(private) ==
    <<Get("paramBld"), Null("params"), Null("uncompressedPublicKey"), Null("priBn")>>
    \o Do(<<With("paramBld"), May(<<Get("uncompressedPublicKey"), Call(PushPubKeyToParam)>>)>>
          \o (IF private THEN <<Try, Get("priBn"), Fill("priBn"), With("paramBld")>> ELSE <<>>)
          \o <<Get("params")>>,
          <<Free("paramBld"), Free("uncompressedPublicKey"), Release("priBn")>>)
\* The context the key is read with is freed only when reading fails.
Sm2InitKey(private) ==
    <<Try, Null("sm2EvpPkey"), Call(ConstructSm2ParamsFromRawKey(private))>>
    \o Do(<<Get("fromCtx")>>
          \o Else(<<With("fromCtx"), Get("sm2EvpPkey")>>, <<Free("fromCtx"), Free("sm2EvpPkey")>>),
          <<Free("params")>>)
SetDigestIfNeeded == <<May(<<OneOf(<<<<With("ctx")>>, <<Fail>>, <<>>>>)>>)>>
InitSm2Ctx(private) ==
    <<Call(Sm2InitKey(private)), Null("ctx")>>
    \o Else(<<Get("ctx"), With("ctx"), Call(SetDigestIfNeeded)>>, <<Free("sm2EvpPkey"), Free("ctx")>>)
    \o <<Free("sm2EvpPkey")>>
HksOpensslSm2Verify == <<Try>> \o OnCtx(InitSm2Ctx(FALSE))
HksOpensslSm2Sign ==
    <<Try, Call(InitSm2Ctx(TRUE))>> \o Do(<<With("ctx"), Try, With("ctx")>>, <<Free("ctx")>>)
HksOpensslSm2Encrypt == OnCtx(InitSm2Ctx(FALSE))
HksOpensslSm2Decrypt == <<Try>> \o OnCtx(InitSm2Ctx(TRUE))

----------------------------------------------------------------------------
(* DSA, hks_openssl_dsa.c                                                  *)

\* The private number is still in buff when the public one cannot be copied;
\* x is freed, but not cleared, when no key comes to own it.
InitDsaStructKey(needPrivateExponent) ==
    <<Get("buff"), Null("x")>>
    \o (IF needPrivateExponent
          THEN Else(<<Try, Try>>, <<Free("buff")>>) \o <<Fill("buff")>> \o MaybeKey("x")
          ELSE <<>>)
    \o Else(<<Try>>, <<Free("buff"), Free("x")>>) \o <<Maybe("y")>>
    \o Else(<<With("dsa")>>, <<Free("x"), Free("y")>> \o WipeFree("buff"))
    \o <<Give("x"), Give("y")>> \o WipeFree("buff")
InitDsaStructParameter ==
    <<Get("buff")>> \o Else(<<Try>>, <<Free("buff")>>) \o <<Maybe("p")>>
    \o Else(<<Try>>, <<Free("buff"), Free("p")>>) \o <<Maybe("q")>>
    \o Else(<<Try>>, WipeFree("buff") \o <<Free("p"), Free("q")>>) \o <<Maybe("g")>>
    \o Else(<<With("dsa")>>, <<Free("p"), Free("q"), Free("g")>> \o WipeFree("buff"))
    \o <<Give("p"), Give("q"), Give("g")>> \o WipeFree("buff")
InitDsaStruct(needPrivateExponent) ==
    <<Get("dsa")>>
    \o Else(<<Call(InitDsaStructKey(needPrivateExponent)), Call(InitDsaStructParameter)>>, <<Free("dsa")>>)

DsaKeyMaterialData == <<Fill("rawMaterial"), Try>>
\* The private number is written first; it is still there when the next fails.
DsaSaveKeyMaterial ==
    <<Get("rawMaterial")>> \o Else(<<Call(DsaKeyMaterialData)>>, <<Free("rawMaterial")>>)
    \o <<Move("rawMaterial", "key")>>
HksOpensslDsaGenerateKey ==
    <<Try, Get("dsa")>> \o Do(<<With("dsa"), With("dsa"), Call(DsaSaveKeyMaterial)>>, <<Release("dsa")>>)
InitDSACtx(signing) == <<Try, Call(InitDsaStruct(signing))>> \o AssignTo("pkey", "dsa") \o SignatureCtx("pkey")
HksOpensslDsaSign == OnCtx(InitDSACtx(TRUE))
HksOpensslDsaVerify == OnCtx(InitDSACtx(FALSE))

----------------------------------------------------------------------------
(* DH, hks_openssl_dh.c                                                    *)

\* The numbers are not freed when they cannot be set.
InitDhStruct ==
    <<Try, Get("dh"), Maybe("pubKey")>> \o MaybeKey("privKey")
    \o Else(<<With("dh")>>, <<Free("dh")>>) \o <<Give("pubKey"), Give("privKey")>>
InitDhPubStruct ==
    <<Try, Get("dh"), Maybe("pubKey")>> \o Else(<<With("dh")>>, <<Free("dh")>>) \o <<Give("pubKey")>>
DhSaveKeyMaterial == <<Use("dh"), Get("rawMaterial"), Fill("rawMaterial"), Move("rawMaterial", "key")>>
HksOpensslDhGenerateKey ==
    <<Try, Get("dh")>> \o Do(<<With("dh"), Call(DhSaveKeyMaterial)>>, <<Release("dh")>>)

HksFreeBigNum(one, two, three) == Each(Release, <<one, two, three>>)
HksOpensslDhCheckPubKey ==
    <<Maybe("checked"), Maybe("one"), Maybe("r")>>
    \o Do(<<Need("one"), Need("r"), Need("checked"), With("checked"), Use("dh"), With("r")>>,
          HksFreeBigNum("one", "r", "checked"))
HksOpensslCheckDhKey ==
    <<Either(<<Call(InitDhStruct)>>, <<Call(InitDhPubStruct)>>)>>
    \o Do(<<Call(HksOpensslDhCheckPubKey)>>, <<Free("dh")>>)
\* Whether InitDhStruct returned a key is not looked at, and a secret that
\* could not be computed is freed as it is.
HksOpensslDhAgreeKey ==
    <<Try, Get("pub")>> \o Else(<<Call(HksOpensslCheckDhKey)>>, <<Release("pub")>>)
    \o <<Ignore(InitDhStruct), Use("dh")>>
    \o Else(<<Get("computeKey")>>, <<Release("pub"), Release("dh")>>)
    \o Else(<<With("pub")>>, <<Release("pub"), Release("dh"), Free("computeKey")>>)
    \o <<Fill("computeKey")>>
    \o Do(<<Try>>, <<Wipe("computeKey"), Release("pub"), Release("dh"), Free("computeKey")>>)

----------------------------------------------------------------------------
(* 25519, hks_openssl_curve25519.c and hks_openssl_ed25519tox25519.c       *)

SaveCurve25519KeyMaterial ==
    <<Get("buffer")>> \o Else(<<With("pkey"), With("pkey")>>, <<Free("buffer")>>)
    \o <<Fill("buffer"), Move("buffer", "key")>>
HksOpensslCurve25519GenerateKey ==
    <<Null("pctx"), Null("pkey")>>
    \o Do(<<Get("pctx"), With("pctx"), Get("pkey"), Call(SaveCurve25519KeyMaterial)>>,
          <<Release("pctx"), Release("pkey")>>)
ImportX25519EvpKey == <<Get("ours")>> \o Else(<<Get("theirs")>>, <<Free("ours")>>)
HksOpensslX25519AgreeKey ==
    <<Null("ctx"), Call(ImportX25519EvpKey)>>
    \o Do(<<Get("ctx"), With("ctx"), Use("theirs"), With("ctx")>>,
          <<Release("theirs"), Release("ours"), Release("ctx")>>)

Curve25519Fields ==
    <<"curve.p", "curve.d", "curve.negativeTwo", "curve.negativeOne",
      "curve.negativeOneDivideTwo", "curve.ed25519Pubkey">>
Curve25519Destroy == <<Wipe("curve.ed25519Pubkey")>> \o Each(Free, Curve25519Fields)
CovertData == Else(Each(Get, Curve25519Fields), Curve25519Destroy)
Curve25519Initialize == <<Try>> \o Each(Null, Curve25519Fields) \o <<Call(CovertData)>>
Curve25519Vars == <<"var.a", "var.b", "var.c">>
FreeLocalBigVar == Each(Free, Curve25519Vars)
Curve25519LocalVar == Else(Each(Get, Curve25519Vars), FreeLocalBigVar)
CheckEd25519PubkeyPart == <<With("tmpOne"), With("var.b"), Use("curve.p"), With("var.a")>>
CheckEd25519Pubkey ==
    <<Use("curve.ed25519Pubkey"), Get("tmpOne")>>
    \o Do(<<With("var.a"), Call(CheckEd25519PubkeyPart), With("var.a")>>, <<Release("tmpOne")>>)
BnOperationOfPubKeyConversion ==
    <<Call(Curve25519Initialize)>>
    \o Do(<<Call(CheckEd25519Pubkey), With("numberOne"), With("var.a"), With("var.c"), Try>>,
          Curve25519Destroy)
ConvertPubkeyX25519FromED25519 ==
    <<Try, Get("bnCtx")>> \o Each(Null, Curve25519Vars) \o <<Maybe("numberOne")>>
    \o Do(<<Need("numberOne"), Call(Curve25519LocalVar), Call(BnOperationOfPubKeyConversion)>>,
          <<Release("bnCtx"), Release("numberOne")>> \o FreeLocalBigVar)
ConvertPrivX25519FromED25519 == <<Try, Use("x25519Pri"), Try, Fill("x25519Pri")>>
HksOpensslEd25519AgreeKey ==
    <<Null("ed25519PubKey"), Maybe("x25519Pri"), Maybe("x25519Pub")>>
    \o Do(<<Need("x25519Pri"), Need("x25519Pub"), Call(ConvertPrivX25519FromED25519),
            Get("ed25519PubKey"), Call(ConvertPubkeyX25519FromED25519), Call(HksOpensslX25519AgreeKey)>>,
          WipeFree("ed25519PubKey") \o WipeFree("x25519Pri") \o WipeFree("x25519Pub"))

\* The shape of HksOpensslEd25519Sign and HksOpensslEd25519Verify.
Ed25519Digest(k) ==
    <<Get(k)>> \o Else(<<Get("mdctx")>>, <<Release(k)>>)
    \o Do(<<With("mdctx"), With("mdctx")>>, <<Release(k), Release("mdctx")>>)
HksOpensslEd25519Sign == Ed25519Digest("edKeyPri")
HksOpensslEd25519Verify == Ed25519Digest("edKeyPub")
=============================================================================
