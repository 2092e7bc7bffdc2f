--------------------------- MODULE OpensslCiphers ---------------------------
(***************************************************************************)
(* The ciphers, hashes, MACs and key derivation on OpenSSL, as programs of *)
(* Ownership: one call from end to end, and the three stages of a session, *)
(* whose context cryptoCtx owns the library's context cryptoCtx.append.    *)
(***************************************************************************)
EXTENDS OwnershipSteps

C == "cryptoCtx"
A == "cryptoCtx.append"

\* A session's context is wrapped around the library's and handed out.
WrapCtx == <<Get("outCtx"), Move("ctx", A), Move("outCtx", C)>>

OpensslBlockCipherCryptInitParams == <<With("ctx"), With("ctx")>>

OpensslBlockCipherCryptInit ==
    <<Get("ctx")>> \o
    Else(<<Try, With("ctx"), Call(OpensslBlockCipherCryptInitParams)>> \o WrapCtx,
         <<Release("ctx")>>)

OpensslBlockCipherEncryptUpdate ==
    <<Use(C), IfSet(A, <<With(A)>>, <<Fail>>)>>
OpensslBlockCipherDecryptUpdate == OpensslBlockCipherEncryptUpdate

\* The last stage frees the library's context and the session's, always.
FreeBoth == <<Release(A), Null(A), Free(C)>>
UnlessNoContext(p) == <<Use(C), IfSet(A, p, <<Free(C), Fail>>)>>

OpensslBlockCipherHandleFinalThree ==
    UnlessNoContext(Do(<<May(<<With(A)>>), With(A)>>, FreeBoth))

OpensslAesAeadInit ==
    <<Try, Get("ctx")>> \o
    Else(<<With("ctx"), With("ctx"), With("ctx")>>, <<Release("ctx")>>)
OpensslAesAeadEncryptFinal ==
    Do(<<With("ctx"), With("ctx"), With("ctx"), With("ctx")>>, <<Release("ctx")>>)
OpensslAesAeadDecryptFinal ==
    Do(<<With("ctx"), With("ctx"), With("ctx"), With("ctx")>>, <<Release("ctx")>>)

OpensslAesAeadCryptSetParam == <<Try, With("ctx"), With("ctx")>>
OpensslAesAeadCryptInit ==
    <<Get("ctx")>> \o
    Else(<<With("ctx"), Call(OpensslAesAeadCryptSetParam), With("ctx")>> \o WrapCtx,
         <<Release("ctx")>>)
OpensslAesAeadEnryptUpdate == <<Use(C), With(A)>>
OpensslAesAeadDecryptUpdate == <<Use(C), With(A)>>
OpensslAesAeadEncryptFinalGCM ==
    UnlessNoContext(Do(<<May(<<With(A)>>), With(A), With(A)>>, FreeBoth))
OpensslAesAeadDecryptFinalGCM == OpensslAesAeadEncryptFinalGCM

OpensslAesAeadCipherSetParam == <<Try, May(<<With("ctx")>>), With("ctx"), With("ctx")>>
OpensslAesAeadCipherInit ==
    <<Get("ctx")>> \o
    Else(<<With("ctx"), May(<<With("ctx")>>), Call(OpensslAesAeadCipherSetParam)>> \o WrapCtx,
         <<Release("ctx")>>)
OpensslAesAeadCipherUpdate ==
    <<Use(C), IfSet(A, <<>>, <<Fail>>), Try, May(<<With(A)>>), May(<<With(A)>>), With(A)>>
OpensslAesAeadCipherFinal ==
    UnlessNoContext(Do(<<May(<<Call(OpensslAesAeadCipherUpdate)>>), May(<<With(A)>>),
                         With(A), May(<<With(A)>>)>>, FreeBoth))

OpensslAesCipherInit ==
    <<Get("ctx")>> \o
    Else(<<Try, With("ctx"), With("ctx"), With("ctx")>>, <<Release("ctx")>>)
OpensslAesCipherEncryptFinal == Do(<<With("ctx"), With("ctx")>>, <<Release("ctx")>>)
OpensslAesCipherDecryptFinal == Do(<<With("ctx"), With("ctx")>>, <<Release("ctx")>>)

----------------------------------------------------------------------------
(* AES, hks_openssl_aes.c.  The mode of a session is chosen when it begins *)
(* and kept in its context.                                                *)

OfMode(mode, gcm, block) ==
    CASE mode = "gcm" -> <<Call(gcm)>> [] mode = "block" -> <<Call(block)>> [] OTHER -> <<Fail>>

HksOpensslAesEncryptInit(mode) == OfMode(mode, OpensslAesAeadCryptInit, OpensslBlockCipherCryptInit)
HksOpensslAesEncryptUpdate(mode) ==
    <<Use(C)>> \o OfMode(mode, OpensslAesAeadEnryptUpdate, OpensslBlockCipherEncryptUpdate)
HksOpensslAesEncryptFinal(mode) ==
    <<Use(C)>> \o OfMode(mode, OpensslAesAeadEncryptFinalGCM, OpensslBlockCipherHandleFinalThree)
HksOpensslAesDecryptInit(mode) == OfMode(mode, OpensslAesAeadCryptInit, OpensslBlockCipherCryptInit)
HksOpensslAesDecryptUpdate(mode) ==
    <<Use(C)>> \o OfMode(mode, OpensslAesAeadDecryptUpdate, OpensslBlockCipherDecryptUpdate)
HksOpensslAesDecryptFinal(mode) ==
    <<Use(C)>> \o OfMode(mode, OpensslAesAeadDecryptFinalGCM, OpensslBlockCipherHandleFinalThree)

HksOpensslAesHalFreeCtx == <<IfSet(C, <<IfSet(A, <<Release(A), Null(A)>>, <<>>), Free(C)>>, <<>>)>>

HksOpensslAesEncrypt ==
    <<OneOf(<<<<Call(OpensslAesAeadInit), Call(OpensslAesAeadEncryptFinal)>>,
              <<Call(OpensslAesAeadCipherInit), Call(OpensslAesAeadCipherFinal)>>,
              <<Call(OpensslAesCipherInit), Call(OpensslAesCipherEncryptFinal)>>,
              <<Fail>>>>)>>
HksOpensslAesDecrypt ==
    <<OneOf(<<<<Call(OpensslAesAeadInit), Call(OpensslAesAeadDecryptFinal)>>,
              <<Call(OpensslAesAeadCipherInit), Call(OpensslAesAeadCipherFinal)>>,
              <<Call(OpensslAesCipherInit), Call(OpensslAesCipherDecryptFinal)>>,
              <<Fail>>>>)>>

----------------------------------------------------------------------------
(* SM4, hks_openssl_sm4.c: block modes only.                               *)

HksOpensslSm4EncryptInit == <<Either(<<Call(OpensslBlockCipherCryptInit)>>, <<Fail>>)>>
HksOpensslSm4EncryptUpdate == <<Need(C), Use(C), Call(OpensslBlockCipherEncryptUpdate)>>
HksOpensslSm4EncryptFinal == <<Use(C), Call(OpensslBlockCipherHandleFinalThree)>>
HksOpensslSm4DecryptInit == HksOpensslSm4EncryptInit
HksOpensslSm4DecryptUpdate == <<Use(C), Call(OpensslBlockCipherDecryptUpdate)>>
HksOpensslSm4DecryptFinal == HksOpensslSm4EncryptFinal
HksOpensslSm4HalFreeCtx == HksOpensslAesHalFreeCtx
HksOpensslSm4Encrypt ==
    <<Either(<<Call(OpensslBlockCipherCryptInit), Call(OpensslBlockCipherHandleFinalThree)>>, <<Fail>>)>>
HksOpensslSm4Decrypt == HksOpensslSm4Encrypt

----------------------------------------------------------------------------
(* Random keys, hashes, MACs, derivation and big numbers.                  *)

HksOpensslGenerateRandomKey ==
    <<Get("tmpKey")>> \o Else(<<Fill("tmpKey"), Try>>, WipeFree("tmpKey")) \o <<Move("tmpKey", "key")>>

\* Whether the library gave a context is not looked at: the check that should
\* do it tests the algorithm a second time.
HksOpensslHashInit ==
    <<Try, Maybe("tmpctx"), Use("tmpctx")>> \o Else(<<With("tmpctx")>>, <<Release("tmpctx")>>)
    \o <<Move("tmpctx", C)>>
HksOpensslHashUpdate == <<Need(C), Try, With(C)>>
HksOpensslHashFinal == <<Need(C)>> \o Do(<<Try, May(<<With(C)>>), With(C)>>, <<Free(C)>>)
HksOpensslHashFreeCtx == <<Free(C)>>

HksOpensslHmacInit ==
    <<Try, Get("tmpCtx")>> \o Else(<<With("tmpCtx"), Get("outCtx")>>, <<Release("tmpCtx")>>)
    \o <<Move("tmpCtx", A), Move("outCtx", C)>>
HksOpensslHmacUpdate == <<Try, Need(C), Use(C), Need(A), With(A)>>
HksOpensslHmacHalFreeCtx == HksOpensslAesHalFreeCtx
HksOpensslHmacFinal ==
    <<Need(C), Use(C)>> \o Else(<<Need(A)>>, <<Free(C)>>)
    \o Do(<<Try, May(<<With(A)>>), With(A)>>, HksOpensslHmacHalFreeCtx)

HksOpensslHkdf == <<Maybe("pctx")>> \o Do(<<Try>>, <<Release("pctx")>>)
AppendKekAndFactor == <<Try, Get("appendedKeyData"), Fill("appendedKeyData")>>
\* Both buffers hold the key that is derived from; neither is cleared.
HksOpensslSmKdf ==
    <<Try, Call(AppendKekAndFactor)>> \o Else(<<Get("inputHash")>>, <<Free("appendedKeyData")>>)
    \o Do(<<Fill("inputHash"), Try, Use("inputHash"), Try>>, <<Free("appendedKeyData"), Free("inputHash")>>)

BnParams == <<"bnX", "bnA", "bnE", "bnN", "bnCtx">>
BnFreeParams == Each(Free, BnParams)
BnBuildParams == Each(Maybe, BnParams) \o Else(Each(Need, BnParams), BnFreeParams)
BnExpModExport == <<Use("bnX"), Try, May(<<Get("bnOutput")>> \o Do(<<Try>>, <<Free("bnOutput")>>))>>
HksOpensslBnExpMod ==
    <<Call(BnBuildParams)>> \o Do(<<With("bnN"), With("bnX"), Call(BnExpModExport)>>, BnFreeParams)
=============================================================================
