--------------------------- MODULE MbedtlsCiphers ---------------------------
(***************************************************************************)
(* The ciphers, hashes, MACs and key derivation on mbedtls, as programs of *)
(* Ownership.  A library context on the stack stands for the memory the    *)
(* library hangs on it, which holds the key; the library clears a context  *)
(* it frees.  A session's context cryptoCtx owns the library's in          *)
(* cryptoCtx.append.                                                       *)
(***************************************************************************)
EXTENDS OwnershipSteps

C == "cryptoCtx"
A == "cryptoCtx.append"

\* Calls on a library context that lives on the stack.
OnStack(p) == Do(<<Get("ctx"), Fill("ctx")>> \o p, WipeFree("ctx"))

\* A context that was set up with the key is wrapped and handed out.
MakeCtx(setUp) ==
    <<Get("ctx")>> \o Else(setUp \o <<Get("outCtx")>>, WipeFree("ctx"))
    \o <<Move("ctx", A), Move("outCtx", C)>>
SetKey == <<With("ctx"), Fill("ctx")>>

UpdateCtx == <<Use(C), Need(A), With(A)>>
\* The last stage frees both contexts, whatever the library returned.
FreeBoth == WipeFree(A) \o <<Free(C)>>
FinalCtx(p) == <<Use(C), IfSet(A, Do(p, FreeBoth), <<Free(C), Fail>>)>>
UpdateAndFinish == <<May(<<With(A)>>), With(A)>>

FreeAppend == <<IfSet(A, WipeFree(A), <<>>)>>

HksCtrDrbgSeed == <<Get("ctrDrbg")>> \o Else(<<With("ctrDrbg")>>, <<Free("ctrDrbg")>>)
HksMbedtlsFillRandom == <<Call(HksCtrDrbgSeed)>> \o Do(<<With("ctrDrbg")>>, <<Free("ctrDrbg")>>)

GenerateKey ==
    <<Try, Get("outKey")>> \o Else(<<Call(HksCtrDrbgSeed)>>, <<Free("outKey")>>)
    \o Do(<<Fill("outKey")>> \o Else(<<With("ctrDrbg")>>, WipeFree("outKey"))
          \o <<Move("outKey", "key")>>, <<Free("ctrDrbg")>>)

----------------------------------------------------------------------------
(* AES, hks_mbedtls_aes.c                                                  *)

HksMbedtlsAesGenerateKey == GenerateKey

AesCbcNoPaddingCrypt == OnStack(<<With("ctx"), Try, With("ctx")>>)
AesCbcNoPaddingCryptInit == MakeCtx(SetKey)
AesCbcNoPaddingCryptUpdate == <<Need(C)>> \o UpdateCtx
AesCbcNoPaddingCryptFinal == FinalCtx(<<Try, May(<<With(A)>>)>>)

AesCbcPkcs7Crypt == OnStack(<<With("ctx"), With("ctx"), With("ctx")>>)
AesCbcPkcs7CryptInitParam == <<Try, With("ctx")>> \o SetKey
AesCbcPkcs7CryptInit == MakeCtx(<<Call(AesCbcPkcs7CryptInitParam), With("ctx"), With("ctx")>>)
AesCbcPkcs7CryptUpdate == UpdateCtx
AesCbcPkcs7CryptFinal == FinalCtx(UpdateAndFinish)

OnPadding(none, pkcs7) == <<OneOf(<<none, pkcs7, <<Fail>>>>)>>
AesCbcCrypt == OnPadding(<<Call(AesCbcNoPaddingCrypt)>>, <<Call(AesCbcPkcs7Crypt)>>)
AesCbcCryptInit == OnPadding(<<Call(AesCbcNoPaddingCryptInit)>>, <<Call(AesCbcPkcs7CryptInit)>>)
AesCbcCryptUpdate == OnPadding(<<Call(AesCbcNoPaddingCryptUpdate)>>, <<Call(AesCbcPkcs7CryptUpdate)>>)
AesCbcCryptFinal == OnPadding(<<Call(AesCbcNoPaddingCryptFinal)>>, <<Call(AesCbcPkcs7CryptFinal)>>)

AesEncryptGcm == OnStack(<<With("ctx"), With("ctx")>>)
AesEncryptGcmInit == MakeCtx(SetKey \o <<With("ctx")>>)
AesEncryptGcmUpdate == UpdateCtx
AesEncryptGcmFinal == FinalCtx(UpdateAndFinish)
AesDecryptGcm == OnStack(<<With("ctx"), With("ctx")>>)
AesDecryptGcmInit == MakeCtx(SetKey \o <<With("ctx")>>)
AesDecryptGcmUpdate == UpdateCtx
AesDecryptGcmFinal == FinalCtx(UpdateAndFinish \o <<Try>>)

AesEncryptCcm == OnStack(<<With("ctx"), With("ctx")>>)
AesDecryptCcm == OnStack(<<With("ctx"), With("ctx")>>)

AesCtrCrypt == OnStack(<<Try, With("ctx"), With("ctx"), With("ctx")>>)
AesCtrCryptInitParam == <<Try, With("ctx")>> \o SetKey
AesCtrCryptInit == MakeCtx(<<Call(AesCtrCryptInitParam), Try, With("ctx"), With("ctx")>>)
AesCtrCryptUpdate == UpdateCtx
AesCtrCryptFinal == FinalCtx(UpdateAndFinish)

EcbData ==
    <<Get("tmpMessage")>> \o Do(<<Either(<<With(A)>>, <<Try, With(A)>>)>>, <<Free("tmpMessage")>>)
EcbCtx(data) == <<Use(C), Need(A), May(<<Try, Call(data)>>)>>
\* When the data cannot be processed, the session's context is freed and the
\* library's is not.
EcbFinal(get) ==
    <<Use(C)>> \o Else(<<Call(get)>>, <<Free(C)>>) \o Do(<<With(A)>>, FreeBoth)

AesEcbNoPaddingCrypt == OnStack(<<Try, With("ctx"), With("ctx"), With("ctx")>>)
AesEcbNoPaddingCryptInitParam == <<Try, With("ctx")>> \o SetKey \o <<With("ctx")>>
AesEcbNoPaddingCryptInit == MakeCtx(<<Call(AesEcbNoPaddingCryptInitParam), With("ctx")>>)
AesEcbNoPaddingData == EcbData
GetAesEcbNoPaddingCtx == EcbCtx(AesEcbNoPaddingData)
AesEcbNoPaddingCryptUpdate == <<Call(GetAesEcbNoPaddingCtx)>>
AesEcbNoPaddingCryptFinal == EcbFinal(GetAesEcbNoPaddingCtx)

OnlyNone(p) == <<Either(<<Call(p)>>, <<Fail>>)>>
AesEcbCrypt == OnlyNone(AesEcbNoPaddingCrypt)
AesEcbCryptInit == OnlyNone(AesEcbNoPaddingCryptInit)
AesEcbCryptUpdate == OnlyNone(AesEcbNoPaddingCryptUpdate)
AesEcbCryptFinal == OnlyNone(AesEcbNoPaddingCryptFinal)

\* The mode of a session is chosen when it begins and kept in its context.
OfMode(mode, cbc, gcm, ctr, ecb) ==
    CASE mode = "cbc" -> <<Call(cbc)>> [] mode = "gcm" -> <<Call(gcm)>>
      [] mode = "ctr" -> <<Call(ctr)>> [] mode = "ecb" -> <<Call(ecb)>> [] OTHER -> <<Fail>>

HksMbedtlsAesEncrypt ==
    <<Try, OneOf(<<<<Call(AesCbcCrypt)>>, <<Call(AesEncryptGcm)>>, <<Call(AesEncryptCcm)>>,
                   <<Call(AesCtrCrypt)>>, <<Call(AesEcbCrypt)>>, <<Fail>>>>)>>
HksMbedtlsAesDecrypt ==
    <<Try, OneOf(<<<<Call(AesCbcCrypt)>>, <<Call(AesDecryptGcm)>>, <<Call(AesDecryptCcm)>>,
                   <<Call(AesCtrCrypt)>>, <<Call(AesEcbCrypt)>>, <<Fail>>>>)>>
HksMbedtlsAesEncryptInit(mode) ==
    <<Try>> \o OfMode(mode, AesCbcCryptInit, AesEncryptGcmInit, AesCtrCryptInit, AesEcbCryptInit)
HksMbedtlsAesEncryptUpdate(mode) ==
    <<Need(C), Use(C)>>
    \o OfMode(mode, AesCbcCryptUpdate, AesEncryptGcmUpdate, AesCtrCryptUpdate, AesEcbCryptUpdate)
HksMbedtlsAesEncryptFinal(mode) ==
    <<Use(C)>> \o OfMode(mode, AesCbcCryptFinal, AesEncryptGcmFinal, AesCtrCryptFinal, AesEcbCryptFinal)
HksMbedtlsAesDecryptInit(mode) ==
    <<Try>> \o OfMode(mode, AesCbcCryptInit, AesDecryptGcmInit, AesCtrCryptInit, AesEcbCryptInit)
HksMbedtlsAesDecryptUpdate(mode) ==
    <<Use(C)>> \o OfMode(mode, AesCbcCryptUpdate, AesDecryptGcmUpdate, AesCtrCryptUpdate, AesEcbCryptUpdate)
HksMbedtlsAesDecryptFinal(mode) ==
    <<Use(C)>> \o OfMode(mode, AesCbcCryptFinal, AesDecryptGcmFinal, AesCtrCryptFinal, AesEcbCryptFinal)

HksMbedtlsAesCryptoInit(mode) ==
    <<Either(<<Call(HksMbedtlsAesEncryptInit(mode))>>, <<Call(HksMbedtlsAesDecryptInit(mode))>>)>>
HksMbedtlsAesCryptoUpdate(mode) ==
    <<Either(<<Call(HksMbedtlsAesEncryptUpdate(mode))>>, <<Call(HksMbedtlsAesDecryptUpdate(mode))>>)>>
HksMbedtlsAesCryptoFinal(mode) ==
    <<Either(<<Call(HksMbedtlsAesEncryptFinal(mode))>>, <<Call(HksMbedtlsAesDecryptFinal(mode))>>)>>

HksMbedtlsAesHalModecbcFreeCtx == FreeAppend
HksMbedtlsAesHalModegcmFreeCtx == FreeAppend
HksMbedtlsAesHalModectrFreeCtx == FreeAppend
HksMbedtlsAesHalModeecbFreeCtx == FreeAppend
HksMbedtlsAesHalFreeCtx(mode) ==
    <<IfSet(C, OfMode(mode, HksMbedtlsAesHalModecbcFreeCtx, HksMbedtlsAesHalModegcmFreeCtx,
                      HksMbedtlsAesHalModectrFreeCtx, HksMbedtlsAesHalModeecbFreeCtx)
               \o <<Free(C)>>, <<>>)>>

----------------------------------------------------------------------------
(* DES, hks_mbedtls_des.c, and triple DES, hks_mbedtls_3des.c              *)

HksMbedtlsDesGenerateKey == GenerateKey
DesCbcNoPaddingCryptInit == MakeCtx(SetKey)
DesCbcNoPaddingCryptUpdate == <<Need(C)>> \o UpdateCtx
DesCbcNoPaddingCryptFinal == FinalCtx(<<Try, May(<<With(A)>>)>>)
DesCbcCryptInit == OnlyNone(DesCbcNoPaddingCryptInit)
DesCbcCryptUpdate == OnlyNone(DesCbcNoPaddingCryptUpdate)
DesCbcCryptFinal == OnlyNone(DesCbcNoPaddingCryptFinal)
DesEcbNoPaddingCryptInitParam == <<Try, With("ctx")>> \o SetKey \o <<With("ctx")>>
DesEcbNoPaddingCryptInit == MakeCtx(<<Call(DesEcbNoPaddingCryptInitParam), With("ctx")>>)
DesEcbNoPaddingData == EcbData
GetDesEcbNoPaddingCtx == EcbCtx(DesEcbNoPaddingData)
DesEcbNoPaddingCryptUpdate == <<Call(GetDesEcbNoPaddingCtx)>>
DesEcbNoPaddingCryptFinal == EcbFinal(GetDesEcbNoPaddingCtx)
DesEcbCryptInit == OnlyNone(DesEcbNoPaddingCryptInit)
DesEcbCryptUpdate == OnlyNone(DesEcbNoPaddingCryptUpdate)
DesEcbCryptFinal == OnlyNone(DesEcbNoPaddingCryptFinal)

CbcOrEcb(mode, cbc, ecb) == OfMode(mode, cbc, <<Fail>>, <<Fail>>, ecb)
HksMbedtlsDesEncryptInit(mode) == <<Try>> \o CbcOrEcb(mode, DesCbcCryptInit, DesEcbCryptInit)
HksMbedtlsDesEncryptUpdate(mode) ==
    <<Need(C), Use(C)>> \o CbcOrEcb(mode, DesCbcCryptUpdate, DesEcbCryptUpdate)
HksMbedtlsDesEncryptFinal(mode) == <<Use(C)>> \o CbcOrEcb(mode, DesCbcCryptFinal, DesEcbCryptFinal)
HksMbedtlsDesDecryptInit(mode) == <<Try>> \o CbcOrEcb(mode, DesCbcCryptInit, DesEcbCryptInit)
HksMbedtlsDesDecryptUpdate(mode) == <<Use(C)>> \o CbcOrEcb(mode, DesCbcCryptUpdate, DesEcbCryptUpdate)
HksMbedtlsDesDecryptFinal(mode) == <<Use(C)>> \o CbcOrEcb(mode, DesCbcCryptFinal, DesEcbCryptFinal)
HksMbedtlsDesCryptoInit(mode) ==
    <<Either(<<Call(HksMbedtlsDesEncryptInit(mode))>>, <<Call(HksMbedtlsDesDecryptInit(mode))>>)>>
HksMbedtlsDesCryptoUpdate(mode) ==
    <<Either(<<Call(HksMbedtlsDesEncryptUpdate(mode))>>, <<Call(HksMbedtlsDesDecryptUpdate(mode))>>)>>
HksMbedtlsDesCryptoFinal(mode) ==
    <<Either(<<Call(HksMbedtlsDesEncryptFinal(mode))>>, <<Call(HksMbedtlsDesDecryptFinal(mode))>>)>>
HksMbedtlsDesHalModecbcFreeCtx == FreeAppend
\* Of the modes a session can have, only CBC has its library context freed.
HksMbedtlsDesHalFreeCtx(mode) ==
    <<IfSet(C, CbcOrEcb(mode, HksMbedtlsDesHalModecbcFreeCtx, <<>>) \o <<Free(C)>>, <<>>)>>

HksMbedtls3DesGenerateKey == GenerateKey
Des3CbcNoPaddingCryptSetKey == SetKey
Des3CbcNoPaddingCryptInit == MakeCtx(<<Call(Des3CbcNoPaddingCryptSetKey)>>)
Des3CbcNoPaddingCryptUpdate == <<Need(C)>> \o UpdateCtx
Des3CbcNoPaddingCryptFinal == FinalCtx(<<Try, May(<<With(A)>>)>>)
Des3CbcCryptInit == OnlyNone(Des3CbcNoPaddingCryptInit)
Des3CbcCryptUpdate == OnlyNone(Des3CbcNoPaddingCryptUpdate)
Des3CbcCryptFinal == OnlyNone(Des3CbcNoPaddingCryptFinal)
Des3EcbNoPaddingCryptInitParam == <<Try, With("ctx")>> \o SetKey \o <<With("ctx")>>
Des3EcbNoPaddingCryptInit == MakeCtx(<<Call(Des3EcbNoPaddingCryptInitParam), With("ctx")>>)
Des3EcbNoPaddingData == EcbData
Get3DesEcbNoPaddingCtx == EcbCtx(Des3EcbNoPaddingData)
Des3EcbNoPaddingCryptUpdate == <<Call(Get3DesEcbNoPaddingCtx)>>
Des3EcbNoPaddingCryptFinal == EcbFinal(Get3DesEcbNoPaddingCtx)
Des3EcbCryptInit == OnlyNone(Des3EcbNoPaddingCryptInit)
Des3EcbCryptUpdate == OnlyNone(Des3EcbNoPaddingCryptUpdate)
Des3EcbCryptFinal == OnlyNone(Des3EcbNoPaddingCryptFinal)
HksMbedtls3DesEncryptInit(mode) == <<Try>> \o CbcOrEcb(mode, Des3CbcCryptInit, Des3EcbCryptInit)
HksMbedtls3DesEncryptUpdate(mode) ==
    <<Need(C), Use(C)>> \o CbcOrEcb(mode, Des3CbcCryptUpdate, Des3EcbCryptUpdate)
HksMbedtls3DesEncryptFinal(mode) == <<Use(C)>> \o CbcOrEcb(mode, Des3CbcCryptFinal, Des3EcbCryptFinal)
HksMbedtls3DesDecryptInit(mode) == <<Try>> \o CbcOrEcb(mode, Des3CbcCryptInit, Des3EcbCryptInit)
HksMbedtls3DesDecryptUpdate(mode) ==
    <<Use(C)>> \o CbcOrEcb(mode, Des3CbcCryptUpdate, Des3EcbCryptUpdate)
HksMbedtls3DesDecryptFinal(mode) == <<Use(C)>> \o CbcOrEcb(mode, Des3CbcCryptFinal, Des3EcbCryptFinal)
HksMbedtls3DesCryptoInit(mode) ==
    <<Either(<<Call(HksMbedtls3DesEncryptInit(mode))>>, <<Call(HksMbedtls3DesDecryptInit(mode))>>)>>
HksMbedtls3DesCryptoUpdate(mode) ==
    <<Either(<<Call(HksMbedtls3DesEncryptUpdate(mode))>>, <<Call(HksMbedtls3DesDecryptUpdate(mode))>>)>>
HksMbedtls3DesCryptoFinal(mode) ==
    <<Either(<<Call(HksMbedtls3DesEncryptFinal(mode))>>, <<Call(HksMbedtls3DesDecryptFinal(mode))>>)>>
HksMbedtls3DesHalModeCbcFreeCtx == FreeAppend
HksMbedtls3DesHalModeEcbFreeCtx == FreeAppend
HksMbedtls3DesHalFreeCtx(mode) ==
    <<IfSet(C, CbcOrEcb(mode, HksMbedtls3DesHalModeCbcFreeCtx, HksMbedtls3DesHalModeEcbFreeCtx)
               \o <<Free(C)>>, <<>>)>>

----------------------------------------------------------------------------
(* Hashes, MACs and derivation: hks_mbedtls_hash.c, hks_mbedtls_hmac.c,    *)
(* hks_mbedtls_kdf.c                                                       *)

MakeHash == MakeCtx(<<With("ctx")>>)
UpdateHash == <<Need(A), Try, With(A)>>
\* The library's context is freed in any case; the session's is the caller's.
FinishHash == <<Need(A)>> \o Do(<<Try>> \o UpdateAndFinish, <<Free(A)>>)
WipeAppend == <<IfSet(A, <<Wipe(A)>>, <<>>)>>

HksMbedtlsHashMd5Init == MakeHash
HksMbedtlsHashMd5Update == UpdateHash
HksMbedtlsHashMd5Final == FinishHash
HksMbedtlsHashSha1Init == MakeHash
HksMbedtlsHashSha1Update == UpdateHash
HksMbedtlsHashSha1Final == FinishHash
HksMbedtlsHashSha256Init == MakeHash
HksMbedtlsHashSha256Update == UpdateHash
HksMbedtlsHashSha256Final == FinishHash
HksMbedtlsHashSha512Init == MakeHash
HksMbedtlsHashSha512Update == UpdateHash
HksMbedtlsHashSha512Final == FinishHash
HksMbedtlsMd5HashFreeCtx == WipeAppend
HksMbedtlsSHA1HashFreeCtx == WipeAppend
HksMbedtlsSha224Sha256HashFreeCtx == WipeAppend
HksMbedtlsSha384Sha512HashFreeCtx == WipeAppend

OfDigest(md5, sha1, sha256, sha512) ==
    <<OneOf(<<<<Call(md5)>>, <<Call(sha1)>>, <<Call(sha256)>>, <<Call(sha512)>>, <<Fail>>>>)>>
HksMbedtlsHashInit ==
    OfDigest(HksMbedtlsHashMd5Init, HksMbedtlsHashSha1Init, HksMbedtlsHashSha256Init,
             HksMbedtlsHashSha512Init)
HksMbedtlsHashUpdate ==
    <<Use(C)>> \o OfDigest(HksMbedtlsHashMd5Update, HksMbedtlsHashSha1Update,
                           HksMbedtlsHashSha256Update, HksMbedtlsHashSha512Update)
HksMbedtlsHashFreeCtx ==
    <<IfSet(C, <<OneOf(<<HksMbedtlsMd5HashFreeCtx, HksMbedtlsSHA1HashFreeCtx,
                         HksMbedtlsSha224Sha256HashFreeCtx, HksMbedtlsSha384Sha512HashFreeCtx>>),
                 IfSet(A, <<Free(A)>>, <<>>), Free(C)>>, <<>>)>>
HksMbedtlsHashFinal ==
    <<Need(C), Use(C),
      OneOf(<<Else(<<Either(<<Call(HksMbedtlsHashMd5Final)>>, <<Call(HksMbedtlsHashSha1Final)>>)>>,
                   <<Free(C)>>),
              Else(<<Either(<<Call(HksMbedtlsHashSha256Final)>>, <<Call(HksMbedtlsHashSha512Final)>>)>>,
                   <<Free(C)>>),
              HksMbedtlsHashFreeCtx \o <<Fail>>>>)>>
    \o Do(<<With(C)>>, HksMbedtlsHashFreeCtx)
HksMbedtlsHash == <<Try, Try>>

HksMbedtlsHmacGenerateKey == GenerateKey
HksMbedtlsHmac == <<Try, Try, Try>>
HksMbedtlsHmacInit == <<Try, Try>> \o MakeCtx(<<With("ctx")>> \o SetKey)
HksMbedtlsHmacUpdate == UpdateCtx
HksMbedtlsHmacHalFreeCtx == <<IfSet(C, FreeAppend \o <<Free(C)>>, <<>>)>>
HksMbedtlsHmacFinal ==
    <<Use(C), IfSet(A, Do(UpdateAndFinish \o <<With(C)>>, HksMbedtlsHmacHalFreeCtx), <<Free(C), Fail>>)>>

DeriveKeyPbkdf2 == OnStack(<<With("ctx"), With("ctx")>>)
DeriveKeyHkdf == <<Try>>
HksMbedtlsDeriveKey ==
    <<Try, Try, OneOf(<<<<Call(DeriveKeyPbkdf2)>>, <<Call(DeriveKeyHkdf)>>, <<Fail>>>>)>>
=============================================================================
