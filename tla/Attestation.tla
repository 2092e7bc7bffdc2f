---------------------------- MODULE Attestation -----------------------------
(***************************************************************************)
(* The certificate chain of an attested key, dcm_attest.c, as programs of  *)
(* Ownership.  attestSpec owns the claims, the device certificate, the     *)
(* device's private key and a copy of the attested key; the chain itself   *)
(* is the caller's.  Encoders write into a buffer of their caller: out is  *)
(* that buffer.                                                            *)
(***************************************************************************)
EXTENDS OwnershipSteps

----------------------------------------------------------------------------
(* Encoders, dcm_asn1.c and dcm_attest_utils.c                             *)

Asn1InsertValue(out) == <<With(out), With(out)>>
DcmAsn1InsertValue(out) == <<Try, Either(<<With(out)>>, <<Call(Asn1InsertValue(out))>>)>>
DcmAsn1WriteFinal(out) == <<Try, Call(DcmAsn1InsertValue(out))>>
Asn1GetObj == <<Try>>
DcmAsn1ExtractTag == <<Try, Call(Asn1GetObj), Try>>
DcmInsertClaim(out) == <<Try, Call(DcmAsn1WriteFinal(out)), Call(DcmAsn1InsertValue(out))>>

\* The public key of the attested key goes to a buffer on the stack.
ConstructKeySeq == <<Try, Try, Try, Try>>
GetEcPublicKey == <<Try>>
GetRsaPublicKey == <<Try, Try, Call(ConstructKeySeq), Try, Try>>
GetX25519PublicKey == <<Try, Try, Try, Try>>
GetSm2PublicKey == <<Try, Call(GetEcPublicKey)>>
DcmGetPublicKey ==
    <<OneOf(<<<<Call(GetRsaPublicKey)>>, <<Call(GetEcPublicKey)>>, <<Call(GetX25519PublicKey)>>,
              <<Call(GetSm2PublicKey)>>, <<Fail>>>>)>>

----------------------------------------------------------------------------
(* The certificate                                                         *)

EncodeClaims == <<With("extBuf"), Call(DcmAsn1WriteFinal("extBuf")), Call(DcmAsn1WriteFinal("extBuf"))>>
CreateAttestExtension == <<With("extBuf"), Use("claims"), Call(EncodeClaims), Call(DcmAsn1WriteFinal("extBuf"))>>
EncodeTbs == [i \in 1 .. 8 |-> Call(DcmAsn1InsertValue("attest"))] \o <<Call(DcmAsn1WriteFinal("attest"))>>
CreateTbs ==
    <<Use("devCert"), With("attestKey"), Call(DcmGetPublicKey), Get("extBuf")>>
    \o Do(<<Call(CreateAttestExtension), Call(EncodeTbs)>>, <<Free("extBuf")>>)

GetPrivateKeyMaterial ==
    <<Call(DcmAsn1ExtractTag), Call(DcmAsn1ExtractTag), Call(DcmAsn1ExtractTag), Fill("material"), With("material")>>
StepIntoPrivateKey == <<Use("devKey"), Call(DcmAsn1ExtractTag), Call(DcmAsn1ExtractTag)>>
HksGetDevicePrivateKey ==
    <<Call(StepIntoPrivateKey), Get("material")>> \o Else(<<Call(GetPrivateKeyMaterial)>>, WipeFree("material"))
SignTbs == <<With("attest"), Call(HksGetDevicePrivateKey)>> \o Do(<<With("material")>>, WipeFree("material"))
CreateAttestCert ==
    <<Call(CreateTbs), Call(SignTbs), Call(DcmAsn1InsertValue("attest")), Call(DcmAsn1InsertValue("attest")),
      Call(DcmAsn1WriteFinal("attest"))>>

----------------------------------------------------------------------------
(* The claims                                                              *)

InsertSignatureGroupClaim == <<Call(DcmInsertClaim("claims"))>>
InsertEncryptionGroupClaim == <<Call(DcmInsertClaim("claims"))>>
\* Usages without a group are passed over.
InsertGroupClaim ==
    <<Try, May(<<Call(InsertSignatureGroupClaim)>>), May(<<Call(InsertEncryptionGroupClaim)>>)>>
InsertAppIdClaim == <<May(<<Try, Try, Call(DcmInsertClaim("claims"))>>)>>
BuildAttestMsgClaims ==
    <<Call(DcmAsn1InsertValue("claims")), Try, Call(DcmInsertClaim("claims")), Try,
      Call(DcmInsertClaim("claims")), Call(InsertAppIdClaim)>>
BuildAttestKeyClaims ==
    <<Call(DcmInsertClaim("claims")), Try, Call(DcmInsertClaim("claims")), Call(InsertGroupClaim),
      May(<<Call(DcmInsertClaim("claims")), Call(DcmInsertClaim("claims")), May(<<Call(DcmInsertClaim("claims"))>>)>>)>>
InsertIdOrSecInfoData == <<Try, Call(DcmInsertClaim("claims"))>>
InsertIdOrSecInfoByOid == <<May(<<Either(<<Call(InsertIdOrSecInfoData)>>, <<Fail>>)>>)>>
BuildAttestDeviceClaims == <<Call(InsertIdOrSecInfoByOid)>>
BuildAttestClaims ==
    <<Get("claims"), Call(BuildAttestMsgClaims), Call(BuildAttestDeviceClaims), Call(BuildAttestKeyClaims),
      Call(DcmAsn1WriteFinal("claims"))>>

----------------------------------------------------------------------------
(* The chain                                                               *)

ReadCertOrKey(x) == Get(x)
GetCertOrKey(x) == <<ReadCertOrKey(x)>>
GetCertAndKey == <<Call(GetCertOrKey("devCert")), Call(GetCertOrKey("devKey")), Fill("devKey")>>
FreeAttestSpec ==
    <<IfSet("attestSpec",
            <<Free("claims"), Free("devCert")>> \o WipeFree("devKey") \o WipeFree("attestKey") \o <<Free("attestSpec")>>,
            <<>>)>>
\* The copy of the key is the one allocation whose failure frees nothing.
BuildAttestSpec ==
    <<Get("attestSpec")>>
    \o Else(<<Try, Call(BuildAttestClaims)>>, FreeAttestSpec)
    \o <<Get("attestKey"), Fill("attestKey")>>
    \o Else(<<Call(GetCertAndKey)>>, FreeAttestSpec)
CreateHwAttestCert == <<Get("attest")>> \o Else(<<Call(CreateAttestCert)>>, <<Free("attest")>>)
CopyBlobToBuffer == Try
FormatCertToBuf == <<Call(GetCertOrKey("cert"))>> \o Do(<<CopyBlobToBuffer>>, <<Free("cert")>>)
FormatAttestChain ==
    <<Use("attest"), CopyBlobToBuffer, Use("devCert"), CopyBlobToBuffer, Call(FormatCertToBuf), Call(FormatCertToBuf)>>
CreateAttestCertChain ==
    <<Call(BuildAttestSpec)>>
    \o Else(<<Call(CreateHwAttestCert)>>, FreeAttestSpec)
    \o Do(<<Call(FormatAttestChain)>>, <<Free("attest")>> \o FreeAttestSpec)
=============================================================================
