----------------------------- MODULE PublicKeys -----------------------------
(***************************************************************************)
(* Public keys between the format of the service and X.509, and the client *)
(* calls around which they are translated, as programs of Ownership.       *)
(***************************************************************************)
EXTENDS ClientIpc

----------------------------------------------------------------------------
(* To X.509, hks_client_service_adapter.c                                  *)

EvpKeyToX509Format == <<With("pkey"), Get("x509Key")>> \o Else(<<With("pkey")>>, <<Free("x509Key")>>)
\* The library's key owns the number from now on.
Owns(xs) == Each(Give, xs) \o Each(Null, xs)
InPkey == <<Get("pkey"), With("pkey"), Call(EvpKeyToX509Format)>>

RsaToX509PublicKey ==
    Each(Null, <<"rsaN", "rsaE", "pkey">>)
    \o Do(<<Get("rsa"), Maybe("rsaN"), Maybe("rsaE"), Need("rsaN"), Need("rsaE"), With("rsa")>>
          \o Owns(<<"rsaN", "rsaE">>) \o InPkey,
          Each(Free, <<"rsa", "rsaN", "rsaE", "pkey">>))
EccToX509PublicKey ==
    <<Try>> \o Each(Null, <<"ecX", "ecY", "pkey">>)
    \o Do(<<Get("ecKey"), Maybe("ecX"), Maybe("ecY"), Need("ecX"), Need("ecY"), With("ecKey")>> \o InPkey,
          Each(Free, <<"ecKey", "ecX", "ecY", "pkey">>))
GetDsaPubKeyParam == <<Try, Try>>
DsaToX509PublicKey ==
    Each(Maybe, <<"dsaY", "dsaP", "dsaQ", "dsaG">>) \o <<Null("pkey")>>
    \o Do(<<Get("dsa")>> \o Each(Need, <<"dsaY", "dsaP", "dsaQ", "dsaG">>)
          \o <<With("dsa")>> \o Owns(<<"dsaY">>) \o <<With("dsa")>> \o Owns(<<"dsaP", "dsaQ", "dsaG">>) \o InPkey,
          Each(Free, <<"dsa", "dsaY", "dsaP", "dsaQ", "dsaG", "pkey">>))
DsaPublicKeyToX509 == <<Call(GetDsaPubKeyParam), Call(DsaToX509PublicKey)>>
\* Until the last call a failure leaves the block with the success of the first.
LeaveIfNot(x) == IfSet(x, <<>>, <<Leave>>)
DhToX509PublicKey ==
    <<Try>> \o Each(Null, <<"dh", "pub", "pkey">>)
    \o Do(<<Maybe("dh"), LeaveIfNot("dh"), Maybe("pub"), LeaveIfNot("pub"), Use("dh"), May(<<Leave>>)>> \o Owns(<<"pub">>)
          \o <<Maybe("pkey"), LeaveIfNot("pkey"), Use("pkey"), May(<<Leave>>), Call(EvpKeyToX509Format)>>,
          Each(Free, <<"dh", "pub", "pkey">>))
Curve25519ToX509PublicKey == <<Try, Get("x509Key")>>
TranslateToX509PublicKeySwitchAlg ==
    <<OneOf(<<<<Call(RsaToX509PublicKey)>>, <<Call(EccToX509PublicKey)>>, <<Call(DsaPublicKeyToX509)>>,
              <<Call(Curve25519ToX509PublicKey)>>, <<Call(DhToX509PublicKey)>>, <<Fail>>>>)>>
TranslateToX509PublicKey == <<Try, Try, Try, Call(TranslateToX509PublicKeySwitchAlg)>>

----------------------------------------------------------------------------
(* From X.509                                                              *)

X509PublicKeyToRsa(out) ==
    <<With("pkey"), Try, Get("keyBuffer")>> \o Else(<<Try>>, <<Free("keyBuffer")>>) \o <<Move("keyBuffer", out)>>
EcKeyToPublicKey(out) ==
    <<Maybe("x"), Maybe("y")>>
    \o Do(<<Need("x"), Need("y"), With("x"), Try, Get("keyBuffer")>> \o Else(<<Try>>, <<Free("keyBuffer")>>)
          \o <<Move("keyBuffer", out)>>, <<Free("x"), Free("y")>>)
X509PublicKeyToEcc(out) == <<With("pkey"), Call(EcKeyToPublicKey(out))>>
\* hks_openssl_engine.c
GetBnBinpadFromPkey(data) ==
    <<Try, Get("bn")>>
    \o Do(<<With("bn"), Try, Try, Get(data)>> \o Else(<<Try>>, <<Free(data)>>), <<Free("bn")>>)
EvpPkeyToHksPubKeyInfo(out) ==
    <<Null("pubX"), Null("pubY"), Ignore(GetBnBinpadFromPkey("pubX")), Ignore(GetBnBinpadFromPkey("pubY"))>>
    \o Do(<<Need("pubX"), Need("pubY"), Get("rawInfo")>> \o Else(<<Try>>, <<Free("rawInfo")>>)
          \o <<Move("rawInfo", out)>>, <<Free("pubX"), Free("pubY")>>)
X509PublicKeyToSm2(out) == <<With("pkey"), Try, Call(EvpPkeyToHksPubKeyInfo(out))>>
GetDsaKeyInfo == <<Try, Try>>
X509PublicKeyToDsa(out) ==
    <<With("pkey"), Call(GetDsaKeyInfo), Call(GetDsaKeyInfo), Call(GetDsaKeyInfo), Call(GetDsaKeyInfo), Get("keyBuffer")>>
    \o Else(<<Try, Try>>, <<Free("keyBuffer")>>) \o <<Move("keyBuffer", out)>>
X509PublicKeyToDh(out) == <<With("pkey"), Try, Try, Get("keyBuffer"), Move("keyBuffer", out)>>
TranslateFromX509PublicKey(out) ==
    <<Try, Get("pkey")>>
    \o Do(<<OneOf(<<<<Call(X509PublicKeyToRsa(out))>>, <<Call(X509PublicKeyToEcc(out))>>, <<Call(X509PublicKeyToSm2(out))>>,
                    <<Call(X509PublicKeyToDsa(out))>>, <<Call(X509PublicKeyToDh(out))>>, <<Fail>>>>)>>, <<Free("pkey")>>)

CopyToInnerKey(out) == <<Try, Get(out)>>
TranslateToInnerCurve25519Format(out) == <<Try, Get(out)>>
GetHksPubKeyInnerFormat(out) ==
    <<Try, Try, OneOf(<<<<Call(CopyToInnerKey(out))>>, <<Call(TranslateToInnerCurve25519Format(out))>>,
                        <<Call(TranslateFromX509PublicKey(out))>>, <<Fail>>>>)>>

----------------------------------------------------------------------------
(* The calls of a client, hks_api_adapter.c                                *)

HksImportKeyAdapter ==
    <<Either(<<Call(CopyToInnerKey("innerKey"))>>, <<Call(GetHksPubKeyInnerFormat("innerKey"))>>), Fill("innerKey")>>
    \o Do(<<Call(HksClientImportKey)>>, WipeFree("innerKey"))
HksAgreeKeyAdapter ==
    <<Call(GetHksPubKeyInnerFormat("publicKey"))>> \o Do(<<Call(HksClientAgreeKey)>>, WipeFree("publicKey"))
\* Without an X.509 key the copy fails, whatever the translation returned.
HksExportPublicKeyAdapter ==
    <<Get("buffer"), Null("x509Key")>>
    \o Do(<<Call(HksClientExportPublicKey), Call(TranslateToX509PublicKey)>>
          \o Do(<<Need("x509Key"), Try>>, <<Free("x509Key")>>), <<Free("buffer")>>)
=============================================================================
