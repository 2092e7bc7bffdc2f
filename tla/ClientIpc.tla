------------------------------ MODULE ClientIpc -----------------------------
(***************************************************************************)
(* The client's side of the IPC as programs of Ownership: a request is     *)
(* packed into a buffer, sent, and its reply is unpacked into what the     *)
(* caller provides; the buffers go in every case.                          *)
(***************************************************************************)
EXTENDS OwnershipSteps

----------------------------------------------------------------------------
(* Requests, hks_request.cpp                                               *)

GetHksProxy == <<Try>>
HksReadRequestReply == <<Try, May(<<Try>>)>>
\* The reply comes later, to a callback, and is waited for.
HksSendAnonAttestRequestAndWaitAsyncReply ==
    <<Try, Call(HksReadRequestReply), Null("packedCerts")>>
    \o Do(<<Get("packedCerts"), With("packedCerts")>>, <<Free("packedCerts")>>)
HksSendRequest(in) ==
    <<Try, With(in), Call(GetHksProxy),
      Either(<<Try, Call(HksReadRequestReply)>>,
             <<Get("hksCallback")>>
             \o Do(<<With("hksCallback"), Call(HksSendAnonAttestRequestAndWaitAsyncReply)>>, <<Free("hksCallback")>>))>>

----------------------------------------------------------------------------
(* Serialisation, hks_client_ipc_serialization.c                           *)

CopyUint32ToBuffer(dest) == <<With(dest)>>
CopyBlobToBuffer(dest) == <<With(dest)>>
CopyParamSetToBuffer(dest) == <<With(dest)>>
GetUint32FromBuffer(src) == <<With(src)>>
GetBlobFromBuffer(src) == <<With(src)>>
GetParamSetFromBuffer(src) == <<With(src)>>

HksGenerateKeyPack(d) == CopyBlobToBuffer(d) \o CopyParamSetToBuffer(d) \o CopyUint32ToBuffer(d)
\* The key in the clear goes into the request.
HksImportKeyPack(d) == CopyBlobToBuffer(d) \o CopyParamSetToBuffer(d) \o CopyBlobToBuffer(d) \o <<Fill(d)>>
HksImportWrappedKeyPack(d) == CopyBlobToBuffer(d) \o CopyBlobToBuffer(d) \o CopyParamSetToBuffer(d) \o CopyBlobToBuffer(d)
HksDeleteKeyPack(d) == CopyBlobToBuffer(d) \o CopyParamSetToBuffer(d)
HksExportPublicKeyPack(d) == CopyBlobToBuffer(d) \o CopyUint32ToBuffer(d) \o CopyParamSetToBuffer(d)
HksGetKeyParamSetPack(d) == CopyBlobToBuffer(d) \o CopyUint32ToBuffer(d) \o CopyParamSetToBuffer(d)
HksKeyExistPack(d) == CopyBlobToBuffer(d) \o CopyParamSetToBuffer(d)
HksOnceParamPack(d) == CopyBlobToBuffer(d) \o CopyParamSetToBuffer(d)
HksOnceDataPack(d) == CopyBlobToBuffer(d) \o <<Either(CopyBlobToBuffer(d), CopyUint32ToBuffer(d))>>
HksAgreeKeyPack(d) == CopyParamSetToBuffer(d) \o CopyBlobToBuffer(d) \o CopyBlobToBuffer(d) \o CopyUint32ToBuffer(d)
HksDeriveKeyPack(d) == CopyParamSetToBuffer(d) \o CopyBlobToBuffer(d) \o CopyUint32ToBuffer(d)
HksGetKeyInfoListPack(d) ==
    CopyUint32ToBuffer(d) \o CopyUint32ToBuffer(d) \o CopyUint32ToBuffer(d) \o CopyParamSetToBuffer(d)
HksCertificateChainPack(d) == CopyBlobToBuffer(d) \o CopyParamSetToBuffer(d) \o CopyUint32ToBuffer(d)
HksListAliasesPack(d) == CopyParamSetToBuffer(d)

\* One key of the list; a copy that does not fit ends it without an error.
HksGetKeyInfoListUnpackFromService(s) ==
    GetUint32FromBuffer(s)
    \o <<Try, May(GetBlobFromBuffer(s) \o <<May(<<Return>>)>> \o GetParamSetFromBuffer(s) \o <<May(<<Return>>), Try>>)>>
CheckAndCalculateSize == <<Try>>
Base64Encode(d) == <<With(d)>>
EncodeCertChain ==
    <<Call(CheckAndCalculateSize), Get("tmpBlob")>>
    \o Do(<<With("tmpBlob"), Call(Base64Encode("tmpBlob")), With("tmpBlob")>>, <<Free("tmpBlob")>>)
HksCertificateChainUnpackFromService(s) ==
    <<With(s), May(GetBlobFromBuffer(s) \o <<Try, May(<<Call(EncodeCertChain)>>)>>)>>
HksParamsToParamSet == <<Get("sendParamSet")>> \o Else(<<With("sendParamSet"), With("sendParamSet")>>, <<Free("sendParamSet")>>)

\* A list of one alias or none; hks_param.c.
HksFreeKeyAliasSet == <<IfSet("aliases", <<Free("alias")>>, <<>>), Free("aliases"), Free("aliasSet")>>
HksListAliasesUnpackFromService(s) ==
    <<May(GetUint32FromBuffer(s)
          \o <<Try, Get("aliasSet"), Null("aliases"), Null("alias")>>
          \o Else(<<Get("aliases"), May(GetBlobFromBuffer(s) \o <<Get("alias"), With("alias")>>)>>, HksFreeKeyAliasSet))>>

----------------------------------------------------------------------------
(* Data in one piece, hks_ipc_slice.c                                      *)

GetBlobBufSize == <<Try>>
GetParamSize == <<Try>>
GetDataSize == <<Call(GetBlobBufSize), May(<<Call(GetBlobBufSize)>>), Try>>
ProcessDataOnce ==
    <<Call(GetParamSize), Call(GetDataSize), Get("ipcBlob")>>
    \o Do(<<Call(HksOnceParamPack("ipcBlob")), Call(HksOnceDataPack("ipcBlob")), Call(HksSendRequest("ipcBlob"))>>,
          <<Free("ipcBlob")>>)
HksSliceDataEntry == <<Try, Call(GetParamSize), Call(GetDataSize), Try, Call(ProcessDataOnce)>>

----------------------------------------------------------------------------
(* The client's functions, hks_client_service_ipc.c                        *)

BuildParamSetNotNull ==
    <<Null("newParamSet"), May(<<Try>>)>>
    \o Else(<<Get("newParamSet"), May(<<With("newParamSet")>>), With("newParamSet")>>, <<Free("newParamSet")>>)

\* The arguments are checked, packed into a request and sent.
Request(pack, after) ==
    <<Try, Get("inBlob")>>
    \o Do(<<Call(pack), Call(HksSendRequest("inBlob"))>> \o after, <<Free("inBlob")>>)
\* The same with a copy of the parameter set, an empty one if there is none.
RequestWithSet(pack, after) ==
    <<Null("inBlob")>>
    \o Do(<<Call(BuildParamSetNotNull), With("newParamSet"), Get("inBlob"), Use("newParamSet"), Call(pack),
            Call(HksSendRequest("inBlob"))>> \o after,
          <<Free("newParamSet"), Free("inBlob")>>)

HksClientGenerateKey == Request(HksGenerateKeyPack("inBlob"), <<May(<<Try>>)>>)
HksClientImportKey == Request(HksImportKeyPack("inBlob"), <<>>)
HksClientImportWrappedKey == Request(HksImportWrappedKeyPack("inBlob"), <<>>)
HksClientExportPublicKey == RequestWithSet(HksExportPublicKeyPack("inBlob"), <<>>)
HksClientDeleteKey == RequestWithSet(HksDeleteKeyPack("inBlob"), <<>>)
HksClientGetKeyParamSet == RequestWithSet(HksGetKeyParamSetPack("inBlob"), <<Try>>)
HksClientKeyExist == RequestWithSet(HksKeyExistPack("inBlob"), <<>>)
HksClientAgreeKey == Request(HksAgreeKeyPack("inBlob"), <<>>)
HksClientDeriveKey == Request(HksDeriveKeyPack("inBlob"), <<>>)

HksClientSign == <<Try, Call(HksSliceDataEntry)>>
HksClientVerify == <<Try, Call(HksSliceDataEntry)>>
HksClientMac == <<Try, Call(HksSliceDataEntry)>>
AppendToNewParamSet == <<Get("newParamSet")>> \o Else(<<With("newParamSet")>>, <<Free("newParamSet")>>)
AddAeTag == <<May(<<Try, With("newParamSet")>>), With("newParamSet")>>
AddAesTag == <<Try, May(<<Call(AddAeTag)>>)>>
AppendCipherTag == <<Call(AppendToNewParamSet)>> \o Else(<<Call(AddAesTag), With("newParamSet")>>, <<Free("newParamSet")>>)
HksClientEncrypt == <<Try, Call(AppendCipherTag)>> \o Do(<<Use("newParamSet"), Call(HksSliceDataEntry)>>, <<Free("newParamSet")>>)
HksClientDecrypt == HksClientEncrypt

HksClientGetKeyInfoList ==
    <<Null("inBlob"), Null("outBlob")>>
    \o Do(<<Call(BuildParamSetNotNull), With("newParamSet"), Get("inBlob"), Get("outBlob"), Use("newParamSet"),
            Call(HksGetKeyInfoListPack("inBlob")), Call(HksSendRequest("inBlob")),
            Call(HksGetKeyInfoListUnpackFromService("outBlob"))>>,
          <<Free("newParamSet"), Free("inBlob"), Free("outBlob")>>)
CertificateChainInitBlob == <<Try, Get("inBlob")>> \o Else(<<Get("outBlob")>>, <<Free("inBlob")>>)
HksClientAttestKey ==
    <<Null("inBlob"), Null("outBlob")>>
    \o Do(<<Call(CertificateChainInitBlob), Call(HksCertificateChainPack("inBlob")), Call(HksSendRequest("inBlob")),
            Call(HksCertificateChainUnpackFromService("outBlob"))>>, <<Free("inBlob"), Free("outBlob")>>)
ListAliasesInitBlob == <<Get("inBlob")>> \o Else(<<Get("outBlob")>>, <<Free("inBlob")>>)
HksClientListAliases ==
    <<Null("inBlob"), Null("outBlob")>>
    \o Do(<<Try, Call(ListAliasesInitBlob), Call(HksListAliasesPack("inBlob")), Call(HksSendRequest("inBlob")),
            Call(HksListAliasesUnpackFromService("outBlob"))>>, <<Free("inBlob"), Free("outBlob")>>)

\* The stages of a session send a parameter set of parameters.
SendsParams(send) == <<Call(HksParamsToParamSet)>> \o Do(send, <<Free("sendParamSet")>>)
CopyData == <<Try>>
ClientInit ==
    <<Get("tmpOut")>>
    \o Do(<<Call(HksSendRequest("sendParamSet")), Try, Call(CopyData), May(<<May(<<Leave>>), Try, Call(CopyData)>>)>>,
          <<Free("tmpOut")>>)
HksClientInit == SendsParams(<<Call(ClientInit)>>)
HksClientUpdate == SendsParams(<<Call(HksSendRequest("sendParamSet"))>>)
HksClientFinish == SendsParams(<<Call(HksSendRequest("sendParamSet"))>>)
HksClientAbort == SendsParams(<<Call(HksSendRequest("sendParamSet"))>>)
HksClientExportChipsetPlatformPublicKey == SendsParams(<<Call(HksSendRequest("sendParamSet"))>>)
=============================================================================
