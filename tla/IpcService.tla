----------------------------- MODULE IpcService -----------------------------
(***************************************************************************)
(* The handlers of the IPC requests as programs of Ownership: a request is *)
(* unpacked, the caller is looked up and checked, the service is called    *)
(* and the answer is sent; then everything the handler allocated is freed. *)
(* What is unpacked points into the request, save the buffers for the      *)
(* answer, which the handler allocates.  The call of the service is a step *)
(* that may fail; ServiceKeys has its programs.  The caller waits for one  *)
(* reply: it is an object that is given up when it is sent, so that a      *)
(* handler that does not answer loses it and one that answers twice        *)
(* misuses it.                                                             *)
(***************************************************************************)
EXTENDS OwnershipSteps

----------------------------------------------------------------------------
(* Serialisation, hks_service_ipc_serialization.c                          *)

GetUint32FromBuffer == <<Try>>
GetBlobFromBuffer == <<Try>>
GetParamSetFromBuffer == <<Try>>
GetKeyAndParamSetFromBuffer == GetBlobFromBuffer \o GetParamSetFromBuffer
MallocBlobFromBuffer(x) == GetUint32FromBuffer \o <<Get(x)>>
MallocParamSetFromBuffer(x) == GetUint32FromBuffer \o <<Get(x)>>
CopyUint32ToBuffer(dest) == <<With(dest)>>
CopyBlobToBuffer(x, dest) == <<Need(x), With(dest)>>
CopyParamSetToBuffer(x, dest) == <<Need(x), With(dest)>>

HksGenerateKeyUnpack == GetKeyAndParamSetFromBuffer \o GetUint32FromBuffer \o <<Try, May(<<Get("keyOut")>>)>>
HksImportKeyUnpack == GetKeyAndParamSetFromBuffer \o GetBlobFromBuffer
HksImportWrappedKeyUnpack == GetBlobFromBuffer \o GetBlobFromBuffer \o GetParamSetFromBuffer \o GetBlobFromBuffer
HksDeleteKeyUnpack == GetBlobFromBuffer \o <<May(GetParamSetFromBuffer)>>
HksKeyExistUnpack == GetBlobFromBuffer \o <<May(GetParamSetFromBuffer)>>
\* That the buffer was not allocated is not an error here.
HksExportPublicKeyUnpack == GetBlobFromBuffer \o <<Ignore(MallocBlobFromBuffer("key")), May(GetParamSetFromBuffer)>>
HksGetKeyParamSetUnpack ==
    GetBlobFromBuffer \o <<Ignore(MallocParamSetFromBuffer("paramSetOut")), May(GetParamSetFromBuffer)>>
SignVerifyMacUnpack == GetKeyAndParamSetFromBuffer \o GetBlobFromBuffer
HksSignUnpack == SignVerifyMacUnpack \o MallocBlobFromBuffer("signature")
HksVerifyUnpack == SignVerifyMacUnpack \o GetBlobFromBuffer
HksHmacUnpack == SignVerifyMacUnpack \o MallocBlobFromBuffer("mac")
HksEncryptDecryptUnpack(out) == GetKeyAndParamSetFromBuffer \o GetBlobFromBuffer \o MallocBlobFromBuffer(out)
HksAgreeKeyUnpack == GetParamSetFromBuffer \o GetBlobFromBuffer \o GetBlobFromBuffer \o MallocBlobFromBuffer("agreedKey")
HksDeriveKeyUnpack == GetParamSetFromBuffer \o GetBlobFromBuffer \o MallocBlobFromBuffer("derivedKey")
HksCertificateChainUnpack == GetKeyAndParamSetFromBuffer \o MallocBlobFromBuffer("certChain")
HksListAliasesUnpack == GetParamSetFromBuffer

\* A list of two keys.  When one of its buffers is not allocated the list is
\* freed, and the request goes on without it.
KeyInfoListInit ==
    Else(MallocBlobFromBuffer("alias1") \o MallocParamSetFromBuffer("set1"), <<Free("alias1"), Free("set1")>>)
    \o Else(MallocBlobFromBuffer("alias2") \o MallocParamSetFromBuffer("set2"),
            <<Free("alias1"), Free("set1"), Free("alias2"), Free("set2")>>)
HksGetKeyInfoListUnpack ==
    GetUint32FromBuffer
    \o <<Try, Get("keyInfoList"), Use("keyInfoList"),
         Ignore(Else(<<Call(KeyInfoListInit)>>, <<Free("keyInfoList")>>)), May(GetParamSetFromBuffer)>>
HksGetKeyInfoListPackFromService ==
    CopyUint32ToBuffer("listBlob") \o CopyBlobToBuffer("alias1", "listBlob") \o CopyParamSetToBuffer("set1", "listBlob")
    \o <<May(CopyBlobToBuffer("alias2", "listBlob") \o CopyParamSetToBuffer("set2", "listBlob"))>>
HksCopyBlobsAndCntToBlob == CopyUint32ToBuffer("outBlob") \o CopyBlobToBuffer("aliasSet", "outBlob")
HksListAliasesPackFromService == <<May(<<Use("aliasSet"), Get("outBlob"), Call(HksCopyBlobsAndCntToBlob)>>)>>

\* The parameters of a request that is a parameter set itself.
GetNormalParam == <<Use("paramSet"), Try>>
GetNullBlobParam == <<Use("paramSet"), Try>>
HksParamSetToParams == <<Either(GetNormalParam, GetNullBlobParam), Either(GetNormalParam, GetNullBlobParam)>>

----------------------------------------------------------------------------
(* Who calls, hks_response.cpp and hks_permission_check.cpp                *)

HksGetProcessInfoForIPC == <<Get("processName")>> \o Else(<<Get("userId")>>, <<Free("processName")>>)
FreeProcessInfo == <<Free("processName"), Free("userId")>>
HksGetFrontUserId == <<Try>>
SensitivePermissionCheck == <<Try>>
CheckTokenType == <<Try>>
SystemApiPermissionCheck == <<Call(CheckTokenType), Try>>
HksCheckAcrossAccountsPermission == <<May(<<Call(SystemApiPermissionCheck), Call(SensitivePermissionCheck)>>)>>

----------------------------------------------------------------------------
(* The handlers, hks_ipc_service.c                                         *)

HksSendResponse == <<Release("reply")>>
SendIfFailed == <<OnFail(HksSendResponse)>>

\* The request is unpacked, the caller is checked and the service is called.
Checked(unpack) == <<Call(unpack), Call(HksGetProcessInfoForIPC), Call(HksCheckAcrossAccountsPermission)>>
\* The answer is a result code.
Handler(unpack, service) == Do(Checked(unpack) \o service, HksSendResponse \o FreeProcessInfo)
\* The answer is what the service put into out, or a result code.
AnswerHandler(unpack, service, out) ==
    Do(Checked(unpack) \o service \o <<Use(out)>> \o HksSendResponse, SendIfFailed \o <<Free(out)>> \o FreeProcessInfo)
Fills(out) == <<Need(out), With(out)>>

\* Without a buffer of the caller the handler allocates one.
HksIpcServiceGenerateKey ==
    Do(<<Call(HksGenerateKeyUnpack), IfSet("keyOut", <<>>, <<Get("keyOut")>>), Call(HksGetProcessInfoForIPC),
         Call(HksCheckAcrossAccountsPermission),
         Either(<<With("keyOut")>>,
                <<Call(HksGetFrontUserId), Get("newParamSet")>>
                \o Do(<<Use("newParamSet"), With("keyOut")>>, <<Free("newParamSet")>>))>>,
       HksSendResponse \o <<Free("keyOut")>> \o FreeProcessInfo)
HksIpcServiceImportKey == Handler(HksImportKeyUnpack, <<Try>>)
HksIpcServiceImportWrappedKey == Handler(HksImportWrappedKeyUnpack, <<Try>>)
HksIpcServiceExportPublicKey == AnswerHandler(HksExportPublicKeyUnpack, Fills("key"), "key")
HksIpcServiceDeleteKey == Handler(HksDeleteKeyUnpack, <<Try>>)
HksIpcServiceKeyExist == Handler(HksKeyExistUnpack, <<Try>>)
\* The handler returns at once when the request cannot be unpacked.
HksIpcServiceGetKeyParamSet ==
    Else(<<Call(HksGetKeyParamSetUnpack)>>, HksSendResponse)
    \o AnswerHandler(<<>>, Fills("paramSetOut"), "paramSetOut")
HksIpcServiceGenerateRandom ==
    Do(<<Try, Try, Get("random"), Call(HksGetProcessInfoForIPC), With("random"), Use("random")>> \o HksSendResponse,
       SendIfFailed \o <<Free("random")>> \o FreeProcessInfo)
HksIpcServiceSign == AnswerHandler(HksSignUnpack, Fills("signature"), "signature")
HksIpcServiceVerify == Handler(HksVerifyUnpack, <<Try>>)
HksIpcServiceEncrypt == AnswerHandler(HksEncryptDecryptUnpack("cipherText"), Fills("cipherText"), "cipherText")
HksIpcServiceDecrypt == AnswerHandler(HksEncryptDecryptUnpack("plainText"), Fills("plainText"), "plainText")
HksIpcServiceMac == AnswerHandler(HksHmacUnpack, Fills("mac"), "mac")
\* The key that was agreed on or derived is freed as it is.
HksIpcServiceAgreeKey ==
    AnswerHandler(HksAgreeKeyUnpack, Fills("agreedKey") \o <<Fill("agreedKey")>>, "agreedKey")
HksIpcServiceDeriveKey ==
    AnswerHandler(HksDeriveKeyUnpack, Fills("derivedKey") \o <<Fill("derivedKey")>>, "derivedKey")

FreeKeyInfo ==
    <<IfSet("keyInfoList", Each(Free, <<"alias1", "set1", "alias2", "set2", "keyInfoList">>), <<>>)>>
HksIpcServiceGetKeyInfoList ==
    Do(Checked(HksGetKeyInfoListUnpack)
       \o <<Need("keyInfoList"), With("keyInfoList"), Use("set1"), Get("listBlob"),
            Call(HksGetKeyInfoListPackFromService)>> \o HksSendResponse,
       SendIfFailed \o FreeKeyInfo \o <<Free("listBlob")>> \o FreeProcessInfo)
HksAttestAccessControl == <<May(<<Call(SensitivePermissionCheck)>>)>>
HksIpcServiceAttestKey ==
    AnswerHandler(HksCertificateChainUnpack, <<Call(HksAttestAccessControl)>> \o Fills("certChain"), "certChain")
HksIpcServiceListAliases ==
    Do(Checked(HksListAliasesUnpack) \o <<Get("aliasSet"), Call(HksListAliasesPackFromService)>>,
       HksSendResponse \o <<Free("aliasSet")>> \o FreeProcessInfo \o <<Free("outBlob")>>)

\* The stages of a session: the parameters are themselves in a parameter set.
StageHandler(check, service) ==
    Do(<<Get("paramSet"), Call(HksParamSetToParams), Get("inParamSet"), Call(HksGetProcessInfoForIPC)>>
       \o check \o service \o HksSendResponse,
       SendIfFailed \o <<Free("paramSet"), Free("inParamSet")>> \o FreeProcessInfo)
IpcServiceInit == <<With("inParamSet"), Try, Try>>
HksIpcServiceInit == StageHandler(<<Call(HksCheckAcrossAccountsPermission)>>, <<Call(IpcServiceInit)>>)
HksIpcServiceUpdOrFin == StageHandler(<<>>, <<With("inParamSet")>>)
HksIpcServiceUpdate == HksIpcServiceUpdOrFin
HksIpcServiceFinish == HksIpcServiceUpdOrFin
HksIpcServiceAbort == StageHandler(<<>>, <<With("inParamSet")>>)
HksIpcServiceExportChipsetPlatformPublicKey ==
    Do(<<Get("paramSet"), Call(HksParamSetToParams), Try>> \o HksSendResponse, SendIfFailed \o <<Free("paramSet")>>)
=============================================================================
