---------------------------- MODULE ServiceKeys -----------------------------
(***************************************************************************)
(* The handlers of the key service as programs of Ownership: the parameter *)
(* sets they extend for the engine and the key blobs they read from the    *)
(* storage.  A call of the engine or of the storage is a step that may     *)
(* fail; what the storage does is in KeyStorage.  Stored keys are          *)
(* encrypted, so that their buffers hold no plain key material.            *)
(***************************************************************************)
EXTENDS OwnershipSteps

----------------------------------------------------------------------------
(* Parameter sets, hks_client_service.c                                    *)

AppendToNewParamSet(ps) == <<Try, Try>> \o Else(<<Get(ps), With(ps)>>, <<Free(ps)>>)
\* A copy of the caller's parameter set, or an empty one if there is none.
StartParamSet(ps) == <<Either(<<Call(AppendToNewParamSet(ps))>>, <<Get(ps)>>)>>
HksBuildParamSet(ps) == With(ps)

AddSpecificUserIdToParamSet(ps) == <<May(<<With(ps)>>)>>
GetStorageLevelForSkipUpgradeApp == <<May(<<Try>>)>>
AddStorageLevelToParamSet(ps) == <<May(<<Call(GetStorageLevelForSkipUpgradeApp), With(ps)>>)>>
AppendStorageLevelAndSpecificUserIdToParamSet(ps) ==
    <<Call(AddSpecificUserIdToParamSet(ps)), Call(AddStorageLevelToParamSet(ps))>>
AppendStorageLevelIfNotExistInner(ps) ==
    <<Null(ps)>>
    \o Else(StartParamSet(ps) \o <<Call(AppendStorageLevelAndSpecificUserIdToParamSet(ps)), HksBuildParamSet(ps)>>,
            <<Free(ps)>>)

\* Who calls, hks_bms_api_wrap.cpp: a name, or a JSON text with more about it.
HksGetHapPkgName == <<Try, Get("appInfo")>>
HksGetSaProcessName == <<Try, Get("appInfo")>>
GetCallerName == <<OneOf(<<<<Call(HksGetHapPkgName)>>, <<Call(HksGetSaProcessName)>>, <<Fail>>>>)>>
ConvertCallerInfoToJson == <<Get("jsonObj")>> \o Do(<<With("jsonObj"), Get("appInfo")>>, <<Release("jsonObj")>>)
HksGetHapInfo == <<Try, Try, Call(ConvertCallerInfoToJson)>>
HksGetSaInfo == <<Try, Try, Call(ConvertCallerInfoToJson)>>

AppendOwnerInfoForAcrossDevicesIfNeed(ps) == <<May(<<Call(GetCallerName), With(ps)>>)>>
AppendProcessInfoAndDefaultStrategy(ps) ==
    <<Null(ps), Null("appInfo")>>
    \o Else(StartParamSet(ps)
            \o <<Try, With(ps), Call(AppendOwnerInfoForAcrossDevicesIfNeed(ps)),
                 Call(AppendStorageLevelAndSpecificUserIdToParamSet(ps)), HksBuildParamSet(ps)>>,
            <<Free("appInfo"), Free(ps)>>)
    \o <<Free("appInfo")>>

AddAppInfoToParamSet(ps) ==
    <<Null(ps), Null("appInfo")>>
    \o Else(<<Use("processInfoParamSet"), Call(AppendToNewParamSet(ps)),
              OneOf(<<<<Call(HksGetHapInfo)>>, <<Call(HksGetSaInfo)>>, <<Fail>>>>), With(ps), HksBuildParamSet(ps)>>,
            <<Free("appInfo"), Free(ps)>>)
    \o <<Free("appInfo")>>

\* The set is lost when the user cannot be added to it.
BuildFrontUserIdParamSet(ps) ==
    <<Null(ps)>> \o Else(StartParamSet(ps), <<Free(ps)>>) \o <<With(ps)>> \o Else(<<HksBuildParamSet(ps)>>, <<Free(ps)>>)

----------------------------------------------------------------------------
(* The user's enrolled authentication, hks_useridm_api_wrap.cpp            *)

\* The list is released together with its owner, whatever the conversion says.
OnSecUserInfo ==
    <<Null("secInfo"), Null("enrolledInfo")>>
    \o Else(<<Try, Get("secInfo"), Get("enrolledInfo"), With("enrolledInfo")>>,
            <<IfSet("secInfo", <<Free("enrolledInfo"), Free("secInfo")>>, <<>>)>>)
HksUserIdmGetSecInfo == <<Get("condition"), Ignore(OnSecUserInfo), Free("condition"), Need("secInfo")>>
HksUserIdmGetAuthInfoNum == <<Get("condition")>> \o Do(<<Try, Try>>, <<Free("condition")>>)
CheckIfEnrollAuthInfo == <<Call(HksUserIdmGetAuthInfoNum), Try>>
CheckIfUserIamSupportCurType == <<May(<<Call(CheckIfEnrollAuthInfo)>>), May(<<Call(CheckIfEnrollAuthInfo)>>)>>

AppendSecUid(ps) == <<Use("secInfo"), With(ps)>>
ConstructEnrolledInfoBlob == <<Use("secInfo"), Use("enrolledInfo"), With("enrolledBlob")>>
AddEnrolledInfoInParamSet(ps) ==
    Do(<<Get("enrolledBlob"), Call(ConstructEnrolledInfoBlob), With(ps), HksBuildParamSet(ps)>>, <<Free("enrolledBlob")>>)
BuildUserAuthParamSet(ps) == <<Null(ps)>> \o Else(StartParamSet(ps) \o <<HksBuildParamSet(ps)>>, <<Free(ps)>>)
AppendUserAuthInfo(ps) ==
    LET end == WipeFree("enrolledBlob")
               \o <<IfSet("secInfo", WipeFree("enrolledInfo") \o WipeFree("secInfo"), <<>>)>>
    IN  <<Null("secInfo"), Null(ps), Null("enrolledBlob")>>
        \o Else(<<Call(HksUserIdmGetSecInfo)>> \o StartParamSet(ps)
                \o <<Call(AppendSecUid(ps)), Call(AddEnrolledInfoInParamSet(ps))>>, end \o <<Free(ps)>>)
        \o end
AppendNewInfoForGenKeyInService(ps) ==
    <<OneOf(<<<<Call(AppendProcessInfoAndDefaultStrategy(ps))>>,
              <<Try, Either(<<Call(BuildUserAuthParamSet("userAuthParamSet"))>>,
                            <<Call(CheckIfUserIamSupportCurType), Call(AppendUserAuthInfo("userAuthParamSet"))>>)>>
              \o Do(<<Call(AppendProcessInfoAndDefaultStrategy(ps))>>, <<Free("userAuthParamSet")>>),
              <<Fail>>>>)>>

----------------------------------------------------------------------------
(* Keys from the storage                                                   *)

GetKeyFileData(key) == <<Try, Try, Get(key)>> \o Else(<<With(key)>>, <<Free(key)>>)
AddMandatoryParamsInService == <<With("upgradeSet")>>
HksDoUpgradeKeyAccess(old, new) ==
    <<Null("upgradeSet")>>
    \o Do(<<Get("upgradeSet"), Call(AddMandatoryParamsInService), HksBuildParamSet("upgradeSet"), With(old), Use(new)>>,
          <<Free("upgradeSet")>>)
\* The key is replaced by the new version of it.
CheckAndUpgradeKeyIfNeed(key) ==
    <<Use(key), Try,
      May(<<Null("newKey")>>
          \o Else(<<Try, Get("newKey"), Call(HksDoUpgradeKeyAccess(key, "newKey")), With("newKey")>>,
                  <<Free(key), Free("newKey")>>)
          \o <<Free(key), Move("newKey", key)>>)>>
\* Keys of the time before the service, hks_upgrade_helper.c
HksIsKeyExpectedVersion(key) == <<With(key)>>
HksConstructRootProcessInfo == <<Try, Try>>
HksDeleteOldKeyForSmallToService ==
    <<Call(HksConstructRootProcessInfo), Try, Try, Null("oldKey")>>
    \o Do(<<Get("oldKey"), With("oldKey"), Call(HksIsKeyExpectedVersion("oldKey")), Try>>, <<Free("oldKey")>>)
ConstructUpgradeKeyParamSet == Else(<<Get("upgradeParamSet"), With("upgradeParamSet"), HksBuildParamSet("upgradeParamSet")>>,
                                    <<Free("upgradeParamSet")>>)
HksChangeKeyOwner ==
    <<Call(HksConstructRootProcessInfo), Null("ownedKey"), Null("newKey"), Null("upgradeParamSet")>>
    \o Do(<<Call(GetKeyFileData("ownedKey")), Call(ConstructUpgradeKeyParamSet), Call(HksIsKeyExpectedVersion("ownedKey")),
            Get("newKey"), Use("upgradeParamSet"), Call(HksDoUpgradeKeyAccess("ownedKey", "newKey")), With("newKey"),
            Ignore(HksDeleteOldKeyForSmallToService)>>,
          <<Free("upgradeParamSet"), Free("ownedKey"), Free("newKey")>>)
GetKeyData(key) == <<May(<<Call(HksChangeKeyOwner)>>), Call(GetKeyFileData(key)), Call(CheckAndUpgradeKeyIfNeed(key))>>
GetKeyAndNewParamSet(ps) == <<Call(AppendProcessInfoAndDefaultStrategy(ps)), Call(GetKeyData("keyFromFile"))>>
GetKeyAndNewParamSetInForGenKeyInService ==
    <<Call(AppendNewInfoForGenKeyInService("newParamSet"))>>
    \o Else(<<Call(GetKeyData("keyFromFile"))>>, <<Free("newParamSet")>>)
GetKeyParamSet(key) == <<Use(key), Get("shownSet")>> \o Do(<<Try, Try>>, <<Free("shownSet")>>)

----------------------------------------------------------------------------
(* A key agreed on when it is generated                                    *)

GetAgreeStoreKey(key) == <<Try, Try, Call(GetKeyData(key))>>
TranslateToInnerCurve25519Format(key) == <<Try, Get(key)>>
GetAgreePublicKey ==
    <<Either(<<Try, Call(TranslateToInnerCurve25519Format("publicKey"))>>, <<Call(GetAgreeStoreKey("publicKey"))>>)>>
GetAgreePrivateKey == <<Call(GetAgreeStoreKey("privateKey"))>>
ConbineIntoKeyPair == <<Get("keyIn"), Use("privateKey"), Use("publicKey")>>
GetAgreeKeyPair ==
    <<Null("privateKey"), Null("publicKey")>>
    \o Do(<<Call(GetAgreePublicKey), Call(GetAgreePrivateKey), Call(ConbineIntoKeyPair)>>,
          <<Free("privateKey"), Free("publicKey")>>)
GetAgreeBaseKey == <<Try, May(<<Try, Try, Call(GetAgreeKeyPair)>>)>>
GetDeriveMainKey == <<OneOf(<<<<>>, <<Call(GetAgreeBaseKey)>>, <<Fail>>>>)>>
GetKeyIn == <<Call(GetDeriveMainKey), IfSet("keyIn", <<>>, <<Get("keyIn")>>)>>

----------------------------------------------------------------------------
(* The handlers                                                            *)

HksServiceDeleteKey ==
    <<Try, Call(AppendStorageLevelIfNotExistInner("levelSet"))>>
    \o Do(<<With("levelSet")>>, <<Free("levelSet"), May(<<Ignore(HksDeleteOldKeyForSmallToService)>>)>>)
CheckKeyCondition == <<Ignore(HksServiceDeleteKey), Try, Try, Try>>
HksServiceKeyExist ==
    <<Try, Call(AppendStorageLevelIfNotExistInner("levelSet"))>>
    \o Do(<<With("levelSet")>>, <<Free("levelSet"), May(<<Ignore(HksChangeKeyOwner)>>)>>)

HksServiceGenerateKey ==
    <<Null("newParamSet"), Get("keyOutBuffer"), Null("keyIn")>>
    \o Do(<<Try, Call(AppendNewInfoForGenKeyInService("newParamSet")), Call(CheckKeyCondition), Call(GetKeyIn),
            Use("keyIn"), With("keyOutBuffer"), With("keyOutBuffer")>>,
          <<Free("keyOutBuffer")>> \o WipeFree("keyIn") \o <<Free("newParamSet")>>)
HksServiceImportKey ==
    <<Null("newParamSet")>>
    \o Do(<<Try, Call(AppendNewInfoForGenKeyInService("newParamSet")), Call(CheckKeyCondition), Get("keyOutBuffer")>>
          \o Do(<<With("newParamSet"), With("keyOutBuffer")>>, <<Free("keyOutBuffer")>>),
          <<Free("newParamSet")>>)
HksServiceImportWrappedKey ==
    <<Null("newParamSet"), Null("keyFromFile")>>
    \o Do(<<Try, Call(HksServiceKeyExist), Call(GetKeyAndNewParamSetInForGenKeyInService), Call(CheckKeyCondition),
            Get("keyOutBuffer")>>
          \o Do(<<Use("newParamSet"), With("keyFromFile"), With("keyOutBuffer")>>, <<Free("keyOutBuffer")>>),
          <<Free("keyFromFile"), Free("newParamSet")>>)

\* The engine is asked with the key of the main file, and when that key is
\* missing or damaged once more with the key of the backup.
UseKey == <<Use("newParamSet"), With("keyFromFile")>>
OnStoredKey(after) ==
    <<Null("newParamSet"), Null("keyFromFile")>>
    \o Do(<<Try,
            Either(<<Call(GetKeyAndNewParamSet("newParamSet"))>> \o UseKey,
                   <<Call(AppendProcessInfoAndDefaultStrategy("newParamSet")),
                     May(<<Ignore(GetKeyData("keyFromFile"))>>), Free("keyFromFile"),
                     Call(GetKeyData("keyFromFile"))>> \o UseKey)>> \o after,
          <<Free("keyFromFile"), Free("newParamSet")>>)
HksServiceSign == OnStoredKey(<<>>)
HksServiceVerify == OnStoredKey(<<>>)
HksServiceEncrypt == OnStoredKey(<<>>)
HksServiceDecrypt == OnStoredKey(<<>>)
HksServiceExportPublicKey == OnStoredKey(<<>>)
HksServiceAgreeKey == OnStoredKey(<<>>)
HksServiceDeriveKey == OnStoredKey(<<>>)
HksServiceMac == OnStoredKey(<<>>)
HksServiceGetKeyParamSet == OnStoredKey(<<Call(GetKeyParamSet("keyFromFile"))>>)

DcmGenerateCertChainInAttestKey == <<May(<<Try>>)>>
HksServiceAttestKey ==
    LET attest == <<Call(AddAppInfoToParamSet("newParamSet")), Use("keyFromFile"), With("newParamSet")>> IN
    <<Null("newParamSet"), Null("keyFromFile"), Null("processInfoParamSet")>>
    \o Do(<<Try,
            Either(<<Call(GetKeyAndNewParamSet("processInfoParamSet"))>> \o attest,
                   <<Call(AppendProcessInfoAndDefaultStrategy("processInfoParamSet")),
                     May(<<Ignore(GetKeyData("keyFromFile")),
                           May(<<Ignore(AddAppInfoToParamSet("newParamSet"))>>)>>),
                     Free("keyFromFile"), Free("newParamSet"), Call(AddAppInfoToParamSet("newParamSet")),
                     Call(GetKeyData("keyFromFile")), Use("keyFromFile"), With("newParamSet")>>),
            Call(DcmGenerateCertChainInAttestKey)>>,
          <<Free("keyFromFile"), Free("newParamSet"), Free("processInfoParamSet")>>)

\* Two keys of the list.
ListedKey == <<Call(GetKeyFileData("keyFromFile"))>> \o Do(<<Call(GetKeyParamSet("keyFromFile"))>>, <<Free("keyFromFile")>>)
HksGetkeyInfoListByProcessName ==
    <<Try, May(<<Call(GetKeyFileData("keyFromFile")),
                 Either(<<Free("keyFromFile")>>, Do(<<Call(GetKeyParamSet("keyFromFile"))>>, <<Free("keyFromFile")>>))>>)>>
HksGetOldKeyInfoListForSmallToService == <<Call(HksConstructRootProcessInfo), Call(HksGetkeyInfoListByProcessName)>>
HksServiceGetKeyInfoList ==
    <<Null("newParamSet")>>
    \o Do(<<Try, Call(AppendStorageLevelIfNotExistInner("newParamSet")), With("newParamSet"),
            May(<<Call(ListedKey), May(<<Call(ListedKey)>>)>>)>>, <<Free("newParamSet")>>)
    \o <<May(<<Call(HksGetOldKeyInfoListForSmallToService)>>)>>
HksServiceListAliases ==
    <<Call(AppendStorageLevelIfNotExistInner("newParamSet"))>> \o Do(<<Try, With("newParamSet")>>, <<Free("newParamSet")>>)
HksServiceGenerateRandom ==
    <<Null("newParamSet")>>
    \o Do(<<Try, Call(AppendProcessInfoAndDefaultStrategy("newParamSet")), With("newParamSet")>>, <<Free("newParamSet")>>)

----------------------------------------------------------------------------
(* Stages of a session; what becomes of the session is in ThreeStage       *)

HksServiceInit == OnStoredKey(<<Try>>)
OnSession == <<Call(AppendProcessInfoAndDefaultStrategy("newParamSet")), Try, With("newParamSet")>>
HksServiceUpdate == <<Null("newParamSet")>> \o Do(<<Try, Try, Try>> \o OnSession, <<Free("newParamSet")>>)
HksServiceAbort == <<Null("newParamSet")>> \o Do(<<Try>> \o OnSession, <<Free("newParamSet")>>)
InitOutputDataForFinish == <<Get("output")>> \o Else(<<With("output")>>, <<Free("output")>>)
StoreOrCopyKeyBlob == <<Either(<<With("output")>>, <<Try, Try, Call(CheckKeyCondition), With("output")>>)>>
HksServiceFinish ==
    <<Null("newParamSet"), Null("output")>>
    \o Do(<<May(<<Call(InitOutputDataForFinish)>>), Try>> \o OnSession
          \o <<IfSet("output", <<Fill("output"), Call(StoreOrCopyKeyBlob)>>, <<>>)>>,
          WipeFree("output") \o <<Free("newParamSet")>>)

----------------------------------------------------------------------------
(* A failure is reported, hks_report_wrapper.c                             *)

AppendParamToExtra == <<With("extra")>>
AppendToExtra == <<With("extra"), With("extra"), Call(AppendParamToExtra), With("extra")>>
AppendIfExist == <<May(<<Ignore(AppendToExtra)>>)>>
PackExtra == <<Call(AppendIfExist), Call(AppendIfExist)>>
ReportFaultEvent == Do(<<Get("extra"), May(<<Call(PackExtra)>>), With("extra")>>, <<Free("extra")>>)
=============================================================================
