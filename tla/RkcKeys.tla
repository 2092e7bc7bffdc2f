------------------------------ MODULE RkcKeys -------------------------------
(***************************************************************************)
(* The root key component as programs of Ownership: the buffers through    *)
(* which the root material and the main key pass between the key storage   *)
(* files and the masked copy in memory, and the file names that the global *)
(* configuration owns.  What becomes of the files is in RootKey.           *)
(***************************************************************************)
EXTENDS OwnershipSteps

Times(n, step) == [i \in 1 .. n |-> step]

----------------------------------------------------------------------------
(* Key storage files, hks_rkc_rw.c                                         *)

HksRkcBuildParamSet == Else(<<Get("storeParam"), With("storeParam"), With("storeParam")>>, <<Free("storeParam")>>)
GetProcessInfo == <<Try, Try>>

GetKeyBlobKsf ==
    <<Get("tmpKsf"), Null("storeParam")>>
    \o Else(<<Call(GetProcessInfo), Call(HksRkcBuildParamSet), With("tmpKsf")>>,
            WipeFree("tmpKsf") \o <<Free("storeParam")>>)
    \o <<Fill("tmpKsf"), Free("storeParam")>>

ExtractFieldFromBuffer == With("tmpKsf")
RkcExtractKsfFileFlag == <<ExtractFieldFromBuffer, Try>>
RkcExtractTime == Times(6, ExtractFieldFromBuffer)
ExtractKsfDataRkc == <<Call(RkcExtractTime), Call(RkcExtractTime)>> \o Times(6, ExtractFieldFromBuffer)
ExtractKsfDataMk == <<Call(RkcExtractTime), Call(RkcExtractTime)>> \o Times(4, ExtractFieldFromBuffer)
RkcExtractKsfHash == <<Try, With("tmpKsf"), ExtractFieldFromBuffer, Try>>
ExtractKsfBufRkc ==
    <<Call(RkcExtractKsfFileFlag), ExtractFieldFromBuffer, Call(ExtractKsfDataRkc), Call(RkcExtractKsfHash)>>
ExtractKsfBufMk ==
    <<Call(RkcExtractKsfFileFlag), ExtractFieldFromBuffer, Call(ExtractKsfDataMk), Call(RkcExtractKsfHash)>>
HksReadKsfRkc == <<Call(GetKeyBlobKsf)>> \o Do(<<Call(ExtractKsfBufRkc)>>, WipeFree("tmpKsf"))
HksReadKsfMk == <<Call(GetKeyBlobKsf)>> \o Do(<<Call(ExtractKsfBufMk)>>, WipeFree("tmpKsf"))

\* Root material is key material: with the udid it gives the key of the main key.
FillFieldToBuffer == With("ksfBuf")
RkcFillKsfTime == Times(6, FillFieldToBuffer)
FillKsfDataRkc ==
    <<Call(RkcFillKsfTime), Call(RkcFillKsfTime), FillFieldToBuffer, Fill("ksfBuf")>> \o Times(5, FillFieldToBuffer)
FillKsfDataMk == <<Call(RkcFillKsfTime), Call(RkcFillKsfTime)>> \o Times(4, FillFieldToBuffer)
FillKsfVerRkc == <<FillFieldToBuffer, Call(FillKsfDataRkc)>>
FillKsfVerMk == <<FillFieldToBuffer, Call(FillKsfDataMk)>>
RkcFillKsfHash == <<Try, With("ksfBuf"), FillFieldToBuffer>>
FillKsfBufRkc == <<FillFieldToBuffer, Call(FillKsfVerRkc), Call(RkcFillKsfHash)>>
FillKsfBufMk == <<FillFieldToBuffer, Call(FillKsfVerMk), Call(RkcFillKsfHash)>>
WriteKsf(fill) ==
    <<Get("ksfBuf"), Null("storeParam")>>
    \o Do(<<Call(fill), Call(GetProcessInfo), Call(HksRkcBuildParamSet), With("ksfBuf")>>,
          WipeFree("ksfBuf") \o <<Free("storeParam")>>)
HksWriteKsfRkc == WriteKsf(FillKsfBufRkc)
HksWriteKsfMk == WriteKsf(FillKsfBufMk)

\* Found or not, the parameter set goes.
KsfExist == <<Call(GetProcessInfo), Call(HksRkcBuildParamSet)>> \o Do(<<Try>>, <<Free("storeParam")>>)

\* A file that cannot be read is written again from the other one; how that
\* goes does not matter.
ReadBoth(read) == <<OneOf(<<<<Call(read), Ignore(read)>>, <<Ignore(read), Call(read)>>>>)>>
ReadAllKsfRkc == ReadBoth(HksReadKsfRkc) \o <<May(<<Ignore(HksWriteKsfRkc)>>), Fill("rkcWithVer")>>
ReadAllKsfMk == ReadBoth(HksReadKsfMk) \o <<May(<<Ignore(HksWriteKsfMk)>>), Use("mkWithVer")>>
RkcWriteAllKsf ==
    <<Call(HksWriteKsfRkc), Call(HksWriteKsfRkc),
      OneOf(<<<<Call(HksWriteKsfMk), Ignore(HksWriteKsfMk)>>, <<Ignore(HksWriteKsfMk), Call(HksWriteKsfMk)>>>>)>>

----------------------------------------------------------------------------
(* The main key, hks_rkc.c                                                 *)

RkcGetRmkRawKey == <<Try, Fill("rmkRaw")>>
RkcHkdfHmac == <<With("rmkRaw")>>
RkcDeriveRmk ==
    <<Get("rmkRaw")>> \o Do(<<Call(RkcGetRmkRawKey), Call(RkcHkdfHmac), Fill("rmk")>>, WipeFree("rmkRaw"))
ExecuteMkCrypt == <<With("rmk")>>
RkcMkCrypt == <<Get("rmk")>> \o Do(<<Call(RkcDeriveRmk), Call(ExecuteMkCrypt)>>, WipeFree("rmk"))
RkcMaskMk == <<Try>>
RkcMakeRandomMaterial == <<With("rkcWithVer"), Fill("rkcWithVer")>> \o Else(<<Try>>, <<Wipe("rkcWithVer")>>)
RkcMakeMk ==
    <<Get("mk")>>
    \o Do(<<With("mk"), Fill("mk"), Try, Call(RkcMkCrypt), Call(RkcMaskMk)>>, WipeFree("mk"))

\* HKS_KSF_NUM names, owned by the configuration.
FileNames(type) == IF type = "rkc" THEN <<"rkcName1", "rkcName2">> ELSE <<"mkName1", "mkName2">>
HksCfgClearMem == Each(Free, FileNames("rkc") \o FileNames("mk"))
CloneNewStr(name) == Get(name)
InitKsfAttr(type) == Else(Each(CloneNewStr, FileNames(type)), HksCfgClearMem)

FillKsfDataRkcWithVer ==
    <<Need("rkcWithVer")>> \o Else(<<Call(RkcMakeRandomMaterial), Try>>, <<Wipe("rkcWithVer")>>)
FreeBothData == WipeFree("rkcWithVer") \o WipeFree("mkWithVer")
BothData == <<Maybe("rkcWithVer"), Maybe("mkWithVer")>>

RkcLoadKsf ==
    BothData
    \o Do(<<Need("rkcWithVer"), Need("mkWithVer"), Call(ReadAllKsfMk), Call(InitKsfAttr("rkc")),
            Call(ReadAllKsfRkc), Call(RkcMkCrypt), Call(RkcMaskMk)>>, FreeBothData)

RkcCreateKsf ==
    BothData
    \o Do(<<Need("rkcWithVer"), Need("mkWithVer"), Call(FillKsfDataRkcWithVer), Call(RkcMakeMk),
            Call(InitKsfAttr("rkc")), Call(RkcWriteAllKsf)>>, FreeBothData)

----------------------------------------------------------------------------
(* The first version of the files, hks_rkc_v1.c                            *)

RkcExtractKsfBufV1 ==
    <<Call(RkcExtractKsfFileFlag), ExtractFieldFromBuffer, Call(ExtractKsfDataRkc),
      Call(ExtractKsfDataMk), Call(RkcExtractKsfHash)>>
HksRkcReadKsfV1 == <<Call(GetKeyBlobKsf)>> \o Do(<<Call(RkcExtractKsfBufV1)>>, WipeFree("tmpKsf"))
RkcReadAllKsfV1 == ReadBoth(HksRkcReadKsfV1) \o <<Fill("ksfData")>>
RkcGetRmkRawKeyV1 == <<Try, Fill("rmkRaw"), Try>>
RkcPbkdf2Hmac == <<With("rmkRaw")>>
RkcDeriveRmkV1 ==
    <<Get("rmkRaw")>> \o Do(<<Call(RkcGetRmkRawKeyV1), Call(RkcPbkdf2Hmac), Fill("rmk")>>, WipeFree("rmkRaw"))
RkcMkCryptV1 == <<Get("rmk")>> \o Do(<<Call(RkcDeriveRmkV1), Call(ExecuteMkCrypt)>>, WipeFree("rmk"))
RkcLoadKsfV1 ==
    <<Get("ksfData")>> \o Do(<<Call(RkcReadAllKsfV1), Call(RkcMkCryptV1)>>, WipeFree("ksfData"))
RkcDeleteAllKsfV1 ==
    <<Call(GetProcessInfo), Call(HksRkcBuildParamSet)>> \o Do(<<Try>>, <<Free("storeParam")>>)
UpgradeV1ToV2 ==
    <<Call(RkcLoadKsfV1)>> \o BothData
    \o Do(<<Need("rkcWithVer"), Need("mkWithVer"), Call(FillKsfDataRkcWithVer), Call(RkcMkCrypt),
            Call(InitKsfAttr("rkc")), Call(RkcWriteAllKsf), Ignore(RkcDeleteAllKsfV1), Call(RkcMaskMk)>>,
          FreeBothData)

\* The names of the old files are overwritten by those of the new ones.
HksRkcInit ==
    Else(<<Call(InitKsfAttr("mk")), Ignore(KsfExist),
           OneOf(<<<<Call(RkcLoadKsf)>>,
                   <<Call(InitKsfAttr("rkc")), Ignore(KsfExist),
                     Either(<<Call(UpgradeV1ToV2)>>, <<Call(RkcCreateKsf)>>)>>>>)>>,
         HksCfgClearMem)
=============================================================================
