---------------------------- MODULE StorageFiles ----------------------------
(***************************************************************************)
(* The key storage as programs of Ownership: the paths, names, buffers,    *)
(* open files and directories it needs for a request.  What is in the      *)
(* files, and who has them when, is in KeyStorage.  An open file or        *)
(* directory is an object that closing it frees.                           *)
(***************************************************************************)
EXTENDS OwnershipSteps

----------------------------------------------------------------------------
(* Files and directories, hks_file_operator.c                              *)

GetFullFileName == <<Get("fullFileName")>> \o Else(<<Try>>, <<Free("fullFileName")>>)
IsValidPath == Try
\* One operation on the file of that name.
OnFile(op) ==
    <<Try, Call(GetFullFileName)>> \o Do(<<IsValidPath, Use("fullFileName")>> \o op, <<Free("fullFileName")>>)

IsFileExist == <<Try>>
FileRead == <<Call(IsFileExist), Try, Try, Get("fp"), Use("fp"), Release("fp"), Try>>
FileWrite ==
    <<Get("fp")>> \o Else(<<Try, With("fp"), With("fp"), With("fp"), With("fp")>>, <<Release("fp")>>)
    \o <<Release("fp"), Try>>
FileRemove == <<May(<<Try, Try, Try>>)>>
FileSize == <<Call(IsFileExist), Try>>

HksFileRemove == OnFile(<<Call(FileRemove)>>)
HksIsFileExist == OnFile(<<Call(IsFileExist)>>)
HksFileRead == OnFile(<<Call(FileRead)>>)
HksFileWrite == OnFile(<<Call(FileWrite)>>)
HksFileSize == OnFile(<<Call(FileSize)>>)

HksIsDirExist == <<Try, Call(IsFileExist)>>
HksMakeDir == <<IsValidPath, Try>>
HksRemoveDir ==
    <<IsValidPath, Try, Try, Get("dir"), Use("dir"), May(<<Ignore(HksFileRemove), Use("dir")>>), Release("dir")>>
\* The directory and those below it, three levels deep.
DeleteDir(dir, below) ==
    <<Get(dir), Use(dir)>> \o Else(<<May(<<Try, OneOf(<<below, <<>>>>), Use(dir)>>)>>, <<Release(dir)>>)
    \o <<Release(dir), Try>>
HksDeletDirPartTwo == DeleteDir("dir3", <<>>)
HksDeletDirPartOne == DeleteDir("dir2", <<Ignore(HksDeletDirPartTwo)>>)
HksDeleteDir == <<IsValidPath>> \o DeleteDir("dir1", <<Ignore(HksDeletDirPartOne)>>)

----------------------------------------------------------------------------
(* Lock objects, hks_storage_file_lock.c, hks_lock.c                       *)

HksLockCreate == <<Get("hksLock")>> \o Else(<<Get("rwlock")>>, <<Free("hksLock")>>)
HksLockClose == <<Free("rwlock"), Free("hksLock")>>
FreeFileLock == <<IfSet("lock", <<Free("lockPath"), IfSet("hksLock", HksLockClose, <<>>), Free("lock")>>, <<>>)>>
AllocFileLock ==
    <<Get("lock"), Null("lockPath"), Null("hksLock")>> \o Else(<<Get("lockPath"), Try, Call(HksLockCreate)>>, FreeFileLock)
\* A lock that is in use already is found in the list: others made it.
HksStorageFileLockCreate == <<Try, Call(AllocFileLock)>>
\* The list keeps a lock that others still use.
InList == Each(Give, <<"lock", "lockPath", "hksLock", "rwlock">>)
CreateStorageFileLock == <<Null("lock"), Get("fullPath")>> \o Do(<<Try, Call(HksStorageFileLockCreate)>>, <<Free("fullPath")>>)
HksStorageFileLockRelease == <<IfSet("lock", <<Either(InList, FreeFileLock)>>, <<>>)>>

\* Without a lock object the access goes on all the same.  A file that is
\* read or written below takes these steps; they are not repeated there.
Locked(access) ==
    <<Ignore(CreateStorageFileLock), IfSet("lock", <<Use("hksLock")>>, <<>>)>>
    \o Do(<<Call(access), IfSet("lock", <<Use("hksLock")>>, <<>>)>>, HksStorageFileLockRelease)
HksStorageWriteFile == Locked(HksFileWrite)
HksStorageReadFile == Locked(HksFileRead)
ReadsFile == Try
WritesFile == Try
RemovesFile == Try

----------------------------------------------------------------------------
(* Names and paths, hks_storage_utils.c                                    *)

ConstructName(name) == With(name)
ConstructPlainName(name) == With(name)
ConstructBlob(name) == <<Use(name), Get("outputBlob")>> \o Do(<<Try, Try>>, <<Free("outputBlob")>>)
GetPath(path) == With(path)

DataInit(x) == Maybe(x)
FileInfo == <<"mainPath", "mainName", "bakPath", "bakName">>
FileInfoInit == Each(DataInit, FileInfo) \o Each(Need, FileInfo)
FileInfoFree == Each(Free, FileInfo)
RecordKeyOperation == <<Get("outKeyAlias")>> \o Do(<<Try>>, <<Free("outKeyAlias")>>)

\* A directory that held two files when they were counted.
FileNameListFree == <<IfSet("fileNameList", Each(Free, <<"name1", "name2", "fileNameList">>), <<>>)>>
FileNameListInit == <<Try, Get("fileNameList")>> \o Else(<<Get("name1"), Get("name2")>>, FileNameListFree)

CheckSpecificUserIdAndStorageLevel == <<Try>>
HksMakeFullDir ==
    <<Get("curPath")>> \o Do(<<May(<<Use("curPath"), Call(HksMakeDir)>>), Call(HksMakeDir)>>, <<Free("curPath")>>)
CheckUserPathExist == <<Try, Call(HksIsDirExist)>>
ConstructPath(path) == <<May(<<Call(CheckUserPathExist)>>), With(path)>>
GetPathInfo(path, name) ==
    <<Call(ConstructPath(path)), Use(path), Call(HksMakeFullDir), IfSet("keyAliasPath", <<Try, With(name)>>, <<>>)>>
HksGetFileInfo ==
    <<Call(FileInfoInit), Call(GetPathInfo("mainPath", "mainName")), Call(GetPathInfo("bakPath", "bakName"))>>

----------------------------------------------------------------------------
(* Key blobs, hks_storage.c                                                *)

CleanFile == <<Try>> \o Do(<<Get("buf"), WritesFile, WritesFile, With("buf"), WritesFile>>, <<Free("buf")>>)
HksStorageRemoveFile == <<Ignore(CleanFile), RemovesFile>>
CopyKeyBlobFromSrc == <<Try, Get("buffer")>> \o Do(<<ReadsFile, WritesFile>>, <<Free("buffer")>>)
GetKeyBlobFromFile == <<Try, Try, ReadsFile>>
DeleteKeyBlob == <<Try, May(<<Call(HksStorageRemoveFile)>>), Try, Call(HksStorageRemoveFile)>>
GetKeyBlob == <<Try, Call(GetKeyBlobFromFile)>>
GetKeyBlobSize == <<Try, Try>>
IsKeyBlobExist == <<May(<<Try, Ignore(CopyKeyBlobFromSrc)>>)>>

HksStoreKeyBlob == <<Call(RecordKeyOperation), WritesFile>>
HksStoreDeleteKeyBlob == <<Call(RecordKeyOperation), Call(DeleteKeyBlob)>>
HksStoreIsKeyBlobExist == <<Call(IsKeyBlobExist)>>
HksStoreGetKeyBlob == <<Call(RecordKeyOperation), Call(GetKeyBlob)>>
HksStoreGetKeyBlobSize == <<Call(GetKeyBlobSize)>>

----------------------------------------------------------------------------
(* Lists of aliases, hks_storage.c                                         *)

GetFileCount == <<May(<<Get("dir"), Use("dir"), Release("dir")>>)>>
\* The files of the directory now: found, or none, and the names copied.
GetFileNameList == <<May(<<Get("dir"), Use("dir"), Use("fileNameList"), Release("dir")>>)>>
GetAndCheckFileCount == <<Call(GetFileCount), Try>>
\* A third file is counted, but there is no place for its name in the list.
GetKeyAliasByProcessName ==
    <<Call(GetAndCheckFileCount), May(<<Return>>), Call(FileNameListInit)>>
    \o Do(<<Call(GetFileNameList),
            OneOf(<<<<>>, <<Call(ConstructBlob("name1"))>>, <<Call(ConstructBlob("name1")), Call(ConstructBlob("name2"))>>,
                    <<Call(ConstructBlob("name1")), Call(ConstructBlob("name2")), Call(ConstructBlob("name3"))>>>>)>>,
          FileNameListFree)
HksGetKeyAliasByProcessName == <<Call(GetKeyAliasByProcessName)>>
HksGetKeyCountByProcessName == <<Call(GetFileCount)>>

HksFreeKeyAliasSet == <<IfSet("aliases", <<Free("alias1"), Free("alias2")>>, <<>>), Free("aliases"), Free("aliasSet")>>
GetHksKeyAliasSet ==
    <<Get("aliasSet")>>
    \o Else(<<Get("aliases"), Use("name1"), Get("alias1"), Call(ConstructBlob("name1")),
              Use("name2"), Get("alias2"), Call(ConstructBlob("name2"))>>, HksFreeKeyAliasSet)
\* With fewer files than were counted there is no list; a third one is left out.
GetHksFileEntry ==
    <<Call(GetFileCount), May(<<Return>>), Try>>
    \o Else(<<Call(FileNameListInit), Call(GetFileNameList)>>, FileNameListFree) \o <<May(FileNameListFree)>>
HksListAliasesByProcessName ==
    <<Null("fileNameList")>>
    \o Do(<<Call(GetHksFileEntry), IfSet("fileNameList", <<Call(GetHksKeyAliasSet)>>, <<>>)>>, FileNameListFree)

----------------------------------------------------------------------------
(* The directories of a process or a user, hks_storage.c                   *)

DestroyType ==
    <<Get("destroyPath")>>
    \o Do(<<GetPath("destroyPath"), May(<<Leave>>), Call(HksRemoveDir)>>, <<Free("destroyPath")>>)
StoreDestroy ==
    <<Get("storePath")>> \o Else(<<GetPath("storePath")>>, <<Free("storePath")>>)
    \o <<Ignore(DestroyType), Ignore(DestroyType), Free("storePath")>>
HksStoreDestroy == <<Get("name")>> \o Do(<<ConstructName("name"), Call(StoreDestroy), Call(StoreDestroy)>>, <<Free("name")>>)

\* Directories under another root are removed in the same way.
DeletesDirs == Try
DeleteUserIdMainPathAndBakPath == <<Use("userPath"), DeletesDirs>>
DeleteUserIdPath ==
    Do(<<Get("userPath"), ConstructPlainName("userPath"), Ignore(DeleteUserIdMainPathAndBakPath),
         Ignore(DeleteUserIdMainPathAndBakPath)>>, <<Free("userPath")>>)
DeleteUidMainPathAndBakPath == <<Use("userPath"), Use("uidData2"), DeletesDirs>>
DeleteUidPath ==
    <<Null("uidData2")>>
    \o Do(<<Get("userPath"), Get("uidData2"), ConstructPlainName("userPath"), ConstructPlainName("uidData2"),
            Ignore(DeleteUidMainPathAndBakPath), Ignore(DeleteUidMainPathAndBakPath)>>,
          <<Free("userPath"), Free("uidData2")>>)
HksServiceDeleteUserIDKeyAliasFile ==
    Do(<<Get("userData"), ConstructName("userData"), Try, Ignore(HksDeleteDir), Ignore(DeleteUserIdPath)>>,
       <<Free("userData")>>)
HksServiceDeleteUIDKeyAliasFile ==
    <<Null("uidData")>>
    \o Do(<<Get("userData"), May(<<ConstructName("userData")>>), Get("uidData"), ConstructName("uidData"), Try,
            Ignore(HksDeleteDir), Ignore(DeleteUidPath)>>, <<Free("userData"), Free("uidData")>>)

----------------------------------------------------------------------------
(* The storage manager, hks_storage_manager.c                              *)

GetStorageLevelAndStoreUserIdParam == <<Try, Try>>
GetKeyAliasPath == <<May(<<Get("keyAliasPath"), ConstructName("keyAliasPath")>>)>>
GetUserIdPath == <<Get("userIdPath"), ConstructName("userIdPath")>>
GetUidPath == <<Get("uidPath"), ConstructName("uidPath")>>
GetStorageTypePath == <<Try, Get("storageTypePath")>>
FreeStorageMaterial == Each(Free, <<"userIdPath", "uidPath", "storageTypePath", "keyAliasPath">>)
InitStorageMaterial ==
    <<Call(GetStorageLevelAndStoreUserIdParam)>>
    \o Else(<<Call(GetUserIdPath), Call(GetUidPath), Call(GetStorageTypePath), Call(GetKeyAliasPath)>>, FreeStorageMaterial)
HksConstructStoreFileInfo == <<Call(CheckSpecificUserIdAndStorageLevel), Call(HksGetFileInfo)>>

\* Every function of the manager: material, file info, one operation.
Managed(op) ==
    Do(<<Call(InitStorageMaterial), Call(HksConstructStoreFileInfo), Use("mainPath"), Use("mainName")>> \o op,
       FileInfoFree \o FreeStorageMaterial)
HksManageStoreKeyBlob == Managed(<<Call(HksStoreKeyBlob)>>)
HksManageStoreDeleteKeyBlob == Managed(<<Call(HksStoreDeleteKeyBlob)>>)
HksManageStoreIsKeyBlobExist == Managed(<<Call(HksStoreIsKeyBlobExist)>>)
HksManageStoreGetKeyBlob == Managed(<<Call(HksStoreGetKeyBlob)>>)
HksManageStoreGetKeyBlobSize == Managed(<<Call(HksStoreGetKeyBlobSize)>>)
HksManageGetKeyAliasByProcessName == Managed(<<Call(HksGetKeyAliasByProcessName)>>)
HksManageGetKeyCountByProcessName == Managed(<<Call(HksGetKeyCountByProcessName)>>)
HksManageListAliasesByProcessName == Managed(<<Call(HksListAliasesByProcessName)>>)
=============================================================================
