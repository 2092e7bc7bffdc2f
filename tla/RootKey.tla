------------------------------ MODULE RootKey -------------------------------
(***************************************************************************)
(* The root key component (hks_rkc.c, hks_rkc_rw.c, hks_rkc_v1.c): the     *)
(* main key that protects every key blob, encrypted in two copies under    *)
(* root key material that is kept in two copies too.  HksRkcInit loads     *)
(* them and repairs a damaged copy, creates them, or moves a main key of   *)
(* version 1 over.  A write that fails or is cut off leaves a torn file,   *)
(* whose hash does not match.  Main keys and root key materials are        *)
(* numbers; encryption is under the number of the material.                *)
(***************************************************************************)
EXTENDS Naturals, Sequences, FiniteSets

CONSTANTS
    MaxMade,   \* bound: sets of random material made in a run
    MaxFaults  \* bound: operations that fail in a run

ASSUME RootKeyAssumption == MaxMade \in Nat /\ MaxFaults \in Nat

VARIABLES
    file,      \* kind of file -> its two copies
    step,      \* where HksRkcInit is, or the state of the process
    data,      \* kind of file -> what was read or made for it
    todo,      \* files still to be written: kind and copy
    stored,    \* RkcWriteAllKsf has written a main key file
    upgrading, \* the main key comes from version 1
    g_hksRkcMk,
    served,    \* main keys that were ever handed out
    made, faults,
    sound,     \* nothing has failed since HksRkcInit was called
    loaded,    \* HksRkcInit has succeeded before
    blind      \* existing files were once taken for absent

init == <<step, data, todo, stored, upgrading, g_hksRkcMk>>
history == <<served, made, faults, sound, loaded, blind>>
vars == <<file, init, history>>

Kinds == {"rkc", "mk", "v1"}
Copies == {1, 2}
Other(i) == 3 - i
NoKey == MaxMade + 1   \* no material has this number
Absent == [state |-> "absent", material |-> 0, key |-> NoKey]
Torn == [Absent EXCEPT !.state = "torn"]
Good(m, k) == [state |-> "good", material |-> m, key |-> k]
Files == {Absent, Torn} \cup [state : {"good"}, material : 0 .. MaxMade, key : 0 .. NoKey]

TypeOK ==
    /\ file \in [Kinds -> [Copies -> Files]]
    /\ step \in {"down", "names", "existMk", "readMk", "repairMk", "rkcNames",
                 "readRkc", "repairRkc", "decrypt", "existV1", "upgrade",
                 "create", "write", "deleteV1", "mask", "up", "failed"}
    /\ data \in [Kinds -> Files]
    /\ todo \in Seq(Kinds \X Copies)
    /\ stored \in BOOLEAN /\ upgrading \in BOOLEAN
    /\ g_hksRkcMk \in 0 .. NoKey
    /\ served \subseteq 0 .. MaxMade
    /\ made \in 0 .. MaxMade /\ faults \in 0 .. MaxFaults
    /\ sound \in BOOLEAN /\ loaded \in BOOLEAN /\ blind \in BOOLEAN

\* A device that is new, or that has a main key of version 1 (number 0) in at
\* least one good copy.
Init ==
    /\ \E v1 \in [Copies -> {Absent, Torn, Good(0, 0)}] :
         /\ (\E i \in Copies : v1[i] # Absent) => \E i \in Copies : v1[i] = Good(0, 0)
         /\ file = [k \in Kinds |-> IF k = "v1" THEN v1 ELSE [i \in Copies |-> Absent]]
         /\ served = IF v1 = [i \in Copies |-> Absent] THEN {} ELSE {0}
    /\ step = "down"
    /\ data = [k \in Kinds |-> Absent]
    /\ todo = <<>>
    /\ stored = FALSE /\ upgrading = FALSE
    /\ g_hksRkcMk = NoKey
    /\ made = 0 /\ faults = 0
    /\ sound = TRUE /\ loaded = FALSE /\ blind = FALSE

----------------------------------------------------------------------------
Faults(n) ==
    /\ faults + n <= MaxFaults
    /\ faults' = faults + n
    /\ sound' = (sound /\ n = 0)

\* HksCfgDestroy and HksMkDestroy after a failure.
InitFailed ==
    /\ step' = "failed"
    /\ g_hksRkcMk' = NoKey
    /\ todo' = <<>>
    /\ UNCHANGED <<data, stored, upgrading>>

\* An allocation, a random number or the storage fails.
FailsAt(s) ==
    /\ step = s /\ Faults(1) /\ InitFailed
    /\ UNCHANGED <<file, served, made, loaded, blind>>

Goto(s, t) == step = s /\ step' = t

\* A process starts, or the service is told to forget the keys and load them
\* again.
HksCoreModuleInit ==
    /\ Goto("down", "names")
    /\ sound' = TRUE
    /\ UNCHANGED <<file, data, todo, stored, upgrading, g_hksRkcMk, served, made,
                   faults, loaded, blind>>

HksCoreRefreshKeyInfo ==
    /\ Goto("up", "names") \/ Goto("failed", "names")
    /\ g_hksRkcMk' = NoKey
    /\ data' = [k \in Kinds |-> Absent]
    /\ sound' = TRUE
    /\ UNCHANGED <<file, todo, stored, upgrading, served, made, faults, loaded, blind>>

\* The names of the files are cloned before the files are looked at.
InitKsfAttr ==
    \/ /\ Goto("names", "existMk") \/ Goto("rkcNames", "readRkc")
       /\ UNCHANGED <<file, data, todo, stored, upgrading, g_hksRkcMk, history>>
    \/ FailsAt("names")
    \/ FailsAt("rkcNames")

\* Slip: only the first copy is looked at.
KsfExistFirst(kind, s, yes, no) ==
    /\ IF file[kind][1] # Absent THEN Goto(s, yes) ELSE Goto(s, no)
    /\ UNCHANGED <<file, data, todo, stored, upgrading, g_hksRkcMk, history>>

\* An error before the files are looked at counts as "they exist"; a file that
\* cannot be looked at counts as absent.
KsfExist(kind, s, yes, no) ==
    LET present == {i \in Copies : file[kind][i] # Absent} IN
    /\ \/ present # {} /\ Goto(s, yes) /\ UNCHANGED <<faults, sound, blind>>
       \/ present = {} /\ Goto(s, no) /\ UNCHANGED <<faults, sound, blind>>
       \/ present = {} /\ Goto(s, yes) /\ Faults(1) /\ UNCHANGED blind
       \/ /\ present # {} /\ Goto(s, no)
          /\ Faults(Cardinality(present))
          /\ blind' = TRUE
    /\ UNCHANGED <<file, data, todo, stored, upgrading, g_hksRkcMk, served, made, loaded>>

KsfExistMk == KsfExist("mk", "existMk", "readMk", "existV1")
KsfExistV1 == KsfExist("v1", "existV1", "upgrade", "create")

\* The first copy that can be read is taken, the others are to be written again.
ReadAll(kind, s, t) ==
    \E bad \in SUBSET Copies :
      LET damaged == {i \in Copies : file[kind][i].state # "good"}
          valid == IF 1 \in bad THEN 2 ELSE 1
      IN
      /\ step = s
      /\ damaged \subseteq bad
      /\ Faults(Cardinality(bad \ damaged))
      /\ IF bad = Copies THEN InitFailed
         ELSE /\ step' = t
              /\ data' = [data EXCEPT ![kind] = file[kind][valid]]
              /\ todo' = IF kind = "v1" \/ bad = {} THEN <<>> ELSE << <<kind, Other(valid)>> >>
              /\ UNCHANGED <<stored, upgrading, g_hksRkcMk>>
      /\ UNCHANGED <<file, served, made, loaded, blind>>

ReadAllKsfMk == ReadAll("mk", "readMk", "repairMk")
ReadAllKsfRkc == ReadAll("rkc", "readRkc", "repairRkc")

\* HksWriteKsfRkc and HksWriteKsfMk: the file is truncated and written.
Next1 == Head(todo)
Put(c) == file' = [file EXCEPT ![Next1[1]][Next1[2]] = c]
Written == Put(data[Next1[1]]) /\ Faults(0)
NotWritten == Faults(1) /\ (UNCHANGED file \/ Put(Torn))

\* The rest of ReadAllKsf: a copy that cannot be written stays damaged.
RepairKsf(s, t) ==
    /\ step = s
    /\ IF todo = <<>>
         THEN step' = t /\ UNCHANGED <<file, todo, faults, sound>>
         ELSE Written \/ NotWritten
    /\ todo # <<>> => todo' = Tail(todo) /\ UNCHANGED step
    /\ UNCHANGED <<data, stored, upgrading, g_hksRkcMk, served, made, loaded, blind>>

RepairKsfMk == RepairKsf("repairMk", "rkcNames")
RepairKsfRkc == RepairKsf("repairRkc", "decrypt")

\* The end of RkcLoadKsf: the tag only matches under the same material.
RkcMkCrypt ==
    \/ /\ step = "decrypt"
       /\ IF data["mk"].material = data["rkc"].material
            THEN /\ step' = "up" /\ g_hksRkcMk' = data["mk"].key
                 /\ loaded' = TRUE
                 /\ UNCHANGED <<data, todo, stored, upgrading>>
            ELSE InitFailed /\ UNCHANGED loaded
       /\ UNCHANGED <<file, served, made, faults, sound, blind>>
    \/ FailsAt("decrypt")

\* New material, and a main key encrypted under it.
Make(key) ==
    /\ made < MaxMade
    /\ made' = made + 1
    /\ data' = [data EXCEPT !["rkc"] = Good(made + 1, NoKey),
                            !["mk"] = Good(made + 1, key)]
    /\ todo' = << <<"rkc", 1>>, <<"rkc", 2>>, <<"mk", 1>>, <<"mk", 2>> >>
    /\ stored' = FALSE

\* The main key is in memory before it is in a file.
RkcCreateKsf ==
    \/ /\ Goto("create", "write")
       /\ Make(made + 1)
       /\ upgrading' = FALSE
       /\ g_hksRkcMk' = made + 1
       /\ UNCHANGED <<file, served, faults, sound, loaded, blind>>
    \/ FailsAt("create")

\* RkcReadAllKsfV1 does not repair.
RkcLoadKsfV1 == data["v1"] = Absent /\ ReadAll("v1", "upgrade", "upgrade")
UpgradeV1ToV2 ==
    \/ RkcLoadKsfV1
    \/ /\ data["v1"] # Absent
       /\ Goto("upgrade", "write")
       /\ Make(data["v1"].key)
       /\ upgrading' = TRUE
       /\ UNCHANGED <<file, g_hksRkcMk, served, faults, sound, loaded, blind>>
    \/ FailsAt("upgrade")

\* Slip: a root key file that cannot be written does not matter either.
RkcWriteAllKsfLenient ==
    /\ step = "write" /\ todo # <<>>
    /\ \/ Written /\ stored' = (stored \/ Next1[1] = "mk")
       \/ NotWritten /\ UNCHANGED stored
    /\ todo' = Tail(todo)
    /\ UNCHANGED <<step, data, upgrading, g_hksRkcMk, served, made, loaded, blind>>

\* Every root key file has to be written, of the main key files one.
RkcWriteAllKsf ==
    /\ step = "write" /\ todo # <<>>
    /\ \/ /\ Written
          /\ todo' = Tail(todo)
          /\ stored' = (stored \/ Next1[1] = "mk")
          /\ UNCHANGED <<step, data, upgrading, g_hksRkcMk>>
       \/ /\ NotWritten
          /\ IF Next1[1] = "rkc" THEN InitFailed
             ELSE todo' = Tail(todo) /\ UNCHANGED <<step, data, stored, upgrading, g_hksRkcMk>>
    /\ UNCHANGED <<served, made, loaded, blind>>

\* Slip: nobody looks whether a main key file was written.
AllWrittenUnchecked ==
    /\ step = "write" /\ todo = <<>>
    /\ step' = IF upgrading THEN "deleteV1" ELSE "up"
    /\ loaded' = (loaded \/ ~upgrading)
    /\ UNCHANGED <<file, data, todo, stored, upgrading, g_hksRkcMk, served, made,
                   faults, sound, blind>>

AllWritten ==
    /\ step = "write" /\ todo = <<>>
    /\ \/ ~stored /\ InitFailed /\ UNCHANGED loaded
       \/ /\ stored
          /\ step' = IF upgrading THEN "deleteV1" ELSE "up"
          /\ loaded' = (loaded \/ ~upgrading)
          /\ UNCHANGED <<data, todo, stored, upgrading, g_hksRkcMk>>
    /\ UNCHANGED <<file, served, made, faults, sound, blind>>

\* Copies that cannot be deleted are left behind.
RkcDeleteAllKsfV1 ==
    /\ Goto("deleteV1", "mask")
    /\ \E left \in SUBSET {i \in Copies : file["v1"][i] # Absent} :
         /\ Faults(Cardinality(left))
         /\ file' = [file EXCEPT !["v1"] = [i \in Copies |-> IF i \in left THEN @[i] ELSE Absent]]
    /\ UNCHANGED <<data, todo, stored, upgrading, g_hksRkcMk, served, made, loaded, blind>>

RkcMaskMk ==
    \/ /\ Goto("mask", "up")
       /\ g_hksRkcMk' = data["v1"].key
       /\ loaded' = TRUE
       /\ UNCHANGED <<file, data, todo, stored, upgrading, served, made, faults, sound, blind>>
    \/ FailsAt("mask")

\* Slip: the state of the component is not looked at.
HksRkcGetMainKeyUnchecked ==
    /\ served' = served \cup {g_hksRkcMk}
    /\ UNCHANGED <<file, init, made, faults, sound, loaded, blind>>

\* The code looks at g_hksRkcMk.valid alone, which RkcMakeMk sets before the
\* files are written.  That the start is over is the callers' doing:
\* HksService::Init publishes the service after HksServiceInitialize, and in
\* a process of one client HksRefreshKeyInfo comes from that client.
HksRkcGetMainKey ==
    /\ step = "up" /\ g_hksRkcMk # NoKey
    /\ served' = served \cup {g_hksRkcMk}
    /\ UNCHANGED <<file, init, made, faults, sound, loaded, blind>>

\* The process ends at any point, in the middle of a write too.
Crash ==
    /\ step # "down"
    /\ UNCHANGED file \/ (todo # <<>> /\ Put(Torn))
    /\ step' = "down"
    /\ data' = [k \in Kinds |-> Absent]
    /\ todo' = <<>>
    /\ stored' = FALSE /\ upgrading' = FALSE
    /\ g_hksRkcMk' = NoKey
    /\ UNCHANGED history

Next ==
    \/ HksCoreModuleInit \/ HksCoreRefreshKeyInfo \/ InitKsfAttr
    \/ KsfExistMk \/ KsfExistV1
    \/ ReadAllKsfMk \/ RepairKsfMk \/ ReadAllKsfRkc \/ RepairKsfRkc \/ RkcMkCrypt
    \/ RkcCreateKsf \/ UpgradeV1ToV2 \/ RkcWriteAllKsf \/ AllWritten
    \/ RkcDeleteAllKsfV1 \/ RkcMaskMk
    \/ HksRkcGetMainKey \/ Crash

Spec == Init /\ [][Next]_vars

----------------------------------------------------------------------------
\* The main key that has once been handed out is the only one ever handed out,
\* through crashes, failed writes, repairs and the upgrade from version 1:
\* another one would make every key blob unreadable.  (When every existing
\* file was taken for absent, KsfExist has a new one made.)
OneMainKey == blind \/ Cardinality(served) <= 1

\* A main key that was handed out can be read back from the files at every
\* moment: from a good copy with root key material it is encrypted under, or
\* from a copy of version 1, which is deleted only then.
ServedIsStored ==
    blind \/ \A k \in served :
      \/ \E i, j \in Copies :
           /\ file["mk"][i].state = "good" /\ file["mk"][i].key = k
           /\ file["rkc"][j].state = "good"
           /\ file["rkc"][j].material = file["mk"][i].material
      \/ \E i \in Copies : file["v1"][i] = Good(0, k)

\* Once HksRkcInit has succeeded, it fails only when something fails in it: no
\* damage that crashes and failed writes do to the files keeps it from
\* starting.  (Before the first success, a crash in the write of the main key
\* file does, for good: the torn file keeps the files from being made again.)
StartsAgain == blind \/ (step = "failed" /\ sound => ~loaded)

----------------------------------------------------------------------------
(* Why they hold: how the files fit each other and the step HksRkcInit is  *)
(* at, as long as no file was taken for absent.                            *)

IsGood(kind, i) == file[kind][i].state = "good"
SomeGood(kind) == \E i \in Copies : IsGood(kind, i)
NonePresent(kind) == \A i \in Copies : file[kind][i] = Absent

\* Good copies agree with each other, and with the main keys handed out.
FilesFit ==
    /\ \A i \in Copies : file["v1"][i] \in {Absent, Torn, Good(0, 0)}
    /\ \A i, j \in Copies : IsGood("mk", i) /\ IsGood("mk", j) => file["mk"][i] = file["mk"][j]
    /\ \A i, j \in Copies : IsGood("mk", i) /\ IsGood("rkc", j)
         => file["mk"][i].material = file["rkc"][j].material
    /\ SomeGood("mk") => SomeGood("rkc")
    /\ \A i \in Copies : IsGood("mk", i) /\ SomeGood("v1") => file["mk"][i].key = 0
    /\ \A k \in served :
         /\ SomeGood("mk") \/ SomeGood("v1")
         /\ \A i \in Copies : IsGood("mk", i) => file["mk"][i].key = k
         /\ SomeGood("v1") => k = 0
    /\ loaded => SomeGood("mk")

\* In RkcWriteAllKsf: what is written so far, and what cannot be yet.
Partly(i) == file["mk"][i] \in {Absent, Torn, data["mk"]}
WrittenSoFar ==
    \/ /\ todo = << <<"rkc", 1>>, <<"rkc", 2>>, <<"mk", 1>>, <<"mk", 2>> >>
       /\ NonePresent("mk")
    \/ /\ todo = << <<"rkc", 2>>, <<"mk", 1>>, <<"mk", 2>> >>
       /\ file["rkc"][1] = data["rkc"] /\ NonePresent("mk")
    \/ /\ todo \in {<< <<"mk", 1>>, <<"mk", 2>> >>, << <<"mk", 2>> >>, <<>>}
       /\ \A i \in Copies : file["rkc"][i] = data["rkc"] /\ Partly(i)
       /\ Len(todo) = 2 => file["mk"][1] = Absent
       /\ Len(todo) > 0 => file["mk"][2] = Absent
WriteFits ==
    /\ data["mk"].state = "good" /\ data["rkc"].state = "good"
    /\ data["mk"].material = data["rkc"].material
    /\ WrittenSoFar
    /\ stored => SomeGood("mk")
    /\ IF upgrading THEN data["v1"] = Good(0, 0) /\ data["mk"].key = 0
       ELSE NonePresent("v1") /\ served = {} /\ g_hksRkcMk = data["mk"].key

\* A copy that is written again is not the one that was read.
RepairFits(kind) ==
    /\ data[kind].state = "good"
    /\ \/ todo = <<>> /\ \E i \in Copies : file[kind][i] = data[kind]
       \/ \E i \in Copies : todo = << <<kind, Other(i)>> >> /\ file[kind][i] = data[kind]

Read(kind) == data[kind].state = "good" /\ \E i \in Copies : file[kind][i] = data[kind]

StepFits ==
    /\ data["v1"] \in {Absent, Good(0, 0)}
    /\ step \notin {"repairMk", "repairRkc", "write"} => todo = <<>>
    /\ step \in {"existV1", "upgrade", "create"} => NonePresent("mk")
    /\ step = "create" => NonePresent("v1")
    /\ step = "write" => WriteFits
    /\ step = "repairMk" => RepairFits("mk")
    /\ step \in {"rkcNames", "readRkc", "repairRkc", "decrypt"} => Read("mk")
    /\ step = "repairRkc" => RepairFits("rkc")
    /\ step = "decrypt" => Read("rkc")
    /\ step \in {"deleteV1", "mask"} => data["v1"] = Good(0, 0)
         /\ \E i \in Copies : IsGood("mk", i) /\ file["mk"][i].key = 0
    /\ step = "up" => \E i \in Copies : IsGood("mk", i) /\ file["mk"][i].key = g_hksRkcMk
    /\ loaded => step \notin {"existV1", "upgrade", "create", "write", "deleteV1", "mask"}

\* The invariant that the properties above rest on.
RootKeyInv == TypeOK /\ StartsAgain /\ (~blind => FilesFit /\ StepFits)
=============================================================================
