---------------------------- MODULE RootKeyProofs ----------------------------
(***************************************************************************)
(* One main key, which can always be read back, for any number of crashes, *)
(* failing operations and sets of material made on the way.                *)
(***************************************************************************)
EXTENDS RootKey, FiniteSetTheorems, SequenceTheorems, TLAPS

(* The contents a file can have.                                           *)
LEMMA FileFacts ==
    /\ MaxMade \in Nat /\ MaxFaults \in Nat /\ NoKey \in Nat /\ NoKey = MaxMade + 1
    /\ Absent \in Files /\ Torn \in Files
    /\ Absent.state = "absent" /\ Torn.state = "torn" /\ Absent.key = NoKey /\ Torn.key = NoKey
    /\ \A m \in 0 .. MaxMade, k \in 0 .. NoKey :
         /\ Good(m, k) \in Files
         /\ Good(m, k).state = "good" /\ Good(m, k).material = m /\ Good(m, k).key = k
    /\ \A f \in Files : f.material \in 0 .. MaxMade /\ f.key \in 0 .. NoKey
<1>1. MaxMade \in Nat /\ MaxFaults \in Nat
  BY RootKeyAssumption
<1> QED
  BY <1>1 DEF Files, Absent, Torn, Good, NoKey

(* How many copies failed: none only if the set is empty.                  *)
LEMMA CopyCount ==
    ASSUME NEW S \in SUBSET Copies
    PROVE  Cardinality(S) \in Nat /\ (Cardinality(S) = 0 <=> S = {})
<1>1. IsFiniteSet(Copies)
  BY FS_Interval, FS_Subset DEF Copies
<1>2. IsFiniteSet(S)
  BY <1>1, FS_Subset
<1> QED
  BY <1>2, FS_CardinalityType, FS_EmptySet

\* The lists of file names are short ones.
LEMMA Tails ==
    ASSUME NEW a, NEW b, NEW c, NEW d
    PROVE  /\ Head(<<a>>) = a /\ Tail(<<a>>) = <<>>
           /\ Head(<<a, b>>) = a /\ Tail(<<a, b>>) = <<b>>
           /\ Head(<<a, b, c>>) = a /\ Tail(<<a, b, c>>) = <<b, c>>
           /\ Head(<<a, b, c, d>>) = a /\ Tail(<<a, b, c, d>>) = <<b, c, d>>
OBVIOUS

(* The next write puts one copy of one file, and leaves the others alone.  *)
LEMMA PutFacts ==
    ASSUME TypeOK, todo # <<>>, NEW c \in Files, Put(c)
    PROVE  /\ Next1 \in Kinds \X Copies
           /\ file' \in [Kinds -> [Copies -> Files]]
           /\ \A k \in Kinds, i \in Copies :
                file'[k][i] = IF Next1 = <<k, i>> THEN c ELSE file[k][i]
<1>1. Next1 \in Kinds \X Copies
  BY HeadTailProperties DEF TypeOK, Next1
<1> QED
  BY <1>1 DEF TypeOK, Put

\* The rest of the names still to do.
LEMMA TailType ==
    ASSUME TypeOK, todo # <<>>
    PROVE  Tail(todo) \in Seq(Kinds \X Copies)
BY HeadTailProperties DEF TypeOK

\* A fault is counted, and the run of HksRkcInit is no longer a sound one.
LEMMA FaultsType ==
    ASSUME TypeOK, NEW n \in Nat, Faults(n)
    PROVE  faults' \in 0 .. MaxFaults /\ sound' \in BOOLEAN /\ (n # 0 => ~sound')
           /\ (sound' => sound)
<1>1. faults' \in 0 .. MaxFaults
  BY FileFacts DEF Faults, TypeOK
<1>2. sound' = (sound /\ n = 0) /\ sound \in BOOLEAN
  BY DEF Faults, TypeOK
<1> QED
  BY <1>1, <1>2

(* A failure of HksRkcInit keeps the types of what it changes.             *)
LEMMA InitFailedType ==
    ASSUME TypeOK, InitFailed
    PROVE  /\ step' = "failed" /\ todo' \in Seq(Kinds \X Copies) /\ g_hksRkcMk' \in 0 .. NoKey
           /\ data' \in [Kinds -> Files] /\ stored' \in BOOLEAN /\ upgrading' \in BOOLEAN
BY FileFacts DEF InitFailed, TypeOK

\* A step that fails keeps the types.
LEMMA FailsAtType ==
    ASSUME TypeOK, NEW s, FailsAt(s)
    PROVE  TypeOK'
<1>1. faults' \in 0 .. MaxFaults /\ sound' \in BOOLEAN
  BY FaultsType DEF FailsAt
<1> QED
  BY <1>1, InitFailedType DEF FailsAt, TypeOK

(* A write that succeeds or fails keeps the types of the files.            *)
LEMMA WriteType ==
    ASSUME TypeOK, todo # <<>>, Written \/ NotWritten
    PROVE  file' \in [Kinds -> [Copies -> Files]] /\ faults' \in 0 .. MaxFaults /\ sound' \in BOOLEAN
<1>1. CASE Written
  <2>1. Next1 \in Kinds \X Copies
    BY HeadTailProperties DEF TypeOK, Next1
  <2>2. data[Next1[1]] \in Files
    BY <2>1 DEF TypeOK
  <2> QED
    BY <1>1, <2>2, PutFacts, FaultsType DEF Written
<1>2. CASE NotWritten
  BY <1>2, PutFacts, FaultsType, FileFacts DEF NotWritten, TypeOK
<1> QED
  BY <1>1, <1>2

(* ReadAll takes a good copy, or fails: without a fault only when there is *)
(* no good copy.                                                           *)
LEMMA ReadFacts ==
    ASSUME TypeOK, NEW kind \in Kinds, NEW s, NEW t, ReadAll(kind, s, t)
    PROVE  /\ step = s /\ UNCHANGED <<file, served, made, loaded, blind>>
           /\ faults' \in 0 .. MaxFaults /\ sound' \in BOOLEAN
           /\ \/ InitFailed /\ (sound' => ~SomeGood(kind))
              \/ \E v \in Copies :
                   /\ step' = t /\ IsGood(kind, v)
                   /\ data' = [data EXCEPT ![kind] = file[kind][v]]
                   /\ todo' \in {<<>>, << <<kind, Other(v)>> >>}
                   /\ kind = "v1" => todo' = <<>>
                   /\ UNCHANGED <<stored, upgrading, g_hksRkcMk>>
<1> DEFINE damaged == {i \in Copies : file[kind][i].state # "good"}
<1>1. PICK bad \in SUBSET Copies :
        LET valid == IF 1 \in bad THEN 2 ELSE 1
        IN
        /\ step = s
        /\ damaged \subseteq bad
        /\ Faults(Cardinality(bad \ damaged))
        /\ IF bad = Copies THEN InitFailed
           ELSE /\ step' = t
                /\ data' = [data EXCEPT ![kind] = file[kind][valid]]
                /\ todo' = IF kind = "v1" \/ bad = {} THEN <<>> ELSE << <<kind, Other(valid)>> >>
                /\ UNCHANGED <<stored, upgrading, g_hksRkcMk>>
        /\ UNCHANGED <<file, served, made, loaded, blind>>
  BY DEF ReadAll
<1>2. Cardinality(bad \ damaged) \in Nat /\ (Cardinality(bad \ damaged) = 0 <=> bad \ damaged = {})
  BY CopyCount
<1>3. /\ faults' \in 0 .. MaxFaults /\ sound' \in BOOLEAN
      /\ sound' => bad \ damaged = {}
  BY <1>1, <1>2, FaultsType
<1>4. CASE bad = Copies
  <2>1. sound' => ~SomeGood(kind)
    BY <1>3, <1>4 DEF SomeGood, IsGood
  <2> QED
    BY <1>1, <1>3, <1>4, <2>1
<1>5. CASE bad # Copies
  <2>1. PICK v : v = IF 1 \in bad THEN 2 ELSE 1
    OBVIOUS
  <2>2. v \in Copies /\ v \notin bad
    BY <1>5, <2>1 DEF Copies
  <2>3. IsGood(kind, v)
    BY <1>1, <2>2 DEF IsGood
  <2> QED
    BY <1>1, <1>3, <1>5, <2>1, <2>2, <2>3
<1> QED
  BY <1>4, <1>5

(* Every step keeps the types.                                             *)
LEMMA TypeStep == ASSUME TypeOK, [Next]_vars PROVE TypeOK'
<1> USE DEF Goto
<1>0. [k \in Kinds |-> Absent] \in [Kinds -> Files] /\ NoKey \in 0 .. NoKey
  BY FileFacts
<1>1. CASE HksCoreModuleInit \/ HksCoreRefreshKeyInfo
  BY <1>0, <1>1 DEF HksCoreModuleInit, HksCoreRefreshKeyInfo, TypeOK
<1>2. CASE InitKsfAttr
  <2>1. CASE FailsAt("names") \/ FailsAt("rkcNames")
    BY <2>1, FailsAtType
  <2>2. CASE /\ Goto("names", "existMk") \/ Goto("rkcNames", "readRkc")
             /\ UNCHANGED <<file, data, todo, stored, upgrading, g_hksRkcMk, history>>
    BY <2>2 DEF TypeOK, history
  <2> QED
    BY <1>2, <2>1, <2>2 DEF InitKsfAttr
<1>3. ASSUME NEW kind \in Kinds, NEW s, NEW yes, NEW no, KsfExist(kind, s, yes, no),
             yes \in {"readMk", "upgrade"}, no \in {"existV1", "create"}
      PROVE  TypeOK'
  <2> DEFINE present == {i \in Copies : file[kind][i] # Absent}
  <2>1. Cardinality(present) \in Nat
    BY CopyCount
  <2>2. faults' \in 0 .. MaxFaults /\ sound' \in BOOLEAN /\ blind' \in BOOLEAN
        /\ step' \in {yes, no}
    BY <1>3, <2>1, FaultsType DEF KsfExist, TypeOK
  <2> QED
    BY <1>3, <2>2 DEF KsfExist, TypeOK
<1>4. ASSUME NEW kind \in Kinds, NEW s, NEW t, ReadAll(kind, s, t),
             t \in {"repairMk", "repairRkc", "upgrade"}
      PROVE  TypeOK'
  <2>1. CASE InitFailed
    BY <1>4, <2>1, ReadFacts, InitFailedType DEF TypeOK
  <2>2. CASE \E v \in Copies :
               /\ step' = t
               /\ data' = [data EXCEPT ![kind] = file[kind][v]]
               /\ todo' \in {<<>>, << <<kind, Other(v)>> >>}
               /\ UNCHANGED <<stored, upgrading, g_hksRkcMk>>
    <3>1. PICK v \in Copies :
               /\ step' = t
               /\ data' = [data EXCEPT ![kind] = file[kind][v]]
               /\ todo' \in {<<>>, << <<kind, Other(v)>> >>}
               /\ UNCHANGED <<stored, upgrading, g_hksRkcMk>>
      BY <2>2
    <3>2. Other(v) \in Copies
      BY DEF Copies, Other
    <3>3. data' \in [Kinds -> Files]
      BY <3>1 DEF TypeOK
    <3>4. todo' \in Seq(Kinds \X Copies)
      <4>1. <<kind, Other(v)>> \in Kinds \X Copies
        BY <3>2
      <4>2. << <<kind, Other(v)>> >> \in Seq(Kinds \X Copies)
        BY <4>1
      <4>3. <<>> \in Seq(Kinds \X Copies)
        OBVIOUS
      <4>4. todo' = <<>> \/ todo' = << <<kind, Other(v)>> >>
        BY <3>1
      <4> QED
        BY <4>2, <4>3, <4>4
    <3> QED
      BY <1>4, <3>1, <3>3, <3>4, ReadFacts DEF TypeOK
  <2> QED
    BY <1>4, <2>1, <2>2, ReadFacts
<1>5. CASE RepairKsfMk \/ RepairKsfRkc
  <2>1. PICK s, t : RepairKsf(s, t) /\ t \in {"rkcNames", "decrypt"}
    BY <1>5 DEF RepairKsfMk, RepairKsfRkc
  <2>2. CASE todo = <<>>
    BY <2>1, <2>2 DEF RepairKsf, TypeOK
  <2>3. CASE todo # <<>>
    BY <2>1, <2>3, WriteType, TailType DEF RepairKsf, TypeOK
  <2> QED
    BY <2>2, <2>3
<1>6. CASE RkcMkCrypt
  <2>1. CASE FailsAt("decrypt")
    BY <2>1, FailsAtType
  <2>2. CASE ~FailsAt("decrypt")
    <3>1. data["mk"].key \in 0 .. NoKey
      BY FileFacts DEF TypeOK, Kinds
    <3> QED
      BY <1>6, <2>2, <3>1, InitFailedType DEF RkcMkCrypt, TypeOK
  <2> QED
    BY <2>1, <2>2
<1>7. ASSUME NEW key \in 0 .. NoKey, Make(key), step' = "write", upgrading' \in BOOLEAN,
             g_hksRkcMk' \in 0 .. NoKey,
             UNCHANGED <<file, served, faults, sound, loaded, blind>>
      PROVE  TypeOK'
  <2>1. made' \in 0 .. MaxMade /\ made + 1 \in 0 .. MaxMade /\ stored' = FALSE
    BY <1>7, FileFacts DEF Make, TypeOK
  <2>2. Good(made + 1, NoKey) \in Files /\ Good(made + 1, key) \in Files
    BY <2>1, FileFacts
  <2>3. data' \in [Kinds -> Files]
    BY <1>7, <2>2 DEF Make, TypeOK
  <2>4. todo' \in Seq(Kinds \X Copies)
    BY <1>7 DEF Make, Kinds, Copies
  <2> QED
    BY <1>7, <2>1, <2>3, <2>4 DEF TypeOK
<1>8. CASE RkcCreateKsf
  <2>1. CASE FailsAt("create")
    BY <2>1, FailsAtType
  <2>2. CASE ~FailsAt("create")
    <3>1. Make(made + 1) /\ made < MaxMade
      BY <1>8, <2>2 DEF RkcCreateKsf, Make
    <3>2. made + 1 \in 0 .. NoKey
      BY <3>1, FileFacts DEF TypeOK
    <3> QED
      BY <1>7, <1>8, <2>2, <3>1, <3>2 DEF RkcCreateKsf
  <2> QED
    BY <2>1, <2>2
<1>9. CASE UpgradeV1ToV2
  <2>1. CASE FailsAt("upgrade")
    BY <2>1, FailsAtType
  <2>2. CASE RkcLoadKsfV1
    BY <1>4, <2>2 DEF RkcLoadKsfV1, Kinds
  <2>3. CASE ~FailsAt("upgrade") /\ ~RkcLoadKsfV1
    <3>1. data["v1"].key \in 0 .. NoKey /\ g_hksRkcMk \in 0 .. NoKey
      BY FileFacts DEF TypeOK, Kinds
    <3> QED
      BY <1>7, <1>9, <2>3, <3>1 DEF UpgradeV1ToV2
  <2> QED
    BY <2>1, <2>2, <2>3
<1>10. CASE RkcWriteAllKsf
  <2>1. file' \in [Kinds -> [Copies -> Files]] /\ faults' \in 0 .. MaxFaults /\ sound' \in BOOLEAN
    BY <1>10, WriteType DEF RkcWriteAllKsf
  <2>2. CASE InitFailed
    BY <1>10, <2>1, <2>2, InitFailedType DEF RkcWriteAllKsf, TypeOK
  <2>3. CASE ~InitFailed
    <3>1. todo' \in Seq(Kinds \X Copies) /\ UNCHANGED <<step, data, upgrading, g_hksRkcMk>>
      BY <1>10, <2>3, TailType DEF RkcWriteAllKsf
    <3>2. stored' \in BOOLEAN
      BY <1>10, <2>3 DEF RkcWriteAllKsf, TypeOK
    <3> QED
      BY <1>10, <2>1, <3>1, <3>2 DEF RkcWriteAllKsf, TypeOK
  <2> QED
    BY <2>2, <2>3
<1>11. CASE AllWritten
  <2>1. CASE InitFailed /\ UNCHANGED loaded
    BY <1>11, <2>1, InitFailedType DEF AllWritten, TypeOK
  <2>2. CASE ~(InitFailed /\ UNCHANGED loaded)
    <3>1. loaded' \in BOOLEAN
      BY <1>11, <2>2 DEF AllWritten, TypeOK
    <3> QED
      BY <1>11, <2>2, <3>1 DEF AllWritten, TypeOK
  <2> QED
    BY <2>1, <2>2
<1>12. CASE RkcDeleteAllKsfV1
  <2>1. PICK left \in SUBSET {i \in Copies : file["v1"][i] # Absent} :
          /\ Faults(Cardinality(left))
          /\ file' = [file EXCEPT !["v1"] = [i \in Copies |-> IF i \in left THEN @[i] ELSE Absent]]
    BY <1>12 DEF RkcDeleteAllKsfV1
  <2>2. Cardinality(left) \in Nat
    BY CopyCount
  <2>3. faults' \in 0 .. MaxFaults /\ sound' \in BOOLEAN
    BY <2>1, <2>2, FaultsType
  <2>4. file' \in [Kinds -> [Copies -> Files]]
    BY <2>1, FileFacts DEF TypeOK, Kinds
  <2> QED
    BY <1>12, <2>3, <2>4 DEF RkcDeleteAllKsfV1, TypeOK
<1>13. CASE RkcMaskMk
  <2>1. CASE FailsAt("mask")
    BY <2>1, FailsAtType
  <2>2. CASE ~FailsAt("mask")
    <3>1. data["v1"].key \in 0 .. NoKey
      BY FileFacts DEF TypeOK, Kinds
    <3> QED
      BY <1>13, <2>2, <3>1 DEF RkcMaskMk, TypeOK
  <2> QED
    BY <2>1, <2>2
<1>14. CASE HksRkcGetMainKey
  <2>1. served' \subseteq 0 .. MaxMade
    BY <1>14, FileFacts DEF HksRkcGetMainKey, TypeOK
  <2> QED
    BY <1>14, <2>1 DEF HksRkcGetMainKey, TypeOK, init
<1>15. CASE Crash
  <2>1. file' \in [Kinds -> [Copies -> Files]]
    BY <1>15, PutFacts, FileFacts DEF Crash, TypeOK
  <2>2. data' \in [Kinds -> Files] /\ todo' \in Seq(Kinds \X Copies) /\ step' = "down"
        /\ g_hksRkcMk' \in 0 .. NoKey /\ stored' = FALSE /\ upgrading' = FALSE
    BY <1>0, <1>15 DEF Crash
  <2>3. UNCHANGED <<served, made, faults, sound, loaded, blind>>
    BY <1>15 DEF Crash, history
  <2> QED
    BY <2>1, <2>2, <2>3 DEF TypeOK
<1>16. CASE UNCHANGED vars
  BY <1>16 DEF vars, init, history, TypeOK
<1> QED
  BY <1>1, <1>2, <1>3, <1>4, <1>5, <1>6, <1>8, <1>9, <1>10, <1>11, <1>12, <1>13, <1>14,
     <1>15, <1>16
  DEF Next, KsfExistMk, KsfExistV1, ReadAllKsfMk, ReadAllKsfRkc, Kinds

Fits == FilesFit /\ StepFits /\ StartsAgain

(* A step that leaves the files and what was handed out alone.             *)
LEMMA FilesStay ==
    ASSUME FilesFit, UNCHANGED <<file, served>>, loaded' => SomeGood("mk")
    PROVE  FilesFit'
BY DEF FilesFit, IsGood, SomeGood

(* HksRkcInit fails: without a fault only before it has ever succeeded.    *)
LEMMA FailedFits ==
    ASSUME Fits, ~blind, InitFailed, UNCHANGED <<file, served, loaded>>, sound' => ~loaded
    PROVE  Fits'
<1>1. FilesFit'
  BY FilesStay DEF Fits, FilesFit
<1>2. step' = "failed" /\ todo' = <<>> /\ data' = data
  BY DEF InitFailed
<1>3. StepFits'
  BY <1>2 DEF Fits, StepFits
<1> QED
  BY <1>1, <1>2, <1>3 DEF Fits, StartsAgain

\* A step that fails.
LEMMA FailsAtFits ==
    ASSUME TypeOK, Fits, ~blind, NEW s, FailsAt(s)
    PROVE  Fits'
<1>1. Faults(1) /\ 1 \in Nat /\ 1 # 0
  BY DEF FailsAt
<1>2. ~sound'
  BY <1>1, FaultsType
<1> QED
  BY <1>2, FailedFits DEF FailsAt

(* A process starts or is told to load the keys again.                     *)
LEMMA StartFits ==
    ASSUME Fits, ~blind, HksCoreModuleInit \/ HksCoreRefreshKeyInfo
    PROVE  Fits'
<1>1. step' = "names" /\ step \in {"down", "up", "failed"} /\ UNCHANGED <<file, served, loaded, todo>>
      /\ data'["v1"] \in {data["v1"], Absent}
  BY DEF HksCoreModuleInit, HksCoreRefreshKeyInfo, Goto, Kinds
<1>2. FilesFit'
  BY <1>1, FilesStay DEF Fits, FilesFit
<1>3. StepFits'
  BY <1>1 DEF Fits, StepFits
<1> QED
  BY <1>1, <1>2, <1>3 DEF Fits, StartsAgain

\* The names of the files are set up.
LEMMA NamesFits ==
    ASSUME TypeOK, Fits, ~blind, InitKsfAttr
    PROVE  Fits'
<1>1. CASE FailsAt("names") \/ FailsAt("rkcNames")
  BY <1>1, FailsAtFits
<1>2. CASE /\ Goto("names", "existMk") \/ Goto("rkcNames", "readRkc")
           /\ UNCHANGED <<file, data, todo, stored, upgrading, g_hksRkcMk, history>>
  <2>1. UNCHANGED <<file, served, loaded, todo, data>>
    BY <1>2 DEF history
  <2>2. FilesFit'
    BY <2>1, FilesStay DEF Fits, FilesFit
  <2>3. StepFits'
    BY <1>2, <2>1 DEF Fits, StepFits, Goto, Read
  <2> QED
    BY <1>2, <2>2, <2>3 DEF Fits, StartsAgain, Goto
<1> QED
  BY <1>1, <1>2 DEF InitKsfAttr

(* KsfExist, as long as no file is taken for absent.                       *)
LEMMA ExistFits ==
    ASSUME TypeOK, Fits, ~blind', KsfExistMk \/ KsfExistV1
    PROVE  Fits'
<1>1. UNCHANGED <<file, served, loaded, todo, data>>
  BY DEF KsfExistMk, KsfExistV1, KsfExist
<1>2. ~blind
  BY DEF KsfExistMk, KsfExistV1, KsfExist
<1>3. FilesFit'
  BY <1>1, FilesStay DEF Fits, FilesFit
<1>4. CASE KsfExistMk
  <2>1. /\ step = "existMk" /\ step' \in {"readMk", "existV1"}
        /\ step' = "existV1" => NonePresent("mk")
    BY <1>4 DEF KsfExistMk, KsfExist, Goto, NonePresent
  <2>2. NonePresent("mk") => ~loaded
    BY FileFacts DEF Fits, FilesFit, SomeGood, IsGood, NonePresent
  <2>3. NonePresent("mk")' <=> NonePresent("mk")
    BY <1>1 DEF NonePresent
  <2>4. StepFits'
    BY <1>1, <2>1, <2>2, <2>3 DEF Fits, StepFits
  <2> QED
    BY <1>3, <2>1, <2>4 DEF Fits, StartsAgain
<1>5. CASE KsfExistV1
  <2>1. /\ step = "existV1" /\ step' \in {"upgrade", "create"}
        /\ step' = "create" => NonePresent("v1")
    BY <1>5 DEF KsfExistV1, KsfExist, Goto, NonePresent
  <2>2. /\ NonePresent("mk")' <=> NonePresent("mk")
        /\ NonePresent("v1")' <=> NonePresent("v1")
    BY <1>1 DEF NonePresent
  <2>3. StepFits'
    BY <1>1, <1>2, <2>1, <2>2 DEF Fits, StepFits
  <2> QED
    BY <1>3, <2>1, <2>3 DEF Fits, StartsAgain
<1> QED
  BY <1>4, <1>5

(* ReadAllKsf: the copy that is read stays, the other is to be written.    *)
LEMMA ReadMkFits ==
    ASSUME TypeOK, Fits, ~blind, ReadAllKsfMk
    PROVE  Fits'
<1>0. "mk" \in Kinds /\ ReadAll("mk", "readMk", "repairMk")
  BY DEF Kinds, ReadAllKsfMk
<1>1. step = "readMk" /\ UNCHANGED <<file, served, loaded>>
  BY <1>0, ReadFacts
<1>2. CASE InitFailed /\ (sound' => ~SomeGood("mk"))
  BY <1>1, <1>2, FailedFits DEF Fits, FilesFit
<1>3. CASE \E v \in Copies :
             /\ step' = "repairMk" /\ IsGood("mk", v)
             /\ data' = [data EXCEPT !["mk"] = file["mk"][v]]
             /\ todo' \in {<<>>, << <<"mk", Other(v)>> >>}
  <2>1. PICK v \in Copies :
             /\ step' = "repairMk" /\ IsGood("mk", v)
             /\ data' = [data EXCEPT !["mk"] = file["mk"][v]]
             /\ todo' \in {<<>>, << <<"mk", Other(v)>> >>}
    BY <1>3
  <2>2. data'["mk"] = file["mk"][v] /\ data'["v1"] = data["v1"]
    BY <2>1 DEF TypeOK, Kinds
  <2>3. FilesFit'
    BY <1>1, FilesStay DEF Fits, FilesFit
  <2>4. RepairFits("mk")'
    BY <1>1, <2>1, <2>2 DEF RepairFits, IsGood
  <2>5. StepFits'
    BY <1>1, <2>1, <2>2, <2>4 DEF Fits, StepFits
  <2> QED
    BY <2>1, <2>3, <2>5 DEF Fits, StartsAgain
<1> QED
  BY <1>0, <1>2, <1>3, ReadFacts

\* The next rkc file is read, or all have been.
LEMMA ReadRkcFits ==
    ASSUME TypeOK, Fits, ~blind, ReadAllKsfRkc
    PROVE  Fits'
<1>0. "rkc" \in Kinds /\ ReadAll("rkc", "readRkc", "repairRkc")
  BY DEF Kinds, ReadAllKsfRkc
<1>1. step = "readRkc" /\ UNCHANGED <<file, served, loaded>>
  BY <1>0, ReadFacts
<1>2. Read("mk") /\ SomeGood("rkc")
  BY <1>1 DEF Fits, StepFits, FilesFit, Read, SomeGood, IsGood
<1>3. CASE InitFailed /\ (sound' => ~SomeGood("rkc"))
  BY <1>1, <1>2, <1>3, FailedFits
<1>4. CASE \E v \in Copies :
             /\ step' = "repairRkc" /\ IsGood("rkc", v)
             /\ data' = [data EXCEPT !["rkc"] = file["rkc"][v]]
             /\ todo' \in {<<>>, << <<"rkc", Other(v)>> >>}
  <2>1. PICK v \in Copies :
             /\ step' = "repairRkc" /\ IsGood("rkc", v)
             /\ data' = [data EXCEPT !["rkc"] = file["rkc"][v]]
             /\ todo' \in {<<>>, << <<"rkc", Other(v)>> >>}
    BY <1>4
  <2>2. data'["rkc"] = file["rkc"][v] /\ data'["v1"] = data["v1"] /\ data'["mk"] = data["mk"]
    BY <2>1 DEF TypeOK, Kinds
  <2>3. FilesFit'
    BY <1>1, FilesStay DEF Fits, FilesFit
  <2>4. RepairFits("rkc")' /\ Read("mk")'
    BY <1>1, <1>2, <2>1, <2>2 DEF RepairFits, IsGood, Read
  <2>5. StepFits'
    BY <1>1, <2>1, <2>2, <2>4 DEF Fits, StepFits
  <2> QED
    BY <2>1, <2>3, <2>5 DEF Fits, StartsAgain
<1> QED
  BY <1>0, <1>3, <1>4, ReadFacts

(* RkcLoadKsfV1: every good copy of version 1 has the main key 0.          *)
LEMMA ReadV1Fits ==
    ASSUME TypeOK, Fits, ~blind, RkcLoadKsfV1
    PROVE  Fits'
<1>0. "v1" \in Kinds /\ ReadAll("v1", "upgrade", "upgrade")
  BY DEF Kinds, RkcLoadKsfV1
<1>1. step = "upgrade" /\ UNCHANGED <<file, served, loaded>>
  BY <1>0, ReadFacts
<1>2. ~loaded /\ NonePresent("mk")
  BY <1>1 DEF Fits, StepFits
<1>3. CASE InitFailed
  BY <1>1, <1>2, <1>3, FailedFits
<1>4. CASE \E v \in Copies :
             /\ step' = "upgrade" /\ IsGood("v1", v)
             /\ data' = [data EXCEPT !["v1"] = file["v1"][v]]
             /\ todo' = <<>>
  <2>1. PICK v \in Copies :
             /\ step' = "upgrade" /\ IsGood("v1", v)
             /\ data' = [data EXCEPT !["v1"] = file["v1"][v]]
             /\ todo' = <<>>
    BY <1>4
  <2>2. data'["v1"] = file["v1"][v]
    BY <2>1 DEF TypeOK, Kinds
  <2>3. file["v1"][v] = Good(0, 0)
    BY <2>1, FileFacts DEF Fits, FilesFit, IsGood
  <2>4. FilesFit'
    BY <1>1, FilesStay DEF Fits, FilesFit
  <2>5. StepFits'
    BY <1>1, <1>2, <2>1, <2>2, <2>3 DEF StepFits, NonePresent
  <2> QED
    BY <2>1, <2>4, <2>5 DEF Fits, StartsAgain
<1> QED
  BY <1>0, <1>3, <1>4, ReadFacts

(* One copy of a file gets other contents.                                 *)
Only(k, i, c) == \A kk \in Kinds, j \in Copies :
                   file'[kk][j] = IF kk = k /\ j = i THEN c ELSE file[kk][j]

(* A write changes the file that is next, to what was meant or to a torn   *)
(* file, or changes nothing.                                               *)
LEMMA WriteChanges ==
    ASSUME TypeOK, todo # <<>>, NEW k \in Kinds, NEW i \in Copies, Next1 = <<k, i>>
    PROVE  /\ Written => Only(k, i, data[k])
           /\ NotWritten => UNCHANGED file \/ Only(k, i, Torn)
           /\ Put(Torn) => Only(k, i, Torn)
<1>1. data[k] \in Files
  BY DEF TypeOK
<1>2. Written => Put(data[k])
  BY DEF Written
<1> QED
  BY <1>1, <1>2, PutFacts, FileFacts DEF NotWritten, Only

(* The other copy of a file that was read may be written, or get lost.     *)
LEMMA OverwriteFits ==
    ASSUME FilesFit, NEW kind \in {"mk", "rkc"}, NEW i \in Copies, IsGood(kind, i),
           NEW c \in {file[kind][i], Torn}, Only(kind, Other(i), c), UNCHANGED <<served, loaded>>
    PROVE  FilesFit'
<1>1. /\ \A kk \in Kinds \ {kind}, j \in Copies : file'[kk][j] = file[kk][j]
      /\ file'[kind][i] = file[kind][i] /\ file'[kind][Other(i)] = c
      /\ Other(i) \in Copies /\ Other(i) # i /\ \A j \in Copies : j = i \/ j = Other(i)
  BY DEF Only, Copies, Other, Kinds
<1>2. Torn.state = "torn"
  BY FileFacts
<1>3. \A j \in Copies : file'["v1"][j] = file["v1"][j]
  BY <1>1 DEF Kinds
<1>4. CASE kind = "mk"
  <2>1. \A j \in Copies : file'["rkc"][j] = file["rkc"][j]
    BY <1>1, <1>4 DEF Kinds
  <2>2. \A j \in Copies : file'["mk"][j] = file["mk"][i] \/ file'["mk"][j] = Torn
    BY <1>1, <1>4
  <2>3. SomeGood("mk") /\ SomeGood("mk")'
    BY <1>1, <1>4 DEF SomeGood, IsGood
  <2> QED
    BY <1>2, <1>3, <1>4, <2>1, <2>2, <2>3 DEF FilesFit, SomeGood, IsGood
<1>5. CASE kind = "rkc"
  <2>1. \A j \in Copies : file'["mk"][j] = file["mk"][j]
    BY <1>1, <1>5 DEF Kinds
  <2>2. \A j \in Copies : file'["rkc"][j] = file["rkc"][i] \/ file'["rkc"][j] = Torn
    BY <1>1, <1>5
  <2>3. SomeGood("rkc") /\ SomeGood("rkc")'
    BY <1>1, <1>5 DEF SomeGood, IsGood
  <2> QED
    BY <1>2, <1>3, <1>5, <2>1, <2>2, <2>3 DEF FilesFit, SomeGood, IsGood
<1> QED
  BY <1>4, <1>5

(* What a write in ReadAllKsf does to the files.                           *)
LEMMA RepairWrite ==
    ASSUME TypeOK, FilesFit, NEW kind \in {"mk", "rkc"}, RepairFits(kind), todo # <<>>,
           Written \/ NotWritten \/ Put(Torn) \/ UNCHANGED file, UNCHANGED <<served, loaded>>
    PROVE  /\ FilesFit' /\ Tail(todo) = <<>>
           /\ data[kind].state = "good" /\ \E i \in Copies : file'[kind][i] = data[kind]
           /\ \A kk \in Kinds \ {kind} : \A j \in Copies : file'[kk][j] = file[kk][j]
<1>1. PICK i \in Copies : todo = << <<kind, Other(i)>> >> /\ file[kind][i] = data[kind]
  BY DEF RepairFits
<1>2. Other(i) \in Copies /\ kind \in Kinds /\ Other(i) # i
  BY DEF Copies, Other, Kinds
<1>3. Next1 = <<kind, Other(i)>> /\ Tail(todo) = <<>>
  BY <1>1, Tails DEF Next1
<1>4. data[kind].state = "good" /\ IsGood(kind, i)
  BY <1>1 DEF RepairFits, IsGood
<1>5. UNCHANGED file \/ \E c \in {file[kind][i], Torn} : Only(kind, Other(i), c)
  BY <1>1, <1>2, <1>3, WriteChanges
<1>6. CASE UNCHANGED file
  <2>1. FilesFit'
    BY <1>6, FilesStay DEF FilesFit
  <2> QED
    BY <1>1, <1>3, <1>4, <1>6, <2>1
<1>7. CASE \E c \in {file[kind][i], Torn} : Only(kind, Other(i), c)
  <2>1. PICK c \in {file[kind][i], Torn} : Only(kind, Other(i), c)
    BY <1>7
  <2>2. FilesFit'
    BY <1>4, <2>1, OverwriteFits
  <2>3. file'[kind][i] = data[kind]
        /\ \A kk \in Kinds \ {kind} : \A j \in Copies : file'[kk][j] = file[kk][j]
    BY <1>1, <1>2, <2>1 DEF Only
  <2> QED
    BY <1>3, <1>4, <2>2, <2>3
<1> QED
  BY <1>5, <1>6, <1>7

\* The next mk file is repaired from what was read, or all have been.
LEMMA RepairMkFits ==
    ASSUME TypeOK, Fits, ~blind, RepairKsfMk
    PROVE  Fits'
<1>1. step = "repairMk" /\ UNCHANGED <<data, stored, upgrading, g_hksRkcMk, served, loaded>>
  BY DEF RepairKsfMk, RepairKsf
<1>2. RepairFits("mk")
  BY <1>1 DEF Fits, StepFits
<1>3. CASE todo = <<>>
  <2>1. step' = "rkcNames" /\ UNCHANGED <<file, todo>>
    BY <1>3 DEF RepairKsfMk, RepairKsf
  <2>2. FilesFit'
    BY <1>1, <2>1, FilesStay DEF Fits, FilesFit
  <2>3. Read("mk")'
    BY <1>1, <1>2, <1>3, <2>1 DEF RepairFits, Read
  <2>4. StepFits'
    BY <1>1, <1>3, <2>1, <2>3 DEF Fits, StepFits
  <2> QED
    BY <2>1, <2>2, <2>4 DEF Fits, StartsAgain
<1>4. CASE todo # <<>>
  <2>1. (Written \/ NotWritten) /\ todo' = Tail(todo) /\ step' = step
    BY <1>4 DEF RepairKsfMk, RepairKsf
  <2>2. /\ FilesFit' /\ todo' = <<>>
        /\ data["mk"].state = "good" /\ \E i \in Copies : file'["mk"][i] = data["mk"]
    BY <1>1, <1>2, <1>4, <2>1, RepairWrite DEF Fits
  <2>3. RepairFits("mk")'
    BY <1>1, <2>2 DEF RepairFits
  <2>4. StepFits'
    BY <1>1, <2>1, <2>2, <2>3 DEF Fits, StepFits
  <2> QED
    BY <1>1, <2>1, <2>2, <2>4 DEF Fits, StartsAgain
<1> QED
  BY <1>3, <1>4

\* The same for the rkc files.
LEMMA RepairRkcFits ==
    ASSUME TypeOK, Fits, ~blind, RepairKsfRkc
    PROVE  Fits'
<1>1. step = "repairRkc" /\ UNCHANGED <<data, stored, upgrading, g_hksRkcMk, served, loaded>>
  BY DEF RepairKsfRkc, RepairKsf
<1>2. RepairFits("rkc") /\ Read("mk")
  BY <1>1 DEF Fits, StepFits
<1>3. CASE todo = <<>>
  <2>1. step' = "decrypt" /\ UNCHANGED <<file, todo>>
    BY <1>3 DEF RepairKsfRkc, RepairKsf
  <2>2. FilesFit'
    BY <1>1, <2>1, FilesStay DEF Fits, FilesFit
  <2>3. Read("rkc")' /\ Read("mk")'
    BY <1>1, <1>2, <1>3, <2>1 DEF RepairFits, Read
  <2>4. StepFits'
    BY <1>1, <1>3, <2>1, <2>3 DEF Fits, StepFits
  <2> QED
    BY <2>1, <2>2, <2>4 DEF Fits, StartsAgain
<1>4. CASE todo # <<>>
  <2>1. (Written \/ NotWritten) /\ todo' = Tail(todo) /\ step' = step
    BY <1>4 DEF RepairKsfRkc, RepairKsf
  <2>2. /\ FilesFit' /\ todo' = <<>>
        /\ data["rkc"].state = "good" /\ \E i \in Copies : file'["rkc"][i] = data["rkc"]
        /\ \A kk \in Kinds \ {"rkc"} : \A j \in Copies : file'[kk][j] = file[kk][j]
    BY <1>1, <1>2, <1>4, <2>1, RepairWrite DEF Fits
  <2>3. RepairFits("rkc")'
    BY <1>1, <2>2 DEF RepairFits
  <2>4. Read("mk")'
    BY <1>1, <1>2, <2>2 DEF Read, Kinds
  <2>5. StepFits'
    BY <1>1, <2>1, <2>2, <2>3, <2>4 DEF Fits, StepFits
  <2> QED
    BY <1>1, <2>1, <2>2, <2>5 DEF Fits, StartsAgain
<1> QED
  BY <1>3, <1>4

(* RkcMkCrypt: the material fits, so that without a fault the main key is  *)
(* decrypted.                                                              *)
LEMMA CryptFits ==
    ASSUME TypeOK, Fits, ~blind, RkcMkCrypt
    PROVE  Fits'
<1>1. CASE FailsAt("decrypt")
  BY <1>1, FailsAtFits
<1>2. CASE ~FailsAt("decrypt")
  <2>1. step = "decrypt" /\ UNCHANGED <<file, served>>
    BY <1>2 DEF RkcMkCrypt
  <2>2. Read("mk") /\ Read("rkc")
    BY <2>1 DEF Fits, StepFits
  <2>3. data["mk"].material = data["rkc"].material /\ SomeGood("mk")
    BY <2>2 DEF Fits, FilesFit, Read, IsGood, SomeGood
  <2>4. step' = "up" /\ g_hksRkcMk' = data["mk"].key /\ UNCHANGED <<data, todo>>
    BY <1>2, <2>3 DEF RkcMkCrypt
  <2>5. FilesFit'
    BY <2>1, <2>3, FilesStay DEF Fits
  <2>6. (\E i \in Copies : IsGood("mk", i) /\ file["mk"][i].key = g_hksRkcMk)'
    BY <2>1, <2>2, <2>4 DEF Read, IsGood
  <2>7. StepFits'
    BY <2>1, <2>4, <2>6 DEF Fits, StepFits
  <2> QED
    BY <2>4, <2>5, <2>7 DEF Fits, StartsAgain
<1> QED
  BY <1>1, <1>2

(* New material is made only when no main key file is there; a new main    *)
(* key only when none was ever handed out.                                 *)
LEMMA MakeFits ==
    ASSUME TypeOK, Fits, ~blind, NEW key \in 0 .. NoKey, Make(key), NonePresent("mk"), ~loaded,
           step' = "write", UNCHANGED <<file, served, sound, loaded, blind>>,
           IF upgrading' THEN data["v1"] = Good(0, 0) /\ key = 0
           ELSE NonePresent("v1") /\ g_hksRkcMk' = key
    PROVE  Fits'
<1>1. made + 1 \in 0 .. MaxMade /\ NoKey \in 0 .. NoKey
  BY FileFacts DEF Make, TypeOK
<1>2. /\ data'["rkc"] = Good(made + 1, NoKey) /\ data'["mk"] = Good(made + 1, key)
      /\ data'["v1"] = data["v1"]
  BY DEF Make, TypeOK, Kinds
<1>3. /\ data'["mk"].state = "good" /\ data'["rkc"].state = "good"
      /\ data'["mk"].material = data'["rkc"].material /\ data'["mk"].key = key
  BY <1>1, <1>2, FileFacts
<1>4. todo' = << <<"rkc", 1>>, <<"rkc", 2>>, <<"mk", 1>>, <<"mk", 2>> >> /\ stored' = FALSE
  BY DEF Make
<1>5. FilesFit'
  BY FilesStay DEF Fits
<1>6. NonePresent("v1") => served = {}
  BY FileFacts DEF Fits, FilesFit, NonePresent, SomeGood, IsGood
<1>7. NonePresent("mk")' /\ (NonePresent("v1") => NonePresent("v1")')
  BY DEF NonePresent
<1>8. (IF upgrading THEN data["v1"] = Good(0, 0) /\ data["mk"].key = 0
       ELSE NonePresent("v1") /\ served = {} /\ g_hksRkcMk = data["mk"].key)'
  <2>1. CASE upgrading'
    BY <1>2, <1>3, <2>1
  <2>2. CASE ~upgrading'
    BY <1>3, <1>6, <1>7, <2>2
  <2> QED
    BY <2>1, <2>2
<1>9. WriteFits'
  BY <1>3, <1>4, <1>7, <1>8 DEF WriteFits, WrittenSoFar
<1>10. StepFits'
  BY <1>2, <1>9 DEF Fits, StepFits
<1> QED
  BY <1>5, <1>10 DEF Fits, StartsAgain

\* New key material is made.
LEMMA CreateFits ==
    ASSUME TypeOK, Fits, ~blind, RkcCreateKsf
    PROVE  Fits'
<1>1. CASE FailsAt("create")
  BY <1>1, FailsAtFits
<1>2. CASE ~FailsAt("create")
  <2>1. /\ Goto("create", "write") /\ Make(made + 1) /\ upgrading' = FALSE
        /\ g_hksRkcMk' = made + 1 /\ UNCHANGED <<file, served, faults, sound, loaded, blind>>
    BY <1>2 DEF RkcCreateKsf
  <2>2. NonePresent("mk") /\ NonePresent("v1") /\ ~loaded
    BY <2>1 DEF Fits, StepFits, Goto
  <2>3. made + 1 \in 0 .. NoKey
    BY <2>1, FileFacts DEF Make, TypeOK
  <2> QED
    BY <2>1, <2>2, <2>3, MakeFits DEF Goto
<1> QED
  BY <1>1, <1>2

\* The files of version 1 are loaded and the upgrade begins.
LEMMA UpgradeFits ==
    ASSUME TypeOK, Fits, ~blind, UpgradeV1ToV2
    PROVE  Fits'
<1>1. CASE FailsAt("upgrade")
  BY <1>1, FailsAtFits
<1>2. CASE RkcLoadKsfV1
  BY <1>2, ReadV1Fits
<1>3. CASE ~FailsAt("upgrade") /\ ~RkcLoadKsfV1
  <2>1. /\ data["v1"] # Absent /\ Goto("upgrade", "write") /\ Make(data["v1"].key)
        /\ upgrading' = TRUE /\ UNCHANGED <<file, served, faults, sound, loaded, blind>>
    BY <1>3 DEF UpgradeV1ToV2
  <2>2. NonePresent("mk") /\ ~loaded /\ data["v1"] = Good(0, 0)
    BY <2>1 DEF Fits, StepFits, Goto
  <2>3. data["v1"].key = 0 /\ 0 \in 0 .. NoKey
    BY <2>2, FileFacts
  <2> QED
    BY <2>1, <2>2, <2>3, MakeFits DEF Goto
<1> QED
  BY <1>1, <1>2, <1>3

(* As long as there is no main key file, the files of the root key do not  *)
(* matter.                                                                 *)
LEMMA NoMkFits ==
    ASSUME FilesFit, NonePresent("mk"), UNCHANGED <<served, loaded>>,
           \A i \in Copies : file'["mk"][i] = file["mk"][i] /\ file'["v1"][i] = file["v1"][i]
    PROVE  FilesFit'
<1>1. \A i \in Copies : ~IsGood("mk", i) /\ ~IsGood("mk", i)'
  BY FileFacts DEF NonePresent, IsGood
<1>2. ~SomeGood("mk") /\ ~SomeGood("mk")' /\ (SomeGood("v1")' <=> SomeGood("v1"))
  BY <1>1 DEF SomeGood, IsGood
<1> QED
  BY <1>1, <1>2 DEF FilesFit

(* The main key is written once both root key files are.                   *)
LEMMA WriteMkFits ==
    ASSUME FilesFit, WriteFits, NEW i \in Copies, NEW c \in {data["mk"], Torn},
           file["mk"][i] = Absent, Only("mk", i, c), UNCHANGED <<served, loaded>>,
           \A j \in Copies : file["rkc"][j] = data["rkc"] /\ Partly(j)
    PROVE  FilesFit' /\ \A j \in Copies : file'["rkc"][j] = data["rkc"]
                          /\ file'["mk"][j] \in {Absent, Torn, data["mk"]}
<1>1. /\ \A j \in Copies : file'["rkc"][j] = data["rkc"] /\ file'["v1"][j] = file["v1"][j]
      /\ \A j \in Copies : file'["mk"][j] = IF j = i THEN c ELSE file["mk"][j]
  BY DEF Only, Kinds
<1>2. \A j \in Copies : file'["mk"][j] \in {Absent, Torn, data["mk"]}
                          /\ file["mk"][j] \in {Absent, Torn, data["mk"]}
  BY <1>1 DEF Partly
<1>3. /\ data["mk"].state = "good" /\ data["rkc"].state = "good"
      /\ data["mk"].material = data["rkc"].material
      /\ IF upgrading THEN data["mk"].key = 0 ELSE NonePresent("v1") /\ served = {}
  BY DEF WriteFits
<1>4. Absent.state # "good" /\ Torn.state # "good"
  BY FileFacts
<1>5. \A j \in Copies : (IsGood("mk", j) => file["mk"][j] = data["mk"])
                          /\ (IsGood("mk", j)' => file'["mk"][j] = data["mk"])
  BY <1>2, <1>4 DEF IsGood
<1>6. SomeGood("v1")' <=> SomeGood("v1")
  BY <1>1 DEF SomeGood, IsGood
<1>7. \A k \in served : k = data["mk"].key
  <2> SUFFICES ASSUME NEW k \in served PROVE k = data["mk"].key
    OBVIOUS
  <2>1. upgrading /\ data["mk"].key = 0
    BY <1>3
  <2>2. CASE SomeGood("v1")
    BY <2>1, <2>2 DEF FilesFit
  <2>3. CASE SomeGood("mk")
    BY <1>5, <2>3 DEF FilesFit, SomeGood
  <2> QED
    BY <2>2, <2>3 DEF FilesFit
<1>8. SomeGood("v1") => data["mk"].key = 0 
  BY <1>3, <1>4 DEF SomeGood, IsGood, NonePresent
<1>9. SomeGood("rkc")'
  BY <1>1, <1>3 DEF SomeGood, IsGood, Copies
<1>10. SomeGood("mk") => SomeGood("mk")'
  BY <1>1, <1>4 DEF SomeGood, IsGood
<1>11. \A k \in served :
         /\ SomeGood("mk")' \/ SomeGood("v1")'
         /\ \A j \in Copies : IsGood("mk", j)' => file'["mk"][j].key = k
         /\ SomeGood("v1")' => k = 0
  BY <1>5, <1>6, <1>7, <1>8, <1>10 DEF FilesFit
<1>12. FilesFit'
  <2>1. \A j \in Copies : IsGood("rkc", j)' => file'["rkc"][j] = data["rkc"]
    BY <1>1
  <2> QED
    BY <1>1, <1>3, <1>5, <1>6, <1>8, <1>9, <1>10, <1>11, <2>1 DEF FilesFit
<1> QED
  BY <1>1, <1>2, <1>12

(* After a failure, when the files still fit.                              *)
LEMMA FailedAfterWrite ==
    ASSUME Fits, ~blind, FilesFit', InitFailed, UNCHANGED loaded, ~loaded
    PROVE  Fits'
<1>1. step' = "failed" /\ todo' = <<>> /\ data' = data
  BY DEF InitFailed
<1>2. StepFits'
  BY <1>1 DEF Fits, StepFits
<1> QED
  BY <1>2 DEF Fits, StartsAgain

(* One write of RkcWriteAllKsf, and a crash in it, file by file.           *)
LEMMA WriteFiles ==
    ASSUME TypeOK, FilesFit, WriteFits, todo # <<>>, UNCHANGED <<served, loaded>>,
           Written \/ NotWritten \/ Put(Torn) \/ UNCHANGED file
    PROVE  /\ FilesFit'
           /\ \A i \in Copies : file'["v1"][i] = file["v1"][i]
           /\ SomeGood("mk") => SomeGood("mk")'
           /\ Written /\ Next1[1] = "mk" => SomeGood("mk")'
           /\ (Written \/ Next1[1] = "mk") /\ todo' = Tail(todo) /\ UNCHANGED data => WrittenSoFar'
<1>3. /\ "rkc" \in Kinds /\ "mk" \in Kinds /\ "v1" \in Kinds /\ 1 \in Copies /\ 2 \in Copies
      /\ \A i \in Copies : i = 1 \/ i = 2
  BY DEF Kinds, Copies
<1>4. CASE /\ todo = << <<"rkc", 1>>, <<"rkc", 2>>, <<"mk", 1>>, <<"mk", 2>> >>
           /\ NonePresent("mk")
  <2>1. Next1 = <<"rkc", 1>> /\ Tail(todo) = << <<"rkc", 2>>, <<"mk", 1>>, <<"mk", 2>> >>
    BY <1>4, Tails DEF Next1
  <2>2. UNCHANGED file \/ \E c \in {data["rkc"], Torn} : Only("rkc", 1, c)
    BY <1>3, <2>1, WriteChanges
  <2>3. \A i \in Copies : file'["mk"][i] = file["mk"][i] /\ file'["v1"][i] = file["v1"][i]
    BY <1>3, <2>2 DEF Only
  <2>4. FilesFit'
    BY <1>4, <2>3, NoMkFits
  <2>5. Written => file'["rkc"][1] = data["rkc"]
    BY <1>3, <2>1, WriteChanges DEF Only
  <2>6. NonePresent("mk")'
    BY <1>4, <2>3 DEF NonePresent
  <2>7. Next1[1] # "mk" /\ ~SomeGood("mk")
    BY <1>4, <2>1, FileFacts DEF SomeGood, IsGood, NonePresent
  <2> QED
    BY <2>1, <2>3, <2>4, <2>5, <2>6, <2>7 DEF WrittenSoFar
<1>5. CASE /\ todo = << <<"rkc", 2>>, <<"mk", 1>>, <<"mk", 2>> >>
           /\ file["rkc"][1] = data["rkc"] /\ NonePresent("mk")
  <2>1. Next1 = <<"rkc", 2>> /\ Tail(todo) = << <<"mk", 1>>, <<"mk", 2>> >>
    BY <1>5, Tails DEF Next1
  <2>2. UNCHANGED file \/ \E c \in {data["rkc"], Torn} : Only("rkc", 2, c)
    BY <1>3, <2>1, WriteChanges
  <2>3. \A i \in Copies : file'["mk"][i] = file["mk"][i] /\ file'["v1"][i] = file["v1"][i]
    BY <1>3, <2>2 DEF Only
  <2>4. FilesFit'
    BY <1>5, <2>3, NoMkFits
  <2>5. Written => file'["rkc"][2] = data["rkc"] /\ file'["rkc"][1] = data["rkc"]
    BY <1>3, <1>5, <2>1, WriteChanges DEF Only
  <2>6. \A i \in Copies : file'["mk"][i] = Absent
    BY <1>5, <2>3 DEF NonePresent
  <2>7. Next1[1] # "mk" /\ ~SomeGood("mk")
    BY <1>5, <2>1, FileFacts DEF SomeGood, IsGood, NonePresent
  <2>8. Written /\ UNCHANGED data => \A i \in Copies : file'["rkc"][i] = data'["rkc"] /\ Partly(i)'
    BY <1>3, <2>5, <2>6 DEF Partly
  <2> QED
    BY <1>3, <2>1, <2>3, <2>4, <2>6, <2>7, <2>8 DEF WrittenSoFar
<1>6. CASE /\ todo \in {<< <<"mk", 1>>, <<"mk", 2>> >>, << <<"mk", 2>> >>}
           /\ \A i \in Copies : file["rkc"][i] = data["rkc"] /\ Partly(i)
           /\ Len(todo) = 2 => file["mk"][1] = Absent
           /\ Len(todo) > 0 => file["mk"][2] = Absent
  <2>1. PICK n \in Copies : /\ Next1 = <<"mk", n>> /\ file["mk"][n] = Absent
                            /\ Tail(todo) = IF n = 1 THEN << <<"mk", 2>> >> ELSE <<>>
    <3>1. CASE todo = << <<"mk", 1>>, <<"mk", 2>> >>
      BY <1>3, <1>6, <3>1, Tails DEF Next1
    <3>2. CASE todo = << <<"mk", 2>> >>
      BY <1>3, <1>6, <3>2, Tails DEF Next1
    <3> QED
      BY <1>6, <3>1, <3>2
  <2>2. UNCHANGED file \/ \E c \in {data["mk"], Torn} : Only("mk", n, c)
    BY <1>3, <2>1, WriteChanges
  <2>3. /\ FilesFit'
        /\ \A j \in Copies : file'["rkc"][j] = data["rkc"]
             /\ file'["mk"][j] \in {Absent, Torn, data["mk"]}
    <3>1. CASE UNCHANGED file
      <4>1. FilesFit'
        BY <3>1, FilesStay DEF FilesFit
      <4> QED
        BY <1>6, <3>1, <4>1 DEF Partly
    <3>2. CASE \E c \in {data["mk"], Torn} : Only("mk", n, c)
      BY <1>6, <2>1, <3>2, WriteMkFits
    <3> QED
      BY <2>2, <3>1, <3>2
  <2>4. /\ \A j \in Copies : file'["v1"][j] = file["v1"][j]
        /\ \A j \in Copies \ {n} : file'["mk"][j] = file["mk"][j]
    BY <1>3, <2>2 DEF Only
  <2>5. SomeGood("mk") => SomeGood("mk")'
    BY <2>1, <2>4, FileFacts DEF SomeGood, IsGood
  <2>6. Written => SomeGood("mk")'
    <3>1. Written => file'["mk"][n] = data["mk"]
      BY <1>3, <2>1, WriteChanges DEF Only
    <3> QED
      BY <3>1 DEF SomeGood, IsGood, WriteFits
  <2>7. todo' = Tail(todo) /\ UNCHANGED data => WrittenSoFar'
    <3> SUFFICES ASSUME todo' = Tail(todo), UNCHANGED data PROVE WrittenSoFar'
      OBVIOUS
    <3>1. \A i \in Copies : file'["rkc"][i] = data'["rkc"] /\ Partly(i)'
      BY <2>3 DEF Partly
    <3>2. n = 1 => file'["mk"][2] = Absent
      BY <1>3, <1>6, <2>1, <2>4
    <3>3. CASE n = 1
      BY <2>1, <3>1, <3>2, <3>3 DEF WrittenSoFar
    <3>4. CASE n # 1
      <4>1. todo' = <<>>
        BY <2>1, <3>4
      <4>2. Len(<<>>) = 0
        BY EmptySeq
      <4>3. /\ Len(<<>>) = 2 => file'["mk"][1] = Absent
            /\ Len(<<>>) > 0 => file'["mk"][2] = Absent
        BY <4>2
      <4>4. todo' \in {<< <<"mk", 1>>, <<"mk", 2>> >>, << <<"mk", 2>> >>, <<>>}
        BY <4>1
      <4> QED
        BY <3>1, <4>1, <4>3, <4>4 DEF WrittenSoFar
    <3> QED
      BY <3>3, <3>4
  <2> QED
    BY <2>3, <2>4, <2>5, <2>6, <2>7
<1> QED
  BY <1>4, <1>5, <1>6 DEF WriteFits, WrittenSoFar

\* The next of all files is written, or fails to be.
LEMMA WriteAllFits ==
    ASSUME TypeOK, Fits, ~blind, RkcWriteAllKsf
    PROVE  Fits'
<1>1. /\ step = "write" /\ todo # <<>>
      /\ Written \/ NotWritten
      /\ UNCHANGED <<served, loaded>>
  BY DEF RkcWriteAllKsf
<1>2. WriteFits /\ FilesFit /\ StepFits /\ ~loaded
  BY <1>1 DEF Fits, StepFits
<1>3. /\ FilesFit'
      /\ \A i \in Copies : file'["v1"][i] = file["v1"][i]
      /\ SomeGood("mk") => SomeGood("mk")'
      /\ Written /\ Next1[1] = "mk" => SomeGood("mk")'
      /\ (Written \/ Next1[1] = "mk") /\ todo' = Tail(todo) /\ UNCHANGED data => WrittenSoFar'
  BY <1>1, <1>2, WriteFiles
<1>4. CASE InitFailed
  BY <1>1, <1>2, <1>3, <1>4, FailedAfterWrite
<1>5. CASE ~InitFailed
  <2>1. Next1[1] \in Kinds
    <3>1. Next1 \in Kinds \X Copies
      BY <1>1, HeadTailProperties DEF TypeOK, Next1
    <3> QED
      BY <3>1
  <2>2. Next1[1] # "rkc" => Next1[1] = "mk"
    BY <1>1, <1>2, Tails DEF WriteFits, WrittenSoFar, Next1
  <2>3. /\ todo' = Tail(todo) /\ UNCHANGED <<step, data, upgrading, g_hksRkcMk>>
        /\ Written \/ Next1[1] = "mk"
        /\ stored' = stored \/ (Written /\ Next1[1] = "mk" /\ stored' = TRUE)
    <3>1. CASE Written /\ stored' = (stored \/ Next1[1] = "mk") /\ todo' = Tail(todo)
               /\ UNCHANGED <<step, data, upgrading, g_hksRkcMk>>
      BY <3>1 DEF TypeOK
    <3>2. CASE NotWritten /\ todo' = Tail(todo) /\ Next1[1] # "rkc"
               /\ UNCHANGED <<step, data, stored, upgrading, g_hksRkcMk>>
      BY <2>2, <3>2
    <3> QED
      BY <1>5, <3>1, <3>2 DEF RkcWriteAllKsf
  <2>4. WrittenSoFar'
    BY <1>3, <2>3
  <2>5. stored' => SomeGood("mk")'
    BY <1>2, <1>3, <2>3 DEF WriteFits
  <2>6. NonePresent("v1") => NonePresent("v1")'
    BY <1>3 DEF NonePresent
  <2>7. WriteFits'
    BY <1>1, <1>2, <2>3, <2>4, <2>5, <2>6 DEF WriteFits
  <2>8. StepFits'
    BY <1>1, <1>2, <2>3, <2>7 DEF StepFits
  <2> QED
    BY <1>1, <1>3, <2>3, <2>8 DEF Fits, StartsAgain
<1> QED
  BY <1>4, <1>5

(* RkcWriteAllKsf is over: the main key that is used now is in a file.     *)
LEMMA AllWrittenFits ==
    ASSUME TypeOK, Fits, ~blind, AllWritten
    PROVE  Fits'
<1>1. step = "write" /\ todo = <<>> /\ UNCHANGED <<file, served>>
  BY DEF AllWritten
<1>2. WriteFits /\ FilesFit /\ StepFits /\ ~loaded
  BY <1>1 DEF Fits, StepFits
<1>3. CASE ~stored
  <2>1. InitFailed /\ UNCHANGED loaded
    BY <1>3 DEF AllWritten
  <2> QED
    BY <1>1, <1>2, <2>1, FailedFits
<1>4. CASE stored
  <2>1. /\ step' = IF upgrading THEN "deleteV1" ELSE "up"
        /\ UNCHANGED <<data, todo, g_hksRkcMk>>
    BY <1>4 DEF AllWritten
  <2>2. PICK i \in Copies : IsGood("mk", i)
    BY <1>2, <1>4 DEF WriteFits, SomeGood
  <2>3. file["mk"][i] = data["mk"]
    <3>1. Partly(i)
      BY <1>1, <1>2, <2>2 DEF WriteFits, WrittenSoFar
    <3> QED
      BY <2>2, <3>1, FileFacts DEF Partly, IsGood
  <2>4. FilesFit'
    BY <1>1, <1>2, <2>2, FilesStay DEF SomeGood
  <2>5. loaded' => ~upgrading
    BY <1>2, <1>4 DEF AllWritten
  <2>6. CASE upgrading
    <3>1. data["v1"] = Good(0, 0) /\ file["mk"][i].key = 0
      BY <1>2, <2>3, <2>6 DEF WriteFits
    <3>2. (\E j \in Copies : IsGood("mk", j) /\ file["mk"][j].key = 0)'
      BY <1>1, <2>2, <3>1 DEF IsGood
    <3>3. StepFits'
      BY <1>1, <1>2, <2>1, <2>5, <2>6, <3>1, <3>2 DEF StepFits
    <3> QED
      BY <2>1, <2>4, <2>6, <3>3 DEF Fits, StartsAgain
  <2>7. CASE ~upgrading
    <3>1. file["mk"][i].key = g_hksRkcMk
      BY <1>2, <2>3, <2>7 DEF WriteFits
    <3>2. (\E j \in Copies : IsGood("mk", j) /\ file["mk"][j].key = g_hksRkcMk)'
      BY <1>1, <2>1, <2>2, <3>1 DEF IsGood
    <3>3. StepFits'
      BY <1>1, <1>2, <2>1, <2>7, <3>2 DEF StepFits
    <3> QED
      BY <2>1, <2>4, <2>7, <3>3 DEF Fits, StartsAgain
  <2> QED
    BY <2>6, <2>7
<1> QED
  BY <1>3, <1>4

(* The files of version 1 go only when the main key is in a new one.       *)
LEMMA DeleteV1Fits ==
    ASSUME TypeOK, Fits, ~blind, RkcDeleteAllKsfV1
    PROVE  Fits'
<1>1. step = "deleteV1" /\ step' = "mask" /\ UNCHANGED <<data, todo, served, loaded>>
  BY DEF RkcDeleteAllKsfV1, Goto
<1>2. /\ FilesFit /\ StepFits /\ ~loaded /\ data["v1"] = Good(0, 0) /\ SomeGood("mk")
      /\ \E i \in Copies : IsGood("mk", i) /\ file["mk"][i].key = 0
  BY <1>1 DEF Fits, StepFits, SomeGood
<1>3. PICK left \in SUBSET {i \in Copies : file["v1"][i] # Absent} :
        file' = [file EXCEPT !["v1"] = [i \in Copies |-> IF i \in left THEN @[i] ELSE Absent]]
  BY DEF RkcDeleteAllKsfV1
<1>4. /\ \A i \in Copies : file'["mk"][i] = file["mk"][i] /\ file'["rkc"][i] = file["rkc"][i]
      /\ \A i \in Copies : file'["v1"][i] = file["v1"][i] \/ file'["v1"][i] = Absent
  BY <1>3 DEF TypeOK, Kinds
<1>5. /\ \A i \in Copies : (IsGood("mk", i)' <=> IsGood("mk", i)) /\ (IsGood("rkc", i)' <=> IsGood("rkc", i))
      /\ (SomeGood("mk")' <=> SomeGood("mk")) /\ (SomeGood("rkc")' <=> SomeGood("rkc"))
      /\ SomeGood("v1")' => SomeGood("v1")
  BY <1>4, FileFacts DEF IsGood, SomeGood
<1>6. FilesFit'
  BY <1>1, <1>2, <1>4, <1>5 DEF FilesFit
<1>7. (\E i \in Copies : IsGood("mk", i) /\ file["mk"][i].key = 0)'
  BY <1>2, <1>4, <1>5
<1>8. StepFits'
  BY <1>1, <1>2, <1>7 DEF StepFits
<1> QED
  BY <1>1, <1>6, <1>8 DEF Fits, StartsAgain

\* The main key is masked and served.
LEMMA MaskFits ==
    ASSUME TypeOK, Fits, ~blind, RkcMaskMk
    PROVE  Fits'
<1>1. CASE FailsAt("mask")
  BY <1>1, FailsAtFits
<1>2. CASE ~FailsAt("mask")
  <2>1. /\ step = "mask" /\ step' = "up" /\ g_hksRkcMk' = data["v1"].key
        /\ UNCHANGED <<file, data, todo, served>>
    BY <1>2 DEF RkcMaskMk, Goto
  <2>2. /\ FilesFit /\ StepFits /\ data["v1"] = Good(0, 0) /\ SomeGood("mk")
        /\ \E i \in Copies : IsGood("mk", i) /\ file["mk"][i].key = 0
    BY <2>1 DEF Fits, StepFits, SomeGood
  <2>3. g_hksRkcMk' = 0
    BY <2>1, <2>2, FileFacts
  <2>4. (\E i \in Copies : IsGood("mk", i) /\ file["mk"][i].key = g_hksRkcMk)'
    BY <2>1, <2>2, <2>3 DEF IsGood
  <2>5. FilesFit'
    BY <2>1, <2>2, FilesStay
  <2>6. StepFits'
    BY <2>1, <2>2, <2>4 DEF StepFits
  <2> QED
    BY <2>1, <2>5, <2>6 DEF Fits, StartsAgain
<1> QED
  BY <1>1, <1>2

(* What is handed out is the main key of every good copy.                  *)
LEMMA ServeFits ==
    ASSUME TypeOK, Fits, ~blind, HksRkcGetMainKey
    PROVE  Fits'
<1>1. /\ step = "up" /\ served' = served \cup {g_hksRkcMk}
      /\ UNCHANGED <<file, step, data, todo, stored, upgrading, g_hksRkcMk, sound, loaded, blind>>
  BY DEF HksRkcGetMainKey, init
<1>2. FilesFit /\ StepFits
  BY DEF Fits
<1>3. PICK i \in Copies : IsGood("mk", i) /\ file["mk"][i].key = g_hksRkcMk
  BY <1>1, <1>2 DEF StepFits
<1>4. \A j \in Copies : IsGood("mk", j) => file["mk"][j].key = g_hksRkcMk
  BY <1>2, <1>3 DEF FilesFit
<1>5. SomeGood("mk") /\ (SomeGood("v1") => g_hksRkcMk = 0)
  BY <1>2, <1>3 DEF FilesFit, SomeGood
<1>6. \A k \in {"rkc", "mk", "v1"} : (SomeGood(k)' <=> SomeGood(k))
                                      /\ \A j \in Copies : IsGood(k, j)' <=> IsGood(k, j)
  BY <1>1 DEF SomeGood, IsGood
<1>7. \A k \in served' :
         /\ SomeGood("mk")' \/ SomeGood("v1")'
         /\ \A j \in Copies : IsGood("mk", j)' => file'["mk"][j].key = k
         /\ SomeGood("v1")' => k = 0
  BY <1>1, <1>2, <1>4, <1>5, <1>6 DEF FilesFit
<1>8. FilesFit'
  BY <1>1, <1>2, <1>6, <1>7 DEF FilesFit
<1>9. StepFits'
  BY <1>1, <1>2, <1>6 DEF StepFits
<1> QED
  BY <1>1, <1>8, <1>9 DEF Fits, StartsAgain

(* A crash, in the middle of a write too.                                  *)
LEMMA CrashFits ==
    ASSUME TypeOK, Fits, ~blind, Crash
    PROVE  Fits'
<1>1. /\ step' = "down" /\ todo' = <<>> /\ UNCHANGED <<served, loaded>>
      /\ UNCHANGED file \/ (todo # <<>> /\ Put(Torn))
      /\ data' = [k \in Kinds |-> Absent]
  BY DEF Crash, history
<1>2. data'["v1"] = Absent
  BY <1>1 DEF Kinds
<1>3. FilesFit'
  <2>1. CASE UNCHANGED file
    BY <1>1, <2>1, FilesStay DEF Fits, FilesFit
  <2>2. CASE todo # <<>> /\ Put(Torn)
    <3>1. CASE step = "repairMk"
      BY <1>1, <2>2, <3>1, RepairWrite DEF Fits, StepFits
    <3>2. CASE step = "repairRkc"
      BY <1>1, <2>2, <3>2, RepairWrite DEF Fits, StepFits
    <3>3. CASE step = "write"
      BY <1>1, <2>2, <3>3, WriteFiles DEF Fits, StepFits
    <3> QED
      BY <2>2, <3>1, <3>2, <3>3 DEF Fits, StepFits
  <2> QED
    BY <1>1, <2>1, <2>2
<1>4. StepFits'
  BY <1>1, <1>2 DEF StepFits
<1> QED
  BY <1>1, <1>3, <1>4 DEF Fits, StartsAgain

(* A file that was once taken for absent is never forgotten.               *)
LEMMA BlindStays ==
    ASSUME TypeOK, [Next]_vars, ~blind'
    PROVE  ~blind
<1>1. CASE KsfExistMk \/ KsfExistV1
  BY <1>1 DEF KsfExistMk, KsfExistV1, KsfExist
<1>2. CASE ReadAllKsfMk \/ ReadAllKsfRkc \/ RkcLoadKsfV1
  BY <1>2 DEF ReadAllKsfMk, ReadAllKsfRkc, RkcLoadKsfV1, ReadAll
<1>3. CASE HksCoreModuleInit \/ HksCoreRefreshKeyInfo \/ InitKsfAttr
  BY <1>3 DEF HksCoreModuleInit, HksCoreRefreshKeyInfo, InitKsfAttr, FailsAt, history
<1>4. CASE RepairKsfMk \/ RepairKsfRkc \/ RkcMkCrypt
  BY <1>4 DEF RepairKsfMk, RepairKsfRkc, RepairKsf, RkcMkCrypt, FailsAt
<1>5. CASE RkcCreateKsf \/ UpgradeV1ToV2
  BY <1>2, <1>5 DEF RkcCreateKsf, UpgradeV1ToV2, FailsAt
<1>6. CASE RkcWriteAllKsf \/ AllWritten
  BY <1>6 DEF RkcWriteAllKsf, AllWritten
<1>7. CASE RkcDeleteAllKsfV1 \/ RkcMaskMk \/ HksRkcGetMainKey \/ Crash \/ UNCHANGED vars
  BY <1>7 DEF RkcDeleteAllKsfV1, RkcMaskMk, HksRkcGetMainKey, Crash, FailsAt, history, vars
<1> QED
  BY <1>1, <1>2, <1>3, <1>4, <1>5, <1>6, <1>7 DEF Next

\* Every step keeps the files and the step in progress consistent.
LEMMA FitsStep ==
    ASSUME TypeOK, Fits, ~blind', [Next]_vars
    PROVE  Fits'
<1>0. ~blind
  BY BlindStays
<1>1. CASE HksCoreModuleInit \/ HksCoreRefreshKeyInfo
  BY <1>0, <1>1, StartFits
<1>2. CASE InitKsfAttr
  BY <1>0, <1>2, NamesFits
<1>3. CASE KsfExistMk \/ KsfExistV1
  BY <1>3, ExistFits
<1>4. CASE ReadAllKsfMk
  BY <1>0, <1>4, ReadMkFits
<1>5. CASE RepairKsfMk
  BY <1>0, <1>5, RepairMkFits
<1>6. CASE ReadAllKsfRkc
  BY <1>0, <1>6, ReadRkcFits
<1>7. CASE RepairKsfRkc
  BY <1>0, <1>7, RepairRkcFits
<1>8. CASE RkcMkCrypt
  BY <1>0, <1>8, CryptFits
<1>9. CASE RkcCreateKsf
  BY <1>0, <1>9, CreateFits
<1>10. CASE UpgradeV1ToV2
  BY <1>0, <1>10, UpgradeFits
<1>11. CASE RkcWriteAllKsf
  BY <1>0, <1>11, WriteAllFits
<1>12. CASE AllWritten
  BY <1>0, <1>12, AllWrittenFits
<1>13. CASE RkcDeleteAllKsfV1
  BY <1>0, <1>13, DeleteV1Fits
<1>14. CASE RkcMaskMk
  BY <1>0, <1>14, MaskFits
<1>15. CASE HksRkcGetMainKey
  BY <1>0, <1>15, ServeFits
<1>16. CASE Crash
  BY <1>0, <1>16, CrashFits
<1>17. CASE UNCHANGED vars
  <2>1. UNCHANGED <<file, step, data, todo, stored, upgrading, g_hksRkcMk, served, sound, loaded, blind>>
    BY <1>17 DEF vars, init, history
  <2>2. FilesFit'
    BY <2>1, FilesStay DEF Fits, FilesFit
  <2>3. WriteFits => WriteFits'
    BY <2>1 DEF WriteFits, WrittenSoFar, Partly, NonePresent, SomeGood, IsGood
  <2>4. StepFits'
    BY <2>1, <2>3 DEF Fits, StepFits, RepairFits, Read, NonePresent, IsGood
  <2> QED
    BY <2>1, <2>2, <2>4 DEF Fits, StartsAgain
<1> QED
  BY <1>1, <1>2, <1>3, <1>4, <1>5, <1>6, <1>7, <1>8, <1>9, <1>10, <1>11, <1>12, <1>13, <1>14,
     <1>15, <1>16, <1>17 DEF Next

(* The invariant of HksRkcInit and of everything that can cut it short.    *)
THEOREM RootKeyInvariant == Spec => []RootKeyInv
<1>1. Init => RootKeyInv
  <2> SUFFICES ASSUME Init PROVE RootKeyInv
    OBVIOUS
  <2>1. PICK v1 \in [Copies -> {Absent, Torn, Good(0, 0)}] :
          /\ (\E i \in Copies : v1[i] # Absent) => \E i \in Copies : v1[i] = Good(0, 0)
          /\ file = [k \in Kinds |-> IF k = "v1" THEN v1 ELSE [i \in Copies |-> Absent]]
          /\ served = IF v1 = [i \in Copies |-> Absent] THEN {} ELSE {0}
    BY DEF Init
  <2>2. Good(0, 0) \in Files /\ 0 \in 0 .. MaxMade /\ 0 \in 0 .. NoKey /\ 0 \in 0 .. MaxFaults
        /\ NoKey \in 0 .. NoKey /\ Good(0, 0).state = "good"
    BY FileFacts
  <2>3. v1 \in [Copies -> Files]
    BY <2>2, FileFacts
  <2>4. file \in [Kinds -> [Copies -> Files]] /\ served \subseteq 0 .. MaxMade
    BY <2>1, <2>2, <2>3, FileFacts
  <2>5. data \in [Kinds -> Files] /\ data["v1"] = Absent
    BY FileFacts DEF Init, Kinds
  <2>6. <<>> \in Seq(Kinds \X Copies)
    BY EmptySeq
  <2>7. TypeOK
    BY <2>2, <2>4, <2>5, <2>6 DEF Init, TypeOK
  <2>8. \A i \in Copies : file["v1"][i] = v1[i] /\ file["mk"][i] = Absent
    BY <2>1 DEF Kinds
  <2>9. \A i \in Copies : ~IsGood("mk", i)
    BY <2>8, FileFacts DEF IsGood
  <2>10. \A k \in served : k = 0 /\ SomeGood("v1")
    <3> SUFFICES ASSUME NEW k \in served PROVE k = 0 /\ SomeGood("v1")
      OBVIOUS
    <3>1. k = 0 /\ \E i \in Copies : v1[i] # Absent
      BY <2>1
    <3> QED
      BY <2>1, <2>2, <2>8, <3>1 DEF SomeGood, IsGood
  <2>11. FilesFit
    BY <2>8, <2>9, <2>10 DEF Init, FilesFit, SomeGood
  <2>12. StepFits /\ StartsAgain
    BY <2>5 DEF Init, StepFits, StartsAgain
  <2> QED
    BY <2>7, <2>11, <2>12 DEF RootKeyInv
<1>2. RootKeyInv /\ [Next]_vars => RootKeyInv'
  <2> SUFFICES ASSUME RootKeyInv, [Next]_vars PROVE RootKeyInv'
    OBVIOUS
  <2>1. TypeOK'
    BY TypeStep DEF RootKeyInv
  <2>2. CASE blind'
    BY <2>1, <2>2 DEF RootKeyInv, StartsAgain
  <2>3. CASE ~blind'
    <3>1. ~blind
      BY <2>3, BlindStays DEF RootKeyInv
    <3>2. Fits'
      BY <2>3, <3>1, FitsStep DEF RootKeyInv, Fits
    <3> QED
      BY <2>1, <3>2 DEF RootKeyInv, Fits
  <2> QED
    BY <2>2, <2>3
<1> QED
  BY <1>1, <1>2, PTL DEF Spec

(* The state of the component keeps its types (TypeOK).                    *)
THEOREM RootKeyTypes == Spec => []TypeOK
<1>1. RootKeyInv => TypeOK
  BY DEF RootKeyInv
<1> QED
  BY <1>1, RootKeyInvariant, PTL

(* At most one main key is ever handed out by HksRkcGetMainKey, however    *)
(* often the process crashes and whatever fails, as long as KsfExist never *)
(* takes existing files for absent (OneMainKey).                           *)
THEOREM OneKey == Spec => []OneMainKey
<1>1. RootKeyInv => OneMainKey
  <2> SUFFICES ASSUME RootKeyInv, ~blind PROVE Cardinality(served) <= 1
    BY DEF OneMainKey
  <2>1. FilesFit
    BY DEF RootKeyInv
  <2>2. \A k, l \in served : k = l
    BY <2>1 DEF FilesFit, SomeGood
  <2>3. CASE served = {}
    BY <2>3, FS_EmptySet
  <2>4. CASE served # {}
    <3>1. PICK k \in served : TRUE
      BY <2>4
    <3>2. served = {k}
      BY <2>2, <3>1
    <3> QED
      BY <3>2, FS_Singleton
  <2> QED
    BY <2>3, <2>4
<1> QED
  BY <1>1, RootKeyInvariant, PTL

(* A main key that was handed out can be read back from the files at every *)
(* moment, in the middle of a repair, of RkcWriteAllKsf and of the upgrade *)
(* from version 1 too (ServedIsStored).                                    *)
THEOREM ServedStored == Spec => []ServedIsStored
<1>1. RootKeyInv => ServedIsStored
  <2> SUFFICES ASSUME RootKeyInv, ~blind, NEW k \in served
               PROVE  \/ \E i, j \in Copies :
                           /\ file["mk"][i].state = "good" /\ file["mk"][i].key = k
                           /\ file["rkc"][j].state = "good"
                           /\ file["rkc"][j].material = file["mk"][i].material
                      \/ \E i \in Copies : file["v1"][i] = Good(0, k)
    BY DEF ServedIsStored
  <2>1. FilesFit
    BY DEF RootKeyInv
  <2>2. CASE SomeGood("mk")
    <3>1. PICK i \in Copies, j \in Copies : IsGood("mk", i) /\ IsGood("rkc", j)
      BY <2>1, <2>2 DEF FilesFit, SomeGood
    <3> QED
      BY <2>1, <3>1 DEF FilesFit, IsGood
  <2>3. CASE SomeGood("v1")
    <3>1. PICK i \in Copies : IsGood("v1", i)
      BY <2>3 DEF SomeGood
    <3>2. file["v1"][i] = Good(0, 0) /\ k = 0
      BY <2>1, <2>3, <3>1, FileFacts DEF FilesFit, IsGood
    <3> QED
      BY <3>2
  <2> QED
    BY <2>1, <2>2, <2>3 DEF FilesFit
<1> QED
  BY <1>1, RootKeyInvariant, PTL

(* Once HksRkcInit has succeeded, it fails only when something fails in    *)
(* it: neither a torn copy nor a crash keeps it from loading the main key  *)
(* (StartsAgain).                                                          *)
THEOREM Restarts == Spec => []StartsAgain
<1>1. RootKeyInv => StartsAgain
  BY DEF RootKeyInv
<1> QED
  BY <1>1, RootKeyInvariant, PTL
=============================================================================
