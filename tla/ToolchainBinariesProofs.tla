---------------------- MODULE ToolchainBinariesProofs ----------------------
(***************************************************************************)
(* A server that restores its disk needs no download for what was cached   *)
(* with a marker, for any servers, releases and file names and any number  *)
(* of crashes and removals.                                                *)
(*                                                                         *)
(* The markers in the bucket name binaries in the bucket (MarkerInv), and  *)
(* so do the keys that a server has listed: as long as no upload failed, a *)
(* server puts a marker after a binary that its disk holds all the while.  *)
(***************************************************************************)
EXTENDS ToolchainBinaries, WellFoundedInduction, TLAPS

USE DEF Goto, binary_name, disk, bucket, bounds

\* The disk holds the binary of a release whose marker is written or which is
\* about to be uploaded.
DiskInv ==
    \A m \in Machines : pc[m] \in {"mark", "write", "putBinary"} =>
        bin[m][binary_name(Release(m))] # NoFile

\* The bucket, the marker about to be put and the keys that were listed.
MarkerInv ==
    /\ \A r \in bucketMarkers : bucketBin[binary_name(r)] # NoFile
    /\ \A m \in Machines : pc[m] = "putMarker" => bucketBin[binary_name(Release(m))] # NoFile
    /\ \A m \in Machines, r \in Releases :
          <<"marker", r>> \in keys[m] => <<"binary", binary_name(r)>> \in keys[m]

ToolInv == TypeOK /\ DiskInv /\ (failedPuts = 0 => MarkerInv)

-----------------------------------------------------------------------------
(* Helpers *)

LEMMA Least ==
    ASSUME NEW T, T \subseteq Nat, T # {}
    PROVE  \E x \in T : \A y \in T : x <= y
<1> DEFINE R == {ss \in Nat \X Nat : ss[1] < ss[2]}
<1>1. IsWellFoundedOn(R, Nat)
    BY NatLessThanWellFounded DEF OpToRel
<1> HIDE DEF R
<1>2. PICK x \in T : \A y \in T : ~(<<y, x>> \in R)
    BY <1>1, WFMin
<1>3. \A y \in T : ~(y < x)
    BY <1>2 DEF R
<1> QED BY <1>3

LEMMA ReleaseType ==
    ASSUME TypeOK, NEW m \in Machines, todo[m] # {}
    PROVE  /\ Release(m) \in todo[m] /\ Release(m) \in Releases /\ Release(m) # NoFile
           /\ binary_name(Release(m)) \in Names
<1>1. todo[m] \subseteq Releases /\ todo[m] \subseteq Nat \ {NoFile}
    BY ReleasesAssumption DEF TypeOK, ReleasesAssumption
<1>2. Release(m) \in todo[m]
    <2>1. \E r \in todo[m] : \A q \in todo[m] : r <= q
        BY <1>1, Least
    <2> QED BY <2>1 DEF Release
<1> QED BY <1>1, <1>2, ReleasesAssumption DEF TypeOK, ReleasesAssumption

LEMMA NameType ==
    ASSUME TypeOK, NEW r \in Releases
    PROVE  binary_name(r) \in Names
BY ReleasesAssumption DEF TypeOK, ReleasesAssumption

\* The release that a server handles is fixed by what it has to handle.
LEMMA SameRelease ==
    ASSUME NEW m, todo'[m] = todo[m], tool' = tool
    PROVE  Release(m)' = Release(m) /\ binary_name(Release(m))' = binary_name(Release(m))
BY DEF Release

\* A step in which no server goes on to put something.
LEMMA Keeps ==
    ASSUME ToolInv, TypeOK', tool' = tool, failedPuts' = 0 => failedPuts = 0,
           UNCHANGED bucket,
           \A m \in Machines :
               pc'[m] \in {"mark", "write", "putBinary", "putMarker"} =>
                   todo'[m] = todo[m]
                   /\ (pc'[m] = "putMarker" => pc[m] = "putMarker")
                   /\ (pc'[m] # "putMarker" =>
                         bin'[m][binary_name(Release(m))] # NoFile),
           \A m \in Machines : keys'[m] \in {keys[m], {}, BucketKeys}
    PROVE  ToolInv'
<1>1. DiskInv'
    BY SameRelease DEF DiskInv
<1>2. ASSUME failedPuts' = 0
      PROVE  MarkerInv'
    <2>1. MarkerInv
        BY <1>2 DEF ToolInv
    <2>2. \A r \in bucketMarkers' : bucketBin'[binary_name(r)'] # NoFile
        BY <2>1 DEF MarkerInv
    <2>3. \A m \in Machines : pc'[m] = "putMarker" => bucketBin'[binary_name(Release(m))'] # NoFile
        BY <2>1, SameRelease DEF MarkerInv
    <2>4. ASSUME NEW m \in Machines, NEW r \in Releases, <<"marker", r>> \in keys'[m]
          PROVE  <<"binary", binary_name(r)'>> \in keys'[m]
        <3>1. CASE keys'[m] = keys[m]
            BY <2>1, <2>4, <3>1 DEF MarkerInv
        <3>2. CASE keys'[m] = BucketKeys
            <4>1. r \in bucketMarkers
                BY <2>4, <3>2 DEF BucketKeys
            <4> QED BY <2>1, <3>2, <4>1, NameType DEF MarkerInv, BucketKeys, ToolInv
        <3> QED BY <2>4, <3>1, <3>2
    <2> QED BY <2>2, <2>3, <2>4 DEF MarkerInv
<1> QED BY <1>1, <1>2 DEF ToolInv

-----------------------------------------------------------------------------
(* Start-up *)

LEMMA RestoreInv ==
    ASSUME ToolInv, NEW m \in Machines, Restore(m)
    PROVE  ToolInv'
<1>1. CASE list_bucket_objects(m)
    <2>1. BucketKeys \in SUBSET Keys
        BY <1>1 DEF BucketKeys, Keys, ToolInv, TypeOK
    <2>2. TypeOK'
        BY <1>1, <2>1 DEF list_bucket_objects, ToolInv, TypeOK, MachinePC
    <2> QED BY <1>1, <2>2, Keeps DEF list_bucket_objects, ToolInv, TypeOK, DiskInv
<1>2. CASE download_binary(m)
    <2>1. PICK k \in keys[m] :
              \/ /\ k[1] = "binary"
                 /\ bin' = [bin EXCEPT ![m][k[2]] = bucketBin[k[2]]]
                 /\ UNCHANGED marker
              \/ /\ k[1] = "marker"
                 /\ marker' = [marker EXCEPT ![m][k[2]] = "named"]
                 /\ UNCHANGED bin
        BY <1>2 DEF download_binary
    <2>2. /\ k[1] = "binary" => k[2] \in Names
          /\ k[1] = "marker" => k[2] \in Releases
        BY DEF ToolInv, TypeOK, Keys
    <2>3. ASSUME k[1] = "binary"
          PROVE  /\ [bin EXCEPT ![m][k[2]] = bucketBin[k[2]]] \in
                        [Machines -> [Names -> Releases \cup {NoFile}]]
                 /\ \A q \in Machines :
                        q # m => [bin EXCEPT ![m][k[2]] = bucketBin[k[2]]][q] = bin[q]
        <3>1. PICK n \in Names : n = k[2]
            BY <2>2, <2>3
        <3>2. bucketBin[n] \in Releases \cup {NoFile}
            BY DEF ToolInv, TypeOK
        <3> QED BY <3>1, <3>2 DEF ToolInv, TypeOK
    <2>4. ASSUME k[1] = "marker"
          PROVE  [marker EXCEPT ![m][k[2]] = "named"] \in [Machines -> [Releases -> Marker]]
        <3>1. PICK r \in Releases : r = k[2]
            BY <2>2, <2>4
        <3> QED BY <3>1 DEF ToolInv, TypeOK, Marker
    <2>5. TypeOK'
        BY <1>2, <2>1, <2>3, <2>4 DEF download_binary, ToolInv, TypeOK
    <2>6. pc[m] = "restore" /\ \A q \in Machines : q # m => bin'[q] = bin[q]
        BY <1>2, <2>1, <2>3 DEF download_binary, ToolInv, TypeOK
    <2> QED BY <1>2, <2>5, <2>6, Keeps DEF download_binary, ToolInv, DiskInv
<1>3. CASE EndRestore(m)
    <2>1. TypeOK'
        BY <1>3 DEF EndRestore, ToolInv, TypeOK, MachinePC
    <2> QED BY <1>3, <2>1, Keeps DEF EndRestore, ToolInv, TypeOK, DiskInv
<1> QED BY <1>1, <1>2, <1>3 DEF Restore

-----------------------------------------------------------------------------
(* The check *)

LEMMA NextReleaseType ==
    ASSUME TypeOK, NEW m \in Machines, todo[m] # {}, NextRelease(m),
           UNCHANGED <<tool, published, disk, bucket, keys, bounds>>
    PROVE  /\ TypeOK' /\ pc'[m] \in {"idle", "check"}
           /\ \A q \in Machines : q # m => pc'[q] = pc[q] /\ todo'[q] = todo[q]
<1>1. todo' = [todo EXCEPT ![m] = todo[m] \ {Release(m)}]
      /\ pc' = [pc EXCEPT ![m] = IF todo[m] = {Release(m)} THEN "idle" ELSE "check"]
    BY DEF NextRelease, TypeOK
<1>2. pc'[m] = "check" => todo'[m] # {}
    BY <1>1 DEF TypeOK
<1> QED BY <1>1, <1>2 DEF TypeOK, MachinePC

\* The next release is looked at: nothing is about to be put.
LEMMA NextReleaseInv ==
    ASSUME ToolInv, NEW m \in Machines, todo[m] # {}, NextRelease(m),
           UNCHANGED <<tool, published, disk, bucket, keys, bounds>>
    PROVE  ToolInv'
BY NextReleaseType, Keeps DEF ToolInv, DiskInv

LEMMA InstallInv ==
    ASSUME ToolInv, NEW m \in Machines, Install(m)
    PROVE  ToolInv'
<1> DEFINE r == Release(m)
           n == binary_name(Release(m))
<1>1. todo[m] # {} /\ r \in Releases /\ r # NoFile /\ n \in Names
    <2>1. todo[m] # {}
        BY DEF ToolInv, TypeOK, Install, MachinePC
    <2> QED BY <2>1, ReleaseType DEF ToolInv
<1>2. /\ bin' = [bin EXCEPT ![m][n] = r]
      /\ pc' = [pc EXCEPT ![m] = IF tool = "Scarb" THEN "mark" ELSE "putBinary"]
      /\ UNCHANGED <<tool, published, marker, bucket, keys, todo, bounds>>
    BY DEF Install
<1> HIDE DEF r, n
<1>3. TypeOK'
    BY <1>1, <1>2 DEF ToolInv, TypeOK, MachinePC
<1>4. bin'[m][n] # NoFile /\ \A q \in Machines : q # m => bin'[q] = bin[q]
    BY <1>1, <1>2 DEF ToolInv, TypeOK
<1>5. bin'[m][binary_name(Release(m))] # NoFile
    BY <1>4 DEF n
<1>6. \A q \in Machines : pc'[q] = IF q = m THEN (IF tool = "Scarb" THEN "mark" ELSE "putBinary")
                                             ELSE pc[q]
    BY <1>2 DEF ToolInv, TypeOK
<1> QED BY <1>2, <1>3, <1>4, <1>5, <1>6, Keeps DEF ToolInv, DiskInv

\* The marker is opened, then written.
LEMMA MarkerStepInv ==
    ASSUME ToolInv, NEW m \in Machines, OpenMarker(m) \/ WriteMarker(m)
    PROVE  ToolInv'
<1>1. todo[m] # {} /\ Release(m) \in Releases
    <2>1. todo[m] # {}
        BY DEF ToolInv, TypeOK, OpenMarker, WriteMarker, MachinePC
    <2> QED BY <2>1, ReleaseType DEF ToolInv
<1>2. PICK x \in Marker, l \in {"write", "putBinary"} :
          /\ marker' = [marker EXCEPT ![m][Release(m)] = x]
          /\ pc' = [pc EXCEPT ![m] = l]
          /\ pc[m] \in {"mark", "write"}
          /\ UNCHANGED <<tool, published, bin, bucket, keys, todo, bounds>>
    BY DEF OpenMarker, WriteMarker, Marker
<1>3. TypeOK'
    <2>1. marker' \in [Machines -> [Releases -> Marker]]
        BY <1>1, <1>2 DEF ToolInv, TypeOK
    <2> QED BY <1>1, <1>2, <2>1 DEF ToolInv, TypeOK, MachinePC
<1>4. \A q \in Machines : pc'[q] = IF q = m THEN l ELSE pc[q]
    BY <1>2 DEF ToolInv, TypeOK
<1> QED BY <1>2, <1>3, <1>4, Keeps DEF ToolInv, DiskInv

\* An upload: the binary first, which the disk holds, and then its marker.
LEMMA CacheBinaryInv ==
    ASSUME ToolInv, NEW m \in Machines, cache_binary(m)
    PROVE  ToolInv'
<1> DEFINE n == binary_name(Release(m))
<1>1. pc[m] = "putBinary" /\ todo[m] # {} /\ n \in Names /\ bin[m][n] # NoFile
      /\ bin[m][n] \in Releases \cup {NoFile}
    <2>1. pc[m] = "putBinary" /\ todo[m] # {}
        BY DEF ToolInv, TypeOK, cache_binary, MachinePC
    <2> QED BY <2>1, ReleaseType DEF ToolInv, DiskInv, TypeOK
<1>2. PICK l \in {"putMarker", "clean"} :
          /\ pc' = [pc EXCEPT ![m] = l]
          /\ \/ bucketBin' = [bucketBin EXCEPT ![n] = bin[m][n]] /\ UNCHANGED failedPuts
             \/ PutFails(bucketBin)
          /\ UNCHANGED <<tool, published, disk, bucketMarkers, keys, todo, crashes, removed>>
    BY DEF cache_binary
<1>3. \A q \in Machines : pc'[q] = IF q = m THEN l ELSE pc[q]
    BY <1>2 DEF ToolInv, TypeOK
<1>4. failedPuts' \in 0..MaxFailedPuts /\ (failedPuts' = 0 => failedPuts = 0)
    BY <1>2, BoundsAssumption DEF PutFails, BoundsAssumption, ToolInv, TypeOK
<1>5. PICK name \in Names : name = n
    BY <1>1
<1>6. PICK r \in Releases : r = bin[m][n] /\ r # NoFile
    BY <1>1
<1> HIDE DEF n
<1>7. TypeOK'
    <2>1. bucketBin' \in [Names -> Releases \cup {NoFile}]
        BY <1>2, <1>5, <1>6 DEF PutFails, ToolInv, TypeOK
    <2> QED BY <1>1, <1>2, <1>4, <2>1 DEF ToolInv, TypeOK, MachinePC
<1>8. DiskInv'
    BY <1>2, <1>3, SameRelease DEF ToolInv, DiskInv
<1>9. ASSUME failedPuts' = 0
      PROVE  MarkerInv'
    <2>1. MarkerInv /\ bucketBin' = [bucketBin EXCEPT ![n] = bin[m][n]]
        BY <1>2, <1>4, <1>9 DEF ToolInv, PutFails, TypeOK
    <2>2. bucketBin'[n] # NoFile /\ \A x \in Names : bucketBin[x] # NoFile => bucketBin'[x] # NoFile
        BY <1>5, <1>6, <2>1 DEF ToolInv, TypeOK
    <2>3. \A x \in bucketMarkers' : bucketBin'[binary_name(x)'] # NoFile
        <3>1. \A x \in bucketMarkers : binary_name(x) \in Names
            BY NameType DEF ToolInv, TypeOK
        <3> QED BY <1>2, <2>1, <2>2, <3>1 DEF MarkerInv
    <2>4. ASSUME NEW q \in Machines, pc'[q] = "putMarker"
          PROVE  bucketBin'[binary_name(Release(q))'] # NoFile
        <3>1. CASE q = m
            BY <1>2, <2>2, <3>1, SameRelease DEF n
        <3>2. CASE q # m
            <4>1. pc[q] = "putMarker" /\ todo[q] # {}
                BY <1>3, <2>4, <3>2 DEF ToolInv, TypeOK, MachinePC
            <4>2. binary_name(Release(q)) \in Names
                BY <4>1, ReleaseType DEF ToolInv
            <4> QED BY <1>2, <2>1, <2>2, <4>1, <4>2, SameRelease DEF MarkerInv
        <3> QED BY <3>1, <3>2
    <2> QED BY <1>2, <2>1, <2>3, <2>4 DEF MarkerInv
<1> QED BY <1>7, <1>8, <1>9 DEF ToolInv

LEMMA CacheMarkerInv ==
    ASSUME ToolInv, NEW m \in Machines, cache_marker(m)
    PROVE  ToolInv'
<1>1. pc[m] = "putMarker" /\ todo[m] # {} /\ Release(m) \in Releases
    <2>1. pc[m] = "putMarker" /\ todo[m] # {}
        BY DEF ToolInv, TypeOK, cache_marker, MachinePC
    <2> QED BY <2>1, ReleaseType DEF ToolInv
<1>2. /\ pc' = [pc EXCEPT ![m] = "clean"]
      /\ \/ bucketMarkers' = bucketMarkers \cup {Release(m)} /\ UNCHANGED failedPuts
         \/ PutFails(bucketMarkers)
      /\ UNCHANGED <<tool, published, disk, bucketBin, keys, todo, crashes, removed>>
    BY DEF cache_marker
<1>3. \A q \in Machines : pc'[q] = IF q = m THEN "clean" ELSE pc[q]
    BY <1>2 DEF ToolInv, TypeOK
<1>4. failedPuts' \in 0..MaxFailedPuts /\ (failedPuts' = 0 => failedPuts = 0)
    BY <1>2, BoundsAssumption DEF PutFails, BoundsAssumption, ToolInv, TypeOK
<1>5. bucketMarkers' \subseteq bucketMarkers \cup {Release(m)}
    BY <1>2 DEF PutFails
<1>6. TypeOK'
    BY <1>1, <1>2, <1>4, <1>5 DEF ToolInv, TypeOK, MachinePC
<1>7. DiskInv'
    BY <1>2, <1>3, SameRelease DEF ToolInv, DiskInv
<1>8. MarkerInv => MarkerInv'
    <2> SUFFICES ASSUME MarkerInv PROVE MarkerInv'
        OBVIOUS
    <2>1. \A x \in bucketMarkers' : bucketBin'[binary_name(x)'] # NoFile
        BY <1>1, <1>2, <1>5 DEF MarkerInv
    <2>2. \A q \in Machines : pc'[q] = "putMarker" => bucketBin'[binary_name(Release(q))'] # NoFile
        BY <1>2, <1>3, SameRelease DEF MarkerInv
    <2> QED BY <1>2, <2>1, <2>2 DEF MarkerInv
<1> QED BY <1>4, <1>6, <1>7, <1>8 DEF ToolInv

LEMMA CheckInv ==
    ASSUME ToolInv, NEW m \in Machines, Check(m)
    PROVE  ToolInv'
<1>1. CASE BeginCheck(m)
    <2>1. TypeOK'
        BY <1>1 DEF BeginCheck, ToolInv, TypeOK, MachinePC
    <2>2. \A q \in Machines : /\ pc'[q] = IF q = m THEN "check" ELSE pc[q]
                              /\ q # m => todo'[q] = todo[q]
        BY <1>1 DEF BeginCheck, ToolInv, TypeOK
    <2> QED BY <1>1, <2>1, <2>2, Keeps DEF BeginCheck, ToolInv, DiskInv
<1>2. CASE SkipRelease(m) \/ Clean(m)
    <2>1. todo[m] # {}
        BY <1>2 DEF SkipRelease, Clean, ToolInv, TypeOK, MachinePC
    <2> QED BY <1>2, <2>1, NextReleaseInv DEF SkipRelease, Clean
<1>3. CASE BeginInstall(m)
    <2>1. TypeOK'
        BY <1>3 DEF BeginInstall, ToolInv, TypeOK, MachinePC
    <2>2. \A q \in Machines : pc'[q] = IF q = m THEN "install" ELSE pc[q]
        BY <1>3 DEF BeginInstall, ToolInv, TypeOK
    <2> QED BY <1>3, <2>1, <2>2, Keeps DEF BeginInstall, ToolInv, DiskInv
<1> QED BY <1>1, <1>2, <1>3, InstallInv, MarkerStepInv, CacheBinaryInv, CacheMarkerInv DEF Check

-----------------------------------------------------------------------------
(* Around the server *)

LEMMA AroundInv ==
    ASSUME ToolInv, NEW m \in Machines, Abort(m) \/ Crash(m) \/ Remove(m)
    PROVE  ToolInv'
<1>1. CASE Abort(m)
    <2>1. TypeOK'
        BY <1>1 DEF Abort, ToolInv, TypeOK, MachinePC
    <2>2. \A q \in Machines : /\ pc'[q] = IF q = m THEN "idle" ELSE pc[q]
                              /\ q # m => todo'[q] = todo[q]
        BY <1>1 DEF Abort, ToolInv, TypeOK
    <2> QED BY <1>1, <2>1, <2>2, Keeps DEF Abort, ToolInv, DiskInv
<1>2. CASE Crash(m)
    <2>1. TypeOK'
        <3>1. /\ bin' \in [Machines -> [Names -> Releases \cup {NoFile}]]
              /\ marker' \in [Machines -> [Releases -> Marker]]
            <4>1. [n \in Names |-> NoFile] \in [Names -> Releases \cup {NoFile}]
                OBVIOUS
            <4>2. [r \in Releases |-> "none"] \in [Releases -> Marker]
                BY DEF Marker
            <4> QED BY <1>2, <4>1, <4>2, SMTT(30) DEF Crash, ToolInv, TypeOK
        <3>2. crashes' \in 0..MaxCrashes
            BY <1>2, BoundsAssumption DEF Crash, BoundsAssumption, ToolInv, TypeOK
        <3>3. /\ keys' \in [Machines -> SUBSET Keys] /\ todo' \in [Machines -> SUBSET published]
              /\ pc' \in [Machines -> MachinePC]
              /\ \A q \in Machines : pc'[q] \in MachinePC \ {"start", "restore", "idle"} => todo'[q] # {}
            BY <1>2 DEF Crash, ToolInv, TypeOK, MachinePC
        <3> QED BY <1>2, <3>1, <3>2, <3>3 DEF Crash, ToolInv, TypeOK
    <2>2. \A q \in Machines : /\ pc'[q] = IF q = m THEN "start" ELSE pc[q]
                              /\ keys'[q] = IF q = m THEN {} ELSE keys[q]
                              /\ q # m => todo'[q] = todo[q] /\ bin'[q] = bin[q]
        BY <1>2 DEF Crash, ToolInv, TypeOK
    <2> QED BY <1>2, <2>1, <2>2, Keeps DEF Crash, ToolInv, DiskInv
<1>3. CASE Remove(m)
    <2>1. PICK n \in Names : bin' = [bin EXCEPT ![m][n] = NoFile]
        BY <1>3 DEF Remove
    <2>2. TypeOK'
        BY <1>3, <2>1, BoundsAssumption DEF Remove, BoundsAssumption, ToolInv, TypeOK
    <2>3. pc[m] = "idle" /\ pc' = pc /\ \A q \in Machines : q # m => bin'[q] = bin[q]
        BY <1>3, <2>1 DEF Remove, ToolInv, TypeOK
    <2> QED BY <1>3, <2>2, <2>3, Keeps DEF Remove, ToolInv, DiskInv
<1> QED BY <1>1, <1>2, <1>3

LEMMA PublishInv ==
    ASSUME ToolInv, Publish
    PROVE  ToolInv'
<1>1. TypeOK'
    <2>1. published' \in SUBSET Releases /\ published \subseteq published'
        BY DEF Publish, ToolInv, TypeOK
    <2>2. todo' \in [Machines -> SUBSET published']
        BY <2>1 DEF Publish, ToolInv, TypeOK
    <2> QED BY <2>1, <2>2 DEF Publish, ToolInv, TypeOK
<1> QED BY <1>1, Keeps DEF Publish, ToolInv, DiskInv

LEMMA ToolInit ==
    ASSUME Init
    PROVE  ToolInv
<1>1. TypeOK
    BY BoundsAssumption DEF Init, TypeOK, BoundsAssumption, MachinePC, Marker
<1>2. DiskInv /\ MarkerInv
    BY DEF Init, DiskInv, MarkerInv
<1> QED BY <1>1, <1>2 DEF ToolInv

LEMMA ToolStep ==
    ASSUME ToolInv, [Next]_vars
    PROVE  ToolInv'
<1>1. CASE UNCHANGED vars
    <2>1. TypeOK'
        BY <1>1 DEF vars, ToolInv, TypeOK
    <2> QED BY <1>1, <2>1, Keeps DEF vars, ToolInv, DiskInv
<1> QED BY <1>1, RestoreInv, CheckInv, AroundInv, PublishInv DEF Next

\* The types are kept; in particular a server that handles a release has one.
THEOREM TypeCorrect == Spec => []TypeOK
<1>1. ToolInv => TypeOK
    BY DEF ToolInv
<1> QED BY <1>1, ToolInit, ToolStep, PTL DEF Spec

\* The disk that a server has restored passes the check for every release
\* whose marker the bucket listed, as long as no upload failed
\* (binaries_manager_service.rs, scarb_and_dojo_download_scheduler.rs).
THEOREM ColdStartRestoresCorrect == Spec => ColdStartRestores
<1>1. ASSUME ToolInv, NEW m \in Machines, NEW r \in Releases,
             EndRestore(m), <<"marker", r>> \in keys[m], failedPuts = 0
      PROVE  is_installed(m, r)
    <2>1. <<"binary", binary_name(r)>> \in keys[m]
        BY <1>1 DEF ToolInv, MarkerInv
    <2>2. OnDisk(m, <<"marker", r>>) /\ OnDisk(m, <<"binary", binary_name(r)>>)
        BY <1>1, <2>1 DEF EndRestore
    <2>3. marker[m][r] \in {"empty", "named"} /\ bin[m][binary_name(r)] # NoFile
        BY <1>1, <2>2 DEF OnDisk, Marker, ToolInv, TypeOK
    <2> QED BY <2>3 DEF is_installed
<1>2. ToolInv => (\A m \in Machines, r \in Releases :
          EndRestore(m) /\ <<"marker", r>> \in keys[m] /\ failedPuts = 0 => is_installed(m, r))
    BY <1>1
<1> QED BY <1>2, ToolInit, ToolStep, PTL DEF Spec, ColdStartRestores
=============================================================================
