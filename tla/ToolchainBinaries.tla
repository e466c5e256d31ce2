-------------------------- MODULE ToolchainBinaries --------------------------
(***************************************************************************)
(* The compilers that verification runs, as kept on the disk of each       *)
(* server and in a shared bucket: the restore from the bucket at start-up  *)
(* (server/src/binaries_manager_service.rs) and the periodic check for new *)
(* releases (verification/src/scarb_and_dojo_download_scheduler.rs), for   *)
(* one tool.  A Scarb binary is named after the Cairo version it ships,    *)
(* which several releases may share, and a marker tells which releases are *)
(* installed; a Sozo binary is named after its release and has none.  A    *)
(* crash ends whatever a server does at any point; what the restore and    *)
(* the download write appears under its name in one rename.                *)
(***************************************************************************)
EXTENDS Naturals, FiniteSets

CONSTANTS
    Machines,       \* servers that share the bucket
    Tools,          \* "Scarb", "Sozo" or both
    Releases,       \* the supported releases, numbered in version order
    Assets,         \* of these, the releases with a build for this machine
    Names,          \* file names of binaries
    BinaryName,     \* binary_name: the file name of each tool's releases
    MaxFailedPuts,  \* bound: uploads to the bucket that fail
    MaxCrashes,     \* bound: crashes and failed start-ups
    MaxRemoved      \* bound: binaries removed from a disk by hand

NoFile == 0

ASSUME ReleasesAssumption ==
    /\ Tools \subseteq {"Scarb", "Sozo"}
    /\ Releases \subseteq Nat \ {NoFile} /\ Assets \subseteq Releases
    /\ BinaryName \in [Tools -> [Releases -> Names]]
    /\ "Sozo" \in Tools => \A q, r \in Releases :
          BinaryName["Sozo"][q] = BinaryName["Sozo"][r] => q = r
ASSUME BoundsAssumption ==
    MaxFailedPuts \in Nat /\ MaxCrashes \in Nat /\ MaxRemoved \in Nat

VARIABLES
    tool,           \* the tool that the installs are of
    published,      \* the releases GitHub lists
    bin,            \* bin[m][n]: the release whose build is the file n of m
    marker,         \* marker[m][r]: the marker of release r on the disk of m
    bucketBin,      \* the same for the binaries in the bucket
    bucketMarkers,  \* the releases with a marker in the bucket
    pc,             \* where each server is
    keys,           \* the keys of the bucket a server restores
    todo,           \* the releases a check has still to handle, oldest first
    failedPuts, crashes, removed

disk == <<bin, marker>>
bucket == <<bucketBin, bucketMarkers>>
bounds == <<failedPuts, crashes, removed>>
vars == <<tool, published, disk, bucket, pc, keys, todo, bounds>>

\* A marker that was opened and not written is empty.
Marker == {"none", "empty", "named"}
MachinePC == {"start", "restore", "idle", "check", "install", "mark", "write",
              "putBinary", "putMarker", "clean"}
Keys == ({"binary"} \X Names) \cup ({"marker"} \X Releases)

\* The types of the state, and that a server between the check of a release
\* and its end has that release to handle.
TypeOK ==
    /\ tool \in Tools
    /\ published \in SUBSET Releases
    /\ bin \in [Machines -> [Names -> Releases \cup {NoFile}]]
    /\ marker \in [Machines -> [Releases -> Marker]]
    /\ bucketBin \in [Names -> Releases \cup {NoFile}]
    /\ bucketMarkers \in SUBSET Releases
    /\ pc \in [Machines -> MachinePC]
    /\ keys \in [Machines -> SUBSET Keys]
    /\ todo \in [Machines -> SUBSET published]
    /\ \A m \in Machines : pc[m] \in MachinePC \ {"start", "restore", "idle"} => todo[m] # {}
    /\ failedPuts \in 0..MaxFailedPuts
    /\ crashes \in 0..MaxCrashes
    /\ removed \in 0..MaxRemoved

Init ==
    /\ tool \in Tools
    /\ published = {}
    /\ bin = [m \in Machines |-> [n \in Names |-> NoFile]]
    /\ marker = [m \in Machines |-> [r \in Releases |-> "none"]]
    /\ bucketBin = [n \in Names |-> NoFile]
    /\ bucketMarkers = {}
    /\ pc = [m \in Machines |-> "start"]
    /\ keys = [m \in Machines |-> {}]
    /\ todo = [m \in Machines |-> {}]
    /\ failedPuts = 0 /\ crashes = 0 /\ removed = 0

binary_name(r) == BinaryName[tool][r]

Goto(m, l) == pc' = [pc EXCEPT ![m] = l]

-----------------------------------------------------------------------------
(* Start-up: download_scarb_and_sozo_binaries_from_s3                      *)

BucketKeys ==
    {<<"binary", n>> : n \in {n \in Names : bucketBin[n] # NoFile}}
        \cup {<<"marker", r>> : r \in bucketMarkers}

list_bucket_objects(m) ==
    /\ pc[m] = "start"
    /\ keys' = [keys EXCEPT ![m] = BucketKeys]
    /\ Goto(m, "restore")
    /\ UNCHANGED <<tool, published, disk, bucket, todo, bounds>>

OnDisk(m, k) ==
    \/ k[1] = "binary" /\ bin[m][k[2]] # NoFile
    \/ k[1] = "marker" /\ marker[m][k[2]] # "none"

\* A file that is there is not fetched again; the object fetched is the one
\* the bucket holds by now.  The order of the listing is left open.
download_binary(m) ==
    /\ pc[m] = "restore"
    /\ \E k \in keys[m] :
          /\ ~OnDisk(m, k)
          /\ \/ /\ k[1] = "binary"
                /\ bin' = [bin EXCEPT ![m][k[2]] = bucketBin[k[2]]]
                /\ UNCHANGED marker
             \/ /\ k[1] = "marker"
                /\ marker' = [marker EXCEPT ![m][k[2]] = "named"]
                /\ UNCHANGED bin
    /\ UNCHANGED <<tool, published, bucket, pc, keys, todo, bounds>>

EndRestore(m) ==
    /\ pc[m] = "restore"
    /\ \A k \in keys[m] : OnDisk(m, k)
    /\ keys' = [keys EXCEPT ![m] = {}]
    /\ Goto(m, "idle")
    /\ UNCHANGED <<tool, published, disk, bucket, todo, bounds>>

-----------------------------------------------------------------------------
(* The periodic check: check_periodically_updates                          *)

\* Mutant: the newest installed release stands for all before it.
NewestInstalled(m, r) ==
    \E q \in Releases : q >= r /\ bin[m][binary_name(q)] # NoFile

\* An empty marker names the directory of the binaries, which exists.
is_installed(m, r) ==
    IF tool = "Sozo" THEN bin[m][binary_name(r)] # NoFile
    ELSE \/ marker[m][r] = "named" /\ bin[m][binary_name(r)] # NoFile
         \/ marker[m][r] = "empty"

\* All releases that GitHub lists, or nothing when it does not answer.
BeginCheck(m) ==
    /\ pc[m] = "idle" /\ published # {}
    /\ todo' = [todo EXCEPT ![m] = published]
    /\ Goto(m, "check")
    /\ UNCHANGED <<tool, published, disk, bucket, keys, bounds>>

\* The release being handled: the oldest one left.
Release(m) == CHOOSE r \in todo[m] : \A q \in todo[m] : r <= q

\* The release is done with, and the next one is looked at.
NextRelease(m) ==
    /\ todo' = [todo EXCEPT ![m] = @ \ {Release(m)}]
    /\ Goto(m, IF todo[m] = {Release(m)} THEN "idle" ELSE "check")

SkipRelease(m) ==
    /\ pc[m] = "check"
    /\ is_installed(m, Release(m)) \/ Release(m) \notin Assets
    /\ NextRelease(m)
    /\ UNCHANGED <<tool, published, disk, bucket, keys, bounds>>

BeginInstall(m) ==
    /\ pc[m] = "check"
    /\ ~is_installed(m, Release(m)) /\ Release(m) \in Assets
    /\ Goto(m, "install")
    /\ UNCHANGED <<tool, published, disk, bucket, keys, todo, bounds>>

\* The archive is downloaded and extracted, and the binary renamed.
Install(m) ==
    /\ pc[m] = "install"
    /\ bin' = [bin EXCEPT ![m][binary_name(Release(m))] = Release(m)]
    /\ Goto(m, IF tool = "Scarb" THEN "mark" ELSE "putBinary")
    /\ UNCHANGED <<tool, published, marker, bucket, keys, todo, bounds>>

\* record_installed: the file is opened, then written.
OpenMarker(m) ==
    /\ pc[m] = "mark"
    /\ marker' = [marker EXCEPT ![m][Release(m)] = "empty"]
    /\ Goto(m, "write")
    /\ UNCHANGED <<tool, published, bin, bucket, keys, todo, bounds>>

\* Mutant: the marker is put into the bucket when it is recorded, before the
\* binary.
WriteAndPutMarker(m) ==
    /\ pc[m] = "write"
    /\ marker' = [marker EXCEPT ![m][Release(m)] = "named"]
    /\ bucketMarkers' = bucketMarkers \cup {Release(m)}
    /\ Goto(m, "putBinary")
    /\ UNCHANGED <<tool, published, bin, bucketBin, keys, todo, bounds>>

WriteMarker(m) ==
    /\ pc[m] = "write"
    /\ marker' = [marker EXCEPT ![m][Release(m)] = "named"]
    /\ Goto(m, "putBinary")
    /\ UNCHANGED <<tool, published, bin, bucket, keys, todo, bounds>>

PutFails(v) ==
    /\ failedPuts < MaxFailedPuts
    /\ failedPuts' = failedPuts + 1
    /\ UNCHANGED v

\* cache_in_bucket, best effort; an object under the key is overwritten.
cache_binary(m) ==
    LET n == binary_name(Release(m)) IN
    /\ pc[m] = "putBinary"
    /\ \/ bucketBin' = [bucketBin EXCEPT ![n] = bin[m][n]] /\ UNCHANGED failedPuts
       \/ PutFails(bucketBin)
    /\ Goto(m, IF tool = "Scarb" THEN "putMarker" ELSE "clean")
    /\ UNCHANGED <<tool, published, disk, bucketMarkers, keys, todo, crashes, removed>>

cache_marker(m) ==
    /\ pc[m] = "putMarker"
    /\ \/ bucketMarkers' = bucketMarkers \cup {Release(m)} /\ UNCHANGED failedPuts
       \/ PutFails(bucketMarkers)
    /\ Goto(m, "clean")
    /\ UNCHANGED <<tool, published, disk, bucketBin, keys, todo, crashes, removed>>

\* The archive is removed.
Clean(m) ==
    /\ pc[m] = "clean"
    /\ NextRelease(m)
    /\ UNCHANGED <<tool, published, disk, bucket, keys, bounds>>

\* Any error of a download or of the file system ends the check; for Sozo also
\* one of the directory extracted to, which is removed before the upload.
Abort(m) ==
    /\ \/ pc[m] \in {"install", "mark", "write", "clean"}
       \/ tool = "Sozo" /\ pc[m] = "putBinary"
    /\ todo' = [todo EXCEPT ![m] = {}]
    /\ Goto(m, "idle")
    /\ UNCHANGED <<tool, published, disk, bucket, keys, bounds>>

Check(m) ==
    \/ BeginCheck(m) \/ SkipRelease(m) \/ BeginInstall(m) \/ Install(m)
    \/ OpenMarker(m) \/ WriteMarker(m) \/ cache_binary(m) \/ cache_marker(m) \/ Clean(m)

Restore(m) == list_bucket_objects(m) \/ download_binary(m) \/ EndRestore(m)

-----------------------------------------------------------------------------
(* Around the server *)

\* Releases come in any order, but those of one Cairo version in their own.
Publish ==
    /\ \E r \in Releases \ published :
          /\ \A q \in Releases : q < r /\ binary_name(q) = binary_name(r) => q \in published
          /\ published' = published \cup {r}
    /\ UNCHANGED <<tool, disk, bucket, pc, keys, todo, bounds>>

\* The server ends (an error of the restore ends it too) and starts again,
\* with its disk or with an empty one.
Crash(m) ==
    /\ crashes < MaxCrashes
    /\ crashes' = crashes + 1
    /\ \/ UNCHANGED disk
       \/ /\ bin' = [bin EXCEPT ![m] = [n \in Names |-> NoFile]]
          /\ marker' = [marker EXCEPT ![m] = [r \in Releases |-> "none"]]
    /\ Goto(m, "start")
    /\ keys' = [keys EXCEPT ![m] = {}]
    /\ todo' = [todo EXCEPT ![m] = {}]
    /\ UNCHANGED <<tool, published, bucket, failedPuts, removed>>

\* A binary is removed from the disk, between two checks.
Remove(m) ==
    /\ removed < MaxRemoved
    /\ removed' = removed + 1
    /\ pc[m] = "idle"
    /\ \E n \in Names : bin[m][n] # NoFile /\ bin' = [bin EXCEPT ![m][n] = NoFile]
    /\ UNCHANGED <<tool, published, marker, bucket, pc, keys, todo, failedPuts, crashes>>

Next ==
    \/ \E m \in Machines : Restore(m) \/ Check(m) \/ Abort(m) \/ Crash(m) \/ Remove(m)
    \/ Publish

Spec == Init /\ [][Next]_vars

(***************************************************************************)
(* Fairness: the scheduler checks again and again, and a release that is   *)
(* downloaded again and again gets installed and its marker opened once.   *)
(***************************************************************************)
FairSpec ==
    /\ Spec
    /\ \A m \in Machines :
          /\ WF_vars(Restore(m)) /\ WF_vars(Check(m))
          /\ SF_vars(Install(m)) /\ SF_vars(OpenMarker(m))

-----------------------------------------------------------------------------
(* Properties *)

\* A server that has restored its disk needs no download for a release that
\* was cached with its marker: the binary it names is there, so whatever the
\* bucket told, the check skips the release.  Unless an upload failed: the
\* marker is put all the same.
ColdStartRestores ==
    [][\A m \in Machines, r \in Releases :
          EndRestore(m) /\ <<"marker", r>> \in keys[m] /\ failedPuts = 0
             => is_installed(m, r)]_vars

\* Every release with a build for the machine ends up on its disk, also one
\* that is published after a newer one, whatever is interrupted.  A binary that
\* is removed by hand may stay away: an empty marker stands for it.
EverythingInstalled ==
    \A m \in Machines :
        <>[](\A r \in published \cap Assets :
                bin[m][binary_name(r)] # NoFile \/ (removed > 0 /\ marker[m][r] = "empty"))
=============================================================================
