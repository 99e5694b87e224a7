--------------------------- MODULE FirmwareCache ---------------------------
(***************************************************************************)
(* The gateway's cache of sensor firmware: cloud_sync_worker downloads what *)
(* the cloud lists (src/ota/cloud_sync.py), sensors ask for an update and   *)
(* download it (src/ota/local_server.py).  Binaries are files that are      *)
(* written in place; a row in SQLite says which of them sensors may have.   *)
(*                                                                          *)
(* The releases are those of one board, 1, 2, ... in version order.  An     *)
(* image stands for a binary and for its SHA-256.                           *)
(***************************************************************************)
EXTENDS Naturals

CONSTANTS
    Newest,     \* releases are 1 .. Newest
    Needs,      \* release -> its min_version; 0 is what sensors come with
    Images,     \* binaries a release may consist of
    NoImage,    \* no file, no row, nothing downloaded
    Torn,       \* what a file or a download holds that is not a whole image
    Sensors,
    MaxReissues,  \* bound: binaries replaced under the same id
    MaxFaults     \* bound: failed requests and writes, crashes, power losses

Releases == 1..Newest
Versions == 0..Newest

ASSUME ReleasesAssumption == Newest \in Nat /\ Needs \in [Releases -> Versions]
ASSUME ImagesAssumption ==
    NoImage \notin Images /\ Torn \notin Images \union {NoImage}
ASSUME BoundsAssumption == MaxReissues \in Nat /\ MaxFaults \in Nat

VARIABLES
    listed,     \* the cloud: releases it lists
    binary,     \* the cloud: their binaries
    place,      \* where the worker stands
    todo,       \* listed releases of this round still to look at
    sha,        \* the hashes in the list of this round
    target,     \* release being written; 0 if none
    row,        \* table firmware: the hash of each recorded release
    file,       \* firmware directory: content of each release's file
    fresh,      \* files whose content need not be on the disk yet
    at,         \* where each sensor stands
    version,    \* release each sensor runs
    offer,      \* release and hash it was offered
    got,        \* what it downloads
    reissues, faults,
    reissued,   \* history: releases whose binary has been replaced
    powerLost   \* history: releases whose file a power loss has damaged

cloud  == <<listed, binary, reissues, reissued>>
worker == <<place, todo, sha, target>>
disk   == <<row, file, fresh>>
sensor == <<at, version, offer, got>>
vars == <<cloud, worker, disk, sensor, faults, powerLost>>

NoOffer == [release |-> 0, hash |-> NoImage]
Offers == [release : Releases, hash : Images]

TypeOK ==
    /\ listed \subseteq Releases /\ binary \in [Releases -> Images]
    /\ place \in {"idle", "next", "write"}
    /\ todo \subseteq Releases /\ (place = "idle" => todo = {})
    /\ sha \in [Releases -> Images]
    /\ target \in Versions /\ (place = "write" <=> target # 0)
    /\ row \in [Releases -> Images \union {NoImage}]
    /\ file \in [Releases -> Images \union {NoImage, Torn}]
    /\ fresh \subseteq Releases
    /\ at \in [Sensors -> {"idle", "offered", "reading"}]
    /\ version \in [Sensors -> Versions]
    /\ offer \in [Sensors -> Offers \union {NoOffer}]
    /\ \A s \in Sensors : at[s] = "idle" <=> offer[s] = NoOffer
    /\ got \in [Sensors -> Images \union {NoImage, Torn}]
    /\ reissues \in 0..MaxReissues /\ faults \in 0..MaxFaults
    /\ reissued \subseteq Releases /\ powerLost \subseteq Releases

Init ==
    /\ listed = {} /\ binary \in [Releases -> Images]
    /\ place = "idle" /\ todo = {} /\ sha = binary /\ target = 0
    /\ row = [r \in Releases |-> NoImage] /\ file = row /\ fresh = {}
    /\ at = [s \in Sensors |-> "idle"] /\ version = [s \in Sensors |-> 0]
    /\ offer = [s \in Sensors |-> NoOffer] /\ got = [s \in Sensors |-> NoImage]
    /\ reissues = 0 /\ faults = 0 /\ reissued = {} /\ powerLost = {}

Fault == faults < MaxFaults /\ faults' = faults + 1

\* The sensor's request is over.
Quit(s) == /\ at' = [at EXCEPT ![s] = "idle"]
           /\ offer' = [offer EXCEPT ![s] = NoOffer]
           /\ got' = [got EXCEPT ![s] = NoImage]

-----------------------------------------------------------------------------
(* External: the cloud.                                                     *)

Publish(r) == /\ listed' = listed \union {r}
              /\ r \notin listed
              /\ UNCHANGED <<binary, reissues, reissued, worker, disk, sensor,
                             faults, powerLost>>

\* No row is ever deleted: the gateway goes on offering the release.
Withdraw(r) == /\ r \in listed
               /\ listed' = listed \ {r}
               /\ UNCHANGED <<binary, reissues, reissued, worker, disk, sensor,
                              faults, powerLost>>

Reissue(r) == /\ reissues < MaxReissues /\ reissues' = reissues + 1
              /\ \E i \in Images \ {binary[r]} : binary' = [binary EXCEPT ![r] = i]
              /\ reissued' = reissued \union {r}
              /\ UNCHANGED <<listed, worker, disk, sensor, faults, powerLost>>

-----------------------------------------------------------------------------
(* cloud_sync_worker and download_firmware.                                 *)

Sync == /\ place = "idle" /\ listed # {}
        /\ place' = "next" /\ todo' = listed /\ sha' = binary
        /\ UNCHANGED <<cloud, target, disk, sensor, faults, powerLost>>

EndRound == /\ place = "next" /\ todo = {}
            /\ place' = "idle"
            /\ UNCHANGED <<cloud, todo, sha, target, disk, sensor, faults,
                           powerLost>>

\* Done with release r, whatever came of it.
Proceed(r) == place' = "next" /\ todo' = todo \ {r} /\ target' = 0
Save(r) == row' = [row EXCEPT ![r] = sha[r]]

\* The file has the listed hash: its metadata are saved again.
Cached(r) == /\ place = "next" /\ r \in todo /\ file[r] = sha[r]
             /\ Proceed(r) /\ Save(r)
             /\ UNCHANGED <<cloud, sha, file, fresh, sensor, faults, powerLost>>

\* Nothing catches an exception here but the loop: the round is over.
CachedFails(r) == /\ place = "next" /\ r \in todo /\ file[r] = sha[r]
                  /\ Fault
                  /\ place' = "idle" /\ todo' = {}
                  /\ UNCHANGED <<cloud, sha, target, disk, sensor, powerLost>>

\* No answer, or not 200.
RequestFails(r) == /\ place = "next" /\ r \in todo /\ file[r] # sha[r]
                   /\ Fault
                   /\ Proceed(r)
                   /\ UNCHANGED <<cloud, sha, disk, sensor, powerLost>>

\* Seeded bug: what is in the cache is not looked at.
OpenAnyway(r) ==
    /\ place = "next" /\ r \in todo
    /\ place' = "write" /\ target' = r
    /\ file' = [file EXCEPT ![r] = Torn] /\ fresh' = fresh \union {r}
    /\ got' = [s \in Sensors |->
                 IF at[s] = "reading" /\ offer[s].release = r THEN Torn
                                                              ELSE got[s]]
    /\ UNCHANGED <<cloud, todo, sha, row, at, version, offer, faults, powerLost>>

\* The file is truncated, under the eyes of the sensors that download it.
Open(r) ==
    /\ place = "next" /\ r \in todo /\ file[r] # sha[r]
    /\ place' = "write" /\ target' = r
    /\ file' = [file EXCEPT ![r] = Torn] /\ fresh' = fresh \union {r}
    /\ got' = [s \in Sensors |->
                 IF at[s] = "reading" /\ offer[s].release = r THEN Torn
                                                              ELSE got[s]]
    /\ UNCHANGED <<cloud, todo, sha, row, at, version, offer, faults, powerLost>>

\* The last byte has been written: the row follows, or the file is removed.
Written ==
    /\ place = "write"
    /\ Proceed(target)
    /\ IF binary[target] = sha[target]
         THEN /\ file' = [file EXCEPT ![target] = sha[target]]
              /\ Save(target)
         ELSE /\ file' = [file EXCEPT ![target] = NoImage]
              /\ UNCHANGED row
    /\ UNCHANGED <<cloud, sha, fresh, sensor, faults, powerLost>>

\* The connection breaks or the disk is full; the fragment stays.
WriteFails == /\ place = "write"
              /\ Fault
              /\ Proceed(target)
              /\ UNCHANGED <<cloud, sha, disk, sensor, powerLost>>

SaveFails == /\ place = "write" /\ binary[target] = sha[target]
             /\ Fault
             /\ Proceed(target)
             /\ file' = [file EXCEPT ![target] = sha[target]]
             /\ UNCHANGED <<cloud, sha, row, fresh, sensor, powerLost>>

\* The kernel writes the file back in its own time: nobody calls fsync.
Flush(r) == /\ r \in fresh
            /\ fresh' = fresh \ {r}
            /\ UNCHANGED <<cloud, worker, row, file, sensor, faults, powerLost>>

-----------------------------------------------------------------------------
(* check_firmware and download_firmware of the local server; the sensor     *)
(* itself is external.                                                      *)

\* Seeded bug: only the newest release of all is looked at.
ApplicableNewest(v) ==
    {r \in Releases : row[r] # NoImage /\ r > v /\ v >= Needs[r] /\ r = Newest}

Applicable(v) == {r \in Releases : row[r] # NoImage /\ r > v /\ v >= Needs[r]}

Check(s) ==
    /\ at[s] = "idle"
    /\ \E r \in Applicable(version[s]) :
         /\ \A q \in Applicable(version[s]) : q <= r
         /\ offer' = [offer EXCEPT ![s] = [release |-> r, hash |-> row[r]]]
    /\ at' = [at EXCEPT ![s] = "offered"]
    /\ UNCHANGED <<cloud, worker, disk, version, got, faults, powerLost>>

\* The file may be gone (404); what is open is read as it is.
Download(s) ==
    /\ at[s] = "offered"
    /\ LET content == file[offer[s].release] IN
         IF content = NoImage
           THEN Quit(s)
           ELSE /\ at' = [at EXCEPT ![s] = "reading"]
                /\ got' = [got EXCEPT ![s] = content] /\ UNCHANGED offer
    /\ UNCHANGED <<cloud, worker, disk, version, faults, powerLost>>

\* The sensor installs what has the hash it was told.
Install(s) ==
    /\ at[s] = "reading"
    /\ version' = [version EXCEPT ![s] =
         IF got[s] = offer[s].hash THEN offer[s].release ELSE @]
    /\ Quit(s)
    /\ UNCHANGED <<cloud, worker, disk, faults, powerLost>>

-----------------------------------------------------------------------------
(* The gateway process dies: the downloads end with it.                     *)

Restarts == /\ place' = "idle" /\ todo' = {} /\ target' = 0
            /\ at' = [s \in Sensors |-> "idle"]
            /\ offer' = [s \in Sensors |-> NoOffer]
            /\ got' = [s \in Sensors |-> NoImage]

Crash == /\ Fault
         /\ Restarts
         /\ UNCHANGED <<cloud, sha, disk, version, powerLost>>

\* The rows are committed for good, of fresh files some may be lost.
PowerLoss ==
    /\ Fault
    /\ Restarts
    /\ \E lost \in SUBSET fresh :
         /\ file' = [r \in Releases |-> IF r \in lost THEN Torn ELSE file[r]]
         /\ powerLost' = powerLost \union lost
    /\ fresh' = {}
    /\ UNCHANGED <<cloud, sha, row, version>>

-----------------------------------------------------------------------------
Work == \/ Sync \/ EndRound \/ Written
        \/ \E r \in Releases : Cached(r) \/ Open(r)
SensorStep(s) == Check(s) \/ Download(s) \/ Install(s)

Next == \/ \E r \in Releases : Publish(r) \/ Withdraw(r) \/ Reissue(r)
        \/ Work
        \/ \E r \in Releases : CachedFails(r) \/ RequestFails(r) \/ Flush(r)
        \/ WriteFails \/ SaveFails
        \/ \E s \in Sensors : SensorStep(s)
        \/ Crash \/ PowerLoss

Spec == Init /\ [][Next]_vars

\* The worker looks every hour and sensors ask again.
FairSpec == Spec /\ WF_vars(Work) /\ \A s \in Sensors : WF_vars(SensorStep(s))

-----------------------------------------------------------------------------
(* Properties.                                                              *)

\* "Validates SHA256 hashes and saves them to local storage for ESP32
\* clients": what a sensor may be offered is whole on the disk, through
\* failing and dying downloads, unless the cloud replaced the binary under
\* its id or the power went before the file was on the disk.
\* (cloud_sync.py:1-5, 84-117)
RecordedIsWhole ==
    \A r \in Releases \ (reissued \union powerLost) :
        row[r] # NoImage => file[r] = row[r]

\* If the cloud goes on listing every release, every sensor comes to run the
\* newest, over the minimum versions in between, and whatever was torn,
\* replaced or removed under it before.  (local_server.py:41-63)
SensorsAreUpdated ==
    <>[](listed = Releases) => \A s \in Sensors : <>[](version[s] = Newest)
=============================================================================
