---------------------------- MODULE StorageProofs ----------------------------
(***************************************************************************)
(* The model store is well typed and sound, for any tags, contents and     *)
(* requests, any number of crashes, and any interleaving of pulls,         *)
(* creations, copies, uploads and deletions.                               *)
(***************************************************************************)
EXTENDS Storage, TLAPS

----------------------------------------------------------------------------
(* Types                                                                   *)

Labels == {"new", "resolving", "fetching", "downloading", "unloading", "succeeded", "failed"}
Over == {"new", "succeeded", "failed"}
JobRecord == [pc : Labels, tag : Tags \cup {None}, todo : Seq(Announced),
              got : [Roles -> Digests \cup {None}]]
FileRecord == [state : {"absent", "good", "unreadable", "rejected"},
               artifacts : Artifacts \cup {None}]

FileInv ==
  /\ file \in [Tags -> FileRecord]
  /\ \A t \in Tags : file[t].state # "absent" => file[t].artifacts \in Artifacts
JobInv ==
  /\ job \in [Jobs -> JobRecord]
  /\ \A j \in Jobs : job[j].pc \notin Over => job[j].tag \in Tags
  /\ \A j \in Jobs : job[j].pc = "downloading" => job[j].todo # <<>>
  /\ \A j \in Jobs : job[j].pc = "resolving" => job[j].todo = <<>>
RestInv ==
  /\ blobs \subseteq Digests
  /\ partials \in 0 .. crashes /\ crashes \in 0 .. MaxCrashes /\ edits \in 0 .. MaxEdits
  /\ up \in BOOLEAN /\ (up => partials = 0)
  /\ exposed \subseteq Jobs /\ tainted \subseteq Tags /\ edited \subseteq Tags

(***************************************************************************)
(* TypeOK is not inductive: it does not say what a plan holds, nor that    *)
(* a download is one of an artifact of the plan, nor that partial files    *)
(* are left by crashes, one by each, and swept by the next start.          *)
(***************************************************************************)
TypeInv == FileInv /\ JobInv /\ RestInv

\* A request that begins, or is over
LEMMA RequestType ==
  ASSUME NEW pc \in Labels, NEW t \in Tags \cup {None}
  PROVE  /\ Request(pc, t) \in JobRecord
         /\ Request(pc, t).pc = pc /\ Request(pc, t).tag = t /\ Request(pc, t).todo = <<>>
<1>1. <<>> \in Seq(Announced)
  OBVIOUS
<1>2. NoArtifacts \in [Roles -> Digests \cup {None}]
  BY DEF NoArtifacts
<1> QED
  BY <1>1, <1>2 DEF Request, JobRecord

\* The request of j has ended
LEMMA EndType ==
  ASSUME JobInv, NEW j \in Jobs, NEW pc \in Over, End(j, pc)
  PROVE  JobInv'
<1>1. Request(pc, None) \in JobRecord /\ Request(pc, None).pc = pc
  BY RequestType DEF Labels, Over
<1> QED
  BY <1>1 DEF JobInv, End, Over

\* A request begins, for a tag
LEMMA BeginType ==
  ASSUME JobInv, NEW j \in Jobs, NEW t \in Tags, NEW pc \in {"resolving", "unloading"},
         job' = [job EXCEPT ![j] = Request(pc, t)]
  PROVE  JobInv'
<1>1. /\ Request(pc, t) \in JobRecord /\ Request(pc, t).tag = t /\ Request(pc, t).pc = pc
      /\ Request(pc, t).todo = <<>>
  BY RequestType DEF Labels
<1> QED
  BY <1>1 DEF JobInv

\* The name of a temporary file
LEMMA TemporaryName ==
  ASSUME NEW t \in Tags
  PROVE  TempOf(t).ext = "tmp"
BY DEF TempOf

\* What write makes of the manifests: one new file, at most a temporary one less
LEMMA WrittenFiles ==
  ASSUME FileInv, NEW t \in Tags, NEW a \in Artifacts
  PROVE  /\ Written(t, a) \in [Tags -> FileRecord]
         /\ Written(t, a)[t] = Readable(a)
         /\ \A u \in Tags : u # t => Written(t, a)[u] \in {file[u], Absent}
         /\ \A u \in Tags : u # t /\ u.ext # "tmp" => Written(t, a)[u] = file[u]
<1>1. Absent \in FileRecord /\ Readable(a) \in FileRecord
  BY DEF Absent, Readable, FileRecord
<1>2. TempOf(t).ext = "tmp"
  BY TemporaryName
<1>3. /\ Without(TempOf(t)) \in [Tags -> FileRecord]
      /\ \A u \in Tags : Without(TempOf(t))[u] \in {file[u], Absent}
      /\ \A u \in Tags : u.ext # "tmp" => Without(TempOf(t))[u] = file[u]
  BY <1>1, <1>2 DEF Without, FileInv
<1> QED
  BY <1>1, <1>3 DEF Written

\* A manifest is installed
LEMMA InstallType ==
  ASSUME FileInv, edited \subseteq Tags, NEW t \in Tags, NEW a \in Artifacts, Install(t, a)
  PROVE  FileInv' /\ edited' \subseteq Tags
<1>1. file' = Written(t, a)
  BY DEF Install
<1>2. \A u \in Tags : file'[u].state # "absent" => file'[u].artifacts \in Artifacts
  <2> SUFFICES ASSUME NEW u \in Tags, file'[u].state # "absent"
               PROVE  file'[u].artifacts \in Artifacts
    OBVIOUS
  <2>1. CASE u = t
    <3>1. file'[u] = Readable(a)
      BY <2>1, <1>1, WrittenFiles
    <3> QED
      BY <3>1 DEF Readable
  <2>2. CASE u # t
    <3>1. file'[u] = file[u]
      BY <2>2, <1>1, WrittenFiles DEF Absent
    <3> QED
      BY <3>1 DEF FileInv
  <2> QED
    BY <2>1, <2>2
<1> QED
  BY <1>1, <1>2, WrittenFiles DEF FileInv, Install

\* A manifest is removed
LEMMA WithoutType ==
  ASSUME FileInv, NEW t \in Tags
  PROVE  /\ Without(t) \in [Tags -> FileRecord]
         /\ Without(t)[t] = Absent
         /\ \A u \in Tags : u # t => Without(t)[u] = file[u]
<1>1. Absent \in FileRecord
  BY DEF Absent, FileRecord
<1> QED
  BY <1>1 DEF Without, FileInv

\* What a pull that is complete gives to the manifest
LEMMA PulledType ==
  ASSUME JobInv, NEW j \in Jobs, Fetched(j)
  PROVE  Pulled(j) \in Artifacts /\ job[j].tag \in Tags
<1>1. job[j].got \in [Roles -> Digests \cup {None}]
  BY DEF JobInv, JobRecord
<1>2. "model" \in Roles /\ "mmproj" \in Roles
  BY DEF Roles
<1>3. Pulled(j) \in Artifacts
  BY <1>1, <1>2 DEF Fetched, Pulled, Artifacts
<1>4. job[j].tag \in Tags
  BY DEF JobInv, Fetched, Over
<1> QED
  BY <1>3, <1>4

\* The files that a crash inside write may leave
LEMMA CutWritesType ==
  ASSUME FileInv, NEW t \in Tags, NEW a \in Artifacts, NEW f \in CutWrites(t, a)
  PROVE  /\ f \in [Tags -> FileRecord]
         /\ \A u \in Tags : f[u].state # "absent" => f[u].artifacts \in Artifacts
         /\ \A u \in Tags : u.ext # "tmp" => f[u] = file[u]
<1>1. TempOf(t).ext = "tmp"
  BY TemporaryName
<1>2. CASE TempOf(t) \notin Tags
  BY <1>2 DEF CutWrites, FileInv
<1>3. CASE TempOf(t) \in Tags
  <2>1. PICK s \in {"good", "unreadable"} :
          f = [file EXCEPT ![TempOf(t)] = [state |-> s, artifacts |-> a]]
    BY <1>3 DEF CutWrites
  <2>2. [state |-> s, artifacts |-> a] \in FileRecord
    BY DEF FileRecord
  <2> QED
    BY <1>1, <1>3, <2>1, <2>2 DEF FileInv
<1> QED
  BY <1>2, <1>3

----------------------------------------------------------------------------
(* One lemma for the actions of a kind                                     *)

\* Requests begin and fail; a source resolves to a plan
LEMMA RequestSteps ==
  ASSUME TypeInv, NEW j \in Jobs,
         \/ \E t \in Tags : BeginPull(j, t) \/ BeginDelete(j, t)
         \/ \E plan \in Plans : Resolve(j, plan)
         \/ ResolveFails(j) \/ FetchFails(j) \/ DeleteAbsent(j)
  PROVE  TypeInv'
<1>1. FileInv' /\ RestInv'
  BY DEF TypeInv, FileInv, RestInv, BeginPull, BeginDelete, Resolve, ResolveFails, FetchFails,
         DeleteAbsent, disk, history
<1>2. CASE \E t \in Tags : BeginPull(j, t) \/ BeginDelete(j, t)
  BY <1>1, <1>2, BeginType DEF TypeInv, BeginPull, BeginDelete
<1>3. CASE \E plan \in Plans : Resolve(j, plan)
  <2>1. PICK plan \in Plans : Resolve(j, plan)
    BY <1>3
  <2>2. plan \in Seq(Announced)
    BY StorageAssumption
  <2>3. job' = [job EXCEPT ![j].pc = "fetching", ![j].todo = plan] /\ job[j].pc = "resolving"
    BY <2>1 DEF Resolve
  <2>4. JobInv'
    BY <2>2, <2>3, ZenonT(30) DEF TypeInv, JobInv, JobRecord, Labels, Over
  <2> QED
    BY <1>1, <2>4 DEF TypeInv
<1>4. CASE ResolveFails(j) \/ FetchFails(j) \/ DeleteAbsent(j)
  BY <1>1, <1>4, EndType DEF TypeInv, ResolveFails, FetchFails, DeleteAbsent, Over
<1> QED
  BY <1>2, <1>3, <1>4

\* The artifact that comes next in a plan
LEMMA HeadType ==
  ASSUME JobInv, NEW j \in Jobs, job[j].todo # <<>>
  PROVE  /\ Head(job[j].todo) \in Announced
         /\ Tail(job[j].todo) \in Seq(Announced)
<1>1. job[j].todo \in Seq(Announced)
  BY DEF JobInv, JobRecord
<1> QED
  BY <1>1

\* A pull has an artifact and goes on to the next one
LEMMA AdvanceType ==
  ASSUME JobInv, NEW j \in Jobs, NEW d \in Digests, job[j].todo # <<>>,
         job[j].pc \in {"fetching", "downloading"}, Advance(j, d)
  PROVE  /\ JobInv'
         /\ job'[j].got = [job[j].got EXCEPT ![Head(job[j].todo).role] = d]
         /\ job'[j].pc = "fetching"
         /\ \A k \in Jobs : k # j => job'[k] = job[k]
<1> DEFINE role == Head(job[j].todo).role
           got == [job[j].got EXCEPT ![role] = d]
           todo == Tail(job[j].todo)
           after == [pc |-> "fetching", tag |-> job[j].tag, todo |-> todo, got |-> got]
<1>1. role \in Roles /\ todo \in Seq(Announced)
  BY HeadType DEF Announced
<1>2. job \in [Jobs -> JobRecord] /\ job[j] \in JobRecord
  BY DEF JobInv
<1>3. got \in [Roles -> Digests \cup {None}]
  BY <1>1, <1>2 DEF JobRecord
<1>4. after \in JobRecord
  BY <1>1, <1>2, <1>3 DEF JobRecord, Labels
<1>5. job' = [job EXCEPT ![j] = after]
  BY <1>2 DEF Advance, JobRecord
<1>6. after.pc = "fetching" /\ after.tag = job[j].tag /\ after.got = got
  OBVIOUS
<1>7. job[j].tag \in Tags
  BY DEF JobInv, Over
<1> HIDE DEF after, got
<1>8. JobInv'
  BY <1>4, <1>5, <1>6, <1>7 DEF JobInv
<1> QED
  BY <1>5, <1>6, <1>8 DEF JobInv, got, after

\* The steps of a pull
LEMMA PullSteps ==
  ASSUME TypeInv, NEW j \in Jobs,
         AlreadyPresent(j) \/ Download(j) \/ Ingest(j) \/ InstallPulled(j)
  PROVE  TypeInv'
<1>1. CASE AlreadyPresent(j)
  <2>1. Head(job[j].todo).digest \in Digests
    BY <1>1 DEF TypeInv, RestInv, AlreadyPresent
  <2>2. JobInv'
    BY <1>1, <2>1, AdvanceType DEF TypeInv, AlreadyPresent
  <2> QED
    BY <1>1, <2>2 DEF TypeInv, FileInv, RestInv, AlreadyPresent, disk, history
<1>2. CASE Download(j)
  <2>1. JobInv'
    BY <1>2 DEF TypeInv, JobInv, JobRecord, Labels, Over, Download, Step
  <2> QED
    BY <1>2, <2>1 DEF TypeInv, FileInv, RestInv, Download, disk, history
<1>3. CASE Ingest(j)
  <2>1. Head(job[j].todo).sends \in Digests
    BY <1>3, HeadType DEF TypeInv, JobInv, Ingest, Announced
  <2>2. JobInv'
    BY <1>3, <2>1, AdvanceType DEF TypeInv, JobInv, Ingest
  <2> QED
    BY <1>3, <2>1, <2>2 DEF TypeInv, FileInv, RestInv, Ingest, history
<1>4. CASE InstallPulled(j)
  <2>1. Pulled(j) \in Artifacts /\ job[j].tag \in Tags /\ Install(job[j].tag, Pulled(j))
    BY <1>4, PulledType DEF TypeInv, InstallPulled
  <2>2. FileInv' /\ edited' \subseteq Tags
    BY <2>1, InstallType DEF TypeInv, RestInv
  <2>3. JobInv'
    BY <1>4, EndType DEF TypeInv, InstallPulled, Over
  <2>4. UNCHANGED <<blobs, partials>>
    BY <2>1 DEF Install
  <2> QED
    BY <1>4, <2>1, <2>2, <2>3, <2>4 DEF TypeInv, RestInv, InstallPulled
<1> QED
  BY <1>1, <1>2, <1>3, <1>4

\* Uploads, creations and copies
LEMMA ManagementSteps ==
  ASSUME TypeInv,
         \/ \E d \in Digests : Upload(d)
         \/ \E t \in Tags : Create(t)
         \/ \E s, t \in Tags : Copy(s, t)
  PROVE  TypeInv'
<1>1. CASE \E d \in Digests : Upload(d)
  BY <1>1 DEF TypeInv, FileInv, JobInv, RestInv, Upload, history
<1>2. CASE \E t \in Tags : Create(t)
  <2>1. PICK t \in Tags, a \in Creatable : Create(t) /\ Install(t, a)
    BY <1>2 DEF Create
  <2>2. a \in Artifacts
    BY StorageAssumption DEF Creatable
  <2>3. FileInv' /\ edited' \subseteq Tags
    BY <2>1, <2>2, InstallType DEF TypeInv, RestInv
  <2> QED
    BY <2>1, <2>3 DEF TypeInv, JobInv, RestInv, Create, Install
<1>3. CASE \E s, t \in Tags : Copy(s, t)
  <2>1. PICK s \in Tags, t \in Tags : Copy(s, t)
    BY <1>3
  <2>2. file[s].artifacts \in Artifacts /\ Install(t, file[s].artifacts)
    BY <2>1 DEF TypeInv, FileInv, Copy
  <2>3. FileInv' /\ edited' \subseteq Tags
    BY <2>2, InstallType DEF TypeInv, RestInv
  <2>4. tainted' \subseteq Tags
    BY <2>1 DEF TypeInv, RestInv, Copy
  <2> QED
    BY <2>1, <2>2, <2>3, <2>4 DEF TypeInv, JobInv, RestInv, Copy, Install
<1> QED
  BY <1>1, <1>2, <1>3

\* A deletion, with its collection or not
LEMMA DeleteStep ==
  ASSUME TypeInv, NEW j \in Jobs, Delete(j)
  PROVE  TypeInv'
<1>1. job[j].tag \in Tags
  BY DEF TypeInv, JobInv, Delete, Over
<1>2. file' = Without(job[j].tag)
  BY DEF Delete
<1>3. FileInv'
  <2>1. \A u \in Tags : file'[u].state # "absent" => file'[u] = file[u]
    BY <1>1, <1>2, WithoutType DEF TypeInv, Absent
  <2> QED
    BY <1>1, <1>2, <2>1, WithoutType DEF TypeInv, FileInv
<1>4. JobInv'
  BY EndType DEF TypeInv, Delete, Over
<1>5. blobs' \subseteq Digests /\ exposed' \subseteq Jobs
  BY DEF TypeInv, RestInv, Delete, Kept, Pulling
<1> QED
  BY <1>3, <1>4, <1>5 DEF TypeInv, RestInv, Delete

\* A crash cuts at most one disk operation, and ends all the requests
LEMMA CrashStep ==
  ASSUME TypeInv, Crash
  PROVE  TypeInv'
<1>1. FileInv'
  <2>1. CASE UNCHANGED disk \/ CutIngest
    BY <2>1 DEF TypeInv, FileInv, CutIngest, disk
  <2>2. CASE CutInstall
    <3>1. PICK t \in Tags, a \in Artifacts : file' \in CutWrites(t, a)
      <4>1. CASE \E t \in Tags : \E a \in Creatable : file' \in CutWrites(t, a)
        BY <4>1, StorageAssumption DEF Creatable
      <4>2. CASE \E s, t \in Tags :
                   file[s].state = "good" /\ file' \in CutWrites(t, file[s].artifacts)
        BY <4>2 DEF TypeInv, FileInv
      <4>3. CASE \E j \in Jobs : Fetched(j) /\ file' \in CutWrites(job[j].tag, Pulled(j))
        BY <4>3, PulledType DEF TypeInv
      <4> QED
        BY <2>2, <4>1, <4>2, <4>3 DEF CutInstall
    <3> QED
      BY <3>1, CutWritesType DEF TypeInv, FileInv
  <2>3. CASE CutDelete
    <3>1. PICK j \in Jobs : job[j].pc = "unloading" /\ file' = Without(job[j].tag)
      BY <2>3 DEF CutDelete
    <3>2. job[j].tag \in Tags
      BY <3>1 DEF TypeInv, JobInv, Over
    <3>3. \A u \in Tags : file'[u].state # "absent" => file'[u] = file[u]
      BY <3>1, <3>2, WithoutType DEF TypeInv, Absent
    <3> QED
      BY <3>1, <3>2, <3>3, WithoutType DEF TypeInv, FileInv
  <2> QED
    BY <2>1, <2>2, <2>3 DEF Crash
<1>2. JobInv'
  <2>1. Request("failed", None) \in JobRecord /\ Request("failed", None).pc = "failed"
    BY RequestType DEF Labels
  <2>2. job' = [k \in Jobs |-> IF job[k].pc \in {"new", "succeeded", "failed"}
                               THEN job[k] ELSE Request("failed", None)]
    BY DEF Crash
  <2> QED
    BY <2>1, <2>2 DEF TypeInv, JobInv, Over
<1>3. blobs' \subseteq Digests
  BY DEF TypeInv, RestInv, Crash, CutIngest, CutInstall, CutDelete, Kept, disk
<1>4. partials' \in 0 .. crashes' /\ crashes' \in 0 .. MaxCrashes
  <2>1. partials' \in {partials, partials + 1} /\ crashes' = crashes + 1 /\ crashes < MaxCrashes
    BY DEF Crash, CutIngest, CutInstall, CutDelete, disk
  <2> QED
    BY <2>1, StorageAssumption DEF TypeInv, RestInv
<1> QED
  BY <1>1, <1>2, <1>3, <1>4 DEF TypeInv, RestInv, Crash

\* The service starts again; the operator edits a manifest
LEMMA OutsideSteps ==
  ASSUME TypeInv,
         Restart \/ \E t \in Tags, state \in {"unreadable", "rejected"} : Edit(t, state)
  PROVE  TypeInv'
<1>1. CASE Restart
  BY <1>1 DEF TypeInv, FileInv, JobInv, RestInv, Restart, history
<1>2. CASE \E t \in Tags, state \in {"unreadable", "rejected"} : Edit(t, state)
  <2>1. PICK t \in Tags, state \in {"unreadable", "rejected"} : Edit(t, state)
    BY <1>2
  <2>2. file' = [file EXCEPT ![t].state = state] /\ file[t].state # "absent"
    BY <2>1 DEF Edit
  <2>3. FileInv'
    BY <2>2 DEF TypeInv, FileInv, FileRecord
  <2>4. edits' \in 0 .. MaxEdits
    BY <2>1, StorageAssumption DEF TypeInv, RestInv, Edit
  <2> QED
    BY <2>1, <2>3, <2>4 DEF TypeInv, JobInv, RestInv, Edit
<1> QED
  BY <1>1, <1>2

\* The typing invariant is inductive, and stronger than TypeOK
LEMMA TypeInvariant == Spec => []TypeInv
<1>1. Init => TypeInv
  <2> SUFFICES ASSUME Init PROVE TypeInv
    OBVIOUS
  <2>1. FileInv
    BY DEF Init, FileInv, FileRecord, Absent
  <2>2. JobInv
    <3>1. Request("new", None) \in JobRecord /\ Request("new", None).pc = "new"
      BY RequestType DEF Labels
    <3> QED
      BY <3>1 DEF Init, JobInv, Over
  <2>3. RestInv
    BY StorageAssumption DEF Init, RestInv
  <2> QED
    BY <2>1, <2>2, <2>3 DEF TypeInv
<1>2. TypeInv /\ [Next]_vars => TypeInv'
  <2> SUFFICES ASSUME TypeInv, [Next]_vars PROVE TypeInv'
    OBVIOUS
  <2>1. CASE UNCHANGED vars
    BY <2>1 DEF TypeInv, FileInv, JobInv, RestInv, vars, disk, history
  <2>2. CASE Next
    BY <2>2, RequestSteps, PullSteps, ManagementSteps, DeleteStep, CrashStep, OutsideSteps
       DEF Next
  <2> QED
    BY <2>1, <2>2
<1> QED
  BY <1>1, <1>2, PTL DEF Spec

(***************************************************************************)
(* TypeOK of Storage is an invariant of the model of the stores: among     *)
(* others, a manifest always names weights (sources.py:80-81).             *)
(***************************************************************************)
THEOREM StorageTypeCorrect == Spec => []TypeOK
<1>1. TypeInv => TypeOK
  <2> SUFFICES ASSUME TypeInv PROVE TypeOK
    OBVIOUS
  <2>1. partials \in 0 .. MaxCrashes
    BY StorageAssumption DEF TypeInv, RestInv
  <2>2. /\ DOMAIN job = Jobs
        /\ \A j \in Jobs :
             /\ job[j].pc \in Labels
             /\ job[j].pc \notin Over => job[j].tag \in Tags
             /\ \A role \in Roles : job[j].got[role] \in Digests \cup {None}
    BY DEF TypeInv, JobInv, JobRecord
  <2>3. DOMAIN file = Tags /\ \A t \in Tags : file[t].state \in {"absent", "good", "unreadable", "rejected"}
    BY DEF TypeInv, FileInv, FileRecord
  <2> QED
    BY <2>1, <2>2, <2>3 DEF TypeInv, FileInv, RestInv, TypeOK, Labels, Over
<1> QED
  BY <1>1, TypeInvariant, PTL

----------------------------------------------------------------------------
(* Soundness                                                               *)

(***************************************************************************)
(* A pull has what it will install, unless a collection ran under it; a    *)
(* manifest that can be read names blobs that exist, unless such a pull    *)
(* installed it.  The two are inductive together: the second is what a     *)
(* collection keeps, and the first what the next installation needs.       *)
(***************************************************************************)
PullsHold ==
  \A j \in Pulling \ exposed :
    \A role \in Roles : job[j].got[role] # None => job[j].got[role] \in blobs
GoodIsComplete ==
  \A t \in Listed \ tainted :
    file[t].state = "good" => AllDigests(file[t].artifacts) \subseteq blobs

SoundInv == TypeInv /\ PullsHold /\ GoodIsComplete /\ ListedNeverTorn

\* A step that leaves the manifests alone, and collects nothing
LEMMA QuietStep ==
  ASSUME SoundInv, UNCHANGED <<file, tainted>>, blobs \subseteq blobs', edited \subseteq edited'
  PROVE  GoodIsComplete' /\ ListedNeverTorn'
BY DEF SoundInv, GoodIsComplete, ListedNeverTorn, Listed

\* A step that leaves the manifests which are listed alone
LEMMA UnlistedStep ==
  ASSUME SoundInv, UNCHANGED <<blobs, tainted, edited>>,
         \A u \in Tags : u.ext # "tmp" => file'[u] = file[u]
  PROVE  GoodIsComplete' /\ ListedNeverTorn'
BY DEF SoundInv, GoodIsComplete, ListedNeverTorn, Listed

\* An installation: the new manifest is good, the others stay as they are
LEMMA InstallStep ==
  ASSUME SoundInv, NEW t \in Tags, NEW a \in Artifacts, Install(t, a),
         tainted' \in {tainted \cup {t}, tainted \ {t}},
         t \notin tainted' /\ t.ext # "tmp" => AllDigests(a) \subseteq blobs
  PROVE  GoodIsComplete' /\ ListedNeverTorn'
<1>1. file' = Written(t, a) /\ blobs' = blobs /\ edited' = edited \ {t, TempOf(t)}
  BY DEF Install
<1>2. /\ file'[t] = Readable(a)
      /\ \A u \in Tags : u # t /\ u.ext # "tmp" => file'[u] = file[u]
  BY <1>1, WrittenFiles DEF SoundInv, TypeInv
<1>3. file'[t].state = "good" /\ file'[t].artifacts = a
  BY <1>2 DEF Readable
<1>4. GoodIsComplete'
  <2> SUFFICES ASSUME NEW u \in Tags, u.ext # "tmp", file'[u].state = "good", u \notin tainted'
               PROVE  AllDigests(file'[u].artifacts) \subseteq blobs'
    BY DEF GoodIsComplete, Listed
  <2>1. CASE u = t
    BY <2>1, <1>1, <1>3
  <2>2. CASE u # t
    <3>1. file'[u] = file[u] /\ u \notin tainted
      BY <2>2, <1>2
    <3>2. u \in Listed \ tainted
      BY <3>1 DEF Listed
    <3> QED
      BY <3>1, <3>2, <1>1 DEF SoundInv, GoodIsComplete
  <2> QED
    BY <2>1, <2>2
<1>5. ListedNeverTorn'
  <2> SUFFICES ASSUME NEW u \in Tags, u.ext # "tmp", file'[u].state \notin {"absent", "good"}
               PROVE  u \in edited'
    BY DEF ListedNeverTorn, Listed
  <2>1. u # t /\ file'[u] = file[u]
    BY <1>2, <1>3
  <2>2. u \in edited
    BY <2>1 DEF SoundInv, ListedNeverTorn, Listed
  <2>3. u # TempOf(t)
    BY TemporaryName
  <2> QED
    BY <1>1, <2>1, <2>2, <2>3
<1> QED
  BY <1>4, <1>5

\* The removal of a manifest, and a collection that keeps what is referenced
LEMMA RemovalStep ==
  ASSUME SoundInv, NEW t \in Tags, file' = Without(t), edited \ {t} \subseteq edited',
         blobs' = blobs \/ Kept(file') \subseteq blobs',
         tainted \ {t} \subseteq tainted'
  PROVE  GoodIsComplete' /\ ListedNeverTorn'
<1>1. file'[t] = Absent /\ \A u \in Tags : u # t => file'[u] = file[u]
  BY WithoutType DEF SoundInv, TypeInv
<1>2. file'[t].state = "absent"
  BY <1>1 DEF Absent
<1>3. GoodIsComplete'
  <2> SUFFICES ASSUME NEW u \in Tags, u.ext # "tmp", file'[u].state = "good", u \notin tainted'
               PROVE  AllDigests(file'[u].artifacts) \subseteq blobs'
    BY DEF GoodIsComplete, Listed
  <2>1. file'[u] = file[u] /\ u \in Listed \ tainted
    BY <1>1, <1>2 DEF Listed
  <2>2. AllDigests(file[u].artifacts) \subseteq blobs
    BY <2>1 DEF SoundInv, GoodIsComplete
  <2>3. AllDigests(file'[u].artifacts) \subseteq Referenced(file')
    BY DEF Referenced
  <2> QED
    BY <2>1, <2>2, <2>3 DEF Kept
<1>4. ListedNeverTorn'
  BY <1>1, <1>2 DEF SoundInv, ListedNeverTorn, Listed
<1> QED
  BY <1>3, <1>4

\* Nobody begins to pull, gives up its exposure or gets an artifact
LEMMA PullsUntouched ==
  ASSUME SoundInv, blobs \subseteq blobs',
         \A k \in Jobs : k \in Pulling' \ exposed' =>
           k \in Pulling \ exposed /\ job'[k].got = job[k].got
  PROVE  PullsHold'
BY DEF SoundInv, PullsHold, Pulling

\* The requests that pull after a step, and what they hold, when one has ended or moved
LEMMA EndKeepsPulls ==
  ASSUME SoundInv, NEW j \in Jobs, NEW pc \in Over \cup {"unloading"},
         NEW t \in Tags \cup {None}, job' = [job EXCEPT ![j] = Request(pc, t)],
         blobs \subseteq blobs', exposed \ {j} \subseteq exposed'
  PROVE  PullsHold'
<1>1. job'[j].pc = pc /\ \A k \in Jobs : k # j => job'[k] = job[k]
  BY RequestType DEF SoundInv, TypeInv, JobInv, Labels, Over
<1>2. j \notin Pulling'
  BY <1>1 DEF Pulling, Over
<1> QED
  BY <1>1, <1>2, PullsUntouched DEF Pulling

\* Requests begin and fail; a source resolves to a plan
LEMMA RequestsAreSound ==
  ASSUME SoundInv, NEW j \in Jobs,
         \/ \E t \in Tags : BeginPull(j, t) \/ BeginDelete(j, t)
         \/ \E plan \in Plans : Resolve(j, plan)
         \/ ResolveFails(j) \/ FetchFails(j) \/ DeleteAbsent(j)
  PROVE  PullsHold' /\ GoodIsComplete' /\ ListedNeverTorn'
<1>1. UNCHANGED <<file, tainted, edited, blobs>>
  BY DEF BeginPull, BeginDelete, Resolve, ResolveFails, FetchFails, DeleteAbsent, disk, history
<1>2. GoodIsComplete' /\ ListedNeverTorn'
  BY <1>1, QuietStep
<1>3. CASE \E t \in Tags : BeginPull(j, t)
  <2>1. PICK t \in Tags : job' = [job EXCEPT ![j] = Request("resolving", t)]
    BY <1>3 DEF BeginPull
  <2>2. job'[j].got = NoArtifacts /\ \A k \in Jobs : k # j => job'[k] = job[k]
    BY <2>1 DEF SoundInv, TypeInv, JobInv, Request
  <2>3. exposed' = exposed
    BY <1>3 DEF BeginPull, history
  <2>4. PullsHold'
    BY <1>1, <2>2, <2>3 DEF SoundInv, PullsHold, Pulling, NoArtifacts
  <2> QED
    BY <1>2, <2>4
<1>4. CASE \E t \in Tags : BeginDelete(j, t)
  BY <1>1, <1>2, <1>4, EndKeepsPulls DEF BeginDelete, history
<1>5. CASE \E plan \in Plans : Resolve(j, plan)
  <2>1. PICK plan \in Plans : Resolve(j, plan)
    BY <1>5
  <2>2. \A k \in Jobs : job'[k].got = job[k].got
    BY <2>1 DEF SoundInv, TypeInv, JobInv, JobRecord, Resolve
  <2>3. Pulling' = Pulling /\ exposed' = exposed
    BY <2>1 DEF SoundInv, TypeInv, JobInv, JobRecord, Resolve, Pulling, history
  <2> QED
    BY <1>1, <1>2, <2>2, <2>3, PullsUntouched DEF Pulling
<1>6. CASE ResolveFails(j) \/ FetchFails(j) \/ DeleteAbsent(j)
  BY <1>1, <1>2, <1>6, EndKeepsPulls DEF ResolveFails, FetchFails, DeleteAbsent, End, Over, history
<1> QED
  BY <1>3, <1>4, <1>5, <1>6

\* A pull has one more artifact, which is in the store
LEMMA AdvanceIsSound ==
  ASSUME SoundInv, NEW j \in Jobs, NEW d \in Digests, job[j].todo # <<>>,
         job[j].pc \in {"fetching", "downloading"}, Advance(j, d),
         blobs \subseteq blobs', d \in blobs', exposed' = exposed
  PROVE  PullsHold'
<1>1. /\ job'[j].got = [job[j].got EXCEPT ![Head(job[j].todo).role] = d]
      /\ \A k \in Jobs : k # j => job'[k] = job[k]
  BY AdvanceType DEF SoundInv, TypeInv
<1>2. j \in Pulling /\ job[j].got \in [Roles -> Digests \cup {None}]
  BY DEF SoundInv, TypeInv, JobInv, JobRecord, Pulling
<1> SUFFICES ASSUME NEW k \in Jobs, k \in Pulling' \ exposed', NEW role \in Roles,
                    job'[k].got[role] # None
             PROVE  job'[k].got[role] \in blobs'
  BY DEF PullsHold, Pulling
<1>3. CASE k = j
  <2>1. job'[k].got[role] \in {job[j].got[role], d}
    BY <1>1, <1>2, <1>3
  <2>2. j \in Pulling \ exposed
    BY <1>2, <1>3
  <2>3. job[j].got[role] # None => job[j].got[role] \in blobs
    BY <2>2 DEF SoundInv, PullsHold
  <2> QED
    BY <2>1, <2>3
<1>4. CASE k # j
  <2>1. job'[k] = job[k] /\ k \in Pulling \ exposed
    BY <1>1, <1>4 DEF Pulling
  <2> QED
    BY <2>1 DEF SoundInv, PullsHold
<1> QED
  BY <1>3, <1>4

\* The steps of a pull
LEMMA PullsAreSound ==
  ASSUME SoundInv, NEW j \in Jobs,
         AlreadyPresent(j) \/ Download(j) \/ Ingest(j) \/ InstallPulled(j)
  PROVE  PullsHold' /\ GoodIsComplete' /\ ListedNeverTorn'
<1>1. CASE AlreadyPresent(j)
  <2>1. Head(job[j].todo).digest \in Digests /\ UNCHANGED <<blobs, file, tainted, edited, exposed>>
    BY <1>1 DEF SoundInv, TypeInv, RestInv, AlreadyPresent, disk, history
  <2>2. PullsHold'
    BY <1>1, <2>1, AdvanceIsSound DEF AlreadyPresent
  <2> QED
    BY <2>1, <2>2, QuietStep
<1>2. CASE Download(j)
  <2>1. UNCHANGED <<blobs, file, tainted, edited, exposed>>
    BY <1>2 DEF Download, disk, history
  <2>2. Pulling' = Pulling /\ \A k \in Jobs : job'[k].got = job[k].got
    BY <1>2 DEF SoundInv, TypeInv, JobInv, JobRecord, Download, Step, Pulling
  <2>3. PullsHold'
    BY <2>1, <2>2, PullsUntouched
  <2> QED
    BY <2>1, <2>3, QuietStep
<1>3. CASE Ingest(j)
  <2>1. job[j].todo # <<>>
    BY <1>3 DEF SoundInv, TypeInv, JobInv, Ingest
  <2>2. Head(job[j].todo).sends \in Digests
    BY <2>1, HeadType DEF SoundInv, TypeInv, Announced
  <2>3. UNCHANGED <<file, tainted, edited, exposed>>
    BY <1>3 DEF Ingest, history
  <2>4. blobs' = blobs \cup {Head(job[j].todo).sends}
    BY <1>3 DEF Ingest
  <2>5. PullsHold'
    BY <1>3, <2>1, <2>2, <2>3, <2>4, AdvanceIsSound DEF Ingest
  <2> QED
    BY <2>3, <2>4, <2>5, QuietStep
<1>4. CASE InstallPulled(j)
  <2> DEFINE t == job[j].tag
  <2>1. Pulled(j) \in Artifacts /\ t \in Tags /\ Install(t, Pulled(j))
    BY <1>4, PulledType DEF SoundInv, TypeInv, InstallPulled
  <2>2. tainted' = IF j \in exposed THEN tainted \cup {t} ELSE tainted \ {t}
    BY <1>4 DEF InstallPulled
  <2>3. j \notin exposed => AllDigests(Pulled(j)) \subseteq blobs
    <3>1. j \in Pulling /\ "model" \in Roles /\ "mmproj" \in Roles
      BY <1>4 DEF InstallPulled, Fetched, Pulling, Roles
    <3> QED
      BY <3>1 DEF SoundInv, PullsHold, AllDigests, Pulled
  <2>4. GoodIsComplete' /\ ListedNeverTorn'
    BY <2>1, <2>2, <2>3, InstallStep
  <2>5. PullsHold'
    BY <1>4, <2>1, EndKeepsPulls DEF InstallPulled, End, Over, Install
  <2> QED
    BY <2>4, <2>5
<1> QED
  BY <1>1, <1>2, <1>3, <1>4

\* Uploads, creations and copies
LEMMA ManagementIsSound ==
  ASSUME SoundInv,
         \/ \E d \in Digests : Upload(d)
         \/ \E t \in Tags : Create(t)
         \/ \E s, t \in Tags : Copy(s, t)
  PROVE  PullsHold' /\ GoodIsComplete' /\ ListedNeverTorn'
<1>1. blobs \subseteq blobs' /\ UNCHANGED <<job, exposed>>
  BY DEF Upload, Create, Copy, Install, history
<1>2. PullsHold'
  BY <1>1, PullsUntouched DEF Pulling
<1>3. CASE \E d \in Digests : Upload(d)
  <2>1. UNCHANGED <<file, tainted, edited>>
    BY <1>3 DEF Upload, history
  <2> QED
    BY <1>1, <1>2, <2>1, QuietStep
<1>4. CASE \E t \in Tags : Create(t)
  <2>1. PICK t \in Tags, a \in Creatable : Install(t, a) /\ tainted' = tainted \ {t}
    BY <1>4 DEF Create
  <2>2. a \in Artifacts /\ AllDigests(a) \subseteq blobs
    BY StorageAssumption DEF Creatable
  <2> QED
    BY <1>2, <2>1, <2>2, InstallStep
<1>5. CASE \E s, t \in Tags : Copy(s, t)
  <2>1. PICK s \in Tags, t \in Tags : Copy(s, t)
    BY <1>5
  <2>2. file[s].artifacts \in Artifacts /\ Install(t, file[s].artifacts)
    BY <2>1 DEF SoundInv, TypeInv, FileInv, Copy
  <2>3. tainted' = IF s \in tainted \/ s.ext = "tmp" THEN tainted \cup {t} ELSE tainted \ {t}
    BY <2>1 DEF Copy
  <2>4. s \notin tainted /\ s.ext # "tmp" => AllDigests(file[s].artifacts) \subseteq blobs
    BY <2>1 DEF SoundInv, GoodIsComplete, Listed, Copy
  <2> QED
    BY <1>2, <2>2, <2>3, <2>4, InstallStep
<1> QED
  BY <1>3, <1>4, <1>5

\* A deletion exposes the pulls under way to its collection
LEMMA DeletionIsSound ==
  ASSUME SoundInv, NEW j \in Jobs, Delete(j)
  PROVE  PullsHold' /\ GoodIsComplete' /\ ListedNeverTorn'
<1>1. job[j].tag \in Tags
  BY DEF SoundInv, TypeInv, JobInv, Delete, Over
<1>2. GoodIsComplete' /\ ListedNeverTorn'
  BY <1>1, RemovalStep DEF Delete
<1>3. PICK pc \in {"failed", "succeeded"} : End(j, pc)
  BY DEF Delete
<1>4. CASE UNCHANGED <<blobs, exposed>>
  BY <1>2, <1>3, <1>4, EndKeepsPulls DEF End, Over
<1>5. CASE exposed' = exposed \cup Pulling
  <2>1. job'[j].pc = pc /\ \A k \in Jobs : k # j => job'[k] = job[k]
    BY <1>3, RequestType DEF SoundInv, TypeInv, JobInv, End, Labels
  <2>2. Pulling' \ exposed' = {}
    BY <1>5, <2>1 DEF Pulling
  <2> QED
    BY <1>2, <2>2 DEF PullsHold
<1> QED
  BY <1>4, <1>5 DEF Delete

\* A crash inside any disk operation
LEMMA CrashIsSound ==
  ASSUME SoundInv, Crash
  PROVE  PullsHold' /\ GoodIsComplete' /\ ListedNeverTorn'
<1>1. PullsHold'
  <2>1. Request("failed", None).pc = "failed"
    BY RequestType DEF Labels
  <2>2. Pulling' = {}
    BY <2>1 DEF Crash, Pulling
  <2> QED
    BY <2>2 DEF PullsHold
<1>2. UNCHANGED <<tainted, edited>>
  BY DEF Crash
<1>3. CASE UNCHANGED disk \/ CutIngest
  BY <1>1, <1>2, <1>3, QuietStep DEF disk, CutIngest
<1>4. CASE CutInstall
  <2>1. \A u \in Tags : u.ext # "tmp" => file'[u] = file[u]
    <3>1. CASE \E t \in Tags : \E a \in Creatable : file' \in CutWrites(t, a)
      BY <3>1, CutWritesType, StorageAssumption DEF SoundInv, TypeInv, Creatable
    <3>2. CASE \E s, t \in Tags :
                 file[s].state = "good" /\ file' \in CutWrites(t, file[s].artifacts)
      <4>1. PICK s \in Tags, t \in Tags :
                 file[s].state = "good" /\ file' \in CutWrites(t, file[s].artifacts)
        BY <3>2
      <4>2. file[s].artifacts \in Artifacts
        BY <4>1 DEF SoundInv, TypeInv, FileInv
      <4> QED
        BY <4>1, <4>2, CutWritesType DEF SoundInv, TypeInv
    <3>3. CASE \E j \in Jobs : Fetched(j) /\ file' \in CutWrites(job[j].tag, Pulled(j))
      BY <3>3, CutWritesType, PulledType DEF SoundInv, TypeInv
    <3> QED
      BY <1>4, <3>1, <3>2, <3>3 DEF CutInstall
  <2>2. blobs' = blobs
    BY <1>4 DEF CutInstall
  <2> QED
    BY <1>1, <1>2, <2>1, <2>2, UnlistedStep
<1>5. CASE CutDelete
  <2>1. PICK j \in Jobs : job[j].pc = "unloading" /\ file' = Without(job[j].tag)
    BY <1>5 DEF CutDelete
  <2>2. job[j].tag \in Tags
    BY <2>1 DEF SoundInv, TypeInv, JobInv, Over
  <2>3. Kept(file') \subseteq blobs'
    BY <1>5 DEF CutDelete
  <2> QED
    BY <1>1, <1>2, <2>1, <2>2, <2>3, RemovalStep
<1> QED
  BY <1>3, <1>4, <1>5 DEF Crash

\* The service starts again; the operator edits a manifest
LEMMA OutsideIsSound ==
  ASSUME SoundInv,
         Restart \/ \E t \in Tags, state \in {"unreadable", "rejected"} : Edit(t, state)
  PROVE  PullsHold' /\ GoodIsComplete' /\ ListedNeverTorn'
<1>1. UNCHANGED <<blobs, job, exposed, tainted>>
  BY DEF Restart, Edit, history
<1>2. PullsHold'
  BY <1>1, PullsUntouched DEF Pulling
<1>3. CASE Restart
  BY <1>2, <1>3, QuietStep DEF Restart, history
<1>4. CASE \E t \in Tags, state \in {"unreadable", "rejected"} : Edit(t, state)
  <2>1. PICK t \in Tags, state \in {"unreadable", "rejected"} : Edit(t, state)
    BY <1>4
  <2>2. /\ file[t].state # "absent" /\ file'[t].state = state /\ edited' = edited \cup {t}
        /\ \A u \in Tags : u # t => file'[u] = file[u]
    BY <2>1 DEF SoundInv, TypeInv, FileInv, FileRecord, Edit
  <2>3. GoodIsComplete' /\ ListedNeverTorn'
    BY <1>1, <2>2 DEF SoundInv, GoodIsComplete, ListedNeverTorn, Listed
  <2> QED
    BY <1>2, <2>3
<1> QED
  BY <1>3, <1>4

\* SoundInv is an invariant
LEMMA SoundInvariant == Spec => []SoundInv
<1>1. Init => PullsHold /\ GoodIsComplete /\ ListedNeverTorn
  <2> SUFFICES ASSUME Init PROVE PullsHold /\ GoodIsComplete /\ ListedNeverTorn
    OBVIOUS
  <2>1. Pulling = {}
    BY RequestType DEF Init, Pulling, Labels
  <2>2. Listed = {}
    BY DEF Init, Listed, Absent
  <2> QED
    BY <2>1, <2>2 DEF PullsHold, GoodIsComplete, ListedNeverTorn
<1>2. SoundInv /\ [Next]_vars => PullsHold' /\ GoodIsComplete' /\ ListedNeverTorn'
  <2> SUFFICES ASSUME SoundInv, [Next]_vars
               PROVE  PullsHold' /\ GoodIsComplete' /\ ListedNeverTorn'
    OBVIOUS
  <2>1. CASE UNCHANGED vars
    BY <2>1, QuietStep, PullsUntouched DEF vars, disk, history, Pulling
  <2>2. CASE Next
    BY <2>2, RequestsAreSound, PullsAreSound, ManagementIsSound, DeletionIsSound, CrashIsSound,
       OutsideIsSound DEF Next
  <2> QED
    BY <2>1, <2>2
<1> QED
  BY <1>1, <1>2, TypeInvariant, PTL DEF Spec, SoundInv

----------------------------------------------------------------------------
(* What it means for the models                                            *)

(***************************************************************************)
(* A crash never leaves a listed model with a manifest that cannot be read *)
(* (manifests.py:311-327): only the operator's own edits do.               *)
(***************************************************************************)
THEOREM ListedModelsAreReadable == Spec => []ListedNeverTorn
BY SoundInvariant, PTL DEF SoundInv

(***************************************************************************)
(* A model that can be read has all its artifacts, unless a deletion       *)
(* collected garbage during its pull (registry.py:206 and sources.py:66-93)*)
(* or it was copied from such a model, or edited.                          *)
(***************************************************************************)
THEOREM ModelsAreComplete == Spec => []IncompleteOnlyByCollection
<1>1. SoundInv => IncompleteOnlyByCollection
  <2> SUFFICES ASSUME SoundInv, NEW t \in Listed \ (tainted \cup edited) PROVE Complete(t)
    BY DEF IncompleteOnlyByCollection
  <2>1. file[t].state = "good"
    BY DEF SoundInv, ListedNeverTorn
  <2> QED
    BY <2>1 DEF SoundInv, GoodIsComplete, Complete
<1> QED
  BY <1>1, SoundInvariant, PTL

\* A step collects nothing, or keeps what the manifests then reference
LEMMA CollectionsKeep ==
  ASSUME [Next]_vars
  PROVE  blobs \subseteq blobs' \/ Kept(file') \subseteq blobs'
<1>1. CASE UNCHANGED vars
  BY <1>1 DEF vars, disk
<1>2. CASE Crash
  BY <1>2 DEF Crash, CutIngest, CutInstall, CutDelete, disk
<1>3. CASE \E j \in Jobs : Delete(j)
  BY <1>3 DEF Delete
<1>4. CASE ~ Crash /\ (~ \E j \in Jobs : Delete(j)) /\ Next
  BY <1>4 DEF Next, BeginPull, BeginDelete, Resolve, ResolveFails, AlreadyPresent, Download,
              Ingest, FetchFails, InstallPulled, DeleteAbsent, Upload, Create, Copy, Install,
              Restart, Edit, disk, history
<1> QED
  BY <1>1, <1>2, <1>3, <1>4

(***************************************************************************)
(* No step, be it a deletion, its collection or a crash in the middle of   *)
(* it (blobs.py:219-230), takes an artifact from a complete listed model.  *)
(***************************************************************************)
THEOREM CollectionsSpareModels == Spec => CompleteStaysComplete
<1>1. TypeInv /\ [Next]_vars =>
        \A t \in Listed :
          Complete(t) /\ file'[t] = file[t] => AllDigests(file[t].artifacts) \subseteq blobs'
  <2> SUFFICES ASSUME TypeInv, [Next]_vars, NEW t \in Listed, Complete(t), file'[t] = file[t]
               PROVE  AllDigests(file[t].artifacts) \subseteq blobs'
    OBVIOUS
  <2>1. AllDigests(file[t].artifacts) \subseteq blobs
    BY DEF Complete
  <2>2. AllDigests(file'[t].artifacts) \subseteq Referenced(file')
    BY DEF Referenced, Listed, Complete
  <2> QED
    BY <2>1, <2>2, CollectionsKeep DEF Kept
<1> QED
  BY <1>1, TypeInvariant, PTL DEF Spec, CompleteStaysComplete

\* Only the deletion of j turns its unloading into a success
LEMMA OnlyDeleteDeletes ==
  ASSUME TypeInv, [Next]_vars, NEW j \in Jobs,
         job[j].pc = "unloading", job'[j].pc = "succeeded"
  PROVE  Delete(j)
<1>1. job'[j] # job[j]
  OBVIOUS
<1>2. PICK k \in Jobs :
        \/ \E t \in Tags : BeginPull(k, t) \/ BeginDelete(k, t)
        \/ \E plan \in Plans : Resolve(k, plan)
        \/ ResolveFails(k) \/ AlreadyPresent(k) \/ Download(k) \/ Ingest(k)
        \/ FetchFails(k) \/ InstallPulled(k) \/ Delete(k) \/ DeleteAbsent(k)
  <2>1. ~ Crash
    BY RequestType DEF Crash, Labels
  <2>2. ~ \/ UNCHANGED vars
          \/ \E d \in Digests : Upload(d)
          \/ \E t \in Tags : Create(t)
          \/ \E s, t \in Tags : Copy(s, t)
          \/ Restart
          \/ \E t \in Tags, state \in {"unreadable", "rejected"} : Edit(t, state)
    BY <1>1 DEF vars, Upload, Create, Copy, Restart, Edit
  <2> QED
    BY <2>1, <2>2 DEF Next
<1>3. k = j
  BY <1>1, <1>2 DEF TypeInv, JobInv, BeginPull, BeginDelete, Resolve, ResolveFails,
                    AlreadyPresent, Download, Ingest, FetchFails, InstallPulled, Delete,
                    DeleteAbsent, End, Step, Advance
<1>4. ~ DeleteAbsent(j)
  BY RequestType DEF TypeInv, JobInv, DeleteAbsent, End, Labels
<1> QED
  BY <1>2, <1>3, <1>4 DEF BeginPull, BeginDelete, Resolve, ResolveFails, AlreadyPresent,
                          Download, Ingest, FetchFails, InstallPulled, Fetched

(***************************************************************************)
(* A deletion that succeeds (registry.py:195-207) leaves no blob that no   *)
(* remaining manifest declares and no partial file.                        *)
(***************************************************************************)
THEOREM DeletionsReclaim == Spec => DeletionReclaims
<1>1. TypeInv /\ [Next]_vars =>
        \A j \in Jobs : job[j].pc = "unloading" /\ job'[j].pc = "succeeded"
          => blobs' \subseteq Declared(file') /\ partials' = 0
  <2> SUFFICES ASSUME TypeInv, [Next]_vars, NEW j \in Jobs,
                      job[j].pc = "unloading", job'[j].pc = "succeeded"
               PROVE  blobs' \subseteq Declared(file') /\ partials' = 0
    OBVIOUS
  <2>1. Delete(j)
    BY OnlyDeleteDeletes
  <2>2. ~ End(j, "failed")
    BY RequestType DEF TypeInv, JobInv, End, Labels
  <2>3. blobs' \subseteq Referenced(file') /\ partials' = 0
    BY <2>1, <2>2 DEF Delete, Kept, TypeInv, RestInv
  <2>4. Referenced(file') \subseteq Declared(file')
    BY DEF Referenced, Declared
  <2> QED
    BY <2>3, <2>4
<1> QED
  BY <1>1, TypeInvariant, PTL DEF Spec, DeletionReclaims

\* What a pull gets for the artifact that comes next in its plan
LEMMA AdvanceAsAnnounced ==
  ASSUME TypeInv, [Next]_vars, NEW j \in Jobs, job[j].todo # <<>>,
         job'[j].pc = "fetching", job'[j].todo # job[j].todo
  PROVE  \E d \in Digests :
           /\ Head(job[j].todo).digest \in {None, d}
           /\ job[j].pc \in {"fetching", "downloading"} /\ Advance(j, d)
<1>1. job'[j] # job[j]
  OBVIOUS
<1>2. PICK k \in Jobs :
        \/ \E t \in Tags : BeginPull(k, t) \/ BeginDelete(k, t)
        \/ \E plan \in Plans : Resolve(k, plan)
        \/ ResolveFails(k) \/ AlreadyPresent(k) \/ Download(k) \/ Ingest(k)
        \/ FetchFails(k) \/ InstallPulled(k) \/ Delete(k) \/ DeleteAbsent(k)
  <2>1. ~ Crash
    BY <1>1, RequestType DEF Crash, Labels
  <2>2. ~ \/ UNCHANGED vars
          \/ \E d \in Digests : Upload(d)
          \/ \E t \in Tags : Create(t)
          \/ \E s, t \in Tags : Copy(s, t)
          \/ Restart
          \/ \E t \in Tags, state \in {"unreadable", "rejected"} : Edit(t, state)
    BY <1>1 DEF vars, Upload, Create, Copy, Restart, Edit
  <2> QED
    BY <2>1, <2>2 DEF Next
<1>3. k = j
  BY <1>1, <1>2 DEF TypeInv, JobInv, BeginPull, BeginDelete, Resolve, ResolveFails,
                    AlreadyPresent, Download, Ingest, FetchFails, InstallPulled, Delete,
                    DeleteAbsent, End, Step, Advance
<1>4. ~ \E plan \in Plans : Resolve(j, plan)
  BY DEF TypeInv, JobInv, Resolve
<1>5. ~ Download(j)
  BY DEF TypeInv, JobInv, JobRecord, Download, Step
<1>6. ~ \E t \in Tags : BeginPull(j, t) \/ BeginDelete(j, t)
  BY RequestType DEF TypeInv, JobInv, BeginPull, BeginDelete, Labels
<1>7. ~ \E pc \in Over : End(j, pc)
  BY RequestType DEF TypeInv, JobInv, End, Labels, Over
<1>8. ~ (ResolveFails(j) \/ FetchFails(j) \/ InstallPulled(j) \/ Delete(j) \/ DeleteAbsent(j))
  BY <1>7 DEF ResolveFails, FetchFails, InstallPulled, Delete, DeleteAbsent, Over
<1>9. CASE AlreadyPresent(j)
  <2>1. Head(job[j].todo).digest \in Digests
    BY <1>9 DEF TypeInv, RestInv, AlreadyPresent
  <2> QED
    BY <1>9, <2>1 DEF AlreadyPresent
<1>10. CASE Ingest(j)
  <2>1. Head(job[j].todo).sends \in Digests
    BY HeadType DEF TypeInv, Announced
  <2> QED
    BY <1>10, <2>1 DEF Ingest, Ingestable
<1> QED
  BY <1>2, <1>3, <1>4, <1>5, <1>6, <1>8, <1>9, <1>10

(***************************************************************************)
(* What a pull takes for an artifact, from the store or from the network   *)
(* (sources.py:292-324), is what its source announced, if it announced it. *)
(***************************************************************************)
THEOREM PullsAreAsAnnounced == Spec => PulledAsAnnounced
<1>1. TypeInv /\ [Next]_vars =>
        \A j \in Jobs :
          job[j].todo # <<>> /\ job'[j].pc = "fetching" /\ job'[j].todo # job[j].todo
          => LET spec == Head(job[j].todo)
             IN spec.digest # None => job'[j].got[spec.role] = spec.digest
  <2> SUFFICES ASSUME TypeInv, [Next]_vars, NEW j \in Jobs, job[j].todo # <<>>,
                      job'[j].pc = "fetching", job'[j].todo # job[j].todo,
                      Head(job[j].todo).digest # None
               PROVE  job'[j].got[Head(job[j].todo).role] = Head(job[j].todo).digest
    OBVIOUS
  <2>1. PICK d \in Digests :
          /\ Head(job[j].todo).digest \in {None, d}
          /\ job[j].pc \in {"fetching", "downloading"} /\ Advance(j, d)
    BY AdvanceAsAnnounced
  <2>2. job'[j].got = [job[j].got EXCEPT ![Head(job[j].todo).role] = d]
    BY <2>1, AdvanceType DEF TypeInv
  <2>3. Head(job[j].todo).role \in Roles /\ job[j].got \in [Roles -> Digests \cup {None}]
    BY HeadType DEF TypeInv, JobInv, JobRecord, Announced
  <2> QED
    BY <2>1, <2>2, <2>3
<1> QED
  BY <1>1, TypeInvariant, PTL DEF Spec, PulledAsAnnounced
=============================================================================
