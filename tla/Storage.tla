------------------------------- MODULE Storage -------------------------------
(***************************************************************************)
(* The model store: storage/blobs.py, storage/manifests.py,                *)
(* registry/registry.py, sources.py and the management handlers of         *)
(* api/ollama.py (pull, create, copy, delete, blobs).                      *)
(*                                                                         *)
(* The stores themselves never await: between two awaits of the handlers a *)
(* disk operation is atomic for the other requests, and only a crash cuts  *)
(* it.  A blob is its digest.  A manifest is a file; the tags of one model *)
(* directory are enough, since temporary names only meet there.            *)
(***************************************************************************)
EXTENDS Naturals, FiniteSets, Sequences

CONSTANTS Tags,       \* [stem, ext]: the file name of a tag is "stem.ext"
          Digests,    \* the contents that exist
          Jobs,       \* the pulls and deletions, each one is made once
          Plans,      \* what a source may resolve to: sequences of Announced
          Uploads,    \* the artifacts that clients of /api/create ask for
          MaxCrashes, \* bound: crashes of the service
          MaxEdits,   \* bound: manifests edited by the operator
          None

Roles == {"model", "mmproj", "draft"}

\* An artifact that a source announces: `sends` is what it will really send.
Announced == [role : Roles, sends : Digests, digest : Digests \cup {None}]
Artifacts == [model : Digests, mmproj : Digests \cup {None}]

ASSUME StorageAssumption ==
  /\ IsFiniteSet(Tags) /\ IsFiniteSet(Digests) /\ IsFiniteSet(Jobs)
  /\ Tags \subseteq [stem : STRING, ext : STRING]
  /\ Plans \subseteq Seq(Announced)
  /\ \A plan \in Plans : \A i, k \in DOMAIN plan :
       i # k => plan[i].role # plan[k].role
  /\ Uploads \subseteq Artifacts
  /\ MaxCrashes \in Nat /\ MaxEdits \in Nat
  /\ None \notin Digests

VARIABLES
  blobs,    \* the digests in blobs/
  partials, \* how many *.partial files tmp/ holds
  file,     \* the manifests: the content of each tag's file
  up,       \* whether the service runs
  job,      \* the requests under way
  crashes, edits,  \* bounded
  exposed,  \* history: the pulls during which a collection ran
  tainted,  \* history: tags installed by such a pull, or copied from them
  edited    \* history: tags whose manifest the operator has edited

disk == <<blobs, partials, file>>
history == <<exposed, tainted, edited>>
vars == <<disk, up, job, crashes, edits, history>>

NoArtifacts == [role \in Roles |-> None]
Absent == [state |-> "absent", artifacts |-> None]
Readable(a) == [state |-> "good", artifacts |-> a]
Request(pc, tag) == [pc |-> pc, tag |-> tag, todo |-> <<>>, got |-> NoArtifacts]

TypeOK ==
  /\ blobs \subseteq Digests
  /\ partials \in 0 .. MaxCrashes
  /\ \A t \in Tags : file[t].state # "absent" => file[t].artifacts \in Artifacts
  /\ DOMAIN file = Tags
  /\ \A t \in Tags : file[t].state \in {"absent", "good", "unreadable", "rejected"}
  /\ up \in BOOLEAN
  /\ DOMAIN job = Jobs
  /\ \A j \in Jobs :
       /\ job[j].pc \in {"new", "resolving", "fetching", "downloading",
                         "unloading", "succeeded", "failed"}
       /\ job[j].pc \notin {"new", "succeeded", "failed"} => job[j].tag \in Tags
       /\ \A role \in Roles : job[j].got[role] \in Digests \cup {None}
  /\ crashes \in 0 .. MaxCrashes /\ edits \in 0 .. MaxEdits
  /\ exposed \subseteq Jobs /\ tainted \subseteq Tags /\ edited \subseteq Tags

Init ==
  /\ blobs = {} /\ partials = 0
  /\ file = [t \in Tags |-> Absent]
  /\ up = TRUE
  /\ job = [j \in Jobs |-> Request("new", None)]
  /\ crashes = 0 /\ edits = 0
  /\ exposed = {} /\ tainted = {} /\ edited = {}

-----------------------------------------------------------------------------
(* The stores. *)

\* path.with_suffix(".tmp"): what follows the last dot of the tag is replaced.
TempOf(t) == [stem |-> t.stem, ext |-> "tmp"]

\* list_refs skips every file that ends in ".tmp".
Listed == {t \in Tags : t.ext # "tmp" /\ file[t].state # "absent"}

AllDigests(a) == {a.model, a.mmproj} \ {None}

\* Mutant: the projector is forgotten.
ReferencedWeights(f) ==
  {f[t].artifacts.model : t \in {u \in Tags : u.ext # "tmp" /\ f[u].state = "good"}}

\* A manifest that is not JSON, or not an object of the schema, is skipped;
\* one with a field of the wrong form raises what the callers do not catch.
Referenced(f) ==
  UNION {AllDigests(f[t].artifacts) :
           t \in {u \in Tags : u.ext # "tmp" /\ f[u].state = "good"}}
ListingRaises(f) == \E t \in Tags : t.ext # "tmp" /\ f[t].state = "rejected"

\* Mutant: the references are counted before the manifest is removed.
KeptTooEarly(f) == blobs \cap Referenced(file)

\* collect_garbage
Kept(f) == blobs \cap Referenced(f)

Complete(t) ==
  file[t].state = "good" /\ AllDigests(file[t].artifacts) \subseteq blobs

\* write: a temporary file next to the manifest, then os.replace.
Without(t) == IF t \in Tags THEN [file EXCEPT ![t] = Absent] ELSE file
Written(t, a) == [Without(TempOf(t)) EXCEPT ![t] = Readable(a)]

\* Mutant: the manifest is written in place.
CutInPlace(t, a) == {[file EXCEPT ![t] = [state |-> "unreadable", artifacts |-> a]]}

\* What a crash inside write may leave: the temporary file, cut or complete.
CutWrites(t, a) ==
  IF TempOf(t) \notin Tags THEN {file}
  ELSE {[file EXCEPT ![TempOf(t)] = [state |-> s, artifacts |-> a]] :
          s \in {"good", "unreadable"}}

Install(t, a) ==
  /\ file' = Written(t, a)
  /\ edited' = edited \ {t, TempOf(t)}
  /\ UNCHANGED <<blobs, partials>>

-----------------------------------------------------------------------------
(* pull_model: it awaits the source, each download and, when it streams,  *)
(* the client at each event.                                              *)

Step(j, pc) == job' = [job EXCEPT ![j].pc = pc]
End(j, pc) == job' = [job EXCEPT ![j] = Request(pc, None)]

BeginPull(j, t) ==
  /\ up /\ job[j].pc = "new"
  /\ job' = [job EXCEPT ![j] = Request("resolving", t)]
  /\ UNCHANGED <<disk, up, crashes, edits, history>>

\* _resolve: no source, no repository, no GGUF, no checksum...
ResolveFails(j) ==
  /\ up /\ job[j].pc = "resolving"
  /\ End(j, "failed")
  /\ exposed' = exposed \ {j}
  /\ UNCHANGED <<disk, up, crashes, edits, tainted, edited>>

Resolve(j, plan) ==
  /\ up /\ job[j].pc = "resolving"
  /\ job' = [job EXCEPT ![j].pc = "fetching", ![j].todo = plan]
  /\ UNCHANGED <<disk, up, crashes, edits, history>>

Advance(j, d) ==
  job' = [job EXCEPT ![j].pc = "fetching", ![j].todo = Tail(@),
                     ![j].got[Head(job[j].todo).role] = d]

\* _fetch_artifact, an announced artifact that is already in the store.
AlreadyPresent(j) ==
  LET spec == Head(job[j].todo)
  IN /\ up /\ job[j].pc = "fetching" /\ job[j].todo # <<>>
     /\ spec.digest \in blobs
     /\ Advance(j, spec.digest)
     /\ UNCHANGED <<disk, up, crashes, edits, history>>

Download(j) ==
  /\ up /\ job[j].pc = "fetching" /\ job[j].todo # <<>>
  /\ Head(job[j].todo).digest \notin blobs
  /\ Step(j, "downloading")
  /\ UNCHANGED <<disk, up, crashes, edits, history>>

\* Mutant: the checksum is not compared.
IngestableAnyway(spec) == spec \in Announced

\* ingest_chunks verifies what was announced, if anything was.
Ingestable(spec) == spec.digest \in {None, spec.sends}

Ingest(j) ==
  LET spec == Head(job[j].todo)
  IN /\ up /\ job[j].pc = "downloading"
     /\ Ingestable(spec)
     /\ blobs' = blobs \cup {spec.sends}
     /\ Advance(j, spec.sends)
     /\ UNCHANGED <<partials, file, up, crashes, edits, history>>

\* An HTTP error, a checksum that differs, a client that goes away.
FetchFails(j) ==
  /\ up /\ job[j].pc \in {"fetching", "downloading"}
  /\ End(j, "failed")
  /\ exposed' = exposed \ {j}
  /\ UNCHANGED <<disk, up, crashes, edits, tainted, edited>>

\* Only two roles reach the manifest.
Pulled(j) == [model |-> job[j].got["model"], mmproj |-> job[j].got["mmproj"]]

\* Mutant: nothing asks for the weights.
FetchedAnything(j) == job[j].pc = "fetching" /\ job[j].todo = <<>>

Fetched(j) ==
  /\ job[j].pc = "fetching" /\ job[j].todo = <<>>
  /\ job[j].got["model"] # None

InstallPulled(j) ==
  /\ up /\ Fetched(j)
  /\ Install(job[j].tag, Pulled(j))
  /\ tainted' = IF j \in exposed THEN tainted \cup {job[j].tag}
                                 ELSE tainted \ {job[j].tag}
  /\ exposed' = exposed \ {j}
  /\ End(j, "succeeded")
  /\ UNCHANGED <<up, crashes, edits>>

-----------------------------------------------------------------------------
(* create, copy, blobs: one step once the body is read. *)

Upload(d) ==
  /\ up
  /\ blobs' = blobs \cup {d}
  /\ UNCHANGED <<partials, file, up, job, crashes, edits, history>>

\* Mutant: create does not ask for the blobs.
CreatableUnseen == Uploads

\* _artifacts_from_files: every blob was uploaded first.
Creatable == {a \in Uploads : AllDigests(a) \subseteq blobs}

Create(t) ==
  /\ up
  /\ \E a \in Creatable : Install(t, a)
  /\ tainted' = tainted \ {t}
  /\ UNCHANGED <<up, job, crashes, edits, exposed>>

\* copy, and create from an installed model: the manifests share the blobs.
Copy(s, t) ==
  /\ up /\ file[s].state = "good"
  /\ Install(t, file[s].artifacts)
  /\ tainted' = IF s \in tainted \/ s.ext = "tmp" THEN tainted \cup {t}
                                                  ELSE tainted \ {t}
  /\ UNCHANGED <<up, job, crashes, edits, exposed>>

-----------------------------------------------------------------------------
(* delete: it awaits the unloading of the model, then removes its manifest *)
(* and collects the blobs that no manifest references any more.            *)

BeginDelete(j, t) ==
  /\ up /\ job[j].pc = "new"
  /\ job' = [job EXCEPT ![j] = Request("unloading", t)]
  /\ UNCHANGED <<disk, up, crashes, edits, history>>

Pulling == {j \in Jobs : job[j].pc \in {"resolving", "fetching", "downloading"}}

\* registry.delete: the manifest first, then the collection.
Delete(j) ==
  LET remaining == Without(job[j].tag)
  IN /\ up /\ job[j].pc = "unloading"
     /\ file[job[j].tag].state # "absent"
     /\ file' = remaining
     /\ IF ListingRaises(remaining)
        THEN /\ End(j, "failed")
             /\ UNCHANGED <<blobs, exposed>>
        ELSE /\ End(j, "succeeded")
             /\ blobs' = Kept(remaining)
             /\ exposed' = exposed \cup Pulling
     /\ tainted' = tainted \ {job[j].tag}
     /\ edited' = edited \ {job[j].tag}
     /\ UNCHANGED <<partials, up, crashes, edits>>

DeleteAbsent(j) ==
  /\ up /\ job[j].pc = "unloading"
  /\ file[job[j].tag].state = "absent"
  /\ End(j, "failed")
  /\ UNCHANGED <<disk, up, crashes, edits, history>>
-----------------------------------------------------------------------------
(* The service is killed, in the middle of a disk operation or not, and    *)
(* starts again; the operator edits manifests (docs/MODEL_CONFIG.md).      *)

\* What an ingestion (of a pull or of an upload), a write or a deletion leaves
\* when it is cut.
CutIngest ==
  /\ partials' = partials + 1
  /\ UNCHANGED <<blobs, file>>

CutInstall ==
  /\ \/ \E t \in Tags : \E a \in Creatable : file' \in CutWrites(t, a)
     \/ \E s, t \in Tags :
          file[s].state = "good" /\ file' \in CutWrites(t, file[s].artifacts)
     \/ \E j \in Jobs : Fetched(j) /\ file' \in CutWrites(job[j].tag, Pulled(j))
  /\ UNCHANGED <<blobs, partials>>

CutDelete ==
  /\ \E j \in Jobs :
       /\ job[j].pc = "unloading"
       /\ file[job[j].tag].state # "absent"
       /\ file' = Without(job[j].tag)
       /\ ~ ListingRaises(file')
       /\ \E left \in SUBSET (blobs \ Kept(file')) : blobs' = Kept(file') \cup left
  /\ UNCHANGED partials

Crash ==
  /\ up /\ crashes < MaxCrashes
  /\ up' = FALSE /\ crashes' = crashes + 1
  /\ job' = [j \in Jobs |-> IF job[j].pc \in {"new", "succeeded", "failed"}
                             THEN job[j] ELSE Request("failed", None)]
  /\ \/ UNCHANGED disk
     \/ CutIngest
     \/ CutInstall
     \/ CutDelete
  /\ exposed' = {}
  /\ UNCHANGED <<edits, tainted, edited>>

\* Service.__init__: sweep_tmp.
Restart ==
  /\ ~ up
  /\ up' = TRUE
  /\ partials' = 0
  /\ UNCHANGED <<blobs, file, job, crashes, edits, history>>

Edit(t, state) ==
  /\ edits < MaxEdits
  /\ file[t].state # "absent"
  /\ file' = [file EXCEPT ![t].state = state]
  /\ edits' = edits + 1
  /\ edited' = edited \cup {t}
  /\ UNCHANGED <<blobs, partials, up, job, crashes, exposed, tainted>>

Next ==
  \/ \E j \in Jobs, t \in Tags : BeginPull(j, t) \/ BeginDelete(j, t)
  \/ \E j \in Jobs, plan \in Plans : Resolve(j, plan)
  \/ \E j \in Jobs :
       \/ ResolveFails(j) \/ AlreadyPresent(j) \/ Download(j) \/ Ingest(j)
       \/ FetchFails(j) \/ InstallPulled(j) \/ Delete(j) \/ DeleteAbsent(j)
  \/ \E d \in Digests : Upload(d)
  \/ \E t \in Tags : Create(t)
  \/ \E s, t \in Tags : Copy(s, t)
  \/ Crash
  \/ Restart
  \/ \E t \in Tags, state \in {"unreadable", "rejected"} : Edit(t, state)

Spec == Init /\ [][Next]_vars
-----------------------------------------------------------------------------
(* Safety. *)

\* A crash never leaves a listed model with a manifest that cannot be read
\* ("une interruption laisse un manifest tronqué", manifests.py): only the
\* operator's own edits do.
ListedNeverTorn == \A t \in Listed : file[t].state # "good" => t \in edited

\* A model whose manifest can be read has all its artifacts, unless a deletion
\* collected garbage while it was being pulled, or it was copied from such a
\* model, or its manifest was edited.
IncompleteOnlyByCollection ==
  \A t \in Listed \ (tainted \cup edited) : Complete(t)

\* No step, be it a deletion, its collection or a crash in the middle of it,
\* takes an artifact away from a complete model that is listed.
CompleteStaysComplete ==
  [][\A t \in Listed :
       Complete(t) /\ file'[t] = file[t] => AllDigests(file[t].artifacts) \subseteq blobs']_vars

\* What the listed manifests declare, those that cannot be read included.
Declared(f) ==
  UNION {AllDigests(f[t].artifacts) : t \in {u \in Tags : u.ext # "tmp" /\ f[u].state # "absent"}}

\* A deletion that succeeds leaves no blob that no remaining manifest declares
\* and no partial file: what failed pulls, interrupted deletions and, since
\* the restart, crashes have left is reclaimed.
DeletionReclaims ==
  [][\A j \in Jobs : job[j].pc = "unloading" /\ job'[j].pc = "succeeded"
       => blobs' \subseteq Declared(file') /\ partials' = 0]_vars

\* What a pull takes for an artifact is what the source announced for it,
\* however the bytes it received.
PulledAsAnnounced ==
  [][\A j \in Jobs :
       job[j].todo # <<>> /\ job'[j].pc = "fetching" /\ job'[j].todo # job[j].todo
       => LET spec == Head(job[j].todo)
          IN spec.digest # None => job'[j].got[spec.role] = spec.digest]_vars
====
