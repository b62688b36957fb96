--------------------------- MODULE ISOPreparation ---------------------------
(***************************************************************************)
(* The disc that new VMs boot from: prepareISO of controllers/iso.go and   *)
(* what reconcileVMs (controllers/vm_reconcile.go) does with its result,   *)
(* with UploadISO, ISOExists and GetDatastorePath of pkg/vsphere/vm.go.    *)
(* What has been uploaded is remembered in the template's status, which is *)
(* read from a cache that lags behind and may fail to be written.          *)
(*                                                                         *)
(* A file is its path with the URL whose image it holds; a URL always      *)
(* serves the same image.  The datastore is the same all the time.  The    *)
(* ISOReady condition tells how the last preparation went and is left out: *)
(* nothing reads it.                                                       *)
(***************************************************************************)
EXTENDS Integers

CONSTANTS
  Urls,             \* the URLs of images; each stands for the path it hashes to
  NoUrl,            \* spec.agentISO.url is empty
  GivenPath,        \* spec.agentISO.datastorePath
  ChosenPath,       \* the path with the name spec.agentISO.uploadedISOName
  NoPath,           \* status.isoPath is empty
  Nothing, Partial, \* the contents of no file, and of one uploaded half-way
  Replicas,         \* how many VMs there should be
  Specs,            \* the specs users give the template
  Kinds,            \* the disturbances that may happen
  MaxDisturbances   \* bound on how many of them happen in a behaviour

UploadPaths == Urls \cup {ChosenPath}
Contents    == Urls \cup {Nothing, Partial}

\* spec.agentISO: type, url, and whether uploadedISOName is set.
SpecType == [type: {"datastore", "url"}, url: Urls \cup {NoUrl}, named: BOOLEAN]

ASSUME PathsAssumption ==
  /\ NoUrl \notin Urls /\ GivenPath \notin UploadPaths /\ ChosenPath \notin Urls
  /\ NoPath \notin UploadPaths \cup {GivenPath}
  /\ Nothing \notin Urls /\ Partial \notin Urls
ASSUME SpecsAssumption == Specs \subseteq SpecType
ASSUME BoundsAssumption == Replicas \in Nat /\ MaxDisturbances \in Nat

VARIABLES
  files,       \* the contents of the paths ISOs are uploaded to
  directory,   \* the directory of these paths exists
  intact,      \* history: no upload was cut off and no file was lost so far
  vms,         \* how many VMs there are
  stored,      \* the template at the API server
  cached,      \* the template in the informer's cache
  synced,      \* the cached template is the stored one
  pc,          \* the next call of the pass, or "idle"
  mem,         \* the pass's copy of the template
  memFresh,    \* the stored template has not changed since it was read
  todo,        \* VMs the pass is going to create
  disturbances \* disturbances left

datastore == <<files, directory, intact>>
cluster   == <<stored, cached, synced>>
vars      == <<datastore, vms, cluster, pc, mem, memFresh, todo, disturbances>>

\* The template: spec.agentISO, status.isoUploaded and status.isoPath.
Template == [spec: Specs, uploaded: BOOLEAN, path: UploadPaths \cup {GivenPath, NoPath}]

\* An ISO that is marked as uploaded has a path.
WellFormed(t) == t \in Template /\ (t.uploaded => t.path # NoPath)

NewTemplate(spec) == [spec |-> spec, uploaded |-> FALSE, path |-> NoPath]

Steps == {"idle", "list", "prepare", "upload", "create", "write"}

TypeOK ==
  /\ files \in [UploadPaths -> Contents] /\ directory \in BOOLEAN /\ intact \in BOOLEAN
  /\ vms \in Nat /\ todo \in Nat
  /\ WellFormed(stored) /\ WellFormed(cached) /\ WellFormed(mem)
  /\ synced \in BOOLEAN /\ memFresh \in BOOLEAN
  /\ pc \in Steps
  /\ pc = "upload" => mem.spec.type = "url" /\ mem.spec.url # NoUrl
  /\ disturbances \in 0..MaxDisturbances

-----------------------------------------------------------------------------
Disturb(kind) ==
  /\ kind \in Kinds
  /\ disturbances > 0
  /\ disturbances' = disturbances - 1

Calm == UNCHANGED disturbances

At(step) == pc = step
Goto(step) == pc' = step

EndPass == Goto("idle") /\ mem' = cached /\ memFresh' = FALSE /\ todo' = 0

-----------------------------------------------------------------------------
\* Slip: without a name of its own every ISO gets the same.
SamePath(spec) == IF spec.type = "datastore" THEN GivenPath ELSE ChosenPath

\* Where the ISO of a spec is, or will be uploaded to.
Path(spec) ==
  IF spec.type = "datastore" THEN GivenPath ELSE IF spec.named THEN ChosenPath ELSE spec.url

\* Slip: some ISO has been uploaded.
MarkedAtAll(t) == t.uploaded

\* The ISO of this spec is marked as uploaded.
Marked(t) == t.uploaded /\ t.path = Path(t.spec)

\* Slip: that there is an ISO is noted, but not where.
PathForgotten(t) == [t EXCEPT !.uploaded = TRUE]

\* The ISO has been uploaded: what is noted.
Uploaded(t) == [t EXCEPT !.uploaded = TRUE, !.path = Path(t.spec)]

\* Slip: it is noted although the upload has failed.
MarkedInVain(t) == [t EXCEPT !.uploaded = TRUE, !.path = Path(t.spec)]

NotUploaded(t) == t

\* There is an ISO that need not be uploaded: only the directory is looked up,
\* whatever files it has.
ISOExists == mem.spec.type = "url" => directory

-----------------------------------------------------------------------------
Init ==
  /\ files = [p \in UploadPaths |-> Nothing] /\ directory \in BOOLEAN /\ intact = TRUE
  /\ vms = 0
  /\ \E spec \in Specs : stored = NewTemplate(spec)
  /\ cached = stored /\ synced = TRUE
  /\ pc = "idle" /\ mem = stored /\ memFresh = FALSE /\ todo = 0
  /\ disturbances = MaxDisturbances

\* Reconcile gets the template from the cache.
Begin ==
  /\ At("idle") /\ Goto("list")
  /\ mem' = cached /\ memFresh' = synced
  /\ Calm /\ UNCHANGED <<datastore, vms, cluster, todo>>

\* The ISO is prepared when there are too few VMs.
List ==
  /\ At("list")
  /\ \/ vms < Replicas /\ Calm /\ Goto("prepare") /\ todo' = Replicas - vms
     \/ vms >= Replicas /\ Calm /\ Goto("write") /\ UNCHANGED todo
     \/ Disturb("list") /\ Goto("write") /\ UNCHANGED todo
  /\ UNCHANGED <<datastore, vms, cluster, mem, memFresh>>

\* An ISO in the datastore: given by the user, or uploaded before.  A search
\* that fails and one that finds nothing end the preparation.
UseISO ==
  /\ At("prepare") /\ (mem.spec.type = "datastore" \/ Marked(mem))
  /\ mem.spec.type = "url" => mem.spec.url # NoUrl
  /\ \/ ISOExists /\ Calm /\ Goto("create") /\ mem' = [mem EXCEPT !.path = Path(mem.spec)]
     \/ (IF ISOExists THEN Disturb("search") ELSE Calm) /\ Goto("write") /\ UNCHANGED mem
  /\ UNCHANGED <<datastore, vms, cluster, memFresh, todo>>

\* An ISO that has to be uploaded, if it is known from where.
NeedISO ==
  /\ At("prepare") /\ mem.spec.type = "url"
  /\ \/ mem.spec.url # NoUrl /\ ~Marked(mem) /\ Goto("upload")
     \/ mem.spec.url = NoUrl /\ Goto("write")
  /\ Calm /\ UNCHANGED <<datastore, vms, cluster, mem, memFresh, todo>>

\* A file is written: whole, not at all, or half-way.
WriteFile(path, url) ==
  /\ files' = [files EXCEPT ![path] = url]
  /\ directory' = TRUE /\ UNCHANGED intact

CutOff(path) ==
  /\ files' = [files EXCEPT ![path] = Partial]
  /\ directory' = TRUE /\ intact' = FALSE

\* UploadISO.
Upload ==
  /\ At("upload")
  /\ \/ /\ Calm /\ WriteFile(Path(mem.spec), mem.spec.url)
        /\ mem' = Uploaded(mem) /\ Goto("create")
     \/ /\ \/ Disturb("download") /\ UNCHANGED datastore
           \/ Disturb("cut") /\ CutOff(Path(mem.spec))
        /\ mem' = NotUploaded(mem) /\ Goto("write")
  /\ UNCHANGED <<vms, cluster, memFresh, todo>>

\* VMs are created with the ISO.
Create ==
  /\ At("create") /\ Goto("write")
  /\ \E made \in 0..todo :
       /\ vms' = vms + made
       /\ IF made = todo THEN Calm ELSE Disturb("create")
  /\ UNCHANGED <<datastore, cluster, mem, memFresh, todo>>

\* Status().Update, after a failure too.
WriteStatus ==
  /\ At("write")
  /\ \/ /\ memFresh /\ Calm
        /\ stored' = [mem EXCEPT !.spec = stored.spec] /\ synced' = FALSE
     \/ (IF memFresh THEN Disturb("statusWrite") ELSE Calm) /\ UNCHANGED <<stored, synced>>
  /\ EndPass
  /\ UNCHANGED <<datastore, vms, cached>>

\* The process dies, perhaps in the middle of an upload, and is started again.
Crash ==
  /\ ~At("idle") /\ Disturb("crash") /\ EndPass
  /\ UNCHANGED datastore \/ (At("upload") /\ CutOff(Path(mem.spec)))
  /\ UNCHANGED <<vms, cluster>>

Pass == Begin \/ List \/ UseISO \/ NeedISO \/ Upload \/ Create \/ WriteStatus

-----------------------------------------------------------------------------
\* The environment.

SyncCache ==
  /\ ~synced /\ cached' = stored /\ synced' = TRUE
  /\ mem' = (IF At("idle") THEN stored ELSE mem)
  /\ Calm /\ UNCHANGED <<datastore, vms, stored, pc, memFresh, todo>>

\* A user edits the spec.
EditTemplate ==
  /\ Disturb("edit")
  /\ \E spec \in Specs : stored' = [stored EXCEPT !.spec = spec]
  /\ synced' = FALSE /\ memFresh' = FALSE
  /\ UNCHANGED <<datastore, vms, cached, pc, mem, todo>>

\* Another template uploads its ISO to the same datastore.
OtherUploads ==
  /\ Disturb("other")
  /\ \E path \in UploadPaths : \E url \in IF path \in Urls THEN {path} ELSE Urls :
       WriteFile(path, url) \/ CutOff(path)
  /\ UNCHANGED <<vms, cluster, pc, mem, memFresh, todo>>

\* An administrator cleans up the datastore: a file, or the directory with all.
LoseFiles ==
  /\ Disturb("loseFiles") /\ intact' = FALSE
  /\ \/ \E p \in UploadPaths : files' = [files EXCEPT ![p] = Nothing] /\ UNCHANGED directory
     \/ files' = [p \in UploadPaths |-> Nothing] /\ directory' = FALSE
  /\ UNCHANGED <<vms, cluster, pc, mem, memFresh, todo>>

\* A VM is removed.
LoseVM ==
  /\ vms > 0 /\ Disturb("loseVM") /\ vms' = vms - 1
  /\ UNCHANGED <<datastore, cluster, pc, mem, memFresh, todo>>

Environment == SyncCache \/ EditTemplate \/ OtherUploads \/ LoseFiles \/ LoseVM

Next == Pass \/ Crash \/ Environment

Spec == Init /\ [][Next]_vars

\* A pass ends in a requeue, and the informer catches up.
Fairness == WF_vars(Pass) /\ WF_vars(SyncCache)

FairSpec == Spec /\ Fairness

-----------------------------------------------------------------------------
\* Properties.

\* "ISOUploaded indicates if the ISO has been uploaded" (vmwarenodepooltemplate_
\* types.go:230): when the status says that the image of a URL has been uploaded
\* to the path that is the URL's own, it is there, however often the URL has
\* changed since and whatever the passes have forgotten, unless the datastore
\* has been damaged.
UploadedTruthful ==
  intact => \A url \in Urls : stored.uploaded /\ stored.path = url => files[url] = url

\* A VM created for the image of a URL, with no name chosen for it, is given
\* that image, although nothing looks into the file: never another one's, and,
\* unless the datastore has been damaged, the whole of it.
BootsItsImage ==
  [][(vms' > vms /\ mem.spec.type = "url" /\ ~mem.spec.named)
       => /\ files[mem.path] \in {mem.spec.url, Nothing, Partial}
          /\ intact => files[mem.path] = mem.spec.url]_vars

\* Whatever fails, is forgotten or has to be uploaded again, there come to be
\* as many VMs as there should be, unless there is no URL to upload from, or the
\* directory is gone and the ISO is marked as uploaded: then it is never
\* uploaded again.
GetsItsVMs ==
  []<>(\/ vms >= Replicas
       \/ stored.spec.type = "url" /\ stored.spec.url = NoUrl
       \/ ~directory /\ stored.uploaded /\ stored.path = Path(stored.spec))
=============================================================================
