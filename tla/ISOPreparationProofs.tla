------------------------ MODULE ISOPreparationProofs ------------------------
(* What ISOPreparation guarantees for any number of URLs, VMs and faults.  *)
EXTENDS ISOPreparation, TLAPS

USE DEF At, Goto, Calm, Disturb

\* The path of a spec that has one.
LEMMA PathType ==
  ASSUME NEW spec \in Specs, spec.type = "datastore" \/ spec.url # NoUrl
  PROVE  /\ Path(spec) \in UploadPaths \cup {GivenPath}
         /\ Path(spec) # NoPath
         /\ spec.type = "url" => Path(spec) \in UploadPaths
         /\ (spec.type = "url" /\ ~spec.named) => Path(spec) = spec.url
<1>1. /\ spec.type \in {"datastore", "url"} /\ spec.url \in Urls \cup {NoUrl}
      /\ spec.named \in BOOLEAN
  BY SpecsAssumption DEF SpecType
<1> QED BY <1>1, PathsAssumption DEF Path, UploadPaths

Flags == /\ directory \in BOOLEAN /\ intact \in BOOLEAN
         /\ synced \in BOOLEAN /\ memFresh \in BOOLEAN

\* A step sets flags to TRUE or FALSE, or to another flag, or leaves them.
LEMMA FlagsKept == Flags /\ [Next]_vars => Flags'
<1> SUFFICES ASSUME Flags, [Next]_vars PROVE Flags'
  OBVIOUS
<1> USE DEF Flags, datastore, cluster
<1>1. CASE Begin
  BY <1>1, Zenon DEF Begin
<1>2. CASE List
  BY <1>2, Zenon DEF List
<1>3. CASE UseISO
  BY <1>3, Zenon DEF UseISO
<1>4. CASE NeedISO
  BY <1>4, Zenon DEF NeedISO
<1>5. CASE Upload
  BY <1>5, Zenon DEF Upload, WriteFile, CutOff
<1>6. CASE Create
  BY <1>6, Zenon DEF Create
<1>7. CASE WriteStatus
  BY <1>7, Zenon DEF WriteStatus, EndPass
<1>8. CASE Crash
  BY <1>8, Zenon DEF Crash, EndPass, CutOff
<1>9. CASE SyncCache
  BY <1>9, Zenon DEF SyncCache
<1>10. CASE EditTemplate
  BY <1>10, Zenon DEF EditTemplate
<1>11. CASE OtherUploads
  BY <1>11, Zenon DEF OtherUploads, WriteFile, CutOff
<1>12. CASE LoseFiles
  BY <1>12, Zenon DEF LoseFiles
<1>13. CASE LoseVM
  BY <1>13, Zenon DEF LoseVM
<1>14. CASE UNCHANGED vars
  BY <1>14, Zenon DEF vars
<1> QED BY <1>1, <1>2, <1>3, <1>4, <1>5, <1>6, <1>7, <1>8, <1>9, <1>10, <1>11, <1>12,
           <1>13, <1>14 DEF Next, Pass, Environment

LEMMA TypeInit == Init => TypeOK
<1> SUFFICES ASSUME Init PROVE TypeOK
  OBVIOUS
<1>0. Flags
  BY Zenon DEF Init, Flags
<1>1. WellFormed(stored)
  BY DEF Init, NewTemplate, WellFormed, Template
<1>2. files \in [UploadPaths -> Contents]
  BY DEF Init, Contents
<1> QED BY <1>0, <1>1, <1>2, BoundsAssumption DEF Init, TypeOK, Steps, Flags

\* What the pass and the users make of a template.
LEMMA WellFormedKept ==
  ASSUME NEW t, WellFormed(t)
  PROVE  /\ \A spec \in Specs : WellFormed([t EXCEPT !.spec = spec])
         /\ t.spec \in Specs
         /\ t.spec.type = "datastore" \/ t.spec.url # NoUrl =>
              WellFormed([t EXCEPT !.path = Path(t.spec)]) /\ WellFormed(Uploaded(t))
<1>1. t.spec \in Specs
  BY DEF WellFormed, Template
<1>2. ASSUME t.spec.type = "datastore" \/ t.spec.url # NoUrl
      PROVE  WellFormed([t EXCEPT !.path = Path(t.spec)]) /\ WellFormed(Uploaded(t))
  <2>1. Path(t.spec) \in UploadPaths \cup {GivenPath} /\ Path(t.spec) # NoPath
    BY <1>1, <1>2, PathType
  <2> QED BY <2>1 DEF WellFormed, Template, Uploaded
<1> QED BY <1>1, <1>2 DEF WellFormed, Template

\* The path an ISO is uploaded to.
LEMMA UploadPath ==
  ASSUME TypeOK, At("upload")
  PROVE  Path(mem.spec) \in UploadPaths /\ mem.spec.url \in Urls
<1>1. mem.spec \in Specs /\ mem.spec.type = "url" /\ mem.spec.url # NoUrl
  BY WellFormedKept DEF TypeOK
<1>2. mem.spec.url \in Urls
  BY <1>1, SpecsAssumption DEF SpecType
<1> QED BY <1>1, <1>2, PathType

\* Files that are written, cut off or lost hold one of the contents.
LEMMA FilesType ==
  ASSUME files \in [UploadPaths -> Contents],
         NEW path \in UploadPaths, NEW url \in Urls, WriteFile(path, url) \/ CutOff(path)
  PROVE  files' \in [UploadPaths -> Contents]
BY DEF WriteFile, CutOff, Contents

LEMMA TypeStep == TypeOK /\ [Next]_vars => TypeOK'
<1> SUFFICES ASSUME TypeOK, [Next]_vars PROVE TypeOK'
  OBVIOUS
<1> USE BoundsAssumption DEF TypeOK, Steps, datastore, cluster, Flags
<1>0. Flags'
  BY FlagsKept DEF Flags
<1>1. stored.spec \in Specs /\ mem.spec \in Specs
  BY WellFormedKept
<1>2. mem.spec.type \in {"datastore", "url"}
  BY <1>1, SpecsAssumption DEF SpecType
<1>3. CASE Begin
  BY <1>0, <1>3 DEF Begin
<1>4. CASE List
  BY <1>0, <1>4 DEF List
<1>5. CASE UseISO
  <2>1. WellFormed(mem')
    BY <1>0, <1>2, <1>5, WellFormedKept DEF UseISO
  <2> QED BY <1>0, <1>5, <2>1 DEF UseISO
<1>6. CASE NeedISO
  BY <1>0, <1>6 DEF NeedISO
<1>7. CASE Upload
  <2>1. WellFormed(mem')
    BY <1>7, WellFormedKept DEF Upload, NotUploaded
  <2>2. files' \in [UploadPaths -> Contents]
    BY <1>0, <1>7, UploadPath, FilesType DEF Upload
  <2> QED BY <1>0, <1>7, <2>1, <2>2 DEF Upload
<1>8. CASE Create
  BY <1>0, <1>8 DEF Create
<1>9. CASE WriteStatus
  <2>1. WellFormed([mem EXCEPT !.spec = stored.spec])
    BY <1>1, WellFormedKept
  <2>2. WellFormed(stored')
    BY <1>9, <2>1, Zenon DEF WriteStatus
  <2> QED BY <1>0, <1>9, <2>2 DEF WriteStatus, EndPass
<1>10. CASE Crash
  <2>1. files' \in [UploadPaths -> Contents]
    BY <1>10, UploadPath, FilesType DEF Crash
  <2> QED BY <1>0, <1>10, <2>1 DEF Crash, EndPass
<1>11. CASE SyncCache
  BY <1>0, <1>11 DEF SyncCache
<1>12. CASE EditTemplate
  <2>1. \A spec \in Specs : WellFormed([stored EXCEPT !.spec = spec])
    BY WellFormedKept
  <2>2. WellFormed(stored')
    BY <1>0, <1>12, <2>1, Zenon DEF EditTemplate
  <2> QED BY <1>0, <1>12, <2>2 DEF EditTemplate
<1>13. CASE OtherUploads
  <2>1. PICK path \in UploadPaths, url \in Urls : WriteFile(path, url) \/ CutOff(path)
    BY <1>0, <1>13 DEF OtherUploads
  <2>2. files' \in [UploadPaths -> Contents]
    BY <2>1, FilesType
  <2> QED BY <1>0, <1>13, <2>2 DEF OtherUploads
<1>14. CASE LoseFiles
  <2>1. files' \in [UploadPaths -> Contents]
    BY <1>14 DEF LoseFiles, Contents
  <2> QED BY <1>0, <1>14, <2>1 DEF LoseFiles
<1>15. CASE LoseVM
  BY <1>0, <1>15 DEF LoseVM
<1>16. CASE UNCHANGED vars
  BY <1>0, <1>16 DEF vars
<1> QED BY <1>3, <1>4, <1>5, <1>6, <1>7, <1>8, <1>9, <1>10, <1>11, <1>12, <1>13,
           <1>14, <1>15, <1>16 DEF Next, Pass, Environment

\* Every variable keeps its type, and an ISO that is marked as uploaded has a
\* path.
THEOREM TypeCorrect == Spec => []TypeOK
<1> QED BY TypeInit, TypeStep, PTL DEF Spec
-----------------------------------------------------------------------------
\* A URL's own path never holds another image.
OwnImages == \A url \in Urls : files[url] \in {url, Nothing, Partial}

\* A template that has an image marked as uploaded is right.
Truthful(t) == \A url \in Urls : t.uploaded /\ t.path = url => files[url] = url

\* When VMs are about to be created with the image of a URL, it is marked.
AtCreate == (At("create") /\ mem.spec.type = "url") => Marked(mem) /\ mem.spec.url # NoUrl

ISOInv ==
  /\ TypeOK /\ OwnImages /\ AtCreate
  /\ intact => Truthful(stored) /\ Truthful(cached) /\ Truthful(mem)

LEMMA ISOInit == Init => ISOInv
<1> SUFFICES ASSUME Init PROVE ISOInv
  OBVIOUS
<1>1. TypeOK
  BY TypeInit
<1>2. OwnImages
  BY DEF Init, OwnImages, UploadPaths
<1>3. AtCreate
  BY DEF Init, AtCreate
<1>4. Truthful(stored) /\ Truthful(cached) /\ Truthful(mem)
  BY DEF Init, NewTemplate, Truthful
<1> QED BY <1>1, <1>2, <1>3, <1>4 DEF ISOInv

\* Writing an image to its own path, or to the chosen one, keeps the files right.
LEMMA WriteKeeps ==
  ASSUME TypeOK, OwnImages, NEW path \in UploadPaths, NEW url \in Urls,
         path \in Urls => path = url,
         WriteFile(path, url) \/ CutOff(path)
  PROVE  /\ OwnImages'
         /\ intact' => \A t : Truthful(t) => Truthful(t)'
         /\ intact' => intact
<1> USE DEF TypeOK, OwnImages, UploadPaths
<1>1. CASE WriteFile(path, url)
  <2>1. \A u \in Urls : files[u] = u => files'[u] = u
    BY <1>1 DEF WriteFile
  <2>2. OwnImages'
    BY <1>1 DEF WriteFile
  <2>3. intact' = intact
    BY <1>1 DEF WriteFile
  <2>4. ASSUME NEW t, Truthful(t) PROVE Truthful(t)'
    BY <2>1, <2>4 DEF Truthful
  <2> QED BY <2>2, <2>3, <2>4
<1>2. CASE CutOff(path)
  <2>1. intact' = FALSE
    BY <1>2, Zenon DEF CutOff
  <2>2. OwnImages'
    BY <1>2 DEF CutOff
  <2> QED BY <2>1, <2>2
<1> QED BY <1>1, <1>2
\* Only an upload's own path is written, with the image of the URL.
LEMMA OwnPath ==
  ASSUME TypeOK, At("upload")
  PROVE  Path(mem.spec) \in Urls => Path(mem.spec) = mem.spec.url
<1>1. mem.spec \in Specs /\ mem.spec.type = "url"
  BY WellFormedKept DEF TypeOK
<1> QED BY <1>1, PathsAssumption DEF Path

\* One copy of the template says the same of the ISO as another.
SameMark(s, t) == s.uploaded = t.uploaded /\ s.path = t.path

\* Where neither files nor what the copies say of the ISO change, nothing does.
LEMMA SameFiles ==
  ASSUME ISOInv, TypeOK', AtCreate', files' = files, intact' = intact,
         \E t \in {stored, mem} : SameMark(stored', t),
         cached' \in {cached, stored}, mem' \in {mem, cached, stored}
  PROVE  ISOInv'
<1>1. OwnImages'
  BY DEF ISOInv, OwnImages
<1>2. ASSUME intact' PROVE Truthful(stored)' /\ Truthful(cached)' /\ Truthful(mem)'
  <2>1. Truthful(stored) /\ Truthful(cached) /\ Truthful(mem)
    BY <1>2 DEF ISOInv
  <2>2. Truthful(stored)'
    <3>1. PICK t \in {stored, mem} : SameMark(stored', t)
      OBVIOUS
    <3>2. Truthful(t)
      BY <2>1
    <3> QED BY <3>1, <3>2 DEF Truthful, SameMark
  <2>3. Truthful(cached)'
    BY <2>1 DEF Truthful
  <2>4. Truthful(mem)'
    BY <2>1 DEF Truthful
  <2> QED BY <2>2, <2>3, <2>4
<1> QED BY <1>1, <1>2 DEF ISOInv

LEMMA ISOStep == ISOInv /\ [Next]_vars => ISOInv'
<1> SUFFICES ASSUME ISOInv, [Next]_vars PROVE ISOInv'
  OBVIOUS
<1>0. TypeOK'
  BY TypeStep DEF ISOInv
<1>a. mem.spec \in Specs /\ stored.spec \in Specs
  BY WellFormedKept DEF ISOInv, TypeOK
<1>b. SameMark(stored, stored)
  BY DEF SameMark
<1> USE DEF datastore, cluster
<1>1. CASE Begin
  <2>1. AtCreate' /\ files' = files /\ intact' = intact /\ stored' = stored
        /\ cached' = cached /\ mem' = cached
    BY <1>1 DEF Begin, AtCreate
  <2> QED BY <1>0, <1>b, <2>1, SameFiles
<1>2. CASE List
  <2>1. AtCreate' /\ files' = files /\ intact' = intact /\ stored' = stored
        /\ cached' = cached /\ mem' = mem
    BY <1>2 DEF List, AtCreate
  <2> QED BY <1>0, <1>b, <2>1, SameFiles
<1>3. CASE UseISO
  <2>1. CASE ISOExists /\ Goto("create") /\ mem' = [mem EXCEPT !.path = Path(mem.spec)]
    <3>1. CASE Marked(mem) /\ mem.spec.type = "url"
      <4>1. mem' = mem
        <5>1. mem \in Template /\ mem.path = Path(mem.spec)
          BY <3>1 DEF ISOInv, TypeOK, WellFormed, Marked
        <5> QED BY <2>1, <5>1 DEF Template
      <4>2. AtCreate'
        BY <1>3, <3>1, <4>1 DEF UseISO, AtCreate, Marked
      <4>3. files' = files /\ intact' = intact /\ stored' = stored /\ cached' = cached
        BY <1>3 DEF UseISO
      <4> QED BY <1>0, <1>b, <4>1, <4>2, <4>3, SameFiles
    <3>2. CASE mem.spec.type = "datastore"
      <4>1. mem \in Template
        BY DEF ISOInv, TypeOK, WellFormed
      <4>2. mem'.path \notin Urls /\ mem'.spec.type = "datastore"
        BY <2>1, <3>2, <4>1, PathsAssumption DEF Path, Template, UploadPaths
      <4>3. AtCreate'
        BY <4>2 DEF AtCreate
      <4>4. Truthful(mem)'
        BY <4>2 DEF Truthful
      <4>5. OwnImages' /\ (Truthful(stored) => Truthful(stored)')
            /\ (Truthful(cached) => Truthful(cached)') /\ intact' = intact
        BY <1>3 DEF UseISO, ISOInv, OwnImages, Truthful
      <4> QED BY <1>0, <4>3, <4>4, <4>5 DEF ISOInv
    <3>3. mem.spec.type \in {"datastore", "url"}
      BY <1>a, SpecsAssumption DEF SpecType
    <3> QED BY <1>3, <3>1, <3>2, <3>3 DEF UseISO
  <2>2. CASE Goto("write") /\ UNCHANGED mem
    <3>1. AtCreate' /\ files' = files /\ intact' = intact /\ stored' = stored
          /\ cached' = cached /\ mem' = mem
      BY <1>3, <2>2 DEF UseISO, AtCreate
    <3> QED BY <1>0, <1>b, <3>1, SameFiles
  <2> QED BY <1>3, <2>1, <2>2 DEF UseISO
<1>4. CASE NeedISO
  <2>1. AtCreate' /\ files' = files /\ intact' = intact /\ stored' = stored
        /\ cached' = cached /\ mem' = mem
    BY <1>4 DEF NeedISO, AtCreate
  <2> QED BY <1>0, <1>b, <2>1, SameFiles
<1>5. CASE Upload
  <2> DEFINE path == Path(mem.spec)
  <2>1. path \in UploadPaths /\ mem.spec.url \in Urls /\ (path \in Urls => path = mem.spec.url)
    BY <1>5, UploadPath, OwnPath DEF Upload, ISOInv
  <2>2. CASE WriteFile(path, mem.spec.url) /\ mem' = Uploaded(mem) /\ Goto("create")
    <3>1. /\ OwnImages' /\ (intact' => intact)
          /\ intact' => \A t : Truthful(t) => Truthful(t)'
      BY <2>1, <2>2, WriteKeeps DEF ISOInv
    <3>2. mem'.uploaded /\ mem'.path = path /\ mem'.spec = mem.spec
      BY <2>2 DEF Uploaded, ISOInv, TypeOK, WellFormed, Template
    <3>3. AtCreate'
      BY <1>5, <2>1, <3>2, PathsAssumption DEF AtCreate, Marked
    <3>4. Truthful(mem)'
      <4>1. files'[path] = mem.spec.url
        BY <2>1, <2>2 DEF WriteFile, ISOInv, TypeOK
      <4> QED BY <2>1, <3>2, <4>1 DEF Truthful
    <3>5. stored' = stored /\ cached' = cached
      BY <1>5 DEF Upload
    <3>6. ASSUME intact' PROVE Truthful(stored)' /\ Truthful(cached)'
      <4>1. Truthful(stored) /\ Truthful(cached)
        BY <3>1, <3>6 DEF ISOInv
      <4>2. \A u \in Urls : files[u] = u => files'[u] = u
        BY <2>1, <2>2 DEF WriteFile, ISOInv, TypeOK, UploadPaths
      <4> QED BY <3>5, <4>1, <4>2 DEF Truthful
    <3> QED BY <1>0, <3>1, <3>3, <3>4, <3>6 DEF ISOInv
  <2>3. CASE UNCHANGED datastore /\ mem' = NotUploaded(mem) /\ Goto("write")
    <3>1. AtCreate' /\ files' = files /\ intact' = intact /\ stored' = stored
          /\ cached' = cached /\ mem' = mem
      BY <1>5, <2>3 DEF Upload, NotUploaded, AtCreate
    <3> QED BY <1>0, <1>b, <3>1, SameFiles
  <2>4. CASE CutOff(path) /\ mem' = NotUploaded(mem) /\ Goto("write")
    <3>1. OwnImages'
      BY <2>1, <2>4, WriteKeeps DEF ISOInv
    <3>2. intact' = FALSE
      BY <2>4, Zenon DEF CutOff
    <3>3. AtCreate'
      BY <2>4 DEF AtCreate
    <3> QED BY <1>0, <3>1, <3>2, <3>3 DEF ISOInv
  <2> QED BY <1>5, <2>2, <2>3, <2>4 DEF Upload
<1>6. CASE Create
  <2>1. AtCreate' /\ files' = files /\ intact' = intact /\ stored' = stored
        /\ cached' = cached /\ mem' = mem
    BY <1>6 DEF Create, AtCreate
  <2> QED BY <1>0, <1>b, <2>1, SameFiles
<1>7. CASE WriteStatus
  <2>1. SameMark([mem EXCEPT !.spec = stored.spec], mem)
    BY DEF SameMark, ISOInv, TypeOK, WellFormed, Template
  <2>2. stored' = stored \/ stored' = [mem EXCEPT !.spec = stored.spec]
    BY <1>7, Zenon DEF WriteStatus
  <2>3. \E t \in {stored, mem} : SameMark(stored', t)
    BY <1>b, <2>1, <2>2
  <2>4. AtCreate' /\ files' = files /\ intact' = intact /\ cached' = cached /\ mem' = cached
    BY <1>7 DEF WriteStatus, EndPass, AtCreate
  <2> QED BY <1>0, <2>3, <2>4, SameFiles
<1>8. CASE Crash
  <2>1. AtCreate' /\ stored' = stored /\ cached' = cached /\ mem' = cached
    BY <1>8 DEF Crash, EndPass, AtCreate
  <2>2. CASE UNCHANGED datastore
    BY <1>0, <1>b, <2>1, <2>2, SameFiles
  <2>3. CASE At("upload") /\ CutOff(Path(mem.spec))
    <3>1. OwnImages'
      BY <2>3, UploadPath, OwnPath, WriteKeeps DEF ISOInv
    <3>2. intact' = FALSE
      BY <2>3, Zenon DEF CutOff
    <3> QED BY <1>0, <2>1, <3>1, <3>2 DEF ISOInv
  <2> QED BY <1>8, <2>2, <2>3 DEF Crash
<1>9. CASE SyncCache
  <2>1. files' = files /\ intact' = intact /\ stored' = stored /\ cached' = stored
        /\ mem' \in {mem, stored} /\ pc' = pc /\ (At("create") => mem' = mem)
    BY <1>9 DEF SyncCache
  <2>2. AtCreate'
    BY <2>1 DEF ISOInv, AtCreate
  <2> QED BY <1>0, <1>b, <2>1, <2>2, SameFiles
<1>10. CASE EditTemplate
  <2>1. PICK spec \in Specs : stored' = [stored EXCEPT !.spec = spec]
    BY <1>10 DEF EditTemplate
  <2>2. SameMark(stored', stored)
    BY <2>1 DEF SameMark, ISOInv, TypeOK, WellFormed, Template
  <2>3. files' = files /\ intact' = intact /\ cached' = cached /\ mem' = mem /\ pc' = pc
    BY <1>10 DEF EditTemplate
  <2>4. AtCreate'
    BY <2>3 DEF ISOInv, AtCreate
  <2> QED BY <1>0, <2>2, <2>3, <2>4, SameFiles
<1>11. CASE OtherUploads
  <2>1. PICK path \in UploadPaths, url \in Urls :
          (WriteFile(path, url) \/ CutOff(path)) /\ (path \in Urls => path = url)
    BY <1>11 DEF OtherUploads
  <2>2. OwnImages' /\ (intact' => intact) /\ (intact' => \A t : Truthful(t) => Truthful(t)')
    BY <2>1, WriteKeeps DEF ISOInv
  <2>3. stored' = stored /\ cached' = cached /\ mem' = mem /\ pc' = pc
    BY <1>11 DEF OtherUploads
  <2>4. AtCreate'
    BY <2>3 DEF ISOInv, AtCreate
  <2>5. ASSUME intact' PROVE Truthful(stored)' /\ Truthful(cached)' /\ Truthful(mem)'
    <3>1. Truthful(stored) /\ Truthful(cached) /\ Truthful(mem)
      BY <2>2, <2>5 DEF ISOInv
    <3>2. \A t : Truthful(t) => Truthful(t)'
      BY <2>2, <2>5
    <3> QED BY <2>3, <3>1, <3>2 DEF Truthful
  <2> QED BY <1>0, <2>2, <2>4, <2>5 DEF ISOInv
<1>12. CASE LoseFiles
  <2>1. intact' = FALSE
    BY <1>12, Zenon DEF LoseFiles
  <2>2. OwnImages'
    BY <1>12 DEF LoseFiles, ISOInv, TypeOK, OwnImages, UploadPaths
  <2>3. AtCreate'
    BY <1>12 DEF LoseFiles, ISOInv, AtCreate
  <2> QED BY <1>0, <2>1, <2>2, <2>3 DEF ISOInv
<1>13. CASE LoseVM
  <2>1. files' = files /\ intact' = intact /\ stored' = stored /\ cached' = cached
        /\ mem' = mem /\ pc' = pc
    BY <1>13 DEF LoseVM
  <2>2. AtCreate'
    BY <2>1 DEF ISOInv, AtCreate
  <2> QED BY <1>0, <1>b, <2>1, <2>2, SameFiles
<1>14. CASE UNCHANGED vars
  <2>1. files' = files /\ intact' = intact /\ stored' = stored /\ cached' = cached
        /\ mem' = mem /\ pc' = pc
    BY <1>14 DEF vars
  <2>2. AtCreate'
    BY <2>1 DEF ISOInv, AtCreate
  <2> QED BY <1>0, <1>b, <2>1, <2>2, SameFiles
<1> QED BY <1>1, <1>2, <1>3, <1>4, <1>5, <1>6, <1>7, <1>8, <1>9, <1>10, <1>11, <1>12,
           <1>13, <1>14 DEF Next, Pass, Environment

LEMMA ISOAlways == Spec => []ISOInv
<1> QED BY ISOInit, ISOStep, PTL DEF Spec

\* Whatever has failed or been forgotten, an image that the status says has been
\* uploaded to its own path is there, unless the datastore has been damaged.
THEOREM UploadedTrue == Spec => []UploadedTruthful
<1>1. ISOInv => UploadedTruthful
  BY DEF ISOInv, UploadedTruthful, Truthful
<1> QED BY <1>1, ISOAlways, PTL

\* Every VM made for the image of a URL is given that image and no other's, and
\* the whole of it unless the datastore has been damaged.
THEOREM BootsItsOwn == Spec => BootsItsImage
<1> DEFINE Right ==
      (vms' > vms /\ mem.spec.type = "url" /\ ~mem.spec.named)
        => /\ files[mem.path] \in {mem.spec.url, Nothing, Partial}
           /\ intact => files[mem.path] = mem.spec.url
<1>1. ASSUME ISOInv, [Next]_vars PROVE Right
  <2> SUFFICES ASSUME vms' > vms, mem.spec.type = "url", ~mem.spec.named
               PROVE  /\ files[mem.path] \in {mem.spec.url, Nothing, Partial}
                      /\ intact => files[mem.path] = mem.spec.url
    OBVIOUS
  <2>1. Create
    BY <1>1 DEF ISOInv, TypeOK, Next, Pass, Environment, Begin, List, UseISO, NeedISO, Upload,
       WriteStatus, Crash, SyncCache, EditTemplate, OtherUploads, LoseFiles, LoseVM, vars
  <2>2. Marked(mem) /\ mem.spec.url # NoUrl /\ mem.spec \in Specs
    BY <1>1, <2>1, WellFormedKept DEF Create, ISOInv, TypeOK, AtCreate
  <2>3. mem.path = mem.spec.url /\ mem.spec.url \in Urls /\ mem.uploaded
    BY <2>2, PathType, SpecsAssumption DEF Marked, SpecType
  <2> QED BY <1>1, <2>3 DEF ISOInv, OwnImages, Truthful
<1>2. ISOInv /\ [Next]_vars => [Right]_vars
  BY <1>1
<1> QED BY <1>2, ISOAlways, PTL DEF Spec, BootsItsImage
=============================================================================
