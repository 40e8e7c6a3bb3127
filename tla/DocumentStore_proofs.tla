------------------------ MODULE DocumentStore_proofs ------------------------
(***************************************************************************)
(* Proofs about DocumentStore.                                             *)
(*                                                                         *)
(* Base holds for any workers: what a job holds at each place, and that    *)
(* the workers behind the lock are at most one.  Sound needs that no two   *)
(* workers have documents of one tender (SeparateTenders): the name chosen *)
(* before the lock is then still free behind it, so a copy never opens a   *)
(* file that somebody else has.                                            *)
(***************************************************************************)
EXTENDS DocumentStore, TLAPS

Targeted == {"blob", "wait"} \union Locked

\* The job of a worker at each place, and the lock.
JobOK(w) ==
  /\ pc[w] # "idle" => job[w].doc \in Work[w]
  /\ pc[w] \in {"target"} \union Targeted => job[w].body \in Contents
  /\ pc[w] \in Targeted =>
       job[w].target \in Paths /\ job[w].target[1] = Folder[job[w].doc]
  /\ pc[w] \in Locked => lock = w
  /\ job[w].preexisted => pc[w] \in {"wait", "failing"} \union Locked
  /\ (job[w].preexisted \/ pc[w] \in {"link", "copy", "commit"}) =>
       job[w].body \in Contents /\ blob[job[w].body] # 0

Base == TypeOK /\ \A w \in Workers : JobOK(w)

BlobSound == \A c \in Contents : blob[c] # 0 => data[blob[c]] = c

\* A path on record has a file with the body on record, whatever the status.
RowSound ==
  \A d \in Docs : row[d].path # None =>
    file[row[d].path] # 0 /\ data[file[row[d].path]] = row[d].sum

\* The chosen name stays free until the file is made.
TargetFree ==
  \A w \in Workers :
    pc[w] \in {"blob", "wait", "write", "link"} => file[job[w].target] = 0

\* The file being copied into is nobody else's.
CopyOwn ==
  \A w \in Workers : pc[w] = "copy" =>
    LET target == job[w].target IN
    /\ file[target] # 0
    /\ \A p \in Paths \ {target} : file[p] # file[target]
    /\ \A c \in Contents : blob[c] # file[target]
    /\ \A d \in Docs : row[d].path # target

\* The file about to be recorded is complete.
CommitReady ==
  \A w \in Workers : pc[w] = "commit" =>
    file[job[w].target] # 0 /\ data[file[job[w].target]] = job[w].body

Sound == BlobSound /\ RowSound /\ TargetFree /\ CopyOwn /\ CommitReady

LEMMA NoInodeZero == 0 \notin Inodes
BY DEF Inodes

\* A fresh inode is in no use.
LEMMA FreshUnused ==
  ASSUME NEW i \in Fresh
  PROVE  /\ i \in Inodes /\ i # 0
         /\ \A c \in Contents : blob[c] # i
         /\ \A p \in Paths : file[p] # i
BY NoInodeZero DEF Fresh, Unused

LEMMA BaseInit == Init => Base
BY StoreAssumption DEF Init, Base, TypeOK, JobOK, NoRow, NoJob, Locked, Targeted

\* What an action of w that leaves lock and blobs alone does to the others.
LEMMA BaseOthers ==
  ASSUME Base, NEW w \in Workers, NEW v \in Workers, v # w,
         pc'[v] = pc[v], job'[v] = job[v],
         \A c \in Contents : blob[c] # 0 => blob'[c] # 0,
         lock' = lock \/ pc[w] \in Locked \/ lock = None,
         lock = w \/ lock = None \/ lock' = lock
  PROVE  JobOK(v)'
<1>1. JobOK(v)
  BY DEF Base
<1>2. pc[v] \in Locked => lock' = lock
  <2>1. SUFFICES ASSUME pc[v] \in Locked, lock' # lock  PROVE FALSE
    OBVIOUS
  <2>2. lock = v
    BY <1>1, <2>1 DEF JobOK
  <2>. QED
    BY <2>1, <2>2, StoreAssumption
<1>. QED
  BY <1>1, <1>2 DEF JobOK, Targeted, Locked

\* The type of a job, and of jobs that change in one field.
Jobs == [doc : Docs \union {None}, body : Contents \union {None},
         target : Paths \union {None}, preexisted : BOOLEAN]

\* The type of a catalogue row.
RowType == [status : {"none", "available", "failed"},
            path : Paths \union {None}, sum : Contents \union {None}]

LEMMA JobTypes ==
  /\ NoJob \in Jobs
  /\ \A d \in Docs : [NoJob EXCEPT !.doc = d] \in Jobs
  /\ \A j \in Jobs :
       /\ \A c \in Contents : [j EXCEPT !.body = c] \in Jobs
       /\ \A p \in Paths : [j EXCEPT !.target = p] \in Jobs
       /\ \A b \in BOOLEAN : [j EXCEPT !.preexisted = b] \in Jobs
BY DEF Jobs, NoJob

\* The job of one worker changes, and nothing on disk or in the catalogue.
LEMMA TypeOfJob ==
  ASSUME TypeOK, NEW w \in Workers, NEW j \in Jobs,
         job' = [job EXCEPT ![w] = j],
         NEW place \in {"idle", "fetch", "target", "blob", "wait", "failing"}
                         \union Locked,
         pc' = [pc EXCEPT ![w] = place],
         UNCHANGED <<row, disk>>,
         lock' \in Workers \union {None}, started' \in 0 .. MaxDownloads
  PROVE  TypeOK'
BY DEF TypeOK, Jobs, disk

LEMMA BaseStep ==
  ASSUME Base, [Next]_vars
  PROVE  Base'
<1>. USE StoreAssumption, NoInodeZero DEF disk, Go
<1>t. TypeOK /\ job \in [Workers -> Jobs] /\ \A w \in Workers : JobOK(w)
  BY DEF Base, TypeOK, Jobs
<1>d. \A w \in Workers : Work[w] \subseteq Docs
  OBVIOUS
<1>w. ASSUME NEW w \in Workers,
             Fetch(w) \/ Receive(w) \/ Refuse(w) \/ RecordFailure(w)
               \/ ChooseTarget(w) \/ LookForBlob(w) \/ Lock(w)
               \/ WriteBlob(w) \/ KeepBlob(w) \/ HardLink(w) \/ OpenCopy(w) \/ Copy(w)
               \/ Commit(w)
      PROVE  Base'
  <2>j. JobOK(w) /\ job[w] \in Jobs
    BY <1>t
  <2>1. CASE Fetch(w)
    <3>0. PICK d \in Work[w] : job' = [job EXCEPT ![w] = [NoJob EXCEPT !.doc = d]]
      BY <2>1 DEF Fetch
    <3>j. [NoJob EXCEPT !.doc = d] \in Jobs
      BY <1>d, JobTypes
    <3>1. TypeOK'
      <4>1. started' \in 0 .. MaxDownloads
        BY <1>t, <2>1 DEF Fetch, TypeOK
      <4>2. lock' \in Workers \union {None}
        BY <1>t, <2>1 DEF Fetch, TypeOK
      <4>. QED
        BY <1>t, <2>1, <3>0, <3>j, <4>1, <4>2, TypeOfJob DEF Fetch
    <3>2. JobOK(w)'
      BY <1>t, <2>1, <3>0 DEF Fetch, NoJob, JobOK, Targeted, Locked, TypeOK
    <3>3. ASSUME NEW v \in Workers, v # w  PROVE JobOK(v)'
      BY <1>t, <2>1, <3>3, BaseOthers DEF Fetch, Base, TypeOK
    <3>. QED  BY <3>1, <3>2, <3>3 DEF Base
  <2>2. CASE Receive(w)
    <3>0. PICK c \in Contents : job' = [job EXCEPT ![w] = [job[w] EXCEPT !.body = c]]
      BY <1>t, <2>2 DEF Receive
    <3>j. [job[w] EXCEPT !.body = c] \in Jobs
      BY <2>j, JobTypes
    <3>1. TypeOK'
      BY <1>t, <2>2, <3>0, <3>j, TypeOfJob DEF Receive, TypeOK
    <3>2. JobOK(w)'
      BY <1>t, <2>j, <2>2, <3>0 DEF Receive, JobOK, Targeted, Locked, TypeOK, Jobs
    <3>3. ASSUME NEW v \in Workers, v # w  PROVE JobOK(v)'
      BY <1>t, <2>2, <3>3, BaseOthers DEF Receive, Base, TypeOK
    <3>. QED  BY <3>1, <3>2, <3>3 DEF Base
  <2>3. CASE Refuse(w)
    <3>1. TypeOK'
      BY <1>t, <2>3 DEF Refuse, TypeOK, Locked
    <3>2. JobOK(w)'
      BY <1>t, <2>j, <2>3 DEF Refuse, JobOK, Targeted, Locked, TypeOK, Jobs
    <3>3. ASSUME NEW v \in Workers, v # w  PROVE JobOK(v)'
      BY <1>t, <2>3, <3>3, BaseOthers DEF Refuse, Base, TypeOK
    <3>. QED  BY <3>1, <3>2, <3>3 DEF Base
  <2>4. CASE RecordFailure(w)
    <3>1. TypeOK'
      <4>1. job[w].doc \in Docs
        BY <1>d, <2>j, <2>4 DEF RecordFailure, JobOK
      <4>2. Failed(job[w].doc) \in RowType
        BY <1>t, <4>1 DEF Failed, TypeOK, RowType
      <4>3. job' \in [Workers -> Jobs]
        BY <1>t, <2>4, JobTypes DEF RecordFailure
      <4>. QED
        BY <1>t, <2>4, <4>2, <4>3 DEF RecordFailure, TypeOK, Jobs, RowType
    <3>2. JobOK(w)'
      BY <1>t, <2>j, <2>4 DEF RecordFailure, JobOK, Targeted, Locked, TypeOK, Jobs, NoJob
    <3>3. ASSUME NEW v \in Workers, v # w  PROVE JobOK(v)'
      BY <1>t, <2>4, <3>3, BaseOthers DEF RecordFailure, Base, TypeOK, NoJob
    <3>. QED  BY <3>1, <3>2, <3>3 DEF Base
  <2>5. CASE ChooseTarget(w)
    <3>p. ASSUME NEW t \in UniqueTarget(Folder[job[w].doc])
          PROVE  t \in Paths /\ t[1] = Folder[job[w].doc]
      <4>1. job[w].doc \in Docs
        BY <1>d, <2>j, <2>5 DEF ChooseTarget, JobOK
      <4>2. PICK m \in 1 .. MaxCopies : t = <<Folder[job[w].doc], m>>
        BY DEF UniqueTarget
      <4>. QED
        BY <4>1, <4>2 DEF Paths, Folders
    <3>1. TypeOK'
      <4>2. job' \in [Workers -> Jobs]
        BY <1>t, <2>j, <2>5, <3>p, JobTypes DEF ChooseTarget
      <4>. QED
        BY <1>t, <2>5, <4>2 DEF ChooseTarget, TypeOK, Jobs, Locked
    <3>2. JobOK(w)'
      <4>1. CASE Go(w, "failing") /\ UNCHANGED job
        BY <1>t, <2>j, <2>5, <4>1 DEF ChooseTarget, JobOK, Targeted, Locked, TypeOK
      <4>2. ASSUME NEW t \in UniqueTarget(Folder[job[w].doc]), Go(w, "blob"),
                   job' = [job EXCEPT ![w].target = t]
            PROVE  JobOK(w)'
        BY <1>t, <2>j, <2>5, <3>p, <4>2
           DEF ChooseTarget, JobOK, Targeted, Locked, TypeOK, Jobs
      <4>. QED
        BY <2>5, <4>1, <4>2 DEF ChooseTarget
    <3>3. ASSUME NEW v \in Workers, v # w  PROVE JobOK(v)'
      BY <1>t, <2>5, <3>3, BaseOthers DEF ChooseTarget, Base, TypeOK
    <3>. QED  BY <3>1, <3>2, <3>3 DEF Base
  <2>6. CASE LookForBlob(w)
    <3>1. TypeOK'
      <4>2. job' \in [Workers -> Jobs]
        BY <1>t, <2>j, <2>6, JobTypes DEF LookForBlob
      <4>. QED
        BY <1>t, <2>6, <4>2 DEF LookForBlob, TypeOK, Jobs, Locked
    <3>2. JobOK(w)'
      BY <1>t, <2>j, <2>6 DEF LookForBlob, JobOK, Targeted, Locked, TypeOK, Jobs
    <3>3. ASSUME NEW v \in Workers, v # w  PROVE JobOK(v)'
      BY <1>t, <2>6, <3>3, BaseOthers DEF LookForBlob, Base, TypeOK
    <3>. QED  BY <3>1, <3>2, <3>3 DEF Base
  <2>7. CASE Lock(w)
    <3>1. TypeOK'
      BY <1>t, <2>7 DEF Lock, TypeOK, Locked
    <3>2. JobOK(w)'
      BY <1>t, <2>j, <2>7 DEF Lock, JobOK, Targeted, Locked, TypeOK, Jobs
    <3>3. ASSUME NEW v \in Workers, v # w  PROVE JobOK(v)'
      BY <1>t, <2>7, <3>3, BaseOthers DEF Lock, Base, TypeOK
    <3>. QED  BY <3>1, <3>2, <3>3 DEF Base
  <2>8. CASE WriteBlob(w)
    <3>l. lock = w /\ pc[w] \in Locked
      BY <2>j, <2>8 DEF WriteBlob, JobOK, Locked
    <3>1. TypeOK'
      <4>1. ASSUME NEW inode \in Fresh,
                   blob' = [blob EXCEPT ![job[w].body] = inode],
                   data' = [data EXCEPT ![inode] = job[w].body]
            PROVE  blob' \in [Contents -> Inodes \union {0}]
                   /\ data' \in [Inodes -> Contents \union {Torn}]
        BY <1>t, <2>j, <3>l, <4>1, FreshUnused DEF TypeOK, JobOK, Targeted
      <4>2. blob' \in [Contents -> Inodes \union {0}]
            /\ data' \in [Inodes -> Contents \union {Torn}]
        BY <1>t, <2>8, <4>1 DEF WriteBlob, TypeOK
      <4>. QED
        BY <1>t, <2>8, <4>2 DEF WriteBlob, FailLocked, TypeOK, Locked
    <3>2. JobOK(w)'
      BY <1>t, <2>j, <2>8, FreshUnused DEF WriteBlob, JobOK, Targeted, Locked, TypeOK, Jobs, FailLocked
    <3>3. ASSUME NEW v \in Workers, v # w  PROVE JobOK(v)'
      BY <1>t, <2>8, <3>l, <3>3, FreshUnused, BaseOthers DEF WriteBlob, Base, TypeOK, FailLocked
    <3>. QED  BY <3>1, <3>2, <3>3 DEF Base
  <2>9. CASE KeepBlob(w)
    <3>1. TypeOK'
      BY <1>t, <2>9 DEF KeepBlob, TypeOK, Locked
    <3>2. JobOK(w)'
      BY <1>t, <2>j, <2>9 DEF KeepBlob, JobOK, Targeted, Locked, TypeOK, Jobs
    <3>3. ASSUME NEW v \in Workers, v # w  PROVE JobOK(v)'
      BY <1>t, <2>9, <3>3, BaseOthers DEF KeepBlob, Base, TypeOK
    <3>. QED  BY <3>1, <3>2, <3>3 DEF Base
  <2>10. CASE HardLink(w)
    <3>1. TypeOK'
      BY <1>t, <2>j, <2>10 DEF HardLink, TypeOK, JobOK, Targeted, Locked
    <3>2. JobOK(w)'
      BY <1>t, <2>j, <2>10 DEF HardLink, JobOK, Targeted, Locked, TypeOK, Jobs
    <3>3. ASSUME NEW v \in Workers, v # w  PROVE JobOK(v)'
      BY <1>t, <2>10, <3>3, BaseOthers DEF HardLink, Base, TypeOK
    <3>. QED  BY <3>1, <3>2, <3>3 DEF Base
  <2>11. CASE OpenCopy(w)
    <3>l. lock = w /\ pc[w] \in Locked
      BY <2>j, <2>11 DEF OpenCopy, JobOK, Locked
    <3>1. TypeOK'
      <4>1. ASSUME NEW inode \in (IF file[job[w].target] = 0 THEN Fresh
                                 ELSE {file[job[w].target]}),
                   file' = [file EXCEPT ![job[w].target] = inode],
                   data' = [data EXCEPT ![inode] = Torn]
            PROVE  file' \in [Paths -> Inodes \union {0}]
                   /\ data' \in [Inodes -> Contents \union {Torn}]
        BY <1>t, <2>j, <3>l, <4>1, FreshUnused DEF TypeOK, JobOK, Targeted
      <4>2. file' \in [Paths -> Inodes \union {0}]
            /\ data' \in [Inodes -> Contents \union {Torn}]
        BY <1>t, <2>11, <4>1 DEF OpenCopy, TypeOK
      <4>. QED
        BY <1>t, <2>11, <4>2 DEF OpenCopy, FailLocked, TypeOK, Locked
    <3>2. JobOK(w)'
      BY <1>t, <2>j, <2>11 DEF OpenCopy, JobOK, Targeted, Locked, TypeOK, Jobs, FailLocked
    <3>3. ASSUME NEW v \in Workers, v # w  PROVE JobOK(v)'
      BY <1>t, <2>11, <3>l, <3>3, BaseOthers DEF OpenCopy, Base, TypeOK, FailLocked
    <3>. QED  BY <3>1, <3>2, <3>3 DEF Base
  <2>12. CASE Copy(w)
    <3>l. lock = w /\ pc[w] \in Locked
      BY <2>j, <2>12 DEF Copy, JobOK, Locked
    <3>1. TypeOK'
      BY <1>t, <2>j, <2>12 DEF Copy, FailLocked, TypeOK, JobOK, Targeted, Locked
    <3>2. JobOK(w)'
      BY <1>t, <2>j, <2>12 DEF Copy, JobOK, Targeted, Locked, TypeOK, Jobs, FailLocked
    <3>3. ASSUME NEW v \in Workers, v # w  PROVE JobOK(v)'
      BY <1>t, <2>12, <3>l, <3>3, BaseOthers DEF Copy, Base, TypeOK, FailLocked
    <3>. QED  BY <3>1, <3>2, <3>3 DEF Base
  <2>13. CASE Commit(w)
    <3>l. lock = w /\ pc[w] \in Locked
      BY <2>j, <2>13 DEF Commit, JobOK, Locked
    <3>1. TypeOK'
      <4>1. job[w].doc \in Docs /\ job[w].target \in Paths /\ job[w].body \in Contents
        BY <1>d, <2>j, <2>13 DEF Commit, JobOK, Targeted, Locked
      <4>2. row' \in [Docs -> RowType]
        BY <1>t, <2>13, <4>1 DEF Commit, TypeOK, RowType
      <4>3. job' \in [Workers -> Jobs]
        BY <1>t, <2>13, JobTypes DEF Commit
      <4>. QED
        BY <1>t, <2>13, <4>2, <4>3 DEF Commit, TypeOK, Jobs, RowType
    <3>2. JobOK(w)'
      BY <1>t, <2>j, <2>13 DEF Commit, JobOK, Targeted, Locked, TypeOK, Jobs, NoJob
    <3>3. ASSUME NEW v \in Workers, v # w  PROVE JobOK(v)'
      BY <1>t, <2>13, <3>l, <3>3, BaseOthers DEF Commit, Base, TypeOK, NoJob
    <3>. QED  BY <3>1, <3>2, <3>3 DEF Base
  <2>. QED
    BY <1>w, <2>1, <2>2, <2>3, <2>4, <2>5, <2>6, <2>7, <2>8, <2>9, <2>10, <2>11, <2>12,
       <2>13
<1>c. CASE Crash
  <2>1. TypeOK'
    BY <1>t, <1>c, JobTypes DEF Crash, TypeOK, Jobs
  <2>2. \A v \in Workers : JobOK(v)'
    BY <1>c DEF Crash, JobOK, Targeted, Locked, NoJob
  <2>. QED
    BY <2>1, <2>2 DEF Base
<1>u. CASE UNCHANGED vars
  BY <1>u DEF Base, TypeOK, JobOK, vars, disk
<1>. QED
  BY <1>w, <1>c, <1>u DEF Next

\* Every job and the catalogue have the shape the code gives them; for any
\* workers.
THEOREM TypeCorrect == Spec => []TypeOK
<1>1. Base => TypeOK
  BY DEF Base
<1>. QED
  BY BaseInit, BaseStep, <1>1, PTL DEF Spec

----------------------------------------------------------------------------
(* Workers with tenders of their own.                                      *)

LEMMA SoundInit == Init => Sound
BY DEF Init, Sound, BlobSound, RowSound, TargetFree, CopyOwn, CommitReady, NoRow

\* The names chosen by two workers differ.
LEMMA TargetsDiffer ==
  ASSUME SeparateTenders, Base, NEW w \in Workers, NEW v \in Workers, v # w,
         pc[w] \in Targeted, pc[v] \in Targeted
  PROVE  job[v].target # job[w].target
<1>1. JobOK(w) /\ JobOK(v)
  BY DEF Base
<1>2. job[w].doc \in Work[w] /\ job[v].doc \in Work[v]
  BY <1>1 DEF JobOK, Targeted, Locked
<1>3. Folder[job[w].doc] # Folder[job[v].doc]
  BY <1>2 DEF SeparateTenders
<1>. QED
  BY <1>1, <1>3 DEF JobOK

\* A step that leaves the disk and the recorded files alone, and no worker
\* enters the lock's later places by it.
LEMMA SoundQuiet ==
  ASSUME Base, Base', Sound, UNCHANGED disk,
         \A d \in Docs : row'[d].path = row[d].path /\ row'[d].sum = row[d].sum,
         \A w \in Workers :
           \/ pc'[w] \notin {"blob", "wait", "write", "link", "copy", "commit"}
           \/ /\ pc[w] \in {"blob", "wait", "write", "link"}
              /\ pc'[w] \in {"blob", "wait", "write", "link"}
              /\ job'[w].target = job[w].target
           \/ pc'[w] = pc[w] /\ job'[w] = job[w]
           \/ pc'[w] = "blob" /\ file[job'[w].target] = 0
  PROVE  Sound'
<1>1. BlobSound' /\ RowSound'
  BY DEF Sound, BlobSound, RowSound, disk
<1>2. TargetFree'
  BY DEF Sound, TargetFree, disk
<1>3. CopyOwn'
  BY DEF Sound, CopyOwn, disk
<1>4. CommitReady'
  BY DEF Sound, CommitReady, disk
<1>. QED
  BY <1>1, <1>2, <1>3, <1>4 DEF Sound

\* A file that nobody is copying into is left alone by every step.
LEMMA FilesKept ==
  ASSUME Base, Sound, [Next]_vars, NEW p \in Paths, file[p] # 0,
         \A w \in Workers : pc[w] = "copy" => job[w].target # p
  PROVE  file'[p] = file[p] /\ data'[file[p]] = data[file[p]]
<1>t. TypeOK /\ \A w \in Workers : JobOK(w)
  BY DEF Base
<1>1. ASSUME UNCHANGED disk
      PROVE  file'[p] = file[p] /\ data'[file[p]] = data[file[p]]
  BY <1>1 DEF disk
<1>2. ASSUME NEW w \in Workers, WriteBlob(w)
      PROVE  file'[p] = file[p] /\ data'[file[p]] = data[file[p]]
  BY <1>t, <1>2, FreshUnused DEF WriteBlob, TypeOK, disk
<1>3. ASSUME NEW w \in Workers, HardLink(w)
      PROVE  file'[p] = file[p] /\ data'[file[p]] = data[file[p]]
  <2>1. p # job[w].target
    BY <1>3 DEF HardLink
  <2>. QED
    BY <1>t, <1>3, <2>1 DEF HardLink, TypeOK
<1>4. ASSUME NEW w \in Workers, OpenCopy(w)
      PROVE  file'[p] = file[p] /\ data'[file[p]] = data[file[p]]
  <2>1. file[job[w].target] = 0
    BY <1>4 DEF Sound, TargetFree, OpenCopy
  <2>2. PICK inode \in Fresh :
          \/ UNCHANGED disk
          \/ /\ file' = [file EXCEPT ![job[w].target] = inode]
             /\ data' = [data EXCEPT ![inode] = Torn]
    BY <1>4, <2>1 DEF OpenCopy
  <2>. QED
    BY <1>t, <2>1, <2>2, FreshUnused DEF TypeOK, disk
<1>5. ASSUME NEW w \in Workers, Copy(w)
      PROVE  file'[p] = file[p] /\ data'[file[p]] = data[file[p]]
  <2>1. pc[w] = "copy" /\ p # job[w].target
    BY <1>5 DEF Copy
  <2>2. file[p] # file[job[w].target]
    BY <1>5, <2>1 DEF Sound, CopyOwn
  <2>. QED
    BY <1>t, <1>5, <2>2 DEF Copy, TypeOK, disk
<1>. QED
  BY <1>1, <1>2, <1>3, <1>4, <1>5 DEF Next, vars, disk, Fetch, Receive, Refuse,
     RecordFailure, ChooseTarget, LookForBlob, Lock, KeepBlob, Commit, Crash

\* Recorded files are among them.
LEMMA RecordedKept ==
  ASSUME Base, Sound, [Next]_vars, NEW d \in Docs, row[d].path # None
  PROVE  LET path == row[d].path IN
         /\ path \in Paths /\ file[path] # 0
         /\ file'[path] = file[path] /\ data'[file[path]] = data[file[path]]
<1>1. row[d].path \in Paths /\ file[row[d].path] # 0
  BY DEF Base, TypeOK, Sound, RowSound
<1>2. \A w \in Workers : pc[w] = "copy" => job[w].target # row[d].path
  BY DEF Sound, CopyOwn
<1>. QED
  BY <1>1, <1>2, FilesKept

\* Only one worker is behind the lock.
LEMMA OneLocked ==
  ASSUME Base, NEW w \in Workers, NEW v \in Workers, pc[w] \in Locked, pc[v] \in Locked
  PROVE  v = w
BY DEF Base, JobOK

LEMMA SoundStep ==
  ASSUME SeparateTenders, Base, Base', Sound, [Next]_vars
  PROVE  Sound'
<1>t. TypeOK /\ \A w \in Workers : JobOK(w)
  BY DEF Base
<1>1. ASSUME NEW w \in Workers,
             \/ Fetch(w) \/ Receive(w) \/ Refuse(w) \/ RecordFailure(w)
             \/ ChooseTarget(w) \/ LookForBlob(w) \/ Lock(w) \/ KeepBlob(w)
      PROVE  Sound'
  <2>. USE DEF Go
  <2>1. UNCHANGED disk
    BY <1>1 DEF Fetch, Receive, Refuse, RecordFailure, ChooseTarget, LookForBlob, Lock,
       KeepBlob
  <2>2. \A d \in Docs : row'[d].path = row[d].path /\ row'[d].sum = row[d].sum
    <3>1. CASE UNCHANGED row
      BY <3>1
    <3>2. CASE RecordFailure(w)
      BY <1>t, <3>2 DEF RecordFailure, Failed, TypeOK
    <3>. QED
      BY <1>1, <3>1, <3>2 DEF Fetch, Receive, Refuse, ChooseTarget, LookForBlob, Lock,
         KeepBlob
  <2>3. ASSUME NEW v \in Workers, v # w  PROVE pc'[v] = pc[v] /\ job'[v] = job[v]
    BY <1>1, <1>t, <2>3 DEF Fetch, Receive, Refuse, RecordFailure, ChooseTarget,
       LookForBlob, Lock, KeepBlob, TypeOK
  <2>4. \/ pc'[w] \notin {"blob", "wait", "write", "link", "copy", "commit"}
        \/ /\ pc[w] \in {"blob", "wait", "write", "link"}
           /\ pc'[w] \in {"blob", "wait", "write", "link"}
           /\ job'[w].target = job[w].target
        \/ pc'[w] = "blob" /\ file[job'[w].target] = 0
    <3>1. CASE ChooseTarget(w)
      <4>1. CASE Go(w, "failing")
        BY <1>t, <4>1 DEF TypeOK
      <4>2. ASSUME NEW t \in UniqueTarget(Folder[job[w].doc]), Go(w, "blob"),
                   job' = [job EXCEPT ![w].target = t]
            PROVE  pc'[w] = "blob" /\ file[job'[w].target] = 0
        <5>1. file[t] = 0
          BY DEF UniqueTarget
        <5>. QED
          BY <1>t, <4>2, <5>1 DEF TypeOK
      <4>. QED
        BY <3>1, <4>1, <4>2 DEF ChooseTarget
    <3>2. CASE Fetch(w) \/ Receive(w) \/ Refuse(w) \/ RecordFailure(w)
      BY <1>t, <3>2 DEF Fetch, Receive, Refuse, RecordFailure, TypeOK
    <3>3. CASE LookForBlob(w) \/ Lock(w) \/ KeepBlob(w)
      BY <1>t, <3>3 DEF LookForBlob, Lock, KeepBlob, TypeOK
    <3>. QED
      BY <1>1, <3>1, <3>2, <3>3
  <2>. QED
    BY <2>1, <2>2, <2>3, <2>4, SoundQuiet
<1>f. ASSUME NEW w \in Workers,
             WriteBlob(w) \/ HardLink(w) \/ OpenCopy(w) \/ Copy(w) \/ Commit(w)
      PROVE  /\ pc[w] \in Locked
             /\ job[w].doc \in Docs /\ job[w].body \in Contents /\ job[w].target \in Paths
             /\ \A v \in Workers : v # w =>
                  pc[v] \notin Locked /\ pc'[v] = pc[v] /\ job'[v] = job[v]
  <2>1. pc[w] \in Locked
    BY <1>f DEF WriteBlob, HardLink, OpenCopy, Copy, Commit, Locked
  <2>2. job[w].doc \in Docs /\ job[w].body \in Contents /\ job[w].target \in Paths
    BY <1>t, <2>1, StoreAssumption DEF JobOK, Targeted, Locked
  <2>3. ASSUME NEW v \in Workers, v # w
        PROVE  pc[v] \notin Locked /\ pc'[v] = pc[v] /\ job'[v] = job[v]
    BY <1>f, <1>t, <2>1, <2>3, OneLocked
       DEF WriteBlob, HardLink, OpenCopy, Copy, Commit, FailLocked, Go, TypeOK
  <2>. QED
    BY <2>1, <2>2, <2>3
<1>q. ASSUME NEW w \in Workers, FailLocked(w), UNCHANGED disk  PROVE Sound'
  <2>1. \A v \in Workers : pc'[v] = IF v = w THEN "failing" ELSE pc[v]
    BY <1>t, <1>q DEF FailLocked, Go, TypeOK
  <2>. QED
    BY <1>q, <2>1, SoundQuiet DEF FailLocked
<1>r. UNCHANGED row => RowSound'
  BY RecordedKept DEF Sound, RowSound
<1>2. ASSUME NEW w \in Workers, WriteBlob(w)  PROVE Sound'
  <2>1. ASSUME NEW inode \in Fresh,
               blob' = [blob EXCEPT ![job[w].body] = inode],
               data' = [data EXCEPT ![inode] = job[w].body],
               Go(w, "link"), UNCHANGED <<row, file, job, lock, started>>
        PROVE  Sound'
    <3>1. BlobSound'
      BY <1>t, <1>f, <1>2, <2>1, FreshUnused DEF Sound, BlobSound, TypeOK
    <3>2. pc' = [pc EXCEPT ![w] = "link"] /\ pc[w] = "write"
      BY <1>2, <2>1 DEF Go, WriteBlob
    <3>3. TargetFree'
      BY <1>t, <2>1, <3>2 DEF Sound, TargetFree, TypeOK
    <3>4. CopyOwn' /\ CommitReady'
      BY <1>t, <1>f, <1>2, <3>2 DEF CopyOwn, CommitReady, TypeOK, Locked
    <3>. QED
      BY <1>r, <2>1, <3>1, <3>3, <3>4 DEF Sound
  <2>. QED
    BY <1>2, <1>q, <2>1 DEF WriteBlob
<1>3. ASSUME NEW w \in Workers, HardLink(w)  PROVE Sound'
  <2>1. pc' = [pc EXCEPT ![w] = "commit"] /\ pc[w] = "link"
    BY <1>3 DEF Go, HardLink
  <2>2. BlobSound'
    BY <1>3 DEF HardLink, Sound, BlobSound
  <2>3. TargetFree'
    <3>1. SUFFICES ASSUME NEW v \in Workers, pc'[v] \in {"blob", "wait", "write", "link"}
                   PROVE  file'[job'[v].target] = 0
      BY DEF TargetFree
    <3>2. v # w /\ pc[v] \in {"blob", "wait"} /\ job'[v] = job[v]
      BY <1>t, <1>f, <1>3, <2>1, <3>1 DEF TypeOK, Locked
    <3>3. job[v].target # job[w].target /\ job[v].target \in Paths
      BY <1>t, <2>1, <3>2, TargetsDiffer DEF Targeted, Locked, JobOK
    <3>. QED
      BY <1>t, <1>3, <3>2, <3>3 DEF HardLink, Sound, TargetFree, TypeOK
  <2>4. CopyOwn'
    BY <1>t, <1>f, <1>3, <2>1 DEF CopyOwn, TypeOK, Locked
  <2>5. CommitReady'
    <3>1. file'[job[w].target] = blob[job[w].body] /\ blob[job[w].body] # 0
      BY <1>t, <1>f, <1>3, <2>1 DEF HardLink, TypeOK, JobOK
    <3>2. data'[blob[job[w].body]] = job[w].body
      BY <1>f, <1>3, <3>1 DEF HardLink, Sound, BlobSound
    <3>3. ASSUME NEW v \in Workers, pc'[v] = "commit"  PROVE v = w
      BY <1>t, <1>f, <1>3, <2>1, <3>3 DEF TypeOK, Locked
    <3>. QED
      BY <1>3, <3>1, <3>2, <3>3 DEF CommitReady, HardLink
  <2>. QED
    BY <1>3, <1>r, <2>2, <2>3, <2>4, <2>5 DEF HardLink, Sound
<1>4. ASSUME NEW w \in Workers, OpenCopy(w)  PROVE Sound'
  <2>1. pc[w] = "link" /\ file[job[w].target] = 0
    BY <1>4 DEF OpenCopy, Sound, TargetFree
  <2>2. ASSUME NEW inode \in Fresh,
               file' = [file EXCEPT ![job[w].target] = inode],
               data' = [data EXCEPT ![inode] = Torn],
               Go(w, "copy"), UNCHANGED <<row, blob, job, lock, started>>
        PROVE  Sound'
    <3>0. pc' = [pc EXCEPT ![w] = "copy"]
      BY <2>2 DEF Go
    <3>1. BlobSound'
      BY <1>t, <2>2, FreshUnused DEF Sound, BlobSound, TypeOK
    <3>2. TargetFree'
      <4>1. SUFFICES ASSUME NEW v \in Workers,
                            pc'[v] \in {"blob", "wait", "write", "link"}
                     PROVE  file'[job'[v].target] = 0
        BY DEF TargetFree
      <4>2. v # w /\ pc[v] \in {"blob", "wait"} /\ job'[v] = job[v]
        BY <1>t, <1>f, <1>4, <3>0, <4>1 DEF TypeOK, Locked
      <4>3. job[v].target # job[w].target /\ job[v].target \in Paths
        BY <1>t, <2>1, <4>2, TargetsDiffer DEF Targeted, Locked, JobOK
      <4>. QED
        BY <1>t, <2>2, <4>2, <4>3 DEF Sound, TargetFree, TypeOK
    <3>3. CopyOwn'
      <4>1. ASSUME NEW v \in Workers, pc'[v] = "copy"  PROVE v = w
        BY <1>t, <1>f, <1>4, <3>0, <4>1 DEF TypeOK, Locked
      <4>2. \A d \in Docs : row[d].path # job[w].target
        BY <1>f, <1>4, <2>1, NamesAssumption DEF Sound, RowSound
      <4>3. file'[job[w].target] = inode /\ inode # 0
        BY <1>t, <1>f, <1>4, <2>2, FreshUnused DEF TypeOK
      <4>4. \A p \in Paths \ {job[w].target} : file'[p] # inode
        BY <1>t, <2>2, FreshUnused DEF TypeOK
      <4>5. \A c \in Contents : blob'[c] # inode
        BY <2>2, FreshUnused
      <4>. QED
        BY <2>2, <4>1, <4>2, <4>3, <4>4, <4>5 DEF CopyOwn
    <3>4. CommitReady'
      BY <1>t, <1>f, <1>4, <3>0 DEF CommitReady, TypeOK, Locked
    <3>. QED
      BY <1>r, <2>2, <3>1, <3>2, <3>3, <3>4 DEF Sound
  <2>. QED
    BY <1>4, <1>q, <2>1, <2>2 DEF OpenCopy
<1>5. ASSUME NEW w \in Workers, Copy(w)  PROVE Sound'
  <2>1. ASSUME data' = [data EXCEPT ![file[job[w].target]] = data[blob[job[w].body]]],
               Go(w, "commit"), UNCHANGED <<row, blob, file, job, lock, started>>
        PROVE  Sound'
    <3>0. pc[w] = "copy" /\ pc' = [pc EXCEPT ![w] = "commit"]
      BY <1>5, <2>1 DEF Go, Copy
    <3>1. /\ file[job[w].target] # 0 /\ file[job[w].target] \in Inodes
          /\ \A c \in Contents : blob[c] # file[job[w].target]
      BY <1>t, <1>f, <1>5, <3>0 DEF Sound, CopyOwn, TypeOK
    <3>2. data[blob[job[w].body]] = job[w].body
      BY <1>t, <1>f, <1>5, <3>0 DEF Sound, BlobSound, JobOK
    <3>3. BlobSound'
      BY <1>t, <2>1, <3>1 DEF Sound, BlobSound, TypeOK
    <3>4. TargetFree'
      BY <1>t, <2>1, <3>0 DEF Sound, TargetFree, TypeOK
    <3>5. CopyOwn'
      BY <1>t, <1>f, <1>5, <3>0 DEF CopyOwn, TypeOK, Locked
    <3>6. CommitReady'
      <4>1. ASSUME NEW v \in Workers, pc'[v] = "commit"  PROVE v = w
        BY <1>t, <1>f, <1>5, <3>0, <4>1 DEF TypeOK, Locked
      <4>2. data'[file[job[w].target]] = job[w].body
        BY <1>t, <2>1, <3>1, <3>2 DEF TypeOK
      <4>. QED
        BY <2>1, <3>1, <4>1, <4>2 DEF CommitReady
    <3>. QED
      BY <1>r, <2>1, <3>3, <3>4, <3>5, <3>6 DEF Sound
  <2>. QED
    BY <1>5, <1>q, <2>1 DEF Copy
<1>6. ASSUME NEW w \in Workers, Commit(w)  PROVE Sound'
  <2>1. pc[w] = "commit" /\ pc' = [pc EXCEPT ![w] = "idle"] /\ UNCHANGED disk
    BY <1>6 DEF Commit, Go
  <2>2. file[job[w].target] # 0 /\ data[file[job[w].target]] = job[w].body
    BY <2>1 DEF Sound, CommitReady
  <2>3. RowSound'
    <3>1. CASE UNCHANGED row
      BY <1>r, <3>1
    <3>2. CASE row' = [row EXCEPT ![job[w].doc] =
                 [status |-> "available", path |-> job[w].target, sum |-> job[w].body]]
      BY <1>t, <2>1, <2>2, <3>2 DEF Sound, RowSound, TypeOK, disk
    <3>. QED
      BY <1>6, <3>1, <3>2 DEF Commit
  <2>4. BlobSound'
    BY <2>1 DEF Sound, BlobSound, disk
  <2>5. TargetFree'
    BY <1>t, <1>f, <1>6, <2>1 DEF Sound, TargetFree, TypeOK, disk
  <2>6. CopyOwn' /\ CommitReady'
    BY <1>t, <1>f, <1>6, <2>1 DEF CopyOwn, CommitReady, TypeOK, Locked
  <2>. QED
    BY <2>3, <2>4, <2>5, <2>6 DEF Sound
<1>7. CASE Crash
  BY <1>7, SoundQuiet DEF Crash
<1>8. CASE UNCHANGED vars
  BY <1>8, SoundQuiet DEF vars, disk
<1>. QED
  BY <1>1, <1>2, <1>3, <1>4, <1>5, <1>6, <1>7, <1>8 DEF Next

LEMMA SoundAlways == ASSUME SeparateTenders  PROVE Spec => [](Base /\ Sound)
<1>1. Init => Base /\ Sound
  BY BaseInit, SoundInit
<1>2. Base /\ Sound /\ [Next]_vars => (Base /\ Sound)'
  BY BaseStep, SoundStep
<1>. QED
  BY <1>1, <1>2, PTL DEF Spec

\* What the catalogue offers for reuse has a file with the recorded body, for
\* any number of workers, documents and bodies, when no two workers share a
\* tender.
THEOREM ReuseIsSound == ASSUME SeparateTenders  PROVE Spec => []RowMatchesFile
<1>1. Sound => RowMatchesFile
  BY DEF Sound, RowSound, RowMatchesFile, Available
<1>. QED
  BY SoundAlways, <1>1, PTL

\* A file that a row names never changes, under the same hypothesis.
THEOREM RecordedFilesStable == ASSUME SeparateTenders  PROVE Spec => FilesStable
<1>1. Base /\ Sound /\ [Next]_vars =>
        [\A d \in Docs :
           LET path == row[d].path IN
             path # None => file'[path] # 0 /\ data'[file'[path]] = data[file[path]]]_vars
  BY RecordedKept
<1>. QED
  BY SoundAlways, <1>1, PTL DEF Spec, FilesStable
=============================================================================
