---------------------------- MODULE DocumentStore ----------------------------
(***************************************************************************)
(* Downloaded documents: TenderDocumentDownloadService over one            *)
(* TenderDocumentStore, which the documents worker and the analysis worker *)
(* of the user interface share.                                            *)
(*                                                                         *)
(* A body is stored once under its checksum (the blob) and linked into the *)
(* folder of its tender; the catalogue row names the link.  The target     *)
(* name and the presence of the blob are read before _lock is taken.       *)
(*                                                                         *)
(* A file is a path with an inode; a hard link gives two paths one inode.  *)
(* All documents of a folder have the same file name, the case in which    *)
(* names must be made unique.                                              *)
(***************************************************************************)
EXTENDS Integers, FiniteSets

CONSTANTS
  Workers,      \* threads that download
  Docs,         \* documents: (registry key, source url)
  Contents,     \* bodies the servers may send, named by their checksum
  Work,         \* [Workers -> SUBSET Docs]: what each worker downloads
  Folder,       \* [Docs -> folders]: tender_folder
  MaxCopies,    \* last index _unique_target_path tries (9 999 in the code)
  MaxDownloads, \* bound: downloads started
  None          \* no path, no checksum, no worker

ASSUME StoreAssumption ==
  /\ IsFiniteSet(Docs) /\ IsFiniteSet(Contents)
  /\ Work \in [Workers -> SUBSET Docs]
  /\ DOMAIN Folder = Docs
  /\ MaxCopies \in Nat \ {0} /\ MaxDownloads \in Nat
  /\ None \notin Workers \union Contents \union Docs

Folders == {Folder[d] : d \in Docs}
Paths   == Folders \X (1 .. MaxCopies)
Inodes  == 1 .. Cardinality(Contents) + Cardinality(Paths) + 1
Torn    == "torn"                    \* a file truncated and not yet copied

ASSUME NamesAssumption == None \notin Paths /\ Torn \notin Contents

\* Each worker has tenders of its own.
SeparateTenders ==
  \A v, w \in Workers : v # w => \A d \in Work[v], e \in Work[w] : Folder[d] # Folder[e]

VARIABLES
  row,     \* tender_documents, one row per document
  blob,    \* checksum -> inode of its blob, 0 when there is no blob
  file,    \* path -> inode, 0 when there is no file
  data,    \* inode -> content
  pc,      \* where each worker is
  job,     \* its document, the body it received, target_path, blob_preexisted
  lock,    \* holder of _lock
  started  \* downloads started (bounds the run)

disk == <<blob, file, data>>
vars == <<row, blob, file, data, pc, job, lock, started>>

NoRow == [status |-> "none", path |-> None, sum |-> None]
NoJob == [doc |-> None, body |-> None, target |-> None, preexisted |-> FALSE]

Locked  == {"write", "link", "copy", "commit"}

TypeOK ==
  /\ row \in [Docs -> [status : {"none", "available", "failed"},
                       path : Paths \union {None}, sum : Contents \union {None}]]
  /\ blob \in [Contents -> Inodes \union {0}]
  /\ file \in [Paths -> Inodes \union {0}]
  /\ data \in [Inodes -> Contents \union {Torn}]
  /\ pc \in [Workers -> {"idle", "fetch", "target", "blob", "wait", "failing"}
                          \union Locked]
  /\ job \in [Workers -> [doc : Docs \union {None}, body : Contents \union {None},
                          target : Paths \union {None}, preexisted : BOOLEAN]]
  /\ lock \in Workers \union {None}
  /\ started \in 0 .. MaxDownloads

Init ==
  /\ row = [d \in Docs |-> NoRow]
  /\ blob = [c \in Contents |-> 0]
  /\ file = [p \in Paths |-> 0]
  /\ data = [i \in Inodes |-> Torn]
  /\ pc = [w \in Workers |-> "idle"]
  /\ job = [w \in Workers |-> NoJob]
  /\ lock = None
  /\ started = 0

Go(w, place) == pc' = [pc EXCEPT ![w] = place]

Unused(i) == (\A c \in Contents : blob[c] # i) /\ (\A p \in Paths : file[p] # i)

\* The inode a new file gets; which one does not matter.
Fresh == {i \in Inodes : Unused(i) /\ \A j \in 1 .. (i - 1) : ~Unused(j)}

\* available_locally: the row is a success and its file exists.
Available(d) ==
  /\ row[d].status = "available"
  /\ row[d].path # None /\ file[row[d].path] # 0

----------------------------------------------------------------------------
(* download_for_tender: one document after the other.                      *)

\* A document that can be reused is not fetched, unless the user forces it;
\* find_reusable takes the lock to read the row.
Fetch(w) ==
  /\ pc[w] = "idle" /\ started < MaxDownloads
  /\ \E d \in Work[w], force \in BOOLEAN :
       /\ force \/ (lock = None /\ ~Available(d))
       /\ job' = [job EXCEPT ![w] = [NoJob EXCEPT !.doc = d]]
  /\ Go(w, "fetch")
  /\ started' = started + 1
  /\ UNCHANGED <<row, disk, lock>>

\* A body that save_response accepts: 2xx, not empty, not HTML, checksum as
\* announced.
Receive(w) ==
  /\ pc[w] = "fetch"
  /\ \E c \in Contents : job' = [job EXCEPT ![w].body = c]
  /\ Go(w, "target")
  /\ UNCHANGED <<row, disk, lock, started>>

\* A transport error or a response it refuses.
Refuse(w) ==
  /\ pc[w] = "fetch"
  /\ Go(w, "failing")
  /\ UNCHANGED <<row, disk, job, lock, started>>

\* The row after record_failure: a file stored earlier stays on record.
Failed(d) == [row[d] EXCEPT !.status = "failed"]

RecordFailure(w) ==
  /\ pc[w] = "failing" /\ lock = None
  /\ row' = [row EXCEPT ![job[w].doc] = Failed(job[w].doc)]
  /\ Go(w, "idle")
  /\ job' = [job EXCEPT ![w] = NoJob]
  /\ UNCHANGED <<disk, lock, started>>

----------------------------------------------------------------------------
(* save_response.                                                          *)

\* Mutant: the plain name is taken although a file has it.
UniqueTarget_Plain(folder) == {<<folder, 1>>}

\* _unique_target_path: the first name of the folder that no file has, if any.
UniqueTarget(folder) ==
  {<<folder, n>> : n \in {m \in 1 .. MaxCopies :
     file[<<folder, m>>] = 0 /\ \A k \in 1 .. (m - 1) : file[<<folder, k>>] # 0}}

ChooseTarget(w) ==
  /\ pc[w] = "target"
  /\ LET targets == UniqueTarget(Folder[job[w].doc]) IN
       \/ targets = {} /\ Go(w, "failing") /\ UNCHANGED job
       \/ /\ Go(w, "blob")
          /\ \E target \in targets : job' = [job EXCEPT ![w].target = target]
  /\ UNCHANGED <<row, disk, lock, started>>

\* blob_preexisted, read outside the lock too.
LookForBlob(w) ==
  /\ pc[w] = "blob"
  /\ job' = [job EXCEPT ![w].preexisted = blob[job[w].body] # 0]
  /\ Go(w, "wait")
  /\ UNCHANGED <<row, disk, lock, started>>

Lock(w) ==
  /\ pc[w] = "wait" /\ lock = None
  /\ lock' = w
  /\ Go(w, "write")
  /\ UNCHANGED <<row, disk, job, started>>

\* OSError under the lock: the lock is released, the failure recorded later.
FailLocked(w) ==
  /\ Go(w, "failing")
  /\ lock' = None
  /\ UNCHANGED <<row, job, started>>

\* Mutant: the body is written in place and may stay truncated.
WriteBlob_InPlace(w) ==
  /\ pc[w] = "write" /\ ~job[w].preexisted
  /\ \E inode \in (IF blob[job[w].body] # 0 THEN {blob[job[w].body]} ELSE Fresh),
        got \in {job[w].body, Torn} :
       /\ blob' = [blob EXCEPT ![job[w].body] = inode]
       /\ data' = [data EXCEPT ![inode] = got]
       /\ IF got = Torn THEN FailLocked(w)
          ELSE Go(w, "link") /\ UNCHANGED <<row, job, lock, started>>
  /\ UNCHANGED file

\* _atomic_write: the blob appears complete, under a new inode, or not at all.
WriteBlob(w) ==
  /\ pc[w] = "write" /\ ~job[w].preexisted
  /\ \/ /\ \E inode \in Fresh :
             /\ blob' = [blob EXCEPT ![job[w].body] = inode]
             /\ data' = [data EXCEPT ![inode] = job[w].body]
        /\ Go(w, "link")
        /\ UNCHANGED <<row, file, job, lock, started>>
     \/ FailLocked(w) /\ UNCHANGED disk

KeepBlob(w) ==
  /\ pc[w] = "write" /\ job[w].preexisted
  /\ Go(w, "link")
  /\ UNCHANGED <<row, disk, job, lock, started>>

\* hardlink_to, when no file has the name.
HardLink(w) ==
  /\ pc[w] = "link" /\ file[job[w].target] = 0
  /\ file' = [file EXCEPT ![job[w].target] = blob[job[w].body]]
  /\ Go(w, "commit")
  /\ UNCHANGED <<row, blob, data, job, lock, started>>

\* hardlink_to failed (a file has the name, or the volume has no hard links):
\* shutil.copy2 refuses to copy a file onto itself, and otherwise truncates
\* what the target path names.
OpenCopy(w) ==
  /\ pc[w] = "link"
  /\ LET target == job[w].target IN
     \E inode \in (IF file[target] = 0 THEN Fresh ELSE {file[target]}) :
       IF inode = blob[job[w].body]
       THEN FailLocked(w) /\ UNCHANGED disk
       ELSE /\ file' = [file EXCEPT ![target] = inode]
            /\ data' = [data EXCEPT ![inode] = Torn]
            /\ Go(w, "copy")
            /\ UNCHANGED <<row, blob, job, lock, started>>

\* The copy is finished, or fails half-way.
Copy(w) ==
  /\ pc[w] = "copy"
  /\ \/ /\ data' = [data EXCEPT ![file[job[w].target]] = data[blob[job[w].body]]]
        /\ Go(w, "commit")
        /\ UNCHANGED <<row, blob, file, job, lock, started>>
     \/ FailLocked(w) /\ UNCHANGED disk

\* The transaction; when SQLite fails the exception leaves download_for_tender.
Commit(w) ==
  /\ pc[w] = "commit"
  /\ \/ row' = [row EXCEPT ![job[w].doc] =
                  [status |-> "available", path |-> job[w].target, sum |-> job[w].body]]
     \/ UNCHANGED row
  /\ lock' = None
  /\ Go(w, "idle")
  /\ job' = [job EXCEPT ![w] = NoJob]
  /\ UNCHANGED <<disk, started>>

\* The process dies: the files and the catalogue stay.
Crash ==
  /\ \E w \in Workers : pc[w] # "idle"
  /\ pc' = [w \in Workers |-> "idle"]
  /\ job' = [w \in Workers |-> NoJob]
  /\ lock' = None
  /\ UNCHANGED <<row, disk, started>>

Next ==
  \/ \E w \in Workers :
       \/ Fetch(w) \/ Receive(w) \/ Refuse(w) \/ RecordFailure(w)
       \/ ChooseTarget(w) \/ LookForBlob(w) \/ Lock(w)
       \/ WriteBlob(w) \/ KeepBlob(w) \/ HardLink(w) \/ OpenCopy(w) \/ Copy(w)
       \/ Commit(w)
  \/ Crash

Spec == Init /\ [][Next]_vars

----------------------------------------------------------------------------
(* Properties.                                                             *)

\* A document the application may reuse, or hand to the analysis, has a file
\* with the body whose checksum is on record, after failures, crashes and
\* forced downloads too.
RowMatchesFile ==
  \A d \in Docs :
    Available(d) => data[file[row[d].path]] = row[d].sum

\* Nothing that happens later changes a file that a row names: a worker that
\* was given the path may still be reading it.
FilesStable ==
  [][\A d \in Docs :
       LET path == row[d].path IN
         path # None => file'[path] # 0 /\ data'[file'[path]] = data[file[path]]]_vars

\* "content-addressed local storage": the blob of a checksum has that body.
ContentAddressed == \A c \in Contents : blob[c] # 0 => data[blob[c]] = c
=============================================================================
