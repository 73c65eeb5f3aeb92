--------------------------- MODULE PosixDirectory ---------------------------
(***************************************************************************)
(* The directory of one snapshot store as the operating system keeps it:   *)
(* two file names (the snapshot and its staging file) and one directory    *)
(* name that serves as the lock.  This is the file system underneath       *)
(* posix-control-plane-store.ts, posix-ledger-store.ts and                 *)
(* posix-registry-head-store.ts; it is not part of the repository and is   *)
(* modelled from the calls those files make (mkdir, rmdir, open with       *)
(* O_EXCL, fsync of a file and of a directory, rename) and from the crash  *)
(* model they declare: "single-host-filesystem-with-atomic-same-directory- *)
(* rename-and-working-fsync".                                              *)
(*                                                                         *)
(* A change of a directory entry is visible at once and stable only after  *)
(* the directory is synchronised.  mayFiles and mayLock hold what the disk *)
(* can show after a power loss: the entry at the last synchronisation or   *)
(* at any point since, the lock independently of the files.  The data of a *)
(* file in dirty has not been synchronised and may come back torn.         *)
(***************************************************************************)
CONSTANTS NoFile,   \* no staging entry
          Torn,     \* a file whose bytes were lost: it does not validate
          Contents  \* the complete snapshots a file can hold

VARIABLES files, lock, mayFiles, mayLock, dirty

dirVars == <<files, lock, mayFiles, mayLock, dirty>>

Files == [snapshot : Contents \cup {Torn}, staging : Contents \cup {NoFile, Torn}]

DirInit(initial) ==
  LET f == [snapshot |-> initial, staging |-> NoFile] IN
  /\ files = f
  /\ mayFiles = {f}
  /\ lock = FALSE
  /\ mayLock = {FALSE}
  /\ dirty = {}

SetFiles(f) ==
  /\ files' = f
  /\ mayFiles' = mayFiles \cup {f}

(* open(staging, O_CREAT | O_EXCL) followed by the write of its bytes *)
CreateStaging(content) ==
  /\ SetFiles([files EXCEPT !.staging = content])
  /\ dirty' = dirty \cup {content}
  /\ UNCHANGED <<lock, mayLock>>

(* fsync(staging) *)
SyncStaging ==
  /\ dirty' = dirty \ {files.staging}
  /\ UNCHANGED <<files, mayFiles, lock, mayLock>>

(* rename(staging, snapshot): both names change in one step *)
RenameStaging ==
  /\ SetFiles([snapshot |-> files.staging, staging |-> NoFile])
  /\ UNCHANGED <<lock, mayLock, dirty>>

(* mkdir(lock) or rmdir(lock) *)
SetLock(present) ==
  /\ lock' = present
  /\ mayLock' = mayLock \cup {present}
  /\ UNCHANGED <<files, mayFiles, dirty>>

(* fsync(directory) *)
SyncDirectory ==
  /\ mayFiles' = {files}
  /\ mayLock' = {lock}
  /\ UNCHANGED <<files, lock, dirty>>

Reread(content) == IF content \in dirty THEN Torn ELSE content

(* the machine loses power and comes back with what its disk holds *)
DiskAfterPowerLoss ==
  /\ \E f \in mayFiles, l \in mayLock :
       /\ files' = [snapshot |-> Reread(f.snapshot), staging |-> Reread(f.staging)]
       /\ lock' = l
  /\ mayFiles' = {files'}
  /\ mayLock' = {lock'}
  /\ dirty' = {}

(* somebody removes the lock and the staging file by hand *)
DiskCleanedByHand ==
  /\ SetFiles([files EXCEPT !.staging = NoFile])
  /\ lock' = FALSE
  /\ mayLock' = mayLock \cup {FALSE}
  /\ dirty' = dirty \ {files.staging}

DirTypeOK ==
  /\ files \in Files /\ mayFiles \subseteq Files /\ files \in mayFiles
  /\ lock \in BOOLEAN /\ mayLock \subseteq BOOLEAN /\ lock \in mayLock
  /\ dirty \subseteq Contents
=============================================================================
