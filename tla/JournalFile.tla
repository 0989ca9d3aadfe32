----------------------------- MODULE JournalFile -----------------------------
(***************************************************************************)
(* The journal file of testnet-ccip/adapters/evm-journal-file.ts: one      *)
(* record replaced by write-temporary, fsync, rename, fsync-directory      *)
(* under an exclusive lock file.                                           *)
(*                                                                         *)
(* A rename is visible at once and durable only after the directory is     *)
(* synced, so a power loss may leave any record renamed in since the last  *)
(* sync.  The lock file outlives its owner: nothing in the code removes    *)
(* the lock of a dead process, an operator does.                           *)
(***************************************************************************)
EXTENDS Naturals

CONSTANTS Processes,  \* operating system processes that may run the tool
          NoRecord    \* read() when the file does not exist

VARIABLES lock,     \* the lock file: "absent", its live owner, or "orphan"
          file,     \* the record read() returns
          survivors \* the records a power loss may leave

fileVars == <<lock, file, survivors>>

FileInit == lock = "absent" /\ file = NoRecord /\ survivors = {NoRecord}

\* open(path.lock, "wx") fails when the lock file exists.
AcquireLock(p) == lock = "absent" /\ lock' = p

\* The finally block of exclusive().
ReleaseLock(p) == lock' = IF lock = p THEN "absent" ELSE lock

\* write(), up to the rename.
Rename(record) == file' = record /\ survivors' = survivors \cup {record}

\* write(), the directory's sync.
SyncDirectory == survivors' = {file} /\ UNCHANGED file

\* A process that dies in exclusive() leaves its lock behind.
OrphanLock(p) == lock' = IF lock = p THEN "orphan" ELSE lock

\* After a power loss neither the lock's creation nor its removal need have
\* reached the disk.
LosePower ==
  /\ \E left \in survivors : file' = left /\ survivors' = {left}
  /\ lock' \in {"absent", "orphan"}

\* The reconciliation the adapter asks an operator for.
ClearOrphan == lock = "orphan" /\ lock' = "absent"
=============================================================================
