---------------------------- MODULE ExportedLock ----------------------------
(***************************************************************************)
(* The approved-index workflow together with the checks it makes: the locks *)
(* are sequences of packages, and PublicLock says which of them pass.       *)
(***************************************************************************)
EXTENDS ApprovedIndex, PublicLock

CONSTANTS
  Members,   \* the directories of the workspace
  MaxLines   \* bound: lines an export may have beside the expected ones

ASSUME ExportedLockAssumption ==
  /\ \A l \in Locks : l \in Seq(Range(l))
  /\ PublicLocks = {l \in Locks : ValidatePublicLock(l, Members)}
  /\ HashedLocks = {l \in Locks : ValidateExportedRequirements(Exported(l, Members))}
ASSUME MaxLinesAssumption == MaxLines \in Nat

(* The check between the export and the install reads line by line; it lets *)
(* pass exactly the files in which every requirement is pinned and has its  *)
(* hash, whatever uv export writes, alone or after what it should write for *)
(* the uv.lock at that moment; and of what it should write, exactly that of *)
(* locks whose packages are the workspace's, or from a registry and hashed  *)
(* (validate_exported_requirements).                                        *)
ExportCheckIsExact ==
  \A t \in Tasks : At(t, "export") =>
    /\ \A more \in BoundedSeq(LineKinds, MaxLines) :
         \A lines \in {more, Exported(lock, Members) \o more} :
           ValidateExportedRequirements(lines) <=> PinnedWithHash(lines)
    /\ lock \in HashedLocks <=> \A p \in Range(lock) : Exportable(p, Members)

(* An environment a target uses has packages of the workspace itself and    *)
(* packages of the public index that are pinned with their hashes, and what *)
(* they were installed from names no other host (validate_public_lock).     *)
UsedIsVetted ==
  \A t \in Tasks : At(t, "using") =>
    \A p \in Range(task[t].digest) :
      /\ FromWorkspace(p, Members) \/ (FromRegistry(p) /\ p.hashed)
      /\ \A url \in p.urls : ValidateArtifactUrl(url)
=============================================================================
