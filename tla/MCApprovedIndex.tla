--------------------------- MODULE MCApprovedIndex ---------------------------
(* Instances of ApprovedIndex whose locks the checks of PublicLock judge.   *)
EXTENDS ExportedLock

MCMembers == {"src/api", "src/external-sli-publisher"}

MCPackage(name, key, value, host, hashed) ==
  [name |-> name, source |-> {<<key, value>>}, hashed |-> hashed,
   urls |-> IF host = "" THEN {}
            ELSE {[scheme |-> "https", host |-> host, bare |-> TRUE]}]

MCApi == MCPackage("api", "editable", "src/api", "", FALSE)
MCPypi(name, hashed) ==
  MCPackage(name, "registry", PublicPypi, "files.pythonhosted.org", hashed)

(* Two good locks; one without hashes; one from another registry, which has *)
(* hashes; and one from a repository.                                       *)
MCFirstLock == <<MCApi, MCPypi("redis", TRUE)>>
MCLocks ==
  {MCFirstLock,
   <<MCApi, MCPypi("redis", TRUE), MCPypi("httpx", TRUE)>>,
   <<MCApi, MCPypi("redis", FALSE)>>,
   <<MCApi, MCPypi("redis", TRUE),
     MCPackage("httpx", "registry", "https://mirror/simple", "mirror", TRUE)>>,
   <<MCApi, MCPypi("redis", TRUE), MCPackage("httpx", "git", "https://repo", "", FALSE)>>}

MCPublicLocks == {l \in MCLocks : ValidatePublicLock(l, MCMembers)}
MCHashedLocks ==
  {l \in MCLocks : ValidateExportedRequirements(Exported(l, MCMembers))}
=============================================================================
