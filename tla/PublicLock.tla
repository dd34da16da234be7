------------------------------ MODULE PublicLock ------------------------------
(***************************************************************************)
(* public_lock.py: does uv.lock name public PyPI and the workspace only, and *)
(* is every requirement exported from it pinned and followed by a hash?     *)
(***************************************************************************)
EXTENDS SequencesExt, FiniteSets

---------------------------------------------------------------------------
(* uv.lock.  A package has a source, as the set of the table's key-value    *)
(* pairs, the URLs of its sdist and its wheels, and hashes or not.          *)

PublicPypi == "https://pypi.org/simple"

(* No port, no user, no password: the URL is bare.                          *)
ValidateArtifactUrl(url) ==
  url.scheme = "https" /\ url.host = "files.pythonhosted.org" /\ url.bare

FromRegistry(package) == package.source = {<<"registry", PublicPypi>>}

FromWorkspace(package, members) ==
  /\ Cardinality(package.source) = 1
  /\ package.source \subseteq {"editable", "virtual"} \X (members \cup {"."})

ValidatePublicLock(packages, members) ==
  /\ \A p \in Range(packages) :
       /\ FromRegistry(p) \/ FromWorkspace(p, members)
       /\ \A url \in p.urls : ValidateArtifactUrl(url)
  /\ \E p \in Range(packages) : FromRegistry(p)

---------------------------------------------------------------------------
(* The exported requirements.  A line is blank (or a comment), a hash, a    *)
(* pinned requirement, one with a direct source, or anything else.          *)

LineKinds == {"blank", "hash", "pinned", "direct", "other"}

(* What the loop remembers of the requirement it is at: that there is none, *)
(* that it is pinned and has no hash yet, that it is hashed; or an error.   *)

(* Mistake: the requirement before is not looked at again.                  *)
ReadLineUnfinished(pending, line) ==
  CASE pending = "error" \/ line = "blank"                -> pending
    [] pending \in {"pinned", "hashed"} /\ line = "hash"  -> "hashed"
    [] pending # "error" /\ line = "pinned"               -> "pinned"
    [] OTHER                                             -> "error"

ReadLine(pending, line) ==
  CASE pending = "error" \/ line = "blank"                -> pending
    [] pending \in {"pinned", "hashed"} /\ line = "hash"  -> "hashed"
    [] pending \in {"none", "hashed"} /\ line = "pinned"  -> "pinned"
    [] OTHER                                             -> "error"

ValidateExportedRequirements(lines) ==
  FoldLeft(ReadLine, "none", lines) \in {"none", "hashed"}

(* What uv export writes for a lock: nothing for the workspace itself, the  *)
(* requirements of any registry, and a direct source for all others.        *)
ExportedLines(package, members) ==
  CASE FromWorkspace(package, members) -> <<>>
    [] \E pair \in package.source : pair[1] = "registry" ->
         IF package.hashed THEN <<"pinned", "hash", "blank">> ELSE <<"pinned", "blank">>
    [] OTHER -> <<"direct">>

Exported(packages, members) ==
  FlattenSeq([i \in DOMAIN packages |-> ExportedLines(packages[i], members)])

---------------------------------------------------------------------------
(* Reference definitions.                                                   *)

(* All lines up to k are blank, pinned or hashes; a hash comes after some   *)
(* requirement, and after a requirement nothing but blanks before its hash. *)
Blank(lines, i, j) == \A x \in i .. j : lines[x] = "blank"

PinnedUpTo(lines, k) ==
  /\ \A i \in 1 .. k : lines[i] \in {"blank", "pinned", "hash"}
  /\ \A i \in 1 .. k : lines[i] = "hash" => \E j \in 1 .. i - 1 : lines[j] = "pinned"
  /\ \A i \in 1 .. k : lines[i] = "pinned" =>
        \E j \in i + 1 .. k : lines[j] = "hash" /\ Blank(lines, i + 1, j - 1)

PinnedWithHash(lines) == PinnedUpTo(lines, Len(lines))

(* A package of which the export is as it should be. *)
Exportable(package, members) ==
  \/ FromWorkspace(package, members)
  \/ (\E pair \in package.source : pair[1] = "registry") /\ package.hashed
=============================================================================
