----------------------------- MODULE IgnoreRules -----------------------------
(***************************************************************************)
(* Which files of a tree `aegis audit` reads: sast/ignore.py and the walk  *)
(* of sast/scanner.py.                                                     *)
(*                                                                          *)
(* A path is the sequence of its names below the scan root, a pattern the  *)
(* sequence of its names with a mark for a trailing slash; a name of a     *)
(* pattern is a name or "*", for what a glob matches within one name.      *)
(***************************************************************************)
EXTENDS Integers, SequencesExt

DefaultExcludes ==
  {".git", "node_modules", "venv", ".venv", "__pycache__", ".pytest_cache",
   ".ruff_cache", ".mypy_cache", "htmlcov", "dist", "build"}

IgnoreFilename == ".aegisignore"

Pattern(names) == [names |-> names, slash |-> FALSE]
Subtree(names) == [names |-> names, slash |-> TRUE]

NameMatches(glob, name) == glob = "*" \/ glob = name

(* PurePosixPath.match: name by name, from the right. *)
PathMatches(path, names) ==
  LET above == Len(path) - Len(names)
  IN  above >= 0 /\ \A i \in DOMAIN names : NameMatches(names[i], path[above + i])

(* One pattern of IgnoreRules.matches. *)
Suppresses_FilesOnly(pattern, path) ==
  IF pattern.slash
  THEN IsPrefix(pattern.names, path)
  ELSE PathMatches(path, pattern.names)

(* As fnmatch had it: a "*" at the end takes whole subtrees. *)
Suppresses_Spanning(pattern, path) ==
  IF pattern.slash
  THEN IsPrefix(pattern.names, path)
  ELSE \/ PathMatches(path, pattern.names) \/ IsStrictPrefix(pattern.names, path)
       \/ Last(pattern.names) = "*" /\ IsStrictPrefix(Front(pattern.names), path)

Suppresses(pattern, path) ==
  IF pattern.slash
  THEN IsPrefix(pattern.names, path)
  ELSE PathMatches(path, pattern.names) \/ IsStrictPrefix(pattern.names, path)

Ignored(rules, path) == \E pattern \in rules : Suppresses(pattern, path)

(* os.walk does not descend into the excluded directories. *)
Reached(path) == \A i \in 1..(Len(path) - 1) : path[i] \notin DefaultExcludes

Scanned(rules, path) ==
  Reached(path) /\ path # <<IgnoreFilename>> /\ ~Ignored(rules, path)
=============================================================================
