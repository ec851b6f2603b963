------------------------------ MODULE MCSource ------------------------------
(***************************************************************************)
(* Source discovery over a small project tree rooted at /p:                *)
(*   src/{a.php, b.txt, C.PHP}   user code, one file of another extension, *)
(*                               one with an upper-case extension          *)
(*   vendor/v.php                an include (external sources)             *)
(*   cache/k.php                 excluded by the path "cache"              *)
(*   gen/g.php                   excluded by the pattern "**/gen/*"        *)
(*   .git/h.php                  under a hidden directory                  *)
(*   link                        a symlink                                 *)
(* Every entry point is explored, with and without externals and stubs;    *)
(* MaxRemovals lets another process remove any path at any point.          *)
(***************************************************************************)
EXTENDS Integers, Sequences, FiniteSets, TLC, Source
LOCAL INSTANCE SequencesExt

P(cs) == <<"/", "p">> \o cs

MCRoot == <<"/", "p">>

\* No configured paths: load walks the root.
MCPaths == <<>>

\* Configured paths: only the src directory.
MCPathsSrc == << P(<<"src">>) >>

MCFS0 ==
  [q \in {P(<<>>), P(<<"src">>), P(<<"vendor">>), P(<<"cache">>),
          P(<<"gen">>), P(<<".git">>)} |-> "dir"]
  @@ [q \in {P(<<"src", "a.php">>), P(<<"src", "b.txt">>),
             P(<<"src", "C.PHP">>), P(<<"vendor", "v.php">>),
             P(<<"cache", "k.php">>), P(<<"gen", "g.php">>),
             P(<<".git", "h.php">>)} |-> "file"]
  @@ (P(<<"link">>) :> "symlink")

MCIncludes == << P(<<"vendor">>) >>

MCExcludes == { <<"cache">>, <<"**", "gen", "*">> }

MCArgPaths == << P(<<"src">>) >>

\* The diff lists paths relative to the repository top level.
MCGitModified == << <<"src", "a.php">> >>

\* A diff that touches an excluded file.
MCGitModifiedExcluded == << <<"cache", "k.php">> >>

MCStubs == {"@stubs/core.php"}

MCExtOf ==
  [c \in {"p", "src", "vendor", "cache", "gen", ".git", "link"} |-> ""]
  @@ [c \in {"a.php", "v.php", "k.php", "g.php", "h.php"} |-> "php"]
  @@ ("b.txt" :> "txt") @@ ("C.PHP" :> "PHP")

MCLowerExt == ("php" :> "php") @@ ("PHP" :> "php") @@ ("txt" :> "txt")

Sources == SelectSeq(manager, LAMBDA s : s.cat # "BuiltIn")

(***************************************************************************)
(* What an entry point promises, from the initial tree alone: the regular  *)
(* files below its starting paths that pass its filters.  A file under an  *)
(* include is loaded once, as an external, and only with externals.  An    *)
(* empty diff loads nothing at all.                                        *)
(***************************************************************************)
EntryPaths ==
  CASE entry = "load"       -> IF Paths = <<>> THEN <<Root>> ELSE Paths
    [] entry = "from_paths" -> ArgPaths
    [] OTHER                -> DiffStdout(git)

\* What a configured exclusion means: a pattern when it has a wildcard,
\* otherwise a path relative to the root (or absolute).
ExcludedByConfig(f) ==
  \E e \in Excludes :
    IF \E i \in DOMAIN e : e[i] \in Wildcards THEN Glob(e, f)
    ELSE IsPrefix(Resolve(e), f)

UnderInclude(f) == \E i \in DOMAIN Includes : IsPrefix(Resolve(Includes[i]), f)

\* An empty diff makes from_modified_files return an empty manager.
Expected ==
  IF entry = "from_modified_files" /\ DiffStdout(git) = <<>> THEN {} ELSE
  { f \in DOMAIN FS0 :
      /\ FS0[f] = "file"
      /\ IsAcceptedFile(f, Extensions)
      /\ entry # "from_paths" => ~ExcludedByConfig(f)
      /\ IF entry # "from_paths" /\ UnderInclude(f)
           THEN externals
           ELSE \E i \in DOMAIN EntryPaths : IsPrefix(Resolve(EntryPaths[i]), f) }

ExpectedCat(f) ==
  IF entry # "from_paths" /\ UnderInclude(f) THEN "External" ELSE "UserDefined"

TypeOK ==
  /\ phase \in {"paths", "checked", "walk", "done", "failed", "panic"}
  /\ git \in GitStates
  /\ entry \in {"load", "from_paths", "from_modified_files"}
  /\ DOMAIN fs \subseteq DOMAIN FS0
  /\ \A i \in DOMAIN manager :
       manager[i].cat \in {"UserDefined", "External", "BuiltIn"}
  /\ \A e \in listed : e.kind \in {"file", "dir", "symlink"}
  /\ removals \in 0..MaxRemovals
  /\ phase \in {"paths", "checked", "done"} => dirs = {} /\ listed = {}

\* add_file_to_manager never inserts a source that a configured exclusion
\* covers, whichever exclusion of the set matches (is_excluded's loop) and
\* however the starting path was written; from_paths ignores excludes.
ExcludedNeverLoaded ==
  entry # "from_paths" =>
    \A i \in DOMAIN Sources :
      ~ExcludedByConfig(Resolve(Sources[i].path))

\* When a load returns Ok and nothing changed the tree meanwhile, the walk
\* of every starting path and the filters of add_file_to_manager together
\* insert each expected file exactly once, with the right category, and no
\* two sources share a name.
LoadedOnce ==
  phase = "done" /\ removals = 0 =>
    /\ { Resolve(Sources[i].path) : i \in DOMAIN Sources } = Expected
    /\ \A i, j \in DOMAIN Sources :
         /\ i # j => Sources[i].name # Sources[j].name
         /\ Sources[i].cat = ExpectedCat(Resolve(Sources[i].path))

\* A load that returns Ok while another process removes files has still
\* loaded every expected file that exists when it returns: the walk's
\* error entry for a directory removed under it fails the load through
\* `entry?` (source.rs lines 231-232) rather than ending the walk early.
SurvivorsLoaded ==
  phase = "done" =>
    \A f \in Expected :
      f \in DOMAIN fs => f \in { Resolve(Sources[i].path) : i \in DOMAIN Sources }

(***************************************************************************)
(* The doc comment of from_modified_files (lines 63 and 79-83): it checks  *)
(* that the current directory is a Git repository and returns an error     *)
(* when it is not, or when git is not available or fails.  So where        *)
(* is_git_available would say no, the call never returns Ok and never      *)
(* panics.                                                                 *)
(***************************************************************************)
GitFailureIsErr ==
  entry = "from_modified_files" /\ ~IsGitAvailable(git)
    => phase \notin {"done", "panic"}

\* Line 263 says files that do not have an accepted extension are skipped.
OnlyAcceptedFilesLoaded ==
  \A i \in DOMAIN Sources : IsAcceptedFile(Sources[i].path, Extensions)

=============================================================================
