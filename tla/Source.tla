------------------------------ MODULE Source ------------------------------
(***************************************************************************)
(* Source discovery (src/source.rs): the three entry points load,          *)
(* from_paths and from_modified_files, the sequential walk of every        *)
(* starting path (add_path_to_manager, one awaited WalkDir stream at a     *)
(* time) and the per-file filters of add_file_to_manager.                  *)
(*                                                                         *)
(* A path is a sequence of components; an absolute one starts with "/".    *)
(* Path::starts_with and strip_prefix work component-wise, so they are     *)
(* IsPrefix and SubSeq here.  The file system fs maps absolute paths to    *)
(* their kind; other processes may remove entries while a load runs        *)
(* (RemovePath), which is what makes the walk's checks racy.               *)
(***************************************************************************)
EXTENDS Integers, Sequences, FiniteSets
LOCAL INSTANCE SequencesExt

CONSTANTS
  Root,         \* configuration.root, an absolute path
  Paths,        \* configuration.paths (a sequence of paths)
  Includes,     \* configuration.includes (a sequence of paths)
  Excludes,     \* configuration.excludes: each a sequence of components
  Extensions,   \* configuration.extensions
  ArgPaths,     \* the paths given to from_paths
  GitModified,  \* the lines `git diff --name-only` prints in a work tree
  GitStates,    \* where git may be run: "work_tree", "git_dir" (inside
                \* .git), "outside" (no repository) or "missing" (no git)
  Stubs,        \* the names of PHP_STUBS
  FS0,          \* the file system when loading starts: path -> kind
  ExtOf,        \* Path::extension of a last component ("" for none)
  LowerExt,     \* ASCII lower case of each extension
  MaxRemovals   \* bound on concurrent removals by other processes

VARIABLES
  fs,        \* the file system: absolute path -> "file", "dir", "symlink"
  git,       \* the one of GitStates the process runs in
  entry,     \* the entry point called
  externals, \* include_externals
  stubs,     \* include_stubs
  excludes,  \* the excludes set built by the entry point
  includes,  \* the includes slice handed to add_path_to_manager
  starting,  \* starting paths not yet added: <<[path, user]>>
  phase,     \* "paths", "checked" (head of starting passed the exists
             \* and symlink checks), "walk", "done", "failed" (an Err
             \* returned) or "panic"
  user,      \* user_defined of the path being walked
  dirs,      \* directories the WalkDir stream has still to read
  listed,    \* entries read but not yet yielded: [path, kind]
  manager,   \* the SourceManager: <<[name, path, cat]>> in insertion order
  removals   \* removals done so far by other processes

srcVars == <<fs, git, entry, externals, stubs, excludes, includes, starting,
             phase, user, dirs, listed, manager, removals>>

IsAbsolute(p) == Len(p) > 0 /\ p[1] = "/"

\* A relative path is resolved against the working directory, which is
\* taken to be the root (mago is run from the project root).
Resolve(p) == IF IsAbsolute(p) THEN p ELSE Root \o p

Kind(p) == IF Resolve(p) \in DOMAIN fs THEN fs[Resolve(p)] ELSE "missing"

\* Path::starts_with: whole components, no normalisation.
StartsWith(p, q) == IsPrefix(q, p)

\* The names of the entries read_dir returns for directory d.
ChildNames(d) ==
  { Last(q) : q \in { q \in DOMAIN fs : Len(q) = Len(Resolve(d)) + 1
                                       /\ IsPrefix(Resolve(d), q) } }

Wildcards == {"*", "**"}

\* glob_match on the rendered path, for patterns whose wildcards are whole
\* components: "*" is one component, "**" any number of them.
RECURSIVE Glob(_, _)
Glob(pat, p) ==
  IF pat = <<>> THEN p = <<>>
  ELSE IF Head(pat) = "**"
       THEN Glob(Tail(pat), p) \/ (p # <<>> /\ Glob(pat, Tail(p)))
       ELSE /\ p # <<>>
            /\ Head(pat) \in {"*", Head(p)}
            /\ Glob(Tail(pat), Tail(p))

\* create_excludes_set: a wildcard makes a pattern, otherwise a path
\* joined onto the root unless it is absolute.
CreateExcludesSet(ex, root) ==
  { IF \E i \in DOMAIN e : e[i] \in Wildcards
      THEN [kind |-> "pattern", p |-> e]
      ELSE [kind |-> "path", p |-> IF IsAbsolute(e) THEN e ELSE root \o e]
  : e \in ex }

Matches(path, x) ==
  \/ x.kind = "path" /\ StartsWith(path, x.p)
  \/ x.kind = "pattern" /\ Glob(x.p, path)

\* A plausible bug: an early return on the first exclusion of the set.
IsExcludedFirstOnly(path, ex) ==
  ex # {} /\ Matches(path, CHOOSE x \in ex : TRUE)

\* is_excluded: `return match { .. => true, _ => continue }` returns only
\* on a match, so any matching exclusion excludes.
IsExcluded(path, ex) == \E x \in ex : Matches(path, x)

\* is_accepted_file: "php" ignoring case when no extension is configured,
\* an exact member of the configured set otherwise.
IsAcceptedFile(path, exts) ==
  LET x == ExtOf[Last(path)]
  IN IF exts = {} THEN x # "" /\ LowerExt[x] = "php" ELSE x \in exts

\* A plausible bug: the user-defined source under an include is kept.
AddFileIgnoringIncludes(m, path, u) ==
  IF \/ IsExcluded(path, excludes)
     \/ Kind(path) = "file" /\ ~IsAcceptedFile(path, Extensions)
  THEN m
  ELSE Append(m, [name |-> IF StartsWith(path, Root)
                             THEN SubSeq(path, Len(Root) + 1, Len(path))
                             ELSE path,
                  path |-> path,
                  cat  |-> IF u THEN "UserDefined" ELSE "External"])

\* add_file_to_manager: the manager after the call.  The extension check
\* only applies to what is_file() reports as a regular file right now.
AddFileToManager(m, path, u) ==
  IF \/ u /\ \E i \in DOMAIN includes : StartsWith(path, includes[i])
     \/ IsExcluded(path, excludes)
     \/ Kind(path) = "file" /\ ~IsAcceptedFile(path, Extensions)
  THEN m
  ELSE Append(m, [name |-> IF StartsWith(path, Root)
                             THEN SubSeq(path, Len(Root) + 1, Len(path))
                             ELSE path,
                  path |-> path,
                  cat  |-> IF u THEN "UserDefined" ELSE "External"])

(***************************************************************************)
(* Entry points.  Each builds the list of starting paths and the filters   *)
(* that add_path_to_manager will use.                                      *)
(***************************************************************************)
AsStarting(ps, u) == [i \in DOMAIN ps |-> [path |-> ps[i], user |-> u]]

\* load: the configured paths (or the root), then the includes as
\* externals when asked for.
LoadInit(paths) ==
  /\ starting = (IF paths = <<>> THEN AsStarting(<<Root>>, TRUE)
                                 ELSE AsStarting(paths, TRUE))
                \o (IF externals THEN AsStarting(Includes, FALSE) ELSE <<>>)
  /\ excludes = CreateExcludesSet(Excludes, Root)
  /\ includes = Includes
  /\ phase = "paths"

\* from_paths: user-defined paths with no includes and no excludes.
FromPathsInit ==
  /\ starting = AsStarting(ArgPaths, TRUE)
  /\ excludes = {}
  /\ includes = <<>>
  /\ phase = "paths"

(***************************************************************************)
(* The git commands.  What each prints depends only on where it runs:      *)
(* `rev-parse --is-inside-work-tree` prints "true" in a work tree and      *)
(* "false" inside .git, and fails outside a repository; `diff --name-only` *)
(* prints the modified paths in a work tree and nothing (stderr is null)   *)
(* elsewhere.  Where git is missing, spawning either fails.                *)
(***************************************************************************)
RevParse ==
  [work_tree |-> [ok |-> TRUE, out |-> "true"],
   git_dir   |-> [ok |-> TRUE, out |-> "false"],
   outside   |-> [ok |-> FALSE, out |-> ""]]

DiffStdout(g) == IF g = "work_tree" THEN GitModified ELSE <<>>

\* is_git_available: the command spawned, exited with success and printed
\* "true" (trimmed, ignoring case).
IsGitAvailable(g) == g # "missing" /\ RevParse[g].ok /\ RevParse[g].out = "true"

\* git_modified_files: `expect` panics when git cannot be spawned; otherwise
\* every line of stdout becomes a path, whatever the exit status.
GitModifiedFiles(g) ==
  IF g = "missing" THEN [panics |-> TRUE, paths |-> <<>>]
  ELSE [panics |-> FALSE, paths |-> DiffStdout(g)]

\* from_modified_files: no repository check of its own; an empty diff
\* returns an empty manager at once, otherwise load runs with the diff as
\* its paths.
FromModifiedFilesInit ==
  LET r == GitModifiedFiles(git)
  IN IF r.panics \/ r.paths = <<>>
     THEN /\ starting = <<>> /\ excludes = {} /\ includes = <<>>
          /\ phase = IF r.panics THEN "panic" ELSE "done"
     ELSE LoadInit(r.paths)

Init ==
  /\ fs = FS0
  /\ externals \in BOOLEAN
  /\ stubs \in BOOLEAN
  /\ entry \in {"load", "from_paths", "from_modified_files"}
  /\ git \in GitStates
  /\ CASE entry = "load"       -> LoadInit(Paths)
       [] entry = "from_paths" -> FromPathsInit
       [] OTHER                -> FromModifiedFilesInit
  /\ user = TRUE
  /\ dirs = {}
  /\ listed = {}
  /\ manager = <<>>
  /\ removals = 0

(***************************************************************************)
(* add_path_to_manager, one awaited call per starting path.  Its checks    *)
(* are separate system calls, so another process may act between them:     *)
(* CheckPath is exists()/is_symlink() and AddPathToManager is is_dir()     *)
(* with the branch it selects.                                             *)
(***************************************************************************)
\* Lines 217-219: a missing path or a symlink is skipped at once.
CheckPath ==
  /\ phase = "paths"
  /\ starting # <<>>
  /\ IF Kind(Head(starting).path) \in {"missing", "symlink"}
     THEN /\ starting' = Tail(starting)
          /\ UNCHANGED phase
     ELSE /\ phase' = "checked"
          /\ UNCHANGED starting
  /\ UNCHANGED <<fs, git, entry, externals, stubs, excludes, includes, user,
                 dirs, listed, manager, removals>>

\* Lines 221-229: what is_dir() reports now decides: a non-directory goes
\* to add_file_to_manager, a directory starts a WalkDir stream.
AddPathToManager ==
  /\ phase = "checked"
  /\ LET s == Head(starting) IN
     /\ starting' = Tail(starting)
     /\ IF Kind(s.path) # "dir"
        THEN /\ manager' = AddFileToManager(manager, s.path, s.user)
             /\ phase' = "paths"
             /\ UNCHANGED <<user, dirs>>
        ELSE /\ phase' = "walk"
             /\ dirs' = {s.path}
             /\ user' = s.user
             /\ UNCHANGED manager
  /\ UNCHANGED <<fs, git, entry, externals, stubs, excludes, includes, listed, removals>>

\* A plausible bug: the error entry of a directory that is gone ends the
\* walk quietly, as `while let Some(Ok(entry))` would, and the load
\* returns Ok.
ReadDirErrorEndsWalk ==
  /\ phase = "walk"
  /\ \E d \in dirs :
       IF Kind(d) # "dir"
       THEN /\ phase' = "paths" /\ dirs' = {} /\ listed' = {}
       ELSE /\ listed' = listed \cup
                 { [path |-> d \o <<c>>, kind |-> fs[Resolve(d) \o <<c>>]]
                   : c \in ChildNames(d) }
            /\ dirs' = dirs \ {d}
            /\ UNCHANGED phase
  /\ UNCHANGED <<fs, git, entry, externals, stubs, excludes, includes, starting,
                 user, manager, removals>>

\* The WalkDir stream reads a pending directory.  A directory that is gone
\* yields an error entry, and `entry?` makes the whole load fail.
ReadDir ==
  /\ phase = "walk"
  /\ \E d \in dirs :
       IF Kind(d) # "dir"
       THEN /\ phase' = "failed" /\ UNCHANGED <<dirs, listed>>
       ELSE /\ listed' = listed \cup
                 { [path |-> d \o <<c>>, kind |-> fs[Resolve(d) \o <<c>>]]
                   : c \in ChildNames(d) }
            /\ dirs' = dirs \ {d}
            /\ UNCHANGED phase
  /\ UNCHANGED <<fs, git, entry, externals, stubs, excludes, includes, starting,
                 user, manager, removals>>

\* Lines 227-238 for one entry: the filter ignores a path starting with the
\* component "." together with its subtree; a yielded directory is read
\* later; the loop skips directories and symlinks (as they are now) and
\* hands everything else to add_file_to_manager.
NextEntry ==
  /\ phase = "walk"
  /\ \E e \in listed :
       /\ listed' = listed \ {e}
       /\ IF StartsWith(e.path, <<".">>)
          THEN UNCHANGED <<dirs, manager>>
          ELSE /\ dirs' = IF e.kind = "dir" THEN dirs \cup {e.path} ELSE dirs
               /\ manager' = IF Kind(e.path) \in {"dir", "symlink"} THEN manager
                             ELSE AddFileToManager(manager, e.path, user)
  /\ UNCHANGED <<fs, git, entry, externals, stubs, excludes, includes, starting,
                 phase, user, removals>>

\* A plausible bug: the stream taken as ended once no directory is left to
\* read, with entries still to yield.
WalkDoneEarly ==
  /\ phase = "walk"
  /\ dirs = {}
  /\ phase' = "paths"
  /\ UNCHANGED <<fs, git, entry, externals, stubs, excludes, includes, starting,
                 user, dirs, listed, manager, removals>>

\* The stream is exhausted: add_path_to_manager returns Ok.
WalkDone ==
  /\ phase = "walk"
  /\ dirs = {} /\ listed = {}
  /\ phase' = "paths"
  /\ UNCHANGED <<fs, git, entry, externals, stubs, excludes, includes, starting,
                 user, dirs, listed, manager, removals>>

\* Lines 198-204 (and 52-58): every stub is inserted as built-in.
InsertStubs ==
  /\ phase = "paths"
  /\ starting = <<>>
  /\ phase' = "done"
  /\ manager' = manager \o (IF stubs
                            THEN SetToSeq({[name |-> s, path |-> <<>>, cat |-> "BuiltIn"]
                                           : s \in Stubs})
                            ELSE <<>>)
  /\ UNCHANGED <<fs, git, entry, externals, stubs, excludes, includes, starting,
                 user, dirs, listed, removals>>

\* Another process removes a path, with its subtree, while a load runs.
RemovePath ==
  /\ removals < MaxRemovals
  /\ phase \in {"paths", "checked", "walk"}
  /\ \E p \in DOMAIN fs \ {Root} :
       /\ fs' = [q \in {q \in DOMAIN fs : ~IsPrefix(p, q)} |-> fs[q]]
       /\ removals' = removals + 1
  /\ UNCHANGED <<git, entry, externals, stubs, excludes, includes, starting,
                 phase, user, dirs, listed, manager>>

\* The call has returned (Ok or Err).
Returned ==
  /\ phase \in {"done", "failed", "panic"}
  /\ UNCHANGED srcVars

SourceNext ==
  \/ CheckPath \/ AddPathToManager \/ ReadDir \/ NextEntry \/ WalkDone
  \/ InsertStubs \/ RemovePath \/ Returned

\* The load is one task that runs its awaits to completion.
SourceFairness ==
  WF_srcVars(CheckPath \/ AddPathToManager \/ ReadDir \/ NextEntry \/ WalkDone \/ InsertStubs)

SourceSpec == Init /\ [][SourceNext]_srcVars /\ SourceFairness

=============================================================================
