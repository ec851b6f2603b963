------------------------------- MODULE Stubs -------------------------------
(***************************************************************************)
(* The build script (build.rs) that bundles the PHP stubs: collect_files   *)
(* walks the "stubs" directory depth first and lists every file whose      *)
(* extension is exactly "php" as (name, include path); main then writes    *)
(* the PHP_STUBS table that source.rs inserts as built-in sources.         *)
(*                                                                         *)
(* The recursion is a stack of frames, one per open read_dir iterator.     *)
(* read_dir yields entries in an order the platform chooses, so each step  *)
(* takes any entry the top frame has not yielded yet.  Paths are sequences *)
(* of components relative to the crate directory; is_dir() and             *)
(* canonicalize() follow symbolic links, and the operating system gives up *)
(* after MaxLinks of them (ELOOP), which is what bounds a symlink cycle.   *)
(***************************************************************************)
EXTENDS Integers, Sequences, FiniteSets

CONSTANTS
  Trees,     \* the trees the crate may be built from: path -> "file",
             \* "dir" or "symlink"
  Target,    \* symlink path -> the path it points to
  ExtOf,     \* Path::extension of a last component ("" for none)
  Simplify,  \* a component lowercased with spaces replaced by "-"
  MaxLinks   \* symbolic links followed in one resolution before ELOOP

VARIABLES
  fs,        \* the tree this build reads (it does not change during it)
  stack,     \* open read_dir iterators: <<[dir, pending]>>, top last
  stubsMap,  \* stubs_map: <<[name, include]>> in push order
  status     \* "walk", "write", "done", "err" (an io::Error) or "panic"

stubVars == <<fs, stack, stubsMap, status>>

StubsDir == <<"stubs">>

(***************************************************************************)
(* Path resolution.  Resolve follows every symlink on the way; its result  *)
(* is [ok, p]: ok is FALSE when a component is missing or when more than   *)
(* MaxLinks links had to be followed.                                      *)
(***************************************************************************)
RECURSIVE ResolveFrom(_, _, _)
ResolveFrom(done, rest, fuel) ==
  IF rest = <<>> THEN [ok |-> TRUE, p |-> done]
  ELSE LET q == done \o <<Head(rest)>>
       IN IF q \notin DOMAIN fs THEN [ok |-> FALSE, p |-> q]
          ELSE IF fs[q] # "symlink" THEN ResolveFrom(q, Tail(rest), fuel)
          ELSE IF fuel = 0 THEN [ok |-> FALSE, p |-> q]
          ELSE ResolveFrom(<<>>, Target[q] \o Tail(rest), fuel - 1)

Canonicalize(p) == ResolveFrom(<<>>, p, MaxLinks)

Exists(p) == Canonicalize(p).ok

\* Path::is_dir: false on any resolution error.
IsDir(p) == Canonicalize(p).ok /\ fs[Canonicalize(p).p] = "dir"

\* The names fs::read_dir(dir) yields, from the directory dir resolves to.
ReadDirNames(dir) ==
  LET d == Canonicalize(dir).p
  IN { q[Len(q)] : q \in { q \in DOMAIN fs : Len(q) = Len(d) + 1
                                           /\ SubSeq(q, 1, Len(d)) = d } }

\* A plausible bug: the name taken from the file name alone, as if the
\* prefix stripped were the directory being read.
StubNameFromDir(root, path) == <<"@stubs", Simplify[path[Len(path)]]>>

\* The stub name: "@" and "stubs" then every component of the path with
\* the root stripped, simplified (lines 28, 59-67, 73).
StubName(root, path) ==
  <<"@stubs">> \o [i \in 1..(Len(path) - Len(root)) |-> Simplify[path[Len(root) + i]]]

(***************************************************************************)
(* main: the stubs directory must exist (lines 16-18), then collect_files  *)
(* is called on it (line 22), which opens its first read_dir.              *)
(***************************************************************************)
Init ==
  /\ fs \in Trees
  /\ stubsMap = <<>>
  /\ IF Exists(StubsDir)
     THEN /\ stack = << [dir |-> StubsDir, pending |-> ReadDirNames(StubsDir)] >>
          /\ status = "walk"
     ELSE /\ stack = <<>>
          /\ status = "panic"

(***************************************************************************)
(* One iteration of the loop of collect_files (lines 49-75) on the entry   *)
(* read_dir yields next: a directory (symlinks followed) is walked by a    *)
(* recursive call, which opens its read_dir; a file whose extension is     *)
(* exactly "php" is pushed with its simplified name and canonical path,    *)
(* and a failing canonicalize aborts the build through `?`; anything else  *)
(* is skipped.                                                             *)
(***************************************************************************)
Visit ==
  /\ status = "walk"
  /\ stack # <<>>
  /\ LET top == stack[Len(stack)]
     IN \E n \in top.pending :
          LET path   == top.dir \o <<n>>
              popped == [stack EXCEPT ![Len(stack)].pending = @ \ {n}]
          IN IF IsDir(path)
             THEN /\ stack' = Append(popped, [dir |-> path, pending |-> ReadDirNames(path)])
                  /\ UNCHANGED <<fs, stubsMap, status>>
             ELSE IF ExtOf[n] # "php" THEN /\ stack' = popped
                                            /\ UNCHANGED <<fs, stubsMap, status>>
             ELSE IF ~Canonicalize(path).ok THEN /\ status' = "err"
                                                  /\ UNCHANGED <<fs, stack, stubsMap>>
             ELSE /\ stack' = popped
                  /\ stubsMap' = Append(stubsMap,
                                   [name    |-> StubName(StubsDir, path),
                                    include |-> Canonicalize(path).p])
                  /\ UNCHANGED <<fs, status>>

\* A plausible bug: the outermost return does not hand over to main.
ReturnKeepsWalking ==
  /\ status = "walk"
  /\ stack # <<>>
  /\ stack[Len(stack)].pending = {}
  /\ stack' = SubSeq(stack, 1, Len(stack) - 1)
  /\ UNCHANGED <<fs, stubsMap, status>>

\* A read_dir iterator is exhausted: collect_files returns Ok to its caller
\* (line 77); when it was the outermost call, main goes on to write.
Return ==
  /\ status = "walk"
  /\ stack # <<>>
  /\ stack[Len(stack)].pending = {}
  /\ stack' = SubSeq(stack, 1, Len(stack) - 1)
  /\ status' = IF Len(stack) = 1 THEN "write" ELSE "walk"
  /\ UNCHANGED <<fs, stubsMap>>

\* Lines 25-43: the table is formatted and written to OUT_DIR; creating or
\* writing the file may fail, and `?` returns the error.
WriteMap ==
  /\ status = "write"
  /\ status' \in {"done", "err"}
  /\ UNCHANGED <<fs, stack, stubsMap>>

\* The build script has exited.
Exited ==
  /\ status \in {"done", "err", "panic"}
  /\ UNCHANGED stubVars

StubsNext == Visit \/ Return \/ WriteMap \/ Exited

\* The build script is one sequential process that runs to its end.
StubsSpec == Init /\ [][StubsNext]_stubVars /\ WF_stubVars(Visit \/ Return \/ WriteMap)

=============================================================================
