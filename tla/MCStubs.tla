------------------------------ MODULE MCStubs ------------------------------
(***************************************************************************)
(* The stubs build over either of two trees.  StubsTree is a stubs         *)
(* directory like the bundled one: files in nested directories, two        *)
(* "core.php" in different directories, a name with a space and capitals,  *)
(* files of other extensions (one of them "PHP" in capitals) and an empty  *)
(* directory.  In LinkTree the directory Loop holds a symlink back to      *)
(* itself (a cycle) and the root a dangling symlink named like a stub.     *)
(***************************************************************************)
EXTENDS Integers, Sequences, FiniteSets, TLC, Stubs

S(cs) == <<"stubs">> \o cs

StubsTree ==
  [q \in {S(<<>>), S(<<"Standard">>), S(<<"empty">>)} |-> "dir"]
  @@ [q \in {S(<<"core.php">>), S(<<"Standard", "core.php">>),
             S(<<"Standard", "Str Funcs.php">>), S(<<"README.md">>),
             S(<<"X.PHP">>)} |-> "file"]

LinkTree ==
  [q \in {S(<<>>), S(<<"Loop">>)} |-> "dir"]
  @@ [q \in {S(<<"core.php">>), S(<<"Loop", "core.php">>)} |-> "file"]
  @@ [q \in {S(<<"Loop", "up">>), S(<<"gone.php">>)} |-> "symlink"]

MCTarget == (S(<<"Loop", "up">>) :> S(<<"Loop">>)) @@ (S(<<"gone.php">>) :> S(<<"old.php">>))

MCExtOf ==
  [c \in {"Standard", "empty", "up", "Loop"} |-> ""]
  @@ [c \in {"core.php", "Str Funcs.php", "gone.php"} |-> "php"]
  @@ ("README.md" :> "md") @@ ("X.PHP" :> "PHP")

MCSimplify ==
  [c \in {"core.php", "empty", "up", "gone.php"} |-> c]
  @@ ("Standard" :> "standard") @@ ("Loop" :> "loop") @@ ("Str Funcs.php" :> "str-funcs.php")

\* The regular files below stubs whose extension is exactly "php".
PhpFiles ==
  { f \in DOMAIN fs : fs[f] = "file" /\ ExtOf[f[Len(f)]] = "php" }

MCTrees == {StubsTree, LinkTree}

TypeOK ==
  /\ fs \in Trees
  /\ status \in {"walk", "write", "done", "err", "panic"}
  /\ \A i \in DOMAIN stack : stack[i].pending \subseteq ReadDirNames(stack[i].dir)
  /\ \A i \in DOMAIN stubsMap : stubsMap[i].name[1] = "@stubs"
  /\ status = "walk" => stack # <<>>
  /\ status \in {"write", "done", "panic"} => stack = <<>>

(***************************************************************************)
(* A build of the tree without symlinks that succeeds lists every          *)
(* regular file of extension "php" under stubs exactly once, whatever      *)
(* order read_dir yields the entries in, and no two entries of PHP_STUBS   *)
(* share a name (the name is what source.rs inserts the stub under).  It   *)
(* depends on collect_files stripping the stubs root, not the directory    *)
(* being read, from each path.                                             *)
(***************************************************************************)
StubsListedOnce ==
  status = "done" /\ fs = StubsTree =>
    /\ { stubsMap[i].include : i \in DOMAIN stubsMap } = PhpFiles
    /\ \A i, j \in DOMAIN stubsMap :
         i # j => /\ stubsMap[i].include # stubsMap[j].include
                  /\ stubsMap[i].name # stubsMap[j].name

=============================================================================
