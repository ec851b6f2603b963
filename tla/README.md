# TLA+ models of mago's formatter lowering, source discovery and stub bundling

This directory holds TLA+ modules and TLC configurations for three parts of the
repository under `src/`:

- **The formatter's lowering code** turns AST nodes into the Document IR.
  - `crates/formatter/src/format/block.rs`: brace-delimited bodies.
  - `crates/formatter/src/format/call.rs`: method-call chains.
  - `crates/formatter/src/format/parameters.rs`: function-like parameter lists.
- **Source discovery** (`src/source.rs`) finds the files a mago command works on.
- **Stub bundling** (`build.rs`) collects the PHP stubs at build time into the
  `PHP_STUBS` table that source discovery inserts as built-in sources.

The layout engine turns a document into text. Its code is not under `src/`, so it
is modelled from `spec.md` section 4.5. Every lowering model is checked through it,
so the properties are about the printed text, not the IR.

## The system and how its parts interact

```
AST node ──(block.rs / call.rs / parameters.rs)──► Document ──(layout engine)──► lines of text
              │ asks the formatter context:
              │   parent/grandparent node, has_comment, is_next_line_empty,
              │   print_dangling_comments (comment index)
              │ reads settings: trailing_comma, break_promoted_properties_list,
              │   method_chain_breaking_style, argument_state.expand_first_argument

configuration ──(source.rs: load / from_paths / from_modified_files)──► SourceManager
              walks each starting path with an awaited WalkDir stream, filters each
              file (includes, excludes, extension), inserts it with a category,
              then (include_stubs) the PHP_STUBS entries as BuiltIn

stubs/ ──(build.rs: collect_files, depth first)──► PHP_STUBS = [(name, include_str!(path))]
```

The formatter is sequential within a file; spec section 5 says files are
formatted independently. Source discovery is one async task that awaits each walk
in turn. Its only concurrency is with other processes that change the tree while
it walks. The build script is a single sequential process.

## Modules

| Module | Models | State / shape |
|---|---|---|
| `Document` | The Document IR (spec 3). It also holds the pure parts of the engine: break propagation (`MustBreak`, `PropagateBreaks`) and `Fits` (spec 4.5). | Records with a variant field `k`. Text is abstracted to a token name and a width. |
| `Layout` | The render loop of spec 4.5 as a state machine. | `cmds` is the command stack of (depth, mode, doc). `out` is the lines written, each an indentation depth and tokens. `decisions` is the history of group modes. There is one action per document variant (`RenderString`, `RenderGroup`, `RenderLine`, ...). |
| `Comments` | `print_dangling_comments` (spec 4.2). | The comments of a span are a sequence of tokens. `has_comment` and `is_next_line_empty` are flags on the input nodes. |
| `Block` | `print_block_of_nodes`, `print_block` with its should-break table of parent and grandparent kinds, and `print_block_body`. An expression statement whose expression is a method call is printed through `Call` (`FormatNode` calls `FormatExpression`), so the block run checks the two lowering functions composed. | Operators from input to Document. |
| `Call` | `collect_method_call_chain`, `base_needs_parerns` and `print_method_call_chain`. | Operators. Expressions are records. |
| `Parameters` | `should_hug_the_only_parameter` and `print_function_like_parameters`. | Operators. Parameters are records of the facts the code asks about them. |
| `Source` | `load`, `from_paths`, `from_modified_files` with `git_modified_files`, `is_git_available`, `add_path_to_manager` (the walk), `add_file_to_manager`, `create_excludes_set`, `is_excluded` and `is_accepted_file`. | See below. |
| `ParentStack` | The formatter context's parent stack (spec 4.3, not in src): `format()` pushes a node, dispatches to its formatter and pops on return. `ParentNode`/`GrandparentNode` are the queries print_block makes (block.rs 66, 75); `PrintBlockShouldBreak` is print_block's decision made through them. | `ast` (node id -> kind; a node id is the path of child positions from the root). `calls` is the format() recursion, frames [node, next child]. `parents` is the context's own stack. `decisions` maps each Block to its should_break. Actions `Dispatch` (push, descend), `Return` (decide a Block, pop), `Finished`. |
| `Stubs` | `main` and `collect_files` of build.rs. | `fs` is the stub tree (fixed during a build). `stack` holds one frame per open `read_dir` iterator: the directory and the names it has not yielded yet. `stubsMap` is the table built so far. `status` is walk, write, done, err or panic. |
| `MCParameters`, `MCBlock`, `MCCall` | Each picks one input in `Init` (AST shape, settings, context), lowers it with the module under test, and renders it with `Layout`. | `input` plus the `Layout` variables. |
| `MCSource` | A small project tree, the configuration, and the reference definitions the properties compare against. | The `Source` variables. |
| `MCParentStack` | 200 small ASTs built from construct chains, and what the comments beside print_block's match say each empty body should do (`Owner`, `Commented`). | The `ParentStack` variables. |
| `MCStubs` | Two stub trees and the reference set of stubs. | The `Stubs` variables. |

How the model corresponds to the code:

- **Lowering modules.** Each function of block.rs, call.rs and parameters.rs is
  one operator with the same name in CamelCase. A `LET` or a helper stands for
  each local variable or loop of the code:
  - `Separated` is the loop of block.rs lines 24-34.
  - `PrintedParameters` is the loop of parameters.rs lines 51-70.
  - `CollectCalls` is the `while let` of call.rs lines 21-37.
  - Early returns become the alternatives of an `IF`.
- **Document constructors.** `Str`, `Line`, `Indent`, `Group`, `IfBreak`,
  `BreakParent` and `Array` are the smart constructors the code calls.
- **Source state.** `fs` is the file system, a map from absolute paths to kinds.
  `starting` is the list of starting paths still to add. `phase` is one of
  paths, checked, walk, done, failed (an Err returned) or panic; "checked" means the head of `starting`
  has passed `exists()` and `is_symlink()`. `dirs` and `listed` are the WalkDir stream: the
  directories it has still to read and the entries it has read but not yet
  yielded. `manager` is the SourceManager, as insertion records [name, path,
  category]. `git` is where the process runs as git sees it: in a work tree,
  inside `.git`, outside any repository, or with git not installed. It is
  chosen in `Init` and fixed.
- **git.** `DiffStdout(git)` is what `git --no-pager diff --name-only` prints
  (the modified files in a work tree, nothing anywhere else, since stderr is
  discarded and the exit status never read). `GitModifiedFiles` is
  git_modified_files: a panic through `expect` when git cannot be spawned,
  else the stdout lines as paths. `RevParse` and `IsGitAvailable` are
  is_git_available (`rev-parse --is-inside-work-tree` succeeding and printing
  "true"). `FromModifiedFilesInit` is from_modified_files: an empty list
  returns an empty manager, anything else goes to load.
- **Source actions.**
  - `CheckPath` is source.rs lines 217-219 for one starting path: a missing
    path or a symlink is dropped.
  - `AddPathToManager` is lines 221-229: what `is_dir()` says now picks the
    file branch or starts the walk. The two are separate steps because the
    checks are separate system calls, so `RemovePath` can act between them.
  - `ReadDir` is the stream reading one directory. A directory that has gone
    yields an error, which `entry?` (line 232) turns into a failed load.
  - `NextEntry` is one iteration of the loop at lines 227-238: the hidden filter,
    the check that skips directories and symlinks, then `add_file_to_manager`.
  - `WalkDone` is the stream ending.
  - `InsertStubs` is lines 198-204.
  - `RemovePath` is another process removing a path and its subtree. It is
    bounded by `MaxRemovals`.
- **Stubs actions.**
  - `Init` is `main` up to the first call of `collect_files` (lines 7-22): it
    panics when `stubs` does not exist, else opens the root's `read_dir`.
  - `Visit` is one iteration of the loop at lines 49-75 on any entry the top
    frame has not yielded (read_dir's order is the platform's). A directory,
    symlinks followed, pushes a frame (the recursive call). A file whose
    extension is exactly `php` is pushed with `StubName` (the path with the
    stubs root stripped, each component simplified) and its canonical path; a
    failing `canonicalize` is an error through `?`. Anything else is skipped.
  - `Return` pops an exhausted frame (line 77); the outermost return hands over
    to `WriteMap`, lines 24-43, which writes the table or fails.
  - `Canonicalize` follows symlinks up to `MaxLinks` of them, the operating
    system's ELOOP limit; `IsDir` is false when resolution fails.
- **Paths.** A path is a sequence of components, and an absolute path starts
  with "/". `Path::starts_with` is `IsPrefix` and `strip_prefix` is `SubSeq`,
  because both work on whole components. `glob_match` is modelled (`Glob`) for
  patterns whose wildcards are whole components: `*` matches one component and
  `**` any number.

## Runs

| Run | Result | What it shows |
|---|---|---|
| `parameters` (MCParameters.cfg) | pass | See below. |
| `parameters_width_p2` | **violation** | Spec P2 fails for a hugged parameter (finding below). |
| `block` (MCBlock.cfg) | pass | See below. |
| `block_line_comment` | **violation** | A dangling `//` comment is followed by `}` on its line (finding). |
| `call` (MCCall.cfg) | pass | See below. |
| `parent_stack` (MCParentStack.cfg) | **violation** | An empty closure body is not kept broken, although the comment says closures are (finding). |
| `source` (MCSource.cfg) | pass | See below. |
| `source_removal` | pass | See below. |
| `source_modified_excluded` | **violation** | from_modified_files loads an excluded file (finding). |
| `source_vanished_file` | **violation** | A path removed between its checks skips the extension filter (finding). |
| `stubs` (MCStubs.cfg) | pass | See below. |
| `source_git_unavailable` | **violation** | from_modified_files returns Ok, or panics, where its doc promises Err (finding). |

The passing runs check these properties:

- **`parameters`**
  - `TrailingCommaDiscipline` (spec P6): a trailing comma exactly when a
    non-empty list breaks with the setting on.
  - `PromotedListBreaks`: with break_promoted_properties_list set, each parameter
    of a list that has a promoted one is on a line of its own.
  - `WidthRespected`: no overflow when every parameter fits.
  - `ParametersPreserved` (P4): parameters and comments are printed once, in
    order.
- **`block`**
  - `BlankLinesPreserved`: one blank line per blank line in the source between
    children, and none elsewhere.
  - `BodyLayout`: the body is indented, each child starts a line of its own,
    a method chain in the body continues its links one level deeper, `}` is
    alone on the last line. One child shape is `$s->m1()->m2();`, lowered by
    call.rs inside block.rs's Indent: the hard lines of the chain must nest
    under the block's indentation.
  - `ContentPreserved` (P4).
- **`call`**
  - `ChainReprintsSource`: the chain prints its calls in source order, and the
    base is parenthesised exactly when it must be. This is checked against an
    independent printer of the source expression.
  - `LinksOnOwnLines`: the links after the first, or all of them under
    NextLine, each start a line.
- **`source`**
  - `ExcludedNeverLoaded`: no loaded source is under a configured exclusion.
  - `LoadedOnce`: a load that completes with an unchanged tree inserts each
    expected file exactly once, with its category (External for includes), under
    distinct names. The expected files are computed from the initial tree alone.
- **`source_removal`**
  - `SurvivorsLoaded`: with one removal at any point of a walk of the whole
    root (between a starting path's checks, between reading a directory and
    yielding its entries), a load that returns Ok has loaded every expected
    file that still exists. A directory removed before the stream reads it
    must fail the load through `entry?` rather than end the walk early and
    leave its sibling directories unread.
- **`stubs`**
  - `StubsListedOnce`: a successful build of the tree without symlinks lists
    every regular `.php` file once, under distinct names, whatever order
    read_dir yields entries in. The tree has `core.php` at the root and in
    `Standard/`, so the names must keep the directory.

Every property of every passing run has a mutant in PROJECT.json. A mutant is a
plausible bug in a mapped definition that TLC must catch with that run:

| Property | Mutant |
|---|---|
| `WidthRespected` | the length check of should_hug dropped |
| `PromotedListBreaks` | its modifiers check dropped |
| `TrailingCommaDiscipline` | the IfBreak pushed for an empty list |
| `ParametersPreserved` | the dangling comments dropped |
| `BlankLinesPreserved` | the separator written after the last node |
| `BodyLayout` | the body not indented |
| `ContentPreserved` | print_block without its dangling comments |
| `ChainReprintsSource` | the calls not reversed |
| `LinksOnOwnLines` | the breaking style inverted |
| `ExcludedNeverLoaded` | is_excluded returning on the first exclusion |
| `LoadedOnce` | the includes check dropped |
| `SurvivorsLoaded` | the error entry of a removed directory ending the walk quietly |
| `StubsListedOnce` | the name taken from the file name alone |
| `TypeOK` (parameters) | Indent decreasing the depth |
| `TypeOK` (source) | the walk ended with entries left |
| `TypeOK` (stubs) | the outermost return not handing over to main |

## Findings

1. **A dangling line comment swallows `}`** (block.rs:96, and parameters.rs:90
   for parameter lists).
   - print_dangling_comments writes no line after the last comment, and the
     caller pushes `}` right after it.
   - TLC's trace is an empty method body whose only dangling comment is
     `//e`: it prints `head {` and then `  //e}`, so the brace is inside the
     comment. After `/*d*/` then `//e` the same happens.
2. **P2 fails for hugged parameters** (parameters.rs:77).
   - The hugged list is an Array with no break point.
   - `function f(private $p1)` is 22 columns at width 20, although no atom is
     wider than 20.
3. **from_modified_files ignores path exclusions** (source.rs:123).
   - git prints paths relative to the repository.
   - Path exclusions are joined onto the root, which is absolute.
   - `starts_with` never matches, so a modified file under an excluded directory
     is loaded.
4. **A vanished path bypasses the extension filter** (source.rs:264).
   - `path.is_file() && !is_accepted_file(..)` is false for a path that no
     longer exists.
   - TLC's shortest trace removes the starting directory `src` between
     `exists()` (line 217) and `is_dir()` (line 221). The directory itself is
     then inserted as a user source.
   - A file removed after the walk listed it, such as an editor's swap file, is
     inserted the same way, with any extension. The comment on line 263 says
     otherwise.
5. **from_modified_files does not return the Err its doc promises**
   (source.rs:91, 116).
   - The doc (lines 79-83) says it errs outside a repository and when git is
     unavailable or fails.
   - It never calls `is_git_available`. git diff's exit status is ignored, so
     outside a repository or inside `.git` the empty stdout gives `Ok` with an
     empty manager. When git is not installed, `expect` panics.
   - TLC reports it in the initial state with `git = "git_dir"`.
6. **Empty closure bodies are not kept broken** (block.rs:70).
   - The comment on the first arm of print_block's match says "functions,
     closures, and methods", but the arm lists `Node::Function`,
     `Node::MethodBody` and `Node::PropertyHookConcreteBody` only.
   - A closure's body Block has the Closure node as its parent (spec 3 lists
     `Closure` among the AST kinds), which falls to `_ => false`: an empty
     `function () {}` stays on one line, unlike an empty function or method
     body.
   - `EmptyBodiesBreakAsCommented` compares every decision print_block takes
     through the parent stack with the comments' table (`Owner`, the
     construct a Block is the body of; `Commented`, the constructs the
     comments name). TLC's trace formats `Statement > Expression > Closure >
     Block` and decides FALSE.

Observed but not claimed:

- Empty loop bodies break (block.rs:81). Spec scenario 2 says `while(true){}`
  stays `while (true) {}`, but print_block breaks an empty block under a
  Statement whose grandparent is a loop or if body, and spec 4.4.1 lists the
  same table, so the spec contradicts itself. An earlier version of the
  project had a violation run for it; the run budget now goes to the parent
  stack.
- Blank lines inside a body hold indentation (block.rs:31): the second
  hardline of the separator is inside the Indent, and the engine of spec 4.5
  writes indentation after every newline, while spec 6 forbids trailing
  whitespace. The real engine is not in the repository and may trim it.
- git quotes paths with non-ASCII bytes (core.quotePath), so such a modified
  file reaches load under a quoted name that does not exist and is skipped.
  Names are model values here.
- build.rs:28 puts the stub name into `r#"..."#` and the include path into a
  plain string literal, neither escaped.

- `is_excluded`'s `return match { .., _ => continue }` already has "any match"
  semantics. The spec's open question reads it as first-match (and wrongly places
  it in print_block). `ExcludedNeverLoaded` checks the any-match reading, and a
  first-match mutant breaks it.
- The hidden-directory filter (`entry.path().starts_with(".")`, source.rs:228)
  only matches below a walk root written as ".". Under any other root, hidden
  directories are walked: `.git/h.php` is loaded in the `source` run.
- Overlapping configured paths (`[src, src/a.php]`) make load insert
  `src/a.php` twice under one name. Whether that is a duplicate depends on
  `SourceManager::insert_path`, which is not in the repository.
- parameters.rs:100 returns a bare Array under `expand_first_argument`, losing
  `with_break(should_break)`. If that flag can be set while a constructor with
  promoted properties is printed, `function f(private $p1)` stays on one line
  with break_promoted_properties_list on. The argument printer that sets the
  flag is not in the repository, so the inputs keep the two apart.
- A symlink cycle under `stubs` makes collect_files list the same stubs again
  at each level until ELOOP. No source says stubs may hold links.
- Stubs are filtered on `ext == "php"` exactly, while source.rs accepts `php`
  in any case: `X.PHP` is left out of PHP_STUBS.

## Bounds and why they are enough

- **Width.** PrintWidth = 20 and IndentWidth = 2. Short tokens have width 2 and
  long ones width 8.
  - Two or three parameters of mixed widths then fit or overflow depending on
    their number and shape.
  - So both modes of every group are reached (the hug and the broken form, flat
    and broken chains).
- **MaxParams = 3.**
  - There are seven parameter shapes: plain short, plain long, promoted, promoted
    with hooks, with an attribute, with a comment, and followed by a blank line.
  - They cover every guard of should_hug and every branch of the printing loop.
  - Three parameters give a first, a middle and a last, which the separator logic
    (`i == len - 1`) tells apart.
- **MaxNodes = 3.**
  - The shapes are the empty statement, short, long, followed by a blank
    line, and a two-link method chain statement (block bodies only; class
    members are never expression statements).
  - There are 17 parent/grandparent contexts: every entry of the should-break
    table and four that are not in it.
  - Dangling comments are none, a block comment, a line comment alone, and a
    block comment then a line comment.
- **ASTs (parent stack).** Nine construct chains, each a path of the node
  kinds format() pushes from a statement down to a body Block: function,
  method, property hook, closure, try, catch, while, if, and a bare block.
  Every entry of print_block's parent table is reached, two of its
  grandparent table (WhileBody, IfStatementBody) and kinds in neither
  (Closure, Block, Program); the other loop bodies differ from WhileBody
  only by name. A file holds one item (a construct whose
  Block is empty, holds `;`, or holds another construct) or two shallow
  items, so a block follows a sibling whose frames were popped: 200 ASTs.
- **MaxLinks = 2 (call chains).**
  - A first link and a later link are the two cases print_method_call_chain
    distinguishes.
  - There are eight bases, covering every branch of base_needs_parerns, nested
    Parenthesized included.
  - There are four argument lists, one of them a nested chain.
- **Source tree.**
  - One file of each kind the filters tell apart: accepted, wrong extension,
    upper-case extension, under an include, under a path exclusion, under a
    pattern exclusion, and under a hidden directory.
  - A symlink, and every entry point with and without externals and stubs.
  - git in each of its four states in the main run; the runs about the walk
    fix it to a work tree.
  - The default extension set (empty) in the main run, the configured
    `{"php"}` in the removal run, so both branches of is_accepted_file run.
  - `MaxRemovals = 1` is enough to reach both a vanished file and a vanished
    directory. The removal run walks the whole root, so a directory can vanish
    while sibling directories are still to be read.

- **Stub trees.** One tree like the bundled stubs (nested directories, a file
  name repeated in two directories, a name with a space and capitals, other
  extensions, an empty directory) and one with a self-referencing symlink and
  a dangling `.php` link. `MaxLinks = 4` (Linux allows 40) lets the cycle be
  entered several levels deep before resolution fails.

## Fairness

- **Layout.** The render loop pops one command per iteration and nothing else
  runs, so the models assume weak fairness of the loop step. No property of
  the lowering runs is a liveness property; the fairness only makes the
  rendered text the end of every behaviour.
- **Source.** The load is a single task that the runtime drives to completion, so
  weak fairness of its own steps is assumed. There is none for `RemovePath`, since
  other processes need not act.
- **Parent stack.** Formatting is one synchronous recursion (spec 5), so
  weak fairness of `Dispatch` and `Return` is assumed.
- **Stubs.** The build script runs to its end; weak fairness of `Visit`,
  `Return` and `WriteMap` is assumed.

## Not modelled, and why

- **The rest of the formatter context (spec C3).** Settings and transient
  flags are inputs of the lowering models. The parent stack is modelled from
  the spec in `ParentStack`; the block model still takes the (parent,
  grandparent) pair as an input, all 17 pairs a Block is formatted under.
- **Comment attachment and the comment index.** The comments of a node and its
  blank-line facts are inputs.
- **Idempotence (P1).** It needs the parser.
- **The node formatters that the lowering code calls.** These are statements,
  parameters, call arguments and expressions. They are modelled from the spec
  only as far as the tokens they write (`FormatNode`, `FormatParameter`,
  `PrintCallArguments`, `FormatExpression`).
- **The git process itself.** git is reduced to what the two commands print
  in each of four situations.
- **The Windows separator of build.rs.** Stub names are modelled for a Unix
  build.
- **I/O errors of `read_dir` and `entry?` in build.rs.** Only the failures that
  the tree itself causes (a dangling link) and the write of the table fail.
- **The lexer, parser, CLI, configuration loader and linter.** They are not in
  src.

## Plan for later work

1. A violation run comparing the default and configured extension sets
   (`C.PHP`), and one for scenario 2 of the spec, if the run budget allows.
2. Model `SourceManager` deduplication if its code joins the repository, and
   then claim or clear the overlapping-paths case.
3. Comment attachment, if the comment index joins `src/`.
