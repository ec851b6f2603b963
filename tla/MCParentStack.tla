---------------------------- MODULE MCParentStack ----------------------------
(***************************************************************************)
(* The parent stack over the ASTs of small PHP files.  A file holds one    *)
(* item, or two items without nesting; an item is the empty statement or   *)
(* a construct whose body is a Block: the Block holds nothing, an empty    *)
(* statement, or one construct with an empty body.  A construct is the     *)
(* chain of nodes format() pushes from the statement down to its body.     *)
(* The decisions print_block takes are compared with what the comments     *)
(* beside its match say they should be.                                    *)
(***************************************************************************)
EXTENDS Integers, Sequences, FiniteSets, TLC, ParentStack

LOCAL INSTANCE SequencesExt

\* Node kinds from a statement down to the body Block of each construct.
Constructs ==
  { <<"Statement", "Function", "Block">>,
    <<"Statement", "Class", "Method", "MethodBody", "Block">>,
    <<"Statement", "Class", "PropertyHook", "PropertyHookConcreteBody", "Block">>,
    <<"Statement", "Expression", "Closure", "Block">>,
    <<"Statement", "Try", "Block">>,
    <<"Statement", "Try", "TryCatchClause", "Block">>,
    <<"Statement", "While", "WhileBody", "Statement", "Block">>,
    <<"Statement", "If", "IfStatementBody", "Statement", "Block">>,
    <<"Statement", "Block">> }

Noop == [chain |-> <<"Noop">>, body |-> <<>>]

Shallow == {Noop} \cup {[chain |-> c, body |-> <<>>] : c \in Constructs}

Items ==
  Shallow
  \cup {[chain |-> c, body |-> <<Noop>>] : c \in Constructs}
  \cup {[chain |-> c, body |-> <<s>>] : c \in Constructs, s \in Shallow \ {Noop}}

\* The nodes of item it, as node id -> kind, with its first node at id
\* at: the chain goes down through first children, and the body's item is
\* the first child of the chain's last node.
RECURSIVE ItemTree(_, _)
ItemTree(at, it) ==
  LET n == Len(it.chain)
      id(j) == at \o [k \in 1..(j - 1) |-> 1]
      chain == [x \in {id(j) : j \in 1..n} |-> it.chain[Len(x) - Len(at) + 1]]
  IN IF it.body = <<>> THEN chain ELSE chain @@ ItemTree(id(n) \o <<1>>, it.body[1])

\* The AST of a file whose top-level statements are the given items.
Tree(items) ==
  FoldSet(LAMBDA i, t : t @@ ItemTree(<<i>>, items[i]), (<<>> :> "Program"), DOMAIN items)

MCTrees ==
  {Tree(<<it>>) : it \in Items} \cup {Tree(<<a, b>>) : a, b \in Shallow}

-----------------------------------------------------------------------------
\* Nodes that only wrap a construct's body on the way down to its Block.
Wrappers ==
  {"Statement", "Expression", "MethodBody", "PropertyHookConcreteBody",
   "WhileBody", "IfStatementBody"}

\* The construct a Block is the body of: its nearest ancestor that is not
\* a wrapper ("Program" or "Block" for a bare block statement).
RECURSIVE Owner(_)
Owner(n) == IF ast[n] \in Wrappers THEN Owner(Up(n, 1)) ELSE ast[n]

\* The constructs the comments of block.rs lines 67-80 name: "functions,
\* closures, and methods" (property hooks with them), "try, catch,
\* finally", and "control structures".
Commented ==
  {"Function", "Closure", "Method", "PropertyHook", "Try", "TryCatchClause",
   "While", "If"}

(***************************************************************************)
(* print_block keeps an empty body on its own lines exactly where the      *)
(* comments of block.rs lines 67-80 say it should: every Block decided     *)
(* breaks iff it has a statement or it is the body of a construct those    *)
(* comments name, as the parent and grandparent of the context's stack     *)
(* reveal it.                                                              *)
(***************************************************************************)
EmptyBodiesBreakAsCommented ==
  \A b \in DOMAIN decisions :
    decisions[b] = ((\E i \in 1..NumChildren(b) : ast[b \o <<i>>] # "Noop")
                    \/ Owner(Up(b, 1)) \in Commented)

=============================================================================
