----------------------------- MODULE ParentStack -----------------------------
(***************************************************************************)
(* The formatter context's parent stack (spec 4.3) as print_block reads    *)
(* it (block.rs lines 66 and 75).  format(node) pushes the node before it  *)
(* dispatches to the node's formatter and pops it on return, so while a    *)
(* Block is formatted the Block itself is on top: parent_node() is the     *)
(* entry below the top and grandparent_node() the one below that (None     *)
(* when the stack is too short).  The dispatch recursion is a separate     *)
(* stack of frames [node, next child]; the context's stack is its own      *)
(* state, kept in step with the recursion only by the push/pop pairing.    *)
(* Statements are formatted in source order.                               *)
(***************************************************************************)
EXTENDS Integers, Sequences, FiniteSets, TLC

LOCAL INSTANCE Block

CONSTANT Trees   \* the ASTs a file may parse to (node id -> kind)

VARIABLES ast,        \* the AST being formatted
          calls,      \* the format() recursion: <<[node, next]>>, top last
          parents,    \* the context's parent_stack of node ids, top last
          decisions   \* Block node id -> the should_break print_block chose

psVars == <<ast, calls, parents, decisions>>

Up(n, k) == SubSeq(n, 1, Len(n) - k)

NumChildren(n) == Cardinality({c \in DOMAIN ast : Len(c) = Len(n) + 1 /\ Up(c, 1) = n})

\* f.parent_node(): the entry below the node being formatted.
ParentNode == ast[parents[Len(parents) - 1]]

\* f.grandparent_node(): None when the stack holds no third entry.
GrandparentNode ==
  IF Len(parents) >= 3 THEN ast[parents[Len(parents) - 2]] ELSE "None"

\* print_block's should_break for block b (block.rs lines 59-91): the
\* parent, and for a Statement parent the grandparent, are asked only
\* when every statement is the empty one.
PrintBlockShouldBreak(b) ==
  LET hasBody == \E i \in 1..NumChildren(b) : ast[b \o <<i>>] # "Noop"
  IN hasBody \/ EmptyBlockShouldBreak(ParentNode, GrandparentNode)

\* Formatting the file: format(program) pushes the root.
Init ==
  /\ ast \in Trees
  /\ calls = << [node |-> <<>>, next |-> 1] >>
  /\ parents = << <<>> >>
  /\ decisions = <<>>

\* The node on top formats its next child: format(child) pushes the child
\* as the context's current node, then dispatches to its formatter.
Dispatch ==
  /\ calls # <<>>
  /\ LET top == calls[Len(calls)]
         child == top.node \o <<top.next>>
     IN /\ top.next <= NumChildren(top.node)
        /\ parents' = Append(parents, child)
        /\ calls' = Append([calls EXCEPT ![Len(calls)].next = @ + 1],
                           [node |-> child, next |-> 1])
  /\ UNCHANGED <<ast, decisions>>

\* The node on top has no statement left: its formatter finishes (a Block
\* through print_block, which decides should_break while the Block is
\* still the current node), and format() pops the context's stack.
Return ==
  /\ calls # <<>>
  /\ LET top == calls[Len(calls)]
     IN /\ top.next > NumChildren(top.node)
        /\ decisions' = IF ast[top.node] = "Block"
                        THEN decisions @@ (top.node :> PrintBlockShouldBreak(top.node))
                        ELSE decisions
        /\ calls' = SubSeq(calls, 1, Len(calls) - 1)
        /\ parents' = SubSeq(parents, 1, Len(parents) - 1)
  /\ UNCHANGED ast

\* The file is formatted.
Finished ==
  /\ calls = <<>>
  /\ UNCHANGED psVars

PSNext == Dispatch \/ Return \/ Finished

\* Formatting is one synchronous recursion that runs to its end.
PSSpec == Init /\ [][PSNext]_psVars /\ WF_psVars(Dispatch \/ Return)

=============================================================================
