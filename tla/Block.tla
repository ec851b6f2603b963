------------------------------- MODULE Block -------------------------------
(***************************************************************************)
(* Lowering of brace-delimited bodies (crates/formatter/src/format/        *)
(* block.rs).  A child node (class member, statement) is a record: its     *)
(* kind ("Noop" for the empty statement `;`), its token and width, and     *)
(* blankAfter, the answer of is_next_line_empty on its span.  The parent   *)
(* and grandparent node kinds are the answers of f.parent_node() and       *)
(* f.grandparent_node() while the block is formatted.                      *)
(***************************************************************************)
EXTENDS Integers, Sequences, Document, Comments

LOCAL INSTANCE SequencesExt
LOCAL INSTANCE Call

\* item.format(f) / statement formatting: the node's own token (the node
\* formatters are not in scope; only the token they write matters here).
\* An expression statement whose expression is a method call goes through
\* the chain printer of call.rs (SameLine style), then ";".
FormatNode(n) ==
  CASE n.kind = "Noop"  -> Str(";", 1)
    [] n.kind = "Chain" -> Array(<<FormatExpression(n.x, FALSE), Str(";", 1)>>)
    [] OTHER            -> Str(n.name, n.w)

\* A plausible bug in Separated: the separator also written after the last
\* child (i <= n for i < n - 1).
SeparatedAfterLast(nodes) ==
  LET After(i) == <<Line("hard")>> \o IF nodes[i].blankAfter THEN <<Line("hard")>> ELSE <<>>
  IN FlattenSeq([i \in 1..Len(nodes) |-> <<FormatNode(nodes[i])>> \o After(i)])

\* Children separated by a hardline, doubled before a blank source line.
\* block.rs:24-33 for print_block_of_nodes; the same sequence is what
\* statement::print_statement_sequence is specified to produce.
Separated(nodes) ==
  LET n == Len(nodes)
      After(i) == IF i < n
                  THEN <<Line("hard")>> \o IF nodes[i].blankAfter THEN <<Line("hard")>> ELSE <<>>
                  ELSE <<>>
  IN FlattenSeq([i \in 1..n |-> <<FormatNode(nodes[i])>> \o After(i)])

\* statement::print_statement_sequence (not in scope; see Separated).
PrintStatementSequence(stmts) == Separated(stmts)

\* print_block_of_nodes
PrintBlockOfNodes(nodes, dangling, inlineEmpty) ==
  LET length == Len(nodes)
      body == IF length = 0 THEN Empty ELSE Indent(<<Line("hard")>> \o Separated(nodes))
      comments == PrintDanglingComments(dangling, TRUE)
      close == IF comments # <<>> THEN comments
               ELSE IF length > 0 \/ ~inlineEmpty THEN <<Line("hard")>> ELSE <<>>
  IN Group(<<Str("{", 1), body>> \o close \o <<Str("}", 1)>>, FALSE)

\* has_body: some statement is not the empty statement.
HasBody(stmts) == \E i \in DOMAIN stmts : stmts[i].kind # "Noop"

\* Parents whose empty block still breaks: functions, closures and
\* methods' bodies (as the code lists them) and try, catch, finally.
BreakingParents ==
  {"Function", "MethodBody", "PropertyHookConcreteBody",
   "Try", "TryCatchClause", "TryFinallyClause"}

\* Grandparents (through a Statement) whose empty block breaks: control
\* structures.
BreakingGrandparents ==
  {"ForBody", "WhileBody", "DoWhile", "If", "IfStatementBody",
   "IfStatementBodyElseClause", "IfStatementBodyElseIfClause", "ForeachBody"}

\* should_break of an empty block.
EmptyBlockShouldBreak(parent, grandparent) ==
  \/ parent \in BreakingParents
  \/ parent = "Statement" /\ grandparent \in BreakingGrandparents

\* Plausible bugs in print_block: the statements not wrapped in Indent ...
PrintBlockUnindented(stmts, dangling, parent, grandparent) ==
  LET hasBody == HasBody(stmts)
      body == IF hasBody THEN <<Line("hard")>> \o PrintStatementSequence(stmts) ELSE <<>>
      comments == PrintDanglingComments(dangling, TRUE)
  IN Group(<<Str("{", 1)>> \o body
           \o (IF comments # <<>> THEN comments ELSE <<Line("soft")>>)
           \o <<Str("}", 1)>>,
           hasBody \/ EmptyBlockShouldBreak(parent, grandparent))

\* ... and the dangling comments never asked for.
PrintBlockWithoutComments(stmts, dangling, parent, grandparent) ==
  LET hasBody == HasBody(stmts)
      body == IF hasBody THEN << Indent(<<Line("hard")>> \o PrintStatementSequence(stmts)) >>
              ELSE <<>>
  IN Group(<<Str("{", 1)>> \o body \o <<Line("soft"), Str("}", 1)>>,
           hasBody \/ EmptyBlockShouldBreak(parent, grandparent))

\* print_block
PrintBlock(stmts, dangling, parent, grandparent) ==
  LET hasBody == HasBody(stmts)
      body == IF hasBody THEN << Indent(<<Line("hard")>> \o PrintStatementSequence(stmts)) >>
              ELSE <<>>
      shouldBreak == hasBody \/ EmptyBlockShouldBreak(parent, grandparent)
      comments == PrintDanglingComments(dangling, TRUE)
  IN Group(<<Str("{", 1)>> \o body
           \o (IF comments # <<>> THEN comments ELSE <<Line("soft")>>)
           \o <<Str("}", 1)>>,
           shouldBreak)

\* print_block_body: the statement sequence as one Array, or None (<<>>)
\* when every statement is the empty statement.
PrintBlockBody(stmts) ==
  IF HasBody(stmts) THEN << Array(PrintStatementSequence(stmts)) >> ELSE <<>>

=============================================================================
