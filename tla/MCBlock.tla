------------------------------ MODULE MCBlock ------------------------------
(***************************************************************************)
(* Model-checks print_block and print_block_of_nodes followed by the       *)
(* layout engine.  Init picks which of the two is called, the children,    *)
(* the dangling comments of the braces, inline_empty, and the parent and   *)
(* grandparent node kinds under which the block is formatted.  The block   *)
(* follows the head of its construct (`function f()`, `while ($x)` ...),   *)
(* written as one token and a space.                                       *)
(***************************************************************************)
EXTENDS Integers, Sequences, FiniteSets, TLC, Layout, Block

LOCAL INSTANCE SequencesExt

CONSTANTS MaxNodes,     \* most children enumerated
          ShortWidth,   \* width of a short child
          LongWidth     \* width of a long child

VARIABLE input

vars == <<input, doc, cmds, out, decisions>>

Names == <<"$s1", "$s2", "$s3", "$s4">>

ASSUME MaxNodes \in 1..Len(Names)

\* Child shapes: the empty statement, a short or a long one, one followed
\* by a blank source line, and an expression statement `$s->m1()->m2();`
\* printed by the method-chain printer.
Shapes ==
  { [kind |-> "Noop", w |-> 1, blankAfter |-> FALSE],
    [kind |-> "Chain", w |-> 2, blankAfter |-> FALSE],
    [kind |-> "Expr", w |-> ShortWidth, blankAfter |-> FALSE],
    [kind |-> "Expr", w |-> LongWidth, blankAfter |-> FALSE],
    [kind |-> "Expr", w |-> ShortWidth, blankAfter |-> TRUE] }

\* The chain statement's expression: the child's variable with two
\* method calls applied, m1 first.
ChainOn(v) ==
  LET Call0(o, m) == [e |-> "Call", call |-> "Method", object |-> o, method |-> m, args |-> <<>>]
  IN Call0(Call0([e |-> "Variable", name |-> v, w |-> 2], "m1"), "m2")

Children ==
  { [i \in DOMAIN ss |-> [name |-> Names[i], x |-> ChainOn(Names[i])] @@ ss[i]]
      : ss \in UNION { [1..n -> Shapes] : n \in 0..MaxNodes } }

\* Class members (print_block_of_nodes) are never expression statements.
Members == { it \in Children : \A i \in DOMAIN it : it[i].kind # "Chain" }

\* The (parent, grandparent) kinds a Block node is formatted under: the
\* body of a function, closure, method, property hook, try, catch or
\* finally, and a block statement in a loop or if body, at top level, in
\* another block, in a namespace.
Contexts ==
  { <<"Function", "Statement">>, <<"Closure", "Expression">>,
    <<"MethodBody", "Method">>, <<"PropertyHookConcreteBody", "PropertyHook">>,
    <<"Try", "Statement">>, <<"TryCatchClause", "Try">>, <<"TryFinallyClause", "Try">>,
    <<"Statement", "WhileBody">>, <<"Statement", "ForBody">>, <<"Statement", "ForeachBody">>,
    <<"Statement", "DoWhile">>, <<"Statement", "IfStatementBody">>,
    <<"Statement", "IfStatementBodyElseClause">>, <<"Statement", "IfStatementBodyElseIfClause">>,
    <<"Statement", "Program">>, <<"Statement", "Block">>, <<"Statement", "Namespace">> }

\* Comments between the braces are dangling only when there is no child
\* for them to attach to (spec 7).
Danglings(items) ==
  IF items = <<>>
  THEN {<<>>, <<BlockComment("/*d*/")>>, <<LineComment("//e")>>,
        <<BlockComment("/*d*/"), LineComment("//e")>>}
  ELSE {<<>>}

Inputs ==
  UNION { { [fn |-> "block", items |-> it, dangling |-> d, ctx |-> c, inlineEmpty |-> FALSE]
              : d \in Danglings(it), c \in Contexts }
        : it \in Children }
  \cup UNION { { [fn |-> "nodes", items |-> it, dangling |-> d, ctx |-> <<"Class", "Statement">>,
                inlineEmpty |-> ie]
                 : d \in Danglings(it), ie \in BOOLEAN }
          : it \in Members }

Head0 == Str("head", 4)

Lowered(i) ==
  IF i.fn = "block" THEN PrintBlock(i.items, i.dangling, i.ctx[1], i.ctx[2])
  ELSE PrintBlockOfNodes(i.items, i.dangling, i.inlineEmpty)

RootDoc(i) == Array(<<Head0, Str(" ", 1), Lowered(i)>>)

Init == \E i \in Inputs : input = i /\ LayoutInit(RootDoc(i))

Next == LayoutNext /\ UNCHANGED input

Spec == Init /\ [][Next]_vars /\ WF_vars(Next /\ cmds # <<>>)

-----------------------------------------------------------------------------
Items == input.items

TypeOK == input \in Inputs /\ LayoutTypeOK

Visible == SelectSeq(OutTokens, LAMBDA t : t.s # " ")

\* Children that are written: print_block writes its empty statements only
\* when some statement is not empty.
Written ==
  IF input.fn = "block" /\ \A i \in DOMAIN Items : Items[i].kind = "Noop"
  THEN <<>> ELSE Items

\* Lines that hold nothing.
BlankLines == {l \in DOMAIN out : out[l].toks = <<>>}

(***************************************************************************)
(* Blank-line preservation: the output has exactly one blank line for each *)
(* child, other than the last written one, that the source follows with a  *)
(* blank line, and none elsewhere (not after "{", not before "}").         *)
(***************************************************************************)
BlankLinesPreserved ==
  Done =>
    Cardinality(BlankLines)
      = Cardinality({i \in 1..(Len(Written) - 1) : Written[i].blankAfter})

(***************************************************************************)
(* Body layout: a block with a written child opens with "{" ending the     *)
(* head's line, starts every child on a line of its own one level deeper,  *)
(* continues a method chain on lines one level deeper still, each line     *)
(* starting with a link, and closes with "}" alone on the last line at     *)
(* the head's level.                                                       *)
(***************************************************************************)
IsLink(t) == t.s \in {"->", "?->"}

BodyLayout ==
  (Done /\ Written # <<>>) =>
    LET inner == {l \in 2..(Len(out) - 1) : l \notin BlankLines}
        starts == {l \in inner : ~IsLink(out[l].toks[1])}
    IN /\ out[1].toks[Len(out[1].toks)].s = "{"
       /\ out[Len(out)] = [ind |-> 0, toks |-> <<[s |-> "}", w |-> 1]>>]
       /\ \A l \in inner : out[l].ind = IF l \in starts THEN 1 ELSE 2
       /\ Cardinality(starts) = Len(Written)

\* Tokens a block carries through: children and comments, in order.
Carried == {Names[i] : i \in 1..Len(Names)} \cup {";", "m1", "m2", "/*d*/", "//e"}

ExpectedOf(n) ==
  CASE n.kind = "Noop"  -> <<";">>
    [] n.kind = "Chain" -> <<n.name, "m1", "m2", ";">>
    [] OTHER            -> <<n.name>>

Expected ==
  FlattenSeq([i \in DOMAIN Written |-> ExpectedOf(Written[i])])
  \o [i \in DOMAIN input.dangling |-> input.dangling[i].s]

(***************************************************************************)
(* P4 for blocks: every written child and every dangling comment appears   *)
(* exactly once in the output, in source order.                            *)
(***************************************************************************)
ContentPreserved ==
  Done =>
    LET kept == SelectSeq(Visible, LAMBDA t : t.s \in Carried)
    IN [j \in DOMAIN kept |-> kept[j].s] = Expected

-----------------------------------------------------------------------------
(* Statements of the spec that the code does not meet (violation runs).    *)

(***************************************************************************)
(* A line comment runs to the end of its line, so nothing may be written   *)
(* after it on that line: every `//` comment is the last token of its      *)
(* line.  Dangling comments replace the line break before "}".             *)
(***************************************************************************)
LineCommentEndsLine ==
  \A l \in DOMAIN out : \A j \in DOMAIN out[l].toks :
    out[l].toks[j].s = "//e" => j = Len(out[l].toks)

=============================================================================
