------------------------------ MODULE Comments ------------------------------
(***************************************************************************)
(* The part of the comment index (spec section 4.2) the node formatters    *)
(* call.  The index is built from the source; in the model the answer to   *)
(* each query is part of the input node:  the dangling comments of a span  *)
(* are a sequence of comment tokens in source order, has_comment and       *)
(* is_next_line_empty are flags on the node.                               *)
(***************************************************************************)
EXTENDS Integers, Sequences, Document

\* A line comment (// ...) and a block comment (/* ... */).
LineComment(n) == Str(n, 3)
BlockComment(n) == Str(n, 5)

(***************************************************************************)
(* print_dangling_comments(span, indent): None when the span has no        *)
(* dangling comment (the empty sequence here), else one document holding   *)
(* them in source order, each but the last followed by a hardline; with    *)
(* indent the whole is an Indent opened by a hardline.                     *)
(***************************************************************************)
PrintDanglingComments(cs, indented) ==
  IF cs = <<>> THEN <<>>
  ELSE LET parts == [i \in 1..(2 * Len(cs) - 1) |->
                       IF i % 2 = 1 THEN cs[(i + 1) \div 2] ELSE Line("hard")]
       IN << IF indented THEN Indent(<<Line("hard")>> \o parts) ELSE Array(parts) >>

=============================================================================
