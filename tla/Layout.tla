------------------------------- MODULE Layout -------------------------------
(***************************************************************************)
(* The layout engine (spec section 4.5): a stack interpreter that renders  *)
(* a document, after the break-propagation pre-pass, into lines.  Each     *)
(* command on the stack is (depth, mode, doc); one action per document     *)
(* variant pops the top command and renders it.                            *)
(*                                                                         *)
(* out is the rendered text: a sequence of lines, each the indentation     *)
(* depth of the newline that opened it and the tokens written on it.       *)
(* decisions records every group popped with the mode it was given; it is  *)
(* history only, read by properties and never by the actions.              *)
(***************************************************************************)
EXTENDS Integers, Sequences, Document

CONSTANTS PrintWidth,  \* settings.print_width
          IndentWidth  \* settings.tab_width (spaces per indentation level)

ASSUME PrintWidth \in Nat \ {0} /\ IndentWidth \in Nat \ {0}

VARIABLES doc,        \* the document handed to render(doc, settings)
          cmds,       \* the command stack, top first
          out,        \* the rendered lines
          decisions   \* history: <<group, mode>> for each group rendered

layoutVars == <<doc, cmds, out, decisions>>

Modes == {"flat", "break"}

RECURSIVE TokensWidth(_)
TokensWidth(ts) == IF ts = <<>> THEN 0 ELSE Head(ts).w + TokensWidth(Tail(ts))

\* Width of a rendered line: indentation then its tokens.
LineWidth(l) == l.ind * IndentWidth + TokensWidth(l.toks)

\* The current column.
Column == LineWidth(out[Len(out)])

\* Write token t at the end of the current line.
Emit(t) == out' = [out EXCEPT ![Len(out)].toks = Append(@, t)]

\* Newline followed by depth levels of indentation.
Newline(depth) == out' = Append(out, [ind |-> depth, toks |-> <<>>])

Top == Head(cmds)

\* Pop the top command and push the children cs in its place, so that
\* cs[1] is rendered first.
Replace(cs, depth, mode) ==
  cmds' = [i \in 1..Len(cs) |-> [ind |-> depth, mode |-> mode, doc |-> cs[i]]]
            \o Tail(cmds)

Popping(kind) == cmds # <<>> /\ Top.doc.k = kind

-----------------------------------------------------------------------------
(* Init: stack (0, flat, root_doc), column 0.                              *)
LayoutInit(d) ==
  /\ doc = d
  /\ cmds = << [ind |-> 0, mode |-> "flat", doc |-> PropagateBreaks(d)] >>
  /\ out = << [ind |-> 0, toks |-> <<>>] >>
  /\ decisions = <<>>

RenderEmpty ==
  /\ Popping("empty")
  /\ cmds' = Tail(cmds)
  /\ UNCHANGED <<doc, out, decisions>>

RenderString ==
  /\ Popping("string")
  /\ Emit([s |-> Top.doc.s, w |-> Top.doc.w])
  /\ cmds' = Tail(cmds)
  /\ UNCHANGED <<doc, decisions>>

RenderArray ==
  /\ Popping("array")
  /\ Replace(Top.doc.c, Top.ind, Top.mode)
  /\ UNCHANGED <<doc, out, decisions>>

\* A plausible bug: an Indent that undoes a level instead of adding one.
RenderIndentOutdent ==
  /\ Popping("indent")
  /\ Replace(Top.doc.c, Top.ind - 1, Top.mode)
  /\ UNCHANGED <<doc, out, decisions>>

RenderIndent ==
  /\ Popping("indent")
  /\ Replace(Top.doc.c, Top.ind + 1, Top.mode)
  /\ UNCHANGED <<doc, out, decisions>>

\* will_break = force_break OR contains_hardline OR !fits(children); the
\* pre-pass has folded contains_hardline into the group's break flag.
RenderGroup ==
  /\ Popping("group")
  /\ LET g == Top.doc
         m == IF g.brk \/ ~Fits(g.c, PrintWidth - Column) THEN "break" ELSE "flat"
     IN /\ Replace(g.c, Top.ind, m)
        /\ decisions' = Append(decisions, [grp |-> g, mode |-> m])
  /\ UNCHANGED <<doc, out>>

RenderIfBreak ==
  /\ Popping("ifbreak")
  /\ Replace(<<IF Top.mode = "break" THEN Top.doc.t ELSE Top.doc.e>>, Top.ind, Top.mode)
  /\ UNCHANGED <<doc, out, decisions>>

\* BreakParent has done its work in the pre-pass.
RenderBreakParent ==
  /\ Popping("breakparent")
  /\ cmds' = Tail(cmds)
  /\ UNCHANGED <<doc, out, decisions>>

RenderLine ==
  /\ Popping("line")
  /\ \/ /\ Top.doc.kind = "hard" \/ Top.mode = "break"
        /\ Newline(Top.ind)
     \/ /\ Top.doc.kind = "line" /\ Top.mode = "flat"
        /\ Emit([s |-> " ", w |-> 1])
     \/ /\ Top.doc.kind = "soft" /\ Top.mode = "flat"
        /\ UNCHANGED out
  /\ cmds' = Tail(cmds)
  /\ UNCHANGED <<doc, decisions>>

\* render() has returned; the output no longer changes.
Rendered ==
  /\ cmds = <<>>
  /\ UNCHANGED layoutVars

LayoutNext ==
  \/ RenderEmpty \/ RenderString \/ RenderArray \/ RenderIndent
  \/ RenderGroup \/ RenderIfBreak \/ RenderBreakParent \/ RenderLine
  \/ Rendered

\* The interpreter always pops the top command: a weakly fair loop.
LayoutFairness == WF_layoutVars(LayoutNext /\ cmds # <<>>)

-----------------------------------------------------------------------------
Done == cmds = <<>>

\* All tokens of the output, in order, without the line structure.
OutTokens ==
  LET F[i \in 0..Len(out)] == IF i = 0 THEN <<>> ELSE F[i-1] \o out[i].toks
  IN F[Len(out)]

Tok == [s : STRING, w : Nat]

Kinds == {"string", "line", "indent", "group", "empty", "ifbreak", "breakparent", "array"}

LayoutTypeOK ==
  /\ \A i \in DOMAIN cmds : /\ cmds[i].ind \in Nat /\ cmds[i].mode \in Modes
                            /\ cmds[i].doc.k \in Kinds
  /\ out \in Seq([ind : Nat, toks : Seq(Tok)]) /\ out # <<>>
  /\ \A i \in DOMAIN decisions : /\ decisions[i].mode \in Modes
                                 /\ decisions[i].grp.k = "group"

=============================================================================
