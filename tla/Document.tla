------------------------------ MODULE Document ------------------------------
(***************************************************************************)
(* The Document IR of the formatter (spec section 3 and 4.1) and the two   *)
(* pure parts of the layout engine that work on a whole document: the      *)
(* break-propagation pre-pass and the `fits` probe (spec section 4.5).     *)
(*                                                                         *)
(* A document is a record whose field k names the variant.  Literal text   *)
(* is abstracted to a token: its text s (a short name) and its visual      *)
(* width w, which is all the layout engine looks at.                       *)
(***************************************************************************)
EXTENDS Integers, Sequences

\* Document::String(text): a newline-free atom of width w.
Str(s, w) == [k |-> "string", s |-> s, w |-> w]

\* Document::Line(kind): Line::hardline() is Line("hard"), Line::softline()
\* Line("soft") and Line::default() Line("line").
Line(kind) == [k |-> "line", kind |-> kind]

\* Document::Indent(children).
Indent(c) == [k |-> "indent", c |-> c]

\* Document::Group(Group::new(children).with_break(b)).
Group(c, b) == [k |-> "group", c |-> c, brk |-> b]

\* Document::Empty.
Empty == [k |-> "empty"]

\* Document::IfBreak(IfBreak::then(t)): t when the enclosing group broke.
IfBreak(t) == [k |-> "ifbreak", t |-> t, e |-> Empty]

\* Document::BreakParent.
BreakParent == [k |-> "breakparent"]

\* Document::Array(children): concatenation without group semantics.
Array(c) == [k |-> "array", c |-> c]

\* Variants whose field c holds a sequence of children.
Containers == {"array", "indent", "group"}

(***************************************************************************)
(* Break propagation (spec 4.5, "two-pass" design note in section 9): a    *)
(* group is marked broken when a BreakParent or a hard line lies anywhere  *)
(* below it, so the mark reaches the nearest group and all its ancestors.  *)
(***************************************************************************)
RECURSIVE MustBreak(_)
MustBreak(d) ==
  CASE d.k = "breakparent" -> TRUE
    [] d.k = "line"        -> d.kind = "hard"
    [] d.k \in Containers  -> \E i \in DOMAIN d.c : MustBreak(d.c[i])
    [] d.k = "ifbreak"     -> MustBreak(d.t) \/ MustBreak(d.e)
    [] OTHER               -> FALSE

RECURSIVE PropagateBreaks(_)
PropagateBreaks(d) ==
  LET kids == IF d.k \in Containers
                THEN [i \in DOMAIN d.c |-> PropagateBreaks(d.c[i])]
                ELSE <<>>
  IN CASE d.k = "group"      -> Group(kids, d.brk \/ MustBreak(d))
       [] d.k \in Containers -> [d EXCEPT !.c = kids]
       [] d.k = "ifbreak"    -> [d EXCEPT !.t = PropagateBreaks(d.t),
                                          !.e = PropagateBreaks(d.e)]
       [] OTHER              -> d

(***************************************************************************)
(* fits(children, flat, remaining): render the sequence ds with every      *)
(* conditional line flat; FALSE on overflow or on a hard line.             *)
(***************************************************************************)
RECURSIVE Fits(_, _)
Fits(ds, rem) ==
  IF rem < 0 THEN FALSE
  ELSE IF ds = <<>> THEN TRUE
  ELSE LET d == Head(ds) IN
       CASE d.k = "string"     -> Fits(Tail(ds), rem - d.w)
         [] d.k = "line"       -> /\ d.kind # "hard"
                                  /\ Fits(Tail(ds), rem - (IF d.kind = "line" THEN 1 ELSE 0))
         [] d.k \in Containers -> Fits(d.c \o Tail(ds), rem)
         [] d.k = "ifbreak"    -> Fits(<<d.e>> \o Tail(ds), rem)
         [] OTHER              -> Fits(Tail(ds), rem)

=============================================================================
