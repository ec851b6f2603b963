----------------------------- MODULE Parameters -----------------------------
(***************************************************************************)
(* Lowering of a function-like parameter list to a document                *)
(* (crates/formatter/src/format/parameters.rs).                            *)
(*                                                                         *)
(* A parameter is a record: its name token and width, and the facts the    *)
(* formatter asks about it: modifiers (non-empty modifier list, which is   *)
(* what makes it a promoted property), attrs (attribute lists), hooks      *)
(* (property hooks), comment (has_comment on its span, all flags) and      *)
(* blankAfter (is_next_line_empty after its span).  A list is its          *)
(* parameters and the dangling comments between its parentheses.           *)
(* Settings are the formatter settings and argument_state read here.       *)
(***************************************************************************)
EXTENDS Integers, Sequences, Document, Comments

LOCAL INSTANCE SequencesExt

\* parameter.is_promoted_property(): it carries a modifier.
IsPromotedProperty(p) == p.modifiers

\* parameter.format(f): attributes, modifiers, a leading comment, the
\* variable, then the hook list (the parameter formatter is not in scope;
\* only the tokens it writes matter here).
FormatParameter(p) ==
  Array(  (IF p.attrs THEN <<Str("#[A]", 4), Str(" ", 1)>> ELSE <<>>)
       \o (IF p.modifiers THEN <<Str("private", 7), Str(" ", 1)>> ELSE <<>>)
       \o (IF p.comment THEN <<BlockComment("/*p*/"), Str(" ", 1)>> ELSE <<>>)
       \o <<Str(p.name, p.w)>>
       \o (IF p.hooks THEN <<Str(" ", 1), Str("{get;}", 6)>> ELSE <<>>))

\* Plausible bugs in the definitions below, which the runs must reject:
\* the length check dropped (only the first parameter is looked at) ...
ShouldHugAnyLength(s, pl) ==
  /\ pl.params # <<>>
  /\ LET p == pl.params[1] IN
       /\ ~p.comment
       /\ ~p.attrs /\ ~p.hooks
       /\ ~(p.modifiers /\ s.break_promoted_properties_list)

\* ... and the modifiers check dropped.
ShouldHugIgnoringModifiers(s, pl) ==
  /\ Len(pl.params) = 1
  /\ LET p == pl.params[1] IN ~p.comment /\ ~p.attrs /\ ~p.hooks

\* should_hug_the_only_parameter
ShouldHugTheOnlyParameter(s, pl) ==
  /\ Len(pl.params) = 1
  /\ LET p == pl.params[1] IN
       /\ ~p.comment
       /\ ~p.attrs /\ ~p.hooks
       /\ ~(p.modifiers /\ s.break_promoted_properties_list)

\* should_break: not hugging, the setting is on, and a parameter is promoted.
ShouldBreakParameters(s, pl, hug) ==
  /\ ~hug
  /\ s.break_promoted_properties_list
  /\ \E i \in DOMAIN pl.params : IsPromotedProperty(pl.params[i])

\* The loop filling `printed`: each parameter, and after every one but the
\* last a comma, then a space when hugging, else a line and, before a
\* blank source line, BreakParent and a hardline.
PrintedParameters(pl, hug) ==
  LET n == Len(pl.params)
      After(i) ==
        IF i = n THEN <<>>
        ELSE <<Str(",", 1)>>
             \o IF hug THEN <<Str(" ", 1)>>
                ELSE <<Line("line")>> \o IF pl.params[i].blankAfter
                                        THEN <<BreakParent, Line("hard")>> ELSE <<>>
  IN FlattenSeq([i \in 1..n |-> <<FormatParameter(pl.params[i])>> \o After(i)])

\* Plausible bugs in print_function_like_parameters: the trailing IfBreak
\* written without the non-empty check ...
PrintParametersCommaWhenEmpty(s, pl) ==
  LET hug     == ShouldHugTheOnlyParameter(s, pl)
      printed == PrintedParameters(pl, hug)
      dangling == PrintDanglingComments(pl.dangling, TRUE)
      parts   == << Str("(", 1), Indent(<<Line("soft")>> \o printed) >>
                 \o (IF s.trailing_comma THEN << IfBreak(Str(",", 1)) >> ELSE <<>>)
                 \o (IF dangling # <<>> THEN dangling ELSE <<Line("soft")>>)
                 \o << Str(")", 1) >>
  IN IF hug THEN Array(<< Str("(", 1) >> \o printed \o << Str(")", 1) >>)
     ELSE IF s.expand_first_argument THEN Array(parts)
     ELSE Group(parts, ShouldBreakParameters(s, pl, hug))

\* ... and the closing softline written in place of the dangling comments.
PrintParametersDroppingDangling(s, pl) ==
  LET hug     == ShouldHugTheOnlyParameter(s, pl)
      printed == PrintedParameters(pl, hug)
      body    == IF pl.params = <<>> THEN <<>>
                 ELSE << Indent(<<Line("soft")>> \o printed) >>
                      \o IF s.trailing_comma THEN << IfBreak(Str(",", 1)) >> ELSE <<>>
      parts   == << Str("(", 1) >> \o body \o << Line("soft"), Str(")", 1) >>
  IN IF hug THEN Array(<< Str("(", 1) >> \o printed \o << Str(")", 1) >>)
     ELSE IF s.expand_first_argument THEN Array(parts)
     ELSE Group(parts, ShouldBreakParameters(s, pl, hug))

\* print_function_like_parameters
PrintFunctionLikeParameters(s, pl) ==
  LET hug     == ShouldHugTheOnlyParameter(s, pl)
      brk     == ShouldBreakParameters(s, pl, hug)
      printed == PrintedParameters(pl, hug)
      body    == IF pl.params = <<>> THEN <<>>
                 ELSE << Indent(<<Line("soft")>> \o printed) >>
                      \o IF s.trailing_comma THEN << IfBreak(Str(",", 1)) >> ELSE <<>>
      dangling == PrintDanglingComments(pl.dangling, TRUE)
      parts   == << Str("(", 1) >> \o body
                 \o (IF dangling # <<>> THEN dangling ELSE <<Line("soft")>>)
                 \o << Str(")", 1) >>
  IN IF hug THEN Array(<< Str("(", 1) >> \o printed \o << Str(")", 1) >>)
     ELSE IF s.expand_first_argument THEN Array(parts)
     ELSE Group(parts, brk)

=============================================================================
