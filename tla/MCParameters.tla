---------------------------- MODULE MCParameters ----------------------------
(***************************************************************************)
(* Model-checks print_function_like_parameters followed by the layout      *)
(* engine.  Init picks a parameter list and the settings it is formatted   *)
(* under; the list follows the declaration head `function f`.  When        *)
(* argument_state.expand_first_argument is set the list is returned as a   *)
(* bare Array and the group deciding its layout is the caller's argument   *)
(* group, which the model puts around it.                                  *)
(***************************************************************************)
EXTENDS Integers, Sequences, FiniteSets, TLC, Layout, Parameters

LOCAL INSTANCE SequencesExt

CONSTANTS MaxParams,    \* longest parameter list enumerated
          ShortWidth,   \* width of a short parameter name
          LongWidth     \* width of a long parameter name

VARIABLE input          \* [s |-> settings, pl |-> parameter list]

vars == <<input, doc, cmds, out, decisions>>

Names == <<"$p1", "$p2", "$p3", "$p4">>

ASSUME MaxParams \in 1..Len(Names)

\* The parameter shapes enumerated: plain short or long, a promoted
\* property with and without hooks (hooks exist only on promoted
\* constructor parameters), with an attribute, with a comment, and one
\* followed by a blank line in the source.
Shapes ==
  LET P(w, m, a, h, c, b) ==
        [w |-> w, modifiers |-> m, attrs |-> a, hooks |-> h, comment |-> c, blankAfter |-> b]
  IN { P(ShortWidth, FALSE, FALSE, FALSE, FALSE, FALSE),
       P(LongWidth,  FALSE, FALSE, FALSE, FALSE, FALSE),
       P(ShortWidth, TRUE,  FALSE, FALSE, FALSE, FALSE),
       P(ShortWidth, TRUE,  FALSE, TRUE,  FALSE, FALSE),
       P(ShortWidth, FALSE, TRUE,  FALSE, FALSE, FALSE),
       P(ShortWidth, FALSE, FALSE, FALSE, TRUE,  FALSE),
       P(ShortWidth, FALSE, FALSE, FALSE, FALSE, TRUE) }

Lists ==
  LET ParamSeqs == UNION { [1..n -> Shapes] : n \in 1..MaxParams }
  IN  { [params |-> [i \in DOMAIN ss |-> [name |-> Names[i]] @@ ss[i]], dangling |-> <<>>]
          : ss \in ParamSeqs }
      \* a comment between empty parentheses is the only dangling one: with
      \* a parameter present it attaches to that parameter (spec 7).
      \cup { [params |-> <<>>, dangling |-> d]
               : d \in {<<>>, <<BlockComment("/*d*/")>>} }

Settings ==
  [trailing_comma : BOOLEAN, break_promoted_properties_list : BOOLEAN,
   expand_first_argument : BOOLEAN]

\* expand_first_argument is set while the first argument of a call, a
\* closure, is formatted; promoted properties exist only on constructors.
Inputs ==
  { i \in [s : Settings, pl : Lists] :
      i.s.expand_first_argument
        => \A j \in DOMAIN i.pl.params : ~IsPromotedProperty(i.pl.params[j]) }

Head0 == Str("function f", 10)

RootDoc(i) ==
  LET list == PrintFunctionLikeParameters(i.s, i.pl)
  IN IF i.s.expand_first_argument THEN Group(<<Head0, list>>, FALSE) ELSE Array(<<Head0, list>>)

Init == \E i \in Inputs : input = i /\ LayoutInit(RootDoc(i))

Next == LayoutNext /\ UNCHANGED input

Spec == Init /\ [][Next]_vars /\ WF_vars(Next /\ cmds # <<>>)

-----------------------------------------------------------------------------
Params == input.pl.params
N == Len(Params)

TypeOK ==
  /\ input \in Inputs
  /\ LayoutTypeOK

\* The output tokens that are not blanks.
Visible == SelectSeq(OutTokens, LAMBDA t : t.s # " ")

\* The visible token written just before the final ")".
BeforeClose == Visible[Len(Visible) - 1].s

MultiLine == Len(out) > 1

Commas == Cardinality({j \in DOMAIN Visible : Visible[j].s = ","})

\* More commas than the N - 1 separators: a trailing comma was written.
HasTrailingComma == Commas > (IF N = 0 THEN 0 ELSE N - 1)

(***************************************************************************)
(* P6, trailing-comma discipline: with trailing_comma on, a non-empty list *)
(* that renders over several lines ends with a comma right before ")",     *)
(* and one that renders on one line has none; an empty list, or any list   *)
(* with the setting off, never has one.  It depends on the IfBreak reading *)
(* the mode of the group that really broke, across hugging, the bare Array *)
(* of expand-first-argument and dangling comments.                         *)
(***************************************************************************)
TrailingCommaDiscipline ==
  Done =>
    /\ HasTrailingComma => BeforeClose = ","
    /\ IF input.s.trailing_comma /\ N > 0
       THEN HasTrailingComma <=> MultiLine
       ELSE ~HasTrailingComma

\* Index of the first line holding a token named t.
LineOf(t) ==
  CHOOSE l \in DOMAIN out :
    /\ \E j \in DOMAIN out[l].toks : out[l].toks[j].s = t
    /\ \A m \in 1..(l - 1) : \A j \in DOMAIN out[m].toks : out[m].toks[j].s # t

(***************************************************************************)
(* break_promoted_properties_list: when the setting is on and a parameter  *)
(* is a promoted property, every parameter is written on a line of its     *)
(* own, below "(" and above ")".  Both the hug predicate (a lone promoted  *)
(* parameter must not be hugged) and the group's break flag take part.     *)
(***************************************************************************)
PromotedListBreaks ==
  (Done /\ input.s.break_promoted_properties_list
        /\ \E i \in 1..N : IsPromotedProperty(Params[i]))
    => \A i \in 1..N :
         /\ LineOf(Params[i].name) \notin {1, Len(out)}
         /\ \A j \in 1..N \ {i} : LineOf(Params[i].name) # LineOf(Params[j].name)

\* Width a parameter's own tokens take on a line (reference, from the input).
OwnWidth(p) ==
  p.w + (IF p.attrs THEN 5 ELSE 0) + (IF p.modifiers THEN 8 ELSE 0)
      + (IF p.comment THEN 6 ELSE 0) + (IF p.hooks THEN 7 ELSE 0)

(***************************************************************************)
(* P2 for lists that can break: when a list has two or more parameters     *)
(* and each of them, indented and followed by a comma, fits the print      *)
(* width, no output line is wider than print_width.  Only a hugged list    *)
(* may run past the width (see the run parameters_width_p2).               *)
(***************************************************************************)
WidthRespected ==
  (Done /\ N >= 2 /\ \A i \in 1..N : IndentWidth + OwnWidth(Params[i]) + 1 <= PrintWidth)
    => \A l \in DOMAIN out : LineWidth(out[l]) <= PrintWidth

\* Names of the tokens a parameter list must carry through: parameters and
\* comments, in source order.
Carried == {"/*p*/", "/*d*/"} \cup {Names[i] : i \in 1..Len(Names)}

ExpectedCarried ==
  FlattenSeq([i \in 1..N |-> (IF Params[i].comment THEN <<"/*p*/">> ELSE <<>>)
                               \o <<Params[i].name>>])
  \o [i \in DOMAIN input.pl.dangling |-> input.pl.dangling[i].s]

(***************************************************************************)
(* P4 for parameter lists: every parameter and every comment of the list   *)
(* appears in the output exactly once and in source order, dangling        *)
(* comments of an empty list included.                                     *)
(***************************************************************************)
ParametersPreserved ==
  Done =>
    LET kept == SelectSeq(Visible, LAMBDA t : t.s \in Carried)
    IN [j \in DOMAIN kept |-> kept[j].s] = ExpectedCarried

-----------------------------------------------------------------------------
(***************************************************************************)
(* Spec section 8, P2 as written: every output line that holds no atom     *)
(* wider than print_width is at most print_width wide.  A hugged list      *)
(* (should_hug_the_only_parameter) is an Array with no break point.        *)
(***************************************************************************)
WidthSpecP2 ==
  \A l \in DOMAIN out :
    (\A j \in DOMAIN out[l].toks : out[l].toks[j].w <= PrintWidth)
      => LineWidth(out[l]) <= PrintWidth

=============================================================================
