-------------------------------- MODULE Call --------------------------------
(***************************************************************************)
(* Method-call chains (crates/formatter/src/format/call.rs): collecting a  *)
(* chain from an expression, deciding whether its base needs parentheses,  *)
(* and lowering the chain to a document.                                   *)
(*                                                                         *)
(* An expression is a record whose field e names the variant.  Leaves      *)
(* (Variable, Binary, Closure ...) carry their token; Parenthesized an     *)
(* inner expression; Instantiation whether it has an argument list; Call   *)
(* its kind call ("Method", "NullSafeMethod", "Function", "StaticMethod"), *)
(* its object (method calls) or name, its method name and its arguments.   *)
(***************************************************************************)
EXTENDS Integers, Sequences, Document

LOCAL INSTANCE SequencesExt

MethodCalls == {"Method", "NullSafeMethod"}

IsMethodCall(x) == x.e = "Call" /\ x.call \in MethodCalls

\* The walk of collect_method_call_chain: follow `object` while the
\* expression is a method or null-safe method call, accumulating calls.
RECURSIVE CollectCalls(_, _)
CollectCalls(x, calls) ==
  IF IsMethodCall(x) THEN CollectCalls(x.object, Append(calls, x))
  ELSE [base |-> x, calls |-> calls]

\* A plausible bug: the accumulated calls not reversed.
CollectMethodCallChainUnreversed(x) ==
  LET r == CollectCalls(x, <<>>)
  IN IF r.calls = <<>> THEN <<>> ELSE << [base |-> r.base, calls |-> r.calls] >>

\* collect_method_call_chain: None (<<>>) or Some(chain) with the calls in
\* the order they are applied.
CollectMethodCallChain(x) ==
  LET r == CollectCalls(x, <<>>)
  IN IF r.calls = <<>> THEN <<>> ELSE << [base |-> r.base, calls |-> Reverse(r.calls)] >>

\* Expression variants a chain base must be parenthesised for.
OperatorLike ==
  {"Binary", "UnaryPrefix", "UnaryPostfix", "Assignment", "Conditional",
   "AnonymousClass", "Closure", "ArrowFunction", "Match", "Yield", "Clone"}

\* base_needs_parerns: through Parenthesized, always for Instantiation
\* (with or without arguments), and for the operator-like variants.
RECURSIVE BaseNeedsParens(_)
BaseNeedsParens(base) ==
  IF base.e = "Parenthesized" THEN BaseNeedsParens(base.inner)
  ELSE base.e = "Instantiation" \/ base.e \in OperatorLike

\* The link's operator: "->" for Method, "?->" for NullSafeMethod.
LinkOperator(c) == IF c.call = "Method" THEN Str("->", 2) ELSE Str("?->", 3)

(***************************************************************************)
(* The call-arguments routine shared by all calls (not in scope; spec      *)
(* 4.4.2 says only that a link's arguments go through it inside a Group):  *)
(* "(" then the arguments, comma separated, in an Indent opened by a       *)
(* softline, then a softline and ")".                                      *)
(***************************************************************************)
PrintCallArguments(fmtArgs) ==
  IF fmtArgs = <<>> THEN Array(<<Str("(", 1), Str(")", 1)>>)
  ELSE LET n == Len(fmtArgs)
           items == FlattenSeq([i \in 1..n |-> <<fmtArgs[i]>> \o
                                  IF i < n THEN <<Str(",", 1), Line("line")>> ELSE <<>>])
       IN Array(<<Str("(", 1), Indent(<<Line("soft")>> \o items), Line("soft"), Str(")", 1)>>)

(***************************************************************************)
(* print_method_call_chain, given the chain, the formatted base, the       *)
(* formatted argument lists of its calls (fmtArgs[i] for calls[i]) and     *)
(* whether method_chain_breaking_style is NextLine.                        *)
(***************************************************************************)
\* A plausible bug: the style test inverted.
PrintMethodCallChainStyleInverted(chain, fmtBase, fmtArgs, nextLine) ==
  LET parts == IF BaseNeedsParens(chain.base)
               THEN <<Str("(", 1), fmtBase, Str(")", 1)>> ELSE <<fmtBase>>
      c == chain.calls
      Link(i) == <<LinkOperator(c[i]), Str(c[i].method, 2), Group(<<fmtArgs[i]>>, FALSE)>>
      inline == IF nextLine THEN Link(1) ELSE <<>>
      from == IF nextLine THEN 2 ELSE 1
      rest == [j \in 1..(Len(c) - from + 1) |-> Indent(<<Line("hard")>> \o Link(j + from - 1))]
  IN Group(parts \o inline \o rest \o <<BreakParent>>, FALSE)

PrintMethodCallChain(chain, fmtBase, fmtArgs, nextLine) ==
  LET parts == IF BaseNeedsParens(chain.base)
               THEN <<Str("(", 1), fmtBase, Str(")", 1)>> ELSE <<fmtBase>>
      c == chain.calls
      Link(i) == <<LinkOperator(c[i]), Str(c[i].method, 2), Group(<<fmtArgs[i]>>, FALSE)>>
      \* SameLine: the first link stays next to the base.
      inline == IF ~nextLine THEN Link(1) ELSE <<>>
      from == IF ~nextLine THEN 2 ELSE 1
      \* Every remaining link: a hardline and the link, indented.
      rest == [j \in 1..(Len(c) - from + 1) |-> Indent(<<Line("hard")>> \o Link(j + from - 1))]
  IN Group(parts \o inline \o rest \o <<BreakParent>>, FALSE)

(***************************************************************************)
(* Formatting an expression (the expression formatter is not in scope).    *)
(* A method call goes through the chain printer (spec 4.4.2: a chain of    *)
(* length 1 or more is eligible); Parenthesized writes its inner           *)
(* expression, the chain printer adding the parentheses a base needs.      *)
(***************************************************************************)
RECURSIVE FormatExpression(_, _)
FormatExpression(x, nextLine) ==
  LET FmtArgs(c) == PrintCallArguments([i \in DOMAIN c.args |-> FormatExpression(c.args[i], nextLine)])
  IN CASE IsMethodCall(x) ->
            LET chain == CollectMethodCallChain(x)[1]
            IN PrintMethodCallChain(chain, FormatExpression(chain.base, nextLine),
                                    [i \in DOMAIN chain.calls |-> FmtArgs(chain.calls[i])],
                                    nextLine)
       [] x.e = "Parenthesized" -> FormatExpression(x.inner, nextLine)
       [] x.e = "Instantiation" ->
            Array(<<Str("new A", 5)>> \o IF x.args THEN <<Str("(", 1), Str(")", 1)>> ELSE <<>>)
       [] x.e = "Call" -> Array(<<Str(x.name, x.w), FmtArgs(x)>>)
       [] OTHER -> Str(x.name, x.w)

=============================================================================
