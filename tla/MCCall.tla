------------------------------ MODULE MCCall ------------------------------
(***************************************************************************)
(* Model-checks method-call chains: Init builds a chain expression (a      *)
(* base and one to MaxLinks method or null-safe method calls, each with    *)
(* its arguments) and picks method_chain_breaking_style; the expression    *)
(* statement `<chain>;` is lowered and rendered.  An argument may itself   *)
(* be a one-link chain, so chains nest inside argument groups.             *)
(***************************************************************************)
EXTENDS Integers, Sequences, FiniteSets, TLC, Layout, Call

LOCAL INSTANCE SequencesExt

CONSTANTS MaxLinks   \* longest chain enumerated

VARIABLE input       \* [x |-> expression, nextLine |-> style is NextLine]

vars == <<input, doc, cmds, out, decisions>>

Methods == <<"m1", "m2", "m3", "m4">>

ASSUME MaxLinks \in 1..Len(Methods)

Leaf(kind, tok, w) == [e |-> kind, name |-> tok, w |-> w]
Paren(x) == [e |-> "Parenthesized", inner |-> x]

\* Bases as the parser delivers them: a variable, a function or static
\* call, `new A()` (allowed unparenthesised before -> since PHP 8.4), and
\* parenthesised expressions, among them an operator, a closure and an
\* instantiation without arguments.
Bases ==
  { Leaf("Variable", "$v", 2),
    [e |-> "Call", call |-> "Function", name |-> "f", w |-> 1, args |-> <<>>],
    [e |-> "Call", call |-> "StaticMethod", name |-> "A::s", w |-> 4, args |-> <<>>],
    [e |-> "Instantiation", args |-> TRUE],
    Paren(Leaf("Variable", "$v", 2)), Paren(Leaf("Binary", "$x+$y", 5)),
    Paren(Leaf("Closure", "fn(){}", 6)), Paren([e |-> "Instantiation", args |-> FALSE]) }

\* Argument lists: none, a short or a long variable, or a one-link chain.
ArgLists ==
  { <<>>, <<Leaf("Variable", "$a", 2)>>, <<Leaf("Variable", "$longArg", 8)>>,
    << [e |-> "Call", call |-> "Method", object |-> Leaf("Variable", "$u", 2),
        method |-> "n", args |-> <<>>] >> }

Link == [call : MethodCalls, args : ArgLists]

\* The expression applying links ls, in order, to base.
RECURSIVE Chained(_, _)
Chained(base, ls) ==
  IF ls = <<>> THEN base
  ELSE LET k == Len(ls) IN
       [e |-> "Call", call |-> ls[k].call, object |-> Chained(base, SubSeq(ls, 1, k - 1)),
        method |-> Methods[k], args |-> ls[k].args]

Inputs ==
  { [x |-> Chained(b, ls), nextLine |-> nl, links |-> Len(ls)]
      : b \in Bases, ls \in UNION { [1..n -> Link] : n \in 1..MaxLinks }, nl \in BOOLEAN }

RootDoc(i) == Array(<<FormatExpression(i.x, i.nextLine), Str(";", 1)>>)

Init == \E i \in Inputs : input = i /\ LayoutInit(RootDoc(i))

Next == LayoutNext /\ UNCHANGED input

Spec == Init /\ [][Next]_vars /\ WF_vars(Next /\ cmds # <<>>)

-----------------------------------------------------------------------------
TypeOK == input \in Inputs /\ LayoutTypeOK

VisibleNames ==
  LET v == SelectSeq(OutTokens, LAMBDA t : t.s # " ") IN [j \in DOMAIN v |-> v[j].s]

\* Reference: expressions PHP parses as a primary, which may stand before
\* -> unparenthesised; `new A()` may (PHP 8.4) but need not.
Primary == {"Variable", "Call"}

RECURSIVE Strip(_)
Strip(x) == IF x.e = "Parenthesized" THEN Strip(x.inner) ELSE x

\* Reference: every token sequence that prints expression x faithfully,
\* with parentheses around an object of -> exactly where PHP needs them.
RECURSIVE Printings(_), ArgPrintings(_), ObjectPrintings(_)
Printings(x) ==
  CASE IsMethodCall(x) ->
         { o \o <<IF x.call = "Method" THEN "->" ELSE "?->", x.method>> \o a
             : o \in ObjectPrintings(x.object), a \in ArgPrintings(x.args) }
    [] x.e = "Parenthesized" -> Printings(x.inner)
    [] x.e = "Instantiation" -> { <<"new A">> \o IF x.args THEN <<"(", ")">> ELSE <<>> }
    [] x.e = "Call" -> { <<x.name>> \o a : a \in ArgPrintings(x.args) }
    [] OTHER -> { <<x.name>> }
ArgPrintings(as) ==
  IF as = <<>> THEN { <<"(", ")">> }
  ELSE { <<"(">> \o p \o <<")">> : p \in Printings(as[1]) }
ObjectPrintings(o) ==
  LET s == Strip(o)
      Wrapped == { <<"(">> \o p \o <<")">> : p \in Printings(s) }
  IN IF s.e \in Primary THEN Printings(s)
     ELSE IF s.e = "Instantiation" /\ s.args THEN Printings(s) \cup Wrapped
     ELSE Wrapped

(***************************************************************************)
(* The chain reprints its source: the output, blanks aside, is a faithful  *)
(* printing of the expression: every call in the order it is applied,      *)
(* each operator and argument list with its call, and the base in          *)
(* parentheses exactly where PHP would otherwise bind the -> differently.  *)
(***************************************************************************)
ChainReprintsSource ==
  Done => \E p \in Printings(input.x) : VisibleNames = p \o <<";">>

\* Line of the token naming method m.
LineOfMethod(m) ==
  CHOOSE l \in DOMAIN out : \E j \in DOMAIN out[l].toks : out[l].toks[j].s = m

(***************************************************************************)
(* Chain layout: with SameLine the first link stays on the base's line;    *)
(* every other link (every link with NextLine) starts a line of its own,   *)
(* one level deeper than the base, with its -> or ?-> operator first.      *)
(***************************************************************************)
LinksOnOwnLines ==
  Done =>
    \A i \in 1..input.links :
      LET l == LineOfMethod(Methods[i]) IN
      IF i = 1 /\ ~input.nextLine THEN l = 1
      ELSE /\ out[l].ind = 1
           /\ out[l].toks[1].s \in {"->", "?->"}
           /\ out[l].toks[2].s = Methods[i]

=============================================================================
