------------------------------ MODULE Arithmetic ------------------------------
(***************************************************************************)
(* evaluateArithmetic: a recursive-descent parser.  The value it computes  *)
(* is kept as the operations it applies, so that two ways to read an       *)
(* expression are told apart whatever the numbers; tokens are strings.     *)
(***************************************************************************)
EXTENDS Integers, Sequences

CONSTANT MaxDepth  \* MAX_DEPTH

Numbers == {"1", "2"}
Arity == [max |-> 1 .. 100, abs |-> 1 .. 1]
Refused == [refused |-> TRUE]

Value(op, args) == [op |-> op, args |-> args]
At(value, next) == [refused |-> FALSE, value |-> value, next |-> next]

Token(tokens, i) == IF i \in DOMAIN tokens THEN tokens[i] ELSE "end"

RECURSIVE Expression(_, _, _), Sum(_, _, _), Term(_, _, _), Product(_, _, _),
          Unary(_, _, _), Power(_, _, _), Primary(_, _, _), Arguments(_, _, _, _)

\* nested, around a whole expression.
Expression(tokens, i, depth) ==
  IF depth + 1 > MaxDepth THEN Refused
  ELSE Sum(tokens, Term(tokens, i, depth + 1), depth + 1)

Sum(tokens, left, depth) ==
  IF left.refused \/ Token(tokens, left.next) \notin {"+", "-"} THEN left
  ELSE LET right == Term(tokens, left.next + 1, depth) IN
       IF right.refused THEN Refused
       ELSE Sum(tokens,
                At(Value(tokens[left.next], <<left.value, right.value>>), right.next), depth)

Term(tokens, i, depth) == Product(tokens, Unary(tokens, i, depth), depth)

\* (A mistake, for the mutant runs: what follows is read first.)
ProductFromRight(tokens, left, depth) ==
  IF left.refused \/ Token(tokens, left.next) \notin {"*", "/", "%"} THEN left
  ELSE LET right == Term(tokens, left.next + 1, depth) IN
       IF right.refused THEN Refused
       ELSE At(Value(tokens[left.next], <<left.value, right.value>>), right.next)

Product(tokens, left, depth) ==
  IF left.refused \/ Token(tokens, left.next) \notin {"*", "/", "%"} THEN left
  ELSE LET right == Unary(tokens, left.next + 1, depth) IN
       IF right.refused THEN Refused
       ELSE Product(tokens,
                    At(Value(tokens[left.next], <<left.value, right.value>>), right.next), depth)

Unary(tokens, i, depth) ==
  IF Token(tokens, i) \notin {"-", "+"} THEN Power(tokens, i, depth)
  ELSE IF depth + 1 > MaxDepth THEN Refused
  ELSE LET operand == Unary(tokens, i + 1, depth + 1) IN
       IF operand.refused \/ tokens[i] = "+" THEN operand
       ELSE At(Value("neg", <<operand.value>>), operand.next)

\* (A mistake, for the mutant runs: a power of a power goes to the left.)
PowerOfPrimary(tokens, i, depth) ==
  LET base == Primary(tokens, i, depth) IN
  IF base.refused \/ Token(tokens, base.next) # "^" THEN base
  ELSE LET exponent == Primary(tokens, base.next + 1, depth) IN
       IF exponent.refused THEN Refused
       ELSE At(Value("^", <<base.value, exponent.value>>), exponent.next)

\* Binds tighter than the minus before it, and takes one after it.
Power(tokens, i, depth) ==
  LET base == Primary(tokens, i, depth) IN
  IF base.refused \/ Token(tokens, base.next) # "^" THEN base
  ELSE LET exponent == Unary(tokens, base.next + 1, depth) IN
       IF exponent.refused THEN Refused
       ELSE At(Value("^", <<base.value, exponent.value>>), exponent.next)

Closed(tokens, inner, value) ==
  IF inner.refused \/ Token(tokens, inner.next) # ")" THEN Refused ELSE At(value, inner.next + 1)

Primary(tokens, i, depth) ==
  CASE Token(tokens, i) \in Numbers -> At(Value(tokens[i], <<>>), i + 1)
    [] Token(tokens, i) = "(" ->
         LET inner == Expression(tokens, i + 1, depth) IN
         IF inner.refused THEN Refused ELSE Closed(tokens, inner, inner.value)
    [] Token(tokens, i) \in DOMAIN Arity /\ Token(tokens, i + 1) = "(" ->
         LET first == Arguments(tokens, i + 2, depth, <<>>)
             none == Token(tokens, i + 2) = ")"
             inner == IF none THEN [refused |-> FALSE, value |-> <<>>, next |-> i + 2] ELSE first
         IN IF inner.refused \/ Len(inner.value) \notin Arity[tokens[i]] THEN Refused
            ELSE Closed(tokens, inner, Value(tokens[i], inner.value))
    [] OTHER -> Refused

\* The arguments of a call, each an expression.
Arguments(tokens, i, depth, args) ==
  LET argument == Expression(tokens, i, depth) IN
  IF argument.refused THEN Refused
  ELSE LET all == Append(args, argument.value) IN
       IF Token(tokens, argument.next) = "," THEN Arguments(tokens, argument.next + 1, depth, all)
       ELSE At(all, argument.next)

\* (A mistake, for the mutant runs: what follows the expression is ignored.)
EvaluatePrefix(tokens) ==
  LET all == Expression(tokens, 1, 0) IN IF all.refused THEN Refused ELSE all.value

\* parse: all of it, and nothing after.
Evaluate(tokens) ==
  LET all == Expression(tokens, 1, 0) IN
  IF all.refused \/ all.next # Len(tokens) + 1 THEN Refused ELSE all.value

-----------------------------------------------------------------------------
\* The grammar: what is written for a value.  In full, each operand in parentheses.

Level(value) ==
  CASE value.op \in {"+", "-"} -> 1
    [] value.op \in {"*", "/", "%"} -> 2
    [] value.op = "neg" -> 3
    [] value.op = "^" -> 4
    [] OTHER -> 5

Operands(value) ==
  CASE value.op \in {"+", "-"} -> <<1, 2>>
    [] value.op \in {"*", "/", "%"} -> <<2, 3>>
    [] value.op = "neg" -> <<3>>
    [] value.op = "^" -> <<5, 3>>
    [] OTHER -> <<1, 1>>

InParentheses(value, least, full) == Level(value) < least \/ (full /\ Level(value) < 5)

RECURSIVE Written(_, _, _), Nested(_, _, _)
Written(value, least, full) ==
  LET arg(i) == Written(value.args[i], Operands(value)[i], full)
      text == CASE value.args = <<>> -> <<value.op>>
                [] value.op = "neg" -> <<"-">> \o arg(1)
                [] Level(value) = 5 ->
                     <<value.op, "(">> \o arg(1)
                       \o (IF Len(value.args) = 2 THEN <<",">> \o arg(2) ELSE <<>>) \o <<")">>
                [] OTHER -> arg(1) \o <<value.op>> \o arg(2)
  IN IF InParentheses(value, least, full) THEN <<"(">> \o text \o <<")">> ELSE text

\* How deep the parser goes to read it.
Nested(value, least, full) ==
  LET arg(i) == Nested(value.args[i], Operands(value)[i], full)
      deepest == IF value.args = <<>> THEN 0
                 ELSE CHOOSE n \in {arg(i) : i \in DOMAIN value.args} :
                        \A i \in DOMAIN value.args : arg(i) <= n
  IN deepest + (IF value.op \in {"neg", "abs", "max"} THEN 1 ELSE 0)
             + (IF InParentheses(value, least, full) THEN 1 ELSE 0)
=============================================================================
