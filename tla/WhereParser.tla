----------------------------- MODULE WhereParser -----------------------------
(***************************************************************************)
(* The WHERE expressions of the telemetry queries: ParseWhereExpression    *)
(* turns the tokens into postfix order with a stack of operators, one      *)
(* token a step, and EvaluateWhereExpression runs the result for a line.   *)
(* What the tokens mean is said apart from both, by the grammar.           *)
(***************************************************************************)
EXTENDS Integers, SequencesExt

CONSTANTS
    Predicates,  \* tokens that ParseWherePredicateToken accepts
    Malformed,   \* a token that it refuses
    MaxTokens    \* bound: length of the expression

ASSUME WhereAssumption ==
    /\ Predicates # {} /\ MaxTokens \in Nat
    /\ {"(", ")", "NOT", "AND", "OR", Malformed} \cap Predicates = {}
    /\ Malformed \notin {"(", ")", "NOT", "AND", "OR"}

Precedence == [NOT |-> 3, AND |-> 2, OR |-> 1]
Operators == {"NOT", "AND", "OR"}
Tokens == Predicates \cup Operators \cup {"(", ")", Malformed}

VARIABLES
    read,        \* the tokens so far
    output,      \* the postfix expression
    opStack,     \* the operators and open groups
    expect,      \* expect_predicate
    parseStatus  \* "reading", "compiled", or where an error was found

parservars == <<read, output, opStack, expect, parseStatus>>

ParserInit ==
    /\ read = <<>> /\ output = <<>> /\ opStack = <<>>
    /\ expect = TRUE
    /\ parseStatus = "reading"

NextToken(t) ==
    /\ parseStatus = "reading"
    /\ Len(read) < MaxTokens
    /\ read' = Append(read, t)

Reject == parseStatus' = "rejected" /\ UNCHANGED <<output, opStack, expect>>

\* Where the stack's topmost element of S is; 0 if there is none.
Top(S) == Max({0} \cup {i \in DOMAIN opStack : opStack[i] \in S})

PopTo(k) == output' = output \o Reverse(SubSeq(opStack, k + 1, Len(opStack)))

OpenGroup ==
    /\ NextToken("(")
    /\ \/ ~ expect /\ Reject
       \/ /\ expect
          /\ opStack' = Append(opStack, "(")
          /\ UNCHANGED <<output, expect, parseStatus>>

CloseGroup ==
    /\ NextToken(")")
    /\ LET open == Top({"("})
       IN  \/ (expect \/ open = 0) /\ Reject
           \/ /\ ~ expect /\ open # 0
              /\ PopTo(open)
              /\ opStack' = SubSeq(opStack, 1, open - 1)
              /\ UNCHANGED <<expect, parseStatus>>

ReadNot ==
    /\ NextToken("NOT")
    /\ \/ ~ expect /\ Reject
       \/ /\ expect
          /\ opStack' = Append(opStack, "NOT")
          /\ UNCHANGED <<output, expect, parseStatus>>

\* Mutant: the comparison is the other way round.
BindingReversed(op) ==
    {"("} \cup {o \in Operators : Precedence[o] > Precedence[op]}

\* The operators of op's precedence or a higher one go to the output first.
Binding(op) == {"("} \cup {o \in Operators : Precedence[o] < Precedence[op]}

ReadOperator(op) ==
    /\ NextToken(op)
    /\ \/ expect /\ Reject
       \/ /\ ~ expect
          /\ PopTo(Top(Binding(op)))
          /\ opStack' = Append(SubSeq(opStack, 1, Top(Binding(op))), op)
          /\ expect' = TRUE
          /\ UNCHANGED parseStatus

ReadPredicate(t) ==
    /\ NextToken(t)
    /\ \/ (~ expect \/ t = Malformed) /\ Reject
       \/ /\ expect /\ t # Malformed
          /\ output' = Append(output, t)
          /\ expect' = FALSE
          /\ UNCHANGED <<opStack, parseStatus>>

EndOfTokens ==
    /\ parseStatus = "reading" /\ read # <<>>
    /\ \/ /\ expect \/ Top({"("}) # 0
          /\ parseStatus' = "incomplete"
          /\ UNCHANGED <<output, opStack>>
       \/ /\ ~ expect /\ Top({"("}) = 0
          /\ PopTo(0)
          /\ opStack' = <<>>
          /\ parseStatus' = "compiled"
    /\ UNCHANGED <<read, expect>>

ParserNext ==
    \/ OpenGroup \/ CloseGroup \/ ReadNot
    \/ \E op \in {"AND", "OR"} : ReadOperator(op)
    \/ \E t \in Predicates \cup {Malformed} : ReadPredicate(t)
    \/ EndOfTokens

ParserSpec == ParserInit /\ [][ParserNext]_parservars

-----------------------------------------------------------------------------
(* EvaluateWhereExpression, where holds is the set of the predicates that  *)
(* hold of the line.  Once the expression proves bad the answer is false.  *)

EvalToken(st, t, holds) ==
    LET n == Len(st.stack)
    IN  CASE st.bad -> st
          [] t \in Predicates -> [st EXCEPT !.stack = Append(@, t \in holds)]
          [] t = "NOT" /\ n > 0 -> [st EXCEPT !.stack[n] = ~ @]
          [] t \in {"AND", "OR"} /\ n > 1 ->
               LET lhs == st.stack[n - 1]
                   rhs == st.stack[n]
               IN  [st EXCEPT !.stack =
                      Append(SubSeq(@, 1, n - 2),
                             IF t = "AND" THEN lhs /\ rhs ELSE lhs \/ rhs)]
          [] OTHER -> [st EXCEPT !.bad = TRUE]

Evaluate(rpn, holds) ==
    LET end == FoldLeft(LAMBDA st, t : EvalToken(st, t, holds),
                        [stack |-> <<>>, bad |-> FALSE], rpn)
    IN  ~ end.bad /\ Len(end.stack) = 1 /\ end.stack[1]

-----------------------------------------------------------------------------
(* The grammar: OR binds loosest, AND tighter, NOT tightest.               *)

\* The groups that are open after the first i tokens.
Depth(s, i) ==
    Cardinality({j \in 1..i : s[j] = "("}) - Cardinality({j \in 1..i : s[j] = ")"})

\* The places of op in a..b outside all groups that are there.
Outside(s, a, b, op) == {i \in a..b : s[i] = op /\ Depth(s, i) = Depth(s, a - 1)}

\* A line is told by the predicates that hold of it.
Lines == SUBSET Predicates

\* The lines that the n tokens from place a on may ask for: one set if they are
\* an expression, else none.  shorter[k][c] are those of the k tokens from c on.
SpanMeaning(s, a, n, shorter) ==
    LET b == a + n - 1
        ors == Outside(s, a, b, "OR")
        ands == Outside(s, a, b, "AND")
        Left(places) == shorter[Max(places) - a][a]
        Right(places) == shorter[b - Max(places)][Max(places) + 1]
        tight == ors = {} /\ ands = {}
    IN  CASE ors # {} -> {p \cup q : p \in Left(ors), q \in Right(ors)}
          [] ors = {} /\ ands # {} -> {p \cap q : p \in Left(ands), q \in Right(ands)}
          [] tight /\ n > 1 /\ s[a] = "NOT" -> {Lines \ p : p \in shorter[n - 1][a + 1]}
          [] tight /\ n > 1 /\ s[a] = "(" /\ s[b] = ")" -> shorter[n - 2][a + 1]
          [] tight /\ n = 1 /\ s[a] \in Predicates -> {{l \in Lines : s[a] \in l}}
          [] OTHER -> {}

Meaning(s) ==
    LET meanings[n \in 0..Len(s)] ==
            [a \in 1..(Len(s) + 1 - n) |-> SpanMeaning(s, a, n, meanings)]
    IN  meanings[Len(s)][1]

IsExpression(s) == Meaning(s) # {}

\* The tokens with an operand and closing parentheses after them, where missing.
Completed(s) ==
    LET operand == IF s # <<>> /\ Last(s) \in Predicates \cup {")"}
                   THEN <<>> ELSE <<CHOOSE p \in Predicates : TRUE>>
    IN  s \o operand \o [i \in 1..Max({0, Depth(s, Len(s))}) |-> ")"]

\* What is compiled evaluates, for every line, to what the grammar says, so
\* that no malformed expression is compiled and the evaluator never runs short.
CompiledAsWritten ==
    parseStatus = "compiled" => Meaning(read) = {{l \in Lines : Evaluate(output, l)}}

\* An error is reported only where no expression begins like this, at the end
\* only of what is no expression.
RefusesNoExpression ==
    /\ parseStatus = "rejected" => ~ IsExpression(Completed(read))
    /\ parseStatus = "incomplete" => ~ IsExpression(read)

\* The compiler accepts the expressions of the grammar, no others, and gives
\* each the meaning that the grammar does.
ParsesTheGrammar == CompiledAsWritten /\ RefusesNoExpression
=============================================================================
