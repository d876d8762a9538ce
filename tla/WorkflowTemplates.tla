--------------------------- MODULE WorkflowTemplates ---------------------------
(***************************************************************************)
(* The expressions of a workflow's bindings and conditions                 *)
(* (src/app/automation/template.py) and what they are resolved against:    *)
(* the run's inputs, the outputs of its steps and the scope of a loop      *)
(* (src/app/automation/context.py).                                        *)
(*                                                                         *)
(* A value is <<"none">>, <<"num", n>>, <<"bool", b>>, <<"text", t>>,      *)
(* <<"map", f>> or <<"list", s>>.  A text is a sequence of tokens, a word  *)
(* or an expression in ${}.  An expression is its segments between dots, a *)
(* segment the pieces that brackets split it into.                         *)
(***************************************************************************)
EXTENDS Integers, Sequences, SequencesExt, FiniteSets

CONSTANTS
    Inputs,       \* the inputs a run may have
    Results,      \* what a step may return
    Items,        \* what a loop may go through
    Expressions,  \* expressions that occur in texts
    Words         \* words that occur in texts, in the order of the alphabet

VARIABLES
    inputs,   \* WorkflowRunContext._inputs
    outputs,  \* OutputStore._outputs
    scope     \* ScopedRunContext._inputs of a loop's body; none outside of one

vars == <<inputs, outputs, scope>>

None == <<"none">>
Word(w) == <<"word", w>>
Quoted(e) == <<"expr", e>>
Numeral == [n \in {"-1", "0", "1"} |-> CASE n = "-1" -> -1 [] n = "0" -> 0 [] OTHER -> 1]

Init ==
    /\ inputs \in Inputs /\ scope = [x \in {} |-> None]
    /\ outputs = [s \in {} |-> None]

-----------------------------------------------------------------------------
(* Paths. *)
Down(value, piece) ==
    CASE value[1] = "map" /\ piece \in DOMAIN value[2] -> value[2][piece]
      [] value[1] = "list" /\ piece \in DOMAIN Numeral /\ Numeral[piece] \in 0..(Len(value[2]) - 1) ->
            value[2][Numeral[piece] + 1]
      [] OTHER -> None

(* _get_path, for inputs: brackets split a segment. *)
GetPath(value, segments) == FoldLeft(Down, value, FlattenSeq(segments))

(* _traverse_output, for outputs: they do not, and an index may count from   *)
(* the end.                                                                  *)
DownOutput(value, segment) ==
    IF Len(segment) > 1 THEN None
    ELSE IF value[1] = "list" /\ segment[1] = "-1" /\ value[2] # <<>> THEN Last(value[2])
    ELSE Down(value, segment[1])

Traverse(value, segments) ==
    LET marked == segments # <<>> /\ Head(segments) = <<"output">>
        whole == IF marked /\ value[1] = "map" /\ "output" \in DOMAIN value[2]
                 THEN value[2]["output"] ELSE value
    IN  FoldLeft(DownOutput, whole, IF marked THEN Tail(segments) ELSE segments)

(* A None of the loop's scope lets the input of that name through. *)
ResolveInput(name) ==
    IF name \in DOMAIN scope /\ scope[name] # None THEN scope[name]
    ELSE IF name \in DOMAIN inputs THEN inputs[name] ELSE None

ResolveStep(step, path) ==
    Traverse(IF step \in DOMAIN outputs THEN outputs[step] ELSE None, path)

(* The name of an input or a step is not split. *)
Named(segment) == IF Len(segment) = 1 THEN segment[1] ELSE "?"
Rest(path) == SubSeq(path, 3, Len(path))

Resolved(path) ==
    CASE path[1] = <<"inputs">> ->
            IF Len(path) = 1 THEN None ELSE GetPath(ResolveInput(Named(path[2])), Rest(path))
      [] path[1] = <<"step">> /\ Len(path) > 1 -> ResolveStep(Named(path[2]), Rest(path))
      [] OTHER -> None

-----------------------------------------------------------------------------
(* Bindings. *)
Stringify(value) ==
    CASE value = None -> <<>>
      [] value[1] = "text" -> value[2]
      [] value[1] = "bool" -> <<Word(IF value[2] THEN "true" ELSE "false")>>
      [] OTHER -> <<<<"str", value>>>>

ExpressionsOf(text) == SelectSeq(text, LAMBDA t : t[1] = "expr")

Replaced(text, token, by) ==
    FlattenSeq([i \in DOMAIN text |-> IF text[i] = token THEN by ELSE <<text[i]>>])

(* One after the other: what has been put in is searched with the rest.      *)
Substituted(text) ==
    FoldLeft(LAMBDA done, t : Replaced(done, t, Stringify(Resolved(t[2]))),
             text, ExpressionsOf(text))

(* resolve_bindings. *)
Bound(text) ==
    IF Len(text) = 1 + Len(SelectSeq(text, LAMBDA t : t = Word(" ")))
         /\ Len(ExpressionsOf(text)) = 1
    THEN Resolved(ExpressionsOf(text)[1][2])
    ELSE <<"text", Substituted(text)>>

-----------------------------------------------------------------------------
(* Conditions: empty, a word, or an expression and what follows it. *)
TrueWords == {"true", "1", "yes", "on"}
FalseWords == {"false", "0", "no", "off"}

Truth(value) ==
    CASE value = None -> FALSE
      [] value[1] = "bool" -> value[2]
      [] value[1] = "num" -> value[2] # 0
      [] value[1] = "text" /\ Len(value[2]) = 1 /\ value[2][1][1] = "word" ->
            value[2][1][2] \notin FalseWords \cup {" "}
      [] value[1] = "map" -> DOMAIN value[2] # {}
      [] OTHER -> value[2] # <<>>

Operators == <<"==", "!=", ">=", "<=", ">", "<">>

(* A truth is a number too.  Texts that are compared are a word or empty. *)
IsNumber(value) == value[1] \in {"num", "bool"}
Rank(value) ==
    CASE value[1] = "num" -> value[2]
      [] value[1] = "bool" -> IF value[2] THEN 1 ELSE 0
      [] value[1] = "text" -> IF value[2] = <<>> THEN -1
                              ELSE SelectInSeq(Words, LAMBDA w : Word(w) = value[2][1])

Equal(left, right) ==
    IF IsNumber(left) /\ IsNumber(right) THEN Rank(left) = Rank(right) ELSE left = right

(* Others have no order: Python raises, which is FALSE. *)
Comparable(left, right) ==
    (IsNumber(left) /\ IsNumber(right)) \/ (left[1] = "text" /\ right[1] = "text")

Compare(left, op, right) ==
    CASE op = "==" -> Equal(left, right)
      [] op = "!=" -> ~Equal(left, right)
      [] op = ">=" -> Comparable(left, right) /\ Rank(left) >= Rank(right)
      [] op = "<=" -> Comparable(left, right) /\ Rank(left) <= Rank(right)
      [] op = ">"  -> Comparable(left, right) /\ Rank(left) > Rank(right)
      [] op = "<"  -> Comparable(left, right) /\ Rank(left) < Rank(right)

(* What follows is a sequence of operators and operands: the first operator  *)
(* of the list that occurs counts, wherever it stands, and what is after it  *)
(* is one expression, one literal, or a text.                                *)
FoundOperator(tail) ==
    LET found == SelectSeq(Operators, LAMBDA op : <<"op", op>> \in ToSet(tail))
    IN  IF found = <<>> THEN "none" ELSE found[1]

Operand(tokens) ==
    IF Len(tokens) # 1 THEN <<"text", tokens>>
    ELSE IF tokens[1][1] = "expr" THEN Resolved(tokens[1][2])
    ELSE tokens[1]

Holds(path, tail) ==
    LET op == FoundOperator(tail)
        at == SelectInSeq(tail, LAMBDA t : t = <<"op", op>>)
    IN  IF op = "none" THEN Truth(Resolved(path))
        ELSE Compare(Resolved(path), op, Operand(SubSeq(tail, at + 1, Len(tail))))

-----------------------------------------------------------------------------
(* OutputStore.put; a second output of a step is refused. *)
Put(step, value) ==
    /\ step \notin DOMAIN outputs
    /\ outputs' = [s \in DOMAIN outputs \cup {step} |-> IF s = step THEN value ELSE outputs[s]]
    /\ UNCHANGED <<inputs, scope>>

(* The body of a loop for one item. *)
Enter(item) ==
    /\ scope' = [x \in {"item"} |-> item]
    /\ UNCHANGED <<inputs, outputs>>

Leave ==
    /\ scope' = [x \in {} |-> None]
    /\ UNCHANGED <<inputs, outputs>>

Next ==
    \/ \E step \in {"s"}, value \in Results : Put(step, value)
    \/ \E item \in Items : Enter(item)
    \/ Leave

-----------------------------------------------------------------------------
Tokens == {Word(Words[i]) : i \in DOMAIN Words} \cup {Word(" ")} \cup {Quoted(e) : e \in Expressions}
Texts == UNION {[1..n -> Tokens] : n \in 0..3}

(* Every expression at once, and what was put in left as it is. *)
Expanded(text) ==
    FlattenSeq([i \in DOMAIN text |->
        IF text[i][1] = "expr" THEN Stringify(Resolved(text[i][2])) ELSE <<text[i]>>])

BindingsSound ==
    \A text \in Texts :
        LET alone == SelectSeq(text, LAMBDA t : t # Word(" "))
            own == ToSet(ExpressionsOf(text))
            clean == \A t \in own : ToSet(Stringify(Resolved(t[2]))) \cap own = {}
        IN  IF Len(alone) = 1 /\ own # {} THEN Bound(text) = Resolved(alone[1][2])
            ELSE clean => Bound(text) = <<"text", Expanded(text)>>

(* A comparison of what two expressions stand for. *)
Is(p, op, q) == Holds(p, <<<<"op", op>>, Quoted(q)>>)

ConditionsSound ==
    \A p, q \in Expressions :
        LET ordered == Comparable(Resolved(p), Resolved(q))
        IN  /\ Is(p, "!=", q) <=> ~Is(p, "==", q)
            /\ Is(p, "==", q) <=> Is(q, "==", p)
            /\ Is(p, "<", q) <=> Is(q, ">", p)
            /\ Is(p, "<=", q) <=> Is(q, ">=", p)
            /\ ordered => (Is(p, ">=", q) <=> ~Is(p, "<", q))
            /\ Is(p, ">", q) => Is(p, "!=", q) /\ Is(p, ">=", q)
            /\ Resolved(p) = None => ~Holds(p, <<>>) /\ ~Is(p, "<=", q) /\ ~Is(p, ">=", q)

(* Paths of names and of numbers that do not count from the end. *)
Plain == UNION {[1..n -> {<<"f">>, <<"0">>, <<"1">>}] : n \in 0..2}

PathsSound ==
    \A value \in Results, path \in Plain :
        LET marked == <<<<"output">>>> \o path
            wrapped == <<"map", [k \in {"output"} |-> value]>>
        IN  /\ Traverse(value, path) = GetPath(value, path)
            /\ Traverse(wrapped, marked) = GetPath(value, path)
            /\ (value[1] = "map" => "output" \notin DOMAIN value[2]) =>
                  Traverse(value, marked) = Traverse(wrapped, marked)

(* TemplatesSound: a binding that is one expression keeps its type and any   *)
(* other is the text with every expression expanded, unless a value brings   *)
(* an expression of the text with it; comparisons are an order where there   *)
(* is one and say no to what is missing; outputs are read alike, wrapped or  *)
(* not, and like inputs; and in a loop's body the item is what its variable  *)
(* stands for unless it is None, while no other input changes.               *)
TemplatesSound ==
    /\ BindingsSound /\ ConditionsSound /\ PathsSound
    /\ \A name \in DOMAIN scope \cup DOMAIN inputs :
          LET found == Resolved(<<<<"inputs">>, <<name>>>>)
          IN  IF name \in DOMAIN scope THEN found # scope[name] => scope[name] = None
              ELSE found = inputs[name]
=============================================================================
