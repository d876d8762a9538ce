------------------------------- MODULE Intents -------------------------------
(***************************************************************************)
(* What the kernel makes of a message: src/app/kernel/perception           *)
(* normalises its text, src/app/kernel/intent has classifiers score it and *)
(* asks for clarification when none is sure.                               *)
(*                                                                         *)
(* A text is, for the normaliser, a sequence of characters of the five     *)
(* kinds it tells apart; for the classifier it is how often each pattern   *)
(* matches, whether it greets and whether it ends in a question mark.      *)
(***************************************************************************)
EXTENDS Integers, Sequences, SequencesExt, FiniteSets, FiniteSetsExt

CONSTANTS
    MaxText,   \* bound: characters of a text
    MaxWords,  \* bound: patterns that match one text
    Custom     \* kinds of registered classifiers: "sure", "even" or "raises"

VARIABLES
    raw,          \* RawMessage.content
    percept,      \* Percept.normalized_content
    said,         \* [matches, greeting, question]: what the patterns find in it
    classifiers,  \* IntentEngine._classifiers
    intent        \* what understand returned; primary is "none" before

vars == <<raw, percept, said, classifiers, intent>>

(* The order of the enumeration, which is that of the scores. *)
Types == <<"ask", "solve", "execute", "plan", "learn", "create", "explore", "debug",
           "meta", "clarify", "unknown">>

(* Tenths. *)
Weight == [ask |-> 7, solve |-> 8, execute |-> 5, plan |-> 8, learn |-> 7, create |-> 7,
           explore |-> 7, debug |-> 8, meta |-> 9, clarify |-> 8, unknown |-> 0]
GreetingWeight == 6
QuestionMarkWeight == 3

-----------------------------------------------------------------------------
(* Perception. *)
Characters == {"a", "space", "tab", "newline", "return"}
Blank == Characters \ {"a"}

RECURSIVE Strip(_)
Strip(text) ==
    IF text = <<>> THEN text
    ELSE IF Head(text) \in Blank THEN Strip(Tail(text))
    ELSE IF Last(text) \in Blank THEN Strip(Front(text))
    ELSE text

LineEnds(text) ==
    LET joined == FoldLeft(LAMBDA done, c :
                      IF c = "newline" /\ done # <<>> /\ Last(done) = "return"
                      THEN Append(Front(done), "newline") ELSE Append(done, c), <<>>, text)
    IN  [i \in DOMAIN joined |-> IF joined[i] = "return" THEN "newline" ELSE joined[i]]

OneSpace(text) ==
    FoldLeft(LAMBDA done, c :
        IF c \notin {"space", "tab"} THEN Append(done, c)
        ELSE IF done # <<>> /\ Last(done) = "space" THEN done
        ELSE Append(done, "space"), <<>>, text)

TwoLines(text) ==
    FoldLeft(LAMBDA done, c :
        IF c = "newline" /\ Len(done) >= 2 /\ Last(done) = c /\ done[Len(done) - 1] = c
        THEN done ELSE Append(done, c), <<>>, text)

Normalized(text) == Strip(TwoLines(OneSpace(LineEnds(Strip(text)))))

(* A message of unknown modality whose bytes are no text, or of a modality   *)
(* that nobody normalises, is decoded and stripped.                          *)
Perceived(text, modality) ==
    IF modality = "text" THEN Normalized(text) ELSE Strip(text)

-----------------------------------------------------------------------------
(* RuleBasedClassifier. *)
Score(t) ==
    LET found == IF t \in DOMAIN said.matches THEN said.matches[t] ELSE 0
        first == IF t = "meta" /\ said.greeting THEN GreetingWeight
                 ELSE IF t = "ask" /\ said.question THEN QuestionMarkWeight ELSE 0
    IN  Max({first, Min({10, found * Weight[t]})})

Total == FoldLeft(LAMBDA sum, t : sum + Score(t), 0, Types)

(* Highest first; of equal scores the earlier of the enumeration. *)
Sorted ==
    LET place(t) == SelectInSeq(Types, LAMBDA u : u = t)
    IN  SortSeq(Types, LAMBDA t, u :
            \/ Score(t) > Score(u)
            \/ Score(t) = Score(u) /\ place(t) < place(u))

(* A classification: its type, how sure it is and the next one, in shares of *)
(* a total.                                                                  *)
Unknown(score) == [primary |-> "unknown", score |-> score, next |-> 0, total |-> 1]

RuleBased ==
    IF percept = <<>> THEN Unknown(0)
    ELSE IF Total = 0 THEN Unknown(1)
    ELSE [primary |-> Sorted[1], score |-> Score(Sorted[1]),
          next |-> Score(Sorted[2]), total |-> Total]

(* What other classifiers answer. *)
Answers(kind) ==
    CASE kind = "rules" -> <<RuleBased>>
      [] kind = "sure" -> <<[primary |-> "explore", score |-> 1, next |-> 0, total |-> 1]>>
      [] kind = "even" -> <<[primary |-> "plan", score |-> 1, next |-> 1, total |-> 2]>>
      [] kind = "raises" -> <<>>

-----------------------------------------------------------------------------
(* IntentEngine. *)
SurerThan(c, d) == c.score * d.total > d.score * c.total

(* One that raises is left out; of equally sure ones the last counts. *)
Classified ==
    LET results == FlattenSeq([i \in DOMAIN classifiers |-> Answers(classifiers[i])])
    IN  IF results = <<>> THEN Unknown(0)
        ELSE LET best == Max({i \in DOMAIN results :
                                 \A j \in DOMAIN results : ~SurerThan(results[j], results[i])})
             IN  results[best]

(* Below a threshold of 0.3, or no more than 0.15 ahead of the next: exactly *)
(* there, how floating point numbers come out decides.                       *)
Clarifies(c) ==
    IF c.primary = "unknown" THEN {TRUE}
    ELSE IF c.score * 10 < 3 * c.total THEN {TRUE}
    ELSE IF c.next = 0 THEN {FALSE}
    ELSE IF (c.score - c.next) * 20 = 3 * c.total THEN BOOLEAN
    ELSE {(c.score - c.next) * 20 < 3 * c.total}

-----------------------------------------------------------------------------
Texts == UNION {[1..n -> Characters] : n \in 0..MaxText}
Matches == UNION {[S -> 1..2] : S \in {T \in SUBSET (ToSet(Types) \ {"unknown"}) :
                                          Cardinality(T) <= MaxWords}}

Nothing == [matches |-> <<>>, greeting |-> FALSE, question |-> FALSE]

(* Either the characters are of interest or what the patterns find in them.  *)
Init ==
    /\ \/ /\ raw \in Texts
          /\ said = Nothing
       \/ /\ raw = <<"a">>
          /\ said \in [matches : Matches, greeting : BOOLEAN, question : BOOLEAN]
    /\ percept = <<>> /\ intent = [primary |-> "none", clarify |-> FALSE]
    /\ classifiers = <<"rules">>

Perceive ==
    /\ percept = <<>> /\ intent.primary = "none"
    /\ \E modality \in {"text", "other"} : percept' = Perceived(raw, modality)
    /\ percept' # <<>>
    /\ UNCHANGED <<raw, said, classifiers, intent>>

Register(kind) ==
    /\ intent.primary = "none" /\ Len(classifiers) < 2 /\ percept = <<"a">>
    /\ classifiers' = Append(classifiers, kind)
    /\ UNCHANGED <<raw, percept, said, intent>>

Unregister ==
    /\ intent.primary = "none" /\ classifiers # <<>> /\ percept = <<"a">>
    /\ classifiers' = SelectSeq(classifiers, LAMBDA k : k # "rules")
    /\ classifiers' # classifiers
    /\ UNCHANGED <<raw, percept, said, intent>>

Understand ==
    /\ intent.primary = "none" /\ (percept # <<>> \/ Strip(raw) = <<>>)
    /\ \E clarify \in Clarifies(Classified) :
          intent' = [primary |-> Classified.primary, clarify |-> clarify]
    /\ UNCHANGED <<raw, percept, said, classifiers>>

Next == Perceive \/ (\E kind \in Custom : Register(kind)) \/ Unregister \/ Understand

-----------------------------------------------------------------------------
(* The words of a text: its letters, in lines and words. *)
WordsOf(text) ==
    LET Starts(i) == text[i] = "a" /\ (i = 1 \/ text[i - 1] # "a")
    IN  <<Cardinality({i \in DOMAIN text : Starts(i)}), Len(SelectSeq(text, LAMBDA c : c = "a"))>>

(* IntentSound: normalising loses no word and joins none, and a text that is *)
(* normalised again stays as it is; an intent that is acted on without       *)
(* asking is one that nothing else in the text comes near, and "unknown"     *)
(* means that nothing was found or nobody could look; a classifier that      *)
(* raises leaves the answer to the others.                                   *)
IntentSound ==
    /\ percept = <<>> /\ intent.primary = "none" =>
         /\ WordsOf(Normalized(raw)) = WordsOf(raw)
         /\ Normalized(Normalized(raw)) = Normalized(raw)
    /\ intent.primary # "none" =>
         LET Looked(kind) == \E i \in DOMAIN classifiers : classifiers[i] = kind
         IN  /\ intent.primary = "unknown" => intent.clarify
             /\ intent.primary = "unknown" <=>
                  \/ \A i \in DOMAIN classifiers : classifiers[i] = "raises"
                  \/ /\ ~Looked("sure")
                     /\ Looked("rules") /\ percept # <<>>
                     /\ ~said.greeting /\ ~said.question /\ said.matches = <<>>
                  \/ ~Looked("sure") /\ ~Looked("even") /\ percept = <<>>
             /\ (classifiers = <<"rules">> /\ ~intent.clarify) =>
                  \A t \in ToSet(Types) \ {intent.primary} :
                      (Score(intent.primary) - Score(t)) * 20 >= 3 * Total
=============================================================================
