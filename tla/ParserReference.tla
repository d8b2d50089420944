---------------------------- MODULE ParserReference ----------------------------
(***************************************************************************)
(* What the parser promises, stated with the grammar of the language       *)
(* reference (docs-internal/LANGUAGE_DESIGN.md:117-169, 301-304, 457-460): *)
(* a printer that writes a tree with the parentheses that the documented   *)
(* precedence, associativity and boundaries ask for, and no others.        *)
(***************************************************************************)
EXTENDS Parser, SequencesExt

\* The documented precedence, from loosest to tightest; a level above 10 can
\* stand everywhere.
Documented == <<{"||"}, {"&&"}, {"==", "!="}, {"<", "<=", ">", ">="},
                {"+", "-"}, {"*", "/", "%"}>>
LevelOf(tree) ==
    CASE tree.kind = "assignment" -> 0
      [] tree.kind = "send" -> 1
      [] tree.kind = "binary" ->
            2 + CHOOSE k \in 1..6 : tree.label \in Documented[k]
      [] tree.kind = "unary" -> 9
      [] tree.kind \in {"call", "index", "receive", "property"} -> 10
      [] OTHER -> 11

\* The tokens that would go on with a tree instead of what it stands in: a
\* URL is a full expression and an address everything down to `||', unless a
\* configuration or a protocol ends them.
Operators == UNION {Documented[k] : k \in 1..6}
Continues(tree) ==
    CASE tree.kind = "request" /\ Len(tree.parts) = 1 ->
            Operators \cup {"(", "[", ".", "RECEIVE", "SEND", "{"}
      [] tree.kind = "connection" /\ Len(tree.parts) = 1 ->
            Operators \cup {"(", "[", ".", "RECEIVE", "using"}
      [] tree.kind = "send" /\ Len(tree.parts) = 2 -> {"TO"}
      [] OTHER -> {}

\* Where an expression stands: the level it must have, whether a brace after
\* a name starts a constructor, whether it starts a statement, and the token
\* that follows.
Free == [level |-> 0, constructors |-> TRUE, first |-> FALSE, next |-> End]
Condition == [Free EXCEPT !.constructors = FALSE, !.next = "{"]

NeedsParentheses(tree, place) ==
    \/ LevelOf(tree) < place.level
    \/ tree.kind = "construct" /\ ~place.constructors
    \/ tree.kind = "object" /\ place.first
    \/ place.next \in Continues(tree)

\* Sets of texts, one after the other.
Joined(sets) ==
    FoldLeft(LAMBDA before, set : {s \o t : s \in before, t \in set},
             {<<>>}, sets)
Just(token) == {<<token>>}
Enclosed(open, set, close) == Joined(<<Just(open), set, Just(close)>>)
Listing(sets) ==
    Joined([k \in 1..Len(sets) |->
        IF k = 1 THEN sets[k] ELSE Joined(<<Just(","), sets[k]>>)])

RECURSIVE Texts(_, _), Bare(_, _)

\* The texts of a tree, with parentheses around it where they are needed, and
\* there or not where they are not; a name alone is never put into them.
Texts(tree, place) ==
    LET wrapped == Enclosed("(", Bare(tree, Free), ")") IN
        IF NeedsParentheses(tree, place) THEN wrapped
        ELSE Bare(tree, place)
                 \cup IF tree.parts = <<>> THEN {} ELSE wrapped

Bare(tree, place) ==
    LET parts == tree.parts
        level == LevelOf(tree)
        inside == [place EXCEPT !.first = FALSE]
        Base == Texts(parts[1], [place EXCEPT !.level = 10, !.next = "."])
        Right(k, least) == Texts(parts[k], [inside EXCEPT !.level = least])
        Before(k, least, next) ==
            Texts(parts[k], [inside EXCEPT !.level = least, !.next = next])
        Inner(trees) ==
            Listing([k \in 1..Len(trees) |-> Texts(trees[k], Free)])
        Fields ==
            Listing([k \in 1..Len(parts) |->
                Joined(<<Just(parts[k].label), Just(":"),
                         Texts(parts[k].parts[1], Free)>>)])
        Position == [inside EXCEPT !.level = 3, !.constructors = FALSE]
    IN CASE tree.kind = "object" -> Enclosed("{", Fields, "}")
         [] tree.kind = "construct" ->
               Joined(<<Just(tree.label), Enclosed("{", Fields, "}")>>)
         [] tree.kind = "array" -> Enclosed("[", Inner(parts), "]")
         [] tree.kind = "call" ->
               Joined(<<Base, Enclosed("(", Inner(Tail(parts)), ")")>>)
         [] tree.kind = "index" ->
               Joined(<<Base, Enclosed("[", Inner(Tail(parts)), "]")>>)
         [] tree.kind = "receive" -> Joined(<<Base, Just("RECEIVE")>>)
         [] tree.kind = "property" ->
               Joined(<<Base, Just("."), Just(tree.label)>>)
         [] tree.kind = "unary" -> Joined(<<Just(tree.label), Right(1, 9)>>)
         [] tree.kind = "binary" ->
               Joined(<<Texts(parts[1], [place EXCEPT !.level = level,
                                                      !.next = tree.label]),
                        Just(tree.label), Right(2, level + 1)>>)
         [] tree.kind = "send" ->
               Joined(<<Texts(parts[1], [place EXCEPT !.level = 3,
                                                      !.next = "SEND"]),
                        Just("SEND")>>
                      \o IF Len(parts) = 2 THEN <<Right(2, 3)>>
                         ELSE <<Before(2, 3, "TO"), Just("TO"), Right(3, 3)>>)
         [] tree.kind = "assignment" ->
               Joined(<<Texts(parts[1], [place EXCEPT !.level = 10]),
                        Just("="), Right(2, 0)>>)
         [] tree.kind = "connection" ->
               Joined(<<Just(tree.label)>>
                      \o IF Len(parts) = 1 THEN <<Texts(parts[1], Position)>>
                         ELSE <<Texts(parts[1],
                                      [Position EXCEPT !.next = "using"]),
                                Just("using"), Just(parts[2].label)>>)
         [] tree.kind = "request" ->
               Joined(<<Just(tree.label)>>
                      \o IF Len(parts) = 1
                         THEN <<Texts(parts[1], [Position EXCEPT !.level = 0])>>
                         ELSE <<Texts(parts[1], Condition),
                                Bare(parts[2], Free)>>)
         [] OTHER -> Just(tree.label)

RECURSIVE StatementTexts(_)

Sequence(trees) ==
    Joined([k \in 1..Len(trees) |-> StatementTexts(trees[k])])
Binding(tree) ==
    Joined(<<Just(tree.label)>>
           \o IF tree.parts = <<>> THEN <<>>
              ELSE <<Just(":"), Just(tree.parts[1].label)>>)
Bindings(trees) == Listing([k \in 1..Len(trees) |-> Binding(trees[k])])

StatementTexts(tree) ==
    LET parts == tree.parts
        Heading == Texts(parts[1], Condition)
        Headline == <<Just(tree.kind), Heading, StatementTexts(parts[2])>>
    IN CASE tree.kind = "block" -> Enclosed("{", Sequence(parts), "}")
         [] tree.kind = "while" -> Joined(Headline)
         [] tree.kind = "if" ->
               Joined(Headline \o IF Len(parts) = 2 THEN <<>>
                                  ELSE <<Just("else"),
                                         StatementTexts(parts[3])>>)
         [] tree.kind \in {"for", "parallel"} ->
               Joined(<<Just(tree.kind), Just(tree.label), Just("in"), Heading,
                        StatementTexts(parts[2])>>)
         [] tree.kind = "match" ->
               Joined(<<Just("match"), Heading,
                        Enclosed("{", Sequence(Tail(parts)), "}")>>)
         [] tree.kind = "arm" ->
               Joined(<<Just(tree.label), Just("=>"),
                        StatementTexts(parts[1])>>)
         [] tree.kind = "function" ->
               LET count == Len(parts) - 2
                   type == parts[count + 1].label
               IN Joined(<<Just("fn"), Just(tree.label),
                           Enclosed("(", Bindings(SubSeq(parts, 1, count)),
                                    ")")>>
                         \o (IF type = "" THEN <<>>
                             ELSE <<Just("->"), Just(type)>>)
                         \o <<StatementTexts(parts[count + 2])>>)
         [] tree.kind = "type declaration" ->
               Joined(<<Just("type"), Just(tree.label),
                        Enclosed("{", Bindings(parts), "}")>>)
         [] tree.kind = "let" ->
               Joined(<<Just("let"), Binding(parts[1]), Just("="),
                        Texts(parts[2], Free), Just(";")>>)
         [] tree.kind = "return" ->
               Joined(<<Just("return")>>
                      \o (IF parts = <<>> THEN <<>>
                          ELSE <<Texts(parts[1], Free)>>) \o <<Just(";")>>)
         [] tree.kind = "expression" ->
               Joined(<<Texts(parts[1], [Free EXCEPT !.first = TRUE]),
                        Just(";")>>)
         [] OTHER -> Joined(<<Just(tree.kind), Just(";")>>)

Spellings == IF alphabet.entry = "program" THEN Sequence(outcome.tree.parts)
             ELSE Texts(outcome.tree, Free)

-----------------------------------------------------------------------------
\* Whether `tokens' becomes `least' when parentheses and commas are left out.
RECURSIVE Reduces(_, _)
Reduces(tokens, least) ==
    IF tokens = <<>> THEN least = <<>>
    ELSE IF least # <<>> /\ tokens[1] = least[1]
    THEN Reduces(Tail(tokens), Tail(least))
    ELSE tokens[1] \in {"(", ")", ","} /\ Reduces(Tail(tokens), least)

\* An accepted text is read as the documentation says.  Its tree has all its
\* tokens in their order, and where the documented precedence, associativity
\* or boundary (of requests, addresses, constructors and blocks) asks for
\* parentheses to get this tree, the text has them; what the text has beyond
\* them is redundant.  So no text is taken for what another one says.
ReadAsDocumented ==
    outcome.ok => \E least \in Spellings : Reduces(text, least)

\* What the documentation allows is accepted: the tree of an accepted text can
\* be written with the parentheses it needs and no others, or with any of the
\* others, and is read as the same tree.
SpellingsAgree ==
    outcome.ok => \A spelling \in Spellings :
                     LET again == Parse(spelling)
                     IN  again.ok /\ again.tree = outcome.tree

=============================================================================
