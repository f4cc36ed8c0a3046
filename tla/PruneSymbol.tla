----------------------------- MODULE PruneSymbol -----------------------------
(* cpptrace::prune_symbol: reduces a demangled symbol to the qualified name of  *)
(* its function, dropping return type, template and function arguments and     *)
(* qualifiers.  The code is a tokenizer and a recursive descent parser over "an *)
(* approximate grammar, very hacky".                                           *)
(*                                                                             *)
(* A symbol is a sequence of items: a token, or " " for white space.  "<" and  *)
(* ">" are single characters here: two adjacent ones make the token "<<" or    *)
(* ">>", which is what makes lists of template arguments hard.  A parser is a  *)
(* record; every function of the C++ class maps it to the parser it leaves     *)
(* behind, with its result in hit ("true" or "false") or err.                  *)
EXTENDS Naturals, Sequences

CONSTANTS
  Inner   \* the literals of the form `symbol', and the symbol each one quotes

Punctuation == {"(", ")", "[", "]", "{", "}", "<", ">", "<<", ">>", "::", "*", "&",
                "&&", "~", "#", ",", "+", "-"}
LlvmLambda == [l \in {"'lambda'", "'unnamed'"} |->
                 IF l = "'lambda'" THEN "lambda" ELSE "unnamed"]
Literals == {"1", "\"\""} \union DOMAIN LlvmLambda \union DOMAIN Inner
AnonymousNamespace == {"(anonymous namespace)", "`anonymous namespace'"}
MsvcLambda == {"lambda_1"}
\* An unterminated quote: every attempt to read it is a parse error.
Unterminated == "'"
\* The quotes of msvc around a symbol, in the output.
Open == "open quote"
Close == "close quote"
End == ""
NotIdentifiers == Punctuation \union Literals \union AnonymousNamespace
                  \union {Unterminated, Open, Close, End, " "}

Closing == [open \in {"(", "[", "{", "<"} |->
              CASE open = "(" -> ")" [] open = "[" -> "]"
                [] open = "{" -> "}" [] open = "<" -> ">"]
PointerRef == {"*", "&", "&&"}
IgnoredIdentifiers == {"const", "volatile", "decltype", "noexcept"}
CallingConventions == {"__cdecl"}
IsIdentifier(t) == t \notin NotIdentifiers

RECURSIVE Skip(_)
Skip(source) == IF source # <<>> /\ Head(source) = " " THEN Skip(Tail(source)) ELSE source

Doubled(source) == /\ Len(source) > 1
                   /\ source[1] = source[2]
                   /\ source[1] \in {"<", ">"}

\* A tokenizer that never splits ">>".
Peek_whole(p, inTemplate) ==
  LET source == Skip(p.rest) IN
  IF source = <<>> THEN End
  ELSE IF Doubled(source) THEN IF source[1] = "<" THEN "<<" ELSE ">>" ELSE source[1]

\* The next token; in a list of template arguments ">>" is taken for ">".
Peek(p, inTemplate) ==
  LET source == Skip(p.rest) IN
  IF source = <<>> THEN End
  ELSE IF Doubled(source) /\ ~(inTemplate /\ source[1] = ">")
       THEN IF source[1] = "<" THEN "<<" ELSE ">>"
       ELSE source[1]

Advance(p, inTemplate) ==
  [p EXCEPT !.rest =
     IF Skip(@) = <<>> THEN <<>>
     ELSE IF Peek(p, inTemplate) \in {"<<", ">>"} THEN Tail(Tail(Skip(@))) ELSE Tail(Skip(@))]

Yes(p) == [p EXCEPT !.hit = TRUE]
No(p) == [p EXCEPT !.hit = FALSE]
Error(p) == [p EXCEPT !.hit = FALSE, !.err = TRUE]
Token(p) == Peek(p, FALSE)

\* TRY_PARSE(a, return true); return b.  A parser that did not hit is as it was.
Or(a, b) == IF a.err \/ a.hit THEN a ELSE b
\* What must be there, and what need not be.
Expect(a) == IF a.hit THEN a ELSE Error(a)
Optional(a) == IF a.err THEN a ELSE Yes(a)

Accept(p, tokens) ==
  IF Token(p) = Unterminated THEN Error(p)
  ELSE IF Token(p) \in tokens THEN Yes(Advance(p, FALSE)) ELSE No(p)

append_output_as(p, tokens, identifier) ==
  [p EXCEPT !.out = IF p.reset THEN tokens
                    ELSE IF identifier /\ p.lastWasIdentifier THEN @ \o <<" ">> \o tokens
                    ELSE @ \o tokens,
            !.reset = FALSE,
            !.lastWasIdentifier = identifier]
append_if_hit(p, tokens, identifier) ==
  IF p.hit THEN append_output_as(p, tokens, identifier) ELSE p
Items(token) == CASE token = "<<" -> <<"<", "<">> [] token = ">>" -> <<">", ">">>
                  [] OTHER -> <<token>>
append_output(p, token) == append_output_as(p, Items(token), IsIdentifier(token))

\* Accepts a token and appends it.
Keep(p, tokens) == append_if_hit(Accept(p, tokens), Items(Token(p)), IsIdentifier(Token(p)))

\* Goes on from a hit, with a token that must be there.
then_accept(p, tokens) == IF p.hit THEN Expect(Accept(p, tokens)) ELSE p
then_keep(p, tokens) == IF p.hit THEN Expect(Keep(p, tokens)) ELSE p

RECURSIVE accept_pointer_ref(_, _)
accept_pointer_ref(p, append) ==
  IF Token(p) \notin PointerRef THEN Accept(p, PointerRef)
  ELSE Optional(accept_pointer_ref(IF append THEN Keep(p, PointerRef)
                                   ELSE Accept(p, PointerRef), append))

RECURSIVE prune_symbol(_), parse_symbol(_), consume_balanced(_, _, _), step_over(_, _, _),
          accept_operator(_, _), consume_punctuation(_),
          consume_punctuation_and_trailing_modifiers(_)

\* Reads up to the punctuation that closes one already read.  In a list of
\* template arguments it steps over operators and over other brackets, so that
\* the signs "<" and ">" in them do not count.  The end of the symbol ends it too.
consume_balanced(p, open, depth) ==
  IF p.err THEN p
  ELSE IF depth = 0 THEN Yes(p)
  ELSE step_over(IF open = "<" THEN accept_operator(p, TRUE) ELSE No(p), open, depth)

step_over(p, open, depth) ==
  LET inTemplate == open = "<"
      next == Peek(p, inTemplate)
      past == Advance(p, inTemplate)
  IN
  CASE p.err -> p
    [] p.hit -> consume_balanced(p, open, depth)
    [] ~p.err /\ ~p.hit /\ next = Unterminated -> Error(p)
    [] ~p.err /\ ~p.hit /\ next = End -> Yes(past)
    [] ~p.err /\ ~p.hit /\ next = open -> consume_balanced(past, open, depth + 1)
    [] ~p.err /\ ~p.hit /\ next = Closing[open] -> consume_balanced(past, open, depth - 1)
    [] OTHER -> consume_balanced(IF inTemplate /\ next \in DOMAIN Closing
                                 THEN consume_balanced(past, next, 1) ELSE past,
                                 open, depth)

accept_balanced_punctuation(p) ==
  IF Token(p) \in DOMAIN Closing THEN consume_balanced(Advance(p, FALSE), Token(p), 1)
  ELSE Accept(p, {})

accept_ignored_identifier(p) == Accept(p, IgnoredIdentifiers)

accept_anonymous_namespace(p) ==
  append_if_hit(Accept(p, AnonymousNamespace), <<"(anonymous namespace)">>, TRUE)

then_array(p) == IF p.hit THEN Optional(then_keep(Keep(p, {"["}), {"]"})) ELSE p
accept_new_delete(p) == then_array(Keep(p, {"new", "delete"}))

accept_special_decltype(p) ==
  then_keep(then_keep(then_keep(Keep(p, {"decltype"}), {"("}), {"auto", "nullptr"}), {")"})

accept_identifier(p) ==
  IF IsIdentifier(Token(p)) THEN append_output(Yes(Advance(p, FALSE)), Token(p)) ELSE Accept(p, {})

\* operator"" name
then_suffix(p) ==
  IF ~p.hit THEN p
  ELSE IF IsIdentifier(Token(p))
       THEN append_output(append_output(Advance(p, FALSE), "\"\""), Token(p))
       ELSE Error(p)
accept_literal_operator(p) == then_suffix(Accept(p, {"\"\""}))

\* An operator of punctuation, kept unless in a list of template arguments.
accept_punctuation_operator(p, inTemplate) ==
  LET closing == IF Token(p) \in {"(", "["} THEN {Closing[Token(p)]} ELSE {} IN
  IF Token(p) \notin {"(", "["}
  THEN IF inTemplate THEN Accept(p, Punctuation) ELSE Keep(p, Punctuation)
  ELSE IF inTemplate THEN then_accept(Accept(p, Punctuation), closing)
  ELSE then_keep(Keep(p, Punctuation), closing)

\* operator type: a symbol, and a second one for a pointer to member.
then_member(p) ==
  IF p.err \/ Token(p) = Unterminated THEN Error(p)
  ELSE IF IsIdentifier(Token(p)) THEN Optional(parse_symbol(p)) ELSE Yes(p)
accept_conversion_operator(p) == then_member(parse_symbol(p))

kept_operator(p) ==
  Or(accept_new_delete(p), Or(accept_special_decltype(p), Or(Keep(p, {"co_await"}),
  Or(accept_literal_operator(p), Or(accept_punctuation_operator(p, FALSE),
  accept_conversion_operator(p))))))
then_operator(p, inTemplate) ==
  IF ~p.hit THEN p
  ELSE IF inTemplate THEN accept_punctuation_operator(p, TRUE)
  ELSE kept_operator(append_output(p, "operator"))
accept_operator(p, inTemplate) == then_operator(Accept(p, {"operator"}), inTemplate)

accept_identifier_token(p) ==
  IF Token(p) = "~" THEN Expect(accept_identifier(Keep(p, {"~"}))) ELSE accept_identifier(p)

\* Drops punctuation up to "::", "#" or anything else.
consume_more(p) == IF p.err THEN p ELSE Optional(consume_punctuation(p))
consume_punctuation(p) ==
  IF Token(p) \notin Punctuation \ {"::", "#"} THEN Accept(p, {})
  ELSE consume_more(Or(accept_balanced_punctuation(p), Advance(p, FALSE)))

\* gcc: {lambda(...)#1} and {unnamed type#1}
then_number(p, words) ==
  append_if_hit(then_accept(then_accept(p, Literals), {"}"}),
                <<"<">> \o words \o <<"#", Token(p), ">">>, FALSE)
then_numbered(p, words) ==
  IF p.hit THEN then_number(then_accept(Optional(consume_punctuation(p)), {"#"}), words) ELSE p
accept_words(p) ==
  IF Token(p) = "lambda" THEN then_numbered(Accept(p, {"lambda"}), <<"lambda">>)
  ELSE then_numbered(then_accept(then_accept(p, {"unnamed"}), {"type"}),
                     <<"unnamed", " ", "type">>)

accept_quoted(p, words) == Yes(append_output_as(Advance(p, FALSE), words, FALSE))
accept_msvc_lambda(p) ==
  append_if_hit(then_accept(then_accept(p, MsvcLambda), {">"}), <<"<", Token(p), ">">>, FALSE)

\* llvm: 'lambda'; msvc: `symbol' and <lambda_1>
accept_lambda_or_unnamed(p) ==
  LET token == Token(p) IN
  CASE token = "{" -> accept_words(Accept(p, {"{"}))
    [] token = "<" -> accept_msvc_lambda(Accept(p, {"<"}))
    [] token \in DOMAIN LlvmLambda -> accept_quoted(p, <<"<", LlvmLambda[token], ">">>)
    [] token \in DOMAIN Inner ->
         accept_quoted(p, <<Open>> \o prune_symbol(Inner[token]) \o <<Close>>)
    [] OTHER -> Accept(p, {})

RECURSIVE PointerFollows(_)
PointerFollows(p) ==
  \/ Token(p) \in PointerRef
  \/ Token(p) \in CallingConventions /\ PointerFollows(Advance(p, FALSE))
lookahead_is_function_pointer(p) == Token(p) = "(" /\ PointerFollows(Advance(p, FALSE))

RECURSIVE PastModifiers(_)
PastModifiers(p) ==
  IF Token(p) \in PointerRef \union CallingConventions \union IgnoredIdentifiers
  THEN PastModifiers(Advance(p, FALSE)) ELSE p

\* "(*": what was read so far is a return type, and the name is to come.
parse_function_pointer(p) ==
  then_accept(Expect(parse_symbol([PastModifiers(Advance(p, FALSE)) EXCEPT !.reset = TRUE])),
              {")"})
then_function_pointer(p) ==
  IF ~p.err /\ lookahead_is_function_pointer(p) THEN parse_function_pointer(p) ELSE p

parse_symbol_term(p) ==
  Or(accept_anonymous_namespace(p), Or(accept_operator(p, FALSE),
  Or(accept_identifier_token(p), accept_lambda_or_unnamed(p))))

then_consume(p) == IF p.hit THEN consume_punctuation_and_trailing_modifiers(p) ELSE p
consume_punctuation_and_trailing_modifiers(p) ==
  then_consume(Or(accept_balanced_punctuation(p),
                  Or(accept_ignored_identifier(p), accept_pointer_ref(p, FALSE))))

\* "::" and the rest of the name; a member pointer has "*" there.
after_scope(p) == IF p.err THEN p ELSE parse_symbol(p)
then_scope(p) == Optional(IF p.hit THEN after_scope(Keep(p, {"*"})) ELSE p)
after_modifiers(p) == IF p.err THEN p ELSE then_scope(Keep(p, {"::"}))
after_pointer_ref(p) ==
  IF p.err THEN p ELSE after_modifiers(consume_punctuation_and_trailing_modifiers(p))
then_suffixes(p) == IF p.hit THEN after_pointer_ref(accept_pointer_ref(p, TRUE)) ELSE p

parse_symbol(p) ==
  IF Token(p) = End THEN No(p)
  ELSE then_suffixes(then_function_pointer(parse_symbol_term(p)))

\* Each of the symbols in a row starts the name again: only the last one is kept.
RECURSIVE parse(_)
parse(p) ==
  IF p.err \/ Token(p) = Unterminated THEN Error(p)
  ELSE IF Token(p) = End THEN p
  ELSE parse(Expect(parse_symbol([p EXCEPT !.reset = TRUE])))

Parser(symbol) == [rest |-> symbol, out |-> <<>>, lastWasIdentifier |-> FALSE,
                   reset |-> FALSE, err |-> FALSE, hit |-> FALSE]

prune_symbol(symbol) ==
  LET p == parse(Parser(symbol)) IN IF p.err \/ p.out = <<>> THEN symbol ELSE p.out
=============================================================================
