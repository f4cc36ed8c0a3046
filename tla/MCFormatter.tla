----------------------------- MODULE MCFormatter -----------------------------
(* Two formatters, short traces with every kind of frame, and two families of   *)
(* symbols: those the compilers' demanglers write for functions, put together   *)
(* from their parts, and all short sequences of tokens.                         *)
EXTENDS PrunedNames, TLC

CONSTANTS i1, i2, i3, formatter1, formatter2, gone, text, blank

MCInner == "`main'" :> <<"int", " ", "main", "(", "void", ")">>

\* A part of a symbol and what is left of it in the name.
Part(written, kept) == [written |-> written, kept |-> kept]
Same(written) == Part(written, written)
Template == <<"<", "S", "<", "T", ">", ">">>
SpacedTemplate == <<"<", "S", "<", "T", ">", " ", ">">>
Returns == {<<>>, <<"int", " ">>, <<"S">> \o Template \o <<" ", "const", "&", " ">>,
            <<"decltype", "(", "S", "<", "T", ">", "(", ")", ")", " ">>}
Scopes == {Part(<<>>, <<>>), Same(<<"ns", "::">>),
           Part(<<"S">> \o Template \o <<"::">>, <<"S", "::">>),
           Part(<<"S", "<", "(", "a", " ", ">", " ", "b", ")", ">", "::">>, <<"S", "::">>),
           Part(<<"`anonymous namespace'", "::">>, <<"(anonymous namespace)", "::">>),
           Part(<<"f", "(", "int", ")", " ", "const", "::", "{", "lambda", "(", ")", "#", "1", "}", "::">>,
                <<"f", "::", "<", "lambda", "#", "1", ">", "::">>),
           Part(<<"ns", "::", "{", "unnamed", " ", "type", "#", "1", "}", "::">>,
                <<"ns", "::", "<", "unnamed", " ", "type", "#", "1", ">", "::">>),
           Part(<<"f", "(", ")", "::", "'lambda'", "(", "T", ")", "::">>,
                <<"f", "::", "<", "lambda", ">", "::">>),
           Part(<<"`main'", "::", "<", "lambda_1", ">", "::">>,
                <<Open, "main", Close, "::", "<", "lambda_1", ">", "::">>)}
Names == {Same(<<"foo">>), Part(<<"foo">> \o SpacedTemplate, <<"foo">>),
          Part(<<"foo", "<", "&", "S", "::", "operator", ">", "(", ")", ">">>, <<"foo">>),
          Same(<<"~", "S">>), Same(<<"operator", "(", ")">>), Same(<<"operator", "[", "]">>),
          Same(<<"operator", ">">>), Part(<<"operator", "<", " ">> \o Template, <<"operator", "<">>),
          Part(<<"operator", "<", "<">> \o Template, <<"operator", "<", "<">>),
          Part(<<"operator", " ", "new", "[", "]">>, <<"operator", " ", "new", "[", "]">>),
          Part(<<"operator", "\"\"", " ", "_w">>, <<"operator", "\"\"", "_w">>),
          Part(<<"operator", " ", "decltype", "(", "auto", ")">>,
               <<"operator", " ", "decltype", "(", "auto", ")">>),
          Same(<<"operator", " ", "co_await">>),
          Same(<<"operator", " ", "T", "&">>),
          \* A reference or pointer after template arguments is not kept.
          Part(<<"operator", " ", "S">> \o Template \o <<"&">>, <<"operator", " ", "S">>),
          Part(<<"operator", " ", "int", " ", "X", "::", "*">>,
               <<"operator", " ", "int", " ", "X", "::", "*">>)}
Arguments == {<<"(", ")">>, <<"(", "S">> \o Template \o <<",", "int", " ", "(", "*", ")", "(", "T", ")", ")">>}
Trailing == {<<>>, <<" ", "const", "&&">>}

Plain == {[symbol |-> r \o s.written \o n.written \o a \o t, function |-> s.kept \o n.kept] :
            r \in Returns, s \in Scopes, n \in Names, a \in Arguments, t \in Trailing}
\* The return type is a pointer to a function, written around the name.
Around == {[symbol |-> <<"void", " ", "(", "*", " ", "const">> \o m \o <<"&">> \o s.written \o n.written
                         \o <<"(", ")", " ", "const", ")", "(", "int", ")">>,
            function |-> s.kept \o n.kept] :
             m \in {<<>>, <<" ">>}, s \in Scopes, n \in Names}
Alphabet == {"a", "operator", "const", "::", "<", ">", "(", ")", "*", "{", "'"}
Short == {"a", "operator", "::", "<", ">", "(", "*"}
MCSymbols == Plain \union Around
             \union {[symbol |-> s, function |-> <<>>] :
                       s \in UNION {[1..n -> Alphabet] : n \in 0..3} \union [1..4 -> Short]}
-----------------------------------------------------------------------------
Frame(symbol, file, line) == [symbol |-> symbol, file |-> file, line |-> line]
throwing == Frame(<<"__cxa_throw">>, NoFile, NoLine)
function(line) == Frame(<<"foo", "(", ")">>, "a.cpp", line)
library == Frame(<<"lib">>, NoFile, NoLine)
generated == Frame(<<"gen">>, "b.cpp", 1)
MCTraces == {<<>>, <<throwing>>, <<library, function(4)>>, <<function(2), library>>,
             <<library, throwing, function(1), throwing, library>>,
             <<function(7), generated, library>>, <<function(9)>>, <<generated, function(6)>>}
MCKeep(frame) == frame.symbol \notin {<<"lib">>, <<"gen">>}
\* Gives the frames of generated code the file they were generated from.
MCChange(frame) ==
  IF frame.symbol = <<"gen">> THEN [frame EXCEPT !.file = "a.cpp", !.line = 3] ELSE frame
MCSources == ("a.cpp" :> <<blank, text, blank, text, blank, blank, text>>) @@ ("b.cpp" :> gone)
MCContexts == {0, 1, 2, 3, -1, -2}
MCFormatters == {formatter1, formatter2}
MCImpls == {i1, i2, i3}
Symmetry == Permutations(MCFormatters) \union Permutations(MCImpls)
=============================================================================
