------------------------------ MODULE MCBackEnds ------------------------------
(* A build has one of the back-ends: addr2line with the settings of           *)
(* MCAddr2line; or dbghelp with three threads, two handles, two libraries,    *)
(* types that nest in every way, and functions with all of their parameters   *)
(* listed, with one missing, and with no number of them.                      *)
EXTENDS MCAddr2line, Dbghelp

Named(name) == [tag |-> "typedef", name |-> name, of |-> 1, class |-> None, ref |-> FALSE,
                length |-> "", params |-> <<>>, count |-> 0]
Basic == Named("int")
Pointer(of, ref) == [Basic EXCEPT !.tag = "pointer", !.of = of, !.ref = ref]
MemberPointer(of, class) == [Pointer(of, FALSE) EXCEPT !.class = class]
Array(of, length) == [Basic EXCEPT !.tag = "array", !.of = of, !.length = length]
Function(of, params) ==
  [Basic EXCEPT !.tag = "function", !.of = of, !.params = params, !.count = Len(params)]
Method(of, params, class) ==
  [Function(of, params) EXCEPT !.class = class, !.count = Len(params) + 1]
MCTypes ==
  <<Basic, Named("A"), Pointer(1, TRUE), Array(1, "[3]"), Array(4, "[2]"), Pointer(5, FALSE),
    Pointer(6, FALSE), [Basic EXCEPT !.tag = "argument", !.of = 6], Function(6, <<8, 1>>),
    Pointer(9, FALSE), Array(10, "[4]"), Method(1, <<8>>, 2), MemberPointer(12, 2), MemberPointer(1, 2)>>

F(module, name, line, method, count, listed, params, complete) ==
  [module |-> module, name |-> name, line |-> line, method |-> method, count |-> count,
   listed |-> listed, params |-> params, complete |-> complete]
MCFunctions ==
  <<F("program", "f", TRUE, FALSE, 3, <<3, 7, 11, 1>>, <<3, 7, 11>>, TRUE),
    F("program", "A::g", TRUE, TRUE, 3, <<2, 13, 14, 1>>, <<13, 14>>, TRUE),
    F("library", "h", TRUE, FALSE, 2, <<1, 2>>, <<3, 1>>, FALSE),
    F("plugin", "i", FALSE, FALSE, 0, <<>>, <<>>, TRUE),
    F("program", "j", TRUE, FALSE, -1, <<1>>, <<1>>, FALSE)>>

VARIABLE build
backend_vars == <<build, vars, dbghelp_vars>>

BackEndInit ==
  /\ build \in {"addr2line", "dbghelp"}
  /\ Init /\ (build = "dbghelp" => setting = Failures)
  /\ DbghelpInit /\ (build = "addr2line" => mode = "speed")
BackEndNext ==
  \/ build = "addr2line" /\ Next /\ UNCHANGED <<build, dbghelp_vars>>
  \/ build = "dbghelp" /\ DbghelpNext /\ UNCHANGED <<build, vars>>
  \/ build = "addr2line" /\ UNCHANGED backend_vars    \* its threads come to an end
BackEndSpec == BackEndInit /\ [][BackEndNext]_backend_vars /\ (build = "addr2line" => Fairness)
===============================================================================
