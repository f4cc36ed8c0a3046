------------------------------- MODULE Dbghelp -------------------------------
(***************************************************************************)
(* dbghelp: the sessions cpptrace has with it                              *)
(* (src/src/platform/dbghelp_utils.cpp), which traces are taken and        *)
(* resolved with, and how the symbol back-end makes a signature of what it *)
(* tells of a function (src/src/symbols/symbols_with_dbghelp.cpp).         *)
(*                                                                         *)
(* The library has one thread at a time in dbghelp, by a recursive lock;   *)
(* the cache mode is not under it.  dbghelp itself is external: a session  *)
(* is for a handle, has the modules that were loaded when it began, and    *)
(* cannot be begun twice for one handle.                                   *)
(***************************************************************************)
EXTENDS Integers, Sequences, FiniteSets, SequencesExt

CONSTANTS
  Callers,      \* threads that call the library
  Handles,      \* handles of the process DuplicateHandle may give
  Proc,         \* what GetCurrentProcess gives
  Modules,      \* libraries the program may load
  Program,      \* the program itself
  Types,        \* by index: what SymGetTypeInfo tells of a type
  Functions     \* by address: the function there, and what dbghelp tells of it
None == 0       \* no type, handle or thread

ASSUME DbghelpAssumption ==
  /\ Proc \notin Handles /\ None \notin Handles \cup Callers \cup {Proc}
  /\ Program \notin Modules /\ Callers # {}

\* What a type is made of.
PartsOf(type) ==
  (IF type.tag \in {"pointer", "array", "function", "argument"} THEN {type.of} ELSE {})
  \cup (IF type.tag = "pointer" /\ type.class # None THEN {type.class} ELSE {})
  \cup (IF type.tag = "function" THEN Range(type.params) ELSE {})
object_of(method) == IF method THEN 1 ELSE 0

\* No type is made of itself, which the order says; arguments are parts of
\* functions only, which count them, and their object.
ASSUME TypesAssumption ==
  /\ Types \in Seq([tag : STRING, name : STRING, of : Nat, class : Nat, ref : BOOLEAN,
                    length : STRING, params : Seq(Nat), count : Nat])
  /\ \A index \in DOMAIN Types :
       LET type == Types[index]
       IN /\ PartsOf(type) \subseteq 1 .. (index - 1)
          /\ type.tag = "function" => type.count = Len(type.params) + object_of(type.class # None)
          /\ type.tag \in {"pointer", "array", "function"} => Types[type.of].tag # "argument"

\* The parameters of a function are complete if those listed begin with its
\* object and them, and the number is theirs.
ASSUME FunctionsAssumption ==
  \A addr \in DOMAIN Functions :
    LET f == Functions[addr]
    IN /\ f \in [module : Modules \cup {Program}, name : STRING, line : BOOLEAN, method : BOOLEAN, count : Int,
                 listed : Seq(DOMAIN Types), params : Seq(DOMAIN Types), complete : BOOLEAN]
       /\ f.complete => /\ f.count = Len(f.params) + object_of(f.method)
                        /\ f.count <= Len(f.listed)
                        /\ SubSeq(f.listed, object_of(f.method) + 1, f.count) = f.params

VARIABLES
  mode,         \* the cache mode
  loaded,       \* modules of the process
  open,         \* duplicated handles that are open
  sessions,     \* by handle: the modules a session knows
  cache,        \* get_syminit_cache(), of which the key is always Proc
  lock,         \* the recursive lock: its owner, and how often it has it
  caller,       \* by thread: where it is, and its dbghelp_syminit_info
  announced,    \* history: modules load_symbols_for_file returned for
  last          \* the frame last resolved; history: the modules that were
                \* loaded, and whether its resolution threw

dbghelp_vars == <<mode, loaded, open, sessions, cache, lock, caller, announced, last>>

-----------------------------------------------------------------------------
\* Types.  A type is written around a name: base before, extent after.
Join(base, extent) == [base |-> base, extent |-> extent]

\* What is written of types and parameters, in pieces.
Tokens == {"(", ")", ",", "::", "*", "&"} \cup UNION {{type.name, type.length} : type \in Range(Types)}

separated(parts) ==
  FlattenSeq([i \in DOMAIN parts |-> parts[i] \o (IF i < Len(parts) THEN <<",">> ELSE <<>>)])

written(type) == type.base \o type.extent
punctuation(ref) == IF ref THEN <<"&">> ELSE <<"*">>

\* What lookup_type makes of a type, with what it found for those it is made of.
\* The parameters of a method are counted with its object, which is no child.
pointer_type(of, pp) ==
  IF of.extent = <<>> THEN Join(of.base \o pp, <<>>)
  ELSE Join(of.base \o <<"(">> \o pp, <<")">> \o of.extent)
function_type(of, params) == Join(of.base, <<"(">> \o separated(params) \o <<")">> \o of.extent)

type_of(type, found) ==
  LET of == found[type.of]
      children == SubSeq(type.params, 1, type.count - object_of(type.class # None))
  IN CASE type.tag = "pointer" ->
            pointer_type(of, (IF type.class = None THEN <<>> ELSE written(found[type.class]) \o <<"::">>)
                             \o punctuation(type.ref))
       [] type.tag = "array" -> Join(of.base, <<type.length>> \o of.extent)
       [] type.tag = "function" ->
            function_type(of, [i \in DOMAIN children |-> written(found[children[i]])])
       [] type.tag = "argument" -> Join(written(of), <<>>)
       [] OTHER -> Join(<<type.name>>, <<>>)
lookup_type[index \in DOMAIN Types] == type_of(Types[index], lookup_type)
resolve_type(index) == written(lookup_type[index])

\* The parameters among the first n of the parameters and locals enumerated, a
\* comma wherever another is expected.
enumerated(listed, skips, n) ==
  LET shown == SubSeq(listed, skips + 1, IF n <= Len(listed) THEN n ELSE Len(listed))
  IN FlattenSeq([i \in DOMAIN shown |->
       resolve_type(shown[i]) \o (IF skips + i < n THEN <<",">> ELSE <<>>)])

\* With a bug: the object of a method is shown with them.
parameters_with_object(f) == enumerated(f.listed, 0, f.count)

\* The object of a method is skipped.  If the number is not to be had it is -1,
\* and the first is too many.
parameters(f) == enumerated(f.listed, object_of(f.method), f.count)

unknown(addr) == [raw |-> addr, symbol |-> <<>>, line |-> FALSE]

\* The context cannot always be set; without a line there is no signature.
frames_of(addr, session) ==
  LET f == Functions[addr]
      named == [raw |-> addr, symbol |-> <<f.name>>, line |-> f.line]
  IN IF f.module \notin session THEN {unknown(addr)}
     ELSE IF ~f.line THEN {named}
     ELSE {named, [named EXCEPT !.symbol = <<f.name, "(">> \o parameters(f) \o <<")">>]}

-----------------------------------------------------------------------------
\* Sessions.  An info that owns its session ends it when it is destroyed.
NoInfo == [handle |-> None, cleanup |-> FALSE, close |-> FALSE]
make_not_owned(handle) == [handle |-> handle, cleanup |-> FALSE, close |-> FALSE]
make_owned(handle, close) == [handle |-> handle, cleanup |-> TRUE, close |-> close]

release(info) ==
  /\ sessions' = [h \in DOMAIN sessions \ (IF info.cleanup THEN {info.handle} ELSE {}) |-> sessions[h]]
  /\ open' = IF info.close THEN open \ {info.handle} ELSE open

Idle == [at |-> "idle", op |-> "none", info |-> NoInfo, module |-> Program]
Nothing == [frame |-> "none"]

DbghelpInit ==
  /\ mode \in {"speed", "memory"}
  /\ loaded = {Program} /\ announced = {}
  /\ open = {} /\ sessions = <<>> /\ cache = NoInfo
  /\ lock = [owner |-> None, depth |-> 0]
  /\ caller = [t \in Callers |-> Idle]
  /\ last = Nothing

at(t, place) == caller[t].at = place
go(t, place) == caller' = [caller EXCEPT ![t].at = place]
use(t, info) == caller' = [caller EXCEPT ![t].at = "use", ![t].info = info]

get_dbghelp_lock(t) ==
  /\ lock.depth = 0 \/ lock.owner = t
  /\ lock' = [owner |-> t, depth |-> lock.depth + 1]
unlock == lock' = [owner |-> IF lock.depth = 1 THEN None ELSE lock.owner, depth |-> lock.depth - 1]

\* An exception leaves the function, its locks and what it owns go.
fail(t) ==
  /\ caller' = [caller EXCEPT ![t] = Idle]
  /\ lock' = [owner |-> None, depth |-> 0]
  /\ last' = Nothing

-----------------------------------------------------------------------------
\* resolve_frames, the unwinding back-end's capture_frames, and
\* load_symbols_for_file, which wants a module that is loaded.
begin(t) ==
  /\ at(t, "idle")
  /\ get_dbghelp_lock(t)
  /\ \/ \E op \in {"resolve", "unwind"} :
          caller' = [caller EXCEPT ![t].at = "ensure", ![t].op = op]
     \/ \E module \in loaded \ {Program} :
          caller' = [caller EXCEPT ![t].at = "ensure", ![t].op = "load", ![t].module = module]
  /\ UNCHANGED <<mode, loaded, open, sessions, cache, announced, last>>

\* ensure_syminit: with its own hold on the lock, and a look at the mode.
ensure_syminit(t) ==
  /\ at(t, "ensure")
  /\ IF mode = "speed" /\ cache # NoInfo
     THEN use(t, make_not_owned(cache.handle)) /\ UNCHANGED lock
     ELSE go(t, "initialize") /\ get_dbghelp_lock(t)
  /\ UNCHANGED <<mode, loaded, open, sessions, cache, announced, last>>

begin_session(handle) ==
  sessions' = [h \in DOMAIN sessions \cup {handle} |-> IF h = handle THEN loaded ELSE sessions[h]]

\* SymInitialize, on a duplicate of the handle if there is one.
sym_initialize(t) ==
  /\ at(t, "initialize")
  /\ \/ \E h \in Handles \ open :
          /\ open' = open \cup {h} /\ begin_session(h)
          /\ caller' = [caller EXCEPT ![t].at = "keep", ![t].info = make_owned(h, TRUE)]
          /\ UNCHANGED <<lock, last>>
     \/ /\ Proc \notin DOMAIN sessions
        /\ begin_session(Proc)
        /\ caller' = [caller EXCEPT ![t].at = "keep", ![t].info = make_owned(Proc, FALSE)]
        /\ UNCHANGED <<open, lock, last>>
     \/ fail(t) /\ UNCHANGED <<open, sessions>>
  /\ UNCHANGED <<mode, loaded, cache, announced>>

\* keep_session with a bug: what is cached stays the caller's as well.
keep_session_shared(t) ==
  /\ at(t, "keep")
  /\ use(t, caller[t].info) /\ unlock
  /\ cache' = IF mode = "speed" THEN caller[t].info ELSE cache
  /\ UNCHANGED <<mode, loaded, open, sessions, announced, last>>

\* The mode is looked at again.  Into the cache with the session, if none is
\* there: another that was there makes the insertion fail, the session is ended
\* and the VERIFY throws.
keep_session(t) ==
  /\ at(t, "keep")
  /\ IF mode # "speed"
     THEN use(t, caller[t].info) /\ unlock /\ UNCHANGED <<open, sessions, cache, last>>
     ELSE IF cache # NoInfo THEN release(caller[t].info) /\ fail(t) /\ UNCHANGED cache
     ELSE /\ cache' = caller[t].info
          /\ use(t, make_not_owned(caller[t].info.handle))
          /\ unlock /\ UNCHANGED <<open, sessions, last>>
  /\ UNCHANGED <<mode, loaded, announced>>

\* resolve_frame, which may throw whatever dbghelp knows: the exception is
\* absorbed and the frame unknown, or it is thrown on.
resolve_frame(t) ==
  /\ at(t, "use") /\ caller[t].op = "resolve" /\ last = Nothing
  /\ LET handle == caller[t].info.handle
     IN \E addr \in DOMAIN Functions :
          \/ /\ \/ last' \in {[frame |-> f, known |-> loaded, threw |-> FALSE] :
                                f \in frames_of(addr, sessions[handle])}
                \/ last' = [frame |-> unknown(addr), known |-> loaded, threw |-> TRUE]
             /\ UNCHANGED <<open, sessions, lock, caller>>
          \/ release(caller[t].info) /\ fail(t)
  /\ UNCHANGED <<mode, loaded, cache, announced>>

next_frame(t) ==
  /\ at(t, "use") /\ last # Nothing
  /\ last' = Nothing
  /\ UNCHANGED <<mode, loaded, open, sessions, cache, lock, caller, announced>>

\* load_symbols_for_file takes the handle from an info that is destroyed with
\* that statement.  dbghelp then may not know the handle.
load_symbols(t) ==
  /\ at(t, "use") /\ caller[t].op = "load"
  /\ release(caller[t].info)
  /\ caller' = [caller EXCEPT ![t].at = "load"]
  /\ UNCHANGED <<mode, loaded, cache, lock, announced, last>>
sym_load_module(t) ==
  /\ at(t, "load")
  /\ LET handle == caller[t].info.handle
     IN IF handle \in DOMAIN sessions
        THEN /\ sessions' = [sessions EXCEPT ![handle] = @ \cup {caller[t].module}]
             /\ announced' = announced \cup {caller[t].module}
        ELSE UNCHANGED <<sessions, announced>>
  /\ fail(t)
  /\ UNCHANGED <<mode, loaded, open, cache>>

\* The end of resolve_frames or capture_frames.
finish(t) ==
  /\ at(t, "use") /\ caller[t].op # "load" /\ last = Nothing
  /\ release(caller[t].info)
  /\ caller' = [caller EXCEPT ![t] = Idle] /\ unlock
  /\ UNCHANGED <<mode, loaded, cache, announced, last>>

\* Any thread of the program: experimental::set_cache_mode, and LoadLibrary.
set_cache_mode ==
  /\ mode' \in {"speed", "memory"} \ {mode}
  /\ UNCHANGED <<loaded, open, sessions, cache, lock, caller, announced, last>>
load_library ==
  /\ \E module \in Modules \ loaded : loaded' = loaded \cup {module}
  /\ UNCHANGED <<mode, open, sessions, cache, lock, caller, announced, last>>

DbghelpNext ==
  \/ \E t \in Callers :
       \/ begin(t) \/ ensure_syminit(t) \/ sym_initialize(t) \/ keep_session(t)
       \/ resolve_frame(t) \/ next_frame(t) \/ load_symbols(t) \/ sym_load_module(t) \/ finish(t)
  \/ set_cache_mode \/ load_library

DbghelpSpec == DbghelpInit /\ [][DbghelpNext]_dbghelp_vars

-----------------------------------------------------------------------------
\* However the mode is switched, and whatever fails: every session is ended and
\* every handle closed exactly once, when what owns it goes, or is the cache's;
\* one thread is in dbghelp at a time, with a session that has not ended.  The
\* exception is load_symbols_for_file, which, unless its session is the cache's,
\* comes with one that has.
SessionsAreSound ==
  LET in == {t \in Callers : ~at(t, "idle")}
      infos == {cache} \cup {caller[t].info : t \in {t \in in : ~at(t, "load")}}
      owners == {i \in infos : i.cleanup}
  IN /\ DOMAIN sessions = {i.handle : i \in owners}
     /\ open = {i.handle : i \in {i \in owners : i.close}}
     /\ in = {lock.owner} \ {None} /\ (in = {}) = (lock.depth = 0)
     /\ \A t \in in :
          /\ at(t, "use") => caller[t].info.handle \in DOMAIN sessions
          /\ (at(t, "keep") \/ at(t, "use")) /\ caller[t].info.cleanup => caller[t].info # cache
          /\ at(t, "load") /\ ~caller[t].info.cleanup => caller[t].info.handle \in DOMAIN sessions

\* How C++ declares something of a type: from the outside of the declarator in,
\* the code's way being from the inside out.
Extends[index \in DOMAIN Types] ==
  \/ Types[index].tag \in {"array", "function"}
  \/ Types[index].tag = "pointer" /\ Extends[Types[index].of]

DeclaredAs(type, declarator, known) ==
  LET of == known[type.of]
      params == [i \in DOMAIN type.params |-> known[type.params[i]][<<>>]]
      star == (IF type.class = None THEN <<>> ELSE known[type.class][<<>>] \o <<"::">>)
              \o punctuation(type.ref)
  IN CASE type.tag = "pointer" ->
            of[IF Extends[type.of] THEN <<"(">> \o star \o declarator \o <<")">>
               ELSE star \o declarator]
       [] type.tag = "array" -> of[declarator \o <<type.length>>]
       [] type.tag = "function" -> of[declarator \o <<"(">> \o separated(params) \o <<")">>]
       [] type.tag = "argument" -> of[declarator]
       [] OTHER -> <<type.name>> \o declarator
Declared[index \in DOMAIN Types] ==
  [declarator \in Seq(Tokens) |-> DeclaredAs(Types[index], declarator, Declared)]

\* A frame of the program, or of a library that was loaded before the session
\* began or whose symbols load_symbols_for_file loaded, has its function's name
\* unless an exception of its own resolution was absorbed, and a frame of a
\* module that is not loaded has none; with parameters, these are the function's, each
\* as C++ writes its type, provided dbghelp lists them all and says how many.
FrameIsRight ==
  last # Nothing =>
    LET frame == last.frame
        f == Functions[frame.raw]
        fresh == {Program} \cup announced
    IN /\ f.module \in fresh /\ ~last.threw => frame.symbol # <<>>
       /\ frame.symbol # <<>> => f.module \in last.known /\ frame.symbol[1] = f.name
       /\ Len(frame.symbol) > 1 /\ f.complete =>
            frame.symbol = <<f.name, "(">>
              \o separated([i \in DOMAIN f.params |-> Declared[f.params[i]][<<>>]]) \o <<")">>
=============================================================================
