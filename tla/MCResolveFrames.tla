-------------------------- MODULE MCResolveFrames --------------------------
(* Three kinds of programs: one call on a trace of up to three frames, in    *)
(* two objects or in none, with the option for failures toggled at any time; *)
(* the same built with MinGW, with up to two frames; and three calls on      *)
(* short traces of one object, with the cache mode toggled at any time.      *)
EXTENDS ResolveFrames

CONSTANTS o1, o2
LongTraces == UNION {[1 .. n -> {o1, o2, NoObject}] : n \in 0 .. 3}
ShortTraces == {<<o1>>, <<o1, o1>>, <<NoObject, o1>>}
OneCall == [traces : {<<t>> : t \in LongTraces}, modes : {{"speed"}}, absorb : {BOOLEAN},
            mingw : {FALSE}]
MinGW == [traces : {<<t>> : t \in UNION {[1 .. n -> {o1, NoObject}] : n \in 0 .. 2}},
          modes : {{"speed"}}, absorb : {BOOLEAN}, mingw : {TRUE}]
ThreeCalls == [traces : [1 .. 3 -> ShortTraces], modes : {{"speed", "memory"}}, absorb : {{TRUE}},
               mingw : {FALSE}]
AllPrograms == OneCall \cup MinGW \cup ThreeCalls
=============================================================================
