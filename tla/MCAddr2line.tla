---------------------------- MODULE MCAddr2line ----------------------------
(* One thread with every failure, and one with requests that fit the pipes   *)
(* with nothing to spare; two threads without and with failures.             *)
EXTENDS Addr2line

CONSTANTS t1, t2

Setting(threads, lines, capacity, failing) ==
  [threads |-> threads, lines |-> lines, capacity |-> capacity, failing |-> failing]
Failures == Setting({t1}, 2, 2, {"pipe", "fork", "exec"})
Backpressure == {Setting({t1}, 2 * n + 1, n, {}) : n \in 1 .. 3}
TwoThreads == Setting({t1, t2}, 2, 1, {})
TwoThreadsFailing == Setting({t1, t2}, 1, 1, {"fork", "exec"})
All == {Failures, TwoThreads, TwoThreadsFailing} \cup Backpressure
Deadlock == {Setting({t1, t2}, 1, 2, {})}
=============================================================================
