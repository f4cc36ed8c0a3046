----------------------------- MODULE ElfObject -----------------------------
(***************************************************************************)
(* One ELF file resolved from by several threads: detail::elf loads its    *)
(* parts lazily (src/src/binary/elf.cpp), get_module_image_base asks it    *)
(* for the image base (module_base.cpp) and the symbol table fallback of   *)
(* libdwarf's resolve_frames asks it for symbols.  An elf has no lock of   *)
(* its own.  Each of the two users holds a lock while it uses the elf, but *)
(* not the same one; open_elf_cached locks only its own lookup.            *)
(***************************************************************************)
EXTENDS Integers, Sequences

CONSTANTS
  Threads, None,
  Settings,      \* the files, cache modes and uses to consider
  MaxCalls       \* bound on the calls a thread makes

Tables == {"symtab", "dynsym"}
Parts == {"header", "sections", "strtab", "dynstr"} \cup Tables

\* A file: its unreadable parts ("magic": it cannot be opened as an elf, and
\* "program headers", which no one keeps), the symbol tables it has, and those that
\* hold the address looked up.  In cache mode hybrid or speed open_elf_cached hands
\* out one shared elf.  Callers resolve a raw "trace", or "objects".
ASSUME ElfAssumption ==
  /\ None \notin Threads \cup Parts \cup {"ok", "error", "found", "not found"}
  /\ MaxCalls \in Nat
  /\ \A s \in Settings :
       /\ s.file \in [corrupt : SUBSET (Parts \cup {"magic", "program headers"}),
                      tables : SUBSET Tables, holds : SUBSET Tables]
       /\ s.file.holds \subseteq s.file.tables
       /\ s.shared \in BOOLEAN
       /\ s.uses \subseteq {"trace", "objects"}

VARIABLES
  setting,
  loaded, tried,       \* for each elf, the did_load_ and tried_to_load_ flags
  base_lock,           \* the mutex of get_module_image_base, its owner
  base_cached,         \* whether its cache has the file
  resolve_lock,        \* the mutex of libdwarf's resolve_frames
  pc,                  \* what each thread is at, "idle" between calls
  calls,               \* the get_ functions it is in, outermost first
  ret,                 \* what the last one of them returned
  base_answer, symbol_answer,   \* what its last calls were told
  calls_left,
  reads                \* history: times each part of the shared elf was read

flags == <<loaded, tried, reads>>
locks == <<base_lock, base_cached, resolve_lock>>
answers == <<base_answer, symbol_answer>>
file == setting.file
SharedElf == setting.shared
vars == <<setting, flags, locks, pc, calls, ret, answers, calls_left>>

\* The elf a thread uses: the cached one, or its own.
Shared == "shared"
ElfShared(t) == Shared  \* Elf with a bug: the cache is used in every mode
Elf(t) == IF SharedElf THEN Shared ELSE t

In(t) == calls[t] # <<>>
Current(t) == calls[t][Len(calls[t])]
Callers(t) == SubSeq(calls[t], 1, Len(calls[t]) - 1)
At(t, stage) == In(t) /\ Current(t).at = stage
Get(part) == [part |-> part, at |-> "loaded?"]

\* The part each get_ function asks for before it reads its own.
Needs(part) ==
  CASE part = "header" -> None [] part = "sections" -> "header" [] OTHER -> "sections"

-----------------------------------------------------------------------------
Init ==
  /\ setting \in Settings
  /\ loaded = [e \in Threads \cup {Shared} |-> {}]
  /\ tried = [e \in Threads \cup {Shared} |-> {}]
  /\ base_lock = None /\ resolve_lock = None
  /\ base_cached = FALSE
  /\ pc = [t \in Threads |-> "idle"]
  /\ calls = [t \in Threads |-> <<>>]
  /\ ret = [t \in Threads |-> "ok"]
  /\ base_answer = [t \in Threads |-> None]
  /\ symbol_answer = [t \in Threads |-> None]
  /\ calls_left = [t \in Threads |-> MaxCalls]
  /\ reads = [p \in Parts |-> 0]

return(t, r) ==
  /\ calls' = [calls EXCEPT ![t] = Callers(t)]
  /\ ret' = [ret EXCEPT ![t] = r]

step(t) == UNCHANGED <<setting, locks, pc, answers, calls_left>>
move_to(t, stage) == [calls EXCEPT ![t][Len(calls[t])].at = stage]

\* if(header) return; and if(did_load_...) return; of every get_ function.
check_loaded(t) ==
  /\ At(t, "loaded?")
  /\ IF Current(t).part \in loaded[Elf(t)]
     THEN return(t, "ok")
     ELSE calls' = move_to(t, "tried?") /\ UNCHANGED ret
  /\ UNCHANGED flags /\ step(t)

\* check_tried with a bug: the flag is not looked at.
check_not_tried(t) ==
  LET part == Current(t).part
  IN /\ At(t, "tried?")
     /\ tried' = [tried EXCEPT ![Elf(t)] = @ \cup {part}]
     /\ calls' = IF Needs(part) = None
                 THEN move_to(t, "read")
                 ELSE [move_to(t, "needs") EXCEPT ![t] = Append(@, Get(Needs(part)))]
     /\ ret' = [ret EXCEPT ![t] = "ok"]
     /\ UNCHANGED <<loaded, reads>> /\ step(t)

\* if(tried_to_load_...) return an error; else try, from the part needed on.
check_tried(t) ==
  LET part == Current(t).part
  IN /\ At(t, "tried?")
     /\ IF part \in tried[Elf(t)]
        THEN return(t, "error") /\ UNCHANGED tried
        ELSE /\ tried' = [tried EXCEPT ![Elf(t)] = @ \cup {part}]
             /\ calls' = IF Needs(part) = None
                         THEN move_to(t, "read")
                         ELSE [move_to(t, "needs") EXCEPT ![t] = Append(@, Get(Needs(part)))]
             /\ ret' = [ret EXCEPT ![t] = "ok"]
     /\ UNCHANGED <<loaded, reads>> /\ step(t)

\* The part needed has returned to its caller.
check_needed(t) ==
  /\ At(t, "needs")
  /\ IF ret[t] = "ok" THEN calls' = move_to(t, "read") /\ UNCHANGED ret
                      ELSE return(t, "error")
  /\ UNCHANGED flags /\ step(t)

\* The part is read from the file, and marked as loaded if that succeeds.  A
\* read is a seek and a read of the elf's one FILE; it is one step here, as
\* DataRaceFree says that no other thread reads from that FILE meanwhile.
read(t) ==
  LET part == Current(t).part
  IN /\ At(t, "read")
     /\ IF part \in file.corrupt
        THEN return(t, "error") /\ UNCHANGED loaded
        ELSE return(t, "ok") /\ loaded' = [loaded EXCEPT ![Elf(t)] = @ \cup {part}]
     /\ reads' = IF SharedElf THEN [reads EXCEPT ![part] = @ + 1] ELSE reads
     /\ UNCHANGED tried /\ step(t)

\* open_elf_cached, in memory mode a fresh elf of the caller's own.
open_elf_cached(t) ==
  IF SharedElf THEN UNCHANGED flags
  ELSE /\ loaded' = [loaded EXCEPT ![t] = {}]
       /\ tried' = [tried EXCEPT ![t] = {}]
       /\ UNCHANGED reads
Opens == "magic" \notin file.corrupt

-----------------------------------------------------------------------------
\* raw_trace::resolve, or object_trace::resolve, whose frames come with their
\* object's path and address.
resolve(t, use) ==
  /\ pc[t] = "idle" /\ calls_left[t] > 0 /\ use \in setting.uses
  /\ calls_left' = [calls_left EXCEPT ![t] = @ - 1]
  /\ pc' = [pc EXCEPT ![t] = IF use = "trace" THEN "unlocated" ELSE "located"]
  /\ UNCHANGED <<setting, flags, locks, calls, ret, answers>>

\* begin_base with a bug: no lock is taken.
begin_base_unlocked(t) ==
  /\ pc[t] = "unlocated"
  /\ IF base_cached
     THEN /\ pc' = [pc EXCEPT ![t] = "has base"]
          /\ ret' = [ret EXCEPT ![t] = "ok"]
          /\ UNCHANGED <<calls, flags>>
     ELSE /\ open_elf_cached(t)
          /\ pc' = [pc EXCEPT ![t] = IF Opens THEN "base" ELSE "has base"]
          /\ ret' = [ret EXCEPT ![t] = IF Opens THEN "ok" ELSE "error"]
          /\ calls' = [calls EXCEPT ![t] = IF Opens THEN <<Get("header")>> ELSE <<>>]
  /\ UNCHANGED <<setting, base_lock, base_cached, resolve_lock, answers, calls_left>>

\* get_module_image_base, for a raw trace whose frames are located by dladdr:
\* the cache, else the elf, under base_lock.  It asks for the header first.
begin_base(t) ==
  /\ pc[t] = "unlocated"
  /\ base_lock = None
  /\ base_lock' = t
  /\ IF base_cached
     THEN /\ pc' = [pc EXCEPT ![t] = "has base"]
          /\ ret' = [ret EXCEPT ![t] = "ok"]
          /\ UNCHANGED <<calls, flags>>
     ELSE /\ open_elf_cached(t)
          /\ pc' = [pc EXCEPT ![t] = IF Opens THEN "base" ELSE "has base"]
          /\ ret' = [ret EXCEPT ![t] = IF Opens THEN "ok" ELSE "error"]
          /\ calls' = [calls EXCEPT ![t] = IF Opens THEN <<Get("header")>> ELSE <<>>]
  /\ UNCHANGED <<setting, base_cached, resolve_lock, answers, calls_left>>

\* The header, and with it where the program headers are, has been asked for.
header_loaded(t) ==
  /\ pc[t] = "base" /\ ~In(t)
  /\ pc' = [pc EXCEPT ![t] = IF ret[t] = "ok" THEN "program headers" ELSE "has base"]
  /\ UNCHANGED <<setting, flags, locks, calls, ret, answers, calls_left>>

\* The loop over the program headers, up to PT_PHDR.  They are not kept, and
\* that they cannot be read is not remembered.
read_program_headers(t) ==
  /\ pc[t] = "program headers"
  /\ ret' = [ret EXCEPT ![t] = IF "program headers" \in file.corrupt THEN "error" ELSE "ok"]
  /\ pc' = [pc EXCEPT ![t] = "has base"]
  /\ UNCHANGED <<setting, flags, locks, calls, answers, calls_left>>

\* end_base with a bug: the lock is not released on the error path.
end_base_locked(t) ==
  /\ pc[t] = "has base"
  /\ base_lock' = IF ret[t] = "ok" THEN None ELSE base_lock
  /\ base_cached' = (base_cached \/ ret[t] = "ok")
  /\ base_answer' = [base_answer EXCEPT ![t] = ret[t]]
  /\ pc' = [pc EXCEPT ![t] = "located"]
  /\ UNCHANGED <<setting, flags, resolve_lock, calls, ret, symbol_answer, calls_left>>

\* The base is cached if it was found; the trace goes on either way.
end_base(t) ==
  /\ pc[t] = "has base"
  /\ base_lock' = None
  /\ base_cached' = (base_cached \/ ret[t] = "ok")
  /\ base_answer' = [base_answer EXCEPT ![t] = ret[t]]
  /\ pc' = [pc EXCEPT ![t] = "located"]
  /\ UNCHANGED <<setting, flags, resolve_lock, calls, ret, symbol_answer, calls_left>>

\* libdwarf::resolve_frames up to the fallback to symbol tables.  lookup_symbol
\* starts with the symbol table.
begin_resolve(t) ==
  /\ pc[t] = "located"
  /\ resolve_lock = None
  /\ resolve_lock' = t
  /\ open_elf_cached(t)
  /\ pc' = [pc EXCEPT ![t] = IF Opens THEN "symtab" ELSE "not found"]
  /\ calls' = [calls EXCEPT ![t] = IF Opens THEN <<Get("symtab")>> ELSE <<>>]
  /\ ret' = [ret EXCEPT ![t] = "ok"]
  /\ UNCHANGED <<setting, base_lock, base_cached, answers, calls_left>>

\* lookup_symbol: a table, and if it was read and exists its string table; if
\* that does not give a symbol, the next table.
Strings(table) == IF table = "symtab" THEN "strtab" ELSE "dynstr"
next_lookup(t, table) ==
  IF table = "symtab"
  THEN /\ pc' = [pc EXCEPT ![t] = "dynsym"]
       /\ calls' = [calls EXCEPT ![t] = <<Get("dynsym")>>]
  ELSE pc' = [pc EXCEPT ![t] = "not found"] /\ UNCHANGED calls

table_loaded(t, table) ==
  /\ pc[t] = table /\ ~In(t)
  /\ IF ret[t] = "ok" /\ table \in file.tables
     THEN /\ pc' = [pc EXCEPT ![t] = Strings(table)]
          /\ calls' = [calls EXCEPT ![t] = <<Get(Strings(table))>>]
     ELSE next_lookup(t, table)
  /\ UNCHANGED <<setting, flags, locks, ret, answers, calls_left>>

strings_loaded(t, table) ==
  /\ pc[t] = Strings(table) /\ ~In(t)
  /\ IF ret[t] = "ok" /\ table \in file.holds
     THEN pc' = [pc EXCEPT ![t] = "found"] /\ UNCHANGED calls
     ELSE next_lookup(t, table)
  /\ UNCHANGED <<setting, flags, locks, ret, answers, calls_left>>

end_resolve(t) ==
  /\ pc[t] \in {"found", "not found"}
  /\ symbol_answer' = [symbol_answer EXCEPT ![t] = pc[t]]
  /\ resolve_lock' = None
  /\ pc' = [pc EXCEPT ![t] = "idle"]
  /\ UNCHANGED <<setting, flags, base_lock, base_cached, calls, ret, base_answer, calls_left>>

Step(t) ==
  \/ check_loaded(t) \/ check_tried(t) \/ check_needed(t) \/ read(t)
  \/ begin_base(t) \/ header_loaded(t) \/ read_program_headers(t) \/ end_base(t)
  \/ begin_resolve(t) \/ end_resolve(t)
  \/ \E table \in Tables : table_loaded(t, table) \/ strings_loaded(t, table)

Next == \E t \in Threads : Step(t) \/ \E use \in {"trace", "objects"} : resolve(t, use)

\* Threads are scheduled, and a mutex is not held from a thread for ever.
Fairness == \A t \in Threads : WF_vars(Step(t))

Spec == Init /\ [][Next]_vars /\ Fairness

-----------------------------------------------------------------------------
Stages == {"loaded?", "tried?", "needs", "read"}
Resolving == Tables \cup {"strtab", "dynstr", "found", "not found"}

\* No thread writes a part of an elf, or its flags, while another thread is
\* at the same part of the same elf, and no two threads read from the FILE of
\* the same elf, whose position one would move under the other.
Writes(t) ==
  \/ At(t, "read")
  \/ At(t, "tried?") /\ Current(t).part \notin tried[Elf(t)]
Reads(t) == At(t, "read") \/ pc[t] = "program headers"
DataRaceFree ==
  \A t, u \in Threads :
    t # u /\ Elf(t) = Elf(u) =>
      /\ In(t) /\ In(u) /\ Current(t).part = Current(u).part => ~Writes(t)
      /\ ~(Reads(t) /\ Reads(u))

\* What a thread is told depends on the file alone, not on what other threads
\* are doing or did: the base is found if header and program headers are readable,
\* the symbol if a table that holds it and its strings are.
Readable(parts) == parts \cap file.corrupt = {}
AnswersMatchFile ==
  \A t \in Threads :
    /\ base_answer[t] # None =>
         (base_answer[t] = "ok" <=> Readable({"magic", "header", "program headers"}))
    /\ symbol_answer[t] # None =>
         (symbol_answer[t] = "found" <=>
            \E table \in file.holds :
              Readable({"magic", "header", "sections", table, Strings(table)}))

\* A part of the shared elf is read once, whether or not that succeeds.
ReadOnce == \A p \in Parts : reads[p] <= 1

\* Every call returns: no thread waits for a lock for ever.
EveryCallEnds == \A t \in Threads : pc[t] # "idle" ~> pc[t] = "idle"
=============================================================================
