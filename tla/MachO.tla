------------------------------- MODULE MachO -------------------------------
(***************************************************************************)
(* Mach-O files and the class mach_o that reads them                       *)
(* (src/src/binary/mach-o.cpp): thin and fat files, load commands, the     *)
(* symbol table, the debug map the linker leaves in it, the base address   *)
(* of the text.  Everything is read on demand, and a part that was tried   *)
(* is not tried again.                                                     *)
(*                                                                         *)
(* A file is a function from offsets to the items at them: a fat header    *)
(* with its slices, a header, load commands, symbol table entries, a       *)
(* string table.  An item is for one width (32 or 64) and byte order; read *)
(* as something else than it is, it counts as unreadable.  A file may be   *)
(* there up to some offset only, while the compiler writes it.             *)
(***************************************************************************)
EXTENDS Integers, Sequences, FiniteSets, SequencesExt

CONSTANTS
  Files,        \* by path: the items of the whole file
  Images,       \* by path: what was written to it for this machine
  HostArch,
  Nothing, Error

\* What the linker and the compiler write: where the image is in the file, its
\* load commands, the symbol table's place and strings, the table's entries.
MachCommand == [offset : Nat, cmd : STRING]
MachEntry == [type : STRING, name : STRING, value : Nat]
NamedTypes == {"N_OSO", "N_FUN", "N_SECT"}

\* In a fat file it is the first slice for this machine.
BeginsAt(items, start) ==
  LET arches == 1 .. items[0].nfat_arch
  IN \/ items[0].kind = "header" /\ start = 0
     \/ /\ items[0].kind = "fat" /\ items[0].nfat_arch \in Nat
        /\ \A i \in arches : /\ i \in DOMAIN items /\ items[i].kind = "fat_arch"
                              /\ items[i].width = 32 /\ items[i].big = items[0].big
        /\ \E i \in arches : /\ items[i].arch = HostArch /\ items[i].offset = start
                              /\ \A j \in 1 .. (i - 1) : items[j].arch # HostArch

CommandAt(items, image, k) ==
  LET command == image.commands[k]
  IN /\ command.offset \in DOMAIN items
     /\ items[command.offset].kind = "command" /\ items[command.offset].cmd = command.cmd
     /\ items[command.offset].width = image.width /\ items[command.offset].big = image.big
     /\ command.offset =
          IF k = 1 THEN image.start + 1
          ELSE image.commands[k - 1].offset + items[image.commands[k - 1].offset].size

\* The first command for a symbol table has its place and that of its strings.
SymtabAt(items, image, k) ==
  LET symtab == items[image.commands[k].offset]
      strings == image.start + symtab.stroff
  IN /\ image.commands[k].cmd = "symtab"
     /\ \A j \in 1 .. (k - 1) : image.commands[j].cmd # "symtab"
     /\ strings \in DOMAIN items /\ items[strings].kind = "strings"
     /\ items[strings].width = 8 /\ items[strings].big = FALSE
     /\ image.info = [symoff |-> symtab.symoff, nsyms |-> symtab.nsyms,
                      names |-> items[strings].names]

EntryAt(items, image, j) ==
  LET offset == image.start + image.info.symoff + (j - 1)
      entry == items[offset]
      names == image.info.names
  IN /\ offset \in DOMAIN items /\ entry.kind = "nlist"
     /\ entry.width = image.width /\ entry.big = image.big
     /\ entry.type = image.entries[j].type
     /\ entry.type \in NamedTypes =>
          /\ entry.value = image.entries[j].value
          /\ entry.strx \in DOMAIN names /\ names[entry.strx] = image.entries[j].name

Written(items, image) ==
  /\ {0, image.start} \subseteq DOMAIN items /\ BeginsAt(items, image.start)
  /\ items[image.start].kind = "header" /\ items[image.start].width = image.width
  /\ items[image.start].big = image.big /\ items[image.start].ncmds = Len(image.commands)
  /\ \A k \in DOMAIN image.commands : CommandAt(items, image, k)
  /\ \E k \in DOMAIN image.commands : SymtabAt(items, image, k)
  /\ image.info.nsyms = Len(image.entries) /\ image.info.symoff \in Nat
  /\ \A j \in DOMAIN image.entries : EntryAt(items, image, j)

\* The symbols of a file that are defined in a section.
TableOf(path) ==
  {[name |-> e.name, address |-> e.value] : e \in {e \in Range(Images[path].entries) : e.type = "N_SECT"}}

MachObject ==
  [path : DOMAIN Files, width : Nat, big : BOOLEAN, load_base : Nat, fat_index : Nat \cup {Nothing},
   commands : Seq(MachCommand), symtab_info : {Images[path].info : path \in DOMAIN Files} \cup {Nothing},
   tried_symtab : BOOLEAN, symbols : {TableOf(path) : path \in DOMAIN Files} \cup {Nothing},
   tried_symbols : BOOLEAN]

ASSUME MachOAssumption ==
  /\ DOMAIN Images = DOMAIN Files
  /\ \A path \in DOMAIN Files :
       /\ DOMAIN Files[path] \subseteq Nat
       /\ \A offset \in DOMAIN Files[path] :
            LET item == Files[path][offset]
            IN /\ item # Error /\ item.width \in Nat /\ item.big \in BOOLEAN
               /\ item.kind = "command" => item.size \in Nat /\ item.cmd \in STRING
       /\ Images[path].start \in Nat
       /\ Images[path].commands \in Seq(MachCommand) /\ Images[path].entries \in Seq(MachEntry)
       /\ Written(Files[path], Images[path])

\* What is read is neither.
ASSUME ErrorAssumption ==
  /\ Nothing # Error
  /\ \A path \in DOMAIN Files : /\ Images[path].info \notin {Nothing, Error}
                               /\ TableOf(path) \notin {Nothing, Error}
  /\ Error \notin STRING /\ Error \notin MachEntry
  /\ Error \notin MachObject /\ Nothing \notin MachObject

VARIABLE readable   \* by path: the offset the file is there up to

there(items, offset, end) ==
  IF offset \in DOMAIN items /\ offset < end THEN items[offset] ELSE Error
item_at(path, offset) == there(Files[path], offset, readable[path])

\* file->read of a structure, and its swap if the file asks for one.
read_as(item, kind, width, swap) ==
  IF item # Error /\ item.kind = kind /\ item.width = width /\ item.big = swap
  THEN item ELSE Error
read_structure(path, offset, kind, width, swap) ==
  read_as(item_at(path, offset), kind, width, swap)

-----------------------------------------------------------------------------
\* The header says how many load commands follow it, each one how long it is.
\* Those before one that cannot be read stay in the list.
add_command(s, command) ==
  IF s.ok /\ command # Error
  THEN [ok |-> TRUE, offset |-> s.offset + command.size,
        list |-> Append(s.list, [offset |-> s.offset, cmd |-> command.cmd])]
  ELSE [s EXCEPT !.ok = FALSE]

load_commands(m, header) ==
  LET loaded[n \in 0 .. header.ncmds] ==
        IF n = 0 THEN [ok |-> TRUE, offset |-> m.load_base + 1, list |-> <<>>]
        ELSE add_command(loaded[n - 1], read_structure(m.path, loaded[n - 1].offset, "command",
                                                       m.width, header.big))
  IN loaded[header.ncmds]

load_mach_from(m, header) ==
  IF header = Error \/ header.kind # "header" \/ header.width # m.width
  THEN [ok |-> FALSE, object |-> m]
  ELSE LET loaded == load_commands(m, header)
       IN [ok |-> loaded.ok,
           object |-> [m EXCEPT !.big = header.big, !.commands = loaded.list]]
load_mach(m) == load_mach_from(m, item_at(m.path, m.load_base))

fat_arches(m, fat) ==
  [i \in 1 .. fat.nfat_arch |-> read_structure(m.path, i, "fat_arch", 32, fat.big)]

\* What load_mach returns is not looked at.
load_slice(m, index, offset, magic) ==
  IF magic = Error THEN Error
  ELSE load_mach([m EXCEPT !.load_base = offset, !.fat_index = index, !.width = magic.width]).object

\* The first of the wanted slices, if there is one and all can be read.
load_wanted(m, arches, i) ==
  IF Error \in Range(arches) \/ i = 0 THEN Error
  ELSE load_slice(m, i - 1, arches[i].offset, item_at(m.path, arches[i].offset))

load_best(m, arches) ==
  load_wanted(m, arches, SelectInSeq(arches, LAMBDA arch : arch # Error /\ arch.arch = HostArch))

\* load_fat_mach with a bug: the first slice is taken.
load_fat_mach_first(m) == load_wanted(m, fat_arches(m, item_at(m.path, 0)), 1)

\* The slice for this machine.
load_fat_mach(m) == load_best(m, fat_arches(m, item_at(m.path, 0)))

load(m, magic) ==
  IF magic.kind = "fat" THEN load_fat_mach(m)
  ELSE LET loaded == load_mach([m EXCEPT !.fat_index = 0, !.width = magic.width])
       IN IF loaded.ok THEN loaded.object ELSE Error

open_with(path, magic) ==
  IF magic = Error \/ magic.kind \notin {"fat", "header"} THEN Error
  ELSE load([path |-> path, width |-> 0, big |-> magic.big, load_base |-> 0,
             fat_index |-> Nothing, commands |-> <<>>,
             symtab_info |-> Nothing, tried_symtab |-> FALSE,
             symbols |-> Nothing, tried_symbols |-> FALSE], magic)
open(path) == open_with(path, item_at(path, 0))

-----------------------------------------------------------------------------
\* A command read again as what it is.  (The assertion on cmd, which comes before
\* the swap, would fail for a slice of the other byte order; this machine runs
\* none.)
load_command(m, command) == read_structure(m.path, command.offset, "command", m.width, m.big)

\* The first __TEXT segment, unless one before it cannot be read.
get_text_vmaddr(m) ==
  LET segment(k) == load_command(m, m.commands[k])
      stop == SelectInSeq(m.commands, LAMBDA c : /\ c.cmd = "segment"
                                                 /\ \/ load_command(m, c) = Error
                                                    \/ load_command(m, c).name = "__TEXT")
  IN IF stop = 0 \/ segment(stop) = Error THEN Error ELSE segment(stop).vmaddr

\* The symbol table's place and strings; the result is an error only once.
new_symtab_info(m, symtab, strings) ==
  IF symtab = Error \/ strings = Error THEN [object |-> m, result |-> Error]
  ELSE LET info == [symoff |-> symtab.symoff, nsyms |-> symtab.nsyms, names |-> strings.names]
       IN [object |-> [m EXCEPT !.symtab_info = info], result |-> info]
load_symtab_info(m, symtab) ==
  IF symtab = Error THEN [object |-> m, result |-> Error]
  ELSE new_symtab_info(m, symtab,
                       read_structure(m.path, m.load_base + symtab.stroff, "strings", 8, FALSE))
get_symtab_info(m) ==
  LET found == SelectInSeq(m.commands, LAMBDA c : c.cmd = "symtab")
  IN IF m.symtab_info # Nothing \/ m.tried_symtab THEN [object |-> m, result |-> m.symtab_info]
     ELSE IF found = 0 THEN [object |-> [m EXCEPT !.tried_symtab = TRUE], result |-> Nothing]
     ELSE load_symtab_info([m EXCEPT !.tried_symtab = TRUE], load_command(m, m.commands[found]))

get_string(info, index) == IF index \in DOMAIN info.names THEN info.names[index] ELSE Error

\* The entries of the symbol table, with the names of those of the types in
\* named; one that cannot be read, or whose name cannot, fails the whole.
load_symtab_entry(m, info, j) ==
  read_structure(m.path, m.load_base + info.symoff + j, "nlist", m.width, m.big)

name_entry(entry, info, named) ==
  IF entry = Error \/ entry.type \notin named THEN entry
  ELSE IF get_string(info, entry.strx) = Error THEN Error
  ELSE [type |-> entry.type, value |-> entry.value, name |-> get_string(info, entry.strx)]

named_entries(m, info, named) ==
  [j \in 1 .. info.nsyms |-> name_entry(load_symtab_entry(m, info, j - 1), info, named)]

\* N_OSO opens an object; a function is an N_FUN with its name and address, and
\* an N_FUN without a name that has its size.
ModulesIn(entries, j) == {i \in 1 .. j : entries[i].type = "N_OSO"}
FunctionsIn(entries, j) == {i \in 1 .. j : entries[i].type = "N_FUN" /\ entries[i].name # ""}
Closings(entries) == {j \in DOMAIN entries : entries[j].type = "N_FUN" /\ entries[j].name = ""}

\* With a bug: the functions of all objects go to the first.
current_module_first(entries, j) ==
  LET opened == ModulesIn(entries, j) IN IF opened = {} THEN "" ELSE entries[Min(opened)].name

current_module(entries, j) ==
  LET opened == ModulesIn(entries, j) IN IF opened = {} THEN "" ELSE entries[Max(opened)].name
current_function(entries, j) == entries[Max(FunctionsIn(entries, j))]

debug_map(entries) ==
  IF Error \in Range(entries) THEN Error
  ELSE {[object |-> current_module(entries, j), name |-> current_function(entries, j).name,
         address |-> current_function(entries, j).value, size |-> entries[j].value] :
          j \in Closings(entries)}
get_debug_map_with(info) ==
  [object |-> info.object,
   result |-> IF info.result \in {Error, Nothing} THEN Error
              ELSE debug_map(named_entries(info.object, info.result, {"N_OSO", "N_FUN"}))]
get_debug_map(m) == get_debug_map_with(get_symtab_info(m))

\* The symbols defined in a section, with their addresses.
section_symbols(entries) ==
  IF Error \in Range(entries) THEN Error
  ELSE {[name |-> e.name, address |-> e.value] :
          e \in {f \in Range(entries) : f.type = "N_SECT"}}
with_symbols(m, table) ==
  [object |-> IF table = Error THEN m ELSE [m EXCEPT !.symbols = table], result |-> table]
load_symbols(info) ==
  IF info.result \in {Error, Nothing} THEN [object |-> info.object, result |-> Error]
  ELSE with_symbols(info.object,
                    section_symbols(named_entries(info.object, info.result, {"N_SECT"})))
symbol_table(m) ==
  IF m.symbols # Nothing THEN [object |-> m, result |-> m.symbols]
  ELSE IF m.tried_symbols THEN [object |-> m, result |-> Error]
  ELSE load_symbols(get_symtab_info([m EXCEPT !.tried_symbols = TRUE]))

\* The symbols one of which is the last at pc or below, whatever the order of
\* those at one address.
closest(symbols, pc) ==
  {s \in symbols : s.address <= pc /\ ~\E t \in symbols : s.address < t.address /\ t.address <= pc}

lookup_in(table, pc) ==
  [object |-> table.object,
   result |-> IF table.result = Error THEN {} ELSE closest(table.result, pc)]
lookup_symbol(m, pc) == lookup_in(symbol_table(m), pc)
=============================================================================
