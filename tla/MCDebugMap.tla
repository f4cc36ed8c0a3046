---------------------------- MODULE MCDebugMap ----------------------------
(* A fat program, with a slice of another machine before this one's, made of *)
(* two objects that have a function of the same name each.  The files are as *)
(* the linker and the compiler write them: the functions of each object in   *)
(* turn, and only then the names.  A function of the second object was left  *)
(* out by the linker, another was folded into one of the first.              *)
EXTENDS DebugMap

CONSTANTS program, first, second

F(name, o, address, size, at) ==
  [name |-> name, object |-> o, address |-> address, size |-> size, at |-> at]
MCFunctions == {F("main", first, 10, 2, 0), F("local", first, 12, 1, 5),
                F("g", first, 14, 2, 2), F("f", second, 14, 2, 3), F("local", second, 17, 1, 0)}

Names == <<"first", "second", "main", "local", "f", "g">>
Strx(name) == CHOOSE i \in DOMAIN Names : Names[i] = name

Nlist(type, strx, value, width, big) ==
  [kind |-> "nlist", width |-> width, big |-> big, type |-> type, strx |-> strx, value |-> value]
Fun(name, address, size, w, b) ==
  <<Nlist("N_BNSYM", 0, address, w, b), Nlist("N_FUN", Strx(name), address, w, b),
    Nlist("N_FUN", 0, size, w, b), Nlist("N_ENSYM", 0, size, w, b)>>

\* An image: header, commands, symbol table, strings, one after the other.
Image(width, big, vmaddr, entries) ==
  <<[kind |-> "header", width |-> width, big |-> big, ncmds |-> 3],
    [kind |-> "command", width |-> width, big |-> big, size |-> 1, cmd |-> "segment",
     name |-> "__PAGEZERO", vmaddr |-> 0],
    [kind |-> "command", width |-> width, big |-> big, size |-> 1, cmd |-> "segment",
     name |-> "__TEXT", vmaddr |-> vmaddr],
    [kind |-> "command", width |-> width, big |-> big, size |-> 1, cmd |-> "symtab",
     symoff |-> 4, nsyms |-> Len(entries), stroff |-> 4 + Len(entries)]>>
  \o entries
  \o <<[kind |-> "strings", width |-> 8, big |-> FALSE,
        names |-> [i \in 0 .. Len(Names) |->
                     IF i = 0 THEN "" ELSE IF i = 1 THEN first ELSE IF i = 2 THEN second
                     ELSE Names[i]]]>>

Sym(name, address, w, b) == <<Nlist("N_SECT", Strx(name), address, w, b)>>
Entries(w, b, shift) ==
  <<Nlist("N_SO", 0, 0, w, b), Nlist("N_OSO", 1, 1, w, b)>>
  \o Fun("main", 10 + shift, 2, w, b) \o Fun("local", 12 + shift, 1, w, b)
  \o Fun("g", 14 + shift, 2, w, b)
  \o <<Nlist("N_SO", 0, 0, w, b), Nlist("N_OSO", 2, 1, w, b)>>
  \o Fun("f", 14 + shift, 2, w, b) \o Fun("local", 17 + shift, 1, w, b)
  \o Sym("main", 10 + shift, w, b) \o Sym("local", 12 + shift, w, b) \o Sym("f", 14 + shift, w, b)
  \o Sym("g", 14 + shift, w, b) \o Sym("local", 17 + shift, w, b)

Other == Image(32, TRUE, 4, Entries(32, TRUE, 100))
Own == Image(64, FALSE, 8, Entries(64, FALSE, 0))
FatArch(arch, offset) ==
  [kind |-> "fat_arch", width |-> 32, big |-> TRUE, arch |-> arch, offset |-> offset]
Fat ==
  <<[kind |-> "fat", width |-> 32, big |-> TRUE, nfat_arch |-> 2],
    FatArch("ppc", 3), FatArch("arm64", 3 + Len(Other))>> \o Other \o Own

\* From a sequence to a function on offsets.
AtOffsets(items) == [offset \in 0 .. Len(items) - 1 |-> items[offset + 1]]
Object1 == Image(64, FALSE, 0, Sym("main", 0, 64, FALSE) \o Sym("g", 2, 64, FALSE)
                               \o Sym("local", 5, 64, FALSE))
Object2 == Image(64, FALSE, 0, Sym("local", 0, 64, FALSE) \o Sym("f", 3, 64, FALSE)
                               \o Sym("g", 3, 64, FALSE))
MCFiles == program :> AtOffsets(Fat) @@ first :> AtOffsets(Object1) @@ second :> AtOffsets(Object2)

\* What the files were written from.
Item(path, offset) == MCFiles[path][offset]
ImageAt(path, start) ==
  LET header == Item(path, start)
      symtab == Item(path, start + 3)
      strings == Item(path, start + symtab.stroff)
  IN [start |-> start, width |-> header.width, big |-> header.big,
      commands |-> [k \in 1 .. header.ncmds |-> [offset |-> start + k, cmd |-> Item(path, start + k).cmd]],
      info |-> [symoff |-> symtab.symoff, nsyms |-> symtab.nsyms, names |-> strings.names],
      entries |-> [j \in 1 .. symtab.nsyms |->
                     LET entry == Item(path, start + symtab.symoff + j - 1)
                     IN [type |-> entry.type, name |-> strings.names[entry.strx], value |-> entry.value]]]
MCImages == program :> ImageAt(program, 3 + Len(Other)) @@ first :> ImageAt(first, 0)
            @@ second :> ImageAt(second, 0)

\* A file that is missing, or ends in its load commands, before its strings or
\* behind them, before its debug information.
MCIncomplete ==
  {<<>>, first :> 6, second :> 100, program :> 2 + Len(Fat) - 4,
   (first :> 0) @@ (program :> 4 + Len(Other))}
MCPcs == {9, 11, 12, 13, 15, 17, 19}
=============================================================================
