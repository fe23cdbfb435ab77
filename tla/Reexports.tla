------------------------------ MODULE Reexports ------------------------------
(***************************************************************************)
(* buildReexportClosures of finalize-algorithm.ts: what can be imported    *)
(* from every file by way of its re-exports.  The components of the graph  *)
(* of re-exports are searched first (TarjanSccs), then gone through in the *)
(* order they were given, file by file; one step is one call of            *)
(* populateFileClosure.                                                    *)
(***************************************************************************)
EXTENDS TarjanSccs, SequencesExt

CONSTANTS
  Names,
  Programs     \* records of locals, and of drafts: what each file re-exports

NoFile == "no file"      \* the target of a draft that resolved to no file of the program
NoEntry == [via |-> << >>]

Defs == [name : Names, callable : BOOLEAN, file : Files]
Drafts == [kind : {"reexport", "wildcard"}, target : Files \cup {NoFile},
           localName : Names, importedName : Names]

ASSUME ProgramAssumption ==
  \A p \in Programs : p.locals \in [Files -> Seq(Defs)] /\ p.drafts \in [Files -> Seq(Drafts)]

VARIABLES
  program,
  closures,        \* per file, the entry of each name: the def, and via which files
  scc, turn,       \* the component being processed, and the file of it
  iter,            \* passes begun over the component
  progressed       \* in this pass

vars == <<program, searchVars, closures, scc, turn, iter, progressed>>

LocalDefs(f) == program.locals[f]
Resolved(d) == d.target \in Files

SubGraph == [f \in Files |-> {d.target : d \in {d \in Range(program.drafts[f]) : Resolved(d)}}]

Init ==
  /\ program \in Programs
  /\ graph = SubGraph /\ Unsearched
  /\ closures = [f \in Files |-> [n \in Names |-> NoEntry]]
  /\ scc = 1 /\ turn = 1 /\ iter = 1 /\ progressed = FALSE

-----------------------------------------------------------------------------
(* The surface of a file: its own definitions, then its closure.           *)

\* Where f defines n.
Named(f, n) == {i \in DOMAIN LocalDefs(f) : LocalDefs(f)[i].name = n}

\* A definition that can be called, or is a type, before another of the same name.
FindExportByName(f, n) ==
  LET callable == {i \in Named(f, n) : LocalDefs(f)[i].callable}
  IN  LocalDefs(f)[Min(IF callable # {} THEN callable ELSE Named(f, n))]

Via(t, entry) == IF entry = NoEntry THEN NoEntry ELSE [entry EXCEPT !.via = <<t>> \o @]

\* What an import, or a re-export, of n from the file t gives.
Supply(t, n, known) ==
  IF Named(t, n) # {}
  THEN [def |-> FindExportByName(t, n), via |-> <<t>>]
  ELSE Via(t, known[t][n])

\* A wildcard goes through the definitions in order, so that it takes the first.
WildcardSupply(t, n, known) ==
  IF Named(t, n) # {}
  THEN [def |-> LocalDefs(t)[Min(Named(t, n))], via |-> <<t>>]
  ELSE Via(t, known[t][n])

Has(known, f, n) == known[f][n] # NoEntry

\* The loops over the drafts of f: named re-exports, then wildcards, each in the order
\* they are written.
LoopsOver(f, kinds) ==
  LET drafts == program.drafts[f]
      Loop(kind) == [i \in DOMAIN drafts |-> [kind |-> kind, draft |-> drafts[i]]]
  IN  Loop(kinds[1]) \o Loop(kinds[2])

WildcardsFirst(f) == LoopsOver(f, <<"wildcard", "reexport">>)
Loops(f) == LoopsOver(f, <<"reexport", "wildcard">>)

\* What a turn of a loop offers for the name n: one name, or all that the target has.
Offer(l, n, known) ==
  IF l.draft.kind # l.kind \/ ~ Resolved(l.draft) THEN NoEntry
  ELSE IF l.kind = "wildcard" THEN WildcardSupply(l.draft.target, n, known)
  ELSE IF l.draft.localName = n THEN Supply(l.draft.target, l.draft.importedName, known)
  ELSE NoEntry

\* The closure of f takes the names that it does not have.
Take(f, l, known) ==
  [known EXCEPT ![f] = [n \in Names |-> IF Has(known, f, n) THEN known[f][n] ELSE Offer(l, n, known)]]

PopulateFileClosure(f, known) == FoldLeft(LAMBDA k, l : Take(f, l, k), known, Loops(f))

-----------------------------------------------------------------------------
(* Steps.                                                                  *)

SearchStep == SearchNext /\ UNCHANGED <<program, closures, scc, turn, iter, progressed>>

\* One pass less than the longest way around the cycle has files.
CapShort(component) == Len(component.files) - 1

Cap(component) == Len(component.files) + 1

Again(component, grown) == component.isCycle /\ grown /\ iter < Cap(component)

Populate ==
  /\ Searched /\ scc \in DOMAIN sccs
  /\ LET component == sccs[scc]
         grown == progressed \/ closures' # closures
     IN  /\ closures' = PopulateFileClosure(component.files[turn], closures)
         /\ \/ turn < Len(component.files)
               /\ turn' = turn + 1 /\ progressed' = grown /\ UNCHANGED <<scc, iter>>
            \/ turn = Len(component.files)
               /\ turn' = 1 /\ progressed' = FALSE
               /\ IF Again(component, grown)
                  THEN iter' = iter + 1 /\ UNCHANGED scc
                  ELSE iter' = 1 /\ scc' = scc + 1
  /\ UNCHANGED <<program, searchVars>>

Next == SearchStep \/ Populate

Spec == Init /\ [][Next]_vars

-----------------------------------------------------------------------------
(* Properties.                                                             *)

Finished == Searched /\ scc > Len(sccs)
Processed == {f \in Files : \E i \in 1 .. scc - 1 : f \in Range(sccs[i].files)}
InCycle(f) == \E i \in DOMAIN sccs : sccs[i].isCycle /\ f \in Range(sccs[i].files)

\* The name that d asks its target for, to be able to give n.
Asks(d, n, m) ==
  \/ d.kind = "reexport" /\ d.localName = n /\ d.importedName = m
  \/ d.kind = "wildcard" /\ n = m

\* What a file exports by the rules of the language: the smallest set of pairs that
\* has every name it re-exports from a file that defines or exports it.
Exporting(E) ==
  \A f \in Files, n \in Names :
    (\E d \in Range(program.drafts[f]), m \in Names :
       /\ d.target \in Files /\ Asks(d, n, m)
       /\ Named(d.target, m) # {} \/ <<d.target, m>> \in E) => <<f, n>> \in E

Exported ==
  LET pairs == Files \X Names
      exporting == {E \in SUBSET pairs : Exporting(E)}
  IN  {x \in pairs : \A E \in exporting : x \in E}

Renames(d) == d.kind = "reexport" /\ d.localName # d.importedName
KeepsNames == \A f \in Files : InCycle(f) => \A d \in Range(program.drafts[f]) : ~ Renames(d)

\* At the end a closure has the names that its file exports and no others. The pass
\* over a cycle is repeated often enough only when no name changes on the way around.
ClosuresExact ==
  Finished =>
    LET entries == {x \in Files \X Names : Has(closures, x[1], x[2])}
    IN  entries \subseteq Exported /\ (KeepsNames => Exported \subseteq entries)

\* The re-exports of one kind in f that can give n, by their position.
Giving(f, kind, n, known) ==
  LET drafts == program.drafts[f]
  IN  {i \in DOMAIN drafts : Offer([kind |-> kind, draft |-> drafts[i]], n, known) # NoEntry}

\* A named re-export before a wildcard, and of those the first.
FirstOffer(f, n, known) ==
  LET First(kind) ==
        Offer([kind |-> kind, draft |-> program.drafts[f][Min(Giving(f, kind, n, known))]], n, known)
  IN  CASE Giving(f, "reexport", n, known) # {} -> First("reexport")
        [] Giving(f, "reexport", n, known) = {} /\ Giving(f, "wildcard", n, known) # {} -> First("wildcard")
        [] OTHER -> NoEntry

\* Outside of cycles a name is what the first re-export that can give it gives at the
\* end: what a file re-exports from is complete before the file is looked at. In a cycle
\* a wildcard may come before a named re-export whose file has no entry yet.
FirstGiverWins ==
  \A f \in Processed, n \in Names : ~ InCycle(f) => closures[f][n] = FirstOffer(f, n, closures)
=============================================================================
