------------------------------ MODULE Registry ------------------------------
(***************************************************************************)
(* The global registry of indexed repositories, registry.json, and the     *)
(* processes that change it: gitnexus/src/storage/repo-manager/registry.ts.*)
(* Each of registerRepo, unregisterRepo and the validating listing reads   *)
(* the file, changes what it read, and writes the file in place, with no   *)
(* lock against the others.                                                *)
(*                                                                         *)
(* Abstracted: names, aliases and their collisions (a registration that is *)
(* refused ends like one whose process dies), and what an entry holds      *)
(* beside the repository it names.                                         *)
(***************************************************************************)
EXTENDS Naturals, FiniteSets

CONSTANTS
  Repos,       \* repositories, by their canonical path
  Clients,     \* processes that use the registry
  Torn,        \* the content of a file that is truncated and not yet written
  None,
  Adversity    \* what the environment may do, see RunAnalyze

\* A truncated file is no registry.
ASSUME RegistryAssumption == \A entries \in SUBSET Repos : entries # Torn

VARIABLES
  registry,   \* the file: a set of repositories, or Torn
  clients,    \* what each client is about to do to the file
  enrolled    \* history: registrations completed, their index not removed since

registryVars == <<registry, clients, enrolled>>

AtRest == [at |-> "rest", for |-> None, entries |-> {}]

\* A file that somebody wrote before, or none.
RegistryInit(entries) ==
  /\ registry = entries
  /\ clients = [c \in Clients |-> AtRest]
  /\ enrolled = entries

\* readRegistry: a file that does not parse counts as an empty registry.
ReadRegistry == IF registry = Torn THEN {} ELSE registry

\* A client is between its reading and the end of its writing.
Changing(c) == clients[c] # AtRest
RegistryQuiet == \A c \in Clients : ~Changing(c)

\* Whether a client may read: without "registry_race" the processes happen not to
\* overlap.
MayRead(c) ==
  /\ ~Changing(c)
  /\ "registry_race" \in Adversity \/ RegistryQuiet

\* A registerRepo that forgets what it read.
RegisterReadAlone(c, r) ==
  /\ MayRead(c)
  /\ clients' = [clients EXCEPT ![c] = [at |-> "write", for |-> r, entries |-> {r}]]
  /\ UNCHANGED <<registry, enrolled>>

\* registerRepo(r) up to its write.
RegisterRead(c, r) ==
  /\ MayRead(c)
  /\ clients' = [clients EXCEPT ![c] =
       [at |-> "write", for |-> r, entries |-> ReadRegistry \cup {r}]]
  /\ UNCHANGED <<registry, enrolled>>

\* clean and remove, once they have removed the index of r and have r to unregister.
CleanStarts(c, r) ==
  /\ MayRead(c)
  /\ clients' = [clients EXCEPT ![c] = [at |-> "unregister", for |-> r, entries |-> {}]]
  /\ enrolled' = enrolled \ {r}
  /\ UNCHANGED registry

\* unregisterRepo up to its write.
UnregisterRead(c) ==
  /\ clients[c].at = "unregister"
  /\ clients' = [clients EXCEPT ![c] =
       [at |-> "write", for |-> None, entries |-> ReadRegistry \ {clients[c].for}]]
  /\ UNCHANGED <<registry, enrolled>>

\* listRegisteredRepos({ validate: true }) reads the entries ...
ListRead(c) ==
  /\ MayRead(c)
  /\ ReadRegistry # {}
  /\ clients' = [clients EXCEPT ![c] =
       [at |-> "check", for |-> None, entries |-> ReadRegistry]]
  /\ UNCHANGED <<registry, enrolled>>

\* ... and looks for the meta.json of each; when every one is there it writes
\* nothing.
ListCheck(c, indexed) ==
  /\ clients[c].at = "check"
  /\ clients' = [clients EXCEPT ![c] =
       IF clients[c].entries \subseteq indexed THEN AtRest
       ELSE [at |-> "write", for |-> None, entries |-> clients[c].entries \cap indexed]]
  /\ UNCHANGED <<registry, enrolled>>

\* fs.writeFile truncates the file and then writes it.
Truncate(c) ==
  /\ clients[c].at = "write"
  /\ registry' = Torn
  /\ clients' = [clients EXCEPT ![c].at = "truncated"]
  /\ UNCHANGED enrolled

WriteRegistry(c) ==
  /\ clients[c].at = "truncated"
  /\ registry' = clients[c].entries
  /\ enrolled' = enrolled \cup ({clients[c].for} \ {None})
  /\ clients' = [clients EXCEPT ![c] = AtRest]

\* The process dies, or a check inside it throws.  Without "torn_registry" it
\* does not die while the file is truncated.
ClientDies(c) ==
  /\ Changing(c)
  /\ "torn_registry" \in Adversity \/ clients[c].at # "truncated"
  /\ clients' = [clients EXCEPT ![c] = AtRest]
  /\ UNCHANGED <<registry, enrolled>>

-----------------------------------------------------------------------------
\* A registration that was completed, and whose index nobody removed, is in the
\* file whenever nobody is changing it: what others register, unregister and
\* prune does not touch it.
NoLostRegistration == RegistryQuiet => enrolled \subseteq ReadRegistry
=============================================================================
