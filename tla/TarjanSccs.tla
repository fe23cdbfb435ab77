----------------------------- MODULE TarjanSccs -----------------------------
(***************************************************************************)
(* tarjanSccs of finalize-algorithm.ts: the depth-first search with its    *)
(* own stack of frames, over any graph.  The order in which a Set gives    *)
(* its members, and the names the roots are sorted by, are left open.      *)
(***************************************************************************)
EXTENDS Integers, Sequences

CONSTANT Files

VARIABLES
  graph,
  idx, index, lowlink,     \* numbering; Unseen where the map has no entry
  stack,                   \* nodes whose component is not known
  frames,                  \* iterStack: nodes being visited, with the children left
  sccs

searchVars == <<graph, idx, index, lowlink, stack, frames, sccs>>

Unseen == -1
Members(s) == {s[i] : i \in DOMAIN s}
Least(a, b) == IF a <= b THEN a ELSE b

Unsearched ==
  /\ idx = 0
  /\ index = [n \in Files |-> Unseen] /\ lowlink = [n \in Files |-> Unseen]
  /\ stack = << >> /\ frames = << >> /\ sccs = << >>

SearchInit == graph \in [Files -> SUBSET Files] /\ Unsearched

-----------------------------------------------------------------------------
Top == frames[Len(frames)]
OnStack(n) == n \in Members(stack)

\* A frame is pushed, and entered in the next turn of the loop.
Enter(n, below) ==
  /\ index[n] = Unseen
  /\ frames' = Append(below, [node |-> n, left |-> graph[n]])
  /\ index' = [index EXCEPT ![n] = idx] /\ lowlink' = [lowlink EXCEPT ![n] = idx]
  /\ idx' = idx + 1
  /\ stack' = Append(stack, n)
  /\ UNCHANGED <<graph, sccs>>

\* for (const root of allNodes)
EnterRoot(n) == frames = << >> /\ Enter(n, << >>)

\* frame.children.next() has given c.
Taken(c) == [frames EXCEPT ![Len(frames)].left = @ \ {c}]

EnterChild(c) == frames # << >> /\ c \in Top.left /\ Enter(c, Taken(c))

\* c was seen: an edge within the stack lowers the link, one to a component is dropped.
SkipChild(c) ==
  /\ frames # << >> /\ c \in Top.left
  /\ index[c] # Unseen
  /\ frames' = Taken(c)
  /\ lowlink' = IF OnStack(c)
                THEN [lowlink EXCEPT ![Top.node] = Least(@, index[c])]
                ELSE lowlink
  /\ UNCHANGED <<graph, idx, index, stack, sccs>>

\* The stack is popped down to position p, the last member first.
Pop(p) ==
  LET files == [i \in 1 .. Len(stack) + 1 - p |-> stack[Len(stack) + 1 - i]]
  IN  /\ sccs' = Append(sccs,
           [files |-> files, isCycle |-> Len(files) > 1 \/ stack[p] \in graph[stack[p]]])
      /\ stack' = SubSeq(stack, 1, p - 1)

\* A link that is not passed on to the parent.
LeaveAlone ==
  /\ frames # << >> /\ Top.left = {}
  /\ IF lowlink[Top.node] = index[Top.node]
     THEN \E p \in DOMAIN stack : stack[p] = Top.node /\ Pop(p)
     ELSE UNCHANGED <<stack, sccs>>
  /\ frames' = SubSeq(frames, 1, Len(frames) - 1)
  /\ UNCHANGED <<graph, idx, index, lowlink>>

\* All children are done: the frame is popped, after its component if it is the root
\* of one, and its link passed on to the parent.
Leave ==
  /\ frames # << >> /\ Top.left = {}
  /\ IF lowlink[Top.node] = index[Top.node]
     THEN \E p \in DOMAIN stack : stack[p] = Top.node /\ Pop(p)
     ELSE UNCHANGED <<stack, sccs>>
  /\ frames' = SubSeq(frames, 1, Len(frames) - 1)
  /\ lowlink' = IF Len(frames) = 1
                THEN lowlink
                ELSE [lowlink EXCEPT ![frames[Len(frames) - 1].node] =
                                       Least(@, lowlink[Top.node])]
  /\ UNCHANGED <<graph, idx, index>>

Searched == frames = << >> /\ \A n \in Files : index[n] # Unseen

SearchNext == (\E n \in Files : EnterRoot(n) \/ EnterChild(n) \/ SkipChild(n)) \/ Leave

SearchSpec == SearchInit /\ [][SearchNext]_searchVars

-----------------------------------------------------------------------------
(* Properties.                                                             *)

Order == [i \in DOMAIN sccs |-> Members(sccs[i].files)]
Components == INSTANCE Condensation WITH Nodes <- Files, order <- Order

\* The search gives the components of the graph, each once and after those it
\* imports from, which is the order finalize and the closures rely on.
GivesComponents == Components!Spec

\* A component is flagged as a cycle when a file of it reaches itself by imports.
CyclesFlagged ==
  \A i \in DOMAIN sccs :
    sccs[i].isCycle <=>
      \E n \in Members(sccs[i].files), m \in Files : m \in graph[n] /\ Components!Reaches(m, n)

\* At the end no file was left out, and none is still on the stack.
AllGiven == Searched => stack = << >>
=============================================================================
