--------------------------- MODULE Reexports_proofs ---------------------------
(***************************************************************************)
(* Theorems about the component search (TarjanSccs), for every graph and   *)
(* order of roots and children, and about the closures of re-exports       *)
(* (Reexports), for every program.                                         *)
(***************************************************************************)
EXTENDS Reexports, FiniteSetTheorems, SequenceTheorems, WellFoundedInduction, TLAPS

Reach(u, v) == Components!Reaches(u, v)

Frames == [node : Files, left : SUBSET Files]

Types ==
  /\ graph \in [Files -> SUBSET Files]
  /\ idx \in Nat
  /\ index \in [Files -> Nat \cup {Unseen}] /\ lowlink \in [Files -> Nat \cup {Unseen}]
  /\ stack \in Seq(Files)
  /\ frames \in Seq(Frames)
  /\ sccs \in Seq([files : Seq(Files), isCycle : BOOLEAN])

F(i) == frames[i].node
Given == UNION {Members(sccs[i].files) : i \in DOMAIN sccs}

\* Numbers are fresh, and rise along the stack and the frames.
Numbered ==
  /\ \A n \in Files : index[n] < idx
  /\ \A m, n \in Files : index[m] = index[n] /\ index[n] # Unseen => m = n
StackRises == \A i, j \in DOMAIN stack : i < j => index[stack[i]] < index[stack[j]]

\* A node that was seen is on the stack or in a component.
SeenOnce ==
  \A n \in Files : /\ index[n] # Unseen <=> OnStack(n) \/ n \in Given
                   /\ ~ (OnStack(n) /\ n \in Given)

\* The frames are a path of the graph, on the stack.
FramesAreAPath ==
  /\ \A i \in DOMAIN frames : OnStack(F(i)) /\ frames[i].left \subseteq graph[F(i)]
  /\ \A i, j \in DOMAIN frames : i < j => index[F(i)] < index[F(j)] /\ Reach(F(i), F(j))

\* Between the nodes of two frames, the stack has what was visited from the first.
Upto(n, i) == i = Len(frames) \/ index[n] < index[F(i + 1)]
InSegment(n, i) == index[F(i)] <= index[n] /\ Upto(n, i)

\* A node on the stack and the frame it was visited from reach each other.
Segments ==
  \A n \in Files : OnStack(n) =>
    \E i \in DOMAIN frames : InSegment(n, i) /\ Reach(F(i), n) /\ Reach(n, F(i))

\* The link of a frame is the number of a node on the stack that it reaches.
Links ==
  \A i \in DOMAIN frames :
    /\ lowlink[F(i)] <= index[F(i)]
    /\ \E w \in Files : OnStack(w) /\ index[w] = lowlink[F(i)] /\ Reach(F(i), w)

\* An edge from the stack is still to be looked at, leads to a component that was
\* given, or is accounted for in the link of a frame from its segment up.
Edges ==
  \A n, m \in Files : OnStack(n) /\ m \in graph[n] =>
    \/ \E i \in DOMAIN frames : F(i) = n /\ m \in frames[i].left
    \/ m \in Given
    \/ OnStack(m) /\ \E j \in DOMAIN frames : Upto(n, j) /\ lowlink[F(j)] <= index[m]

GivenClosed == \A n \in Given : n \in Files /\ graph[n] \subseteq Given

SearchInv ==
  /\ Types /\ Numbered /\ StackRises /\ SeenOnce /\ FramesAreAPath
  /\ Segments /\ Links /\ Edges /\ GivenClosed

-----------------------------------------------------------------------------
(* Reachability.                                                           *)

LEMMA ReachSelf == \A u \in Files : Reach(u, u)
  BY DEF Reach, Components!Reaches

LEMMA ReachOn == \A u, v, w \in Files : Reach(u, v) /\ Reach(v, w) => Reach(u, w)
  BY DEF Reach, Components!Reaches

LEMMA ReachEdge == \A u \in Files : \A v \in graph[u] : v \in Files => Reach(u, v)
  BY DEF Reach, Components!Reaches, Components!Closed

\* What is reached from a closed set is in it.
LEMMA Trapped ==
  ASSUME NEW C \in SUBSET Files, \A n \in C : graph[n] \subseteq C,
         NEW u \in C, NEW v \in Files, Reach(u, v)
  PROVE  v \in C
  BY DEF Reach, Components!Reaches, Components!Closed

\* Steps do not change the graph, nor what reaches what.
LEMMA ReachKept ==
  ASSUME graph' = graph, NEW u \in Files, NEW v \in Files PROVE Reach(u, v)' <=> Reach(u, v)
  BY DEF Reach, Components!Reaches, Components!Closed

LEMMA InitHolds == SearchInit => SearchInv
  <1> SUFFICES ASSUME SearchInit PROVE SearchInv
    OBVIOUS
  <1> USE DEF SearchInit, Unsearched, Unseen
  <1>1. Types
    BY DEF Types
  <1>2. Given = {}
    BY DEF Given
  <1>3. DOMAIN frames = {} /\ DOMAIN stack = {}
    OBVIOUS
  <1>4. \A n \in Files : ~ OnStack(n)
    BY <1>3 DEF OnStack, Members
  <1> QED
    BY <1>1, <1>2, <1>4, <1>3
    DEF SearchInv, Numbered, StackRises, SeenOnce, FramesAreAPath, Segments, Links, Edges, GivenClosed

LEMMA Element ==
  ASSUME NEW R, NEW s \in Seq(R)
  PROVE  Len(s) \in Nat /\ DOMAIN s = 1 .. Len(s) /\ \A i \in 1 .. Len(s) : s[i] \in R
  OBVIOUS

LEMMA FrontOf ==
  ASSUME NEW R, NEW s \in Seq(R), NEW k \in 1 .. Len(s)
  PROVE  /\ SubSeq(s, 1, k - 1) \in Seq(R)
         /\ Len(SubSeq(s, 1, k - 1)) = k - 1 /\ DOMAIN SubSeq(s, 1, k - 1) = 1 .. k - 1
         /\ \A i \in 1 .. k - 1 : SubSeq(s, 1, k - 1)[i] = s[i]
  <1>1. 1 \in 1 .. Len(s) + 1 /\ k - 1 \in 0 .. Len(s) /\ k \in Nat
    OBVIOUS
  <1>2. /\ SubSeq(s, 1, k - 1) \in Seq(R)
        /\ Len(SubSeq(s, 1, k - 1)) = IF 1 <= k - 1 THEN k - 1 - 1 + 1 ELSE 0
        /\ \A i \in 1 .. k - 1 - 1 + 1 : SubSeq(s, 1, k - 1)[i] = s[1 + i - 1]
    BY <1>1, SubSeqProperties
  <1> QED BY <1>1, <1>2

-----------------------------------------------------------------------------
(* A node is entered.                                                      *)

\* The node on top, with what it leads to, for the two ways to enter one.
LEMMA EnterKeeps ==
  ASSUME SearchInv, NEW c \in Files, NEW below, Enter(c, below),
         below \in Seq(Frames),
         Len(below) = Len(frames),
         \A i \in DOMAIN frames : below[i].node = F(i) /\ below[i].left \subseteq frames[i].left,
         \A i \in DOMAIN frames : frames[i].left \subseteq below[i].left \cup {c},
         \A i \in DOMAIN frames : i < Len(frames) => below[i].left = frames[i].left,
         frames # << >> => c \in Top.left
  PROVE  SearchInv'
  <1>t. Types
    BY DEF SearchInv
  <1>k0. PICK k \in Nat : k = Len(frames)
    BY <1>t DEF Types
  <1>a. k = Len(frames) /\ DOMAIN frames = 1 .. k /\ DOMAIN below = 1 .. k /\ idx \in Nat
    BY <1>k0, <1>t DEF Types
  <1>b. /\ Len(frames') = k + 1 /\ DOMAIN frames' = 1 .. k + 1
        /\ frames'[k + 1] = [node |-> c, left |-> graph[c]]
        /\ \A i \in 1 .. k : frames'[i] = below[i]
        /\ frames' \in Seq(Frames)
    <2>1. [node |-> c, left |-> graph[c]] \in Frames
      BY <1>t DEF Types, Frames
    <2>2. frames' = Append(below, [node |-> c, left |-> graph[c]])
      BY DEF Enter
    <2> QED BY <2>1, <2>2, <1>k0, <1>a
  <1>c. /\ \A i \in 1 .. k : F(i)' = F(i) /\ F(i) \in Files
        /\ F(k + 1)' = c
    <2>1. \A i \in 1 .. k : frames[i] \in Frames
      BY <1>k0, <1>t, Element DEF Types
    <2> QED BY <2>1, <1>k0, <1>a, <1>b DEF F, Frames
  <1>d. /\ graph' = graph /\ sccs' = sccs /\ idx' = idx + 1
        /\ index' = [index EXCEPT ![c] = idx] /\ lowlink' = [lowlink EXCEPT ![c] = idx]
        /\ index[c] = Unseen
    BY DEF Enter
  <1>e. \A n \in Files : n # c => index'[n] = index[n] /\ lowlink'[n] = lowlink[n]
    BY <1>d, <1>t DEF Types
  <1>f. index'[c] = idx /\ lowlink'[c] = idx
    BY <1>d, <1>t DEF Types
  <1>g. /\ stack' = Append(stack, c) /\ DOMAIN stack' = 1 .. Len(stack) + 1
        /\ Len(stack) \in Nat /\ DOMAIN stack = 1 .. Len(stack)
        /\ \A i \in DOMAIN stack : stack'[i] = stack[i] /\ stack[i] \in Files
        /\ stack'[Len(stack) + 1] = c
    BY <1>t DEF Enter, Types
  <1>h. \A n \in Files : OnStack(n)' <=> OnStack(n) \/ n = c
    BY <1>g DEF OnStack, Members
  <1>i. Given' = Given
    BY <1>d DEF Given
  <1>j. ~ OnStack(c) /\ c \notin Given
    BY <1>d DEF SearchInv, SeenOnce
  <1>k. \A n \in Files : OnStack(n) => n # c /\ index'[n] = index[n] /\ index[n] < idx
                                       /\ index[n] \in Nat
    BY <1>e, <1>j, <1>t DEF SearchInv, Numbered, SeenOnce, Types
  <1>l. \A i \in 1 .. k : /\ OnStack(F(i)) /\ index'[F(i)] = index[F(i)]
                          /\ lowlink'[F(i)] = lowlink[F(i)] /\ index[F(i)] < idx
                          /\ index[F(i)] \in Nat
    BY <1>a, <1>c, <1>e, <1>k DEF SearchInv, FramesAreAPath
  <1>m. k > 0 => c \in graph[F(k)] /\ Top.node = F(k) /\ c \in frames[k].left
    BY <1>a DEF SearchInv, FramesAreAPath, Top, F
  <1>n. \A u, v \in Files : Reach(u, v)' <=> Reach(u, v)
    BY <1>d, ReachKept
  <1>o. \A n \in Files, i \in 1 .. k : OnStack(n) /\ Upto(n, i) => Upto(n, i)'
    <2> SUFFICES ASSUME NEW n \in Files, NEW i \in 1 .. k, OnStack(n), Upto(n, i)
                 PROVE  Upto(n, i)'
      OBVIOUS
    <2>1. index'[n] < index'[c]
      BY <1>k, <1>f
    <2>2. CASE i = k
      BY <2>1, <2>2, <1>c DEF Upto
    <2>3. CASE i < k
      <3>1. i + 1 \in 1 .. k
        BY <2>3, <1>a
      <3> QED BY <2>3, <3>1, <1>a, <1>c, <1>k, <1>l DEF Upto
    <2> QED BY <2>2, <2>3, <1>k0
  <1>1. Types'
    <2>1. stack' \in Seq(Files)
      BY <1>g, <1>t DEF Types
    <2> QED BY <1>b, <1>d, <1>t, <2>1 DEF Types
  <1>2. Numbered'
    <2>1. \A n \in Files : index[n] < idx /\ index[n] \in Nat \cup {Unseen}
      BY <1>t DEF SearchInv, Numbered, Types
    <2>2. \A n \in Files : index'[n] < idx'
      BY <2>1, <1>a, <1>d, <1>e, <1>f DEF Unseen
    <2>3. ASSUME NEW m \in Files, NEW n \in Files, index'[m] = index'[n], index'[n] # Unseen
          PROVE  m = n
      <3>1. CASE m = c \/ n = c
        BY <2>1, <2>3, <3>1, <1>a, <1>e, <1>f
      <3>2. CASE m # c /\ n # c
        BY <2>3, <3>2, <1>e DEF SearchInv, Numbered
      <3> QED BY <3>1, <3>2
    <2> QED BY <2>2, <2>3 DEF Numbered
  <1>3. StackRises'
    <2>1. \A i \in DOMAIN stack : OnStack(stack[i])
      BY DEF OnStack, Members
    <2> SUFFICES ASSUME NEW i \in DOMAIN stack', NEW j \in DOMAIN stack', i < j
                 PROVE  index'[stack'[i]] < index'[stack'[j]]
      BY DEF StackRises
    <2>2. i \in DOMAIN stack
      BY <1>g
    <2>3. CASE j \in DOMAIN stack
      BY <2>1, <2>2, <2>3, <1>g, <1>k DEF SearchInv, StackRises
    <2>4. CASE j = Len(stack) + 1
      BY <2>1, <2>2, <2>4, <1>g, <1>k, <1>f
    <2> QED BY <2>3, <2>4, <1>g
  <1>4. SeenOnce'
    BY <1>d, <1>e, <1>f, <1>h, <1>i, <1>j, <1>a DEF SearchInv, SeenOnce, Unseen
  <1>5. FramesAreAPath'
    <2>1. \A i \in DOMAIN frames' : OnStack(F(i))' /\ frames'[i].left \subseteq graph'[F(i)']
      <3>1. \A i \in 1 .. k : frames'[i].left \subseteq graph[F(i)]
        BY <1>a, <1>b DEF SearchInv, FramesAreAPath
      <3> QED BY <3>1, <1>a, <1>b, <1>c, <1>d, <1>h, <1>l
    <2>2. ASSUME NEW i \in DOMAIN frames', NEW j \in DOMAIN frames', i < j
          PROVE  index'[F(i)'] < index'[F(j)'] /\ Reach(F(i), F(j))'
      <3>1. i \in 1 .. k
        BY <2>2, <1>b, <1>a
      <3>2. CASE j \in 1 .. k
        BY <2>2, <3>1, <3>2, <1>a, <1>c, <1>l, <1>n DEF SearchInv, FramesAreAPath
      <3>3. CASE j = k + 1
        <4>1. k > 0 /\ k \in 1 .. k
          BY <3>1, <1>a
        <4>2. Reach(F(k), c)
          BY <4>1, <1>m, <1>c, ReachEdge
        <4>3. Reach(F(i), F(k))
          BY <3>1, <4>1, <1>a, <1>c, ReachSelf DEF SearchInv, FramesAreAPath
        <4>4. Reach(F(i), c)
          BY <4>1, <4>2, <4>3, <1>c, <3>1, ReachOn
        <4> QED BY <3>1, <3>3, <4>4, <1>c, <1>f, <1>l, <1>n
      <3> QED BY <3>2, <3>3, <1>b, <1>a
    <2> QED BY <2>1, <2>2 DEF FramesAreAPath
  <1>6. Segments'
    <2> SUFFICES ASSUME NEW n \in Files, OnStack(n)'
                 PROVE  \E i \in DOMAIN frames' :
                          /\ index'[F(i)'] <= index'[n] /\ Upto(n, i)'
                          /\ Reach(F(i), n)' /\ Reach(n, F(i))'
      BY DEF Segments, InSegment
    <2>1. CASE n = c
      <3>1. Upto(n, k + 1)'
        BY <1>b DEF Upto
      <3>2. k + 1 \in DOMAIN frames'
        BY <1>a, <1>b
      <3> QED BY <2>1, <3>1, <3>2, <1>a, <1>c, <1>f, <1>n, ReachSelf
    <2>2. CASE n # c
      <3>1. OnStack(n)
        BY <2>2, <1>h
      <3>2. PICK i \in 1 .. k : InSegment(n, i) /\ Reach(F(i), n) /\ Reach(n, F(i))
        BY <3>1, <1>a DEF SearchInv, Segments
      <3>3. index'[F(i)'] <= index'[n] /\ Upto(n, i)'
        BY <3>1, <3>2, <1>c, <1>k, <1>l, <1>o DEF InSegment
      <3> QED BY <3>2, <3>3, <1>a, <1>b, <1>c, <1>n
    <2> QED BY <2>1, <2>2
  <1>7. Links'
    <2> SUFFICES ASSUME NEW i \in DOMAIN frames'
                 PROVE  /\ lowlink'[F(i)'] <= index'[F(i)']
                        /\ \E w \in Files : /\ OnStack(w)' /\ index'[w] = lowlink'[F(i)']
                                            /\ Reach(F(i), w)'
      BY DEF Links
    <2>1. CASE i = k + 1
      BY <2>1, <1>a, <1>c, <1>f, <1>h, <1>n, ReachSelf
    <2>2. CASE i \in 1 .. k
      <3>1. PICK w \in Files : OnStack(w) /\ index[w] = lowlink[F(i)] /\ Reach(F(i), w)
        BY <2>2, <1>a DEF SearchInv, Links
      <3>2. lowlink[F(i)] <= index[F(i)]
        BY <2>2, <1>a DEF SearchInv, Links
      <3> QED BY <2>2, <3>1, <3>2, <1>c, <1>h, <1>k, <1>l, <1>n
    <2> QED BY <2>1, <2>2, <1>a, <1>b
  <1>8. Edges'
    <2> SUFFICES ASSUME NEW n \in Files, NEW m \in Files, OnStack(n)', m \in graph[n]
                 PROVE  \/ \E i \in DOMAIN frames' : F(i)' = n /\ m \in frames'[i].left
                        \/ m \in Given
                        \/ /\ OnStack(m)'
                           /\ \E j \in DOMAIN frames' :
                                Upto(n, j)' /\ lowlink'[F(j)'] <= index'[m]
      BY <1>d, <1>i DEF Edges
    <2>1. CASE n = c
      <3>1. k + 1 \in DOMAIN frames' /\ F(k + 1)' = n /\ m \in frames'[k + 1].left
        BY <2>1, <1>a, <1>b, <1>c
      <3> QED BY <3>1
    <2>2. CASE n # c
      <3>1. OnStack(n)
        BY <2>2, <1>h
      <3>2. CASE \E i \in DOMAIN frames : F(i) = n /\ m \in frames[i].left
        <4>1. PICK i \in 1 .. k : F(i) = n /\ m \in frames[i].left
          BY <3>2, <1>a
        <4>2. CASE m \in below[i].left
          BY <4>1, <4>2, <1>a, <1>b, <1>c
        <4>3. CASE m \notin below[i].left
          <5>1. m = c /\ i = k
            BY <4>1, <4>3, <1>a
          <5>2. Upto(n, k)'
            BY <3>1, <5>1, <1>a, <1>o DEF Upto
          <5>3. lowlink'[F(k)'] <= index'[m]
            <6>1. lowlink[F(k)] <= index[F(k)] /\ lowlink[F(k)] \in Nat \cup {Unseen}
              BY <5>1, <1>a, <1>c, <1>t DEF SearchInv, Links, Types
            <6> QED BY <5>1, <6>1, <1>c, <1>f, <1>l, <1>a DEF Unseen
          <5> QED BY <5>1, <5>2, <5>3, <1>a, <1>b, <1>h
        <4> QED BY <4>2, <4>3
      <3>3. CASE OnStack(m) /\ \E j \in DOMAIN frames : Upto(n, j) /\ lowlink[F(j)] <= index[m]
        <4>1. PICK j \in 1 .. k : Upto(n, j) /\ lowlink[F(j)] <= index[m]
          BY <3>3, <1>a
        <4>2. Upto(n, j)' /\ lowlink'[F(j)'] <= index'[m]
          BY <3>1, <3>3, <4>1, <1>c, <1>k, <1>l, <1>o
        <4> QED BY <3>3, <4>2, <1>a, <1>b, <1>h
      <3> QED BY <3>1, <3>2, <3>3 DEF SearchInv, Edges
    <2> QED BY <2>1, <2>2
  <1>9. GivenClosed'
    BY <1>d, <1>i DEF SearchInv, GivenClosed
  <1> QED BY <1>1, <1>2, <1>3, <1>4, <1>5, <1>6, <1>7, <1>8, <1>9 DEF SearchInv

\* A root is entered only when the stack is empty, a child from the top frame.
LEMMA EnterRootKeeps == ASSUME SearchInv, NEW c \in Files, EnterRoot(c) PROVE SearchInv'
  <1>1. frames = << >> /\ Enter(c, << >>)
    BY DEF EnterRoot
  <1>2. << >> \in Seq(Frames) /\ Len(<< >>) = Len(frames)
        /\ DOMAIN frames = {}
    BY <1>1
  <1> QED BY <1>1, <1>2, EnterKeeps

LEMMA TakenIs ==
  ASSUME SearchInv, NEW c \in Files, frames # << >>, c \in Top.left
  PROVE  /\ Taken(c) \in Seq(Frames)
         /\ Len(Taken(c)) = Len(frames) /\ DOMAIN Taken(c) = DOMAIN frames
         /\ \A i \in DOMAIN frames :
              /\ Taken(c)[i].node = F(i)
              /\ Taken(c)[i].left \subseteq frames[i].left
              /\ frames[i].left \subseteq Taken(c)[i].left \cup {c}
              /\ i < Len(frames) => Taken(c)[i].left = frames[i].left
  <1>1. frames \in Seq(Frames)
    BY DEF SearchInv, Types
  <1>2. PICK k \in Nat : k = Len(frames)
    BY <1>1
  <1>3. DOMAIN frames = 1 .. k /\ k \in 1 .. k /\ \A i \in 1 .. k : frames[i] \in Frames
    BY <1>1, <1>2, Element
  <1>4. Taken(c) = [frames EXCEPT ![k] = [frames[k] EXCEPT !.left = @ \ {c}]]
    BY <1>1, <1>2, <1>3 DEF Taken
  <1>5. [frames[k] EXCEPT !.left = @ \ {c}] \in Frames
        /\ [frames[k] EXCEPT !.left = @ \ {c}].node = frames[k].node
        /\ [frames[k] EXCEPT !.left = @ \ {c}].left = frames[k].left \ {c}
    BY <1>3 DEF Frames
  <1>6. Taken(c) \in Seq(Frames) /\ Len(Taken(c)) = k /\ DOMAIN Taken(c) = 1 .. k
    BY <1>1, <1>2, <1>3, <1>4, <1>5
  <1>7. \A i \in 1 .. k : Taken(c)[i] = IF i = k THEN [frames[k] EXCEPT !.left = @ \ {c}] ELSE frames[i]
    BY <1>1, <1>2, <1>3, <1>4
  <1>8. ASSUME NEW i \in 1 .. k
        PROVE  /\ Taken(c)[i].node = F(i)
               /\ Taken(c)[i].left \subseteq frames[i].left
               /\ frames[i].left \subseteq Taken(c)[i].left \cup {c}
               /\ i < k => Taken(c)[i].left = frames[i].left
    <2>1. CASE i = k
      <3>1. Taken(c)[i].node = frames[k].node /\ Taken(c)[i].left = frames[k].left \ {c}
        BY <2>1, <1>5, <1>7
      <3>2. ~ (i < k)
        BY <2>1, <1>2
      <3> QED BY <2>1, <3>1, <3>2 DEF F
    <2>2. CASE i # k
      BY <2>2, <1>7 DEF F
    <2> QED BY <2>1, <2>2
  <1> QED BY <1>2, <1>3, <1>6, <1>8

LEMMA EnterChildKeeps == ASSUME SearchInv, NEW c \in Files, EnterChild(c) PROVE SearchInv'
  <1>1. frames # << >> /\ c \in Top.left /\ Enter(c, Taken(c))
    BY DEF EnterChild
  <1>2. \A i \in DOMAIN frames : Taken(c)[i].left \subseteq frames[i].left
                               /\ frames[i].left \subseteq Taken(c)[i].left \cup {c}
    BY <1>1, TakenIs
  <1> QED BY <1>1, <1>2, TakenIs, EnterKeeps

-----------------------------------------------------------------------------
(* A node that was seen is looked at.                                      *)

LEMMA SkipChildKeeps == ASSUME SearchInv, NEW c \in Files, SkipChild(c) PROVE SearchInv'
  <1>t. Types
    BY DEF SearchInv
  <1>k0. PICK k \in Nat : k = Len(frames)
    BY <1>t DEF Types
  <1>s. /\ frames # << >> /\ c \in Top.left /\ index[c] # Unseen /\ frames' = Taken(c)
        /\ lowlink' = IF OnStack(c)
                      THEN [lowlink EXCEPT ![Top.node] = Least(@, index[c])] ELSE lowlink
        /\ graph' = graph /\ idx' = idx /\ index' = index /\ stack' = stack /\ sccs' = sccs
    BY DEF SkipChild
  <1>a. /\ DOMAIN frames = 1 .. k /\ DOMAIN frames' = 1 .. k /\ Len(frames') = k /\ k \in 1 .. k
        /\ frames' \in Seq(Frames)
        /\ \A i \in 1 .. k : frames[i] \in Frames
    <2>1. DOMAIN frames = 1 .. k /\ \A i \in 1 .. k : frames[i] \in Frames
      BY <1>k0, <1>t, Element DEF Types
    <2> QED BY <2>1, <1>k0, <1>s, TakenIs
  <1>b. \A i \in 1 .. k : /\ F(i)' = F(i) /\ F(i) \in Files
                          /\ frames'[i].left \subseteq frames[i].left
                          /\ frames[i].left \subseteq frames'[i].left \cup {c}
                          /\ i < k => frames'[i].left = frames[i].left
    BY <1>k0, <1>a, <1>s, TakenIs DEF F, Frames
  <1>c. Top.node = F(k) /\ Top.left = frames[k].left
    BY <1>k0 DEF Top, F
  <1>d. c \in graph[F(k)] /\ Reach(F(k), c)
    BY <1>a, <1>b, <1>c, <1>s, ReachEdge DEF SearchInv, FramesAreAPath
  <1>e. /\ index[c] \in Nat /\ \A i \in 1 .. k : index[F(i)] \in Nat /\ lowlink[F(i)] \in Nat
        /\ \A n \in Files : OnStack(n) => index[n] \in Nat
    <2>1. \A n \in Files : OnStack(n) => index[n] \in Nat
      BY <1>t DEF SearchInv, Types, SeenOnce, Unseen
    <2>2. \A i \in 1 .. k : index[F(i)] \in Nat
      BY <2>1, <1>a, <1>b DEF SearchInv, FramesAreAPath
    <2>3. \A i \in 1 .. k : lowlink[F(i)] \in Nat
      BY <2>1, <1>a, <1>b DEF SearchInv, Links
    <2> QED BY <2>1, <2>2, <2>3, <1>s, <1>t DEF Types, Unseen
  <1>f. /\ lowlink' \in [Files -> Nat \cup {Unseen}]
        /\ \A i \in 1 .. k : lowlink'[F(i)] <= lowlink[F(i)] /\ lowlink'[F(i)] \in Nat
        /\ OnStack(c) => lowlink'[F(k)] <= index[c]
        /\ \A i \in 1 .. k : \/ lowlink'[F(i)] = lowlink[F(i)]
                             \/ OnStack(c) /\ F(i) = F(k) /\ lowlink'[F(i)] = index[c]
    <2>1. /\ lowlink \in [Files -> Nat \cup {Unseen}] /\ k \in 1 .. k
          /\ \A i \in 1 .. k : F(i) \in Files /\ lowlink[F(i)] \in Nat
      BY <1>a, <1>b, <1>e, <1>t DEF Types
    <2>2. CASE ~ OnStack(c)
      <3>1. lowlink' = lowlink
        BY <1>s, <2>2
      <3> QED BY <2>1, <2>2, <3>1
    <2>3. CASE OnStack(c)
      <3>1. PICK m \in Nat : /\ m = Least(lowlink[F(k)], index[c])
                             /\ m <= lowlink[F(k)] /\ m <= index[c]
                             /\ m = lowlink[F(k)] \/ m = index[c]
        BY <1>e, <2>1 DEF Least
      <3>2. lowlink' = [lowlink EXCEPT ![F(k)] = m]
        BY <1>c, <1>s, <2>3, <3>1
      <3>3. /\ lowlink' \in [Files -> Nat \cup {Unseen}] /\ lowlink'[F(k)] = m
            /\ \A i \in 1 .. k : F(i) # F(k) => lowlink'[F(i)] = lowlink[F(i)]
        BY <2>1, <3>2
      <3>4. ASSUME NEW i \in 1 .. k
            PROVE  /\ lowlink'[F(i)] <= lowlink[F(i)] /\ lowlink'[F(i)] \in Nat
                   /\ \/ lowlink'[F(i)] = lowlink[F(i)]
                      \/ OnStack(c) /\ F(i) = F(k) /\ lowlink'[F(i)] = index[c]
        <4>1. CASE F(i) = F(k)
          BY <2>1, <2>3, <3>1, <3>3, <4>1
        <4>2. CASE F(i) # F(k)
          BY <2>1, <3>3, <4>2
        <4> QED BY <4>1, <4>2
      <3> QED BY <3>1, <3>3, <3>4
    <2> QED BY <2>2, <2>3
  <1>g. (\A n \in Files : OnStack(n)' <=> OnStack(n)) /\ Given' = Given
    BY <1>s DEF OnStack, Given
  <1>h. \A n \in Files, i \in 1 .. k : Upto(n, i) => Upto(n, i)'
    <2> SUFFICES ASSUME NEW n \in Files, NEW i \in 1 .. k, Upto(n, i) PROVE Upto(n, i)'
      OBVIOUS
    <2>1. CASE i = k
      BY <2>1, <1>a DEF Upto
    <2>2. CASE i < k
      <3>1. i + 1 \in 1 .. k
        BY <2>2, <1>k0
      <3> QED BY <2>2, <3>1, <1>b, <1>s, <1>k0 DEF Upto
    <2> QED BY <2>1, <2>2, <1>k0
  <1>n. \A u, v \in Files : Reach(u, v)' <=> Reach(u, v)
    BY <1>s, ReachKept
  <1>1. Types'
    BY <1>a, <1>f, <1>s, <1>t DEF Types
  <1>2. Numbered' /\ StackRises' /\ GivenClosed'
    BY <1>g, <1>s DEF SearchInv, Numbered, StackRises, GivenClosed
  <1>3. SeenOnce'
    BY <1>g, <1>s DEF SearchInv, SeenOnce
  <1>4. FramesAreAPath'
    <2>1. \A i \in 1 .. k : OnStack(F(i))' /\ frames'[i].left \subseteq graph'[F(i)']
      BY <1>a, <1>b, <1>g, <1>s DEF SearchInv, FramesAreAPath
    <2>2. \A i, j \in 1 .. k : i < j => index'[F(i)'] < index'[F(j)'] /\ Reach(F(i), F(j))'
      BY <1>a, <1>b, <1>n, <1>s DEF SearchInv, FramesAreAPath
    <2> QED BY <2>1, <2>2, <1>a DEF FramesAreAPath
  <1>5. Segments'
    <2> SUFFICES ASSUME NEW n \in Files, OnStack(n)
                 PROVE  \E i \in 1 .. k :
                          /\ index'[F(i)'] <= index'[n] /\ Upto(n, i)'
                          /\ Reach(F(i), n)' /\ Reach(n, F(i))'
      BY <1>a, <1>g DEF Segments, InSegment
    <2>1. PICK i \in 1 .. k : InSegment(n, i) /\ Reach(F(i), n) /\ Reach(n, F(i))
      BY <1>a DEF SearchInv, Segments
    <2> QED BY <2>1, <1>b, <1>h, <1>n, <1>s DEF InSegment
  <1>6. Links'
    <2> SUFFICES ASSUME NEW i \in 1 .. k
                 PROVE  /\ lowlink'[F(i)'] <= index'[F(i)']
                        /\ \E w \in Files : /\ OnStack(w)' /\ index'[w] = lowlink'[F(i)']
                                            /\ Reach(F(i), w)'
      BY <1>a DEF Links
    <2>1. lowlink[F(i)] <= index[F(i)]
      BY <1>a DEF SearchInv, Links
    <2>2. lowlink'[F(i)'] <= index'[F(i)']
      BY <2>1, <1>b, <1>e, <1>f, <1>s
    <2>3. \E w \in Files : OnStack(w) /\ index[w] = lowlink'[F(i)] /\ Reach(F(i), w)
      <3>1. CASE lowlink'[F(i)] = lowlink[F(i)]
        BY <3>1, <1>a DEF SearchInv, Links
      <3>2. CASE OnStack(c) /\ F(i) = F(k) /\ lowlink'[F(i)] = index[c]
        BY <3>2, <1>d
      <3> QED BY <3>1, <3>2, <1>f
    <2> QED BY <2>2, <2>3, <1>b, <1>g, <1>n, <1>s
  <1>7. Edges'
    <2> SUFFICES ASSUME NEW n \in Files, NEW m \in Files, OnStack(n), m \in graph[n]
                 PROVE  \/ \E i \in 1 .. k : F(i) = n /\ m \in frames'[i].left
                        \/ m \in Given
                        \/ OnStack(m) /\ \E j \in 1 .. k : Upto(n, j)' /\ lowlink'[F(j)] <= index[m]
      BY <1>a, <1>b, <1>g, <1>s DEF Edges
    <2>1. CASE \E i \in DOMAIN frames : F(i) = n /\ m \in frames[i].left
      <3>1. PICK i \in 1 .. k : F(i) = n /\ m \in frames[i].left
        BY <2>1, <1>a
      <3>2. CASE m \notin frames'[i].left
        <4>1. m = c /\ i = k
          BY <3>1, <3>2, <1>b, <1>k0
        <4>2. OnStack(c) \/ c \in Given
          BY <1>s DEF SearchInv, SeenOnce
        <4>3. Upto(n, k)'
          BY <1>a DEF Upto
        <4> QED BY <4>1, <4>2, <4>3, <1>a, <1>f
      <3> QED BY <3>1, <3>2
    <2>2. CASE OnStack(m) /\ \E j \in DOMAIN frames : Upto(n, j) /\ lowlink[F(j)] <= index[m]
      <3>1. PICK j \in 1 .. k : Upto(n, j) /\ lowlink[F(j)] <= index[m]
        BY <2>2, <1>a
      <3>2. lowlink'[F(j)] <= index[m]
        BY <2>2, <3>1, <1>e, <1>f
      <3> QED BY <2>2, <3>1, <3>2, <1>h
    <2> QED BY <2>1, <2>2 DEF SearchInv, Edges
  <1> QED BY <1>1, <1>2, <1>3, <1>4, <1>5, <1>6, <1>7 DEF SearchInv

-----------------------------------------------------------------------------
(* A frame is left.                                                        *)

\* What the invariant says of the top frame.
LEMMA TopOf ==
  ASSUME SearchInv, frames # << >>
  PROVE  \E k \in Nat :
           /\ k = Len(frames) /\ DOMAIN frames = 1 .. k /\ k \in 1 .. k
           /\ \A i \in 1 .. k : frames[i] \in Frames /\ F(i) \in Files
           /\ \A i \in 1 .. k : i + 1 \in 1 .. k \/ i = k
           /\ Top.node = F(k) /\ Top.left = frames[k].left
           /\ \A i \in 1 .. k : /\ index[F(i)] \in Nat /\ lowlink[F(i)] \in Nat
                                /\ lowlink[F(i)] <= index[F(i)]
           /\ \A n \in Files : OnStack(n) => index[n] \in Nat
  <1>t. Types
    BY DEF SearchInv
  <1>1. PICK k \in Nat : k = Len(frames)
    BY <1>t DEF Types
  <1>2. /\ DOMAIN frames = 1 .. k /\ k \in 1 .. k /\ \A i \in 1 .. k : frames[i] \in Frames
        /\ \A i \in 1 .. k : i + 1 \in 1 .. k \/ i = k
    BY <1>1, <1>t, Element DEF Types
  <1>3. \A i \in 1 .. k : F(i) \in Files
    BY <1>2 DEF F, Frames
  <1>4. Top.node = F(k) /\ Top.left = frames[k].left
    BY <1>1 DEF Top, F
  <1>5. \A n \in Files : OnStack(n) => index[n] \in Nat
    BY <1>t DEF SearchInv, Types, SeenOnce, Unseen
  <1>6. \A i \in 1 .. k : index[F(i)] \in Nat
    BY <1>2, <1>3, <1>5 DEF SearchInv, FramesAreAPath
  <1>7. \A i \in 1 .. k : lowlink[F(i)] \in Nat /\ lowlink[F(i)] <= index[F(i)]
    BY <1>2, <1>3, <1>5 DEF SearchInv, Links
  <1> QED BY <1>1, <1>2, <1>3, <1>4, <1>5, <1>6, <1>7

\* The stack from the top frame's node up.
Segment == {n \in Files : OnStack(n) /\ index[Top.node] <= index[n]}

\* When the top frame has no child left, the edges of its segment have been looked at.
LEMMA SegmentEdges ==
  ASSUME SearchInv, frames # << >>, Top.left = {}
  PROVE  \A n \in Segment : \A m \in graph[n] :
           m \in Given \/ (m \in Files /\ OnStack(m) /\ lowlink[Top.node] <= index[m])
  <1>1. PICK k \in Nat :
           /\ k = Len(frames) /\ DOMAIN frames = 1 .. k /\ k \in 1 .. k
           /\ \A i \in 1 .. k : F(i) \in Files
           /\ \A i \in 1 .. k : i + 1 \in 1 .. k \/ i = k
           /\ Top.node = F(k) /\ Top.left = frames[k].left
           /\ \A i \in 1 .. k : index[F(i)] \in Nat
           /\ \A n \in Files : OnStack(n) => index[n] \in Nat
    BY TopOf
  <1>2. \A i \in 1 .. k : i < k => index[F(i)] < index[F(k)]
    BY <1>1 DEF SearchInv, FramesAreAPath
  <1> SUFFICES ASSUME NEW n \in Files, NEW m \in Files, OnStack(n), m \in graph[n],
                      index[F(k)] <= index[n]
               PROVE  m \in Given \/ (OnStack(m) /\ lowlink[F(k)] <= index[m])
    BY <1>1 DEF Segment, SearchInv, Types
  <1>3. ~ \E i \in 1 .. k : F(i) = n /\ m \in frames[i].left
    BY <1>1, <1>2
  <1>4. \A j \in 1 .. k : Upto(n, j) => j = k
    <2> SUFFICES ASSUME NEW j \in 1 .. k, Upto(n, j), j # k PROVE FALSE
      OBVIOUS
    <2>1. index[n] < index[F(j + 1)] /\ j + 1 \in 1 .. k
      BY <1>1 DEF Upto
    <2>2. index[F(j + 1)] <= index[F(k)]
      BY <2>1, <1>1, <1>2
    <2> QED BY <2>1, <2>2, <1>1
  <1> QED BY <1>1, <1>3, <1>4 DEF SearchInv, Edges

\* The segment of the root of a component leads to itself and to what was given,
LEMMA RootClosed ==
  ASSUME SearchInv, frames # << >>, Top.left = {}, lowlink[Top.node] = index[Top.node]
  PROVE  \A n \in Segment : graph[n] \subseteq Given \cup Segment
  BY SegmentEdges DEF Segment

\* and its members reach each other, by way of the root: it is a component.
LEMMA RootComponent ==
  ASSUME SearchInv, frames # << >>, Top.left = {}, lowlink[Top.node] = index[Top.node]
  PROVE  Components!Component(Segment)
  <1>1. PICK k \in Nat :
           /\ k = Len(frames) /\ DOMAIN frames = 1 .. k /\ k \in 1 .. k
           /\ \A i \in 1 .. k : F(i) \in Files
           /\ \A i \in 1 .. k : i + 1 \in 1 .. k \/ i = k
           /\ Top.node = F(k)
           /\ \A i \in 1 .. k : index[F(i)] \in Nat
           /\ \A n \in Files : OnStack(n) => index[n] \in Nat
    BY TopOf
  <1>2. Top.node \in Segment
    BY <1>1 DEF Segment, SearchInv, FramesAreAPath
  <1>3. \A n \in Segment : n \in Files /\ Reach(F(k), n) /\ Reach(n, F(k))
    <2> SUFFICES ASSUME NEW n \in Segment PROVE Reach(F(k), n) /\ Reach(n, F(k))
      BY DEF Segment
    <2>1. n \in Files /\ OnStack(n) /\ index[F(k)] <= index[n]
      BY <1>1 DEF Segment
    <2>2. PICK i \in 1 .. k : InSegment(n, i) /\ Reach(F(i), n) /\ Reach(n, F(i))
      BY <2>1, <1>1 DEF SearchInv, Segments
    <2>3. i = k
      <3> SUFFICES ASSUME i # k PROVE FALSE
        OBVIOUS
      <3>1. index[n] < index[F(i + 1)] /\ i + 1 \in 1 .. k
        BY <2>2, <1>1 DEF InSegment, Upto
      <3>2. index[F(i + 1)] <= index[F(k)]
        <4>1. i + 1 < k => index[F(i + 1)] < index[F(k)]
          BY <3>1, <1>1 DEF SearchInv, FramesAreAPath
        <4>2. i + 1 < k \/ i + 1 = k
          BY <3>1, <1>1
        <4> QED BY <3>1, <4>1, <4>2, <1>1
      <3> QED BY <2>1, <3>1, <3>2, <1>1
    <2> QED BY <2>2, <2>3
  <1>4. ASSUME NEW u \in Segment PROVE Segment = {v \in Files : Reach(u, v) /\ Reach(v, u)}
    <2>1. \A v \in Segment : Reach(u, v) /\ Reach(v, u)
      BY <1>1, <1>3, ReachOn
    <2>2. ASSUME NEW v \in Files, Reach(u, v), Reach(v, u) PROVE v \in Segment
      <3>1. v \in Given \cup Segment
        <4>1. Given \cup Segment \in SUBSET Files
          BY DEF Segment, SearchInv, GivenClosed
        <4>2. \A n \in Given \cup Segment : graph[n] \subseteq Given \cup Segment
          BY RootClosed DEF SearchInv, GivenClosed
        <4> QED BY <2>2, <4>1, <4>2, Trapped
      <3>2. v \notin Given
        <4> SUFFICES ASSUME v \in Given PROVE FALSE
          OBVIOUS
        <4>1. Given \in SUBSET Files /\ \A n \in Given : graph[n] \subseteq Given
          BY DEF SearchInv, GivenClosed
        <4>2. u \in Given
          BY <2>2, <4>1, <1>3, Trapped
        <4> QED BY <4>2 DEF Segment, SearchInv, SeenOnce
      <3> QED BY <3>1, <3>2
    <2> QED BY <2>1, <2>2, <1>3
  <1> QED BY <1>2, <1>4 DEF Components!Component, Reach

\* Popping down to the root's node takes its segment off the stack.
LEMMA SegmentPopped ==
  ASSUME SearchInv, frames # << >>, NEW p \in DOMAIN stack, stack[p] = Top.node, Pop(p)
  PROVE  /\ stack' \in Seq(Files) /\ DOMAIN stack' \subseteq DOMAIN stack
         /\ \A i \in DOMAIN stack' : stack'[i] = stack[i]
         /\ \A n \in Files : OnStack(n)' <=> OnStack(n) /\ n \notin Segment
         /\ \E files \in Seq(Files) :
              /\ Members(files) = Segment
              /\ Len(files) = Len(stack) + 1 - p
              /\ sccs' = Append(sccs,
                   [files |-> files, isCycle |-> Len(files) > 1 \/ Top.node \in graph[Top.node]])
  <1>t. Types
    BY DEF SearchInv
  <1>s. stack[p] \in Files /\ index[stack[p]] \in Nat
        /\ \A n \in Files : OnStack(n) => index[n] \in Nat
    BY TopOf, <1>t DEF Types, OnStack, Members
  <1>a. /\ stack' \in Seq(Files) /\ DOMAIN stack' = 1 .. p - 1
        /\ \A i \in 1 .. p - 1 : stack'[i] = stack[i] /\ i \in DOMAIN stack
        /\ p \in Nat /\ DOMAIN stack = 1 .. Len(stack) /\ Len(stack) \in Nat
    <2>1. stack \in Seq(Files) /\ p \in 1 .. Len(stack) /\ stack' = SubSeq(stack, 1, p - 1)
      BY <1>s, <1>t DEF Pop, Types
    <2> QED BY <2>1, FrontOf
  <1>b. \A i \in DOMAIN stack : OnStack(stack[i]) /\ stack[i] \in Files /\ index[stack[i]] \in Nat
    BY <1>s, <1>t DEF OnStack, Members, Types
  \* Numbers rise along the stack, so what is above p has the larger ones.
  <1>c. \A i \in DOMAIN stack : i < p <=> index[stack[i]] < index[Top.node]
    <2> SUFFICES ASSUME NEW i \in DOMAIN stack
                 PROVE  i < p <=> index[stack[i]] < index[stack[p]]
      BY <1>s
    <2>1. CASE i < p
      BY <2>1, <1>a DEF SearchInv, StackRises
    <2>2. CASE i = p
      BY <2>2, <1>a, <1>b
    <2>3. CASE i > p
      <3>1. index[stack[p]] < index[stack[i]]
        BY <2>3, <1>a DEF SearchInv, StackRises
      <3> QED BY <2>3, <3>1, <1>a, <1>b
    <2> QED BY <2>1, <2>2, <2>3, <1>a
  <1>d. \A n \in Files : OnStack(n)' <=> OnStack(n) /\ index[n] < index[Top.node]
    <2>1. ASSUME NEW n \in Files, OnStack(n)' PROVE OnStack(n) /\ index[n] < index[Top.node]
      <3>1. PICK i \in 1 .. p - 1 : n = stack'[i]
        BY <2>1, <1>a DEF OnStack, Members
      <3>2. i \in DOMAIN stack /\ n = stack[i] /\ i < p
        BY <3>1, <1>a
      <3> QED BY <3>2, <1>b, <1>c
    <2>2. ASSUME NEW n \in Files, OnStack(n), index[n] < index[Top.node] PROVE OnStack(n)'
      <3>1. PICK i \in DOMAIN stack : n = stack[i]
        BY <2>2 DEF OnStack, Members
      <3>2. i \in 1 .. p - 1
        BY <2>2, <3>1, <1>a, <1>c
      <3>3. i \in DOMAIN stack' /\ stack'[i] = n
        BY <3>1, <3>2, <1>a
      <3> QED BY <3>3 DEF OnStack, Members
    <2> QED BY <2>1, <2>2
  <1>e. \E files \in Seq(Files) :
          /\ Members(files) = Segment /\ Len(files) = Len(stack) + 1 - p
          /\ sccs' = Append(sccs,
               [files |-> files, isCycle |-> Len(files) > 1 \/ Top.node \in graph[Top.node]])
    <2> DEFINE l == Len(stack) + 1 - p
               files == [i \in 1 .. Len(stack) + 1 - p |-> stack[Len(stack) + 1 - i]]
    <2>1. /\ l \in Nat
          /\ \A i \in 1 .. l : Len(stack) + 1 - i \in DOMAIN stack /\ Len(stack) + 1 - i >= p
          /\ \A i \in DOMAIN stack : i >= p => Len(stack) + 1 - i \in 1 .. l
                                               /\ Len(stack) + 1 - (Len(stack) + 1 - i) = i
      BY <1>a
    <2>2. files \in Seq(Files) /\ DOMAIN files = 1 .. l /\ Len(files) = l
      <3>1. files \in [1 .. l -> Files]
        BY <2>1, <1>b
      <3> HIDE DEF files, l
      <3> QED BY <2>1, <3>1, SeqDef
    <2>3. Members(files) = Segment
      <3>1. ASSUME NEW n \in Members(files) PROVE n \in Segment
        <4>1. PICK i \in 1 .. l : n = stack[Len(stack) + 1 - i]
          BY <3>1, <2>2 DEF Members
        <4>2. ~ (Len(stack) + 1 - i < p)
          BY <4>1, <2>1, <1>a
        <4>3. Len(stack) + 1 - i \in DOMAIN stack
          BY <2>1
        <4>4. OnStack(n) /\ n \in Files /\ ~ (index[n] < index[Top.node]) /\ index[n] \in Nat
          BY <4>1, <4>2, <4>3, <1>b, <1>c
        <4> QED BY <4>4, <1>s DEF Segment
      <3>2. ASSUME NEW n \in Segment PROVE n \in Members(files)
        <4>1. PICK i \in DOMAIN stack : n = stack[i]
          BY DEF Segment, OnStack, Members
        <4>2. i >= p
          BY <4>1, <1>a, <1>b, <1>c, <1>s DEF Segment
        <4>3. Len(stack) + 1 - i \in DOMAIN files /\ files[Len(stack) + 1 - i] = n
          BY <4>1, <4>2, <2>1, <2>2
        <4> QED BY <4>3 DEF Members
      <3> QED BY <3>1, <3>2
    <2>4. sccs' = Append(sccs, [files |-> files,
                                isCycle |-> Len(files) > 1 \/ Top.node \in graph[Top.node]])
      BY DEF Pop
    <2> QED BY <2>2, <2>3, <2>4
  <1>f. \A n \in Files : OnStack(n)' <=> OnStack(n) /\ n \notin Segment
    BY <1>d, <1>s DEF Segment
  <1> QED BY <1>a, <1>e, <1>f

LEMMA LeaveKeeps == ASSUME SearchInv, Leave PROVE SearchInv'
  <1>t. Types
    BY DEF SearchInv
  <1>s. /\ frames # << >> /\ Top.left = {} /\ frames' = SubSeq(frames, 1, Len(frames) - 1)
        /\ lowlink' = IF Len(frames) = 1
                      THEN lowlink
                      ELSE [lowlink EXCEPT ![frames[Len(frames) - 1].node] =
                                             Least(@, lowlink[Top.node])]
        /\ graph' = graph /\ idx' = idx /\ index' = index
    BY DEF Leave
  <1>k. PICK k \in Nat :
           /\ k = Len(frames) /\ DOMAIN frames = 1 .. k /\ k \in 1 .. k
           /\ \A i \in 1 .. k : frames[i] \in Frames /\ F(i) \in Files
           /\ \A i \in 1 .. k : i + 1 \in 1 .. k \/ i = k
           /\ Top.node = F(k) /\ Top.left = frames[k].left
           /\ \A i \in 1 .. k : /\ index[F(i)] \in Nat /\ lowlink[F(i)] \in Nat
                                /\ lowlink[F(i)] <= index[F(i)]
           /\ \A n \in Files : OnStack(n) => index[n] \in Nat
    BY <1>s, TopOf
  <1>k0. k \in Nat /\ k = Len(frames)
    BY <1>k
  <1>a. DOMAIN frames = 1 .. k /\ k \in 1 .. k /\ \A i \in 1 .. k : i + 1 \in 1 .. k \/ i = k
    BY <1>k
  <1>b. /\ DOMAIN frames' = 1 .. k - 1 /\ Len(frames') = k - 1 /\ frames' \in Seq(Frames)
        /\ \A i \in 1 .. k - 1 : frames'[i] = frames[i] /\ F(i)' = F(i) /\ i \in 1 .. k
        /\ \A i \in 1 .. k : F(i) \in Files
    <2>1. frames \in Seq(Frames)
      BY <1>t DEF Types
    <2>2. /\ frames' \in Seq(Frames) /\ Len(frames') = k - 1 /\ DOMAIN frames' = 1 .. k - 1
          /\ \A i \in 1 .. k - 1 : frames'[i] = frames[i]
      BY <2>1, <1>k, <1>s, FrontOf
    <2> QED BY <2>2, <1>k DEF F
  <1>c. Top.node = F(k) /\ frames[k].left = {}
    BY <1>k, <1>s
  <1>e. /\ \A i \in 1 .. k : /\ index[F(i)] \in Nat /\ lowlink[F(i)] \in Nat
                             /\ lowlink[F(i)] <= index[F(i)]
        /\ \A n \in Files : OnStack(n) => index[n] \in Nat
    BY <1>k
  <1>f. /\ lowlink' \in [Files -> Nat \cup {Unseen}]
        /\ \A i \in 1 .. k - 1 : lowlink'[F(i)] = IF i = k - 1
                                                  THEN Least(lowlink[F(i)], lowlink[F(k)])
                                                  ELSE lowlink[F(i)]
    <2>1. k = 1 \/ k - 1 \in 1 .. k - 1
      BY <1>a
    <2>2. CASE k = 1
      BY <2>2, <1>k0, <1>s, <1>t DEF Types
    <2>3. CASE k - 1 \in 1 .. k - 1
      <3>1. lowlink' = [lowlink EXCEPT ![F(k - 1)] = Least(lowlink[F(k - 1)], lowlink[F(k)])]
        <4>1. Len(frames) # 1
          BY <2>3, <1>k0
        <4> QED BY <4>1, <1>c, <1>k0, <1>s DEF F
      <3>2. \A i \in 1 .. k - 1 : i # k - 1 => F(i) # F(k - 1)
        <4>1. \A i \in 1 .. k - 1 : i # k - 1 => index[F(i)] < index[F(k - 1)]
          BY <2>3, <1>a, <1>b DEF SearchInv, FramesAreAPath
        <4> QED BY <4>1, <2>3, <1>b, <1>e
      <3>3. Least(lowlink[F(k - 1)], lowlink[F(k)]) \in Nat
        BY <2>3, <1>a, <1>b, <1>e DEF Least
      <3> QED BY <2>3, <3>1, <3>2, <3>3, <1>b, <1>t DEF Types
    <2> QED BY <2>1, <2>2, <2>3
  <1>g. \A i \in 1 .. k - 1 : lowlink'[F(i)] <= lowlink[F(i)] /\ lowlink'[F(i)] \in Nat
    BY <1>b, <1>e, <1>f DEF Least
  <1>h. \A n \in Files, i \in 1 .. k - 1 : Upto(n, i) => Upto(n, i)'
    <2> SUFFICES ASSUME NEW n \in Files, NEW i \in 1 .. k - 1, Upto(n, i) PROVE Upto(n, i)'
      OBVIOUS
    <2>1. CASE i = k - 1
      BY <2>1, <1>b DEF Upto
    <2>2. CASE i < k - 1
      <3>1. i + 1 \in 1 .. k - 1 /\ i # k
        BY <2>2, <1>k0
      <3> QED BY <2>2, <3>1, <1>b, <1>s, <1>k0 DEF Upto
    <2> QED BY <2>1, <2>2, <1>k0
  <1>n. \A u, v \in Files : Reach(u, v)' <=> Reach(u, v)
    BY <1>s, ReachKept
  <1>1. CASE lowlink[F(k)] # index[F(k)]
    <2>s. stack' = stack /\ sccs' = sccs
      BY <1>1, <1>c DEF Leave
    <2>g. (\A n \in Files : OnStack(n)' <=> OnStack(n)) /\ Given' = Given
      BY <2>s DEF OnStack, Given
    <2>w. PICK w \in Files : OnStack(w) /\ index[w] = lowlink[F(k)] /\ Reach(F(k), w)
      BY <1>a DEF SearchInv, Links
    <2>v. index[w] < index[F(k)]
      BY <1>1, <2>w, <1>a, <1>e
    \* The link leads to the segment of a frame below, and so to the frame below.
    <2>p. k - 1 \in 1 .. k - 1 /\ Reach(F(k), F(k - 1)) /\ Reach(F(k - 1), F(k))
      <3>1. PICK i \in 1 .. k : InSegment(w, i) /\ Reach(w, F(i))
        BY <2>w, <1>a DEF SearchInv, Segments
      <3>2. i # k
        BY <3>1, <2>v, <1>a, <1>e, <2>w DEF InSegment
      <3>3. i \in 1 .. k - 1 /\ k - 1 \in 1 .. k - 1 /\ k - 1 \in 1 .. k
        BY <3>2, <1>k0
      <3>4. Reach(F(i), F(k - 1))
        BY <3>3, <1>a, <1>b, ReachSelf DEF SearchInv, FramesAreAPath
      <3>5. Reach(F(k), F(i))
        BY <2>w, <3>1, <1>a, <1>b, ReachOn
      <3>6. Reach(F(k), F(k - 1))
        BY <3>3, <3>4, <3>5, <1>a, <1>b, ReachOn
      <3> QED BY <3>3, <3>6, <1>a DEF SearchInv, FramesAreAPath
    <2>q. index[F(k - 1)] < index[F(k)]
      BY <2>p, <1>a, <1>b DEF SearchInv, FramesAreAPath
    <2>1. Types'
      BY <1>b, <1>f, <1>s, <1>t, <2>s DEF Types
    <2>2. Numbered' /\ StackRises' /\ GivenClosed'
      BY <2>g, <2>s, <1>s DEF SearchInv, Numbered, StackRises, GivenClosed
    <2>3. SeenOnce'
      BY <2>g, <1>s DEF SearchInv, SeenOnce
    <2>4. FramesAreAPath'
      <3>1. \A i \in 1 .. k - 1 : OnStack(F(i))' /\ frames'[i].left \subseteq graph'[F(i)']
        BY <1>a, <1>b, <2>g, <1>s DEF SearchInv, FramesAreAPath
      <3>2. \A i, j \in 1 .. k - 1 : i < j => index'[F(i)'] < index'[F(j)'] /\ Reach(F(i), F(j))'
        <4>1. \A i, j \in 1 .. k - 1 : i < j => index[F(i)] < index[F(j)] /\ Reach(F(i), F(j))
          BY <1>a, <1>b DEF SearchInv, FramesAreAPath
        <4> QED BY <4>1, <1>a, <1>b, <1>n, <1>s
      <3> QED BY <3>1, <3>2, <1>b DEF FramesAreAPath
    <2>5. Segments'
      <3> SUFFICES ASSUME NEW n \in Files, OnStack(n)
                   PROVE  \E i \in 1 .. k - 1 :
                            /\ index'[F(i)'] <= index'[n] /\ Upto(n, i)'
                            /\ Reach(F(i), n)' /\ Reach(n, F(i))'
        BY <1>b, <2>g DEF Segments, InSegment
      <3>1. PICK i \in 1 .. k : InSegment(n, i) /\ Reach(F(i), n) /\ Reach(n, F(i))
        BY <1>a DEF SearchInv, Segments
      <3>2. CASE i = k
        <4>1. Reach(F(k - 1), n) /\ Reach(n, F(k - 1))
          BY <3>1, <3>2, <2>p, <1>b, <1>a, ReachOn
        <4>2. index[F(k - 1)] <= index[n] /\ Upto(n, k - 1)'
          BY <3>1, <3>2, <2>p, <2>q, <1>a, <1>b, <1>e DEF InSegment, Upto
        <4> QED BY <4>1, <4>2, <2>p, <1>b, <1>n, <1>s
      <3>3. CASE i # k
        <4>1. i \in 1 .. k - 1
          BY <3>3, <1>k0
        <4> QED BY <4>1, <3>1, <1>b, <1>h, <1>n, <1>s DEF InSegment
      <3> QED BY <3>2, <3>3
    <2>6. Links'
      <3> SUFFICES ASSUME NEW i \in 1 .. k - 1
                   PROVE  /\ lowlink'[F(i)'] <= index'[F(i)']
                          /\ \E x \in Files : /\ OnStack(x)' /\ index'[x] = lowlink'[F(i)']
                                              /\ Reach(F(i), x)'
        BY <1>b DEF Links
      <3>1. lowlink'[F(i)'] <= index'[F(i)']
        BY <1>b, <1>e, <1>g, <1>s
      <3>2. \E x \in Files : OnStack(x) /\ index[x] = lowlink'[F(i)] /\ Reach(F(i), x)
        <4>1. CASE lowlink'[F(i)] = lowlink[F(i)]
          BY <4>1, <1>a, <1>b DEF SearchInv, Links
        <4>2. CASE i = k - 1 /\ lowlink'[F(i)] = lowlink[F(k)]
          <5>1. Reach(F(i), w)
            BY <4>2, <2>p, <2>w, <1>a, <1>b, ReachOn
          <5> QED BY <4>2, <5>1, <2>w
        <4> QED BY <4>1, <4>2, <1>f DEF Least
      <3> QED BY <3>1, <3>2, <1>b, <1>n, <1>s, <2>g
    <2>7. Edges'
      <3> SUFFICES ASSUME NEW n \in Files, NEW m \in Files, OnStack(n)', m \in graph'[n]
                   PROVE  \/ \E i \in DOMAIN frames' : F(i)' = n /\ m \in frames'[i].left
                          \/ m \in Given'
                          \/ /\ OnStack(m)'
                             /\ \E j \in DOMAIN frames' :
                                  Upto(n, j)' /\ lowlink'[F(j)'] <= index'[m]
        BY DEF Edges
      <3>a. OnStack(n) /\ m \in graph[n] /\ index'[m] = index[m]
        BY <1>s, <2>g
      <3>1. CASE \E i \in DOMAIN frames : F(i) = n /\ m \in frames[i].left
        <4>1. PICK i \in 1 .. k : F(i) = n /\ m \in frames[i].left
          BY <3>1, <1>a
        <4>2. i \in 1 .. k - 1
          BY <4>1, <1>c, <1>k0
        <4> QED BY <4>1, <4>2, <1>b
      <3>2. CASE OnStack(m) /\ \E j \in DOMAIN frames : Upto(n, j) /\ lowlink[F(j)] <= index[m]
        <4>1. PICK j \in 1 .. k : Upto(n, j) /\ lowlink[F(j)] <= index[m]
          BY <3>2, <1>a
        <4>2. CASE j = k
          <5>1. lowlink'[F(k - 1)] <= lowlink[F(k)]
            BY <2>p, <1>a, <1>b, <1>e, <1>f DEF Least
          <5>2. Upto(n, k - 1)'
            BY <1>b DEF Upto
          <5>3. lowlink'[F(k - 1)] <= index[m]
            BY <3>2, <4>1, <4>2, <5>1, <2>p, <1>a, <1>b, <1>e, <1>g
          <5> QED BY <3>2, <3>a, <5>2, <5>3, <2>p, <2>g, <1>b
        <4>3. CASE j # k
          <5>1. j \in 1 .. k - 1
            BY <4>3, <1>k0
          <5>2. lowlink'[F(j)] <= index[m]
            BY <3>2, <4>1, <5>1, <1>b, <1>e, <1>g
          <5> QED BY <3>2, <3>a, <4>1, <5>1, <5>2, <1>b, <1>h, <2>g
        <4> QED BY <4>2, <4>3
      <3> QED BY <3>1, <3>2, <3>a, <2>g DEF SearchInv, Edges
    <2> QED BY <2>1, <2>2, <2>3, <2>4, <2>5, <2>6, <2>7 DEF SearchInv
  \* The top frame is the root of a component: its segment is popped.
  <1>2. CASE lowlink[F(k)] = index[F(k)]
    <2>s. PICK p \in DOMAIN stack : stack[p] = Top.node /\ Pop(p)
      BY <1>2, <1>c DEF Leave
    <2>a. /\ stack' \in Seq(Files) /\ DOMAIN stack' \subseteq DOMAIN stack
          /\ \A i \in DOMAIN stack' : stack'[i] = stack[i]
          /\ \A n \in Files : OnStack(n)' <=> OnStack(n) /\ n \notin Segment
      BY <2>s, <1>s, SegmentPopped
    <2>d. \A n \in Files : /\ OnStack(n)' <=> OnStack(n) /\ index[n] < index[F(k)]
                           /\ n \in Segment <=> OnStack(n) /\ ~ OnStack(n)'
      BY <2>a, <1>a, <1>c, <1>e DEF Segment
    <2>e. PICK files \in Seq(Files) : /\ Members(files) = Segment
                                      /\ \E flag \in BOOLEAN :
                                           sccs' = Append(sccs, [files |-> files, isCycle |-> flag])
      BY <2>s, <1>s, SegmentPopped
    <2>f. /\ sccs' \in Seq([files : Seq(Files), isCycle : BOOLEAN])
          /\ Given' = Given \cup Segment
      <3> DEFINE Sccs == [files : Seq(Files), isCycle : BOOLEAN]
      <3>1. PICK r \in Sccs : sccs' = Append(sccs, r) /\ r.files = files
        BY <2>e
      <3>2. sccs \in Seq(Sccs)
        BY <1>t DEF Types
      <3> HIDE DEF Sccs
      <3>3. /\ sccs' \in Seq(Sccs) /\ DOMAIN sccs' = DOMAIN sccs \cup {Len(sccs) + 1}
            /\ \A i \in DOMAIN sccs : sccs'[i] = sccs[i]
            /\ sccs'[Len(sccs) + 1] = r
        BY <3>1, <3>2
      <3>4. Given' = Given \cup Members(files)
        BY <3>1, <3>3 DEF Given, Members
      <3> QED BY <3>3, <3>4, <2>e DEF Sccs
    <2>h. \A n \in Segment : graph[n] \subseteq Given \cup Segment
      BY <1>2, <1>c, <1>s, RootClosed
    <2>i. \A i \in 1 .. k - 1 : /\ OnStack(F(i))' /\ index[F(i)] < index[F(k)]
                                /\ lowlink'[F(i)] = lowlink[F(i)]
      <3>1. \A i \in 1 .. k - 1 : OnStack(F(i)) /\ index[F(i)] < index[F(k)]
        BY <1>a, <1>b DEF SearchInv, FramesAreAPath
      <3> QED BY <3>1, <2>d, <1>2, <1>a, <1>b, <1>e, <1>f DEF Least
    <2>1. Types'
      BY <2>a, <2>f, <1>b, <1>f, <1>s, <1>t DEF Types
    <2>2. Numbered'
      BY <1>s DEF SearchInv, Numbered
    <2>3. StackRises'
      BY <2>a, <1>s DEF SearchInv, StackRises
    <2>4. SeenOnce'
      BY <2>d, <2>f, <1>s DEF SearchInv, SeenOnce
    <2>5. GivenClosed'
      BY <2>f, <2>h, <1>s DEF SearchInv, GivenClosed, Segment
    <2>6. FramesAreAPath'
      <3>1. \A i \in 1 .. k - 1 : frames'[i].left \subseteq graph[F(i)]
        BY <1>a, <1>b DEF SearchInv, FramesAreAPath
      <3>2. \A i, j \in 1 .. k - 1 : i < j => index[F(i)] < index[F(j)] /\ Reach(F(i), F(j))
        BY <1>a, <1>b DEF SearchInv, FramesAreAPath
      <3>3. \A i, j \in 1 .. k - 1 : i < j => index'[F(i)'] < index'[F(j)'] /\ Reach(F(i), F(j))'
        BY <3>2, <1>b, <1>n, <1>s
      <3> QED BY <3>1, <3>3, <2>i, <1>b, <1>s DEF FramesAreAPath
    <2>7. Segments'
      <3> SUFFICES ASSUME NEW n \in Files, OnStack(n)'
                   PROVE  \E i \in DOMAIN frames' :
                            /\ index'[F(i)'] <= index'[n] /\ Upto(n, i)'
                            /\ Reach(F(i), n)' /\ Reach(n, F(i))'
        BY DEF Segments, InSegment
      <3>1. OnStack(n) /\ index[n] < index[F(k)]
        BY <2>d
      <3>2. PICK i \in 1 .. k : InSegment(n, i) /\ Reach(F(i), n) /\ Reach(n, F(i))
        BY <3>1, <1>a DEF SearchInv, Segments
      <3>3. i \in 1 .. k - 1
        <4>1. i # k
          BY <3>1, <3>2, <1>a, <1>e DEF InSegment
        <4> QED BY <4>1, <1>k0
      <3> QED BY <3>2, <3>3, <1>b, <1>h, <1>n, <1>s DEF InSegment
    <2>8. Links'
      <3> SUFFICES ASSUME NEW i \in DOMAIN frames'
                   PROVE  /\ lowlink'[F(i)'] <= index'[F(i)']
                          /\ \E w \in Files : /\ OnStack(w)' /\ index'[w] = lowlink'[F(i)']
                                              /\ Reach(F(i), w)'
        BY DEF Links
      <3>1. PICK w \in Files : OnStack(w) /\ index[w] = lowlink[F(i)] /\ Reach(F(i), w)
        BY <1>a, <1>b DEF SearchInv, Links
      <3>2. OnStack(w)'
        BY <3>1, <2>d, <2>i, <1>a, <1>b, <1>e
      <3> QED BY <3>1, <3>2, <2>i, <1>b, <1>e, <1>n, <1>s
    <2>9. Edges'
      <3> SUFFICES ASSUME NEW n \in Files, NEW m \in Files, OnStack(n)', m \in graph'[n]
                   PROVE  \/ \E i \in DOMAIN frames' : F(i)' = n /\ m \in frames'[i].left
                          \/ m \in Given'
                          \/ /\ OnStack(m)'
                             /\ \E j \in DOMAIN frames' :
                                  Upto(n, j)' /\ lowlink'[F(j)'] <= index'[m]
        BY DEF Edges
      <3>a. OnStack(n) /\ m \in graph[n] /\ index'[m] = index[m]
        BY <1>s, <2>d
      <3>1. CASE \E i \in DOMAIN frames : F(i) = n /\ m \in frames[i].left
        <4>1. PICK i \in 1 .. k : F(i) = n /\ m \in frames[i].left
          BY <3>1, <1>a
        <4>2. i \in 1 .. k - 1
          BY <4>1, <1>c, <1>k0
        <4> QED BY <4>1, <4>2, <1>b
      <3>2. CASE m \in Given
        BY <3>2, <2>f
      <3>3. CASE OnStack(m) /\ \E j \in DOMAIN frames : Upto(n, j) /\ lowlink[F(j)] <= index[m]
        <4>1. PICK j \in 1 .. k : Upto(n, j) /\ lowlink[F(j)] <= index[m]
          BY <3>3, <1>a
        <4>2. CASE ~ OnStack(m)'
          BY <3>3, <4>2, <2>d, <2>f
        <4>3. CASE OnStack(m)'
          <5>1. j \in 1 .. k - 1
            <6>1. j # k
              BY <3>3, <4>1, <4>3, <2>d, <1>2, <1>a, <1>e
            <6> QED BY <6>1, <1>k0
          <5>2. lowlink'[F(j)'] <= index'[m]
            BY <3>a, <4>1, <5>1, <2>i, <1>b
          <5> QED BY <4>1, <4>3, <5>1, <5>2, <1>b, <1>h
        <4> QED BY <4>2, <4>3
      <3> QED BY <3>1, <3>2, <3>3, <3>a DEF SearchInv, Edges
    <2> QED BY <2>1, <2>2, <2>3, <2>4, <2>5, <2>6, <2>7, <2>8, <2>9 DEF SearchInv
  <1> QED BY <1>1, <1>2

-----------------------------------------------------------------------------
(* The theorems.                                                           *)

LEMMA StepKeeps == ASSUME SearchInv, [SearchNext]_searchVars PROVE SearchInv' /\ graph' = graph
  <1>1. ASSUME NEW n \in Files, EnterRoot(n) PROVE SearchInv' /\ graph' = graph
    BY <1>1, EnterRootKeeps DEF EnterRoot, Enter
  <1>2. ASSUME NEW n \in Files, EnterChild(n) PROVE SearchInv' /\ graph' = graph
    BY <1>2, EnterChildKeeps DEF EnterChild, Enter
  <1>3. ASSUME NEW n \in Files, SkipChild(n) PROVE SearchInv' /\ graph' = graph
    BY <1>3, SkipChildKeeps DEF SkipChild
  <1>4. CASE Leave
    BY <1>4, LeaveKeeps DEF Leave
  <1>5. CASE UNCHANGED searchVars
    <2>1. \A u, v \in Files : Reach(u, v)' <=> Reach(u, v)
      BY <1>5, ReachKept DEF searchVars
    <2>2. /\ graph' = graph /\ idx' = idx /\ index' = index /\ lowlink' = lowlink
          /\ stack' = stack /\ frames' = frames /\ sccs' = sccs
      BY <1>5 DEF searchVars
    <2>3. Types' /\ Numbered' /\ StackRises' /\ GivenClosed'
      <3>1. Types'
        BY <2>2 DEF SearchInv, Types
      <3>2. Numbered' /\ StackRises'
        BY <2>2 DEF SearchInv, Numbered, StackRises
      <3>3. GivenClosed'
        BY <2>2 DEF SearchInv, GivenClosed, Given
      <3> QED
        BY <3>1, <3>2, <3>3
    <2>4. SeenOnce'
      BY <2>2 DEF SearchInv, SeenOnce, OnStack, Given
    <2>5. FramesAreAPath'
      <3>1. \A i \in DOMAIN frames : F(i) \in Files
        <4>1. frames \in Seq(Frames)
          BY DEF SearchInv, Types
        <4>2. \A i \in DOMAIN frames : frames[i] \in Frames
          BY <4>1, Element
        <4> QED BY <4>2 DEF Frames, F
      <3>2. \A i, j \in DOMAIN frames : Reach(F(i), F(j)) => Reach(F(i), F(j))'
        BY <2>1, <2>2, <3>1 DEF F
      <3> QED BY <2>2, <3>2 DEF SearchInv, FramesAreAPath, OnStack, F
    <2>6. Segments'
      BY <2>2 DEF SearchInv, Segments, InSegment, Upto, OnStack, F, Reach, Components!Reaches,
                  Components!Closed
    <2>7. Links'
      BY <2>2 DEF SearchInv, Links, OnStack, F, Reach, Components!Reaches, Components!Closed
    <2>8. Edges'
      BY <2>2 DEF SearchInv, Edges, Upto, OnStack, F, Given
    <2> QED BY <2>3, <2>4, <2>5, <2>6, <2>7, <2>8, <2>2 DEF SearchInv
  <1> QED BY <1>1, <1>2, <1>3, <1>4, <1>5 DEF SearchNext

THEOREM SearchInvariant == SearchSpec => []SearchInv
  <1>1. SearchInv /\ [SearchNext]_searchVars => SearchInv'
    BY StepKeeps
  <1> QED BY InitHolds, <1>1, PTL DEF SearchSpec

\* The stack is empty at the end, so that every file is in a component: the loop over
\* the components in finalize misses none.
THEOREM AllGivenHolds == SearchSpec => []AllGiven
  <1>1. SearchInv => AllGiven
    <2> SUFFICES ASSUME SearchInv, frames = << >> PROVE stack = << >>
      BY DEF AllGiven, Searched
    <2>1. DOMAIN frames = {}
      OBVIOUS
    <2>2. \A n \in Files : ~ OnStack(n)
      BY <2>1 DEF SearchInv, Segments
    <2>3. stack \in Seq(Files)
      BY DEF SearchInv, Types
    <2> QED BY <2>2, <2>3 DEF OnStack, Members
  <1> QED BY SearchInvariant, <1>1, PTL

\* What one step gives out, if anything, is the next component.
LEMMA StepGives ==
  ASSUME SearchInv, SearchNext, sccs' # sccs
  PROVE  \E S \in SUBSET Files : \E r \in [files : Seq(Files), isCycle : BOOLEAN] :
           /\ sccs' = Append(sccs, r) /\ Members(r.files) = S
           /\ Components!Component(S) /\ S \cap Given = {}
           /\ \A n \in S : graph[n] \subseteq S \cup Given
           /\ r.isCycle <=> \E n \in S : \E m \in Files : m \in graph[n] /\ Reach(m, n)
           /\ ~ r.isCycle => Len(r.files) = 1
  <1>1. Leave /\ lowlink[Top.node] = index[Top.node]
    BY DEF SearchNext, EnterRoot, EnterChild, Enter, SkipChild, Leave
  <1>2. PICK p \in DOMAIN stack : stack[p] = Top.node /\ Pop(p)
    BY <1>1 DEF Leave
  <1>3. frames # << >> /\ Top.left = {}
    BY <1>1 DEF Leave
  <1>4. PICK files \in Seq(Files) :
          /\ Members(files) = Segment
          /\ Len(files) = Len(stack) + 1 - p
          /\ sccs' = Append(sccs,
               [files |-> files, isCycle |-> Len(files) > 1 \/ Top.node \in graph[Top.node]])
    BY <1>2, <1>3, SegmentPopped
  <1>5. Components!Component(Segment) /\ \A n \in Segment : graph[n] \subseteq Segment \cup Given
    BY <1>1, <1>3, RootComponent, RootClosed
  <1>6. Segment \in SUBSET Files /\ Segment \cap Given = {}
    BY DEF Segment, SearchInv, SeenOnce
  <1>7. Top.node \in Segment
    BY <1>3, TopOf DEF Segment, SearchInv, FramesAreAPath
  \* A longer component has another node, which reaches the root through an edge.
  <1>8. Len(files) > 1 \/ Top.node \in graph[Top.node] <=>
          \E n \in Segment : \E m \in Files : m \in graph[n] /\ Reach(m, n)
    <2>1. ASSUME Top.node \in graph[Top.node]
          PROVE  \E n \in Segment : \E m \in Files : m \in graph[n] /\ Reach(m, n)
      BY <2>1, <1>6, <1>7, ReachSelf
    <2>c. \A u, v \in Segment : Reach(u, v)
      BY <1>5 DEF Components!Component, Reach
    <2>p. /\ p \in 1 .. Len(stack) /\ Len(stack) \in Nat /\ DOMAIN stack = 1 .. Len(stack)
          /\ \A i \in DOMAIN stack : stack[i] \in Files /\ OnStack(stack[i])
      BY DEF SearchInv, Types, OnStack, Members
    <2>q. \A i \in DOMAIN stack : index[stack[i]] \in Nat
      BY <1>3, <2>p, TopOf
    <2>2. ASSUME Len(files) > 1
          PROVE  \E n \in Segment : \E m \in Files : m \in graph[n] /\ Reach(m, n)
      <3>1. PICK n \in Segment : n # Top.node
        <4>1. p + 1 \in DOMAIN stack /\ p < p + 1
          BY <2>2, <2>p, <1>4
        <4>2. index[Top.node] < index[stack[p + 1]]
          BY <4>1, <1>2 DEF SearchInv, StackRises
        <4>3. stack[p + 1] \in Segment
          BY <4>1, <4>2, <2>p, <2>q, <1>2 DEF Segment
        <4>4. stack[p + 1] # Top.node
          BY <4>1, <4>2, <2>q, <1>2
        <4> QED BY <4>3, <4>4
      <3>g. graph \in [Files -> SUBSET Files] /\ n \in Files
        BY <1>6 DEF SearchInv, Types
      <3> DEFINE C == {n} \cup {v \in Files : \E m \in graph[n] : Reach(m, v)}
      <3>2. \A u \in C : graph[u] \subseteq C
        <4> SUFFICES ASSUME NEW u \in C, NEW v \in graph[u] PROVE v \in C
          OBVIOUS
        <4>1. v \in Files /\ u \in Files
          BY <3>g
        <4>2. CASE u = n
          BY <4>1, <4>2, ReachSelf
        <4>3. ASSUME NEW m \in graph[n], Reach(m, u) PROVE v \in C
          BY <4>1, <4>3, <3>g, ReachEdge, ReachOn
        <4> QED BY <4>2, <4>3
      <3>3. Top.node \in C
        <4>1. Reach(n, Top.node) /\ C \in SUBSET Files /\ n \in C /\ Top.node \in Files
          BY <2>c, <1>6, <1>7, <3>g
        <4> HIDE DEF C
        <4> QED BY <4>1, <3>2, Trapped
      <3>4. PICK m \in graph[n] : Reach(m, Top.node)
        BY <3>1, <3>3
      <3>5. Reach(m, n) /\ m \in Files
        BY <3>4, <3>g, <2>c, <1>6, <1>7, ReachOn
      <3> QED BY <3>4, <3>5
    <2>3. ASSUME NEW n \in Segment, NEW m \in Files, m \in graph[n], Reach(m, n),
                 ~ (Len(files) > 1)
          PROVE  Top.node \in graph[Top.node]
      <3>1. \A v \in Segment : v = Top.node
        <4> SUFFICES ASSUME NEW v \in Segment PROVE v = Top.node
          OBVIOUS
        <4>1. PICK i \in DOMAIN stack : v = stack[i]
          BY DEF Segment, OnStack, Members
        <4>2. ~ (i < p)
          BY <4>1, <2>q, <1>2 DEF SearchInv, StackRises, Segment
        <4>3. i = p
          BY <4>2, <2>3, <2>p, <1>4
        <4> QED BY <4>1, <4>3, <1>2
      <3>2. Reach(n, m)
        BY <2>3, <1>6, ReachEdge
      <3>3. m \in Segment
        BY <2>3, <3>2, <1>5 DEF Components!Component, Reach
      <3> QED BY <2>3, <3>1, <3>3
    <2> QED BY <2>1, <2>2, <2>3
  <1> DEFINE r == [files |-> files,
                   isCycle |-> Len(files) > 1 \/ Top.node \in graph[Top.node]]
  <1>9. /\ r \in [files : Seq(Files), isCycle : BOOLEAN]
        /\ r.files = files /\ (r.isCycle <=> Len(files) > 1 \/ Top.node \in graph[Top.node])
        /\ sccs' = Append(sccs, r)
    BY <1>4
  <1> HIDE DEF r
  <1>10. ~ r.isCycle => Len(r.files) = 1
    <2>1. p \in 1 .. Len(stack) /\ Len(stack) \in Nat
      BY DEF SearchInv, Types
    <2>2. Len(files) \in Nat /\ Len(files) >= 1
      BY <2>1, <1>4
    <2>3. ~ r.isCycle => ~ (Len(files) > 1)
      BY <1>9, Zenon
    <2>4. \A l \in Nat : l >= 1 /\ ~ (l > 1) => l = 1
      OBVIOUS
    <2> QED BY <2>2, <2>3, <2>4, <1>9, Zenon
  <1>11. Members(r.files) = Segment
    BY <1>4, <1>9
  <1>12. r.isCycle <=> \E n \in Segment : \E m \in Files : m \in graph[n] /\ Reach(m, n)
    BY <1>8, <1>9
  <1> QED BY <1>5, <1>6, <1>9, <1>11, <1>12, <1>10

LEMMA OrderGrows ==
  ASSUME SearchInv, NEW r \in [files : Seq(Files), isCycle : BOOLEAN], sccs' = Append(sccs, r)
  PROVE  Order' = Append(Order, Members(r.files))
  <1>1. /\ sccs \in Seq([files : Seq(Files), isCycle : BOOLEAN])
        /\ Len(sccs) \in Nat /\ DOMAIN sccs = 1 .. Len(sccs)
        /\ Len(sccs') = Len(sccs) + 1 /\ DOMAIN sccs' = 1 .. Len(sccs) + 1
        /\ \A i \in DOMAIN sccs : sccs'[i] = sccs[i]
        /\ sccs'[Len(sccs) + 1] = r
    BY DEF SearchInv, Types
  <1>2. Order \in Seq(SUBSET Files) /\ Len(Order) = Len(sccs)
    <2>1. \A i \in DOMAIN sccs : sccs[i].files \in Seq(Files)
      <3>1. \A i \in DOMAIN sccs : sccs[i] \in [files : Seq(Files), isCycle : BOOLEAN]
        BY <1>1, Element
      <3> QED BY <3>1
    <2>2. \A i \in DOMAIN sccs : Members(sccs[i].files) \in SUBSET Files
      BY <2>1, Element DEF Members
    <2>3. Order \in [1 .. Len(sccs) -> SUBSET Files]
      BY <2>2, <1>1 DEF Order
    <2>4. Order \in Seq(SUBSET Files)
      <3>1. Len(sccs) \in Nat
        BY <1>1
      <3> HIDE DEF Order
      <3> QED BY <2>3, <3>1, SeqDef
    <2>5. DOMAIN Order = 1 .. Len(sccs)
      BY <2>3
    <2> HIDE DEF Order
    <2> QED BY <2>4, <2>5, <1>1, LenProperties
  <1>3. Members(r.files) \in SUBSET Files
    BY Element DEF Members
  <1> DEFINE o == Append(Order, Members(r.files))
  <1>4. /\ Len(o) = Len(sccs) + 1 /\ o \in Seq(SUBSET Files)
        /\ \A i \in 1 .. Len(sccs) : o[i] = Order[i]
        /\ o[Len(sccs) + 1] = Members(r.files)
    BY <1>1, <1>2, <1>3
  <1>5. o = [i \in 1 .. Len(sccs) + 1 |-> o[i]]
    BY <1>4
  <1>6. \A i \in 1 .. Len(sccs) + 1 : o[i] = Members(sccs'[i].files)
    <2> SUFFICES ASSUME NEW i \in 1 .. Len(sccs) + 1 PROVE o[i] = Members(sccs'[i].files)
      OBVIOUS
    <2>1. CASE i = Len(sccs) + 1
      BY <2>1, <1>1, <1>4
    <2>2. CASE i \in 1 .. Len(sccs)
      BY <2>2, <1>1, <1>4 DEF Order
    <2>3. i = Len(sccs) + 1 \/ i \in 1 .. Len(sccs)
      BY <1>1
    <2> QED BY <2>1, <2>2, <2>3
  <1>7. Order' = [i \in 1 .. Len(sccs) + 1 |-> Members(sccs'[i].files)]
    BY <1>1 DEF Order
  <1> HIDE DEF o
  <1>8. o = Order'
    BY <1>5, <1>6, <1>7
  <1> QED BY <1>8 DEF o

\* The search implements Condensation: the sequence of components starts
\* empty, and each step of the search adds the next component or leaves it as it is.
THEOREM SearchGivesComponents == SearchSpec => GivesComponents
  <1>1. SearchInit => Components!Init
    BY DEF SearchInit, Unsearched, Components!Init, Order
  <1>2. ASSUME SearchInv, [SearchNext]_searchVars PROVE [Components!Next]_<<graph, Order>>
    <2>1. CASE sccs' = sccs
      BY <1>2, <2>1, StepKeeps DEF Order
    <2>2. CASE sccs' # sccs
      <3>1. SearchNext
        BY <1>2, <2>2 DEF searchVars
      <3>2. PICK S \in SUBSET Files : \E r \in [files : Seq(Files), isCycle : BOOLEAN] :
               /\ sccs' = Append(sccs, r) /\ Members(r.files) = S
               /\ Components!Component(S) /\ S \cap Given = {}
               /\ \A n \in S : graph[n] \subseteq S \cup Given
        BY <3>1, <2>2, <1>2, StepGives
      <3>3. Order' = Append(Order, S) /\ graph' = graph
        BY <3>2, <1>2, OrderGrows, StepKeeps
      <3>4. Components!Given = Given
        BY DEF Components!Given, Given, Order
      <3>5. Components!Give(S)
        BY <3>2, <3>3, <3>4 DEF Components!Give
      <3> QED BY <3>5 DEF Components!Next
    <2> QED BY <2>1, <2>2
  <1> QED BY <1>1, <1>2, SearchInvariant, PTL DEF SearchSpec, GivesComponents, Components!Spec

\* The flag tells, of every component, whether a file in it imports itself directly or
\* through others: it is what makes finalize repeat a pass over the component.
THEOREM CyclesFlaggedHolds == SearchSpec => []CyclesFlagged
  <1>1. SearchInit => CyclesFlagged
    <2> SUFFICES ASSUME SearchInit PROVE DOMAIN sccs = {}
      BY DEF CyclesFlagged
    <2> QED BY DEF SearchInit, Unsearched
  <1>2. ASSUME SearchInv, [SearchNext]_searchVars, CyclesFlagged PROVE CyclesFlagged'
    <2> DEFINE Right(x) == x.isCycle <=> \E n \in Members(x.files), m \in Files :
                                           m \in graph[n] /\ Components!Reaches(m, n)
    <2>1. CyclesFlagged <=> \A i \in DOMAIN sccs : Right(sccs[i])
      BY DEF CyclesFlagged
    <2>2. CyclesFlagged' <=> \A i \in DOMAIN sccs' : Right(sccs'[i])
      <3>1. graph' = graph
        BY <1>2, StepKeeps
      <3> QED BY <3>1 DEF CyclesFlagged, Members, Components!Reaches, Components!Closed
    <2>3. CASE sccs' = sccs
      BY <2>1, <2>2, <2>3, <1>2
    <2>4. CASE sccs' # sccs
      <3>1. SearchNext
        BY <1>2, <2>4 DEF searchVars
      <3>2. PICK r \in [files : Seq(Files), isCycle : BOOLEAN] :
              /\ sccs' = Append(sccs, r)
              /\ r.isCycle <=> \E n \in Members(r.files) : \E m \in Files :
                                 m \in graph[n] /\ Reach(m, n)
        BY <3>1, <2>4, <1>2, StepGives
      <3>3. Right(r)
        BY <3>2 DEF Reach
      <3>4. \A i \in DOMAIN sccs' : (i \in DOMAIN sccs /\ sccs'[i] = sccs[i]) \/ sccs'[i] = r
        <4>1. sccs \in Seq([files : Seq(Files), isCycle : BOOLEAN])
          BY <1>2 DEF SearchInv, Types
        <4> QED BY <4>1, <3>2
      <3> HIDE DEF Right
      <3> QED BY <3>3, <3>4, <2>1, <2>2, <1>2
    <2> QED BY <2>3, <2>4
  <1> QED BY <1>1, <1>2, SearchInvariant, PTL DEF SearchSpec

-----------------------------------------------------------------------------
(* Folds and least elements.                                               *)


LEMMA FromZero ==
  ASSUME NEW T, 0 \in T, \A n \in Nat : n \in T => n + 1 \in T
  PROVE  \A n \in Nat : n \in T
<1> SUFFICES ASSUME NEW m \in Nat, m \notin T PROVE FALSE
  OBVIOUS
<1> DEFINE R == OpToRel(<, Nat)
           B == {n \in Nat : n \notin T}
<1>1. B \subseteq Nat /\ B # {}
  OBVIOUS
<1>2. IsWellFoundedOn(R, Nat)
  BY NatLessThanWellFounded
<1> HIDE DEF R, B
<1>3. PICK n \in B : \A y \in B : ~ (<<y, n>> \in R)
  BY <1>1, <1>2, WFMin
<1>4. \A y \in B : y \in Nat /\ ~(y < n)
  BY <1>1, <1>3 DEF R, OpToRel, B
<1>5. n \in Nat /\ n # 0 /\ n \notin T
  BY <1>3 DEF B
<1>6. n - 1 \in Nat /\ n - 1 < n /\ n = (n - 1) + 1
  BY <1>5
<1>7. n - 1 \in T
  BY <1>4, <1>6 DEF B
<1> QED
  BY <1>5, <1>6, <1>7

LEMMA MaxOf ==
  ASSUME NEW n \in Nat \ {0}, NEW S \in SUBSET (1 .. n), n \in S
  PROVE  Max(S) = n
<1> DEFINE IsMax(x) == x \in S /\ \A y \in S : x >= y
<1>1. IsMax(n)
  OBVIOUS
<1>2. IsMax(CHOOSE x : IsMax(x))
  BY <1>1
<1>3. \A x : IsMax(x) => x = n
  OBVIOUS
<1>4. Max(S) = CHOOSE x : IsMax(x)
  BY DEF Max
<1> QED
  BY <1>2, <1>3, <1>4

\* The turns s of the loops are taken one after the other: g[n] is what is known after
\* the first n.
Taking(f, known, s, g) ==
  /\ g[0] = known
  /\ \A n \in 1 .. Len(s) : g[n] = Take(f, s[n], g[n - 1])

Turns == [kind : {"reexport", "wildcard"}, draft : Drafts]

LEMMA FoldTakes ==
  ASSUME NEW f, NEW known, NEW s \in Seq(Turns), s = Loops(f)
  PROVE  \E g : /\ Taking(f, known, s, g)
                /\ g[Len(s)] = PopulateFileClosure(f, known)
<1>1. PICK N \in Nat : N = Len(s) /\ DOMAIN s = 1 .. N
  OBVIOUS
<1> DEFINE Next1(h, S) == IF S = {} THEN known ELSE Take(f, s[Max(S)], h[S \ {Max(S)}])
           Solves(h, n) == h = [S \in SUBSET (1 .. n) |-> Next1(h, S)]
           T == {n \in Nat : \E h : Solves(h, n)}
           all == CHOOSE h : Solves(h, N)
<1>2. 0 \in T
  <2> DEFINE h == [S \in SUBSET (1 .. 0) |-> known]
  <2>1. \A S \in SUBSET (1 .. 0) : S = {}
    OBVIOUS
  <2>2. Solves(h, 0)
    BY <2>1
  <2> QED
    BY <2>2
<1>3. ASSUME NEW n \in Nat, n \in T PROVE n + 1 \in T
  <2>1. PICK h : Solves(h, n)
    BY <1>3
  <2> DEFINE k == [S \in SUBSET (1 .. n + 1) |->
                     IF n + 1 \in S THEN Take(f, s[n + 1], h[S \ {n + 1}]) ELSE h[S]]
  <2>2. ASSUME NEW S \in SUBSET (1 .. n + 1) PROVE k[S] = Next1(k, S)
    <3>1. CASE n + 1 \in S
      <4>1. Max(S) = n + 1 /\ S # {}
        BY <3>1, MaxOf
      <4>2. S \ {n + 1} \in SUBSET (1 .. n + 1) /\ n + 1 \notin S \ {n + 1}
        OBVIOUS
      <4>3. k[S \ {n + 1}] = h[S \ {n + 1}] /\ k[S] = Take(f, s[n + 1], h[S \ {n + 1}])
        BY <3>1, <4>2
      <4> HIDE DEF k
      <4> QED
        BY <4>1, <4>3
    <3>2. CASE n + 1 \notin S
      <4>1. S \in SUBSET (1 .. n) /\ S \ {Max(S)} \in SUBSET (1 .. n + 1) /\ n + 1 \notin S \ {Max(S)}
        <5>1. 1 .. n = (1 .. n + 1) \ {n + 1}
          OBVIOUS
        <5> QED
          BY <3>2, <5>1, Zenon
      <4>2. k[S] = h[S] /\ k[S \ {Max(S)}] = h[S \ {Max(S)}]
        BY <3>2, <4>1
      <4>3. h[S] = Next1(h, S)
        BY <2>1, <4>1
      <4> HIDE DEF k
      <4> QED
        BY <4>2, <4>3
    <3> QED
      BY <3>1, <3>2
  <2>3. k = [S \in SUBSET (1 .. n + 1) |-> k[S]]
    OBVIOUS
  <2>4. Solves(k, n + 1)
    <3> HIDE DEF k
    <3> QED
      BY <2>2, <2>3
  <2> HIDE DEF Solves
  <2> QED
    BY <2>4
<1>4. N \in T
  <2> HIDE DEF T
  <2> QED
    BY <1>2, <1>3, FromZero
<1>5. Solves(all, N)
  <2> HIDE DEF Solves
  <2> QED
    BY <1>4
<1>6. PopulateFileClosure(f, known) = all[1 .. N]
  BY <1>1 DEF PopulateFileClosure, FoldLeft, MapThenFoldSet
<1>7. \A S \in SUBSET (1 .. N) : all[S] = Next1(all, S)
  <2> HIDE DEF all
  <2> QED
    BY <1>5
<1> HIDE DEF all
<1> DEFINE g == [n \in 0 .. N |-> all[1 .. n]]
<1>8. g[0] = known
  <2>1. 1 .. 0 = {} /\ {} \in SUBSET (1 .. N) /\ 0 \in 0 .. N
    OBVIOUS
  <2> QED
    BY <1>7, <2>1
<1>9. ASSUME NEW n \in 1 .. N PROVE g[n] = Take(f, s[n], g[n - 1])
  <2>1. /\ n \in Nat \ {0} /\ 1 .. n \in SUBSET (1 .. N) /\ n \in 1 .. n
        /\ (1 .. n) \ {n} = 1 .. n - 1 /\ n \in 0 .. N /\ n - 1 \in 0 .. N
    OBVIOUS
  <2>2. Max(1 .. n) = n /\ 1 .. n # {}
    BY <2>1, MaxOf
  <2>3. all[1 .. n] = Take(f, s[n], all[1 .. n - 1])
    BY <1>7, <2>1, <2>2
  <2> QED
    BY <2>1, <2>3
<1>10. Taking(f, known, s, g) /\ g[Len(s)] = all[1 .. N]
  <2>1. N \in 0 .. N
    OBVIOUS
  <2>2. g[N] = all[1 .. N]
    BY <2>1
  <2> HIDE DEF g
  <2> QED
    BY <1>1, <1>8, <1>9, <2>2 DEF Taking
<1> HIDE DEF g
<1> QED
  BY <1>6, <1>10

LEMMA MinOf ==
  ASSUME NEW K \in SUBSET Nat, K # {}
  PROVE  Min(K) \in K /\ \A k \in K : Min(K) <= k
<1> DEFINE R == OpToRel(<, Nat)
           IsMin(x) == x \in K /\ \A y \in K : x <= y
<1>1. IsWellFoundedOn(R, Nat)
  BY NatLessThanWellFounded
<1> HIDE DEF R
<1>2. PICK n \in K : \A k \in K : ~ (<<k, n>> \in R)
  BY <1>1, WFMin
<1>3. \A k \in K : k \in Nat /\ n \in Nat /\ ~ (k < n)
  BY <1>2 DEF R, OpToRel
<1>4. IsMin(n)
  BY <1>3
<1>5. IsMin(CHOOSE x : IsMin(x))
  BY <1>4
<1>6. Min(K) = CHOOSE x : IsMin(x)
  BY DEF Min
<1> QED
  BY <1>5, <1>6

-----------------------------------------------------------------------------
(* What the files define and re-export, and what they offer.               *)

Entries == [def : Defs, via : Seq(Files)]
Known == [Files -> [Names -> Entries \cup {NoEntry}]]

\* An import of m from t finds something.
Offered(t, m, known) == Named(t, m) # {} \/ Has(known, t, m)

LEMMA EntriesAre ==
  /\ NoEntry \notin Entries
  /\ \A d \in Defs, t \in Files : [def |-> d, via |-> <<t>>] \in Entries
  /\ \A e \in Entries, t \in Files : [e EXCEPT !.via = <<t>> \o @] \in Entries
<1>1. NoEntry \notin Entries
  BY DEF NoEntry, Entries
<1>2. \A d \in Defs, t \in Files : [def |-> d, via |-> <<t>>] \in Entries
  BY DEF Entries
<1>3. ASSUME NEW e \in Entries, NEW t \in Files PROVE [e EXCEPT !.via = <<t>> \o @] \in Entries
  <2>1. e.via \in Seq(Files) /\ <<t>> \in Seq(Files)
    BY DEF Entries
  <2>2. <<t>> \o e.via \in Seq(Files)
    BY <2>1
  <2> QED
    BY <2>2 DEF Entries
<1> QED
  BY <1>1, <1>2, <1>3

LEMMA DefsAre ==
  ASSUME program \in Programs, NEW t \in Files, NEW n, Named(t, n) # {}
  PROVE  LocalDefs(t)[Min(Named(t, n))] \in Defs /\ FindExportByName(t, n) \in Defs
<1>1. LocalDefs(t) \in Seq(Defs)
  BY ProgramAssumption DEF LocalDefs
<1>2. \A K \in SUBSET Named(t, n) : K # {} => LocalDefs(t)[Min(K)] \in Defs
  <2> SUFFICES ASSUME NEW K \in SUBSET Named(t, n), K # {} PROVE LocalDefs(t)[Min(K)] \in Defs
    OBVIOUS
  <2>1. K \in SUBSET DOMAIN LocalDefs(t) /\ DOMAIN LocalDefs(t) \in SUBSET Nat
    BY <1>1 DEF Named
  <2>2. Min(K) \in DOMAIN LocalDefs(t)
    BY <2>1, MinOf
  <2> QED
    BY <1>1, <2>2
<1> QED
  BY <1>2 DEF FindExportByName

LEMMA SuppliesAre ==
  ASSUME program \in Programs, NEW known \in Known, NEW t \in Files, NEW m \in Names
  PROVE  /\ Supply(t, m, known) \in Entries \cup {NoEntry}
         /\ Supply(t, m, known) # NoEntry <=> Offered(t, m, known)
         /\ WildcardSupply(t, m, known) \in Entries \cup {NoEntry}
         /\ WildcardSupply(t, m, known) # NoEntry <=> Offered(t, m, known)
<1>1. CASE Named(t, m) # {}
  BY <1>1, DefsAre, EntriesAre DEF Supply, WildcardSupply, Offered
<1>2. CASE Named(t, m) = {}
  <2>1. PICK e \in Entries \cup {NoEntry} : e = known[t][m]
    BY DEF Known
  <2>2. Supply(t, m, known) = Via(t, e) /\ WildcardSupply(t, m, known) = Via(t, e)
    BY <1>2, <2>1 DEF Supply, WildcardSupply
  <2>3. Offered(t, m, known) <=> e # NoEntry
    BY <1>2, <2>1 DEF Offered, Has
  <2>4. Via(t, e) \in Entries \cup {NoEntry} /\ (Via(t, e) # NoEntry <=> e # NoEntry)
    BY EntriesAre DEF Via
  <2> QED
    BY <2>2, <2>3, <2>4
<1> QED
  BY <1>1, <1>2

LEMMA OfferIs ==
  ASSUME program \in Programs, NEW known \in Known, NEW l \in Turns, NEW n \in Names
  PROVE  /\ Offer(l, n, known) \in Entries \cup {NoEntry}
         /\ Offer(l, n, known) # NoEntry <=>
              /\ l.draft.kind = l.kind /\ Resolved(l.draft)
              /\ \E m \in Names : Asks(l.draft, n, m) /\ Offered(l.draft.target, m, known)
<1>1. PICK d \in Drafts : d = l.draft
  BY DEF Turns
<1>2. l.kind \in {"reexport", "wildcard"} /\ d.importedName \in Names
  BY DEF Turns, Drafts
<1>3. CASE d.kind # l.kind \/ ~ Resolved(d)
  BY <1>1, <1>3 DEF Offer
<1>4. CASE d.kind = l.kind /\ Resolved(d) /\ l.kind = "wildcard"
  <2>1. d.target \in Files
    BY <1>4 DEF Resolved
  <2>2. Offer(l, n, known) = WildcardSupply(d.target, n, known)
    BY <1>1, <1>4 DEF Offer
  <2>3. \A m \in Names : Asks(d, n, m) <=> m = n
    BY <1>4 DEF Asks
  <2> QED
    BY <1>1, <1>4, <2>1, <2>2, <2>3, SuppliesAre
<1>5. CASE d.kind = l.kind /\ Resolved(d) /\ l.kind = "reexport"
  <2>1. d.target \in Files
    BY <1>5 DEF Resolved
  <2>2. Offer(l, n, known) =
          IF d.localName = n THEN Supply(d.target, d.importedName, known) ELSE NoEntry
    BY <1>1, <1>5 DEF Offer
  <2>3. \A m \in Names : Asks(d, n, m) <=> d.localName = n /\ m = d.importedName
    BY <1>5 DEF Asks
  <2> QED
    BY <1>1, <1>2, <1>5, <2>1, <2>2, <2>3, SuppliesAre
<1> QED
  BY <1>1, <1>2, <1>3, <1>4, <1>5

\* It depends on what is known of the target only.
LEMMA OfferDepends ==
  ASSUME NEW l, NEW n, NEW known, NEW other,
         Resolved(l.draft) => other[l.draft.target] = known[l.draft.target]
  PROVE  Offer(l, n, other) = Offer(l, n, known)
BY DEF Offer, Supply, WildcardSupply

LEMMA TakeIs ==
  ASSUME program \in Programs, NEW known \in Known, NEW l \in Turns, NEW f \in Files
  PROVE  /\ Take(f, l, known) \in Known
         /\ \A h \in Files : h # f => Take(f, l, known)[h] = known[h]
         /\ \A n \in Names : Take(f, l, known)[f][n] =
              IF Has(known, f, n) THEN known[f][n] ELSE Offer(l, n, known)
<1> DEFINE own == [n \in Names |-> IF Has(known, f, n) THEN known[f][n] ELSE Offer(l, n, known)]
<1>1. own \in [Names -> Entries \cup {NoEntry}]
  BY OfferIs DEF Known
<1>2. Take(f, l, known) = [known EXCEPT ![f] = own]
  BY DEF Take
<1>3. \A n \in Names : own[n] = IF Has(known, f, n) THEN known[f][n] ELSE Offer(l, n, known)
  OBVIOUS
<1> HIDE DEF own
<1> QED
  BY <1>1, <1>2, <1>3 DEF Known

LEMMA LoopsAt ==
  ASSUME NEW f \in Files, NEW s \in Seq(Drafts), s = program.drafts[f], NEW N \in Nat, N = Len(s)
  PROVE  /\ Loops(f) \in Seq(Turns) /\ Len(Loops(f)) = N + N /\ DOMAIN Loops(f) = 1 .. N + N
         /\ \A i \in 1 .. N : /\ Loops(f)[i] = [kind |-> "reexport", draft |-> s[i]]
                             /\ Loops(f)[N + i] = [kind |-> "wildcard", draft |-> s[i]]
<1>1. DOMAIN s = 1 .. N /\ \A i \in 1 .. N : s[i] \in Drafts
  BY Element
<1> DEFINE first == [i \in 1 .. N |-> [kind |-> "reexport", draft |-> s[i]]]
           second == [i \in 1 .. N |-> [kind |-> "wildcard", draft |-> s[i]]]
<1>2. Loops(f) = first \o second
  BY <1>1 DEF Loops, LoopsOver
<1>3. first \in Seq(Turns) /\ Len(first) = N /\ second \in Seq(Turns) /\ Len(second) = N
  BY <1>1 DEF Turns
<1>4. \A i \in 1 .. N : /\ first[i] = [kind |-> "reexport", draft |-> s[i]]
                         /\ second[i] = [kind |-> "wildcard", draft |-> s[i]]
  OBVIOUS
<1> HIDE DEF first, second
<1>5. /\ first \o second \in Seq(Turns) /\ Len(first \o second) = N + N
      /\ DOMAIN (first \o second) = 1 .. N + N
      /\ \A i \in 1 .. N + N : (first \o second)[i] = IF i <= N THEN first[i] ELSE second[i - N]
  BY <1>3
<1>6. \A i \in 1 .. N : /\ i \in 1 .. N + N /\ i <= N
                       /\ N + i \in 1 .. N + N /\ ~ (N + i <= N) /\ (N + i) - N = i
  OBVIOUS
<1>7. PICK t : t = first \o second
  OBVIOUS
<1>8. \A i \in 1 .. N + N : t[i] = IF i <= N THEN first[i] ELSE second[i - N]
  BY <1>5, <1>7, Zenon
<1>9. \A i \in 1 .. N : t[i] = first[i] /\ t[N + i] = second[i]
  BY <1>6, <1>8
<1>10. t \in Seq(Turns) /\ Len(t) = N + N /\ DOMAIN t = 1 .. N + N /\ Loops(f) = t
  BY <1>2, <1>5, <1>7, Zenon
<1> QED
  BY <1>4, <1>9, <1>10, Zenon

LEMMA LoopsAre ==
  ASSUME program \in Programs, NEW f \in Files
  PROVE  /\ Loops(f) \in Seq(Turns)
         /\ \A i \in 1 .. Len(Loops(f)) : Loops(f)[i].draft \in Range(program.drafts[f])
         /\ \A d \in Range(program.drafts[f]) : \E i \in 1 .. Len(Loops(f)) :
              Loops(f)[i].kind = d.kind /\ Loops(f)[i].draft = d
<1>1. PICK s \in Seq(Drafts) : s = program.drafts[f]
  BY ProgramAssumption
<1>2. PICK N \in Nat : N = Len(s) /\ DOMAIN s = 1 .. N
  OBVIOUS
<1>3. /\ Loops(f) \in Seq(Turns) /\ Len(Loops(f)) = N + N
      /\ \A i \in 1 .. N : /\ Loops(f)[i] = [kind |-> "reexport", draft |-> s[i]]
                          /\ Loops(f)[N + i] = [kind |-> "wildcard", draft |-> s[i]]
  BY <1>1, <1>2, LoopsAt
<1>4. \A i \in 1 .. N : /\ Loops(f)[i].kind = "reexport" /\ Loops(f)[i].draft = s[i]
                       /\ Loops(f)[N + i].kind = "wildcard" /\ Loops(f)[N + i].draft = s[i]
  <2> SUFFICES ASSUME NEW i \in 1 .. N
               PROVE  /\ Loops(f)[i].kind = "reexport" /\ Loops(f)[i].draft = s[i]
                      /\ Loops(f)[N + i].kind = "wildcard" /\ Loops(f)[N + i].draft = s[i]
    OBVIOUS
  <2>1. /\ Loops(f)[i] = [kind |-> "reexport", draft |-> s[i]]
        /\ Loops(f)[N + i] = [kind |-> "wildcard", draft |-> s[i]]
    BY <1>3, Zenon
  <2> QED
    BY <2>1
<1>5. \A i \in 1 .. N : s[i] \in Range(s)
  BY <1>2 DEF Range
<1>6. ASSUME NEW i \in 1 .. Len(Loops(f)) PROVE Loops(f)[i].draft \in Range(s)
  <2>1. CASE i \in 1 .. N
    BY <1>4, <1>5, <2>1
  <2>2. CASE i \notin 1 .. N
    <3>1. i - N \in 1 .. N /\ i = N + (i - N)
      BY <1>3, <2>2
    <3>2. Loops(f)[N + (i - N)].draft = s[i - N]
      BY <1>4, <3>1
    <3> QED
      BY <1>5, <3>1, <3>2
  <2> QED
    BY <2>1, <2>2
<1>7. ASSUME NEW d \in Range(s)
      PROVE  \E i \in 1 .. Len(Loops(f)) : Loops(f)[i].kind = d.kind /\ Loops(f)[i].draft = d
  <2>1. PICK i \in 1 .. N : d = s[i]
    BY <1>2 DEF Range
  <2>2. d.kind \in {"reexport", "wildcard"}
    <3>1. s[i] \in Drafts
      BY <1>2
    <3> QED
      BY <2>1, <3>1 DEF Drafts
  <2>3. i \in 1 .. Len(Loops(f)) /\ N + i \in 1 .. Len(Loops(f))
    BY <1>3
  <2>4. /\ Loops(f)[i].kind = "reexport" /\ Loops(f)[i].draft = d
        /\ Loops(f)[N + i].kind = "wildcard" /\ Loops(f)[N + i].draft = d
    BY <1>4, <2>1
  <2> QED
    BY <2>2, <2>3, <2>4
<1> QED
  BY <1>1, <1>3, <1>6, <1>7

-----------------------------------------------------------------------------
(* A call of populateFileClosure, turn by turn.                            *)

LEMMA Populating ==
  ASSUME program \in Programs, NEW f \in Files, NEW known \in Known
  PROVE  \E g : /\ Taking(f, known, Loops(f), g)
                /\ g[Len(Loops(f))] = PopulateFileClosure(f, known)
<1>1. Loops(f) \in Seq(Turns)
  BY LoopsAre
<1> QED
  BY <1>1, FoldTakes

\* A turn adds to the closure of f only, and changes nothing that is there.
LEMMA Turned ==
  ASSUME program \in Programs, NEW f \in Files, NEW known \in Known,
         NEW g, Taking(f, known, Loops(f), g),
         NEW i \in 1 .. Len(Loops(f)), g[i - 1] \in Known
  PROVE  /\ g[i] \in Known /\ Loops(f)[i] \in Turns
         /\ \A h \in Files : h # f => g[i][h] = g[i - 1][h]
         /\ \A n \in Names : g[i][f][n] =
              IF Has(g[i - 1], f, n) THEN g[i - 1][f][n] ELSE Offer(Loops(f)[i], n, g[i - 1])
<1>1. Loops(f)[i] \in Turns
  BY LoopsAre
<1>2. g[i] = Take(f, Loops(f)[i], g[i - 1])
  BY DEF Taking
<1> QED
  BY <1>1, <1>2, TakeIs

LEMMA TurnsKeep ==
  ASSUME program \in Programs, NEW f \in Files, NEW known \in Known,
         NEW g, Taking(f, known, Loops(f), g)
  PROVE  \A i \in 0 .. Len(Loops(f)) :
           /\ g[i] \in Known
           /\ \A h \in Files : h # f => g[i][h] = known[h]
           /\ \A j \in 0 .. i, n \in Names : Has(g[j], f, n) => g[i][f][n] = g[j][f][n]
<1>1. PICK N \in Nat : N = Len(Loops(f))
  BY LoopsAre
<1> DEFINE Kept(i) == /\ g[i] \in Known
                      /\ \A h \in Files : h # f => g[i][h] = known[h]
                      /\ \A j \in 0 .. i, n \in Names : Has(g[j], f, n) => g[i][f][n] = g[j][f][n]
           T == {i \in Nat : i <= N => Kept(i)}
<1>2. 0 \in T
  <2>1. g[0] = known /\ \A j \in 0 .. 0 : j = 0
    BY DEF Taking
  <2> QED
    BY <2>1
<1>3. ASSUME NEW i \in Nat, i \in T PROVE i + 1 \in T
  <2> SUFFICES ASSUME i + 1 <= N PROVE Kept(i + 1)
    OBVIOUS
  <2>1. Kept(i) /\ i + 1 \in 1 .. Len(Loops(f)) /\ (i + 1) - 1 = i
    BY <1>1, <1>3
  <2>2. /\ g[i + 1] \in Known
        /\ \A h \in Files : h # f => g[i + 1][h] = g[i][h]
        /\ \A n \in Names : Has(g[i], f, n) => g[i + 1][f][n] = g[i][f][n]
    BY <2>1, Turned
  <2>3. ASSUME NEW j \in 0 .. i + 1, NEW n \in Names, Has(g[j], f, n)
        PROVE  g[i + 1][f][n] = g[j][f][n]
    <3>1. CASE j = i + 1
      BY <3>1
    <3>2. CASE j # i + 1
      <4>1. j \in 0 .. i
        BY <3>2
      <4>2. g[i][f][n] = g[j][f][n]
        BY <2>1, <2>3, <4>1
      <4>3. Has(g[i], f, n)
        BY <2>3, <4>2 DEF Has
      <4> QED
        BY <2>2, <4>2, <4>3
    <3> QED
      BY <3>1, <3>2
  <2> QED
    BY <2>1, <2>2, <2>3
<1>4. \A i \in Nat : i \in T
  <2> HIDE DEF T
  <2> QED
    BY <1>2, <1>3, FromZero
<1>5. \A i \in 0 .. N : i \in Nat /\ i <= N
  OBVIOUS
<1> QED
  BY <1>1, <1>4, <1>5

\* What the closure of f has gained was offered in a turn; what was offered in a turn it has.
LEMMA PopulateGives ==
  ASSUME program \in Programs, NEW f \in Files, NEW known \in Known
  PROVE  /\ PopulateFileClosure(f, known) \in Known
         /\ \A h \in Files : h # f => PopulateFileClosure(f, known)[h] = known[h]
         /\ \A n \in Names : Has(known, f, n) => PopulateFileClosure(f, known)[f][n] = known[f][n]
<1>1. PICK g : Taking(f, known, Loops(f), g) /\ g[Len(Loops(f))] = PopulateFileClosure(f, known)
  BY Populating
<1>2. Len(Loops(f)) \in Nat
  BY LoopsAre
<1>3. Len(Loops(f)) \in 0 .. Len(Loops(f)) /\ 0 \in 0 .. Len(Loops(f)) /\ g[0] = known
  BY <1>1, <1>2 DEF Taking
<1> QED
  BY <1>1, <1>3, TurnsKeep

\* Sets that obey the rules have all that is found.
Within(known, E) == \A f \in Files, n \in Names : Has(known, f, n) => <<f, n>> \in E

LEMMA PopulateSound ==
  ASSUME program \in Programs, NEW f \in Files, NEW known \in Known,
         NEW E, Exporting(E), Within(known, E)
  PROVE  Within(PopulateFileClosure(f, known), E)
<1>1. PICK g : Taking(f, known, Loops(f), g) /\ g[Len(Loops(f))] = PopulateFileClosure(f, known)
  BY Populating
<1>2. PICK N \in Nat : N = Len(Loops(f))
  BY LoopsAre
<1> DEFINE T == {i \in Nat : i <= N => Within(g[i], E)}
<1>3. 0 \in T
  BY <1>1 DEF Taking
<1>4. ASSUME NEW i \in Nat, i \in T PROVE i + 1 \in T
  <2> SUFFICES ASSUME i + 1 <= N PROVE Within(g[i + 1], E)
    OBVIOUS
  <2>1. Within(g[i], E) /\ i + 1 \in 1 .. Len(Loops(f)) /\ (i + 1) - 1 = i /\ i \in 0 .. Len(Loops(f))
    BY <1>2, <1>4
  <2>2. g[i] \in Known
    BY <1>1, <2>1, TurnsKeep
  <2>3. PICK l \in Turns : l = Loops(f)[i + 1]
    BY <2>1, LoopsAre
  <2>4. /\ \A h \in Files : h # f => g[i + 1][h] = g[i][h]
        /\ \A n \in Names : g[i + 1][f][n] = IF Has(g[i], f, n) THEN g[i][f][n] ELSE Offer(l, n, g[i])
    BY <1>1, <2>1, <2>2, <2>3, Turned
  <2>5. ASSUME NEW n \in Names, Offer(l, n, g[i]) # NoEntry PROVE <<f, n>> \in E
    <3>1. PICK m \in Names : /\ Resolved(l.draft) /\ Asks(l.draft, n, m)
                             /\ Offered(l.draft.target, m, g[i])
      BY <2>2, <2>5, OfferIs
    <3>2. l.draft \in Range(program.drafts[f])
      BY <2>1, <2>3, LoopsAre
    <3>3. Named(l.draft.target, m) # {} \/ <<l.draft.target, m>> \in E
      BY <2>1, <3>1 DEF Offered, Resolved, Within
    <3> QED
      BY <3>1, <3>2, <3>3 DEF Exporting, Resolved
  <2>6. ASSUME NEW h \in Files, NEW n \in Names, Has(g[i + 1], h, n) PROVE <<h, n>> \in E
    <3>1. CASE Has(g[i], h, n)
      BY <2>1, <3>1 DEF Within
    <3>2. CASE ~ Has(g[i], h, n)
      <4>1. h = f
        BY <2>4, <2>6, <3>2 DEF Has
      <4>2. Offer(l, n, g[i]) # NoEntry
        BY <2>4, <2>6, <3>2, <4>1 DEF Has
      <4> QED
        BY <2>5, <4>1, <4>2
    <3> QED
      BY <3>1, <3>2
  <2> QED
    BY <2>6 DEF Within
<1>5. N \in T
  <2> HIDE DEF T
  <2> QED
    BY <1>3, <1>4, FromZero
<1> QED
  BY <1>1, <1>2, <1>5

\* No re-export of f can give it a name that it has not.
ClosedFor(f, n, known) ==
  \A d \in Range(program.drafts[f]), m \in Names :
    Resolved(d) /\ Asks(d, n, m) /\ Offered(d.target, m, known) => Has(known, f, n)

\* What f re-exports from itself keeps its name.
SelfKeepsNames(f) == \A d \in Range(program.drafts[f]) : d.target = f => ~ Renames(d)

LEMMA AsksSame == \A d, n, m : ~ Renames(d) /\ Asks(d, n, m) => n = m
BY DEF Renames, Asks

LEMMA PopulateCloses ==
  ASSUME program \in Programs, NEW f \in Files, NEW known \in Known, SelfKeepsNames(f), NEW n \in Names
  PROVE  ClosedFor(f, n, PopulateFileClosure(f, known))
<1>1. PICK g : Taking(f, known, Loops(f), g) /\ g[Len(Loops(f))] = PopulateFileClosure(f, known)
  BY Populating
<1>2. PICK N \in Nat : N = Len(Loops(f))
  BY LoopsAre
<1> SUFFICES ASSUME NEW d \in Range(program.drafts[f]), NEW m \in Names,
                    Resolved(d), Asks(d, n, m), Offered(d.target, m, g[N]), ~ Has(g[N], f, n)
             PROVE  FALSE
  BY <1>1, <1>2 DEF ClosedFor
<1>3. PICK i \in 1 .. Len(Loops(f)) : Loops(f)[i].kind = d.kind /\ Loops(f)[i].draft = d
  BY LoopsAre
<1>4. /\ i - 1 \in 0 .. Len(Loops(f)) /\ i \in 0 .. Len(Loops(f)) /\ N \in 0 .. Len(Loops(f))
      /\ i - 1 \in 0 .. N /\ i \in 0 .. N
  BY <1>2, <1>3
<1>5. /\ g[i - 1] \in Known
      /\ \A h \in Files : h # f => g[i - 1][h] = g[N][h]
      /\ ~ Has(g[i - 1], f, n) /\ ~ Has(g[i], f, n)
  BY <1>1, <1>4, TurnsKeep DEF Has
<1>6. Loops(f)[i] \in Turns /\ Offer(Loops(f)[i], n, g[i - 1]) = NoEntry
  BY <1>1, <1>3, <1>5, Turned DEF Has
<1>7. ~ Offered(d.target, m, g[i - 1])
  BY <1>3, <1>5, <1>6, OfferIs
<1>8. CASE d.target # f
  BY <1>5, <1>7, <1>8 DEF Offered, Has, Resolved
<1>9. CASE d.target = f
  <2>1. m = n
    BY <1>9, AsksSame DEF SelfKeepsNames
  <2> QED
    BY <1>7, <1>9, <2>1 DEF Offered
<1> QED
  BY <1>8, <1>9

LEMMA PopulateKeeps ==
  ASSUME program \in Programs, NEW f \in Files, NEW known \in Known, SelfKeepsNames(f),
         NEW n \in Names, ClosedFor(f, n, known)
  PROVE  PopulateFileClosure(f, known)[f][n] = known[f][n]
<1>1. CASE Has(known, f, n)
  BY <1>1, PopulateGives
<1>2. CASE ~ Has(known, f, n)
  <2>1. PICK g : Taking(f, known, Loops(f), g) /\ g[Len(Loops(f))] = PopulateFileClosure(f, known)
    BY Populating
  <2>2. PICK N \in Nat : N = Len(Loops(f))
    BY LoopsAre
  <2> DEFINE T == {i \in Nat : i <= N => ~ Has(g[i], f, n)}
  <2>3. 0 \in T
    BY <1>2, <2>1 DEF Taking
  <2>4. ASSUME NEW i \in Nat, i \in T PROVE i + 1 \in T
    <3> SUFFICES ASSUME i + 1 <= N, Has(g[i + 1], f, n) PROVE FALSE
      OBVIOUS
    <3>1. ~ Has(g[i], f, n)
      BY <2>4
    <3>2. i + 1 \in 1 .. Len(Loops(f)) /\ (i + 1) - 1 = i /\ i \in 0 .. Len(Loops(f))
      BY <2>2
    <3>3. g[i] \in Known /\ \A h \in Files : h # f => g[i][h] = known[h]
      BY <2>1, <3>2, TurnsKeep
    <3>4. PICK l \in Turns : l = Loops(f)[i + 1]
      BY <3>2, LoopsAre
    <3>5. Offer(l, n, g[i]) # NoEntry
      BY <2>1, <3>1, <3>2, <3>3, <3>4, Turned DEF Has
    <3>6. PICK m \in Names : /\ Resolved(l.draft) /\ Asks(l.draft, n, m)
                             /\ Offered(l.draft.target, m, g[i])
      BY <3>3, <3>5, OfferIs
    <3>7. l.draft \in Range(program.drafts[f])
      BY <3>2, <3>4, LoopsAre
    <3>8. CASE l.draft.target # f
      <4>1. Offered(l.draft.target, m, known)
        BY <3>3, <3>6, <3>8 DEF Offered, Has, Resolved
      <4> QED
        BY <1>2, <3>6, <3>7, <4>1 DEF ClosedFor
    <3>9. CASE l.draft.target = f
      <4>1. m = n
        BY <3>6, <3>7, <3>9, AsksSame DEF SelfKeepsNames
      <4>2. Offered(f, m, known)
        BY <3>1, <3>6, <3>9, <4>1 DEF Offered
      <4> QED
        BY <1>2, <3>6, <3>7, <3>9, <4>2 DEF ClosedFor
    <3> QED
      BY <3>8, <3>9
  <2>5. N \in T
    <3> HIDE DEF T
    <3> QED
      BY <2>3, <2>4, FromZero
  <2>6. ~ Has(PopulateFileClosure(f, known), f, n)
    BY <2>1, <2>2, <2>5
  <2> QED
    BY <1>2, <2>6 DEF Has
<1> QED
  BY <1>1, <1>2

\* What the turns of the loops over f offer for n, and the first that offers something.
Offers(f, n, known) == [i \in DOMAIN Loops(f) |-> Offer(Loops(f)[i], n, known)]

FirstTurn(f, n, known) ==
  LET offers == Offers(f, n, known)
      giving == {i \in DOMAIN offers : offers[i] # NoEntry}
  IN  IF giving = {} THEN NoEntry ELSE offers[Min(giving)]

LEMMA LeastIs ==
  ASSUME NEW K \in SUBSET Nat, NEW k \in K, \A j \in K : k <= j
  PROVE  Min(K) = k
<1>1. PICK m \in K : m = Min(K) /\ m <= k
  BY MinOf
<1>2. m \in Nat /\ k \in Nat /\ m <= k /\ k <= m
  BY <1>1
<1>3. m = k
  BY <1>2
<1> QED
  BY <1>1, <1>3

\* The first turn is that of the first named re-export, or else of the first wildcard.
LEMMA FirstIs ==
  ASSUME program \in Programs, NEW f \in Files, NEW n, NEW known
  PROVE  FirstOffer(f, n, known) = FirstTurn(f, n, known)
<1>1. PICK s \in Seq(Drafts) : s = program.drafts[f]
  BY ProgramAssumption
<1>2. PICK N \in Nat : N = Len(s) /\ DOMAIN s = 1 .. N
  OBVIOUS
<1> DEFINE Given1(i) == Offer([kind |-> "reexport", draft |-> s[i]], n, known)
           Given2(i) == Offer([kind |-> "wildcard", draft |-> s[i]], n, known)
           offers == Offers(f, n, known)
           giving == {i \in DOMAIN offers : offers[i] # NoEntry}
           named == {i \in 1 .. N : Given1(i) # NoEntry}
           wildcards == {i \in 1 .. N : Given2(i) # NoEntry}
<1>3. /\ DOMAIN offers = 1 .. N + N
      /\ \A i \in 1 .. N : offers[i] = Given1(i) /\ offers[N + i] = Given2(i)
  <2>1. /\ Len(Loops(f)) = N + N /\ DOMAIN Loops(f) = 1 .. N + N
        /\ \A i \in 1 .. N : /\ Loops(f)[i] = [kind |-> "reexport", draft |-> s[i]]
                            /\ Loops(f)[N + i] = [kind |-> "wildcard", draft |-> s[i]]
    BY <1>1, <1>2, LoopsAt
  <2>2. \A i \in 1 .. N : i \in 1 .. N + N /\ N + i \in 1 .. N + N
    OBVIOUS
  <2> QED
    BY <2>1, <2>2 DEF Offers
<1>4. Giving(f, "reexport", n, known) = named /\ Giving(f, "wildcard", n, known) = wildcards
  BY <1>1, <1>2 DEF Giving
<1> HIDE DEF Given1, Given2, offers
<1>5. FirstTurn(f, n, known) = IF giving = {} THEN NoEntry ELSE offers[Min(giving)]
  BY DEF FirstTurn, offers
<1>6. \A i \in 1 .. N + N : i \in 1 .. N \/ (i - N \in 1 .. N /\ i = N + (i - N))
  OBVIOUS
<1>7. CASE named # {}
  <2>1. PICK k \in named : k = Min(named) /\ \A j \in named : k <= j
    <3>1. named \in SUBSET Nat
      OBVIOUS
    <3> HIDE DEF named
    <3> QED
      BY <1>7, <3>1, MinOf
  <2>2. k \in 1 .. N /\ Given1(k) # NoEntry
    BY <2>1
  <2>3. k \in giving
    <3>1. k \in 1 .. N + N
      BY <2>2
    <3> QED
      BY <1>3, <2>2, <3>1
  <2>4. ASSUME NEW j \in giving PROVE k <= j
    <3>1. j \in 1 .. N + N /\ offers[j] # NoEntry
      BY <1>3
    <3>2. CASE j \in 1 .. N
      BY <1>3, <2>1, <3>1, <3>2
    <3>3. CASE j \notin 1 .. N
      BY <2>2, <3>1, <3>3
    <3> QED
      BY <3>2, <3>3
  <2>5. giving \in SUBSET Nat
    BY <1>3
  <2>6. Min(giving) = k
    <3> HIDE DEF giving
    <3> QED
      BY <2>3, <2>4, <2>5, LeastIs
  <2>7. FirstTurn(f, n, known) = Given1(k)
    BY <1>3, <1>5, <2>2, <2>3, <2>6
  <2>8. FirstOffer(f, n, known) = Given1(k)
    BY <1>1, <1>4, <1>7, <2>1 DEF FirstOffer, Given1
  <2> QED
    BY <2>7, <2>8
<1>8. CASE named = {} /\ wildcards # {}
  <2>1. PICK k \in wildcards : k = Min(wildcards) /\ \A j \in wildcards : k <= j
    <3>1. wildcards \in SUBSET Nat
      OBVIOUS
    <3> HIDE DEF wildcards
    <3> QED
      BY <1>8, <3>1, MinOf
  <2>2. k \in 1 .. N /\ Given2(k) # NoEntry
    BY <2>1
  <2>3. N + k \in giving
    <3>1. N + k \in 1 .. N + N
      BY <2>2
    <3> QED
      BY <1>3, <2>2, <3>1
  <2>4. ASSUME NEW j \in giving PROVE N + k <= j
    <3>1. j \in 1 .. N + N /\ offers[j] # NoEntry
      BY <1>3
    <3>2. j \notin 1 .. N
      BY <1>3, <1>8, <3>1
    <3>3. j - N \in 1 .. N /\ j = N + (j - N)
      BY <1>6, <3>1, <3>2
    <3>4. j - N \in wildcards
      <4>1. offers[N + (j - N)] = Given2(j - N)
        BY <1>3, <3>3
      <4> QED
        BY <3>1, <3>3, <4>1
    <3>5. k <= j - N
      BY <2>1, <3>4
    <3> QED
      BY <2>2, <3>1, <3>5
  <2>5. giving \in SUBSET Nat
    BY <1>3
  <2>6. Min(giving) = N + k
    <3> HIDE DEF giving
    <3> QED
      BY <2>3, <2>4, <2>5, LeastIs
  <2>7. FirstTurn(f, n, known) = Given2(k)
    BY <1>3, <1>5, <2>2, <2>3, <2>6
  <2>8. FirstOffer(f, n, known) = Given2(k)
    BY <1>1, <1>4, <1>8, <2>1 DEF FirstOffer, Given2
  <2> QED
    BY <2>7, <2>8
<1>9. CASE named = {} /\ wildcards = {}
  <2>1. giving = {}
    <3> SUFFICES ASSUME NEW i \in giving PROVE FALSE
      OBVIOUS
    <3>1. i \in 1 .. N + N /\ offers[i] # NoEntry
      BY <1>3
    <3>2. i \notin 1 .. N
      BY <1>3, <1>9, <3>1
    <3>3. i - N \in 1 .. N /\ i = N + (i - N)
      BY <1>6, <3>1, <3>2
    <3>4. offers[N + (i - N)] = Given2(i - N)
      BY <1>3, <3>3
    <3> QED
      BY <1>9, <3>1, <3>3, <3>4
  <2>2. FirstOffer(f, n, known) = NoEntry
    BY <1>4, <1>9 DEF FirstOffer
  <2> QED
    BY <1>5, <2>1, <2>2
<1> QED
  BY <1>7, <1>8, <1>9

LEMMA OffersDepend ==
  ASSUME program \in Programs, NEW f \in Files, NEW n, NEW known, NEW other,
         \A d \in Range(program.drafts[f]) : Resolved(d) => other[d.target] = known[d.target]
  PROVE  Offers(f, n, other) = Offers(f, n, known) /\ FirstTurn(f, n, other) = FirstTurn(f, n, known)
<1>1. DOMAIN Loops(f) = 1 .. Len(Loops(f))
  BY LoopsAre
<1>2. \A i \in DOMAIN Loops(f) : Offer(Loops(f)[i], n, other) = Offer(Loops(f)[i], n, known)
  BY <1>1, LoopsAre, OfferDepends
<1>3. Offers(f, n, other) = Offers(f, n, known)
  BY <1>2 DEF Offers
<1> QED
  BY <1>3 DEF FirstTurn

LEMMA PopulateFirst ==
  ASSUME program \in Programs, NEW f \in Files, NEW known \in Known, NEW n \in Names,
         ~ Has(known, f, n),
         \A d \in Range(program.drafts[f]) : d.target # f
  PROVE  PopulateFileClosure(f, known)[f][n] = FirstTurn(f, n, PopulateFileClosure(f, known))
<1>1. PICK g : Taking(f, known, Loops(f), g) /\ g[Len(Loops(f))] = PopulateFileClosure(f, known)
  BY Populating
<1>2. PICK N \in Nat : N = Len(Loops(f)) /\ DOMAIN Loops(f) = 1 .. N
  BY LoopsAre
<1> DEFINE offers == Offers(f, n, g[N])
           giving == {i \in DOMAIN offers : offers[i] # NoEntry}
<1>3. DOMAIN offers = 1 .. N /\ \A i \in 1 .. N : offers[i] = Offer(Loops(f)[i], n, g[N])
  BY <1>2 DEF Offers
<1>4. ASSUME NEW i \in 1 .. N
      PROVE  g[i][f][n] = IF Has(g[i - 1], f, n) THEN g[i - 1][f][n] ELSE offers[i]
  <2>1. /\ i \in 1 .. Len(Loops(f)) /\ i - 1 \in 0 .. Len(Loops(f)) /\ N \in 0 .. Len(Loops(f))
    BY <1>2
  <2>2. g[i - 1] \in Known /\ \A h \in Files : h # f => g[i - 1][h] = g[N][h]
    BY <1>1, <2>1, TurnsKeep
  <2>3. Loops(f)[i].draft \in Range(program.drafts[f])
    BY <2>1, LoopsAre
  <2>4. Offer(Loops(f)[i], n, g[i - 1]) = offers[i]
    <3>1. Resolved(Loops(f)[i].draft) =>
            g[i - 1][Loops(f)[i].draft.target] = g[N][Loops(f)[i].draft.target]
      BY <2>2, <2>3 DEF Resolved
    <3> QED
      BY <1>3, <3>1, OfferDepends
  <2> HIDE DEF offers
  <2> QED
    BY <1>1, <2>1, <2>2, <2>4, Turned
<1> HIDE DEF offers
<1> DEFINE T == {i \in Nat : i <= N /\ (\A j \in 1 .. i : offers[j] = NoEntry) => ~ Has(g[i], f, n)}
<1>5. 0 \in T
  BY <1>1 DEF Taking
<1>6. ASSUME NEW i \in Nat, i \in T PROVE i + 1 \in T
  <2> SUFFICES ASSUME i + 1 <= N, \A j \in 1 .. i + 1 : offers[j] = NoEntry
               PROVE  ~ Has(g[i + 1], f, n)
    OBVIOUS
  <2>1. i + 1 \in 1 .. N /\ (i + 1) - 1 = i /\ i <= N /\ i + 1 \in 1 .. i + 1
    OBVIOUS
  <2>2. \A j \in 1 .. i : j \in 1 .. i + 1
    OBVIOUS
  <2>3. ~ Has(g[i], f, n)
    BY <1>6, <2>1, <2>2
  <2>4. g[i + 1][f][n] = offers[i + 1] /\ offers[i + 1] = NoEntry
    BY <1>4, <2>1, <2>3
  <2> QED
    BY <2>4 DEF Has
<1>7. \A i \in Nat : i \in T
  <2> HIDE DEF T
  <2> QED
    BY <1>5, <1>6, FromZero
<1>8. CASE giving = {}
  <2>1. \A j \in 1 .. N : offers[j] = NoEntry
    BY <1>3, <1>8
  <2>2. ~ Has(g[N], f, n)
    BY <1>7, <2>1
  <2>3. FirstTurn(f, n, g[N]) = NoEntry
    BY <1>8 DEF FirstTurn, offers
  <2> QED
    BY <1>1, <1>2, <2>2, <2>3 DEF Has
<1>9. CASE giving # {}
  <2>1. giving \in SUBSET Nat
    BY <1>3
  <2>2. PICK k \in giving : k = Min(giving) /\ \A j \in giving : k <= j
    <3> HIDE DEF giving
    <3> QED
      BY <1>9, <2>1, MinOf
  <2>3. k \in 1 .. N /\ offers[k] # NoEntry /\ \A j \in 1 .. N : offers[j] # NoEntry => k <= j
    BY <1>3, <2>2
  <2>4. k - 1 \in Nat /\ k - 1 <= N /\ \A j \in 1 .. k - 1 : j \in 1 .. N /\ ~ (k <= j)
    BY <2>3
  <2>5. ~ Has(g[k - 1], f, n)
    BY <1>7, <2>3, <2>4
  <2>6. g[k][f][n] = offers[k]
    BY <1>4, <2>3, <2>5
  <2>7. k \in 0 .. N /\ N \in 0 .. Len(Loops(f))
    BY <1>2, <2>3
  <2>8. g[N][f][n] = offers[k]
    BY <1>1, <2>3, <2>6, <2>7, TurnsKeep DEF Has
  <2>9. FirstTurn(f, n, g[N]) = offers[k]
    BY <1>9, <2>2 DEF FirstTurn, offers
  <2> QED
    BY <1>1, <1>2, <2>8, <2>9
<1> QED
  BY <1>8, <1>9

\* Being closed depends on what is known of f and of what it re-exports from, and when
\* names are kept, on what is known of one name.
LEMMA ClosedDepends ==
  ASSUME NEW f \in Files, NEW n, NEW known, NEW other, ClosedFor(f, n, known),
         other[f] = known[f],
         \A d \in Range(program.drafts[f]) : Resolved(d) => other[d.target] = known[d.target]
  PROVE  ClosedFor(f, n, other)
BY DEF ClosedFor, Offered, Has

LEMMA ClosedDependsOnName ==
  ASSUME NEW f \in Files, NEW n, NEW known, NEW other, ClosedFor(f, n, known),
         other[f][n] = known[f][n],
         \A d \in Range(program.drafts[f]) :
           ~ Renames(d) /\ (Resolved(d) => other[d.target][n] = known[d.target][n])
  PROVE  ClosedFor(f, n, other)
BY AsksSame DEF ClosedFor, Offered, Has

-----------------------------------------------------------------------------
(* The loop over the components: what holds between its steps.             *)

Of(i) == Members(sccs[i].files)

\* A component has a file, and more than one only in a cycle; no file is in two of them,
\* and what a file re-exports from is in its own or an earlier one.
Shape ==
  \A i \in DOMAIN sccs :
    /\ Len(sccs[i].files) >= 1
    /\ ~ sccs[i].isCycle => Len(sccs[i].files) = 1 /\ \A f \in Of(i) : f \notin graph[f]
    /\ \A f \in Of(i) : \A c \in graph[f] : \E j \in 1 .. i : c \in Of(j)
    /\ \A j \in DOMAIN sccs : i # j => Of(i) \cap Of(j) = {}

Nothing == \A f \in Files, n \in Names : ~ Has(closures, f, n)

LoopTypes ==
  /\ program \in Programs /\ graph = SubGraph
  /\ closures \in Known
  /\ scc \in Nat \ {0} /\ turn \in Nat \ {0} /\ iter \in Nat \ {0} /\ progressed \in BOOLEAN
  /\ scc <= Len(sccs) + 1
  /\ scc \in DOMAIN sccs => turn <= Len(sccs[scc].files) /\ iter <= Cap(sccs[scc])

NotBegun == ~ Searched => scc = 1 /\ turn = 1 /\ iter = 1 /\ ~ progressed /\ Nothing

\* Nothing is in a closure that the rules of the language do not export.
Sound == \A E \in SUBSET (Files \X Names) : Exporting(E) => Within(closures, E)

\* Outside of cycles a file is looked at once.
Untouched ==
  \A f \in Files \ Processed : ~ InCycle(f) => \A n \in Names : ~ Has(closures, f, n)

\* A component that is done stays as it is: what it depends on was done before.
Settled ==
  \A f \in Processed, n \in Names :
    /\ ~ InCycle(f) => closures[f][n] = FirstTurn(f, n, closures)
    /\ KeepsNames => ClosedFor(f, n, closures)

ClosedUpto(c, k, n, known) == \A i \in 1 .. k : ClosedFor(c.files[i], n, known)
Holders(c, n, known) == {i \in DOMAIN c.files : Has(known, c.files[i], n)}

\* After k files of a pass over a cycle: n has gone all the way round, or one file more has
\* it for every pass, the present one counted unless the k files had no use for it.
Passed(c, k, pass, n, known) ==
  \/ ClosedUpto(c, Len(c.files), n, known)
  \/ pass <= Cardinality(Holders(c, n, known))
  \/ pass - 1 <= Cardinality(Holders(c, n, known)) /\ ClosedUpto(c, k, n, known)

Passing ==
  scc \in DOMAIN sccs /\ sccs[scc].isCycle /\ KeepsNames =>
    \A n \in Names :
      /\ ~ progressed => ClosedUpto(sccs[scc], turn - 1, n, closures)
      /\ Passed(sccs[scc], turn - 1, iter, n, closures)

LoopInv == LoopTypes /\ NotBegun /\ Sound /\ Untouched /\ Settled /\ Passing

IInv == SearchInv /\ Shape /\ LoopInv

-----------------------------------------------------------------------------
(* Passes over a cycle whose files keep the names.                         *)

LEMMA HoldersAre ==
  ASSUME NEW c \in [files : Seq(Files), isCycle : BOOLEAN], NEW n, NEW known
  PROVE  /\ IsFiniteSet(Holders(c, n, known))
         /\ Cardinality(Holders(c, n, known)) \in Nat
         /\ Cardinality(Holders(c, n, known)) <= Len(c.files)
<1>1. PICK N \in Nat : N = Len(c.files) /\ DOMAIN c.files = 1 .. N
  OBVIOUS
<1>2. IsFiniteSet(1 .. N) /\ Cardinality(1 .. N) = N
  <2>1. 1 \in Int /\ N \in Int /\ (IF 1 > N THEN 0 ELSE N - 1 + 1) = N
    OBVIOUS
  <2> QED
    BY <2>1, FS_Interval
<1>3. Holders(c, n, known) \subseteq 1 .. N
  BY <1>1 DEF Holders
<1>4. IsFiniteSet(Holders(c, n, known)) /\ Cardinality(Holders(c, n, known)) <= Cardinality(1 .. N)
  BY <1>2, <1>3, FS_Subset
<1> QED
  BY <1>1, <1>2, <1>4, FS_CardinalityType

LEMMA HoldersGrow ==
  ASSUME NEW c \in [files : Seq(Files), isCycle : BOOLEAN], NEW n, NEW known, NEW other,
         Holders(c, n, known) \subseteq Holders(c, n, other)
  PROVE  /\ Cardinality(Holders(c, n, known)) <= Cardinality(Holders(c, n, other))
         /\ \A i \in Holders(c, n, other) \ Holders(c, n, known) :
              Cardinality(Holders(c, n, known)) + 1 <= Cardinality(Holders(c, n, other))
<1> DEFINE old == Holders(c, n, known)
           new == Holders(c, n, other)
<1>1. IsFiniteSet(old) /\ IsFiniteSet(new) /\ Cardinality(old) \in Nat /\ Cardinality(new) \in Nat
  BY HoldersAre
<1> HIDE DEF old, new
<1>2. old \subseteq new
  BY DEF old, new
<1>3. Cardinality(old) <= Cardinality(new)
  BY <1>1, <1>2, FS_Subset
<1>4. ASSUME NEW i \in new \ old PROVE Cardinality(old) + 1 <= Cardinality(new)
  <2>1. IsFiniteSet(old \cup {i}) /\ Cardinality(old \cup {i}) = Cardinality(old) + 1
    BY <1>1, FS_AddElement
  <2>2. old \cup {i} \subseteq new
    BY <1>2
  <2>3. Cardinality(old \cup {i}) <= Cardinality(new)
    BY <1>1, <2>2, FS_Subset
  <2> QED
    BY <2>1, <2>3
<1> QED
  BY <1>3, <1>4 DEF old, new

\* Every turn of a pass adds a holder, or finds another file closed.
LEMMA PassTurn ==
  ASSUME program \in Programs, NEW known \in Known,
         NEW c \in [files : Seq(Files), isCycle : BOOLEAN],
         \A f \in Members(c.files) : \A d \in Range(program.drafts[f]) : ~ Renames(d),
         NEW t \in 1 .. Len(c.files), NEW pass \in Nat, NEW n \in Names,
         Passed(c, t - 1, pass, n, known)
  PROVE  Passed(c, t, pass, n, PopulateFileClosure(c.files[t], known))
<1>1. PICK N \in Nat : N = Len(c.files) /\ DOMAIN c.files = 1 .. N /\ \A i \in 1 .. N : c.files[i] \in Files
  BY Element
<1>2. PICK h \in Files : h = c.files[t]
  BY <1>1
<1>3. \A i \in 1 .. N : c.files[i] \in Members(c.files)
  BY <1>1 DEF Members
<1>4. SelfKeepsNames(h)
  BY <1>1, <1>2, <1>3 DEF SelfKeepsNames
<1> DEFINE other == PopulateFileClosure(h, known)
<1>5. /\ other \in Known /\ ClosedFor(h, n, other)
      /\ \A f \in Files : f # h => other[f] = known[f]
      /\ Has(known, h, n) => other[h][n] = known[h][n]
      /\ ClosedFor(h, n, known) => other[h][n] = known[h][n]
  BY <1>4, PopulateGives, PopulateCloses, PopulateKeeps
<1> HIDE DEF other
<1>6. Holders(c, n, known) \subseteq Holders(c, n, other)
  BY <1>1, <1>5 DEF Holders, Has
<1>7. /\ Cardinality(Holders(c, n, known)) \in Nat /\ Cardinality(Holders(c, n, other)) \in Nat
      /\ Cardinality(Holders(c, n, known)) <= Cardinality(Holders(c, n, other))
  BY <1>6, HoldersAre, HoldersGrow
<1>8. CASE other[h][n] = known[h][n]
  <2>1. \A f \in Files : other[f][n] = known[f][n]
    BY <1>5, <1>8
  <2>2. \A i \in 1 .. N : ClosedFor(c.files[i], n, known) => ClosedFor(c.files[i], n, other)
    <3> SUFFICES ASSUME NEW i \in 1 .. N, ClosedFor(c.files[i], n, known)
                 PROVE  ClosedFor(c.files[i], n, other)
      OBVIOUS
    <3>1. PICK f \in Files : f = c.files[i] /\ f \in Members(c.files)
      BY <1>1, <1>3
    <3>2. \A d \in Range(program.drafts[f]) :
            ~ Renames(d) /\ (Resolved(d) => other[d.target][n] = known[d.target][n])
      BY <2>1, <3>1 DEF Resolved
    <3> QED
      BY <2>1, <3>1, <3>2, ClosedDependsOnName
  <2>3. ClosedUpto(c, Len(c.files), n, known) => ClosedUpto(c, Len(c.files), n, other)
    BY <1>1, <2>2 DEF ClosedUpto
  <2>4. ClosedUpto(c, t - 1, n, known) => ClosedUpto(c, t, n, other)
    <3>1. \A i \in 1 .. t : i = t \/ (i \in 1 .. t - 1 /\ i \in 1 .. N)
      BY <1>1
    <3> QED
      BY <1>2, <1>5, <2>2, <3>1 DEF ClosedUpto
  <2>5. CASE ClosedUpto(c, Len(c.files), n, known)
    BY <1>2, <2>3, <2>5 DEF Passed, other
  <2>6. CASE pass <= Cardinality(Holders(c, n, known))
    <3>1. pass <= Cardinality(Holders(c, n, other))
      BY <1>7, <2>6
    <3> QED
      BY <1>2, <3>1 DEF Passed, other
  <2>7. CASE pass - 1 <= Cardinality(Holders(c, n, known)) /\ ClosedUpto(c, t - 1, n, known)
    <3>1. pass - 1 <= Cardinality(Holders(c, n, other)) /\ ClosedUpto(c, t, n, other)
      BY <1>7, <2>4, <2>7
    <3> QED
      BY <1>2, <3>1 DEF Passed, other
  <2> QED
    BY <2>5, <2>6, <2>7 DEF Passed
<1>9. CASE other[h][n] # known[h][n]
  <2>1. ~ ClosedUpto(c, Len(c.files), n, known)
    BY <1>2, <1>5, <1>9 DEF ClosedUpto
  <2>2. ~ Has(known, h, n) /\ Has(other, h, n)
    BY <1>5, <1>9 DEF Has
  <2>3. t \in Holders(c, n, other) \ Holders(c, n, known)
    BY <1>1, <1>2, <2>2 DEF Holders
  <2>4. Cardinality(Holders(c, n, known)) + 1 <= Cardinality(Holders(c, n, other))
    BY <1>6, <2>3, HoldersGrow
  <2>5. pass <= Cardinality(Holders(c, n, known)) \/ pass - 1 <= Cardinality(Holders(c, n, known))
    BY <2>1 DEF Passed
  <2>6. pass <= Cardinality(Holders(c, n, other))
    BY <1>7, <2>4, <2>5
  <2> QED
    BY <1>2, <2>6 DEF Passed, other
<1> QED
  BY <1>8, <1>9

\* There are no more holders than files: after as many passes, and one, all are closed.
LEMMA PassesDone ==
  ASSUME NEW c \in [files : Seq(Files), isCycle : BOOLEAN], NEW pass \in Nat, NEW n \in Names,
         NEW known, Passed(c, Len(c.files), pass, n, known), Len(c.files) < pass
  PROVE  ClosedUpto(c, Len(c.files), n, known)
<1>1. Cardinality(Holders(c, n, known)) \in Nat /\ Cardinality(Holders(c, n, known)) <= Len(c.files)
  BY HoldersAre
<1>2. Len(c.files) \in Nat
  OBVIOUS
<1>3. ~ (pass <= Cardinality(Holders(c, n, known)))
  BY <1>1, <1>2
<1> QED
  BY <1>3 DEF Passed

LEMMA NextPass ==
  ASSUME NEW c \in [files : Seq(Files), isCycle : BOOLEAN], NEW pass \in Nat, NEW n, NEW known,
         Passed(c, Len(c.files), pass, n, known)
  PROVE  Passed(c, 0, pass + 1, n, known)
<1>1. ClosedUpto(c, 0, n, known)
  BY DEF ClosedUpto
<1>2. (pass + 1) - 1 = pass
  OBVIOUS
<1> QED
  BY <1>1, <1>2 DEF Passed

LEMMA FirstPass ==
  ASSUME NEW c \in [files : Seq(Files), isCycle : BOOLEAN], NEW n, NEW known
  PROVE  Passed(c, 0, 1, n, known)
<1>1. ClosedUpto(c, 0, n, known)
  BY DEF ClosedUpto
<1>2. Cardinality(Holders(c, n, known)) \in Nat
  BY HoldersAre
<1>3. 1 - 1 <= Cardinality(Holders(c, n, known))
  BY <1>2
<1> QED
  BY <1>1, <1>3 DEF Passed

-----------------------------------------------------------------------------
(* What a step that leaves the program alone leaves alone.                 *)

LEMMA SameSurface ==
  ASSUME program' = program
  PROVE  /\ \A f, n : Named(f, n)' = Named(f, n)
         /\ \A f, n : FindExportByName(f, n)' = FindExportByName(f, n)
         /\ \A f : Loops(f)' = Loops(f)
<1>1. \A f, n : Named(f, n)' = Named(f, n)
  BY DEF Named, LocalDefs
<1>2. \A f, n : FindExportByName(f, n)' = FindExportByName(f, n)
  BY <1>1 DEF FindExportByName, LocalDefs
<1>3. \A f : Loops(f)' = Loops(f)
  BY DEF Loops, LoopsOver
<1> QED
  BY <1>1, <1>2, <1>3

LEMMA SameOffers ==
  ASSUME program' = program
  PROVE  \A f, n : FirstTurn(f, n, closures)' = FirstTurn(f, n, closures')
<1>1. \A f, n : Named(f, n)' = Named(f, n) /\ FindExportByName(f, n)' = FindExportByName(f, n)
  BY SameSurface
<1>2. \A f, n : Supply(f, n, closures)' = Supply(f, n, closures')
  BY <1>1 DEF Supply
<1>3. \A f, n : WildcardSupply(f, n, closures)' = WildcardSupply(f, n, closures')
  BY <1>1 DEF WildcardSupply, LocalDefs
<1>4. \A l, n : Offer(l, n, closures)' = Offer(l, n, closures')
  BY <1>2, <1>3 DEF Offer
<1>5. \A f, n : Offers(f, n, closures)' = Offers(f, n, closures')
  BY <1>4, SameSurface DEF Offers
<1> QED
  BY <1>5 DEF FirstTurn

LEMMA SameRules ==
  ASSUME program' = program
  PROVE  /\ \A f, n : ClosedFor(f, n, closures)' <=> ClosedFor(f, n, closures')
         /\ \A E : Exporting(E)' <=> Exporting(E)
         /\ SubGraph' = SubGraph
         /\ sccs' = sccs => /\ KeepsNames' <=> KeepsNames
                            /\ \A f : InCycle(f)' <=> InCycle(f)
<1>1. \A f, n : Named(f, n)' = Named(f, n)
  BY SameSurface
<1>2. \A f, n : ClosedFor(f, n, closures)' <=> ClosedFor(f, n, closures')
  BY <1>1 DEF ClosedFor, Offered
<1>3. \A E : Exporting(E)' <=> Exporting(E)
  BY <1>1 DEF Exporting
<1>4. SubGraph' = SubGraph
  BY DEF SubGraph
<1>5. ASSUME sccs' = sccs PROVE KeepsNames' <=> KeepsNames
  BY <1>5 DEF KeepsNames, InCycle
<1>6. ASSUME sccs' = sccs PROVE \A f : InCycle(f)' <=> InCycle(f)
  BY <1>6 DEF InCycle
<1> QED
  BY <1>2, <1>3, <1>4, <1>5, <1>6

LEMMA SamePasses ==
  ASSUME program' = program
  PROVE  /\ \A c, k, n : ClosedUpto(c, k, n, closures)' <=> ClosedUpto(c, k, n, closures')
         /\ \A c, k, pass, n : Passed(c, k, pass, n, closures)' <=> Passed(c, k, pass, n, closures')
<1>1. \A c, k, n : ClosedUpto(c, k, n, closures)' <=> ClosedUpto(c, k, n, closures')
  BY SameRules DEF ClosedUpto
<1>2. \A c, n : Holders(c, n, closures)' = Holders(c, n, closures')
  BY DEF Holders, Has
<1> QED
  BY <1>1, <1>2 DEF Passed

-----------------------------------------------------------------------------
(* Initially, and while the components are searched.                       *)

LEMMA SearchedFirst == SearchNext => ~ Searched
BY DEF SearchNext, Searched, EnterRoot, EnterChild, Enter, SkipChild, Leave

LEMMA ShapeKept ==
  ASSUME SearchInv, Shape, [SearchNext]_searchVars
  PROVE  Shape'
<1>1. graph' = graph /\ SearchInv'
  BY StepKeeps
<1>2. CASE sccs' = sccs
  <2>1. \A i : Of(i)' = Of(i)
    BY <1>2 DEF Of, Members
  <2>2. DOMAIN sccs' = DOMAIN sccs /\ \A i \in DOMAIN sccs : sccs'[i] = sccs[i]
    BY <1>2
  <2> QED
    BY <1>1, <2>1, <2>2, Zenon DEF Shape
<1>3. CASE sccs' # sccs
  <2>1. SearchNext
    BY <1>3 DEF searchVars
  <2> DEFINE R == [files : Seq(Files), isCycle : BOOLEAN]
  <2>2. PICK S \in SUBSET Files, r \in R :
          /\ sccs' = Append(sccs, r) /\ Members(r.files) = S
          /\ Components!Component(S) /\ S \cap Given = {}
          /\ \A n \in S : graph[n] \subseteq S \cup Given
          /\ r.isCycle <=> \E n \in S : \E m \in Files : m \in graph[n] /\ Reach(m, n)
          /\ ~ r.isCycle => Len(r.files) = 1
    BY <1>3, <2>1, StepGives
  <2>3. PICK k \in Nat : k = Len(sccs) /\ DOMAIN sccs = 1 .. k /\ sccs \in Seq(R)
    BY DEF SearchInv, Types
  <2>4. /\ DOMAIN sccs' = 1 .. k + 1 /\ sccs'[k + 1] = r
        /\ \A i \in 1 .. k : sccs'[i] = sccs[i]
    <3> HIDE DEF R
    <3> QED
      BY <2>2, <2>3
  <2>5. Of(k + 1)' = S /\ \A i \in 1 .. k : Of(i)' = Of(i)
    BY <2>2, <2>4 DEF Of, Members
  <2>6. Given = UNION {Of(i) : i \in 1 .. k}
    BY <2>3 DEF Given, Of
  <2>7. \A i \in 1 .. k + 1 : i \in 1 .. k \/ i = k + 1
    OBVIOUS
  <2>8. k + 1 \notin 1 .. k /\ k + 1 \in 1 .. k + 1 /\ \A i \in 1 .. k : i \in 1 .. k + 1
    OBVIOUS
  <2>9. \A i, j \in 1 .. k + 1 : i # j => Of(i)' \cap Of(j)' = {}
    <3>1. \A i, j \in 1 .. k : i # j => Of(i) \cap Of(j) = {}
      BY <2>3 DEF Shape
    <3>2. \A i \in 1 .. k : Of(i) \cap S = {}
      BY <2>2, <2>6
    <3> QED
      BY <2>5, <2>7, <3>1, <3>2
  <2>10. ASSUME NEW i \in 1 .. k
         PROVE  /\ Len(sccs'[i].files) >= 1
                /\ ~ sccs'[i].isCycle => Len(sccs'[i].files) = 1 /\ \A f \in Of(i)' : f \notin graph'[f]
                /\ \A f \in Of(i)' : \A c \in graph'[f] : \E j \in 1 .. i : c \in Of(j)'
    <3>1. \A j \in 1 .. i : j \in 1 .. k
      OBVIOUS
    <3>2. sccs'[i] = sccs[i] /\ Of(i)' = Of(i) /\ \A j \in 1 .. i : Of(j)' = Of(j)
      BY <2>4, <2>5, <3>1
    <3>3. /\ Len(sccs[i].files) >= 1
          /\ ~ sccs[i].isCycle => Len(sccs[i].files) = 1 /\ \A f \in Of(i) : f \notin graph[f]
          /\ \A f \in Of(i) : \A c \in graph[f] : \E j \in 1 .. i : c \in Of(j)
      BY <2>3, Zenon DEF Shape
    <3>4. ASSUME NEW f \in Of(i)', NEW c \in graph'[f] PROVE \E j \in 1 .. i : c \in Of(j)'
      <4>1. PICK j \in 1 .. i : c \in Of(j)
        BY <1>1, <3>2, <3>3, Zenon
      <4>2. Of(j)' = Of(j)
        BY <3>2
      <4> QED
        BY <4>1, <4>2
    <3>5. Len(sccs'[i].files) >= 1
      BY <3>2, <3>3
    <3>6. ~ sccs'[i].isCycle => Len(sccs'[i].files) = 1 /\ \A f \in Of(i)' : f \notin graph'[f]
      BY <1>1, <3>2, <3>3
    <3> QED
      BY <3>4, <3>5, <3>6
  <2>11. Len(r.files) >= 1
    <3>1. Members(r.files) # {}
      BY <2>2 DEF Components!Component
    <3>2. DOMAIN r.files = 1 .. Len(r.files) /\ Len(r.files) \in Nat
      OBVIOUS
    <3> QED
      BY <3>1, <3>2 DEF Members
  <2>12. ASSUME ~ r.isCycle, NEW f \in S PROVE f \notin graph[f]
    <3>1. f \in graph[f] => Reach(f, f)
      BY ReachSelf
    <3> QED
      BY <2>2, <2>12, <3>1
  <2>13. \A f \in S : \A c \in graph[f] : \E j \in 1 .. k + 1 : c \in Of(j)'
    <3>1. ASSUME NEW f \in S, NEW c \in graph[f] PROVE c \in S \/ \E j \in 1 .. k : c \in Of(j)
      BY <2>2, <2>6
    <3> QED
      BY <2>5, <2>8, <3>1
  <2> QED
    BY <1>1, <2>2, <2>4, <2>5, <2>7, <2>8, <2>9, <2>10, <2>11, <2>12, <2>13 DEF Shape
<1> QED
  BY <1>2, <1>3

LEMMA InitSearches == Init => SearchInit
<1>1. SubGraph \in [Files -> SUBSET Files]
  BY DEF SubGraph, Resolved
<1> QED
  BY <1>1 DEF Init, SearchInit

LEMMA InitIInv == Init => IInv
<1> SUFFICES ASSUME Init PROVE IInv
  OBVIOUS
<1>1. SearchInv
  BY InitSearches, InitHolds
<1>2. /\ program \in Programs /\ graph = SubGraph /\ sccs = << >>
      /\ closures = [f \in Files |-> [n \in Names |-> NoEntry]]
      /\ scc = 1 /\ turn = 1 /\ iter = 1 /\ progressed = FALSE
  BY DEF Init, Unsearched
<1>3. DOMAIN sccs = {} /\ Len(sccs) = 0
  BY <1>2
<1>4. closures \in Known /\ Nothing
  BY <1>2 DEF Known, Nothing, Has
<1>5. Shape
  BY <1>3 DEF Shape
<1>6. LoopTypes
  <2>1. 1 <= Len(sccs) + 1 /\ 1 \in Nat \ {0} /\ scc \notin DOMAIN sccs
    BY <1>3
  <2> QED
    BY <1>2, <1>4, <2>1, Zenon DEF LoopTypes
<1>7. NotBegun
  BY <1>2, <1>4 DEF NotBegun
<1>8. Sound /\ Untouched
  BY <1>4 DEF Sound, Untouched, Within, Nothing
<1>9. Processed = {}
  BY <1>2 DEF Processed
<1>10. Settled /\ Passing
  BY <1>3, <1>9 DEF Settled, Passing
<1> QED
  BY <1>1, <1>5, <1>6, <1>7, <1>8, <1>10 DEF IInv, LoopInv

LEMMA SearchStepKeeps ==
  ASSUME IInv, SearchStep
  PROVE  IInv'
<1>1. SearchInv' /\ graph' = graph
  BY StepKeeps DEF IInv, SearchStep
<1>2. Shape'
  BY ShapeKept DEF IInv, SearchStep
<1>3. /\ program' = program /\ closures' = closures
      /\ scc' = 1 /\ turn' = 1 /\ iter' = 1 /\ progressed' = FALSE /\ Nothing
  BY SearchedFirst DEF IInv, LoopInv, NotBegun, LoopTypes, SearchStep
<1>4. Nothing'
  BY <1>3 DEF Nothing, Has
<1>5. PICK k \in Nat : k = Len(sccs') /\ DOMAIN sccs' = 1 .. k
  BY <1>1 DEF SearchInv, Types
<1>6. 1 \in DOMAIN sccs' => sccs'[1] \in [files : Seq(Files), isCycle : BOOLEAN] /\ Len(sccs'[1].files) >= 1
  <2>1. sccs' \in Seq([files : Seq(Files), isCycle : BOOLEAN])
    BY <1>1 DEF SearchInv, Types
  <2>2. 1 \in DOMAIN sccs' => Len(sccs'[1].files) >= 1
    BY <1>2, Zenon DEF Shape
  <2>3. 1 \in DOMAIN sccs' => sccs'[1] \in [files : Seq(Files), isCycle : BOOLEAN]
    BY <2>1, Element
  <2> QED
    BY <2>2, <2>3, Zenon
<1>7. 1 \in DOMAIN sccs' => Len(sccs'[1].files) \in Nat
  BY <1>6
<1>8. LoopTypes'
  <2>1. program' \in Programs /\ graph' = SubGraph'
    BY <1>1, <1>3, SameRules DEF IInv, LoopInv, LoopTypes
  <2>2. closures' \in Known'
    BY <1>3 DEF IInv, LoopInv, LoopTypes, Known
  <2>3. /\ 1 <= Len(sccs') + 1
        /\ 1 \in DOMAIN sccs' => 1 <= Len(sccs'[1].files) /\ 1 <= Len(sccs'[1].files) + 1
    BY <1>5, <1>6, <1>7
  <2>4. 1 \in Nat \ {0}
    OBVIOUS
  <2> QED
    BY <1>3, <2>1, <2>2, <2>3, <2>4 DEF LoopTypes, Cap
<1>9. NotBegun'
  BY <1>3, <1>4 DEF NotBegun
<1>10. Sound' /\ Untouched'
  BY <1>4 DEF Sound, Untouched, Within, Nothing
<1>11. Settled'
  <2>1. \A i : i \notin 1 .. 1 - 1
    OBVIOUS
  <2>2. Processed' = {}
    BY <1>3, <2>1 DEF Processed
  <2> QED
    BY <2>2 DEF Settled
<1>12. Passing'
  <2> SUFFICES ASSUME 1 \in DOMAIN sccs', NEW n \in Names
               PROVE  /\ ClosedUpto(sccs'[1], 0, n, closures')
                      /\ Passed(sccs'[1], 0, 1, n, closures')
    BY <1>3, SamePasses DEF Passing
  <2>1. ClosedUpto(sccs'[1], 0, n, closures')
    BY DEF ClosedUpto
  <2> QED
    BY <1>6, <2>1, FirstPass
<1> QED
  BY <1>1, <1>2, <1>8, <1>9, <1>10, <1>11, <1>12 DEF IInv, LoopInv

-----------------------------------------------------------------------------
(* A file is populated.                                                    *)

LEMMA ComponentAt ==
  ASSUME SearchInv, Shape, NEW i \in DOMAIN sccs
  PROVE  /\ sccs[i] \in [files : Seq(Files), isCycle : BOOLEAN]
         /\ Len(sccs[i].files) \in Nat \ {0}
         /\ DOMAIN sccs[i].files = 1 .. Len(sccs[i].files)
         /\ \A t \in 1 .. Len(sccs[i].files) : sccs[i].files[t] \in Files /\ sccs[i].files[t] \in Of(i)
<1>1. PICK c \in [files : Seq(Files), isCycle : BOOLEAN] : c = sccs[i]
  BY Element DEF SearchInv, Types
<1>2. Len(c.files) >= 1
  BY <1>1, Zenon DEF Shape
<1>3. /\ Len(c.files) \in Nat /\ DOMAIN c.files = 1 .. Len(c.files)
      /\ \A t \in 1 .. Len(c.files) : c.files[t] \in Files
  BY Element
<1>4. Len(c.files) \in Nat \ {0}
  BY <1>2, <1>3
<1>5. \A t \in 1 .. Len(c.files) : c.files[t] \in Of(i)
  BY <1>1, <1>3 DEF Of, Members
<1> QED
  BY <1>1, <1>3, <1>4, <1>5

\* The file whose turn it is.
Current == sccs[scc].files[turn]

LEMMA AtTurn ==
  ASSUME IInv, Populate
  PROVE  /\ SearchInv /\ Shape /\ program \in Programs /\ closures \in Known
         /\ program' = program /\ graph' = graph /\ sccs' = sccs /\ searchVars' = searchVars
         /\ scc \in DOMAIN sccs /\ turn \in 1 .. Len(sccs[scc].files)
         /\ Current \in Files /\ Current \in Of(scc)
         /\ closures' = PopulateFileClosure(Current, closures)
         /\ closures' \in Known
         /\ \A f \in Files : f # Current => closures'[f] = closures[f]
<1>1. /\ SearchInv /\ Shape /\ program \in Programs /\ closures \in Known
      /\ scc \in DOMAIN sccs /\ turn \in Nat \ {0} /\ turn <= Len(sccs[scc].files)
  BY DEF IInv, LoopInv, LoopTypes, Populate
<1>2. program' = program /\ searchVars' = searchVars /\ closures' = PopulateFileClosure(Current, closures)
  BY DEF Populate, Current
<1>3. graph' = graph /\ sccs' = sccs
  BY <1>2 DEF searchVars
<1>4. turn \in 1 .. Len(sccs[scc].files)
  BY <1>1, ComponentAt
<1>5. Current \in Files /\ Current \in Of(scc)
  BY <1>1, <1>4, ComponentAt DEF Current
<1> QED
  BY <1>1, <1>2, <1>3, <1>4, <1>5, PopulateGives

LEMMA TargetsEarlier ==
  ASSUME Shape, graph = SubGraph, NEW i \in DOMAIN sccs, NEW f \in Of(i), f \in Files,
         NEW d \in Range(program.drafts[f]), Resolved(d)
  PROVE  d.target \in graph[f] /\ \E j \in 1 .. i : d.target \in Of(j)
<1>1. d.target \in graph[f]
  BY DEF SubGraph
<1>2. \A c \in graph[f] : \E j \in 1 .. i : c \in Of(j)
  BY Zenon DEF Shape
<1> QED
  BY <1>1, <1>2

LEMMA CycleIs ==
  ASSUME Shape, NEW i \in DOMAIN sccs, NEW f \in Of(i)
  PROVE  InCycle(f) <=> sccs[i].isCycle
<1>1. \A j : f \in Range(sccs[j].files) <=> f \in Of(j)
  BY DEF Range, Of, Members
<1>2. \A j \in DOMAIN sccs : f \in Of(j) => i = j
  BY Zenon DEF Shape
<1> QED
  BY <1>1, <1>2 DEF InCycle

LEMMA ProcessedIs == Processed = {f \in Files : \E i \in 1 .. scc - 1 : f \in Of(i)}
BY DEF Processed, Range, Of, Members

LEMMA SettledKept ==
  ASSUME IInv, Populate, NEW f \in Processed, NEW n \in Names
  PROVE  /\ ~ InCycle(f) => closures'[f][n] = FirstTurn(f, n, closures')
         /\ KeepsNames => ClosedFor(f, n, closures')
<1>1. f \in Files /\ \E i \in 1 .. scc - 1 : f \in Of(i)
  BY ProcessedIs
<1>2. PICK i \in 1 .. scc - 1 : f \in Of(i)
  BY <1>1
<1>3. PICK k \in Nat : k = Len(sccs) /\ DOMAIN sccs = 1 .. k
  BY DEF IInv, SearchInv, Types
<1>4. scc \in 1 .. k /\ i \in 1 .. k /\ \A j \in 1 .. i : j \in 1 .. k /\ j # scc
  BY <1>3, AtTurn
<1>5. \A j \in 1 .. i : Current \notin Of(j)
  <2>1. \A j \in DOMAIN sccs : j # scc => Of(j) \cap Of(scc) = {}
    BY AtTurn, Zenon DEF Shape
  <2> QED
    BY <1>3, <1>4, <2>1, AtTurn
<1>6. closures'[f] = closures[f]
  <2>1. i \in 1 .. i
    BY <1>4
  <2> QED
    BY <1>1, <1>2, <1>5, <2>1, AtTurn
<1>7. ASSUME NEW d \in Range(program.drafts[f]), Resolved(d)
      PROVE  closures'[d.target] = closures[d.target]
  <2>1. graph = SubGraph /\ Shape
    BY DEF IInv, LoopInv, LoopTypes
  <2>2. \E j \in 1 .. i : d.target \in Of(j)
    BY <1>1, <1>2, <1>3, <1>4, <1>7, <2>1, TargetsEarlier
  <2> QED
    BY <1>5, <1>7, <2>2, AtTurn DEF Resolved
<1>8. FirstTurn(f, n, closures') = FirstTurn(f, n, closures)
  BY <1>1, <1>7, AtTurn, OffersDepend
<1>9. ClosedFor(f, n, closures) => ClosedFor(f, n, closures')
  BY <1>1, <1>6, <1>7, ClosedDepends
<1>10. /\ ~ InCycle(f) => closures[f][n] = FirstTurn(f, n, closures)
       /\ KeepsNames => ClosedFor(f, n, closures)
  BY DEF IInv, LoopInv, Settled
<1> QED
  BY <1>6, <1>8, <1>9, <1>10

\* A file outside of the cycles: what it re-exports from is complete.
LEMMA AcyclicDone ==
  ASSUME IInv, Populate, ~ sccs[scc].isCycle, NEW n \in Names
  PROVE  /\ Len(sccs[scc].files) = 1 /\ turn = 1
         /\ closures'[Current][n] = FirstTurn(Current, n, closures')
         /\ ClosedFor(Current, n, closures')
<1>1. Len(sccs[scc].files) = 1 /\ Current \notin graph[Current]
  <2>1. Len(sccs[scc].files) = 1 /\ \A f \in Of(scc) : f \notin graph[f]
    BY AtTurn, Zenon DEF Shape
  <2> QED
    BY <2>1, AtTurn
<1>2. turn = 1
  BY <1>1, AtTurn
<1>3. graph = SubGraph
  BY DEF IInv, LoopInv, LoopTypes
<1>4. \A d \in Range(program.drafts[Current]) : d.target # Current
  BY <1>1, <1>3, AtTurn, TargetsEarlier DEF Resolved
<1>5. ~ Has(closures, Current, n)
  <2>1. ~ InCycle(Current)
    BY AtTurn, CycleIs
  <2>2. Current \notin Processed
    <3> SUFFICES ASSUME NEW i \in 1 .. scc - 1, Current \in Of(i) PROVE FALSE
      BY ProcessedIs
    <3>1. PICK k \in Nat : k = Len(sccs) /\ DOMAIN sccs = 1 .. k
      BY AtTurn DEF SearchInv, Types
    <3>2. i \in 1 .. k /\ i # scc /\ scc \in 1 .. k
      BY <3>1, AtTurn
    <3>3. Of(i) \cap Of(scc) = {}
      BY <3>1, <3>2, AtTurn, Zenon DEF Shape
    <3> QED
      BY <3>3, AtTurn
  <2> QED
    BY <2>1, <2>2, AtTurn DEF IInv, LoopInv, Untouched
<1>6. SelfKeepsNames(Current)
  BY <1>4 DEF SelfKeepsNames
<1> QED
  BY <1>1, <1>2, <1>4, <1>5, <1>6, AtTurn, PopulateFirst, PopulateCloses

\* A file of a cycle that keeps names.
LEMMA CycleTurn ==
  ASSUME IInv, Populate, sccs[scc].isCycle, KeepsNames, NEW n \in Names
  PROVE  /\ ~ progressed /\ closures' = closures => ClosedUpto(sccs[scc], turn, n, closures')
         /\ Passed(sccs[scc], turn, iter, n, closures')
<1>1. PICK c \in [files : Seq(Files), isCycle : BOOLEAN] : c = sccs[scc]
  BY AtTurn, ComponentAt
<1>2. \A f \in Members(c.files) : \A d \in Range(program.drafts[f]) : ~ Renames(d)
  <2> SUFFICES ASSUME NEW f \in Of(scc) PROVE f \in Files /\ InCycle(f)
    BY <1>1 DEF KeepsNames, Of
  <2>1. InCycle(f)
    BY AtTurn, CycleIs
  <2>2. f \in Files
    BY <1>1, Element DEF Of, Members
  <2> QED
    BY <2>1, <2>2
<1>3. /\ ~ progressed => ClosedUpto(c, turn - 1, n, closures)
      /\ Passed(c, turn - 1, iter, n, closures)
  BY <1>1, AtTurn DEF IInv, LoopInv, Passing
<1>4. iter \in Nat /\ turn \in 1 .. Len(c.files)
  BY <1>1, AtTurn DEF IInv, LoopInv, LoopTypes
<1>5. Passed(c, turn, iter, n, closures')
  BY <1>1, <1>2, <1>3, <1>4, AtTurn, PassTurn DEF Current
<1>6. ASSUME ~ progressed, closures' = closures PROVE ClosedUpto(c, turn, n, closures')
  <2>1. SelfKeepsNames(Current)
    BY <1>1, <1>2, AtTurn DEF SelfKeepsNames, Of
  <2>2. ClosedFor(Current, n, closures')
    BY <2>1, AtTurn, PopulateCloses
  <2>3. \A i \in 1 .. turn : i = turn \/ i \in 1 .. turn - 1
    BY <1>4
  <2> QED
    BY <1>1, <1>3, <1>6, <2>2, <2>3 DEF ClosedUpto, Current
<1> QED
  BY <1>1, <1>5, <1>6

\* When a component is left, all its files are as they have to be.
LEMMA ComponentDone ==
  ASSUME IInv, Populate, turn = Len(sccs[scc].files),
         ~ Again(sccs[scc], progressed \/ closures' # closures),
         NEW f \in Of(scc), NEW n \in Names
  PROVE  /\ ~ InCycle(f) => closures'[f][n] = FirstTurn(f, n, closures')
         /\ KeepsNames => ClosedFor(f, n, closures')
<1>1. PICK c \in [files : Seq(Files), isCycle : BOOLEAN] :
        c = sccs[scc] /\ DOMAIN c.files = 1 .. Len(c.files) /\ Len(c.files) \in Nat
  BY AtTurn, ComponentAt
<1>2. PICK i \in 1 .. Len(c.files) : f = c.files[i]
  BY <1>1 DEF Of, Members
<1>3. InCycle(f) <=> c.isCycle
  BY <1>1, AtTurn, CycleIs
<1>4. CASE ~ c.isCycle
  <2>1. Len(c.files) = 1 /\ turn = 1
    BY <1>1, <1>4, AcyclicDone
  <2>2. f = Current
    BY <1>1, <1>2, <2>1 DEF Current
  <2> QED
    BY <1>1, <1>4, <2>2, AcyclicDone
<1>5. CASE c.isCycle
  <2> SUFFICES ASSUME KeepsNames PROVE ClosedUpto(c, Len(c.files), n, closures')
    BY <1>2, <1>3, <1>5 DEF ClosedUpto
  <2>1. /\ ~ progressed /\ closures' = closures => ClosedUpto(c, Len(c.files), n, closures')
        /\ Passed(c, Len(c.files), iter, n, closures')
    BY <1>1, <1>5, CycleTurn
  <2>2. CASE ~ progressed /\ closures' = closures
    BY <2>1, <2>2
  <2>3. CASE ~ (iter < Cap(c))
    <3>1. iter \in Nat
      BY DEF IInv, LoopInv, LoopTypes
    <3>2. Len(c.files) < iter
      BY <1>1, <2>3, <3>1 DEF Cap
    <3> QED
      BY <2>1, <3>1, <3>2, PassesDone
  <2> QED
    BY <1>1, <1>5, <2>2, <2>3 DEF Again
<1> QED
  BY <1>4, <1>5

\* On to the next file, to the next pass over the component, or to the next component.
NextFile ==
  /\ turn < Len(sccs[scc].files) /\ turn' = turn + 1
  /\ progressed' = (progressed \/ closures' # closures) /\ scc' = scc /\ iter' = iter

NextRound ==
  /\ turn = Len(sccs[scc].files) /\ turn' = 1 /\ progressed' = FALSE
  /\ scc' = scc /\ iter' = iter + 1 /\ iter < Cap(sccs[scc]) /\ sccs[scc].isCycle

NextComponent ==
  /\ turn = Len(sccs[scc].files) /\ turn' = 1 /\ progressed' = FALSE
  /\ ~ Again(sccs[scc], progressed \/ closures' # closures)
  /\ iter' = 1 /\ scc' = scc + 1

LEMMA Moves == Populate => NextFile \/ NextRound \/ NextComponent
BY DEF Populate, NextFile, NextRound, NextComponent, Again

LEMMA PopulateTypes ==
  ASSUME IInv, Populate
  PROVE  LoopTypes' /\ NotBegun' /\ Processed \subseteq Processed'
<1>1. PICK k \in Nat : k = Len(sccs) /\ DOMAIN sccs = 1 .. k
  BY AtTurn DEF SearchInv, Types
<1>2. /\ scc \in 1 .. k /\ turn \in Nat \ {0} /\ iter \in Nat \ {0} /\ progressed \in BOOLEAN
      /\ turn <= Len(sccs[scc].files) /\ iter <= Cap(sccs[scc])
      /\ sccs' = sccs
  BY <1>1, AtTurn DEF IInv, LoopInv, LoopTypes
<1>3. \A i \in 1 .. k : Len(sccs[i].files) \in Nat \ {0} /\ Cap(sccs[i]) = Len(sccs[i].files) + 1
  BY <1>1, AtTurn, ComponentAt DEF Cap
<1>4. /\ scc' \in Nat \ {0} /\ turn' \in Nat \ {0} /\ iter' \in Nat \ {0} /\ progressed' \in BOOLEAN
      /\ scc' <= k + 1 /\ scc <= scc'
      /\ scc' \in 1 .. k => turn' <= Len(sccs[scc'].files) /\ iter' <= Cap(sccs[scc'])
  <2>1. CASE NextFile
    <3>1. /\ scc' = scc /\ turn' = turn + 1 /\ iter' = iter /\ turn < Len(sccs[scc].files)
          /\ progressed' \in BOOLEAN
      BY <2>1 DEF NextFile
    <3> QED
      BY <1>2, <1>3, <3>1
  <2>2. CASE NextRound
    <3>1. /\ scc' = scc /\ turn' = 1 /\ iter' = iter + 1 /\ iter < Cap(sccs[scc])
          /\ progressed' \in BOOLEAN
      BY <2>2 DEF NextRound
    <3> QED
      BY <1>2, <1>3, <3>1
  <2>3. CASE NextComponent
    <3>1. scc' = scc + 1 /\ turn' = 1 /\ iter' = 1 /\ progressed' \in BOOLEAN
      BY <2>3 DEF NextComponent
    <3> QED
      BY <1>2, <1>3, <3>1
  <2> QED
    BY <2>1, <2>2, <2>3, Moves
<1>5. /\ program' \in Programs /\ graph' = SubGraph' /\ closures' \in Known'
  <2>1. Known' = Known
    BY DEF Known
  <2>2. graph' = graph /\ graph = SubGraph /\ SubGraph' = SubGraph
    BY AtTurn, SameRules DEF IInv, LoopInv, LoopTypes
  <2> QED
    BY <2>1, <2>2, AtTurn
<1>6. LoopTypes'
  <2>1. Len(sccs') = k /\ DOMAIN sccs' = 1 .. k
    BY <1>1, <1>2
  <2>2. \A c : Cap(c)' = Cap(c)
    BY DEF Cap
  <2>3. scc' \in DOMAIN sccs' => turn' <= Len(sccs'[scc'].files) /\ iter' <= Cap(sccs'[scc'])
    BY <1>2, <1>4, <2>1
  <2> QED
    BY <1>4, <1>5, <2>1, <2>3, Zenon DEF LoopTypes
<1>7. NotBegun'
  <2>1. Searched /\ searchVars' = searchVars
    BY AtTurn DEF Populate
  <2>2. Searched'
    BY <2>1 DEF Searched, searchVars
  <2> QED
    BY <2>2 DEF NotBegun
<1>8. Processed \subseteq Processed'
  <2>1. PICK p, q \in Nat : p = scc /\ q = scc' /\ p <= q
    BY <1>2, <1>4
  <2>2. \A i \in 1 .. p - 1 : i \in 1 .. q - 1
    <3>1. p <= q
      BY <2>1
    <3> QED
      BY <3>1
  <2> QED
    BY <1>2, <2>1, <2>2 DEF Processed
<1> QED
  BY <1>6, <1>7, <1>8

\* What is processed after the step, and was not before, is the component left.
LEMMA ProcessedNext ==
  ASSUME IInv, Populate, NEW f \in Processed', f \notin Processed
  PROVE  NextComponent /\ f \in Of(scc) /\ f \in Files
<1>1. f \in Files /\ \E i \in 1 .. scc' - 1 : f \in Of(i)'
  BY DEF Processed, Range, Of, Members
<1>2. PICK i \in 1 .. scc' - 1 : f \in Of(i)
  <2>1. \A i : Of(i)' = Of(i)
    BY AtTurn DEF Of, Members
  <2> QED
    BY <1>1, <2>1
<1>3. i \notin 1 .. scc - 1
  BY <1>1, <1>2, ProcessedIs
<1>4. scc \in Nat \ {0}
  BY DEF IInv, LoopInv, LoopTypes
<1>5. scc' # scc
  BY <1>3
<1>6. NextComponent
  BY <1>5, Moves DEF NextFile, NextRound
<1>7. i = scc
  <2>1. scc' = scc + 1
    BY <1>6 DEF NextComponent
  <2> QED
    BY <1>3, <1>4, <2>1
<1> QED
  BY <1>1, <1>2, <1>6, <1>7

LEMMA PopulatePassing ==
  ASSUME IInv, Populate
  PROVE  Passing'
<1>1. program' = program /\ sccs' = sccs /\ (KeepsNames' <=> KeepsNames)
  BY AtTurn, SameRules
<1> SUFFICES ASSUME scc' \in DOMAIN sccs, sccs[scc'].isCycle, KeepsNames, NEW n \in Names
             PROVE  /\ ~ progressed' => ClosedUpto(sccs[scc'], turn' - 1, n, closures')
                    /\ Passed(sccs[scc'], turn' - 1, iter', n, closures')
  BY <1>1, SamePasses DEF Passing
<1>2. \A c : ClosedUpto(c, 0, n, closures')
  BY DEF ClosedUpto
<1>3. iter \in Nat /\ turn \in Nat
  BY DEF IInv, LoopInv, LoopTypes
<1>4. CASE NextFile
  <2>1. /\ turn' = turn + 1 /\ scc' = scc /\ iter' = iter
        /\ ~ progressed' => ~ progressed /\ closures' = closures
    BY <1>4, Zenon DEF NextFile
  <2>2. turn' - 1 = turn
    BY <1>3, <2>1
  <2>3. sccs[scc].isCycle
    BY <2>1
  <2> QED
    BY <2>1, <2>2, <2>3, CycleTurn
<1>5. CASE NextRound
  <2>1. turn' - 1 = 0 /\ scc' = scc /\ iter' = iter + 1 /\ turn = Len(sccs[scc].files)
    BY <1>5 DEF NextRound
  <2>2. Passed(sccs[scc], Len(sccs[scc].files), iter, n, closures')
    BY <2>1, CycleTurn
  <2>3. sccs[scc] \in [files : Seq(Files), isCycle : BOOLEAN]
    BY AtTurn, ComponentAt
  <2>4. Passed(sccs[scc], 0, iter + 1, n, closures')
    BY <1>3, <2>2, <2>3, NextPass
  <2> QED
    BY <1>2, <2>1, <2>4
<1>6. CASE NextComponent
  <2>1. turn' - 1 = 0 /\ iter' = 1
    BY <1>6 DEF NextComponent
  <2>2. sccs[scc'] \in [files : Seq(Files), isCycle : BOOLEAN]
    BY AtTurn, ComponentAt
  <2>3. Passed(sccs[scc'], 0, 1, n, closures')
    BY <2>2, FirstPass
  <2> QED
    BY <1>2, <2>1, <2>3
<1> QED
  BY <1>4, <1>5, <1>6, Moves

LEMMA PopulateStepKeeps ==
  ASSUME IInv, Populate
  PROVE  IInv'
<1>1. SearchInv' /\ Shape'
  BY AtTurn, StepKeeps, ShapeKept
<1>2. program' = program /\ sccs' = sccs
  BY AtTurn
<1>3. Sound'
  <2> SUFFICES ASSUME NEW E \in SUBSET (Files \X Names), Exporting(E) PROVE Within(closures', E)
    BY <1>2, SameRules DEF Sound, Within, Has
  <2>1. Within(closures, E)
    BY DEF IInv, LoopInv, Sound
  <2> QED
    BY <2>1, AtTurn, PopulateSound
<1>4. Untouched'
  <2> SUFFICES ASSUME NEW f \in Files, f \notin Processed', ~ InCycle(f), NEW n \in Names
               PROVE  ~ Has(closures', f, n)
    BY <1>2, SameRules DEF Untouched, Has
  <2>1. f \notin Processed
    BY PopulateTypes
  <2>2. ~ Has(closures, f, n)
    BY <2>1 DEF IInv, LoopInv, Untouched
  <2>3. f # Current
    <3> SUFFICES ASSUME f = Current PROVE FALSE
      OBVIOUS
    <3>1. ~ sccs[scc].isCycle
      BY AtTurn, CycleIs
    <3>2. turn = Len(sccs[scc].files)
      BY <3>1, AcyclicDone
    <3>3. NextComponent
      BY <3>1, <3>2, AtTurn, ComponentAt, Moves DEF NextFile, NextRound
    <3>4. scc \in 1 .. scc' - 1
      <4>1. scc \in Nat \ {0}
        BY DEF IInv, LoopInv, LoopTypes
      <4> QED
        BY <3>3, <4>1 DEF NextComponent
    <3>5. Current \in Range(sccs'[scc].files)
      BY <1>2, AtTurn DEF Of, Members, Range
    <3> QED
      BY <3>4, <3>5 DEF Processed
  <2> QED
    BY <2>2, <2>3, AtTurn DEF Has
<1>5. Settled'
  <2> SUFFICES ASSUME NEW f \in Processed', NEW n \in Names
               PROVE  /\ ~ InCycle(f) => closures'[f][n] = FirstTurn(f, n, closures')
                      /\ KeepsNames => ClosedFor(f, n, closures')
    BY <1>2, SameRules, SameOffers DEF Settled
  <2>1. CASE f \in Processed
    BY <2>1, SettledKept
  <2>2. CASE f \notin Processed
    <3>1. NextComponent /\ f \in Of(scc)
      BY <2>2, ProcessedNext
    <3> QED
      BY <3>1, ComponentDone DEF NextComponent
  <2> QED
    BY <2>1, <2>2
<1> QED
  BY <1>1, <1>3, <1>4, <1>5, PopulateTypes, PopulatePassing DEF IInv, LoopInv

LEMMA IInvKept ==
  ASSUME IInv, [Next]_vars
  PROVE  IInv' /\ [SearchNext]_searchVars
<1>1. CASE SearchStep
  BY <1>1, SearchStepKeeps DEF SearchStep
<1>2. CASE Populate
  BY <1>2, PopulateStepKeeps, AtTurn
<1>3. CASE UNCHANGED vars
  <2>1. /\ program' = program /\ searchVars' = searchVars /\ closures' = closures
        /\ scc' = scc /\ turn' = turn /\ iter' = iter /\ progressed' = progressed
    BY <1>3 DEF vars
  <2>2. SearchInv' /\ Shape' /\ sccs' = sccs /\ graph' = graph
    BY <2>1, StepKeeps, ShapeKept DEF IInv, searchVars
  <2>3. LoopTypes'
    <3>1. SubGraph' = SubGraph /\ Known' = Known /\ \A c : Cap(c)' = Cap(c)
      BY <2>1, SameRules DEF Known, Cap
    <3> QED
      BY <2>1, <2>2, <3>1 DEF IInv, LoopInv, LoopTypes
  <2>4. NotBegun'
    BY <2>1 DEF IInv, LoopInv, NotBegun, Nothing, Has, Searched, searchVars
  <2>5. Processed' = Processed
    BY <2>1, <2>2 DEF Processed
  <2>6. Sound'
    BY <2>1, SameRules DEF IInv, LoopInv, Sound, Within, Has
  <2>7. Untouched'
    BY <2>1, <2>2, <2>5, SameRules DEF IInv, LoopInv, Untouched, Has
  <2>8. Settled'
    BY <2>1, <2>2, <2>5, SameRules, SameOffers DEF IInv, LoopInv, Settled
  <2>9. Passing'
    BY <2>1, <2>2, SameRules, SamePasses DEF IInv, LoopInv, Passing
  <2> QED
    BY <2>1, <2>2, <2>3, <2>4, <2>6, <2>7, <2>8, <2>9 DEF IInv, LoopInv
<1> QED
  BY <1>1, <1>2, <1>3 DEF Next

LEMMA AllDone ==
  ASSUME IInv, Finished
  PROVE  Processed = Files
<1>1. PICK k \in Nat : k = Len(sccs) /\ DOMAIN sccs = 1 .. k
  BY DEF IInv, SearchInv, Types
<1>2. \A i \in 1 .. k : i \in 1 .. scc - 1
  <2>1. scc \in Nat /\ scc > k
    BY <1>1 DEF IInv, LoopInv, LoopTypes, Finished
  <2> QED
    BY <2>1
<1>3. ASSUME NEW f \in Files PROVE f \in Processed
  <2>1. DOMAIN frames = {}
    BY DEF Finished, Searched
  <2>2. ~ OnStack(f)
    BY <2>1 DEF IInv, SearchInv, Segments
  <2>3. f \in Given
    BY <2>2 DEF IInv, SearchInv, SeenOnce, Finished, Searched
  <2>4. PICK i \in 1 .. k : f \in Of(i)
    BY <1>1, <2>3 DEF Given, Of
  <2> QED
    BY <1>2, <2>4, ProcessedIs
<1> QED
  BY <1>3 DEF Processed

-----------------------------------------------------------------------------
(* Theorems.                                                               *)

\* What holds of the search and of the loop over its components, in every state.
THEOREM ReexportsInvariant == Spec => []IInv
<1>1. IInv /\ [Next]_vars => IInv'
  BY IInvKept
<1> QED
  BY InitIInv, <1>1, PTL DEF Spec

\* The search over the re-exports of a program gives the components of its graph, leaves
\* first: what the loop of buildReexportClosures takes for granted.
THEOREM GivesComponentsHolds == Spec => GivesComponents
<1>1. Init => SearchInit
  BY InitSearches
<1>2. IInv /\ [Next]_vars => [SearchNext]_searchVars
  BY IInvKept
<1>3. Spec => SearchSpec
  BY <1>1, <1>2, ReexportsInvariant, PTL DEF Spec, SearchSpec
<1> QED
  BY <1>3, SearchGivesComponents

\* At the end the closures have the names that the files export and no others; when names
\* are changed in a cycle, still no others.
THEOREM ClosuresExactHolds == Spec => []ClosuresExact
<1>1. ASSUME IInv PROVE ClosuresExact
  <2> DEFINE entries == {x \in Files \X Names : Has(closures, x[1], x[2])}
  <2> SUFFICES ASSUME Finished
               PROVE  entries \subseteq Exported /\ (KeepsNames => Exported \subseteq entries)
    BY DEF ClosuresExact
  <2>1. \A f \in Files, n \in Names : <<f, n>> \in entries <=> Has(closures, f, n)
    OBVIOUS
  <2>2. entries \in SUBSET (Files \X Names)
    OBVIOUS
  <2> HIDE DEF entries
  <2>3. ASSUME NEW x \in entries, NEW E \in SUBSET (Files \X Names), Exporting(E) PROVE x \in E
    <3>1. Within(closures, E)
      BY <1>1, <2>3 DEF IInv, LoopInv, Sound
    <3>2. PICK f \in Files, n \in Names : x = <<f, n>>
      BY <2>2
    <3> QED
      BY <2>1, <3>1, <3>2 DEF Within
  <2>4. entries \subseteq Exported
    BY <2>2, <2>3 DEF Exported
  <2>5. ASSUME KeepsNames PROVE Exporting(entries)
    <3>1. \A f \in Files, n \in Names : ClosedFor(f, n, closures)
      BY <1>1, <2>5, AllDone DEF IInv, LoopInv, Settled
    <3> SUFFICES ASSUME NEW f \in Files, NEW n \in Names,
                        NEW d \in Range(program.drafts[f]), NEW m \in Names,
                        d.target \in Files, Asks(d, n, m),
                        Named(d.target, m) # {} \/ <<d.target, m>> \in entries
                 PROVE  <<f, n>> \in entries
      BY DEF Exporting
    <3>2. Offered(d.target, m, closures)
      BY <2>1 DEF Offered
    <3>3. Has(closures, f, n)
      BY <3>1, <3>2 DEF ClosedFor, Resolved
    <3> QED
      BY <2>1, <3>3
  <2>6. ASSUME KeepsNames PROVE Exported \subseteq entries
    BY <2>2, <2>5, <2>6 DEF Exported
  <2> QED
    BY <2>4, <2>6
<1> QED
  BY <1>1, ReexportsInvariant, PTL

\* Outside of cycles an entry is that of the named re-export that comes first among those
\* that can give the name in the end, or else of the first such wildcard.
THEOREM FirstGiverWinsHolds == Spec => []FirstGiverWins
<1>1. ASSUME IInv PROVE FirstGiverWins
  <2> SUFFICES ASSUME NEW f \in Processed, NEW n \in Names, ~ InCycle(f)
               PROVE  closures[f][n] = FirstOffer(f, n, closures)
    BY DEF FirstGiverWins
  <2>1. closures[f][n] = FirstTurn(f, n, closures)
    BY <1>1 DEF IInv, LoopInv, Settled
  <2>2. f \in Files /\ program \in Programs
    BY <1>1 DEF Processed, IInv, LoopInv, LoopTypes
  <2> QED
    BY <2>1, <2>2, FirstIs
<1> QED
  BY <1>1, ReexportsInvariant, PTL
=============================================================================
