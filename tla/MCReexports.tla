----------------------------- MODULE MCReexports -----------------------------
(***************************************************************************)
(* Programs of a few files for Reexports.                                  *)
(***************************************************************************)
EXTENDS Reexports, TLC

CONSTANTS A, B, C, x, y, MaxDrafts

Name(t, n, m) == [kind |-> "reexport", target |-> t, localName |-> n, importedName |-> m]
Wildcard(t) == [kind |-> "wildcard", target |-> t, localName |-> x, importedName |-> x]
Def(f, n, callable) == [name |-> n, callable |-> callable, file |-> f]

UpTo(n, S) == UNION {[1 .. k -> S] : k \in 0 .. n}
Of(f, s) == LET own == SelectSeq(s, LAMBDA p : p[1] = f) IN [i \in DOMAIN own |-> own[i][2]]
Few(S) == {[f \in Files |-> Of(f, s)] : s \in UpTo(MaxDrafts, Files \X S)}

\* Files that re-export from each other and from themselves, x under its name or as y, or
\* everything.  C defines a function x, with a value x before it when B does not define y.
SmallPrograms ==
  {[drafts |-> d, locals |-> (A :> << >> @@ B :> l[1] @@ C :> l[2])] :
     d \in Few({Name(t, n, x) : t \in Files, n \in Names} \cup {Wildcard(t) : t \in Files \cup {NoFile}}),
     l \in {<<<< >>, <<Def(C, x, FALSE), Def(C, x, TRUE)>>>>,
            <<<<Def(B, y, TRUE)>>, <<Def(C, x, TRUE)>>>>}}
=============================================================================
