------------------------------ MODULE Identity ------------------------------
(***************************************************************************)
(* When two items are the same title (core/internal/identity): the merge   *)
(* rule of the registry, the screening and the choice of the enrichment.   *)
(*                                                                         *)
(* An item is a record [kind, titles, year, ids, signals]. Its titles are  *)
(* in normal form: the display title first of all, and alternates. An      *)
(* identity it asserts is [ns, value]. Its signals are pairs of a rank     *)
(* (director, cast, language, duration) and a value that the provider      *)
(* knows: an unknown one is no signal, as an unknown year is 0.            *)
(***************************************************************************)
EXTENDS Integers

CONSTANTS
  Entry, \* ids that entries of the registry are minted from
  Id,    \* identities that items assert: [ns, value]
  Blank  \* the normal form of a title of which normalization leaves nothing

TitlesAgree(a, b) == \E t \in a.titles \cap b.titles : t # Blank

\* only the year of a movie counts, and an unknown one fails
YearsFit(a, b) == a.kind = "movie" => a.year > 0 /\ a.year = b.year

\* an identity both assert
Corroborated(a, b) == a.kind = b.kind /\ a.ids \cap b.ids # {}

\* without one: title, year and at least one signal
Alike(a, b) ==
  /\ a.kind = b.kind
  /\ TitlesAgree(a, b) /\ YearsFit(a, b)
  /\ a.signals \cap b.signals # {}

\* the merge rule
Merges(a, b) == Corroborated(a, b) \/ Alike(a, b)

\* what fixed an item's identity, and whether it still stands; signals are no part of it
ProofOf(m) == [kind |-> m.kind, titles |-> m.titles, year |-> m.year, ids |-> m.ids]
SameProof(p, q) == p = q

\* different values in one namespace
Contradicts(a, b) == \E x \in a.ids, y \in b.ids : x.ns = y.ns /\ x.value # y.value

\* the candidates worth fetching: summaries carry no signals
Screen(a, C) ==
  {c \in C : a.kind = c.kind /\ TitlesAgree(a, c) /\ YearsFit(a, c) /\ ~Contradicts(a, c)}

\* the candidates that may enrich the entry: the one that shares an identity, or else the one
\* alike; two of either are a tie, and nobody is chosen
Adopt(a, C) ==
  LET asserted == {c \in C : Corroborated(a, c)}
      alike    == {c \in C : Merges(a, c)}
      only(S)  == {c \in S : S = {c}}
  IN  IF asserted # {} THEN only(asserted) ELSE only(alike)

=============================================================================
