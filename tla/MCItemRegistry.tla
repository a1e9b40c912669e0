--------------------------- MODULE MCItemRegistry ---------------------------
(* Instances of ItemRegistry for TLC. *)
EXTENDS ItemRegistry, TLC

CONSTANTS i1, i2, e1, e2, e3

MCProviderOf == (i1 :> "p") @@ (i2 :> "q")
imdb1 == [ns |-> "imdb", value |-> 1]
imdb2 == [ns |-> "imdb", value |-> 2]
tmdb1 == [ns |-> "tmdb", value |-> 1]
MCId == {imdb1, imdb2, tmdb1}

Movie(title, ids, signals) == [kind |-> "movie", titles |-> {title}, year |-> 1, ids |-> ids, signals |-> signals]

\* a film as two catalogues know it, a film of the same title and director under another
\* identity, a series that asserts the identity of the film
MCMaterial ==
  {Movie("t", {imdb1}, {<<"director", "d">>}),
   Movie("t", {imdb1, tmdb1}, {<<"language", "en">>}),
   Movie("t", {imdb2}, {<<"director", "d">>, <<"language", "fr">>}),
   [Movie("t", {tmdb1}, {}) EXCEPT !.kind = "series"]}

Symmetry == Permutations(Entry)
=============================================================================
