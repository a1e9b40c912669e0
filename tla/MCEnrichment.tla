---------------------------- MODULE MCEnrichment ----------------------------
(* Instances of Enrichment for TLC. *)
EXTENDS Enrichment, TLC

CONSTANTS e1, e2, k1, k2

imdb(n) == [ns |-> "imdb", value |-> n]
tmdb(n) == [ns |-> "tmdb", value |-> n]
tvdb(n) == [ns |-> "tvdb", value |-> n]

Film(ids) == [kind |-> "movie", titles |-> {"t"}, year |-> 1, ids |-> ids, signals |-> {}]
MCTitle == [e \in Entry |-> Film({})]

Known(catalogue, ref, asserts) ==
  [catalogue |-> catalogue, ref |-> ref, summary |-> Film({ref}), full |-> Film({ref} \cup asserts),
   asserts |-> asserts, fields |-> {"title"}]

\* one catalogue knows two films of the name, and another a third that claims the identity of one
MCCandidate ==
  {Known(k1, tmdb(1), {imdb(1), tmdb(1)}), Known(k1, tmdb(2), {imdb(2)}), Known(k2, tvdb(3), {imdb(1)})}
MCId == {imdb(1), imdb(2), tmdb(1), tmdb(2), tvdb(3)}
MCAsserted == (e1 :> {imdb(1), imdb(2)}) @@ (e2 :> {imdb(2)})
=============================================================================
