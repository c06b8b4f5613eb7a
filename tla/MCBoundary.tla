----------------------------- MODULE MCBoundary -----------------------------
(* Zones on a grid of which every second line bears edges, so that each region  *)
(* and each edge has a point: one with a hole, one that overlaps it, one that   *)
(* fills the hole and has a second part at its corner, an island in the hole of *)
(* another part, two holes that meet, a polar cap, and unsound ones.            *)
EXTENDS Boundary

Box(w, s, e, n) == <<<<w, s>>, <<e, s>>, <<e, n>>, <<w, n>>, <<w, s>>>>
Token(mark) == [is |-> mark]
Zone(name, polygons) == [is |-> "feature", zone |-> name, polygons |-> polygons]

Holed   == Zone("a", << <<Box(-6, -4, 2, 2), Box(-4, -2, -2, 0)>> >>)
Overlap == Zone("b", << <<Box(0, -2, 6, 2)>> >>)
Parts   == Zone("b", << <<Box(-4, -2, -2, 0)>>, <<Box(-2, 0, 4, 4)>> >>)
Island  == Zone("b", << <<Box(-8, -6, 8, 6), Box(-4, -4, 4, 4)>>, <<Box(-2, -2, 2, 2)>> >>)
Pierced == Zone("b", << <<Box(-6, -4, 2, 4), Box(-4, -2, -2, 0), Box(-2, 0, 0, 2)>> >>)
Cap     == Zone("b", << << <<<<-8, 4>>, <<0, 4>>, <<8, 4>>, <<8, 6>>, <<-8, 6>>, <<-8, 4>>>> >> >>)
Regular == {Holed, Overlap, Parts, Island, Pierced, Cap}

\* What GEOS finds invalid: a hole along the shell, one outside it, holes that overlap,
\* holes that cut the interior, parts that share an edge, a part in a part, a ring that
\* crosses itself, and one that goes back the way it came.
Invalid ==
  {Zone("b", polygons) : polygons \in
    { << <<Box(-6, -2, 2, 2), Box(-4, -2, -2, 0)>> >>,
      << <<Box(0, -2, 6, 2), Box(-4, 0, -2, 1)>> >>,
      << <<Box(-6, -4, 2, 4), Box(-4, -2, 0, 0), Box(-2, -1, 1, 2)>> >>,
      << <<Box(-3, -5, 5, 5), Box(-2, -2, 0, 2), Box(0, 2, 2, 4), Box(2, -2, 4, 2),
           Box(0, -4, 2, -2)>> >>,
      << <<Box(0, -2, 2, 2)>>, <<Box(2, -2, 6, 2)>> >>,
      << <<Box(0, -2, 6, 2)>>, <<Box(2, -1, 4, 1)>> >>,
      << << <<<<0, 0>>, <<4, 4>>, <<4, 0>>, <<0, 4>>, <<0, 0>>>> >> >>,
      << << <<<<0, 0>>, <<4, 0>>, <<2, 0>>, <<0, 0>>>> >> >> }}

Unsound == {Zone("b", << <<Box(-8, 0, 8, 4)>> >>),                  \* jumps over the seam
            Zone("b", << <<Box(0, -2, 6, 2), <<<<2, 0>>, <<4, 0>>, <<4, 2>>, <<2, 2>>>> >> >>),
            Zone("b", << <<Box(0, 0, 10, 2)>> >>), Zone("b", << >>), Zone("b", << << >> >>),
            Zone("x", << <<Box(0, -2, 6, 2)>> >>)}                    \* not in the catalog
           \cup Invalid

MCCatalog == {"a", "b"}
Marks == {Token("comma"), Token("bracket"), Token("brace"), Token("blank")}
Seqs(S, n) == UNION {[1..k -> S] : k \in 0..n}
List(f, g) == <<f, Token("comma"), g, Token("bracket"), Token("brace")>>
Lists == {List(f, g) : f, g \in Regular \cup Unsound}
Insert(t, i, token) == SubSeq(t, 1, i) \o <<token>> \o SubSeq(t, i + 1, Len(t))

MCTexts == Seqs(Marks \cup {Holed, Overlap}, 5) \cup Lists
           \cup {Insert(t, i, token) : t \in {List(Holed, Overlap), List(Cap, Holed)},
                                       i \in 0..5, token \in Marks \cup {Overlap, Holed}}
MCFaults == {{}, {"runtime"}, {"catalog_readable", "geometry_digest"}, {"catalog_shape"},
             {"utf8", "prefix"}, {"prefix"}}
MCPoints == {<<x, y>> : x \in -9..9, y \in -7..7}
=============================================================================
