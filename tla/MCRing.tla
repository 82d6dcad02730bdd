------------------------------- MODULE MCRing -------------------------------
(* Ring on small instances. *)
EXTENDS Ring

CONSTANTS a, b, c

ThreePeers == {a, b, c}

JustA   == {a}
NodesAB == {a, b}

OtherThanA == Permutations(Peer \ {a})

\* No action reads `last`: for properties that read of it only what the step
\* leaves, last'.
ButLast == <<hash, phase, nodes, cooling>>

\* Every assignment of distinct positions.
InjectiveHashes == {h \in Hash : IsInjective(h)}

\* The same up to the order of the entries of the peers other than a.
OrderedHashes ==
  {h \in InjectiveHashes :
     \A p \in Peer \ {a} : \A i \in 1 .. VirtualNodes : h[p, i-1] < h[p, i]}

\* The rows of positions of a, b and c.
Layout(rows) ==
  [w \in Peer \X (0 .. VirtualNodes) |->
     rows[CHOOSE k \in 1 .. 3 : <<a, b, c>>[k] = w[1]][w[2] + 1]]

\* Interleaved, wrapped and descending; then layouts with shared positions:
\* every two peers share one, and a peer whose own entries coincide.
ThreeTwoEntryHashes ==
  {Layout(rows) : rows \in
     {<< <<0, 3>>, <<1, 4>>, <<2, 5>> >>,
      << <<4, 5>>, <<6, 0>>, <<7, 1>> >>,
      << <<6, 2>>, <<5, 3>>, <<0, 4>> >>,
      << <<1, 4>>, <<4, 6>>, <<6, 1>> >>,
      << <<3, 5>>, <<3, 3>>, <<5, 0>> >>}}
=============================================================================
