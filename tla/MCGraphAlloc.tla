---------------------------- MODULE MCGraphAlloc ----------------------------
EXTENDS GraphAlloc

Tensor(op, src, view, size, output) ==
  [op |-> op, src |-> src, view |-> view, size |-> size, external |-> FALSE, output |-> output]
Leaf == Tensor("leaf", <<>>, 0, 1, FALSE)
ExternalLeaf == [Leaf EXCEPT !.size = 0, !.external = TRUE]

\* The tensors that may come next: nodes that compute, views and views of views, nodes that write into one of their sources.
RootIn(g, t) == IF g[t].view = 0 THEN t ELSE g[t].view
Readable(g) == {t \in Tensors(g) : g[t].op # "dependency"}
Twice(g) == {<<s, s>> : s \in Readable(g)}
Pairs(g) == {s \in Readable(g) \X Readable(g) : s[1] < s[2]}
SrcLists(g) == {<<s>> : s \in Readable(g)} \cup Pairs(g)
Computed(g, sizes, output) ==
  {Tensor(op, s, 0, z, output) : op \in {"plain", "inplace"}, s \in SrcLists(g) \cup (IF Len(g) = 2 THEN Twice(g) ELSE {}), z \in sizes}
Viewed(g, output) == {Tensor("view", <<s>>, RootIn(g, s), 0, output) : s \in Readable(g)}
Writers(g) == {Tensor("plain", s, RootIn(g, s[2]), 0, FALSE) : s \in Pairs(g) \cup Twice(g)}
Dependencies(g) == {Tensor("dependency", <<s>>, RootIn(g, s), 0, FALSE) : s \in Readable(g)}

\* Every tensor but the outputs and the dependencies is read.
AllUsed(g) ==
  \A t \in 1..Len(g) - 1 : g[t].output \/ g[t].op = "dependency" \/ \E u \in t + 1..Len(g) : t \in {g[u].src[i] : i \in 1..Len(g[u].src)}

Ends(G, sizes) == UNION {{h \in {Append(g, t) : t \in Computed(g, sizes, TRUE)} : AllUsed(h)} : g \in G}
Extend(G, Nodes(_)) == UNION {{Append(g, t) : t \in Nodes(g)} : g \in G}

\* Three nodes over one leaf: in two sizes; with an external leaf, outputs, output views and nodes that write into others; ...
ThreeSizes ==
  LET Inner(g) == Computed(g, {1, 2}, FALSE) \cup Viewed(g, FALSE)
  IN Ends(Extend(Extend({<<Leaf>>}, Inner), Inner), {1, 2})
ThreeNodes ==
  LET Inner(g) == Computed(g, {1}, FALSE) \cup Computed(g, {1}, TRUE) \cup Viewed(g, FALSE) \cup Viewed(g, TRUE) \cup Writers(g)
  IN Ends(Extend(Extend({<<Leaf>>, <<ExternalLeaf>>}, Inner), Inner), {1})

\* ... four nodes; ...
FourNodes ==
  LET First(g) == Computed(g, {1}, FALSE) \cup Viewed(g, FALSE)
      Inner(g) == First(g) \cup Writers(g)
  IN Ends(Extend(Extend(Extend({<<Leaf>>}, First), Inner), Inner), {1})

\* ... and five, where a node computes, then come views, views of views and a dependency, then two nodes.
FiveNodes ==
  LET First(g) == Computed(g, {1}, FALSE)
      Alias(g) == Viewed(g, FALSE) \cup Dependencies(g)
      Chain(g) == {Tensor("view", <<Len(g)>>, RootIn(g, Len(g)), 0, FALSE)}
      Inner(g) == {t \in Computed(g, {1}, FALSE) : Len(t.src) = 1}
  IN Ends(Extend(Extend(Extend(Extend({<<Leaf>>}, First), Chain), Alias), Inner), {1})

SomeGraphs == ThreeSizes \cup ThreeNodes \cup FourNodes \cup FiveNodes

\* A chain of three nodes, and the same number of nodes of the same sizes of which the last reads the first.
Chain3(src) ==
  <<Leaf, Tensor("plain", <<1>>, 0, 1, FALSE), Tensor("plain", <<2>>, 0, 1, FALSE), Tensor("plain", <<src>>, 0, 1, TRUE)>>
TwoTopologies == {Chain3(2), Chain3(3)}

\* The allocator on its own, for a user that allocates and frees as it likes.
AllocatorAlone == rounds = MaxRounds /\ cgraph = <<>>

MCInit == GraphInitIn({0, MaxRounds})
MCNext == GraphNext \/ (AllocatorAlone /\ TallocrNext /\ UNCHANGED graphVars)
MCSpec == MCInit /\ [][MCNext]_<<tallocrVars, graphVars>>
=============================================================================
