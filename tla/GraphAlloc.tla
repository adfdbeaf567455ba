------------------------------ MODULE GraphAlloc ------------------------------
(* ggml's graph allocator with one buffer type: before a graph is computed it walks through the nodes in order, gives each *)
(* tensor a place, takes back the places of tensors that no later node reads, and keeps the plan for the next graph.       *)
EXTENDS DynTallocr

CONSTANTS
  Graphs,       \* the graphs that may be built: sequences of tensors, leafs first, each after those it reads
  MaxSrc,       \* GGML_MAX_SRC
  MaxRounds,    \* bound: graphs allocated
  AnyTopology   \* the next graph may be wired otherwise and not only be of another size

Tensors(g) == 1..Len(g)
Leafs(g) == {t \in Tensors(g) : g[t].op = "leaf"}

\* "view" stands for the operations that compute nothing (reshape, permute, ...), "inplace" for those of ggml_op_can_inplace,
\* "dependency" for a view without an operation, with which the scheduler keeps a tensor until its turn.
Ops == {"leaf", "view", "plain", "inplace", "dependency"}

\* view is the tensor that holds the data, which need not be a source and is no view itself: ggml_new_tensor_impl resolves views
\* of views. A tensor that computes something and is a view writes into what it views (cpy, set_rows). A tensor is external when
\* its data lies elsewhere (weights, the cache); a view of a tensor outside of the graph counts as one.
TensorRecord == [op : Ops, src : Seq(Nat), view : Nat, size : Nat, external : BOOLEAN, output : BOOLEAN]

Own(g, t) == g[t].view = 0 /\ ~g[t].external
Root(g, t) == IF g[t].view # 0 THEN g[t].view ELSE t

\* Tensors flagged as inputs are leafs: ggml_set_input is only called for tensors without an operation.
IsGraph(g) ==
  /\ g \in Seq(TensorRecord)
  /\ \A t \in Tensors(g) :
       /\ Len(g[t].src) <= MaxSrc
       /\ \A i \in 1..Len(g[t].src) : g[t].src[i] \in 1..t - 1 /\ g[g[t].src[i]].op # "dependency"
       /\ g[t].op = "leaf" => g[t].src = <<>> /\ g[t].view = 0 /\ \A u \in 1..t - 1 : g[u].op = "leaf"
       /\ g[t].op \in {"view", "dependency"} => g[t].view # 0
       /\ g[t].view # 0 => g[t].view \in 1..t - 1 /\ g[g[t].view].view = 0 /\ ~g[t].external
       /\ IF Own(g, t) THEN g[t].size \in Sizes ELSE g[t].size = 0

ASSUME GraphAllocAssumption ==
  /\ MaxSrc \in Nat
  /\ \A g \in Graphs : IsGraph(g)
  /\ MaxRounds \in Nat /\ AnyTopology \in BOOLEAN

VARIABLES
  cgraph,      \* the graph at hand
  node,        \* the tensor whose turn it is in the walk, the one after the last for the buffers; 0 between two walks
  step,        \* its parents are allocated first, then it is, then its parents are released
  n_children,  \* per tensor: reads to come
  n_views,     \* per tensor: views of it still to be read
  allocated,   \* the tensors that own their place
  addr,        \* per tensor: its chunk and offset
  reserved,    \* the graph the plan was made for, whose sizes are the plan's size_max
  buffer,      \* per chunk: the size of its buffer
  rounds       \* graphs allocated

graphVars == <<cgraph, node, step, n_children, n_views, allocated, addr, reserved, buffer, rounds>>

IsView(t) == cgraph[t].view # 0
SameLayout(t, s) == cgraph[t].size = cgraph[s].size

Place(t) == Block(addr[t].offset, cgraph[t].size)

\* What the nodes read: the i-th source of t is <<t, i>>.
AllReads(g) == {p \in Tensors(g) \X (1..MaxSrc) : p[2] <= Len(g[p[1]].src)}
Source(g, p) == g[p[1]].src[p[2]]
Reads(g, t) == Cardinality({p \in AllReads(g) : Source(g, p) = t})
ViewsOf(g, t) == {u \in Tensors(g) : g[u].view = t /\ g[u].op # "dependency"}

NoPlace == [chunk |-> 0, offset |-> 0]

\* The tallocr is reset, the tables are cleared, children and views counted. Inputs are leafs, whose turn comes first: allocating
\* them here once more does nothing.
StartWalk(g) ==
  /\ cgraph' = g
  /\ node' = 1 /\ step' = 1
  /\ n_children' = [t \in Tensors(g) |-> Reads(g, t)]
  /\ n_views' = [t \in Tensors(g) |-> Cardinality(ViewsOf(g, t))]
  /\ allocated' = {}
  /\ addr' = [t \in Tensors(g) |-> NoPlace]
  /\ chunks' = <<>> /\ live' = <<>>

GraphInitIn(rounds0) ==
  /\ TallocrInit
  /\ cgraph = <<>> /\ node = 0 /\ step = 0 /\ n_children = <<>> /\ n_views = <<>> /\ allocated = {} /\ addr = <<>>
  /\ reserved = <<>> /\ buffer = <<>>
  /\ rounds \in rounds0

GraphInit == GraphInitIn({0})

\* The walk of ggml_gallocr_alloc_graph_impl: the leafs, which have no parents; then for each node its parents, which are
\* there already, the node itself, and the parents' release.
Parents == Len(cgraph[node].src)
Allocates(t) ==
  /\ node \in Tensors(cgraph)
  /\ \/ step <= Parents /\ t = cgraph[node].src[step]
     \/ step = Parents + 1 /\ t = node
Releases(t) == node \in Tensors(cgraph) /\ step > Parents + 1 /\ t = cgraph[node].src[step - Parents - 1]

NextStep ==
  IF step <= 2 * Parents THEN step' = step + 1 /\ UNCHANGED node ELSE step' = 1 /\ node' = node + 1

FaultyReusable(t, s) ==
  /\ cgraph[t].op = "inplace"
  /\ s \in allocated
  /\ ~cgraph[s].output
  /\ SameLayout(t, s)
  /\ n_views[s] = 0

\* A parent whose place the node may take over: this node is its last reader, and it is neither external, nor an output, nor
\* viewed. A view never owns a place, so the branch for parents that are views is never taken. Sizes stand for layouts.
Reusable(t, s) ==
  /\ cgraph[t].op = "inplace"
  /\ s \in allocated
  /\ ~cgraph[s].output
  /\ SameLayout(t, s)
  /\ n_children[s] = 1
  /\ n_views[s] = 0

HasPlace(t) == t \in allocated \/ ~Own(cgraph, t)

\* ggml_gallocr_allocate_node: nothing to do, ...
AllocateNothing(t) ==
  /\ Allocates(t)
  /\ HasPlace(t)
  /\ NextStep
  /\ UNCHANGED <<tallocrVars, cgraph, n_children, n_views, allocated, addr, reserved, buffer, rounds>>

\* ... the first parent that will do gives its place, ...
AllocateInplace(t) ==
  /\ Allocates(t)
  /\ ~HasPlace(t)
  /\ \E i \in 1..Len(cgraph[t].src) :
       LET s == cgraph[t].src[i] IN
         /\ Reusable(t, s)
         /\ \A j \in 1..i - 1 : ~Reusable(t, cgraph[t].src[j])
         /\ addr' = [addr EXCEPT ![t] = addr[s]]
         /\ allocated' = (allocated \cup {t}) \ {s}
  /\ NextStep
  /\ UNCHANGED <<tallocrVars, cgraph, n_children, n_views, reserved, buffer, rounds>>

\* ... or the tensor gets a new one.
AllocateNode(t) ==
  /\ Allocates(t)
  /\ ~HasPlace(t)
  /\ \A i \in 1..Len(cgraph[t].src) : ~Reusable(t, cgraph[t].src[i])
  /\ \E c \in 1..Len(chunks) + 1 : \E offset \in Offsets(c) :
       /\ Alloc(cgraph[t].size, c, offset)
       /\ addr' = [addr EXCEPT ![t] = [chunk |-> c, offset |-> offset]]
  /\ allocated' = allocated \cup {t}
  /\ NextStep
  /\ UNCHANGED <<cgraph, n_children, n_views, reserved, buffer, rounds>>

FaultyFreeNode(t) ==
  /\ FreeBytes(addr[t].chunk, Place(t), 0)
  /\ allocated' = allocated \ {t}

\* ggml_gallocr_free_node: outputs are never freed.
FreeNode(t) ==
  IF cgraph[t].output
  THEN UNCHANGED <<tallocrVars, allocated>>
  ELSE /\ FreeBytes(addr[t].chunk, Place(t), 0)
       /\ allocated' = allocated \ {t}

\* One parent's turn after its reader: the last read of a tensor frees it, the last read of a view counts for what it views.
\* Only the flag of the tensor that holds the data is looked at.
Release(s) ==
  /\ Releases(s)
  /\ n_children' = [n_children EXCEPT ![s] = @ - 1]
  /\ LET over == n_children[s] = 1 /\ n_views[s] = 0
         root == Root(cgraph, s)
         views == IF over /\ IsView(s) THEN [n_views EXCEPT ![root] = @ - 1] ELSE n_views
     IN /\ n_views' = views
        /\ IF over /\ views[root] = 0 /\ n_children'[root] = 0 /\ root \in allocated
           THEN FreeNode(root)
           ELSE UNCHANGED <<tallocrVars, allocated>>
  /\ NextStep
  /\ UNCHANGED <<cgraph, addr, reserved, buffer, rounds>>

\* The end of ggml_gallocr_reserve_n_impl: the buffers are made anew if one of them has become too small.
ReallocBuffers ==
  /\ node = Len(cgraph) + 1
  /\ reserved' = cgraph
  /\ buffer' = IF \E c \in Chunks : c > Len(buffer) \/ chunks[c].max_size > buffer[c]
               THEN [c \in Chunks |-> chunks[c].max_size]
               ELSE buffer
  /\ node' = 0 /\ step' = 0
  /\ UNCHANGED <<tallocrVars, cgraph, n_children, n_views, allocated, addr, rounds>>

\* ggml_gallocr_node_needs_realloc, turned round: the place kept for u is good for t of g.
StillFits(g, t, u) == Own(g, t) => Own(reserved, u) /\ reserved[u].size >= g[t].size

FaultyNeedsRealloc(g) ==
  \/ Len(reserved) # Len(g)
  \/ Cardinality(Leafs(reserved)) # Cardinality(Leafs(g))

NeedsRealloc(g) ==
  \/ Len(reserved) # Len(g)
  \/ Cardinality(Leafs(reserved)) # Cardinality(Leafs(g))
  \/ \E t \in Tensors(g) \ Leafs(g) :
       \/ ~StillFits(g, t, t)
       \/ \E i \in 1..Len(g[t].src) :
            IF i <= Len(reserved[t].src)
            THEN ~StillFits(g, g[t].src[i], reserved[t].src[i])
            ELSE Own(g, g[t].src[i])

\* The graph with other sizes: what was of one size still is.
Resized(g) == {[t \in Tensors(g) |-> [g[t] EXCEPT !.size = IF @ = 0 THEN 0 ELSE f[@]]] : f \in [Sizes -> Sizes]}
NextGraphs == IF rounds = 0 \/ AnyTopology THEN Graphs ELSE Resized(cgraph)

\* ggml_gallocr_alloc_graph: a new plan, or the addresses of the old one.
AllocGraph(g) ==
  /\ node = 0
  /\ rounds < MaxRounds
  /\ rounds' = rounds + 1
  /\ IF NeedsRealloc(g)
     THEN StartWalk(g)
     ELSE cgraph' = g /\ UNCHANGED <<tallocrVars, node, step, n_children, n_views, allocated, addr>>
  /\ UNCHANGED <<reserved, buffer>>

GraphNext ==
  \/ \E g \in NextGraphs : AllocGraph(g)
  \/ \E t \in Tensors(cgraph) : AllocateNothing(t) \/ AllocateInplace(t) \/ AllocateNode(t) \/ Release(t)
  \/ ReallocBuffers

GraphAllocSpec == GraphInit /\ [][GraphNext]_<<tallocrVars, graphVars>>
-------------------------------------------------------------------------------
Owners == {t \in Tensors(cgraph) : Own(cgraph, t)}

Computes(t) == cgraph[t].op \in {"plain", "inplace"}
Writes(t) == Computes(t) \/ t \in Leafs(cgraph)

\* When a tensor is written: leafs before the first node, a node in its turn.
Written(g, t) == IF t \in Leafs(g) THEN 0 ELSE t

Shares(t, u) == addr[t].chunk = addr[u].chunk /\ ~(End(Place(t)) <= addr[u].offset \/ End(Place(u)) <= addr[t].offset)

IsRead(g, t) == \E p \in AllReads(g) : Source(g, p) = t

\* The plan is for a graph like the one at hand: of the same wiring, with the same layouts equal, and no leaf that is not read has
\* grown. ggml_gallocr_needs_realloc looks at the sizes of the nodes and of what they read, and at nothing else.
PlanApplies ==
  /\ Len(cgraph) = Len(reserved)
  /\ \A t \in Tensors(cgraph) : [cgraph[t] EXCEPT !.size = 0] = [reserved[t] EXCEPT !.size = 0]
  /\ \A t, s \in Tensors(cgraph) : reserved[t].size = reserved[s].size => SameLayout(t, s)
  /\ \A t \in Leafs(cgraph) : IsRead(cgraph, t) \/ cgraph[t].size <= reserved[t].size

\* The writers that may spoil what s holds after the tensor o was written, until the turn of k: writers to other tensors, directly
\* or through a view of them.
Overwrites(w, s, o, k) ==
  /\ Writes(w) /\ Root(cgraph, w) \in Owners \ {s}
  /\ Written(cgraph, o) <= Written(cgraph, w) /\ Written(cgraph, w) <= k
  /\ Shares(Root(cgraph, w), s)

GraphReads ==
  \A k \in Tensors(cgraph) : Computes(k) =>
    \A i \in 1..Len(cgraph[k].src) : \A w \in Tensors(cgraph) :
      LET s == Root(cgraph, cgraph[k].src[i]) IN
        s \in Owners /\ Overwrites(w, s, s, k) => w = k /\ cgraph[k].op = "inplace" /\ addr[k] = addr[s] /\ SameLayout(k, s)

\* While a node is computed, each tensor that it reads, itself or through a view, still has what was written to it: nothing else
\* was written there since, and the node's own place is none of theirs, unless it works in place. This is for graphs like the one
\* that the plan was made for. Code: ggml_gallocr_allocate_node, ggml_gallocr_free_node.
ReadsWhatWasWritten == node = 0 /\ PlanApplies => GraphReads

\* So it is for every graph that is allocated. Doc: "automatic reallocation if the topology changes when using a single buffer"
\* (ggml-alloc.h). Code: ggml_gallocr_needs_realloc, which compares sizes and not the wiring.
ReadsInEveryGraph == node = 0 => GraphReads

StaysUntilDone(o) ==
  LET s == Root(cgraph, o) IN
    s \in Owners => \A w \in Tensors(cgraph) : ~Overwrites(w, s, o, Len(cgraph))

\* An output that owns its place, or is a view that no node reads, is there when the graph is done. An output view that a later
\* node reads may be overwritten. Code: ggml_gallocr_free_node.
OutputsStay ==
  node = 0 /\ PlanApplies =>
    \A o \in Tensors(cgraph) : cgraph[o].output /\ (IsView(o) => cgraph[o].op # "dependency" /\ ~IsRead(cgraph, o)) => StaysUntilDone(o)

\* Every output is there when the graph is done. Doc: "output tensors are never freed and never overwritten" (ggml-alloc.h).
\* Code: ggml_gallocr_free_node, which looks at the flag of the tensor that is viewed and not at that of the view.
EveryOutputStays == node = 0 /\ PlanApplies => \A o \in Tensors(cgraph) : cgraph[o].output => StaysUntilDone(o)

\* Every tensor lies in the buffer of its chunk, also when an old plan and old buffers are used again for another graph; leafs do
\* when that one is like the plan's. Code: ggml_gallocr_reserve_n_impl, ggml_gallocr_needs_realloc.
InBuffer ==
  node = 0 =>
    \A t \in Owners :
      \/ addr[t].chunk \in 1..Len(buffer) /\ End(Place(t)) <= buffer[addr[t].chunk]
      \/ t \in Leafs(cgraph) /\ ~PlanApplies
===============================================================================
