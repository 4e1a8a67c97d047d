----------------------------- MODULE StaticRTree -----------------------------
(* The packed R-tree of road segments (static_rtree.hpp, rectangle.hpp): the  *)
(* segments fill the leaves in the order of their Hilbert codes, the nodes of *)
(* a level fill those above, and all levels lie in one vector, root first.    *)
(* Positions count from 0.                                                    *)
(* Coordinates are points <<lon, lat>> with whole numbers and segments run    *)
(* along an axis, so the nearest point of a segment is a point as well;       *)
(* Mercator's and the great circle's measure are both the plane's.            *)
EXTENDS Iteration, SequencesExt

CONSTANTS Location,                    \* node |-> point
          BranchingFactor, LeafSize

ASSUME TreeAssumption == BranchingFactor \in Nat \ {0, 1} /\ LeafSize \in Nat \ {0}

Squared(p, q) == (p[1] - q[1]) * (p[1] - q[1]) + (p[2] - q[2]) * (p[2] - q[2])
Within(x, low, high) == Min({Max({x, low}), high})

-----------------------------------------------------------------------------
(* Rectangles.                                                                *)

\* MergeBoundingBoxes.
Merged(boxes) ==
    [min |-> <<Min({b.min[1] : b \in boxes}), Min({b.min[2] : b \in boxes})>>,
     max |-> <<Max({b.max[1] : b \in boxes}), Max({b.max[2] : b \in boxes})>>]

Around(segment) == Merged({[min |-> p, max |-> p] : p \in {Location[segment.u], Location[segment.v]}})

NearestIn(box, p) == <<Within(p[1], box.min[1], box.max[1]), Within(p[2], box.min[2], box.max[2])>>

\* GetMinSquaredDist: to the side or the corner of the box that the point looks at.
GetMinSquaredDist(box, p) == Squared(p, NearestIn(box, p))

Intersects(a, b) ==
    ~(a.max[1] < b.min[1] \/ a.min[1] > b.max[1] \/ a.max[2] < b.min[2] \/ a.min[2] > b.max[2])

-----------------------------------------------------------------------------
(* The tree over a sequence of segments.                                      *)

Full(count, size) == (count + size - 1) \div size

\* The boxes of the levels, leaves first, until one node holds all.
Levels(objects) ==
    LET Group(boxes, size) ==
            Computed([i \in 1..Full(Len(boxes), size) |->
                Merged({boxes[j] : j \in (i - 1) * size + 1..Min({i * size, Len(boxes)})})])
        Raise(levels, i) ==
            IF Len(levels[Len(levels)]) = 1 THEN levels
            ELSE Append(levels, Group(levels[Len(levels)], BranchingFactor))
    IN Iterate(Raise, <<Group(Computed([i \in DOMAIN objects |-> Around(objects[i])]), LeafSize)>>, Len(objects))

\* The constructor; starts[l] is where level l begins, its last entry the end of the tree.
Tree(objects) ==
    LET Packed(rootFirst, all) ==
            [objects |-> Computed([i \in 0..Len(objects) - 1 |-> objects[i + 1]]),
             nodes |-> Computed([i \in 0..Len(all) - 1 |-> all[i + 1]]),
             starts |-> Computed([l \in 0..Len(rootFirst) |->
                            FoldSet(LAMBDA k, sum : sum + Len(rootFirst[k]), 0, 1..l)])]
    IN CHOOSE tree \in UNION {{Packed(rootFirst, all) : all \in {FlattenSeq(rootFirst)}} :
                              rootFirst \in {Reverse(Levels(objects))}} : TRUE

is_leaf(tree, index) == index.level = Cardinality(DOMAIN tree.starts) - 2

\* Positions of the children: objects below a leaf, nodes below the others.
child_indexes(tree, parent) ==
    LET first == IF is_leaf(tree, parent) THEN parent.offset * LeafSize
                 ELSE tree.starts[parent.level + 1] + parent.offset * BranchingFactor
        size == IF is_leaf(tree, parent) THEN LeafSize ELSE BranchingFactor
        end == IF is_leaf(tree, parent) THEN Cardinality(DOMAIN tree.objects) ELSE tree.starts[parent.level + 2]
    IN first..Min({first + size, end}) - 1

Below(tree, parent, i) == [level |-> parent.level + 1, offset |-> i - tree.starts[parent.level + 1]]

Root == [level |-> 0, offset |-> 0]

\* How the levels of a tree fit together: one root, as many nodes on a level as
\* it takes to hold those of the next one, and what is below a node in its box.
Height(tree) == Cardinality(DOMAIN tree.starts) - 1
NodesOn(tree, l) == tree.starts[l + 1] - tree.starts[l]
IsBox(box) == /\ box \in [min : Int \X Int, max : Int \X Int]
              /\ box.min[1] <= box.max[1] /\ box.min[2] <= box.max[2]
Encloses(outer, inner) == /\ outer.min[1] <= inner.min[1] /\ inner.max[1] <= outer.max[1]
                          /\ outer.min[2] <= inner.min[2] /\ inner.max[2] <= outer.max[2]
BoxOf(tree, node) == tree.nodes[tree.starts[node.level] + node.offset]

Packed(tree) ==
    LET height == Height(tree)
        count == Cardinality(DOMAIN tree.objects)
    IN /\ height \in Nat \ {0} /\ tree.starts \in [0..height -> Nat] /\ tree.starts[0] = 0
       /\ NodesOn(tree, 0) = 1
       /\ \A l \in 0..height - 2 : NodesOn(tree, l) = Full(NodesOn(tree, l + 1), BranchingFactor)
       /\ count \in Nat /\ DOMAIN tree.objects = 0..count - 1
       /\ NodesOn(tree, height - 1) = Full(count, LeafSize)
       /\ \A l \in 0..height - 1 : \A o \in 0..NodesOn(tree, l) - 1 : \A node \in {[level |-> l, offset |-> o]} :
              /\ IsBox(BoxOf(tree, node))
              /\ \A i \in child_indexes(tree, node) :
                     Encloses(BoxOf(tree, node), IF is_leaf(tree, node) THEN Around(tree.objects[i]) ELSE tree.nodes[i])

-----------------------------------------------------------------------------
(* SearchInBox: down the nodes that meet the box.                             *)

SearchInBox(tree, box) ==
    LET Down(front, l) ==
            UNION {{Below(tree, parent, i) : i \in {j \in child_indexes(tree, parent) : Intersects(tree.nodes[j], box)}} :
                   parent \in front}
        leaves == Iterate(Down, {Root}, Cardinality(DOMAIN tree.starts) - 2)
        found == UNION {child_indexes(tree, leaf) : leaf \in leaves}
    IN {tree.objects[i] : i \in {j \in found : Intersects(Around(tree.objects[j]), box)}}

-----------------------------------------------------------------------------
(* Candidates of a search for the nearest: tree nodes and segments.           *)

NoSegment == -1

\* ExploreLeafNode.
ExploreLeafNode(tree, leaf, point) ==
    {LET at == NearestIn(Around(tree.objects[i]), point)
     IN [dist |-> Squared(point, at), index |-> leaf, segment |-> i, at |-> at] : i \in child_indexes(tree, leaf)}

\* ExploreTreeNode.
ExploreTreeNode(tree, parent, point) ==
    {[dist |-> GetMinSquaredDist(tree.nodes[i], point), index |-> Below(tree, parent, i),
      segment |-> NoSegment, at |-> point] : i \in child_indexes(tree, parent)}
=============================================================================
