------------------------------ MODULE BTreeMap ------------------------------
(* alloc::collections::BTreeMap: nodes on a heap, each with a link to its    *)
(* parent and the index it has there, which insertion, removal and the       *)
(* iterators climb.  Keys and values are moved together and only the key     *)
(* decides where to: an entry is its key.  Entries have the even numbers in  *)
(* order, so that a key can be inserted anywhere between them.               *)
(*                                                                           *)
(* What a call does depends on the tree alone.  Init is a tree in which all  *)
(* nodes have the least length but a few neighbours, the ones a call may     *)
(* rearrange; a behaviour is one call.  items and wanted are what the call   *)
(* means for ordered sets: the maps it leaves and the entries it hands out.  *)
EXTENDS Integers, SequencesExt, TLC

CONSTANTS B,        \* half of the edges a full node has
          LargestKey, \* bound of the keys, above all that Init and the calls use
          MaxScanned, MaxScannedDeep, \* entries, in trees of height 1 and 2, with every range and filter
          MaxAppended \* entries of a map appended to another

VARIABLES maps,     \* the nodes of all maps, mem, and the root and length of each, map
          items,    \* the entries each map should have
          got,      \* what the call handed out
          wanted,   \* what it should have
          called

vars == <<maps, items, got, wanted, called>>

CAPACITY == 2 * B - 1
MIN_LEN == B - 1
KV_IDX_CENTER == B - 1

None == 0

NewNode(keys, edges) == [keys |-> keys, edges |-> edges, parent |-> None, parent_idx |-> 0]

len(h, n) == Len(h[n].keys)
IsLeaf(h, n) == h[n].edges = <<>>
key_at(h, n, i) == h[n].keys[i + 1]
descend(h, n, i) == h[n].edges[i + 1]

(* Some of a node's edges; a leaf has none.                                  *)
Edges(edges, from, to) == IF edges = <<>> THEN <<>> ELSE SubSeq(edges, from, to)

Fresh(h) == CHOOSE n \in 1..Cardinality(DOMAIN h) + 1 : n \notin DOMAIN h
Free(h, n) == <<>> @@ Restrict(h, DOMAIN h \ {n}) \* the union has TLC tabulate the function

(* The children from..to of n are told their parent and index.               *)
correct_childrens_parent_links(h, n, from, to) ==
    FoldLeft(LAMBDA g, i : [g EXCEPT ![descend(h, n, i)].parent = n, ![descend(h, n, i)].parent_idx = i],
             h, [i \in 1..to - from + 1 |-> from + i - 1])

Relinked(h, n, from, to) == IF IsLeaf(h, n) THEN h ELSE correct_childrens_parent_links(h, n, from, to)

-----------------------------------------------------------------------------
(* Insertion.                                                                *)

(* The entry k, and in an internal node the subtree right of it.             *)
insert_fit(h, n, i, k, edge) ==
    LET Linked(g) == IF edge = None THEN g ELSE correct_childrens_parent_links(g, n, i + 1, len(g, n))
    IN  Linked([h EXCEPT ![n].keys = InsertAt(@, i + 1, k),
                         ![n].edges = IF edge = None THEN @ ELSE InsertAt(@, i + 2, edge)])

(* What lies right of entry i becomes a node of its own.                     *)
split(h, n, i) ==
    LET x == h[n]
        rest == NewNode(SubSeq(x.keys, i + 2, Len(x.keys)), Edges(x.edges, i + 2, Len(x.edges)))
        Linked(g, right) == [mem |-> Relinked(g, right, 0, len(g, right)), kv |-> key_at(h, n, i), right |-> right]
    IN  Linked([h EXCEPT ![n].keys = SubSeq(@, 1, i), ![n].edges = Edges(@, 1, i + 1)] @@ (Fresh(h) :> rest),
               Fresh(h))

(* Where a full node is split for an insertion at edge i, and whether and    *)
(* where the insertion goes to the right half.                               *)
splitpoint(i) ==
    CASE i < B - 1 -> [middle |-> KV_IDX_CENTER - 1, right |-> FALSE, at |-> i]
      [] i = B - 1 -> [middle |-> KV_IDX_CENTER, right |-> FALSE, at |-> i]
      [] i = B -> [middle |-> KV_IDX_CENTER, right |-> TRUE, at |-> 0]
      [] i > B -> [middle |-> KV_IDX_CENTER + 1, right |-> TRUE, at |-> i - (KV_IDX_CENTER + 1 + 1)]

push_internal_level(h, root) ==
    LET top == Fresh(h) IN correct_childrens_parent_links(h @@ (top :> NewNode(<<>>, <<root>>)), top, 0, 0)

pop_internal_level(h, root) ==
    LET child == descend(h, root, 0) IN Free([h EXCEPT ![child].parent = None], root)

push(h, n, k, edge) == insert_fit(h, n, len(h, n), k, edge)

RECURSIVE insert_recursing(_, _, _, _, _, _)
insert_recursing(h, root, n, i, k, edge) ==
    LET Raise(g, top, s) == [mem |-> push(push_internal_level(g, root), top, s.kv, s.right), root |-> top]
        Up(g, s) == IF g[n].parent = None THEN Raise(g, Fresh(g), s)
                    ELSE insert_recursing(g, root, g[n].parent, g[n].parent_idx, s.kv, s.right)
        Fit(p, s) == Up(insert_fit(s.mem, IF p.right THEN s.right ELSE n, p.at, k, edge), s)
        Split(p) == Fit(p, split(h, n, p.middle))
    IN  IF len(h, n) < CAPACITY THEN [mem |-> insert_fit(h, n, i, k, edge), root |-> root]
        ELSE Split(splitpoint(i))

-----------------------------------------------------------------------------
(* Search and navigation.  A handle is a node and the index of an entry or   *)
(* an edge in it.                                                            *)

search_node(h, n, k) ==
    LET At(i) == [idx |-> i, found |-> i < len(h, n) /\ key_at(h, n, i) = k]
    IN  At(Cardinality({i \in 0..len(h, n) - 1 : key_at(h, n, i) < k}))

RECURSIVE search_tree(_, _, _)
search_tree(h, n, k) ==
    LET Down(s) == IF s.found \/ IsLeaf(h, n) THEN [node |-> n, idx |-> s.idx, found |-> s.found]
                   ELSE search_tree(h, descend(h, n, s.idx), k)
    IN  Down(search_node(h, n, k))

Handle(n, i) == [node |-> n, idx |-> i]

RECURSIVE first_leaf_edge(_, _)
first_leaf_edge(h, n) == IF IsLeaf(h, n) THEN Handle(n, 0) ELSE first_leaf_edge(h, descend(h, n, 0))

RECURSIVE last_leaf_edge(_, _)
last_leaf_edge(h, n) == IF IsLeaf(h, n) THEN Handle(n, len(h, n)) ELSE last_leaf_edge(h, descend(h, n, len(h, n)))

(* The entry after, or before, an edge; Handle(None, 0) past the last one.   *)
RECURSIVE next_kv(_, _)
next_kv(h, e) ==
    IF e.node = None \/ e.idx < len(h, e.node) THEN e
    ELSE next_kv(h, Handle(h[e.node].parent, h[e.node].parent_idx))

RECURSIVE next_back_kv(_, _)
next_back_kv(h, e) ==
    IF e.node = None THEN e
    ELSE IF e.idx > 0 THEN Handle(e.node, e.idx - 1)
    ELSE next_back_kv(h, Handle(h[e.node].parent, h[e.node].parent_idx))

next_leaf_edge(h, kv) ==
    IF IsLeaf(h, kv.node) THEN Handle(kv.node, kv.idx + 1)
    ELSE first_leaf_edge(h, descend(h, kv.node, kv.idx + 1))

next_back_leaf_edge(h, kv) ==
    IF IsLeaf(h, kv.node) THEN kv ELSE last_leaf_edge(h, descend(h, kv.node, kv.idx))

-----------------------------------------------------------------------------
(* Balancing: c is an entry of a parent and the two children beside it.      *)

consider_for_balancing(h, n, i) ==
    [parent |-> n, idx |-> i, left |-> descend(h, n, i), right |-> descend(h, n, i + 1)]

can_merge(h, c) == len(h, c.left) + 1 + len(h, c.right) <= CAPACITY

(* Entry and right child are appended to the left child.                     *)
merge(h, c) ==
    LET r == h[c.right]
        Linked(g) ==
            Relinked(correct_childrens_parent_links(g, c.parent, c.idx + 1, len(g, c.parent)),
                     c.left, len(h, c.left) + 1, len(g, c.left))
    IN  Free(Linked([h EXCEPT ![c.left].keys = @ \o <<key_at(h, c.parent, c.idx)>> \o r.keys,
                              ![c.left].edges = @ \o r.edges,
                              ![c.parent].keys = RemoveAt(@, c.idx + 1),
                              ![c.parent].edges = RemoveAt(@, c.idx + 2)]),
             c.right)

(* count entries go from one child through the parent to the other.          *)
bulk_steal_left(h, c, count) ==
    LET l == h[c.left]
        rest == Len(l.keys) - count
        Linked(g) == Relinked(Relinked(g, c.right, count, len(g, c.right)), c.right, 0, count - 1)
    IN  Linked([h EXCEPT ![c.left].keys = SubSeq(@, 1, rest),
                         ![c.left].edges = Edges(@, 1, rest + 1),
                         ![c.parent].keys[c.idx + 1] = l.keys[rest + 1],
                         ![c.right].keys = SubSeq(l.keys, rest + 2, Len(l.keys))
                                               \o <<key_at(h, c.parent, c.idx)>> \o @,
                         ![c.right].edges = Edges(l.edges, rest + 2, Len(l.edges)) \o @])

bulk_steal_right(h, c, count) ==
    LET r == h[c.right]
        old == len(h, c.left)
        Linked(g) == Relinked(Relinked(g, c.left, old + 1, old + count), c.right, 0, len(g, c.right))
    IN  Linked([h EXCEPT ![c.left].keys = @ \o <<key_at(h, c.parent, c.idx)>> \o SubSeq(r.keys, 1, count - 1),
                         ![c.left].edges = @ \o Edges(r.edges, 1, count),
                         ![c.parent].keys[c.idx + 1] = r.keys[count],
                         ![c.right].keys = SubSeq(@, count + 1, Len(@)),
                         ![c.right].edges = Edges(@, count + 1, Len(@))])

steal_left(h, c) ==
    LET l == h[c.left]
        Linked(g) == Relinked(g, c.right, 0, len(g, c.right))
    IN  Linked([h EXCEPT ![c.left].keys = Front(@),
                         ![c.left].edges = IF @ = <<>> THEN @ ELSE Front(@),
                         ![c.parent].keys[c.idx + 1] = Last(l.keys),
                         ![c.right].keys = <<key_at(h, c.parent, c.idx)>> \o @,
                         ![c.right].edges = IF @ = <<>> THEN @ ELSE <<Last(l.edges)>> \o @])

steal_right(h, c) ==
    LET r == h[c.right]
        Linked(g) == Relinked(Relinked(g, c.right, 0, len(g, c.right)), c.left, len(g, c.left), len(g, c.left))
    IN  Linked([h EXCEPT ![c.right].keys = Tail(@),
                         ![c.right].edges = IF @ = <<>> THEN @ ELSE Tail(@),
                         ![c.parent].keys[c.idx + 1] = Head(r.keys),
                         ![c.left].keys = Append(@, key_at(h, c.parent, c.idx)),
                         ![c.left].edges = IF @ = <<>> THEN @ ELSE Append(@, Head(r.edges))])

-----------------------------------------------------------------------------
(* Removal.  t is a heap, its root and whether the root has been emptied.    *)

(* The sibling with which an underfull node is balanced: the left one, or    *)
(* the right one of a leftmost node.                                         *)
choose_parent_kv(h, n) ==
    LET p == h[n].parent
        i == h[n].parent_idx
    IN  consider_for_balancing(h, p, IF i > 0 THEN i - 1 ELSE 0)

(* An underfull node is merged with that sibling or takes an entry from it;  *)
(* pos is where its edge i has gone.                                         *)
StockUp(h, n, i) ==
    LET With(c) ==
            IF can_merge(h, c)
            THEN [mem |-> merge(h, c), merged |-> TRUE,
                  pos |-> Handle(c.left, IF c.right = n THEN len(h, c.left) + 1 + i ELSE i)]
            ELSE IF c.right = n THEN [mem |-> steal_left(h, c), merged |-> FALSE, pos |-> Handle(n, 1 + i)]
            ELSE [mem |-> steal_right(h, c), merged |-> FALSE, pos |-> Handle(n, i)]
    IN  IF h[n].parent = None THEN [mem |-> h, pos |-> Handle(n, i), merged |-> FALSE]
        ELSE With(choose_parent_kv(h, n))

(* An emptied root is popped at once (DrainFilter) or by the caller.         *)
handle_emptied_internal_root(t, eager) ==
    IF eager THEN [t EXCEPT !.mem = pop_internal_level(t.mem, t.root), !.root = descend(t.mem, t.root, 0)]
    ELSE [t EXCEPT !.emptied = TRUE]

RECURSIVE handle_shrunk_node_recursively(_, _, _)
handle_shrunk_node_recursively(t, n, eager) ==
    LET Up(s) == IF ~s.merged THEN [t EXCEPT !.mem = s.mem]
                 ELSE handle_shrunk_node_recursively([t EXCEPT !.mem = s.mem], s.mem[s.pos.node].parent, eager)
    IN  IF len(t.mem, n) = 0 THEN handle_emptied_internal_root(t, eager)
        ELSE IF len(t.mem, n) >= MIN_LEN THEN t
        ELSE Up(StockUp(t.mem, n, 0))

remove_leaf_kv(t, kv, eager) ==
    LET Up(u, parent) == IF parent = None THEN u ELSE handle_shrunk_node_recursively(u, parent, eager)
        Stocked(s) == [t |-> Up([t EXCEPT !.mem = s.mem], s.mem[s.pos.node].parent), pos |-> s.pos]
        Removed(g) == IF len(g, kv.node) >= MIN_LEN THEN [t |-> [t EXCEPT !.mem = g], pos |-> kv]
                      ELSE Stocked(StockUp(g, kv.node, kv.idx))
    IN  Removed([t.mem EXCEPT ![kv.node].keys = RemoveAt(@, kv.idx + 1)])

(* The entry before it, which is in a leaf, is put in its place.             *)
remove_internal_kv(t, kv, eager) ==
    LET Placed(r, hole, k) ==
            LET g == [r.t.mem EXCEPT ![hole.node].keys[hole.idx + 1] = k]
            IN  [t |-> [r.t EXCEPT !.mem = g], pos |-> next_leaf_edge(g, hole)]
        Back(r, k) == Placed(r, next_kv(r.t.mem, r.pos), k)
        From(before) == Back(remove_leaf_kv(t, before, eager), key_at(t.mem, before.node, before.idx))
    IN  From(next_back_kv(t.mem, last_leaf_edge(t.mem, descend(t.mem, kv.node, kv.idx))))

remove_kv_tracking(t, kv, eager) ==
    IF IsLeaf(t.mem, kv.node) THEN remove_leaf_kv(t, kv, eager) ELSE remove_internal_kv(t, kv, eager)

(* OccupiedEntry::remove_kv.                                                 *)
remove_kv(h, root, kv) ==
    LET Popped(t) == IF t.emptied THEN handle_emptied_internal_root(t, TRUE) ELSE t
    IN  Popped(remove_kv_tracking([mem |-> h, root |-> root, emptied |-> FALSE], kv, FALSE).t)

(* DrainFilter, to its end: from the edge e on, entries that S holds go.     *)
RECURSIVE drain_filter(_, _, _, _)
drain_filter(t, e, S, out) ==
    LET Past(r, k) == drain_filter(r.t, r.pos, S, Append(out, k))
        At(kv, k) == IF k \in S THEN Past(remove_kv_tracking(t, kv, TRUE), k)
                     ELSE drain_filter(t, next_leaf_edge(t.mem, kv), S, out)
        From(kv) == IF kv.node = None THEN [mem |-> t.mem, root |-> t.root, out |-> out]
                    ELSE At(kv, key_at(t.mem, kv.node, kv.idx))
    IN  From(next_kv(t.mem, e))

-----------------------------------------------------------------------------
(* Splitting a tree in two, and building one from a sorted sequence.         *)

RECURSIVE height(_, _)
height(h, n) == IF IsLeaf(h, n) THEN 0 ELSE 1 + height(h, descend(h, n, 0))

(* A new leaf below that many internal nodes without entries.                *)
RECURSIVE EmptyTree(_, _)
EmptyTree(h, levels) ==
    LET Leaf(n) == [mem |-> h @@ (n :> NewNode(<<>>, <<>>)), root |-> n]
        Below(t) == [mem |-> push_internal_level(t.mem, t.root), root |-> Fresh(t.mem)]
    IN  IF levels = 0 THEN Leaf(Fresh(h)) ELSE Below(EmptyTree(h, levels - 1))

(* All right of edge i of n moves to the empty node right.                   *)
move_suffix(h, n, i, right) ==
    LET x == h[n]
    IN  Relinked([h EXCEPT ![n].keys = SubSeq(@, 1, i), ![n].edges = Edges(@, 1, i + 1),
                           ![right].keys = SubSeq(x.keys, i + 1, Len(x.keys)),
                           ![right].edges = @ \o Edges(x.edges, i + 2, Len(x.edges))],
                 right, 1, Len(x.keys) - i)

RECURSIVE SplitDown(_, _, _, _)
SplitDown(h, left, right, k) ==
    LET Below(g, i) == IF IsLeaf(g, left) THEN g
                       ELSE SplitDown(g, descend(g, left, i), descend(g, right, 0), k)
        At(i) == Below(move_suffix(h, left, i, right), i)
    IN  At(search_node(h, left, k).idx)

RECURSIVE fix_top(_)
fix_top(t) ==
    IF ~IsLeaf(t.mem, t.root) /\ len(t.mem, t.root) = 0
    THEN fix_top([mem |-> pop_internal_level(t.mem, t.root), root |-> descend(t.mem, t.root, 0)])
    ELSE t

(* Deviation of Missing: one entry fewer.                                    *)
MissingForItself(h, n) == MIN_LEN - len(h, n)

(* One more than the least length, as the next level may merge two children. *)
Missing(h, n) == MIN_LEN + 1 - len(h, n)

RECURSIVE FixRightBelow(_, _)
FixRightBelow(h, n) ==
    LET Stolen(c, missing) == IF missing > 0 THEN bulk_steal_left(h, c, missing) ELSE h
        At(c) == IF can_merge(h, c) THEN FixRightBelow(merge(h, c), c.left)
                 ELSE FixRightBelow(Stolen(c, Missing(h, c.right)), c.right)
    IN  IF IsLeaf(h, n) THEN h ELSE At(consider_for_balancing(h, n, len(h, n) - 1))

RECURSIVE FixLeftBelow(_, _)
FixLeftBelow(h, n) ==
    LET Stolen(c, missing) == IF missing > 0 THEN bulk_steal_right(h, c, missing) ELSE h
        At(c) == IF can_merge(h, c) THEN FixLeftBelow(merge(h, c), c.left)
                 ELSE FixLeftBelow(Stolen(c, Missing(h, c.left)), c.left)
    IN  IF IsLeaf(h, n) THEN h ELSE At(consider_for_balancing(h, n, 0))

fix_right_border(t) ==
    LET Fixed(u) == fix_top([mem |-> FixRightBelow(u.mem, u.root), root |-> u.root]) IN Fixed(fix_top(t))

fix_left_border(t) ==
    LET Fixed(u) == fix_top([mem |-> FixLeftBelow(u.mem, u.root), root |-> u.root]) IN Fixed(fix_top(t))

(* Root::split_off: the heap after it and both roots.                        *)
split_off(h, root, k) ==
    LET Both(left, right) == [mem |-> right.mem, left |-> left.root, right |-> right.root]
        Right(left, new) == Both(left, fix_left_border([mem |-> left.mem, root |-> new]))
        Cut(t) == Right(fix_right_border([mem |-> SplitDown(t.mem, root, t.root, k), root |-> root]), t.root)
    IN  Cut(EmptyTree(h, height(h, root)))

RECURSIVE calc_length(_, _)
calc_length(h, n) ==
    FoldLeft(LAMBDA sum, child : sum + calc_length(h, child), len(h, n), h[n].edges)

(* The nearest node from n upwards that has room, None at the top.           *)
RECURSIVE OpenNode(_, _)
OpenNode(h, n) == IF n = None \/ len(h, n) < CAPACITY THEN n ELSE OpenNode(h, h[n].parent)

(* An entry goes to the last leaf, or to an ancestor of it with a new empty  *)
(* subtree right of it.                                                      *)
PushLast(t, k) ==
    LET Under(n, new) == push(new.mem, n, k, new.root)
        Into(u, n) == [mem |-> Under(n, EmptyTree(u, height(u, n) - 1)),
                       root |-> IF n \in DOMAIN t.mem THEN t.root ELSE n, length |-> t.length + 1]
        Open(leaf, n) == IF n = leaf THEN [t EXCEPT !.mem = push(t.mem, leaf, k, None), !.length = @ + 1]
                         ELSE IF n = None THEN Into(push_internal_level(t.mem, t.root), Fresh(t.mem))
                         ELSE Into(t.mem, n)
        From(leaf) == Open(leaf, OpenNode(t.mem, leaf))
    IN  From(last_leaf_edge(t.mem, t.root).node)

RECURSIVE PushAll(_, _)
PushAll(t, seq) ==
    IF t.length = Len(seq) THEN t ELSE PushAll(PushLast(t, seq[t.length + 1]), seq)

RECURSIVE FixRightEdge(_, _)
FixRightEdge(h, n) ==
    LET Stolen(c, missing) == IF missing > 0 THEN bulk_steal_left(h, c, missing) ELSE h
        At(c) == FixRightEdge(Stolen(c, MIN_LEN - len(h, c.right)), c.right)
    IN  IF IsLeaf(h, n) THEN h ELSE At(consider_for_balancing(h, n, len(h, n) - 1))

(* The entries go to a tree without any; length counts them.                 *)
bulk_push(t, seq) ==
    LET Fixed(u) == [u EXCEPT !.mem = FixRightEdge(u.mem, u.root)]
    IN  Fixed(PushAll([mem |-> t.mem, root |-> t.root, length |-> 0], seq))

(* Two ascending sequences as one; of equal keys the second one's entry.     *)
RECURSIVE MergeIter(_, _)
MergeIter(a, b) ==
    IF a = <<>> THEN b
    ELSE IF b = <<>> THEN a
    ELSE IF Head(a).key < Head(b).key THEN <<Head(a)>> \o MergeIter(Tail(a), b)
    ELSE IF Head(a).key > Head(b).key THEN <<Head(b)>> \o MergeIter(a, Tail(b))
    ELSE <<Head(b)>> \o MergeIter(Tail(a), Tail(b))

-----------------------------------------------------------------------------
(* Iterators.                                                                *)

(* The leaf edges around the entries from a lower to an upper bound, looked  *)
(* for from the root down at once.  found is whether the bound was met on    *)
(* the way, and the edge next to it is followed to the leaves.               *)
LowerEdge(h, n, found, bound) ==
    LET s == search_node(h, n, bound.key)
    IN  CASE bound.kind = "Unbounded" -> [idx |-> 0, found |-> found]
          [] found /\ bound.kind = "Included" -> [idx |-> len(h, n), found |-> TRUE]
          [] found /\ bound.kind = "Excluded" -> [idx |-> 0, found |-> TRUE]
          [] OTHER -> [idx |-> IF s.found /\ bound.kind = "Excluded" THEN s.idx + 1 ELSE s.idx,
                       found |-> s.found]

UpperEdge(h, n, found, bound) ==
    LET s == search_node(h, n, bound.key)
    IN  CASE bound.kind = "Unbounded" -> [idx |-> len(h, n), found |-> found]
          [] found /\ bound.kind = "Included" -> [idx |-> 0, found |-> TRUE]
          [] found /\ bound.kind = "Excluded" -> [idx |-> len(h, n), found |-> TRUE]
          [] OTHER -> [idx |-> IF s.found /\ bound.kind = "Included" THEN s.idx + 1 ELSE s.idx,
                       found |-> s.found]

RECURSIVE RangeBelow(_, _, _, _, _, _, _)
RangeBelow(h, min, max, minFound, maxFound, lower, upper) ==
    LET f == LowerEdge(h, min, minFound, lower)
        b == UpperEdge(h, max, maxFound, upper)
    IN  IF min = max /\ f.idx > b.idx THEN "panic"
        ELSE IF IsLeaf(h, min) THEN <<Handle(min, f.idx), Handle(max, b.idx)>>
        ELSE RangeBelow(h, descend(h, min, f.idx), descend(h, max, b.idx), f.found, b.found, lower, upper)

BadRange(lower, upper) ==
    /\ lower.kind # "Unbounded" /\ upper.kind # "Unbounded"
    /\ \/ lower.key > upper.key
       \/ lower.key = upper.key /\ lower.kind = "Excluded" /\ upper.kind = "Excluded"

range_search(h, root, lower, upper) ==
    IF BadRange(lower, upper) THEN "panic" ELSE RangeBelow(h, root, root, FALSE, FALSE, lower, upper)

(* Range: the entries between two edges, the first ones taken from the front *)
(* and the others from the back, until the edges meet.                       *)
RECURSIVE Visited(_, _, _, _)
Visited(h, front, back, fromFront) ==
    LET kv == IF fromFront > 0 THEN next_kv(h, front) ELSE next_back_kv(h, back)
        k == key_at(h, kv.node, kv.idx)
    IN  IF front = back THEN <<>>
        ELSE <<k>> \o IF fromFront > 0
                       THEN Visited(h, next_leaf_edge(h, kv), back, fromFront - 1)
                       ELSE Visited(h, front, next_back_leaf_edge(h, kv), 0)

(* IntoIter gives up the nodes it leaves behind.                             *)
RECURSIVE next_kv_unchecked_dealloc(_, _)
next_kv_unchecked_dealloc(h, e) ==
    IF e.idx < len(h, e.node) THEN [mem |-> h, kv |-> e]
    ELSE next_kv_unchecked_dealloc(Free(h, e.node), Handle(h[e.node].parent, h[e.node].parent_idx))

RECURSIVE next_back_kv_unchecked_dealloc(_, _)
next_back_kv_unchecked_dealloc(h, e) ==
    IF e.idx > 0 THEN [mem |-> h, kv |-> Handle(e.node, e.idx - 1)]
    ELSE next_back_kv_unchecked_dealloc(Free(h, e.node), Handle(h[e.node].parent, h[e.node].parent_idx))

RECURSIVE FreeUpwards(_, _)
FreeUpwards(h, n) == IF n = None THEN h ELSE FreeUpwards(Free(h, n), h[n].parent)

(* IntoIter::next and next_back; out is what they have returned.             *)
IntoNext(it) ==
    LET r == next_kv_unchecked_dealloc(it.mem, it.front)
    IN  [it EXCEPT !.length = @ - 1, !.mem = r.mem, !.front = next_leaf_edge(r.mem, r.kv),
                   !.out = Append(@, key_at(r.mem, r.kv.node, r.kv.idx))]

IntoNextBack(it) ==
    LET r == next_back_kv_unchecked_dealloc(it.mem, it.back)
    IN  [it EXCEPT !.length = @ - 1, !.mem = r.mem, !.back = next_back_leaf_edge(r.mem, r.kv),
                   !.out = Append(@, key_at(r.mem, r.kv.node, r.kv.idx))]

(* fromFront entries are taken from the front, fromBack from the back, and   *)
(* the iterator is dropped, which takes what is left from the front and      *)
(* gives up the last path to the root.                                       *)
RECURSIVE Consumed(_, _, _)
Consumed(it, fromFront, fromBack) ==
    IF it.length = 0 THEN [mem |-> FreeUpwards(it.mem, it.front.node), out |-> it.out]
    ELSE IF fromFront > 0 THEN Consumed(IntoNext(it), fromFront - 1, fromBack)
    ELSE IF fromBack > 0 THEN Consumed(IntoNextBack(it), 0, fromBack - 1)
    ELSE Consumed(IntoNext(it), 0, 0)

into_iter(h, m, fromFront, fromBack) ==
    IF m.root = None THEN [mem |-> h, out |-> <<>>]
    ELSE Consumed([mem |-> h, front |-> first_leaf_edge(h, m.root), back |-> last_leaf_edge(h, m.root),
                   length |-> m.length, out |-> <<>>], fromFront, fromBack)

(* Clone: the first child's copy gets a new level on top, to which entries   *)
(* and the copies of the other children are pushed.                          *)
RECURSIVE clone_subtree(_, _)
clone_subtree(h, n) ==
    LET leaf == Fresh(h)
        first == clone_subtree(h, descend(h, n, 0))
        top == Fresh(first.mem)
        PushChild(t, i) == LET sub == clone_subtree(t.mem, descend(h, n, i))
                       IN  [t EXCEPT !.mem = push(sub.mem, top, key_at(h, n, i - 1), sub.root),
                                     !.length = @ + 1 + sub.length]
    IN  IF IsLeaf(h, n)
        THEN [mem |-> h @@ (leaf :> NewNode(h[n].keys, <<>>)), root |-> leaf, length |-> len(h, n)]
        ELSE FoldLeft(PushChild, [mem |-> push_internal_level(first.mem, first.root), root |-> top,
                              length |-> first.length],
                      [i \in 1..len(h, n) |-> i])

-----------------------------------------------------------------------------
(* The calls.                                                                *)

Map(root, length) == [root |-> root, length |-> length]
Empty == Map(None, 0)

Sorted(S) == SelectSeq([i \in 1..LargestKey |-> i], LAMBDA k : k \in S)

mem == maps.mem
self == maps.map[1]
entries == items[1]
Keys == {entries[i] : i \in DOMAIN entries}
AllKeys == 1..2 * Len(entries) + 1

Call(h, left, contents, out, expected) ==
    /\ called' = TRUE
    /\ maps' = [mem |-> h, map |-> left]
    /\ items' = contents
    /\ got' = out /\ wanted' = expected

ensure_is_owned(h, m) == IF m.root = None THEN EmptyTree(h, 0) ELSE [mem |-> h, root |-> m.root]

(* BTreeMap::insert; whether there was an entry with the key.                *)
insert(h, m, k) ==
    LET Grown(u) == [mem |-> u.mem, map |-> Map(u.root, m.length + 1), was |-> FALSE]
        At(t, s) == IF s.found THEN [mem |-> t.mem, map |-> Map(t.root, m.length), was |-> TRUE]
                    ELSE Grown(insert_recursing(t.mem, t.root, s.node, s.idx, k, None))
        In(t) == At(t, search_tree(t.mem, t.root, k))
    IN  In(ensure_is_owned(h, m))

InsertEntry(k) ==
    LET Done(r) == Call(r.mem, <<r.map>>, <<Sorted(Keys \cup {k})>>, r.was, k \in Keys)
    IN  Done(insert(mem, self, k))

RemoveEntry(k) ==
    LET Found(t) == Call(t.mem, <<Map(t.root, self.length - 1)>>, <<Sorted(Keys \ {k})>>, TRUE, k \in Keys)
        Missed == Call(mem, <<self>>, <<Sorted(Keys \ {k})>>, FALSE, k \in Keys)
        At(s) == IF s.found THEN Found(remove_kv(mem, self.root, s)) ELSE Missed
    IN  IF self.root = None THEN Missed ELSE At(search_tree(mem, self.root, k))

(* pop_first and pop_last: the entry next to the first, or last, leaf edge.  *)
PopEnd(first) ==
    LET Out(kv, t) == Call(t.mem, <<Map(t.root, self.length - 1)>>,
                           <<IF first THEN Tail(entries) ELSE Front(entries)>>,
                           <<key_at(mem, kv.node, kv.idx)>>, <<IF first THEN Head(entries) ELSE Last(entries)>>)
        At(kv) == Out(kv, remove_kv(mem, self.root, kv))
        Nothing == Call(mem, <<self>>, items, <<>>, entries)
        From(e) == IF len(mem, e.node) = 0 THEN Nothing
                   ELSE At(IF first THEN e ELSE Handle(e.node, e.idx - 1))
    IN  IF self.root = None THEN Nothing
        ELSE From(IF first THEN first_leaf_edge(mem, self.root) ELSE last_leaf_edge(mem, self.root))

(* Lengths are counted in the lower of the two trees.                        *)
SplitOff(k) ==
    LET halves == <<SelectSeq(entries, LAMBDA x : x < k), SelectSeq(entries, LAMBDA x : x >= k)>>
        Halves(r, left, right) == Call(r.mem, <<Map(r.left, left), Map(r.right, right)>>, halves, <<>>, <<>>)
        FromLeft(r, n) == Halves(r, n, self.length - n)
        FromRight(r, n) == Halves(r, self.length - n, n)
        Cut(r) == IF height(r.mem, r.left) < height(r.mem, r.right)
                  THEN FromLeft(r, calc_length(r.mem, r.left))
                  ELSE FromRight(r, calc_length(r.mem, r.right))
    IN  IF self.length = 0 THEN Call(mem, <<self, Empty>>, halves, <<>>, <<>>)
        ELSE Cut(split_off(mem, self.root, k))

Side(side, keys) == [i \in DOMAIN keys |-> [key |-> keys[i], from |-> side]]

RECURSIVE Collected(_, _)
Collected(r, keys) ==
    IF r.map.length = Len(keys) THEN r
    ELSE Collected(insert(r.mem, r.map, keys[r.map.length + 1]), keys)

(* The map of the keys S, inserted in ascending order, is appended.          *)
AppendMap(S) ==
    LET all == Sorted(Keys \cup S)
        expected == [i \in DOMAIN all |-> [key |-> all[i], from |-> IF all[i] \in S THEN "other" ELSE "self"]]
        Built(t, merged) == Call(t.mem, <<Map(t.root, t.length), Empty>>, <<all, <<>>>>, merged, expected)
        Merged(h, merged) == Built(bulk_push(EmptyTree(h, 0), [i \in DOMAIN merged |-> merged[i].key]), merged)
        Both(a, b) == Merged(b.mem, MergeIter(Side("self", a.out), Side("other", b.out)))
        First(a, other) == Both(a, into_iter(a.mem, other.map, 0, 0))
        With(other) ==
            IF other.map.length = 0 THEN Call(mem, <<self, Empty>>, <<entries, <<>>>>, <<>>, <<>>)
            ELSE IF self.length = 0 THEN Call(other.mem, <<other.map, self>>, <<all, <<>>>>, <<>>, <<>>)
            ELSE First(into_iter(other.mem, self, 0, 0), other)
    IN  With(Collected([mem |-> mem, map |-> Empty], Sorted(S)))

DrainFilter(S) ==
    LET Drained(r) == Call(r.mem, <<Map(r.root, self.length - Len(r.out))>>, <<Sorted(Keys \ S)>>, r.out,
                           Sorted(Keys \cap S))
    IN  IF self.root = None THEN Call(mem, <<self>>, items, <<>>, <<>>)
        ELSE Drained(drain_filter([mem |-> mem, root |-> self.root, emptied |-> FALSE],
                                  first_leaf_edge(mem, self.root), S, <<>>))

(* The entries of a range, half of them from the front, the rest from the    *)
(* back.                                                                     *)
RangeOf(lower, upper) ==
    LET in == SelectSeq(entries, LAMBDA k :
                  /\ lower.kind = "Included" => k >= lower.key
                  /\ lower.kind = "Excluded" => k > lower.key
                  /\ upper.kind = "Included" => k <= upper.key
                  /\ upper.kind = "Excluded" => k < upper.key)
        half == Len(in) \div 2
        ends == range_search(mem, self.root, lower, upper)
        out == CASE self.root = None -> <<>>
                 [] self.root # None /\ ends = "panic" -> "panic"
                 [] OTHER -> Visited(mem, ends[1], ends[2], half)
    IN  Call(mem, <<self>>, items, out,
             IF self.root # None /\ BadRange(lower, upper) THEN "panic"
             ELSE SubSeq(in, 1, half) \o Reverse(SubSeq(in, half + 1, Len(in))))

IntoIter(fromFront, fromBack) ==
    LET r == into_iter(mem, self, fromFront, fromBack)
        middle == Len(entries) - fromBack
    IN  Call(r.mem, <<>>, <<>>, r.out,
             SubSeq(entries, 1, fromFront) \o Reverse(SubSeq(entries, middle + 1, Len(entries)))
                 \o SubSeq(entries, fromFront + 1, middle))

Clone ==
    LET r == clone_subtree(mem, self.root)
    IN  IF self.length = 0 THEN Call(mem, <<self, Empty>>, <<entries, <<>>>>, <<>>, <<>>)
        ELSE Call(r.mem, <<self, Map(r.root, r.length)>>, <<entries, entries>>, <<>>, <<>>)

-----------------------------------------------------------------------------
(* The trees the calls start from.  A shape is the length of a leaf or the   *)
(* shapes of a node's children.                                              *)

RECURSIVE Laid(_, _, _)
Laid(t, levels, shape) ==
    LET leaf == Fresh(t.mem)
        Add(u, child) ==
            IF u.edges = <<>>
            THEN LET v == Laid(u, levels - 1, child)
                 IN  [mem |-> v.mem, last |-> v.last, edges |-> <<v.root>>, keys |-> <<>>]
            ELSE LET v == Laid([u EXCEPT !.last = @ + 2], levels - 1, child)
                 IN  [mem |-> v.mem, last |-> v.last, edges |-> Append(u.edges, v.root),
                      keys |-> Append(u.keys, u.last + 2)]
        all == FoldLeft(Add, [mem |-> t.mem, last |-> t.last, keys |-> <<>>, edges |-> <<>>], shape)
        n == Fresh(all.mem)
    IN  IF levels = 0
        THEN [mem |-> t.mem @@ (leaf :> NewNode([i \in 1..shape |-> t.last + 2 * i], <<>>)),
              root |-> leaf, last |-> t.last + 2 * shape]
        ELSE [mem |-> correct_childrens_parent_links(all.mem @@ (n :> NewNode(all.keys, all.edges)),
                                                     n, 0, Len(all.keys)),
              root |-> n, last |-> all.last]

(* n children, all alike but those at j and j + 1.                           *)
Beside(n, j, x, y, other) == [i \in 1..n |-> IF i = j THEN x ELSE IF i = j + 1 THEN y ELSE other]

Lows(ns, lens) ==
    UNION {{Beside(n, j, x, y, MIN_LEN) : j \in 1..n - 1, x \in lens, y \in lens} : n \in ns}

LeastNode(n) == [i \in 1..n |-> MIN_LEN]

(* Two internal nodes below the root, or a full root with one full subtree.  *)
Highs ==
    LET sizes == {B, B + 1, CAPACITY + 1}
        some == Lows(sizes, {MIN_LEN, CAPACITY})
        full == [i \in 1..CAPACITY + 1 |-> CAPACITY]
    IN  {<<x, LeastNode(n)>> : x \in some, n \in sizes} \cup {<<LeastNode(n), x>> : x \in some, n \in sizes}
            \cup {Beside(CAPACITY + 1, j, full, LeastNode(B), LeastNode(B)) : j \in {1, CAPACITY + 1}}

Shapes(levels) ==
    CASE levels = 0 -> 0..CAPACITY
      [] levels = 1 -> Lows(2..CAPACITY + 1, {MIN_LEN, MIN_LEN + 1, CAPACITY})
      [] levels = 2 -> Highs

Init ==
    /\ got = <<>> /\ wanted = <<>> /\ called = FALSE
    /\ \/ maps = [mem |-> <<>>, map |-> <<Empty>>] /\ items = <<<<>>>>
       \/ \E levels \in 0..2 : \E shape \in Shapes(levels) :
             LET t == Laid([mem |-> <<>>, last |-> 0], levels, shape)
             IN  /\ maps = [mem |-> t.mem, map |-> <<Map(t.root, t.last \div 2)>>]
                 /\ items = <<[i \in 1..t.last \div 2 |-> 2 * i]>>

Bounds == [kind : {"Included", "Excluded"}, key : AllKeys] \cup {[kind |-> "Unbounded", key |-> 0]}

Scanned ==
    Len(entries) <= IF self.root # None /\ height(mem, self.root) > 1 THEN MaxScannedDeep ELSE MaxScanned

(* A prefix, a suffix, or every other entry.                                 *)
Filters ==
    {1..k : k \in AllKeys} \cup {k..LargestKey : k \in AllKeys} \cup
        {{4 * i + r : i \in 0..Len(entries)} : r \in {0, 2}}

Appended == SUBSET AllKeys \cup {1..n : n \in 0..MaxAppended}

Inserts == ~called /\ \E k \in AllKeys : InsertEntry(k)
Removes == ~called /\ \E k \in AllKeys : RemoveEntry(k)
Pops == ~called /\ \E first \in BOOLEAN : PopEnd(first)
SplitsOff == ~called /\ \E k \in AllKeys : SplitOff(k)
Appends == ~called /\ Len(entries) < B /\ \E S \in Appended : AppendMap(S)
Drains == ~called /\ Scanned /\ \E S \in Filters : DrainFilter(S)
Ranges == ~called /\ Scanned /\ \E lower, upper \in Bounds : RangeOf(lower, upper)
Consumes == ~called /\ Scanned /\ \E f, b \in 0..Len(entries) : f + b <= Len(entries) /\ IntoIter(f, b)
Clones == ~called /\ Clone

Next ==
    \/ Inserts \/ Removes \/ Pops \/ SplitsOff \/ Appends
    \/ Drains \/ Ranges \/ Consumes \/ Clones

Spec == Init /\ [][Next]_vars

-----------------------------------------------------------------------------
RECURSIVE NodesBelow(_, _)
NodesBelow(h, n) == {n} \cup UNION {NodesBelow(h, h[n].edges[i]) : i \in DOMAIN h[n].edges}

RECURSIVE InOrder(_, _)
InOrder(h, n) ==
    IF IsLeaf(h, n) THEN h[n].keys
    ELSE FoldLeft(LAMBDA out, i : out \o <<key_at(h, n, i - 1)>> \o InOrder(h, descend(h, n, i)),
                  InOrder(h, descend(h, n, 0)), [i \in 1..len(h, n) |-> i])

Nodes(m) == IF m.root = None THEN {} ELSE NodesBelow(mem, m.root)

(* Every node has a legal length, its children are equally high and know     *)
(* their parent and their place in it.                                       *)
WellFormed(m) ==
    \A n \in Nodes(m) :
        LET x == mem[n]
        IN  /\ Len(x.keys) <= CAPACITY
            /\ n # m.root => Len(x.keys) >= MIN_LEN
            /\ n = m.root => x.parent = None
            /\ ~IsLeaf(mem, n) =>
                   /\ Len(x.keys) >= 1 /\ Len(x.edges) = Len(x.keys) + 1
                   /\ \A i \in DOMAIN x.edges :
                          /\ mem[x.edges[i]].parent = n /\ mem[x.edges[i]].parent_idx = i - 1
                          /\ height(mem, x.edges[i]) = height(mem, x.edges[1])

(* After any call the maps are balanced trees with the entries an ordered    *)
(* set would have and the right length, no node is lost or shared, and the   *)
(* call has handed out what it should, in order.                             *)
ActsAsOrderedMap ==
    /\ got = wanted
    /\ Len(maps.map) = Len(items)
    /\ \A i \in DOMAIN items :
          LET m == maps.map[i]
          IN  /\ WellFormed(m)
              /\ m.length = Len(items[i])
              /\ items[i] = IF m.root = None THEN <<>> ELSE InOrder(mem, m.root)
    /\ \A i, j \in DOMAIN items : i # j => Nodes(maps.map[i]) \cap Nodes(maps.map[j]) = {}
    /\ DOMAIN mem = UNION {Nodes(maps.map[i]) : i \in DOMAIN items}
=============================================================================
