-------------------------------- MODULE Tree ---------------------------------
(***************************************************************************)
(* The B+ tree of TreeIndex: src/tree_index.rs over tree_index/node.rs,    *)
(* internal_node.rs and leaf_node.rs.                                      *)
(*                                                                         *)
(* A leaf is the set of keys it promises to be (modules Leaf and LeafSet), *)
(* with the slots it has used up; an insertion into it reserves a slot     *)
(* before it sees whether it may have it.  The children of a node are in a *)
(* Leaf as well: an append-only array of slots whose keys live and die;    *)
(* the metadata word that readers validate is the keys and lives of the    *)
(* slots, not the pointers in them.  The leaves form a linked list (module *)
(* LinkedList: next_ptr is atomic here, and a deleted leaf keeps its       *)
(* link).  Memory is not used again while a thread may look at it (module  *)
(* Ebr), and waiting for a latch is modelled in module BucketLock.         *)
(*                                                                         *)
(* A thread carries the path of nodes it has descended.  A result that     *)
(* concerns a parent is returned to it: Full, Retired, Cleanup and Fail.   *)
(*                                                                         *)
(* A definition X_Mistake before X is X with the mistake it names.         *)
(***************************************************************************)
EXTENDS Naturals, FiniteSets, FiniteSetsExt, Sequences, SequencesExt, TLC

CONSTANTS
  Threads,
  Capacity,    \* DIMENSION.num_entries
  MaxRefused,  \* how often an insertion that has reserved a slot meets a split
  Workloads    \* what is inserted first, and then done by each thread

\* An operation is <<kind, key>>; that of a Range has its two bounds, which
\* are included.
Kinds == {"insert", "remove", "peek", "scan", "range"}

ASSUME TreeAssumption ==
  /\ Capacity \in Nat /\ Capacity > 1
  /\ MaxRefused \in Nat
  /\ \A w \in Workloads :
       /\ \A i \in DOMAIN w.fill : w.fill[i][1] \in Kinds
       /\ \A t \in Threads : \A i \in DOMAIN w.todo[t] : w.todo[t][i][1] \in Kinds

VARIABLES
  root,    \* the root node, 0 if the tree has none
  node,    \* the nodes allocated so far
  leaf,    \* the leaves allocated so far
  set,     \* history: the keys inserted and not removed
  fill,    \* what is still to be done before the threads start
  todo,    \* what each thread has still to do
  thr      \* the state of each thread

vars == <<root, node, leaf, set, fill, todo, thr>>

NoSplit == [key |-> 0, origin |-> 0, low |-> 0, high |-> 0, middle |-> 0,
            lowNode |-> 0, highNode |-> 0]

NewLeaf(K) ==
  [keys |-> K, used |-> Cardinality(K), frozen |-> FALSE, retired |-> FALSE,
   tag |-> "clear", next |-> 0]

NewNode(kind) ==
  [kind |-> kind, slots |-> <<>>, unbounded |-> 0, retired |-> FALSE,
   latch |-> "free", split |-> NoSplit]

\* The history of a call: the keys that have been in the tree all the time
\* since it began, those that have been there at some time, how often the call
\* has changed the tree, and how often its leaf was frozen or retired under it.
Idle ==
  [pc |-> "idle", op |-> "none", key |-> 0, upper |-> 0, path |-> <<>>,
   child |-> 0, result |-> "none", removed |-> FALSE, at |-> 0, after |-> "root",
   visit |-> {}, keep |-> 0, gone |-> FALSE, next |-> 0, seen |-> {},
   least |-> FALSE, checkLower |-> TRUE,
   out |-> <<>>, through |-> {}, ever |-> {}, did |-> 0, refused |-> 0]

Init ==
  /\ root = 0 /\ node = <<>> /\ leaf = <<>> /\ set = {}
  /\ \E w \in Workloads : fill = w.fill /\ todo = w.todo
  /\ thr = [t \in Threads |-> Idle]

-----------------------------------------------------------------------------
(***************************************************************************)
(* Nodes and leaves.                                                       *)
(***************************************************************************)
Live(n) == {s \in DOMAIN node[n].slots : node[n].slots[s].live}

Metadata(n) == [s \in DOMAIN node[n].slots |-> <<node[n].slots[s].key, node[n].slots[s].live>>]

Child(n, s) == IF s = 0 THEN node[n].unbounded ELSE node[n].slots[s].child

SlotKey(n, s) == IF s = 0 THEN 0 ELSE node[n].slots[s].key

WithChild(r, s, c) ==
  IF s = 0 THEN [r EXCEPT !.unbounded = c] ELSE [r EXCEPT !.slots[s].child = c]

\* The slot of S with the smallest key; 0, the unbounded child, if S is empty.
FirstSlot(n, S) ==
  IF S = {} THEN 0
  ELSE CHOOSE s \in S : \A u \in S : node[n].slots[s].key <= node[n].slots[u].key

MinGreaterEqual(n, k) == FirstSlot(n, {s \in Live(n) : node[n].slots[s].key >= k})

\* The slot with the largest key less than k, 0 if there is none.
MaxLess(n, k) ==
  LET less == {s \in Live(n) : node[n].slots[s].key < k}
  IN  IF less = {} THEN 0
      ELSE CHOOSE s \in less : \A u \in less : node[n].slots[s].key >= node[n].slots[u].key

\* Leaf::insert into the children: Full, or Retired since the last child has
\* been removed.
ChildrenFull(n) ==
  \/ Len(node[n].slots) = Capacity
  \/ node[n].slots # <<>> /\ Live(n) = {}

Retired(kind, c) == IF kind = "leaf" THEN leaf[c].retired ELSE node[c].retired

HasRetired(n) ==
  LET held == {s \in Live(n) : Child(n, s) # 0}
  IN  \/ \E s \in held : Retired(node[n].kind, Child(n, s))
      \/ held = {} /\ node[n].unbounded # 0 /\ Retired(node[n].kind, node[n].unbounded)

\* The leaf that next_ptr finds after l, 0 if there is none.
NextPtr(l) ==
  LET next[x \in 0 .. Len(leaf)] ==
        IF x = 0 \/ leaf[x].tag # "deleted" THEN x ELSE next[leaf[x].next]
  IN  next[leaf[l].next]

\* cleanup_link: whether the sub-tree has a leaf before the key.  The leaves
\* it then unlinks are those of module LinkedList.
CleanupLink(n, k) ==
  LET last == MaxLess(n, k)
      max[x \in 0 .. Len(node)] ==
        x # 0 /\ node[x].unbounded # 0 /\
          (node[x].kind = "leaf" \/ max[node[x].unbounded])
  IN  last # 0 /\ Child(n, last) # 0 /\
        (node[n].kind = "leaf" \/ max[Child(n, last)])

Ascending(S) == SetToSortSeq(S, <)

-----------------------------------------------------------------------------
(***************************************************************************)
(* Steps of a thread.                                                      *)
(***************************************************************************)
Top(t) == Last(thr[t].path)
Here(t) == Top(t).node

Go(t, r) == thr' = [thr EXCEPT ![t] = r @@ thr[t]]

\* A result for the parent of the node the thread is in.
Return(t, r) ==
  Go(t, [pc |-> "return", result |-> r, child |-> Here(t),
         path |-> Front(thr[t].path)])

Done(t, r) == Go(t, [pc |-> "done", result |-> r])

Await(t, n, next) == Go(t, [pc |-> "wait", at |-> n, after |-> next])

\* The tree is now K: what every call in progress has seen of it.
Change(t, K, r) ==
  /\ set' = K
  /\ thr' = [u \in Threads |->
       LET x == IF u = t THEN r @@ thr[u] ELSE thr[u]
       IN  IF x.pc = "idle" THEN x
           ELSE [x EXCEPT !.through = @ \cap K, !.ever = @ \cup K]]

\* One thread first fills the tree; then they all do what they have to do.
Filler == CHOOSE t \in Threads : TRUE

Begin(t) ==
  /\ thr[t].pc = "idle"
  /\ \E op \in IF fill # <<>> THEN (IF t = Filler THEN {Head(fill)} ELSE {})
               ELSE IF todo[t] # <<>> THEN {Head(todo[t])} ELSE {} :
       Go(t, [pc |-> "root", op |-> op[1], key |-> op[2], upper |-> op[Len(op)],
              through |-> set, ever |-> set])
  /\ UNCHANGED <<root, node, leaf, set, fill, todo>>

Finish(t) ==
  /\ thr[t].pc = "done"
  /\ thr' = [thr EXCEPT ![t] = Idle]
  /\ IF fill # <<>> THEN fill' = Tail(fill) /\ UNCHANGED todo
     ELSE todo' = [todo EXCEPT ![t] = Tail(@)] /\ UNCHANGED fill
  /\ UNCHANGED <<root, node, leaf, set>>

\* WaitQueue::wait_sync: until the latch is not locked.
Wait(t) ==
  /\ thr[t].pc = "wait" /\ node[thr[t].at].latch # "locked"
  /\ Go(t, [pc |-> thr[t].after])
  /\ UNCHANGED <<root, node, leaf, set, fill, todo>>

\* A node the thread is in, for its minimum or for a key.
Frame(n, min) == [node |-> n, slot |-> 0, metadata |-> <<>>, min |-> min]

\* TreeIndex::insert, remove_if, peek, Iter::next and Range::next load the root;
\* insert creates it.
LoadRoot(t) ==
  /\ thr[t].pc = "root"
  /\ \/ /\ root = 0 /\ thr[t].op = "insert"
        /\ node' = Append(node, NewNode("leaf"))
        /\ root' = Len(node')
        /\ UNCHANGED thr
     \/ /\ root = 0 /\ thr[t].op # "insert"
        /\ Done(t, IF thr[t].removed THEN "true" ELSE "false")
        /\ UNCHANGED <<node, root>>
     \/ /\ root # 0
        /\ Go(t, [pc |-> "find", at |-> root, path |-> <<Frame(root, thr[t].op = "scan")>>])
        /\ UNCHANGED <<node, root>>
  /\ UNCHANGED <<leaf, set, fill, todo>>

\* The first read of a node: the metadata of its children, and the slot for
\* the key in it.  min takes the first slot, max_le_appr the last one before
\* the key.
FindChild(t) ==
  LET n == Here(t)
  IN  /\ thr[t].pc = "find"
      /\ Go(t, [pc |-> "load", path |-> Append(Front(thr[t].path),
                [node |-> n, metadata |-> Metadata(n), min |-> Top(t).min,
                 slot |-> IF Top(t).min THEN FirstSlot(n, Live(n))
                          ELSE IF thr[t].op = "range" THEN MaxLess(n, thr[t].key)
                          ELSE MinGreaterEqual(n, thr[t].key)])])
      /\ UNCHANGED <<root, node, leaf, set, fill, todo>>

Validate_No(t) == TRUE
Validate(t) == Top(t).metadata = Metadata(Here(t))

\* max_le_appr has to go on with the minimum of the node.
Fallback(t) == Go(t, [pc |-> "find", path |-> Append(thr[t].path, Frame(Here(t), TRUE))])

NothingLess(t) == thr[t].op = "range" /\ ~Top(t).min /\ Top(t).slot = 0

NoLessChild(t) ==
  /\ thr[t].pc = "load" /\ NothingLess(t)
  /\ Fallback(t)
  /\ UNCHANGED <<root, node, leaf, set, fill, todo>>

\* The second read: the child in the slot, validated against the metadata.
LoadChild(t) ==
  LET n == Here(t)
      s == Top(t).slot
      c == Child(n, s)
      valid == c # 0 /\ Validate(t)
  IN  /\ thr[t].pc = "load" /\ ~NothingLess(t)
      /\ \/ /\ valid /\ node[n].kind = "leaf"
            /\ Go(t, [pc |-> "leaf", child |-> c])
            /\ UNCHANGED <<node, leaf>>
         \/ /\ valid /\ node[n].kind = "internal"
            /\ Go(t, [pc |-> "find", path |-> Append(thr[t].path, Frame(c, Top(t).min))])
            /\ UNCHANGED <<node, leaf>>
         \/ /\ ~valid /\ (s # 0 \/ c # 0)
            /\ Go(t, [pc |-> "find"])
            /\ UNCHANGED <<node, leaf>>
         \/ /\ s = 0 /\ c = 0 /\ thr[t].op = "insert" /\ ~node[n].retired
            /\ leaf' = Append(leaf, NewLeaf({}))
            /\ node' = [node EXCEPT ![n].unbounded = Len(leaf')]
            /\ UNCHANGED thr
         \/ /\ s = 0 /\ c = 0 /\ (thr[t].op # "insert" \/ node[n].retired)
            /\ CASE thr[t].op = "insert" -> Return(t, "Retired")
                 [] thr[t].op = "remove" -> Return(t, "Fail")
                 [] thr[t].op = "peek"   -> Done(t, "false")
                 [] thr[t].op \in {"scan", "range"} -> Return(t, "None")
            /\ UNCHANGED <<node, leaf>>
      /\ UNCHANGED <<root, set, fill, todo>>

\* Leaf::insert on the child, and what LeafNode::insert does about its result: a
\* leaf that is not full has a slot to reserve.
LeafInsert(t) ==
  LET c == thr[t].child
  IN  /\ thr[t].pc = "leaf" /\ thr[t].op = "insert"
      /\ \/ /\ leaf[c].retired
            /\ Go(t, [pc |-> "split_lock"])
            /\ UNCHANGED leaf
         \/ /\ ~leaf[c].retired /\ leaf[c].frozen
            /\ Await(t, Here(t), "root")
            /\ UNCHANGED leaf
         \/ /\ ~leaf[c].retired /\ ~leaf[c].frozen /\ leaf[c].used = Capacity
            /\ IF thr[t].key \in leaf[c].keys THEN Done(t, "false")
               ELSE Go(t, [pc |-> "split_lock"])
            /\ UNCHANGED leaf
         \/ /\ ~leaf[c].retired /\ ~leaf[c].frozen /\ leaf[c].used < Capacity
            /\ leaf' = [leaf EXCEPT ![c].used = @ + 1]
            /\ Go(t, [pc |-> "post_insert"])
      /\ UNCHANGED <<root, node, set, fill, todo>>

\* post_insert: the key becomes reachable, unless it is there already or the
\* leaf has been frozen or retired.
LeafPostInsert(t) ==
  LET c == thr[t].child
      k == thr[t].key
      refused == leaf[c].frozen \/ leaf[c].retired
  IN  /\ thr[t].pc = "post_insert"
      /\ \/ /\ k \in leaf[c].keys \/ refused
            /\ Go(t, [pc |-> "leaf_rollback",
                      refused |-> IF refused THEN thr[t].refused + 1 ELSE thr[t].refused])
            /\ UNCHANGED <<leaf, set>>
         \/ /\ k \notin leaf[c].keys /\ ~refused
            /\ leaf' = [leaf EXCEPT ![c].keys = @ \cup {k}]
            /\ Change(t, set \cup {k}, [pc |-> "done", result |-> "true", did |-> thr[t].did + 1])
      /\ UNCHANGED <<root, node, fill, todo>>

\* Leaf::rollback: the slot is free again, and the result is what the flags are
\* by now.
LeafRollback(t) ==
  LET c == thr[t].child
  IN  /\ thr[t].pc = "leaf_rollback"
      /\ leaf' = [leaf EXCEPT ![c].used = @ - 1]
      /\ IF leaf[c].retired THEN Go(t, [pc |-> "split_lock"])
         ELSE IF leaf[c].frozen THEN Await(t, Here(t), "root")
         ELSE Done(t, "false")
      /\ UNCHANGED <<root, node, set, fill, todo>>

\* Leaf::remove_if on the child, and what LeafNode::remove_if does about it.
LeafRemove(t) ==
  LET c == thr[t].child
      k == thr[t].key
      K == leaf[c].keys \ {k}
  IN  /\ thr[t].pc = "leaf" /\ thr[t].op = "remove"
      /\ \/ /\ leaf[c].frozen
            /\ Await(t, Here(t), "root")
            /\ UNCHANGED <<leaf, set>>
         \/ /\ ~leaf[c].frozen /\ k \notin leaf[c].keys
            /\ Return(t, "Fail")
            /\ UNCHANGED <<leaf, set>>
         \/ /\ ~leaf[c].frozen /\ k \in leaf[c].keys
            /\ leaf' = [leaf EXCEPT ![c].keys = K, ![c].retired = (K = {})]
            /\ Change(t, set \ {k},
                      IF K = {}
                      THEN [pc |-> "coalesce", gone |-> FALSE, did |-> thr[t].did + 1]
                      ELSE [pc |-> "done", result |-> "true", did |-> thr[t].did + 1])
      /\ UNCHANGED <<root, node, fill, todo>>

LeafSearch(t) ==
  /\ thr[t].pc = "leaf" /\ thr[t].op = "peek"
  /\ Done(t, IF thr[t].key \in leaf[thr[t].child].keys THEN "true" ELSE "false")
  /\ UNCHANGED <<root, node, leaf, set, fill, todo>>

-----------------------------------------------------------------------------
(***************************************************************************)
(* LeafNode::split_leaf.                                                   *)
(***************************************************************************)
SplitLock(t) ==
  LET n == Here(t)
      s == Top(t).slot
  IN  /\ thr[t].pc = "split_lock"
      /\ \/ /\ node[n].latch # "free"
            /\ Await(t, n, "root")
            /\ UNCHANGED node
         \/ /\ node[n].latch = "free" /\ node[n].retired
            /\ Return(t, "Retired")
            /\ UNCHANGED node
         \/ /\ node[n].latch = "free" /\ ~node[n].retired
            /\ Child(n, s) # thr[t].child
            /\ Go(t, [pc |-> "root"])
            /\ UNCHANGED node
         \/ /\ node[n].latch = "free" /\ ~node[n].retired
            /\ Child(n, s) = thr[t].child
            /\ node' = [node EXCEPT ![n].latch = "locked",
                          ![n].split.origin = thr[t].child, ![n].split.key = SlotKey(n, s)]
            /\ Go(t, [pc |-> "split_freeze"])
      /\ UNCHANGED <<root, leaf, set, fill, todo>>

\* freeze_and_distribute into new leaves.  optimal_boundary returns a number in
\* [1, len(leaf)) (module LeafScan); a leaf that is frozen already is undefined
\* behaviour in the code.  MaxRefused bounds how often the others that have
\* reserved slots are refused.
SplitFreeze(t) ==
  LET n == Here(t)
      c == thr[t].child
      keys == Ascending(leaf[c].keys)
      low == Len(leaf) + 1
  IN  /\ thr[t].pc = "split_freeze" /\ ~leaf[c].frozen
      /\ \A u \in Threads : thr[u].pc = "post_insert" /\ thr[u].child = c =>
           thr[u].refused < MaxRefused
      /\ \E boundary \in 1 .. Capacity - 1 :
           LET L == {keys[i] : i \in {j \in DOMAIN keys : j <= boundary}}
               H == leaf[c].keys \ L
           IN  /\ leaf' = [leaf EXCEPT ![c].frozen = TRUE]
                            \o <<NewLeaf(L)>> \o (IF H = {} THEN <<>> ELSE <<NewLeaf(H)>>)
               /\ node' = [node EXCEPT ![n].split.low = low,
                             ![n].split.high = IF H = {} THEN 0 ELSE low + 1]
               /\ Go(t, [pc |-> IF H = {} THEN "push_low" ELSE "push_high"])
      /\ UNCHANGED <<root, set, fill, todo>>

\* push_back: the new leaf is linked after c, which is marked.
PushBack(c, new, next) ==
  [leaf EXCEPT ![new].next = next, ![c].next = new, ![c].tag = "marked"]

SplitPushHigh(t) ==
  LET c == thr[t].child
  IN  /\ thr[t].pc = "push_high"
      /\ leaf' = PushBack(c, node[Here(t)].split.high, leaf[c].next)
      /\ Go(t, [pc |-> "push_low"])
      /\ UNCHANGED <<root, node, set, fill, todo>>

\* What push_back finds after the leaf for the low-key leaf.
AfterLow_Stale(c, high) == IF high = 0 THEN leaf[c].next ELSE leaf[high].next
AfterLow(c, high) == leaf[c].next

\* The low-key leaf is frozen before it becomes reachable in the tree.
SplitPushLow(t) ==
  LET c == thr[t].child
      low == node[Here(t)].split.low
      high == node[Here(t)].split.high
  IN  /\ thr[t].pc = "push_low"
      /\ leaf' = [PushBack(c, low, AfterLow(c, high)) EXCEPT ![low].frozen = (high # 0)]
      /\ Go(t, [pc |-> IF high = 0 THEN "split_delete" ELSE "split_insert"])
      /\ UNCHANGED <<root, node, set, fill, todo>>

\* children.insert; Duplicate is unreachable in the code.
SplitInsert(t) ==
  LET n == Here(t)
      low == node[n].split.low
      key == Max(leaf[low].keys)
  IN  /\ thr[t].pc = "split_insert"
      /\ \/ /\ ChildrenFull(n)
            /\ leaf' = [leaf EXCEPT ![node[n].split.high].frozen = TRUE]
            /\ Return(t, "Full")
            /\ UNCHANGED node
         \/ /\ ~ChildrenFull(n)
            /\ \A s \in Live(n) : node[n].slots[s].key # key
            /\ node' = [node EXCEPT ![n].slots =
                          Append(@, [key |-> key, child |-> low, live |-> TRUE])]
            /\ Go(t, [pc |-> "split_delete"])
            /\ UNCHANGED leaf
      /\ UNCHANGED <<root, set, fill, todo>>

\* The full leaf is deleted before the new ones are reachable and updatable.
SplitDelete(t) ==
  /\ thr[t].pc = "split_delete"
  /\ leaf' = [leaf EXCEPT ![thr[t].child].tag = "deleted"]
  /\ Go(t, [pc |-> "split_thaw"])
  /\ UNCHANGED <<root, node, set, fill, todo>>

SplitThaw_Origin(t) ==
  /\ thr[t].pc = "split_thaw"
  /\ leaf' = [leaf EXCEPT ![thr[t].child].frozen = FALSE,
                          ![node[Here(t)].split.low].frozen = FALSE]
  /\ Go(t, [pc |-> "split_swap"])
  /\ UNCHANGED <<root, node, set, fill, todo>>

SplitThaw(t) ==
  /\ thr[t].pc = "split_thaw"
  /\ leaf' = [leaf EXCEPT ![node[Here(t)].split.low].frozen = FALSE]
  /\ Go(t, [pc |-> "split_swap"])
  /\ UNCHANGED <<root, node, set, fill, todo>>

SplitSwap(t) ==
  LET n == Here(t)
      split == node[n].split
  IN  /\ thr[t].pc = "split_swap"
      /\ node' = [node EXCEPT ![n] =
            [WithChild(@, Top(t).slot, IF split.high # 0 THEN split.high ELSE split.low)
               EXCEPT !.split = NoSplit]]
      /\ Go(t, [pc |-> "split_unlock"])
      /\ UNCHANGED <<root, leaf, set, fill, todo>>

SplitUnlock(t) ==
  /\ thr[t].pc = "split_unlock"
  /\ node' = [node EXCEPT ![Here(t)].latch = "free"]
  /\ Go(t, [pc |-> "find"])
  /\ UNCHANGED <<root, leaf, set, fill, todo>>

\* A child has no leaf: min takes the next child of the metadata it has read.
NoMinimum(t) ==
  LET n == Here(t)
      past == node[n].slots[Top(t).slot].key
      rest == {s \in DOMAIN Top(t).metadata :
                 Top(t).metadata[s][2] /\ Top(t).metadata[s][1] > past}
  IN  IF Top(t).slot = 0 THEN Return(t, "None")
      ELSE Go(t, [pc |-> "load", path |-> Append(Front(thr[t].path),
                 [Top(t) EXCEPT !.slot = FirstSlot(n, rest)])])

-----------------------------------------------------------------------------
(***************************************************************************)
(* InternalNode::split_node and Node::split_root.                          *)
(***************************************************************************)
\* What a parent, or the TreeIndex, does about the result of a node.
Returned(t) ==
  LET r == thr[t].result
      op == thr[t].op
  IN  /\ thr[t].pc = "return" /\ thr[t].path # <<>>
      /\ CASE r = "Full"    -> Go(t, [pc |-> "node_lock"])
           [] r = "Retired" -> Go(t, [pc |-> "coalesce", gone |-> FALSE])
           [] r = "Cleanup" -> IF CleanupLink(Here(t), thr[t].key) THEN Done(t, "true")
                               ELSE Return(t, "Cleanup")
           [] r = "Fail"    -> Return(t, "Fail")
           [] r = "None"    -> IF Top(t).min THEN NoMinimum(t)
                               ELSE IF thr[t].child = Here(t) THEN Return(t, "None")
                               ELSE Fallback(t)
      /\ UNCHANGED <<root, node, leaf, set, fill, todo>>

ReturnedToTree(t) ==
  LET r == thr[t].result
  IN  /\ thr[t].pc = "return" /\ thr[t].path = <<>>
      /\ CASE r = "Full" -> Go(t, [pc |-> "split_root"])
           [] r \in {"Retired", "Cleanup"} -> Go(t, [pc |-> "cleanup", at |-> root])
           [] r = "Fail" -> IF thr[t].removed THEN Go(t, [pc |-> "cleanup", at |-> root])
                            ELSE Done(t, "false")
           [] r = "None" -> IF thr[t].op = "range" /\ ~thr[t].least
                            THEN Go(t, [pc |-> "find", least |-> TRUE,
                                        path |-> <<Frame(thr[t].at, TRUE)>>])
                            ELSE Done(t, "end")
      /\ UNCHANGED <<root, node, leaf, set, fill, todo>>

NodeLock(t) ==
  LET n == Here(t)
      s == Top(t).slot
      roll(next) == Go(t, [pc |-> "rollback", at |-> thr[t].child, after |-> next])
  IN  /\ thr[t].pc = "node_lock"
      /\ \/ /\ node[n].latch # "free"
            /\ roll("node_wait")
            /\ UNCHANGED node
         \/ /\ node[n].latch = "free" /\ Child(n, s) # thr[t].child
            /\ roll("root")
            /\ UNCHANGED node
         \/ /\ node[n].latch = "free" /\ Child(n, s) = thr[t].child
            /\ node' = [node EXCEPT ![n].latch = "locked",
                          ![n].split.origin = thr[t].child, ![n].split.key = SlotKey(n, s)]
            /\ Go(t, [pc |-> "node_split"])
      /\ UNCHANGED <<root, leaf, set, fill, todo>>

NodeWait(t) ==
  /\ thr[t].pc = "node_wait"
  /\ Await(t, Here(t), "root")
  /\ UNCHANGED <<root, node, leaf, set, fill, todo>>

\* The children of the full node c with those of its own split in the place of
\* their origin; key 0 is the unbounded one.
Entries(c) ==
  LET split == node[c].split
      middle == IF node[c].kind = "leaf" THEN Max(leaf[split.low].keys) ELSE split.middle
      bounded == SetToSortSeq(Live(c), LAMBDA a, b : node[c].slots[a].key < node[c].slots[b].key)
      two(key) == <<[key |-> middle, child |-> split.low, live |-> TRUE],
                    [key |-> key, child |-> split.high, live |-> TRUE]>>
      one(key, child) == <<[key |-> key, child |-> child, live |-> TRUE]>>
  IN  FlattenSeq([i \in DOMAIN bounded |->
                    LET x == node[c].slots[bounded[i]]
                    IN  IF x.key = split.key THEN two(x.key) ELSE one(x.key, x.child)])
        \o (IF split.key = 0 THEN two(0) ELSE one(0, node[c].unbounded))

\* The low and the high node made of the entries of c, and the middle key.  The
\* nodes of leaves are locked until the split is committed.
SplitNode(c, boundary) ==
  LET all == Entries(c)
      size == IF boundary < Len(all) - 1 THEN boundary ELSE Len(all) - 1
      new == [NewNode(node[c].kind) EXCEPT
                !.latch = IF node[c].kind = "leaf" THEN "locked" ELSE "free"]
  IN  [low |-> [new EXCEPT !.slots = SubSeq(all, 1, size - 1),
                           !.unbounded = all[size].child],
       high |-> [new EXCEPT !.slots = SubSeq(all, size + 1, Len(all) - 1),
                            !.unbounded = Last(all).child],
       middle |-> all[size].key]

\* The full node remembers the new leaf nodes for its commit.
NoteNodes(r, low) ==
  IF r.kind = "leaf" THEN [r EXCEPT !.split.lowNode = low, !.split.highNode = low + 1] ELSE r

NodeSplit(t) ==
  LET n == Here(t)
      c == thr[t].child
      low == Len(node) + 1
  IN  /\ thr[t].pc = "node_split"
      /\ \E boundary \in 1 .. Capacity - 1 :
           LET new == SplitNode(c, boundary)
           IN  node' = [node EXCEPT ![c] = NoteNodes(@, low),
                          ![n].split.low = low, ![n].split.high = low + 1,
                          ![n].split.middle = new.middle] \o <<new.low, new.high>>
      /\ Go(t, [pc |-> "node_insert"])
      /\ UNCHANGED <<root, leaf, set, fill, todo>>

NodeInsert(t) ==
  LET n == Here(t)
      split == node[n].split
  IN  /\ thr[t].pc = "node_insert"
      /\ \/ /\ ChildrenFull(n)
            /\ Return(t, "Full")
            /\ UNCHANGED node
         \/ /\ ~ChildrenFull(n)
            /\ \A s \in Live(n) : node[n].slots[s].key # split.middle
            /\ node' = [node EXCEPT ![n].slots =
                          Append(@, [key |-> split.middle, child |-> split.low, live |-> TRUE])]
            /\ Go(t, [pc |-> "node_swap"])
      /\ UNCHANGED <<root, leaf, set, fill, todo>>

NodeSwap(t) ==
  /\ thr[t].pc = "node_swap"
  /\ node' = [node EXCEPT ![Here(t)] = WithChild(@, Top(t).slot, @.split.high)]
  /\ Go(t, [pc |-> "node_unlock", at |-> Here(t), after |-> "find"])
  /\ UNCHANGED <<root, leaf, set, fill, todo>>

\* A new root over the two halves of the old one.
SplitRoot(t) ==
  LET low == Len(node) + 1
  IN  /\ thr[t].pc = "split_root"
      /\ \E boundary \in 1 .. Capacity - 1 :
           LET new == SplitNode(root, boundary)
               top == [NewNode("internal") EXCEPT !.latch = "locked",
                         !.slots = <<[key |-> new.middle, child |-> low, live |-> TRUE]>>,
                         !.unbounded = low + 1]
           IN  node' = [node EXCEPT ![root] = NoteNodes(@, low)] \o <<new.low, new.high, top>>
      /\ root' = low + 2
      /\ Go(t, [pc |-> "node_unlock", child |-> root, at |-> low + 2, after |-> "root"])
      /\ UNCHANGED <<leaf, set, fill, todo>>

\* finish_split
NodeUnlock(t) ==
  LET n == thr[t].at
  IN  /\ thr[t].pc = "node_unlock"
      /\ node' = [node EXCEPT ![n].split = NoSplit, ![n].latch = "free"]
      /\ Go(t, [pc |-> "commit", at |-> thr[t].child])
      /\ UNCHANGED <<root, leaf, set, fill, todo>>

\* commit of an internal node, which goes on to its origin
Commit(t) ==
  LET n == thr[t].at
  IN  /\ thr[t].pc = "commit" /\ node[n].kind = "internal"
      /\ node' = [node EXCEPT ![n].split = NoSplit, ![n].latch = "retired"]
      /\ Go(t, [at |-> node[n].split.origin])
      /\ UNCHANGED <<root, leaf, set, fill, todo>>

\* commit of a leaf node: the origin is deleted before the new leaves thaw
CommitDelete(t) ==
  /\ thr[t].pc = "commit" /\ node[thr[t].at].kind = "leaf"
  /\ leaf' = [leaf EXCEPT ![node[thr[t].at].split.origin].tag = "deleted"]
  /\ Go(t, [pc |-> "commit_thaw"])
  /\ UNCHANGED <<root, node, set, fill, todo>>

CommitThaw(t) ==
  LET split == node[thr[t].at].split
  IN  /\ thr[t].pc = "commit_thaw"
      /\ leaf' = [leaf EXCEPT ![split.low].frozen = FALSE, ![split.high].frozen = FALSE]
      /\ Go(t, [pc |-> "commit_unlock"])
      /\ UNCHANGED <<root, node, set, fill, todo>>

CommitUnlock(t) ==
  LET n == thr[t].at
      split == node[n].split
  IN  /\ thr[t].pc = "commit_unlock"
      /\ node' = [node EXCEPT ![split.lowNode].latch = "free",
                              ![split.highNode].latch = "free",
                              ![n].split = NoSplit, ![n].latch = "retired"]
      /\ Go(t, [pc |-> thr[t].after])
      /\ UNCHANGED <<root, leaf, set, fill, todo>>

\* rollback of an internal node, which goes on to its origin
Rollback(t) ==
  LET n == thr[t].at
  IN  /\ thr[t].pc = "rollback" /\ node[n].kind = "internal"
      /\ node' = [node EXCEPT ![n].split = NoSplit, ![n].latch = "free"]
      /\ Go(t, [at |-> node[n].split.origin])
      /\ UNCHANGED <<root, leaf, set, fill, todo>>

\* rollback of a leaf node: the new leaves are deleted, the high one first
RollbackHigh(t) ==
  /\ thr[t].pc = "rollback" /\ node[thr[t].at].kind = "leaf"
  /\ leaf' = [leaf EXCEPT ![node[thr[t].at].split.high].tag = "deleted"]
  /\ Go(t, [pc |-> "rollback_low"])
  /\ UNCHANGED <<root, node, set, fill, todo>>

RollbackLow_Origin(t) ==
  /\ thr[t].pc = "rollback_low"
  /\ leaf' = [leaf EXCEPT ![node[thr[t].at].split.origin].tag = "deleted"]
  /\ Go(t, [pc |-> "rollback_thaw"])
  /\ UNCHANGED <<root, node, set, fill, todo>>

RollbackLow(t) ==
  /\ thr[t].pc = "rollback_low"
  /\ leaf' = [leaf EXCEPT ![node[thr[t].at].split.low].tag = "deleted"]
  /\ Go(t, [pc |-> "rollback_thaw"])
  /\ UNCHANGED <<root, node, set, fill, todo>>

RollbackThaw_Frozen(t) ==
  /\ thr[t].pc = "rollback_thaw"
  /\ Go(t, [pc |-> "rollback_unmark"])
  /\ UNCHANGED <<root, node, leaf, set, fill, todo>>

RollbackThaw(t) ==
  /\ thr[t].pc = "rollback_thaw"
  /\ leaf' = [leaf EXCEPT ![node[thr[t].at].split.origin].frozen = FALSE]
  /\ Go(t, [pc |-> "rollback_unmark"])
  /\ UNCHANGED <<root, node, set, fill, todo>>

RollbackUnmark(t) ==
  /\ thr[t].pc = "rollback_unmark"
  /\ leaf' = [leaf EXCEPT ![node[thr[t].at].split.origin].tag = "clear"]
  /\ Go(t, [pc |-> "rollback_unlock"])
  /\ UNCHANGED <<root, node, set, fill, todo>>

RollbackUnlock(t) ==
  LET n == thr[t].at
  IN  /\ thr[t].pc = "rollback_unlock"
      /\ node' = [node EXCEPT ![n].split = NoSplit, ![n].latch = "free"]
      /\ Go(t, [pc |-> thr[t].after])
      /\ UNCHANGED <<root, leaf, set, fill, todo>>

-----------------------------------------------------------------------------
(***************************************************************************)
(* coalesce of a leaf node and of an internal node, and cleanup_root.      *)
(***************************************************************************)
\* The end of coalesce without the node being retired.
Coalesced(t, gone) ==
  IF thr[t].op = "insert" THEN Go(t, [pc |-> "root"])
  ELSE IF gone THEN Return(t, "Cleanup")
  ELSE Done(t, "true")

CoalesceLock(t) ==
  LET n == Here(t)
  IN  /\ thr[t].pc = "coalesce"
      /\ \/ /\ node[n].latch # "free"
            /\ Coalesced(t, thr[t].gone)
            /\ UNCHANGED node
         \/ /\ node[n].latch = "free"
            /\ node' = [node EXCEPT ![n].latch = "locked"]
            /\ Go(t, [pc |-> "visit", visit |-> Live(n), keep |-> 0])
      /\ UNCHANGED <<root, leaf, set, fill, todo>>

\* delete_self of a retired leaf, which a coalescence does first.
Undeleted(kind, c) == kind = "leaf" /\ leaf[c].tag # "deleted"
DeleteLeaf(c) == leaf' = [leaf EXCEPT ![c].tag = "deleted"] /\ UNCHANGED <<node, thr>>

\* The children in the order of their keys: the key of a retired one is removed
\* from the metadata before its pointer is nullified.
CoalesceVisit(t) ==
  LET n == Here(t)
      s == FirstSlot(n, thr[t].visit)
      c == Child(n, s)
      retired == Retired(node[n].kind, c)
  IN  /\ thr[t].pc = "visit" /\ thr[t].visit # {}
      /\ \/ /\ retired /\ Undeleted(node[n].kind, c)
            /\ DeleteLeaf(c)
         \/ /\ retired /\ ~Undeleted(node[n].kind, c)
            /\ node' = [node EXCEPT ![n].slots[s].live = FALSE]
            /\ Go(t, [pc |-> "nullify"])
            /\ UNCHANGED leaf
         \/ /\ ~retired
            /\ Go(t, [visit |-> thr[t].visit \ {s}, keep |-> s])
            /\ UNCHANGED <<node, leaf>>
      /\ UNCHANGED <<root, set, fill, todo>>

CoalesceNullify(t) ==
  LET n == Here(t)
      last == thr[t].visit = {}
      s == IF last THEN thr[t].keep ELSE FirstSlot(n, thr[t].visit)
  IN  /\ thr[t].pc = "nullify"
      /\ node' = [node EXCEPT ![n].slots[s].child = 0]
      /\ Go(t, [visit |-> thr[t].visit \ {s},
                pc |-> IF last THEN "coalesce_unlock" ELSE "visit",
                gone |-> thr[t].gone \/ node[n].kind = "internal" \/ thr[t].keep = 0])
      /\ UNCHANGED <<root, leaf, set, fill, todo>>

\* The unbounded child: without another child the node retires with it; an
\* internal node puts its last child in its place.
CoalesceUnbounded(t) ==
  LET n == Here(t)
      u == node[n].unbounded
      kind == node[n].kind
      keep == thr[t].keep
      dead == u # 0 /\ Retired(kind, u)
  IN  /\ thr[t].pc = "visit" /\ thr[t].visit = {}
      /\ \/ /\ IF kind = "leaf" THEN keep # 0 \/ (u # 0 /\ ~dead) ELSE u # 0 /\ ~dead
            /\ Go(t, [pc |-> "coalesce_unlock", result |-> "none"])
            /\ UNCHANGED <<node, leaf>>
         \/ /\ dead /\ keep # 0 /\ kind = "internal"
            /\ node' = [node EXCEPT ![n].unbounded = Child(n, keep)]
            /\ Go(t, [pc |-> "replaced", result |-> "none", gone |-> TRUE])
            /\ UNCHANGED leaf
         \/ /\ dead /\ keep = 0 /\ Undeleted(kind, u)
            /\ DeleteLeaf(u)
         \/ /\ dead /\ keep = 0 /\ ~Undeleted(kind, u)
            /\ node' = [node EXCEPT ![n].unbounded = 0, ![n].retired = TRUE]
            /\ Go(t, [pc |-> "coalesce_unlock", result |-> "Retired"])
            /\ UNCHANGED leaf
         \/ /\ u = 0 /\ (kind = "leaf" => keep = 0)
            /\ Go(t, [pc |-> "coalesce_unlock", result |-> "Retired"])
            /\ UNCHANGED <<node, leaf>>
      /\ UNCHANGED <<root, set, fill, todo>>

CoalesceReplaced(t) ==
  /\ thr[t].pc = "replaced"
  /\ node' = [node EXCEPT ![Here(t)].slots[thr[t].keep].live = FALSE]
  /\ Go(t, [pc |-> "nullify"])
  /\ UNCHANGED <<root, leaf, set, fill, todo>>

CoalesceUnlock(t) ==
  /\ thr[t].pc = "coalesce_unlock"
  /\ node' = [node EXCEPT ![Here(t)].latch = "free"]
  /\ IF thr[t].result = "Retired" THEN Return(t, "Retired") ELSE Go(t, [pc |-> "again"])
  /\ UNCHANGED <<root, leaf, set, fill, todo>>

CoalesceAgain(t) ==
  /\ thr[t].pc = "again"
  /\ IF HasRetired(Here(t)) THEN Go(t, [pc |-> "coalesce"]) ELSE Coalesced(t, thr[t].gone)
  /\ UNCHANGED <<root, node, leaf, set, fill, todo>>

Usable(n) == ~node[n].retired /\ (node[n].kind = "internal" => Live(n) # {})

\* The end of cleanup_root: FALSE if another thread had locked the root.
CleanedUp(t, ok) ==
  IF thr[t].op = "insert" THEN Go(t, [pc |-> "root"])
  ELSE IF ok THEN Done(t, "true")
  ELSE Go(t, [pc |-> "root", removed |-> TRUE])

CleanupCheck(t) ==
  LET n == thr[t].at
  IN  /\ thr[t].pc = "cleanup"
      /\ IF n = 0 \/ Usable(n) THEN CleanedUp(t, TRUE) ELSE Go(t, [pc |-> "cleanup_lock"])
      /\ UNCHANGED <<root, node, leaf, set, fill, todo>>

CleanupLock(t) ==
  LET n == thr[t].at
  IN  /\ thr[t].pc = "cleanup_lock"
      /\ IF node[n].latch = "free"
         THEN /\ node' = [node EXCEPT ![n].latch = "locked"]
              /\ Go(t, [pc |-> "cleanup_swap"])
         ELSE Await(t, n, "cleanup_failed") /\ UNCHANGED node
      /\ UNCHANGED <<root, leaf, set, fill, todo>>

CleanupFailed(t) ==
  /\ thr[t].pc = "cleanup_failed"
  /\ CleanedUp(t, FALSE)
  /\ UNCHANGED <<root, node, leaf, set, fill, todo>>

CleanupSwap(t) ==
  LET n == thr[t].at
  IN  /\ thr[t].pc = "cleanup_swap"
      /\ \/ /\ root # n
            /\ node' = [node EXCEPT ![n].latch = "free"]
            /\ Go(t, [pc |-> "cleanup", at |-> root])
            /\ UNCHANGED root
         \/ /\ root = n /\ Usable(n)
            /\ node' = [node EXCEPT ![n].latch = "free"]
            /\ CleanedUp(t, TRUE)
            /\ UNCHANGED root
         \/ /\ root = n /\ ~Usable(n)
            /\ root' = IF node[n].retired THEN 0 ELSE node[n].unbounded
            /\ Go(t, [pc |-> "cleanup_unlock", child |-> root'])
            /\ UNCHANGED node
      /\ UNCHANGED <<leaf, set, fill, todo>>

\* Only an internal node is latched for good.
CleanupUnlock(t) ==
  LET n == thr[t].at
  IN  /\ thr[t].pc = "cleanup_unlock"
      /\ node' = [node EXCEPT ![n].latch = IF node[n].kind = "internal" THEN "retired" ELSE "free"]
      /\ Go(t, [pc |-> "cleanup", at |-> thr[t].child])
      /\ UNCHANGED <<root, leaf, set, fill, todo>>

-----------------------------------------------------------------------------
TreeStep(t) ==
  \/ Begin(t) \/ Finish(t) \/ Wait(t)
  \/ LoadRoot(t) \/ FindChild(t) \/ NoLessChild(t) \/ LoadChild(t)
  \/ LeafInsert(t) \/ LeafPostInsert(t) \/ LeafRollback(t) \/ LeafRemove(t) \/ LeafSearch(t)
  \/ SplitLock(t) \/ SplitFreeze(t) \/ SplitPushHigh(t) \/ SplitPushLow(t)
  \/ SplitInsert(t) \/ SplitDelete(t) \/ SplitThaw(t)
  \/ SplitSwap(t) \/ SplitUnlock(t)
  \/ Returned(t) \/ ReturnedToTree(t)
  \/ NodeLock(t) \/ NodeWait(t) \/ NodeSplit(t) \/ NodeInsert(t) \/ NodeSwap(t)
  \/ SplitRoot(t) \/ NodeUnlock(t)
  \/ Commit(t) \/ CommitDelete(t) \/ CommitThaw(t) \/ CommitUnlock(t)
  \/ Rollback(t) \/ RollbackHigh(t) \/ RollbackLow(t) \/ RollbackThaw(t)
  \/ RollbackUnmark(t) \/ RollbackUnlock(t)
  \/ CoalesceLock(t) \/ CoalesceVisit(t) \/ CoalesceNullify(t) \/ CoalesceUnbounded(t)
  \/ CoalesceReplaced(t) \/ CoalesceUnlock(t) \/ CoalesceAgain(t)
  \/ CleanupCheck(t) \/ CleanupLock(t) \/ CleanupFailed(t) \/ CleanupSwap(t) \/ CleanupUnlock(t)

AllDone == fill = <<>> /\ \A t \in Threads : todo[t] = <<>>

-----------------------------------------------------------------------------
(***************************************************************************)
(* Properties.                                                             *)
(***************************************************************************)
\* Where a search for k from the root ends now.
Lookup(k) ==
  LET home[n \in 0 .. Len(node)] ==
        IF n = 0 THEN FALSE
        ELSE LET c == Child(n, MinGreaterEqual(n, k))
             IN  IF node[n].kind = "leaf" THEN c # 0 /\ k \in leaf[c].keys
                 ELSE home[c]
  IN  home[root]

\* The keys that a search from the root finds are those that have been inserted
\* and not removed, at every moment of every split, rollback, coalescence and
\* change of the root: no key is lost, doubled or resurrected.
TreeIsSet == \A k \in set \cup UNION {leaf[l].keys : l \in DOMAIN leaf} : Lookup(k) <=> k \in set

\* A call tells of the tree what was true at some time while it ran: a key is
\* found, or is a duplicate, only if it was there, and is missed, or inserted,
\* only if it was not; a removal or an insertion is reported iff it was done.
\* Two things are short of it: an insertion that was refused by a leaf being
\* split may be told of a duplicate (DuplicateIsReal), and a removal that has
\* lost the root to another thread may descend and remove again (RemovesOnce).
ResultsAreReal ==
  \A t \in Threads :
    LET x == thr[t]
        there == x.key \in x.ever
        missing == x.key \notin x.through
    IN  x.pc = "done" =>
          CASE x.op = "insert" -> IF x.result = "true" THEN missing /\ x.did = 1
                                  ELSE (there \/ x.refused > 0) /\ x.did = 0
            [] x.op = "remove" -> IF x.result = "true" THEN there /\ x.did > 0 /\ (x.did = 1 \/ x.removed)
                                  ELSE missing /\ x.did = 0
            [] x.op = "peek"   -> IF x.result = "true" THEN there ELSE missing
            [] OTHER -> TRUE

\* The documentation of TreeIndex::insert: it returns an error if the key exists.
\* An insertion that fails has met its key.
DuplicateIsReal ==
  \A t \in Threads :
    thr[t].pc = "done" /\ thr[t].op = "insert" /\ thr[t].result = "false" =>
      thr[t].key \in thr[t].ever

\* The documentation of TreeIndex: its methods are linearizable.  One call of
\* remove takes effect once.
RemovesOnce == \A t \in Threads : thr[t].did <= 1

\* Every call ends: no latch stays locked and no leaf frozen for those that
\* wait or try again.  Two insertions may refuse each other for ever, each
\* splitting the leaf in which the other has reserved the last slot: MaxRefused
\* takes it that they do not.
CallsEnd == <>AllDone
==============================================================================
