------------------------------ MODULE TreeScan -------------------------------
(***************************************************************************)
(* The iterators of TreeIndex, over module Tree: Iter from the minimum on, *)
(* and Range from about its lower bound to its upper bound.                *)
(*                                                                         *)
(* Both walk along the linked list of leaves with a Scanner, which keeps   *)
(* the metadata word it has read of a leaf: what it yields of a leaf is    *)
(* one snapshot of it, while the leaf is split, emptied or unlinked.       *)
(***************************************************************************)
EXTENDS Tree

\* A Scanner on the leaf c, with what is left of its metadata; set_check_upper_bound
\* follows in a Range.
Scans(t, c, K) ==
  Go(t, [pc |-> "bound", at |-> c, child |-> c, seen |-> K, keep |-> Max(K)])

\* max_le_appr returns None to the parent, or the Range is at its end.
NotLess(t) ==
  LET parents == SelectSeq(thr[t].path, LAMBDA f : ~f.min)
  IN  IF parents = <<>> THEN Done(t, "end")
      ELSE Go(t, [pc |-> "return", result |-> "None", child |-> Last(parents).node,
                  path |-> Front(parents)])

\* The minimum is where to begin, if it is not beyond the lower bound or if
\* there is nothing else.
FoundMinimum(t, c, K) ==
  IF thr[t].least \/ Min(K) <= thr[t].key THEN Scans(t, c, K) ELSE NotLess(t)

\* LeafNode::max_le_appr: the largest key of the leaf less than the bound.
LeafMaxLess(t) ==
  LET c == thr[t].child
      less == {k \in leaf[c].keys : k < thr[t].key}
  IN  /\ thr[t].pc = "leaf" /\ thr[t].op = "range" /\ ~Top(t).min
      /\ IF less = {} THEN Fallback(t)
         ELSE Scans(t, c, {k \in leaf[c].keys : k >= Max(less)})
      /\ UNCHANGED <<root, node, leaf, set, fill, todo>>

\* The leaf that min has found; one that has been emptied is passed over.
LeafMin(t) ==
  LET c == thr[t].child
  IN  /\ thr[t].pc = "leaf" /\ thr[t].op = "range" /\ Top(t).min
      /\ IF leaf[c].keys = {} THEN Go(t, [pc |-> "seek", next |-> c])
         ELSE FoundMinimum(t, c, leaf[c].keys)
      /\ UNCHANGED <<root, node, leaf, set, fill, todo>>

Seek(t) ==
  LET l == NextPtr(thr[t].next)
  IN  /\ thr[t].pc = "seek"
      /\ IF l = 0 THEN NotLess(t) ELSE Go(t, [pc |-> "sought", next |-> l])
      /\ UNCHANGED <<root, node, leaf, set, fill, todo>>

Sought(t) ==
  LET l == thr[t].next
  IN  /\ thr[t].pc = "sought"
      /\ IF leaf[l].keys = {} THEN Go(t, [pc |-> "seek"])
         ELSE FoundMinimum(t, l, leaf[l].keys)
      /\ UNCHANGED <<root, node, leaf, set, fill, todo>>

\* set_check_upper_bound: whether the leaf, as it is now, has keys beyond the
\* upper bound.
CheckUpper(t) ==
  leaf[thr[t].at].keys # {} /\ Max(leaf[thr[t].at].keys) > thr[t].upper

\* Range::next on the keys of the Scanner: those below the range are skipped
\* until one is in it, and one beyond it is the end if that is checked.
RangeYield(t) ==
  LET K == IF thr[t].checkLower THEN {k \in thr[t].seen : k >= thr[t].key} ELSE thr[t].seen
      inside == {k \in K : k <= thr[t].upper}
      ends == CheckUpper(t) /\ K # inside
  IN  /\ thr[t].pc = "bound" /\ thr[t].op = "range"
      /\ Go(t, [pc |-> IF ends THEN "done" ELSE "jump",
                checkLower |-> thr[t].checkLower /\ K = {},
                out |-> thr[t].out \o Ascending(IF ends THEN inside ELSE K)])
      /\ UNCHANGED <<root, node, leaf, set, fill, todo>>

-----------------------------------------------------------------------------
(***************************************************************************)
(* Iter::next and Scanner::jump.                                           *)
(***************************************************************************)
\* A Scanner on the first leaf.
ScanFirst(t) ==
  LET c == thr[t].child
  IN  /\ thr[t].pc = "leaf" /\ thr[t].op = "scan"
      /\ Go(t, [pc |-> "bound", at |-> c, seen |-> leaf[c].keys,
                keep |-> IF leaf[c].keys = {} THEN 0 ELSE Max(leaf[c].keys)])
      /\ UNCHANGED <<root, node, leaf, set, fill, todo>>

\* It yields the keys of its metadata.
ScanYield(t) ==
  /\ thr[t].pc = "bound" /\ thr[t].op = "scan"
  /\ Go(t, [pc |-> "jump", out |-> thr[t].out \o Ascending(thr[t].seen)])
  /\ UNCHANGED <<root, node, leaf, set, fill, todo>>

\* jump: the pointer to the next leaf of the one at hand, or of an empty one.
ScanNext(t) ==
  LET l == NextPtr(thr[t].at)
  IN  /\ thr[t].pc = "jump"
      /\ IF l = 0 THEN Done(t, "end") ELSE Go(t, [pc |-> "snapshot", next |-> l])
      /\ UNCHANGED <<root, node, leaf, set, fill, todo>>

ScanSnapshot(t) ==
  /\ thr[t].pc = "snapshot"
  /\ Go(t, [pc |-> "compare", seen |-> leaf[thr[t].next].keys])
  /\ UNCHANGED <<root, node, leaf, set, fill, todo>>

\* The keys are compared only if the leaf jumped from is marked or deleted.
Compared(t) == thr[t].keep # 0 /\ leaf[thr[t].child].tag # "clear"

ScanCompare(t) ==
  LET K == IF Compared(t) THEN {k \in thr[t].seen : k > thr[t].keep} ELSE thr[t].seen
  IN  /\ thr[t].pc = "compare"
      /\ IF K = {} THEN Go(t, [pc |-> "jump", at |-> thr[t].next])
         ELSE Scans(t, thr[t].next, K)
      /\ UNCHANGED <<root, node, leaf, set, fill, todo>>

-----------------------------------------------------------------------------
Step(t) ==
  \/ TreeStep(t)
  \/ LeafMaxLess(t) \/ LeafMin(t) \/ Seek(t) \/ Sought(t) \/ RangeYield(t)
  \/ ScanFirst(t) \/ ScanYield(t) \/ ScanNext(t) \/ ScanSnapshot(t) \/ ScanCompare(t)

Next == (\E t \in Threads : Step(t)) \/ (AllDone /\ UNCHANGED vars)

Spec == Init /\ [][Next]_vars

\* A thread that can take a step takes one: the code waits only for latches.
FairSpec == Spec /\ \A t \in Threads : WF_vars(Step(t))

-----------------------------------------------------------------------------
(***************************************************************************)
(* Properties.                                                             *)
(***************************************************************************)
\* The keys an iterator is to visit.
Wanted(t, K) ==
  IF thr[t].op = "range" THEN {k \in K : thr[t].key <= k /\ k <= thr[t].upper} ELSE K

\* An iterator visits every key that is in the tree, and in its range, all
\* along, whatever splits, rollbacks and coalescences it passes, and no key
\* that was not there at any time since it began.
ScanMeetsAll ==
  \A t \in Threads : thr[t].pc = "done" /\ thr[t].op \in {"scan", "range"} =>
    /\ Wanted(t, thr[t].through) \subseteq Range(thr[t].out)
    /\ Range(thr[t].out) \subseteq thr[t].ever

\* The documentation of TreeIndex::iter: key-value pairs are scanned in
\* ascending order.
ScanAscends ==
  \A t \in Threads : \A i, j \in DOMAIN thr[t].out :
    i < j => thr[t].out[i] < thr[t].out[j]

\* The documentation of TreeIndex::range: it scans keys in the given range.
RangeInside ==
  \A t \in Threads : Range(thr[t].out) = Wanted(t, Range(thr[t].out))
==============================================================================
