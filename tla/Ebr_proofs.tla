----------------------------- MODULE Ebr_proofs -----------------------------
(***************************************************************************)
(* Proofs about Ebr, for any finite set of collectors and any set of       *)
(* objects: who owns a retired instance and a collector, and that nothing  *)
(* a Guard may refer to is deallocated.                                    *)
(***************************************************************************)
EXTENDS Ebr, TLAPS

-----------------------------------------------------------------------------
(* The sequences of collectors: the anchor's list and what a scan has left. *)

\* Linking a collector at the head of the list (alloc) adds just it.
LEMMA ConsRange ==
  ASSUME NEW S, NEW q \in Seq(S), NEW a \in S
  PROVE  /\ <<a>> \o q \in Seq(S)
         /\ Range(<<a>> \o q) = {a} \cup Range(q)
         /\ a \notin Range(q) /\ IsInjective(q) => IsInjective(<<a>> \o q)
<1> DEFINE r == <<a>> \o q
<1>1. /\ r \in Seq(S) /\ DOMAIN r = 1 .. Len(q) + 1 /\ DOMAIN q = 1 .. Len(q)
      /\ r[1] = a /\ Len(q) \in Nat
      /\ \A i \in 1 .. Len(q) : r[i + 1] = q[i]
  OBVIOUS
<1>2. \A i \in DOMAIN r : i = 1 \/ (i - 1 \in DOMAIN q /\ r[i] = q[i - 1])
  BY <1>1
<1>3. Range(r) = {a} \cup Range(q)
  <2>1. Range(r) \subseteq {a} \cup Range(q)
    BY <1>1, <1>2 DEF Range
  <2>2. \A i \in DOMAIN q : i + 1 \in DOMAIN r /\ r[i + 1] = q[i]
    BY <1>1
  <2>3. 1 \in DOMAIN r
    BY <1>1
  <2> QED BY ZenonT(60), <1>1, <2>1, <2>2, <2>3 DEF Range
<1>4. ASSUME a \notin Range(q), IsInjective(q),
             NEW i \in DOMAIN r, NEW j \in DOMAIN r, r[i] = r[j]
      PROVE  i = j
  <2>1. \A k \in DOMAIN q : q[k] # a
    BY <1>4 DEF Range
  <2>2. \A k, l \in DOMAIN q : q[k] = q[l] => k = l
    BY <1>4 DEF IsInjective
  <2> QED BY <1>1, <1>2, <1>4, <2>1, <2>2
<1> QED BY <1>1, <1>3, <1>4 DEF IsInjective

\* Going on to the next collector of a scan takes just the first one off.
LEMMA TailRange ==
  ASSUME NEW S, NEW q \in Seq(S), q # <<>>, IsInjective(q)
  PROVE  /\ Tail(q) \in Seq(S) /\ IsInjective(Tail(q))
         /\ Head(q) \in Range(q) /\ Head(q) \in S
         /\ Range(Tail(q)) = Range(q) \ {Head(q)}
<1> DEFINE t == Tail(q)
<1>1. /\ t \in Seq(S) /\ DOMAIN t = 1 .. Len(q) - 1 /\ DOMAIN q = 1 .. Len(q)
      /\ Len(q) \in Nat \ {0} /\ Head(q) = q[1]
      /\ \A i \in 1 .. Len(q) - 1 : t[i] = q[i + 1]
  OBVIOUS
<1>2. \A k, l \in DOMAIN q : q[k] = q[l] => k = l
  BY DEF IsInjective
<1>3. \A i \in DOMAIN t : t[i] = q[i + 1] /\ i + 1 \in DOMAIN q /\ i + 1 # 1
  BY <1>1
<1>4. \A i \in DOMAIN q : i = 1 \/ (i - 1 \in DOMAIN t /\ q[i] = t[i - 1])
  BY <1>1
<1>5. 1 \in DOMAIN q /\ Head(q) \in S
  BY <1>1
<1>6. IsInjective(t)
  <2> SUFFICES ASSUME NEW i \in DOMAIN t, NEW j \in DOMAIN t, t[i] = t[j]
               PROVE  i = j
    BY DEF IsInjective
  <2>1. i + 1 = j + 1
    BY <1>2, <1>3
  <2> QED BY <1>1, <2>1
<1>7. Range(t) \subseteq Range(q) \ {Head(q)}
  BY <1>1, <1>2, <1>3, <1>5 DEF Range
<1>8. Range(q) \ {Head(q)} \subseteq Range(t)
  BY <1>1, <1>4 DEF Range
<1> QED BY <1>1, <1>5, <1>6, <1>7, <1>8 DEF Range

\* Unlinking a collector in the middle of the list takes just it off.
LEMMA RemoveAtRange ==
  ASSUME NEW S, NEW q \in Seq(S), IsInjective(q), NEW n \in DOMAIN q
  PROVE  /\ RemoveAt(q, n) \in Seq(S) /\ IsInjective(RemoveAt(q, n))
         /\ Range(RemoveAt(q, n)) = Range(q) \ {q[n]}
<1> DEFINE l == SubSeq(q, 1, n - 1)
           h == SubSeq(q, n + 1, Len(q))
           t == l \o h
<1>1. n \in 1 .. Len(q) /\ Len(q) \in Nat /\ DOMAIN q = 1 .. Len(q)
  OBVIOUS
<1>2. l \in Seq(S) /\ Len(l) = n - 1 /\ \A i \in 1 .. n - 1 : l[i] = q[i]
  BY <1>1
<1>3. /\ h \in Seq(S) /\ Len(h) = Len(q) - n
      /\ \A i \in 1 .. Len(q) - n : h[i] = q[i + n]
  BY <1>1
<1>4. t \in Seq(S) /\ DOMAIN t = 1 .. Len(q) - 1
  BY <1>1, <1>2, <1>3
<1>5. \A i \in 1 .. n - 1 : t[i] = q[i]
  BY <1>1, <1>2, <1>3
<1>6. \A i \in n .. Len(q) - 1 : t[i] = q[i + 1]
  <2> SUFFICES ASSUME NEW i \in n .. Len(q) - 1 PROVE t[i] = q[i + 1]
    OBVIOUS
  <2>1. t[i] = h[i - (n - 1)]
    <3>1. /\ i \in Nat /\ i \in Len(l) + 1 .. Len(l) + Len(h)
          /\ i - Len(l) = i - (n - 1)
      BY <1>1, <1>2, <1>3
    <3>2. l \in Seq(S) /\ h \in Seq(S)
      BY <1>2, <1>3
    <3> HIDE DEF l, h
    <3>3. t[i] = h[i - Len(l)]
      BY <3>1, <3>2
    <3> QED BY <3>1, <3>3
  <2>2. h[i - (n - 1)] = q[i - (n - 1) + n] /\ i - (n - 1) + n = i + 1
    BY <1>1, <1>3
  <2> HIDE DEF t, h
  <2> QED BY <2>1, <2>2
<1> HIDE DEF t
<1>7. \A k, m \in DOMAIN q : q[k] = q[m] => k = m
  BY DEF IsInjective
<1>8. \A i \in DOMAIN t :
        \/ i < n /\ i \in DOMAIN q /\ t[i] = q[i]
        \/ i >= n /\ i + 1 \in DOMAIN q /\ t[i] = q[i + 1]
  BY <1>1, <1>4, <1>5, <1>6
<1>9. IsInjective(t)
  <2> SUFFICES ASSUME NEW i \in DOMAIN t, NEW j \in DOMAIN t, t[i] = t[j]
               PROVE  i = j
    BY DEF IsInjective
  <2>1. i \in Nat /\ j \in Nat /\ n \in Nat
    BY <1>1, <1>4
  <2> QED BY <1>7, <1>8, <2>1
<1>10. \A i \in DOMAIN q : \/ i = n
                           \/ i < n /\ i \in DOMAIN t /\ t[i] = q[i]
                           \/ i > n /\ i - 1 \in DOMAIN t /\ t[i - 1] = q[i]
  BY <1>1, <1>4, <1>5, <1>6
<1>11. Range(t) \subseteq Range(q) \ {q[n]}
  <2> SUFFICES ASSUME NEW i \in DOMAIN t PROVE t[i] \in Range(q) /\ t[i] # q[n]
    BY DEF Range
  <2>1. i \in Nat /\ n \in Nat /\ n \in DOMAIN q
    BY <1>1, <1>4
  <2> QED BY <1>7, <1>8, <2>1 DEF Range
<1>12. Range(q) \ {q[n]} \subseteq Range(t)
  BY <1>10 DEF Range
<1>13. RemoveAt(q, n) = t
  BY DEF RemoveAt, t
<1> QED BY <1>4, <1>9, <1>11, <1>12, <1>13

\* Without any collector in it a list is the empty sequence's.
LEMMA EmptyRange == Range(<<>>) = {} /\ IsInjective(<<>>)
  BY DEF Range, IsInjective

-----------------------------------------------------------------------------
(* What is dropped with an instance, as a function of the collectors' lists *)

\* The least set that holds S and, with a collector, its lists in g.
Closure(g, S) ==
  {x \in Instances :
     \A T \in SUBSET Instances :
       (S \subseteq T /\ \A d \in T \cap Collectors : g[d] \subseteq T)
       => x \in T}

\* The lists of all collectors.
Lists == [d \in Collectors |-> Garbage(d)]

\* What is in a list of some collector.
Retired == UNION {Garbage(d) : d \in Collectors}

\* What a drop of S drops is the least set that holds S and the lists of its
\* collectors.
LEMMA DroppedIsClosure == \A S : Dropped(S) = Closure(Lists, S)
  BY DEF Dropped, Closure, Lists, Garbage

\* Any set that holds S and the lists of its collectors holds the closure.
LEMMA ClosureLeast ==
  ASSUME NEW g, NEW S, NEW T \in SUBSET Instances, S \subseteq T,
         \A d \in T \cap Collectors : g[d] \subseteq T
  PROVE  Closure(g, S) \subseteq T
  BY DEF Closure

\* The closure of S holds S.
LEMMA ClosureHolds ==
  ASSUME NEW g, NEW S \in SUBSET Instances
  PROVE  S \subseteq Closure(g, S)
  BY DEF Closure

\* The closure holds the lists of its collectors.
LEMMA ClosureCloses ==
  ASSUME NEW g \in [Collectors -> SUBSET Instances], NEW S,
         NEW d \in Closure(g, S), d \in Collectors
  PROVE  g[d] \subseteq Closure(g, S)
<1> SUFFICES ASSUME NEW x \in g[d], NEW T \in SUBSET Instances, S \subseteq T,
                    \A e \in T \cap Collectors : g[e] \subseteq T
             PROVE  x \in T
  BY DEF Closure
<1>1. d \in T
  BY DEF Closure
<1> QED BY <1>1

\* What is dropped with S is in S or in the lists of a dropped collector.
LEMMA ClosureOrigin ==
  ASSUME NEW g \in [Collectors -> SUBSET Instances],
         NEW S \in SUBSET Instances, NEW x \in Closure(g, S)
  PROVE  x \in S \/ \E d \in Closure(g, S) \cap Collectors : x \in g[d]
<1> DEFINE C == Closure(g, S)
           T == S \cup UNION {g[d] : d \in C \cap Collectors}
<1>1. T \subseteq C
  BY ClosureHolds, ClosureCloses
<1>2. C \subseteq Instances
  BY DEF Closure
<1>3. \A d \in T \cap Collectors : g[d] \subseteq T
  BY <1>1
<1>4. C \subseteq T
  <2> HIDE DEF C, T
  <2> S \subseteq T
    BY DEF T
  <2> QED BY <1>1, <1>2, <1>3, ClosureLeast DEF C
<1> QED BY <1>4

\* Smaller lists, or a smaller set to drop, drop less.
LEMMA ClosureMonotone ==
  ASSUME NEW g, NEW h \in [Collectors -> SUBSET Instances],
         NEW S, NEW R \in SUBSET Instances,
         S \subseteq Closure(h, R),
         \A d \in Closure(h, R) \cap Collectors : g[d] \subseteq h[d]
  PROVE  Closure(g, S) \subseteq Closure(h, R)
<1> DEFINE T == Closure(h, R)
<1>1. T \in SUBSET Instances
  BY DEF Closure
<1>2. \A d \in T \cap Collectors : h[d] \subseteq T
  BY ClosureCloses
<1>3. \A d \in T \cap Collectors : g[d] \subseteq T
  BY <1>2
<1> HIDE DEF T
<1> QED BY <1>1, <1>3, ClosureLeast DEF T

\* What is dropped with a set is dropped with one of its members.
LEMMA ClosurePointwise ==
  ASSUME NEW g \in [Collectors -> SUBSET Instances],
         NEW S \in SUBSET Instances, NEW x \in Closure(g, S)
  PROVE  \E s \in S : x \in Closure(g, {s})
<1> DEFINE T == UNION {Closure(g, {s}) : s \in S}
<1>1. T \in SUBSET Instances
  BY DEF Closure
<1>2. S \subseteq T
  BY ClosureHolds
<1>3. \A d \in T \cap Collectors : g[d] \subseteq T
  BY ClosureCloses
<1>4. Closure(g, S) \subseteq T
  <2> HIDE DEF T
  <2> QED BY <1>1, <1>2, <1>3, ClosureLeast
<1> QED BY <1>4

-----------------------------------------------------------------------------
(* Ownership of instances and collectors: the inductive invariant           *)

PCs == {"unborn", "idle", "pinning", "pinned", "scan", "ending", "leaving",
        "mark", "gone"}

TypeOK ==
  /\ epoch \in 0 .. 2
  /\ anchor \in Seq(Collectors)
  /\ locked \in BOOLEAN /\ enforced \in BOOLEAN
  /\ pc \in [Collectors -> PCs]
  /\ flag \in [Collectors -> {"inactive", "active", "invalid"}]
  /\ ann \in [Collectors -> 0 .. 2] /\ loaded \in [Collectors -> 0 .. 2]
  /\ current \in [Collectors -> SUBSET Instances]
  /\ previous \in [Collectors -> SUBSET Instances]
  /\ next \in [Collectors -> SUBSET Instances]
  /\ todo \in Seq(Collectors) /\ hasPrev \in BOOLEAN
  /\ exiting \in SUBSET Collectors
  /\ freed \in SUBSET Instances
  /\ readers \in [Objects -> SUBSET Collectors]
  /\ exitScan \in BOOLEAN /\ overtaken \in BOOLEAN

Linked == Range(anchor)
Pending == Range(todo)

\* The anchor's list and the scan's rest of it are lists of different
\* collectors; a scan belongs to the one thread that has locked the anchor.
ScanInv ==
  /\ IsInjective(anchor) /\ IsInjective(todo)
  /\ Pending \subseteq Linked
  /\ ~locked => Pending = {}
  /\ \A c \in Collectors : pc[c] = "scan" => locked
  /\ \A c, d \in Collectors : pc[c] = "scan" /\ pc[d] = "scan" => c = d

\* A collector by the progress of its thread: before its allocation, while
\* its thread uses it, after it has been left behind, and while its thread
\* drops it itself.
Unborn(c) == pc[c] = "unborn"
Own(c) == pc[c] \notin {"unborn", "mark", "gone"} /\ c \notin exiting
Left(c) == pc[c] \in {"mark", "gone"} /\ c \notin exiting

LifeInv ==
  \A c \in Collectors :
    /\ Unborn(c) => /\ c \notin Linked /\ c \notin Retired /\ c \notin freed
                    /\ c \notin exiting /\ Garbage(c) = {}
                    /\ flag[c] = "inactive"
    /\ Own(c) => /\ c \in Linked
                 /\ flag[c] = IF pc[c] \in {"pinned", "scan", "ending"}
                              THEN "active" ELSE "inactive"
    /\ Left(c) => flag[c] = "invalid"
    /\ c \in exiting =>
         /\ c \notin Linked /\ c \notin Retired
         /\ pc[c] \in {"pinning", "pinned", "scan", "ending", "gone"}
         /\ flag[c] # "invalid"
         /\ c \in freed <=> pc[c] = "gone"
         /\ pc[c] # "pinning" => previous[c] = {} /\ next[c] = {}
    /\ c \in freed \cup Retired => pc[c] \in {"mark", "gone"}

\* The collectors of the anchor's list are in no list of instances.
LinkInv == Linked \cap (freed \cup Retired) = {}

OwnInv == TypeOK /\ ScanInv /\ LifeInv /\ LinkInv /\ RetiredOnce

-----------------------------------------------------------------------------
(* Epochs: what the lists of a collector may hold while Guards are alive    *)

\* The threads whose announcement the epoch waits for.
Announced == {c \in Collectors : pc[c] \in {"pinned", "scan"} /\ c \notin exiting}

\* The epoch has moved at most once since a Guard announced it, and the
\* scanning thread has met no Guard of another epoch than its own, other
\* than those made after it looked.
EpochInv ==
  /\ \A c \in Announced : epoch \in {ann[c], NextEpoch(ann[c])}
  /\ \A c \in Collectors : pc[c] = "scan" =>
       /\ c \notin exiting
       /\ \A d \in Announced \ Pending : ann[d] \in {ann[c], epoch}

\* An instance that a Guard r may refer to: in the previous list of a
\* collector that has announced the epoch of r or the next one, in the next
\* list only if that is still the global epoch.
ListsInv ==
  \A c \in Collectors, x \in Retired, o \in Objects, r \in Collectors :
    o \in Dropped({x}) /\ r \in readers[o] =>
      /\ x \in previous[c] =>
           \/ ann[c] = ann[r]
           \/ ann[c] = NextEpoch(ann[r]) /\ epoch = NextEpoch(ann[r])
      /\ x \in next[c] => ann[c] = NextEpoch(ann[r]) /\ epoch = NextEpoch(ann[r])

\* What an exiting thread drops is of no Guard's concern any more.
ExitInv ==
  \A c \in exiting, o \in Objects : o \in Dropped({c}) => readers[o] = {}

ReadersInv == \A o \in Objects : readers[o] \subseteq Guarded

GuardInv ==
  Undisturbed => EpochInv /\ ListsInv /\ ExitInv /\ ReadersInv /\ NoUseAfterFree

-----------------------------------------------------------------------------
(* OwnInv is inductive                                                      *)

\* The ownership invariant, at first.
LEMMA OwnInit == Init => OwnInv
<1> SUFFICES ASSUME Init PROVE OwnInv
  OBVIOUS
<1>1. TypeOK
  <2>1. anchor \in Seq(Collectors) /\ todo \in Seq(Collectors)
    BY DEF Init
  <2>2. locked \in BOOLEAN /\ enforced \in BOOLEAN /\ hasPrev \in BOOLEAN
        /\ exitScan \in BOOLEAN /\ overtaken \in BOOLEAN
    BY DEF Init
  <2>3. pc \in [Collectors -> PCs]
        /\ flag \in [Collectors -> {"inactive", "active", "invalid"}]
    BY DEF Init, PCs
  <2> QED BY <2>1, <2>2, <2>3 DEF Init, TypeOK
<1>2. Linked = {} /\ Pending = {} /\ ScanInv
  BY EmptyRange DEF Init, ScanInv, Linked, Pending
<1>3. \A c \in Collectors : Garbage(c) = {}
  BY DEF Init, Garbage
<1>4. Retired = {}
  BY <1>3 DEF Retired
<1>5. LifeInv /\ LinkInv
  BY <1>2, <1>3, <1>4 DEF Init, LifeInv, LinkInv, Unborn, Own, Left
<1>6. RetiredOnce
  BY <1>3 DEF Init, RetiredOnce
<1> QED BY <1>1, <1>2, <1>5, <1>6 DEF OwnInv

\* A step that leaves the lists alone leaves what is in them.
LEMMA ListsFrame ==
  ASSUME UNCHANGED listVars
  PROVE  /\ \A d \in Collectors : Garbage(d)' = Garbage(d)
         /\ Retired' = Retired /\ Lists' = Lists
         /\ UNCHANGED current /\ UNCHANGED previous /\ UNCHANGED next
<1>1. current' = current /\ previous' = previous /\ next' = next
  BY DEF listVars
<1> QED BY <1>1 DEF Garbage, Retired, Lists

\* Collector::alloc puts a new collector at the head of the list.
LEMMA AllocOwn ==
  ASSUME OwnInv, NEW c \in Collectors, Alloc(c)
  PROVE  OwnInv'
<1> USE DEF OwnInv
<1>1. Linked' = {c} \cup Linked /\ IsInjective(anchor)' /\ anchor' \in Seq(Collectors)
  BY ConsRange DEF Alloc, Linked, LifeInv, TypeOK, ScanInv, Unborn
<1>2. Pending' = Pending /\ UNCHANGED <<current, previous, next>>
  BY DEF Alloc, Pending, scanVars, listVars
<1>3. Retired' = Retired /\ \A d \in Collectors : Garbage(d)' = Garbage(d)
  BY ListsFrame DEF Alloc
<1>4. TypeOK'
  BY <1>1, <1>2 DEF Alloc, TypeOK, histVars, Goto, PCs, listVars, scanVars
<1>5. ScanInv'
  BY <1>1, <1>2 DEF Alloc, ScanInv, Goto, TypeOK, scanVars
<1>6. LifeInv'
  BY <1>1, <1>2, <1>3 DEF Alloc, LifeInv, Goto, TypeOK, Unborn, Own, Left
<1>7. LinkInv'
  BY <1>1, <1>3 DEF Alloc, LinkInv, LifeInv, Unborn
<1>8. RetiredOnce'
  BY <1>2, <1>3 DEF Alloc, RetiredOnce
<1> QED BY <1>4, <1>5, <1>6, <1>7, <1>8

\* The load of the epoch by new_guard hands nothing over.
LEMMA PinLoadOwn ==
  ASSUME OwnInv, NEW c \in Collectors, PinLoad(c)
  PROVE  OwnInv'
<1> USE DEF OwnInv
<1>1. Linked' = Linked /\ Pending' = Pending /\ UNCHANGED <<anchor, locked, todo, hasPrev>>
  BY DEF PinLoad, Linked, Pending, anchorVars, scanVars
<1>2. /\ Retired' = Retired /\ \A d \in Collectors : Garbage(d)' = Garbage(d)
      /\ UNCHANGED <<current, previous, next>>
  BY ListsFrame DEF PinLoad
<1>3. TypeOK'
  BY <1>1, <1>2 DEF PinLoad, TypeOK, histVars, Goto, PCs, anchorVars
<1>4. ScanInv'
  BY <1>1 DEF PinLoad, ScanInv, Goto, TypeOK
<1>5. LifeInv'
  BY <1>1, <1>2 DEF PinLoad, LifeInv, Goto, TypeOK, Unborn, Own, Left
<1>6. LinkInv' /\ RetiredOnce'
  BY <1>1, <1>2 DEF PinLoad, LinkInv, RetiredOnce
<1> QED BY <1>3, <1>4, <1>5, <1>6

\* end_guard hands nothing over.
LEMMA EndGuardOwn ==
  ASSUME OwnInv, NEW c \in Collectors, EndGuard(c)
  PROVE  OwnInv'
<1> USE DEF OwnInv
<1>1. Linked' = Linked /\ Pending' = Pending /\ UNCHANGED <<anchor, locked, todo, hasPrev>>
  BY DEF EndGuard, Linked, Pending, anchorVars, scanVars
<1>2. /\ Retired' = Retired /\ \A d \in Collectors : Garbage(d)' = Garbage(d)
      /\ UNCHANGED <<current, previous, next>>
  BY ListsFrame DEF EndGuard
<1>3. TypeOK'
  BY <1>1, <1>2 DEF EndGuard, TypeOK, histVars, Goto, PCs, anchorVars
<1>4. ScanInv'
  BY <1>1 DEF EndGuard, ScanInv, Goto, TypeOK
<1>5. LifeInv'
  BY <1>1, <1>2 DEF EndGuard, LifeInv, Goto, TypeOK, Unborn, Own, Left
<1>6. LinkInv' /\ RetiredOnce'
  BY <1>1, <1>2 DEF EndGuard, LinkInv, RetiredOnce
<1> QED BY <1>3, <1>4, <1>5, <1>6

\* A thread that is about to leave its collector behind hands nothing over.
LEMMA LeaveOwn ==
  ASSUME OwnInv, NEW c \in Collectors, Leave(c)
  PROVE  OwnInv'
<1> USE DEF OwnInv
<1>1. Linked' = Linked /\ Pending' = Pending /\ UNCHANGED <<anchor, locked, todo, hasPrev>>
  BY DEF Leave, Linked, Pending, anchorVars, scanVars
<1>2. /\ Retired' = Retired /\ \A d \in Collectors : Garbage(d)' = Garbage(d)
      /\ UNCHANGED <<current, previous, next>>
  BY ListsFrame DEF Leave
<1>3. TypeOK'
  BY <1>1, <1>2 DEF Leave, TypeOK, histVars, Goto, PCs, anchorVars
<1>4. ScanInv'
  BY <1>1 DEF Leave, ScanInv, Goto, TypeOK
<1>5. LifeInv'
  BY <1>1, <1>2 DEF Leave, LifeInv, Goto, TypeOK, Unborn, Own, Left
<1>6. LinkInv' /\ RetiredOnce'
  BY <1>1, <1>2 DEF Leave, LinkInv, RetiredOnce
<1> QED BY <1>3, <1>4, <1>5, <1>6

\* An invalid collector stays in the list, with what it has.
LEMMA InvalidateOwn ==
  ASSUME OwnInv, NEW c \in Collectors, Invalidate(c)
  PROVE  OwnInv'
<1> USE DEF OwnInv
<1>1. Linked' = Linked /\ Pending' = Pending /\ UNCHANGED <<anchor, locked, todo, hasPrev>>
  BY DEF Invalidate, Linked, Pending, anchorVars, scanVars
<1>2. /\ Retired' = Retired /\ \A d \in Collectors : Garbage(d)' = Garbage(d)
      /\ UNCHANGED <<current, previous, next>>
  BY ListsFrame DEF Invalidate
<1>3. TypeOK'
  BY <1>1, <1>2 DEF Invalidate, TypeOK, histVars, Goto, PCs, anchorVars
<1>4. ScanInv'
  BY <1>1 DEF Invalidate, ScanInv, Goto, TypeOK
<1>5. LifeInv'
  BY <1>1, <1>2 DEF Invalidate, LifeInv, Goto, TypeOK, Unborn, Own, Left
<1>6. LinkInv' /\ RetiredOnce'
  BY <1>1, <1>2 DEF Invalidate, LinkInv, RetiredOnce
<1> QED BY <1>3, <1>4, <1>5, <1>6

\* mark_scan_enforced hands nothing over.
LEMMA MarkOwn ==
  ASSUME OwnInv, NEW c \in Collectors, Mark(c)
  PROVE  OwnInv'
<1> USE DEF OwnInv
<1>1. Linked' = Linked /\ Pending' = Pending /\ UNCHANGED <<anchor, locked, todo, hasPrev>>
  BY DEF Mark, Linked, Pending, anchorVars, scanVars
<1>2. /\ Retired' = Retired /\ \A d \in Collectors : Garbage(d)' = Garbage(d)
      /\ UNCHANGED <<current, previous, next>>
  BY ListsFrame DEF Mark
<1>3. TypeOK'
  BY <1>1, <1>2 DEF Mark, TypeOK, histVars, Goto, PCs, anchorVars
<1>4. ScanInv'
  BY <1>1 DEF Mark, ScanInv, Goto, TypeOK
<1>5. LifeInv'
  BY <1>1, <1>2 DEF Mark, LifeInv, Goto, TypeOK, Unborn, Own, Left
<1>6. LinkInv' /\ RetiredOnce'
  BY <1>1, <1>2 DEF Mark, LinkInv, RetiredOnce
<1> QED BY <1>3, <1>4, <1>5, <1>6

\* The scan that end_guard starts has the collectors of the list before it.
LEMMA EndGuardScanOwn ==
  ASSUME OwnInv, NEW c \in Collectors, EndGuardScan(c)
  PROVE  OwnInv'
<1> USE DEF OwnInv
<1>1. Linked' = Linked /\ Pending' = Linked /\ UNCHANGED anchor /\ todo' = anchor
  BY DEF EndGuardScan, Linked, Pending
<1>2. /\ Retired' = Retired /\ \A d \in Collectors : Garbage(d)' = Garbage(d)
      /\ UNCHANGED <<current, previous, next>>
  BY ListsFrame DEF EndGuardScan
<1>3. TypeOK'
  BY <1>1, <1>2 DEF EndGuardScan, TypeOK, Goto, PCs
<1>4. ScanInv'
  BY <1>1 DEF EndGuardScan, ScanInv, Goto, TypeOK
<1>5. LifeInv'
  BY <1>1, <1>2 DEF EndGuardScan, LifeInv, Goto, TypeOK, Unborn, Own, Left
<1>6. LinkInv' /\ RetiredOnce'
  BY <1>1, <1>2 DEF EndGuardScan, LinkInv, RetiredOnce
<1> QED BY <1>3, <1>4, <1>5, <1>6

\* A scan that has visited all collectors sets the epoch and hands nothing over.
LEMMA ScanFinishOwn ==
  ASSUME OwnInv, NEW c \in Collectors, ScanFinish(c)
  PROVE  OwnInv'
<1> USE DEF OwnInv
<1>1. /\ Linked' = Linked /\ Pending' = Pending /\ UNCHANGED <<anchor, todo>>
      /\ Pending = {}
  BY EmptyRange DEF ScanFinish, Linked, Pending
<1>2. /\ Retired' = Retired /\ \A d \in Collectors : Garbage(d)' = Garbage(d)
      /\ UNCHANGED <<current, previous, next>>
  BY ListsFrame DEF ScanFinish
<1>3. TypeOK'
  <2>1. NextEpoch(ann[c]) \in 0 .. 2
    BY DEF NextEpoch, TypeOK
  <2> QED BY <1>1, <1>2, <2>1 DEF ScanFinish, Unlock, TypeOK, histVars, Goto, PCs
<1>4. ScanInv'
  BY <1>1 DEF ScanFinish, Unlock, ScanInv, Goto, TypeOK
<1>5. LifeInv'
  BY <1>1, <1>2 DEF ScanFinish, Unlock, LifeInv, Goto, TypeOK, Unborn, Own, Left
<1>6. LinkInv' /\ RetiredOnce'
  BY <1>1, <1>2 DEF ScanFinish, LinkInv, RetiredOnce
<1> QED BY <1>3, <1>4, <1>5, <1>6

\* The only collector leaves the list with its thread.
LEMMA ExitSoleOwn ==
  ASSUME OwnInv, NEW c \in Collectors, ExitSole(c)
  PROVE  OwnInv'
<1> USE DEF OwnInv
<1>1. Linked = {c} /\ Linked' = {} /\ IsInjective(anchor)' /\ anchor' = <<>>
  BY EmptyRange DEF ExitSole, Linked, Range
<1>2. Pending = {} /\ Pending' = {} /\ UNCHANGED <<locked, todo, hasPrev>>
  BY DEF ExitSole, Pending, scanVars, ScanInv
<1>3. /\ Retired' = Retired /\ \A d \in Collectors : Garbage(d)' = Garbage(d)
      /\ UNCHANGED <<current, previous, next>>
  BY ListsFrame DEF ExitSole
<1>4. TypeOK'
  BY <1>1, <1>2, <1>3 DEF ExitSole, TypeOK, histVars, Goto, PCs
<1>5. ScanInv'
  BY <1>1, <1>2 DEF ExitSole, ScanInv, Goto, TypeOK
<1>6. c \notin freed /\ c \notin Retired
  BY <1>1 DEF LinkInv
<1>7. LifeInv'
  BY <1>1, <1>2, <1>3, <1>6 DEF ExitSole, LifeInv, Goto, TypeOK, Unborn, Own, Left
<1>8. LinkInv' /\ RetiredOnce'
  BY <1>1, <1>3 DEF ExitSole, LinkInv, RetiredOnce
<1> QED BY <1>4, <1>5, <1>7, <1>8

\* The lists of the collectors hold retired instances.
LEMMA ListsType ==
  ASSUME TypeOK
  PROVE  /\ Lists \in [Collectors -> SUBSET Instances]
         /\ \A d \in Collectors : Lists[d] = Garbage(d) /\ Garbage(d) \subseteq Retired
         /\ Retired \subseteq Instances
         /\ Collectors \subseteq Instances /\ Objects \subseteq Instances
  BY DEF TypeOK, Lists, Garbage, Retired, Instances

\* What is dropped with S: S, and what the lists of dropped collectors hold.
LEMMA DroppedOrigin ==
  ASSUME TypeOK, NEW S \in SUBSET Instances
  PROVE  /\ S \subseteq Dropped(S) /\ Dropped(S) \subseteq Instances
         /\ Dropped(S) \subseteq S \cup Retired
         /\ \A x \in Dropped(S) :
              x \in S \/ \E d \in Dropped(S) \cap Collectors : x \in Garbage(d)
<1>1. Dropped(S) = Closure(Lists, S)
  BY DroppedIsClosure
<1>2. S \subseteq Dropped(S)
  BY <1>1, ClosureHolds
<1>3. Dropped(S) \subseteq Instances
  BY <1>1 DEF Closure
<1>4. \A x \in Dropped(S) :
        x \in S \/ \E d \in Dropped(S) \cap Collectors : x \in Garbage(d)
  BY <1>1, ListsType, ClosureOrigin
<1> QED BY <1>2, <1>3, <1>4 DEF Retired

\* An instance that is retired comes into one list, that of the thread which
\* retires it.
LEMMA RetireOwn ==
  ASSUME OwnInv, NEW c \in Collectors, NEW o \in Objects, Retire(c, o)
  PROVE  OwnInv'
<1> USE DEF OwnInv
<1>1. Linked' = Linked /\ Pending' = Pending /\ UNCHANGED <<anchor, locked, todo, hasPrev>>
  BY DEF Retire, Linked, Pending, anchorVars, scanVars
<1>2. o \in Instances /\ o \notin Collectors /\ o \notin Retired /\ o \notin freed
  BY CollectorAssumption DEF Instances, Retire, Retired
<1>3. \A d \in Collectors :
        Garbage(d)' = IF d = c THEN Garbage(d) \cup {o} ELSE Garbage(d)
  BY DEF Retire, Garbage, TypeOK
<1>4. Retired' = Retired \cup {o}
  BY <1>3 DEF Retired
<1>5. c \notin freed /\ pc[c] = "pinned" /\ c \notin exiting
  BY DEF Retire, Guarded, LifeInv
<1>6. TypeOK'
  <2>1. current' \in [Collectors -> SUBSET Instances]
    BY <1>2 DEF Retire, TypeOK
  <2>2. readers' \in [Objects -> SUBSET Collectors]
    BY DEF Retire, TypeOK, Guarded
  <2> QED BY <1>1, <2>1, <2>2 DEF Retire, TypeOK, histVars, anchorVars
<1>7. ScanInv'
  BY <1>1 DEF Retire, ScanInv
<1>8. LifeInv'
  BY <1>1, <1>2, <1>3, <1>4, <1>5 DEF Retire, LifeInv, Unborn, Own, Left
<1>9. LinkInv'
  BY <1>1, <1>2, <1>4 DEF Retire, LinkInv, TypeOK, Linked, Range
<1>10. RetiredOnce'
  <2>1. /\ \A d \in Collectors : o \notin Garbage(d)
        /\ \A d \in Collectors : o \notin previous[d] /\ o \notin next[d]
    BY <1>2 DEF Retired, Garbage
  <2>2. \A d \in Collectors : Garbage(d)' \cap freed' = Garbage(d) \cap freed
    BY <1>2, <1>3 DEF Retire
  <2>3. \A d \in Collectors : /\ current'[d] \cap previous'[d] = {}
                              /\ current'[d] \cap next'[d] = {}
                              /\ previous'[d] \cap next'[d] = {}
    BY <2>1 DEF Retire, RetiredOnce, TypeOK
  <2>4. \A d, e \in Collectors : d # e => Garbage(d)' \cap Garbage(e)' = {}
    BY <1>3, <2>1 DEF RetiredOnce
  <2> QED BY <2>2, <2>3, <2>4 DEF RetiredOnce, Retire
<1> QED BY <1>6, <1>7, <1>8, <1>9, <1>10

\* What happens to the lists when a collector d that is in none of them is
\* added to the current list of c, as a scan does.
LEMMA ScanVisitOwn ==
  ASSUME OwnInv, NEW c \in Collectors, ScanVisit(c)
  PROVE  OwnInv'
<1> DEFINE d == Head(todo)
<1> USE DEF OwnInv
<1>1. /\ pc[c] = "scan" /\ todo # <<>> /\ locked
      /\ UNCHANGED <<epoch, enforced, flag, ann, loaded, previous, next,
                     exiting, freed, readers, histVars>>
  BY DEF ScanVisit, ScanInv
<1>2. /\ Tail(todo) \in Seq(Collectors) /\ IsInjective(Tail(todo))
      /\ Range(Tail(todo)) = Pending \ {d} /\ d \in Pending /\ d \in Collectors
  BY <1>1, TailRange DEF Pending, ScanInv, TypeOK
<1>3. d \in Linked
  BY <1>2 DEF ScanInv
<1>4. CASE /\ d # c /\ flag[d] = "invalid"
           /\ anchor' = Unlinked(d)
           /\ current' = [current EXCEPT ![c] = @ \cup {d}]
           /\ todo' = Tail(todo)
           /\ UNCHANGED <<locked, hasPrev, pc>>
  <2> DEFINE i == CHOOSE j \in DOMAIN anchor : anchor[j] = d
  <2>1. i \in DOMAIN anchor /\ anchor[i] = d
    BY <1>3 DEF Linked, Range
  <2>2. /\ Linked' = Linked \ {d} /\ IsInjective(anchor)'
        /\ anchor' \in Seq(Collectors)
    <3> HIDE DEF i
    <3>1. anchor' = RemoveAt(anchor, i)
      BY <1>4 DEF Unlinked, i
    <3> QED BY <2>1, <3>1, RemoveAtRange DEF Linked, ScanInv, TypeOK
  <2>3. Pending' = Pending \ {d}
    BY <1>2, <1>4 DEF Pending
  <2> HIDE DEF d
  <2>4. d \notin Retired /\ d \notin freed
    BY <1>3 DEF LinkInv
  <2>5. \A e \in Collectors :
          Garbage(e)' = IF e = c THEN Garbage(e) \cup {d} ELSE Garbage(e)
    BY <1>1, <1>4 DEF Garbage, TypeOK
  <2>6. Retired' = Retired \cup {d}
    BY <2>5 DEF Retired
  <2>7. TypeOK'
    <3>1. current' \in [Collectors -> SUBSET Instances]
      BY <1>2, <1>4 DEF TypeOK, Instances
    <3> QED BY <1>1, <1>2, <1>4, <2>2, <3>1 DEF TypeOK, histVars
  <2>8. ScanInv'
    BY <1>1, <1>2, <1>4, <2>2, <2>3 DEF ScanInv
  <2>9. pc[d] \in {"mark", "gone"} /\ d \notin exiting
    BY <1>2, <1>4 DEF LifeInv, TypeOK, PCs, Unborn, Own
  <2>10. LifeInv'
    BY <1>1, <1>2, <1>4, <2>2, <2>4, <2>5, <2>6, <2>9
       DEF LifeInv, Unborn, Own, Left, TypeOK
  <2>11. LinkInv'
    BY <1>1, <2>2, <2>6 DEF LinkInv
  <2>12. RetiredOnce'
    <3>1. \A e \in Collectors : d \notin Garbage(e) /\ d \notin previous[e] /\ d \notin next[e]
      BY <2>4 DEF Retired, Garbage
    <3>2. \A e \in Collectors : Garbage(e)' \cap freed' = Garbage(e) \cap freed
      BY <1>1, <2>4, <2>5
    <3>3. \A e \in Collectors : /\ current'[e] \cap previous'[e] = {}
                                /\ current'[e] \cap next'[e] = {}
                                /\ previous'[e] \cap next'[e] = {}
      BY <1>1, <1>4, <3>1 DEF RetiredOnce, TypeOK
    <3>4. \A e, f \in Collectors : e # f => Garbage(e)' \cap Garbage(f)' = {}
      BY <2>5, <3>1 DEF RetiredOnce
    <3> QED BY <1>1, <3>2, <3>3, <3>4 DEF RetiredOnce
  <2> QED BY <2>7, <2>8, <2>10, <2>11, <2>12
<1>5. CASE /\ UNCHANGED <<anchor, current>>
           /\ \/ /\ Unlock(c) /\ todo' = <<>> /\ hasPrev' = FALSE
              \/ /\ todo' = Tail(todo) /\ hasPrev' = TRUE
                 /\ UNCHANGED <<locked, pc>>
  <2>1. /\ Linked' = Linked /\ Pending' \subseteq Pending
        /\ todo' \in Seq(Collectors) /\ IsInjective(todo)'
        /\ ~locked' => Pending' = {}
    <3>1. Linked' = Linked
      BY <1>5 DEF Linked
    <3>2. CASE Unlock(c) /\ todo' = <<>>
      BY <3>1, <3>2, EmptyRange DEF Pending
    <3>3. CASE todo' = Tail(todo) /\ UNCHANGED locked
      <4>1. Pending' = Pending \ {d}
        BY <1>2, <3>3 DEF Pending
      <4> QED BY <1>1, <1>2, <3>1, <3>3, <4>1
    <3> QED BY <1>5, <3>2, <3>3
  <2>2. /\ Retired' = Retired /\ \A e \in Collectors : Garbage(e)' = Garbage(e)
    BY <1>1, <1>5, ListsFrame DEF listVars
  <2>3. pc' = pc \/ (pc' = [pc EXCEPT ![c] = "ending"] /\ ~locked')
    BY <1>5 DEF Unlock, Goto
  <2>4. locked' \in BOOLEAN /\ hasPrev' \in BOOLEAN
    BY <1>5 DEF Unlock, TypeOK
  <2>5. TypeOK'
    BY <1>1, <1>5, <2>1, <2>3, <2>4 DEF TypeOK, histVars, PCs
  <2>6. ScanInv'
    <3>1. IsInjective(anchor)' /\ Pending' \subseteq Linked'
      BY <1>5, <2>1 DEF ScanInv
    <3>2. \A e \in Collectors : pc'[e] = "scan" => pc[e] = "scan" /\ locked'
      <4>1. CASE Unlock(c)
        BY <1>1, <4>1 DEF ScanInv, TypeOK, Unlock, Goto
      <4>2. CASE UNCHANGED <<locked, pc>>
        BY <1>1, <4>2
      <4> QED BY <1>5, <4>1, <4>2
    <3> QED BY <2>1, <3>1, <3>2 DEF ScanInv
  <2>7. LifeInv'
    BY <1>1, <1>5, <2>1, <2>2, <2>3 DEF LifeInv, Unborn, Own, Left, TypeOK
  <2>8. LinkInv' /\ RetiredOnce'
    BY <1>1, <1>5, <2>1, <2>2 DEF LinkInv, RetiredOnce
  <2> QED BY <2>5, <2>6, <2>7, <2>8
<1> QED BY <1>4, <1>5 DEF ScanVisit

\* The lists that are left when the contents S of lists of c have been
\* dropped: what they hold is still owned once.
LEMMA DropOwn ==
  ASSUME OwnInv, NEW c \in Collectors, NEW S,
         S \subseteq Garbage(c), c \notin Retired,
         freed' = freed \cup Dropped(S),
         \A d \in Collectors \ {c} : Garbage(d)' = Garbage(d),
         Garbage(c)' = Garbage(c) \ S
  PROVE  /\ freed' \subseteq Instances
         /\ freed' \subseteq freed \cup Retired
         /\ Retired' \subseteq Retired
         /\ c \notin freed => c \notin freed'
         /\ \A d \in Collectors : Garbage(d)' \cap freed' # {} => d \in freed'
         /\ \A d, e \in Collectors : d # e => Garbage(d)' \cap Garbage(e)' = {}
<1> USE DEF OwnInv
<1>1. S \subseteq Retired /\ S \in SUBSET Instances
  BY ListsType
<1>2. /\ Dropped(S) \subseteq Retired /\ Dropped(S) \subseteq Instances
      /\ \A x \in Dropped(S) :
           x \in S \/ \E d \in Dropped(S) \cap Collectors : x \in Garbage(d)
  BY <1>1, DroppedOrigin
<1>3. \A d \in Collectors : Garbage(d)' \subseteq Garbage(d)
  OBVIOUS
<1>4. Retired' \subseteq Retired
  BY <1>3 DEF Retired
<1>5. c \notin Dropped(S)
  BY <1>2
<1>6. freed' \subseteq Instances /\ freed' \subseteq freed \cup Retired
  BY <1>2 DEF TypeOK
<1>7. ASSUME NEW d \in Collectors, NEW x \in Garbage(d)', x \in freed'
      PROVE  d \in freed'
  <2>1. CASE x \in freed
    BY <1>3, <1>7, <2>1 DEF RetiredOnce
  <2>2. CASE x \in S
    BY <1>3, <1>7, <2>2 DEF RetiredOnce
  <2>3. CASE \E e \in Dropped(S) \cap Collectors : x \in Garbage(e)
    BY <1>3, <1>7, <2>3 DEF RetiredOnce
  <2> QED BY <1>2, <1>7, <2>1, <2>2, <2>3
<1>8. \A d, e \in Collectors : d # e => Garbage(d)' \cap Garbage(e)' = {}
  BY <1>3 DEF RetiredOnce
<1> QED BY <1>4, <1>5, <1>6, <1>7, <1>8

\* epoch_updated drops the oldest list of the collector and turns the others
\* around; a thread that ends drops them all.
LEMMA PinStoreOwn ==
  ASSUME OwnInv, NEW c \in Collectors, PinStore(c)
  PROVE  OwnInv'
<1> USE DEF OwnInv
<1>1. Linked' = Linked /\ Pending' = Pending /\ UNCHANGED <<anchor, locked, enforced, todo, hasPrev>>
  BY DEF PinStore, Linked, Pending, anchorVars, scanVars
<1>2. /\ pc[c] = "pinning" /\ pc' = [pc EXCEPT ![c] = "pinned"]
      /\ flag' = [flag EXCEPT ![c] = "active"]
      /\ UNCHANGED <<epoch, exiting, readers, exitScan>> /\ overtaken' \in BOOLEAN
      /\ loaded' = [loaded EXCEPT ![c] = 0]
      /\ ann' \in [Collectors -> 0 .. 2]
  BY DEF PinStore, Goto, TypeOK, histVars
<1>3. c \notin Retired /\ c \notin freed
  BY <1>2 DEF LifeInv
<1>4. PICK S \in SUBSET Garbage(c) :
        /\ \/ freed' = freed \cup Dropped(S)
           \/ freed' = freed /\ S = {}
        /\ \A d \in Collectors \ {c} : Garbage(d)' = Garbage(d)
        /\ Garbage(c)' = Garbage(c) \ S
        /\ \A d \in Collectors : /\ current'[d] \cap previous'[d] = {}
                                  /\ current'[d] \cap next'[d] = {}
                                  /\ previous'[d] \cap next'[d] = {}
        /\ current' \in [Collectors -> SUBSET Instances]
        /\ previous' \in [Collectors -> SUBSET Instances]
        /\ next' \in [Collectors -> SUBSET Instances]
        /\ \A d \in exiting \ {c} : previous'[d] = previous[d] /\ next'[d] = next[d]
        /\ c \in exiting => previous'[c] = {} /\ next'[c] = {}
  <2>1. CASE c \notin exiting /\ Rotate(c)
    <3> next[c] \in SUBSET Garbage(c)
      BY DEF Garbage
    <3> WITNESS next[c] \in SUBSET Garbage(c)
    <3> QED BY <2>1 DEF Rotate, Garbage, TypeOK, RetiredOnce
  <2>2. CASE c \notin exiting /\ UNCHANGED <<listVars, freed>>
    <3> WITNESS {} \in SUBSET Garbage(c)
    <3> QED BY <2>2 DEF listVars, Garbage, TypeOK, RetiredOnce
  <2>3. CASE /\ c \in exiting
             /\ current' = [current EXCEPT ![c] = {}]
             /\ previous' = [previous EXCEPT ![c] = {}]
             /\ next' = [next EXCEPT ![c] = {}]
             /\ freed' = freed \cup Dropped(Garbage(c))
    <3> WITNESS Garbage(c) \in SUBSET Garbage(c)
    <3> QED BY <2>3 DEF Garbage, TypeOK, RetiredOnce
  <2> QED BY <2>1, <2>2, <2>3 DEF PinStore
<1>5. /\ freed' \subseteq Instances
      /\ freed' \subseteq freed \cup Retired /\ freed \subseteq freed'
      /\ Retired' \subseteq Retired
      /\ c \notin freed'
      /\ \A d \in Collectors : Garbage(d)' \cap freed' # {} => d \in freed'
      /\ \A d, e \in Collectors : d # e => Garbage(d)' \cap Garbage(e)' = {}
  <2>1. CASE freed' = freed \cup Dropped(S)
    BY <1>3, <1>4, <2>1, DropOwn
  <2>2. CASE freed' = freed /\ S = {}
    <3>1. \A d \in Collectors : Garbage(d)' = Garbage(d)
      BY <1>4, <2>2
    <3>2. Retired' = Retired
      BY <3>1 DEF Retired
    <3> QED BY <1>3, <2>2, <3>1, <3>2 DEF RetiredOnce, TypeOK
  <2> QED BY <1>4, <2>1, <2>2
<1>6. TypeOK'
  <2>1. /\ pc' \in [Collectors -> PCs] /\ loaded' \in [Collectors -> 0 .. 2]
        /\ flag' \in [Collectors -> {"inactive", "active", "invalid"}]
    BY <1>2 DEF TypeOK, PCs
  <2> QED BY <1>1, <1>2, <1>4, <1>5, <2>1 DEF TypeOK, histVars
<1>7. ScanInv'
  BY <1>1, <1>2 DEF ScanInv, TypeOK
<1>8. LifeInv'
  <2> SUFFICES ASSUME NEW d \in Collectors PROVE LifeInv!(d)'
    BY DEF LifeInv
  <2>1. CASE d = c
    BY <1>1, <1>2, <1>3, <1>4, <1>5, <2>1 DEF LifeInv, Unborn, Own, Left, TypeOK
  <2>2. CASE d # c
    <3>1. /\ pc'[d] = pc[d] /\ flag'[d] = flag[d] /\ Garbage(d)' = Garbage(d)
      BY <1>2, <1>4, <2>2 DEF TypeOK
    <3>2. d \in freed' => d \in freed \/ d \in Retired
      BY <1>5
    <3> QED BY <1>1, <1>2, <1>4, <1>5, <2>2, <3>1, <3>2
            DEF LifeInv, Unborn, Own, Left, TypeOK
  <2> QED BY <2>1, <2>2
<1>9. LinkInv'
  BY <1>1, <1>5 DEF LinkInv
<1>10. RetiredOnce'
  BY <1>4, <1>5 DEF RetiredOnce
<1> QED BY <1>6, <1>7, <1>8, <1>9, <1>10

\* The end of a Guard drops nothing, unless the thread ends: then its collector
\* goes, with what it holds.
LEMMA UnpinOwn ==
  ASSUME OwnInv, NEW c \in Collectors, Unpin(c)
  PROVE  OwnInv'
<1> USE DEF OwnInv
<1>1. /\ Linked' = Linked /\ Pending' = Pending
      /\ UNCHANGED <<anchor, locked, enforced, todo, hasPrev>>
  BY DEF Unpin, Linked, Pending, anchorVars, scanVars
<1>2. /\ pc[c] = "ending" /\ flag' = [flag EXCEPT ![c] = "inactive"]
      /\ UNCHANGED <<epoch, ann, loaded, exiting, readers, histVars>>
  BY DEF Unpin
<1>3. c \notin Retired /\ c \notin freed
  BY <1>2 DEF LifeInv
<1>4. CASE /\ c \notin exiting /\ pc' = [pc EXCEPT ![c] = "idle"]
           /\ UNCHANGED <<listVars, freed>>
  <2>1. /\ Retired' = Retired /\ \A d \in Collectors : Garbage(d)' = Garbage(d)
        /\ UNCHANGED <<current, previous, next, freed>>
    BY <1>4, ListsFrame
  <2>2. TypeOK'
    BY <1>1, <1>2, <1>4, <2>1 DEF TypeOK, histVars, PCs
  <2>3. ScanInv'
    BY <1>1, <1>2, <1>4 DEF ScanInv, TypeOK
  <2>4. LifeInv'
    BY <1>1, <1>2, <1>4, <2>1 DEF LifeInv, Unborn, Own, Left, TypeOK
  <2>5. LinkInv' /\ RetiredOnce'
    BY <1>1, <2>1 DEF LinkInv, RetiredOnce
  <2> QED BY <2>2, <2>3, <2>4, <2>5
<1>5. CASE /\ c \in exiting /\ pc' = [pc EXCEPT ![c] = "gone"]
           /\ freed' = freed \cup Dropped({c})
           /\ current' = [current EXCEPT ![c] = {}]
           /\ UNCHANGED <<previous, next>>
  <2>1. previous[c] = {} /\ next[c] = {}
    BY <1>2, <1>5 DEF LifeInv
  <2>2. /\ \A d \in Collectors \ {c} : Garbage(d)' = Garbage(d)
        /\ Garbage(c)' = {}
    BY <1>5, <2>1 DEF Garbage, TypeOK
  <2>3. \A d \in Collectors : Garbage(d)' \subseteq Garbage(d)
    BY <2>2
  <2>4. Retired' \subseteq Retired
    BY <2>3 DEF Retired
  <2>5. {c} \in SUBSET Instances
    BY DEF Instances
  <2>6. /\ c \in freed' /\ freed' \subseteq Instances
        /\ freed' \subseteq freed \cup Retired \cup {c} /\ freed \subseteq freed'
        /\ \A x \in Dropped({c}) :
             x = c \/ \E d \in Dropped({c}) \cap Collectors : x \in Garbage(d)
    BY <1>5, <2>5, DroppedOrigin DEF TypeOK
  <2>7. ASSUME NEW d \in Collectors, NEW x \in Garbage(d)', x \in freed'
        PROVE  d \in freed'
    <3>1. CASE x \in freed
      BY <2>3, <2>6, <2>7, <3>1 DEF RetiredOnce
    <3>2. CASE x = c
      BY <1>3, <2>3, <2>7, <3>2 DEF Retired
    <3>3. CASE \E e \in Dropped({c}) \cap Collectors : x \in Garbage(e)
      BY <1>5, <2>3, <2>7, <3>3 DEF RetiredOnce
    <3> QED BY <1>5, <2>6, <2>7, <3>1, <3>2, <3>3
  <2>8. TypeOK'
    <3>1. pc' \in [Collectors -> PCs] /\ current' \in [Collectors -> SUBSET Instances]
          /\ flag' \in [Collectors -> {"inactive", "active", "invalid"}]
      BY <1>2, <1>5 DEF TypeOK, PCs
    <3> QED BY <1>1, <1>2, <1>5, <2>6, <3>1 DEF TypeOK, histVars
  <2>9. ScanInv'
    BY <1>1, <1>2, <1>5 DEF ScanInv, TypeOK
  <2>10. c \notin Retired' /\ c \notin Linked'
    BY <1>1, <1>3, <1>5, <2>4 DEF LifeInv
  <2>11. LifeInv'
    <3> SUFFICES ASSUME NEW d \in Collectors PROVE LifeInv!(d)'
      BY DEF LifeInv
    <3>1. CASE d = c
      BY <1>1, <1>2, <1>5, <2>1, <2>2, <2>6, <2>10, <3>1
         DEF LifeInv, Unborn, Own, Left, TypeOK
    <3>2. CASE d # c
      <4>1. /\ pc'[d] = pc[d] /\ flag'[d] = flag[d] /\ Garbage(d)' = Garbage(d)
        BY <1>2, <1>5, <2>2, <3>2 DEF TypeOK
      <4>2. d \in freed' => d \in freed \/ d \in Retired
        BY <2>6, <3>2
      <4> QED BY <1>1, <1>2, <1>5, <2>4, <2>6, <3>2, <4>1, <4>2
              DEF LifeInv, Unborn, Own, Left, TypeOK
    <3> QED BY <3>1, <3>2
  <2>12. LinkInv'
    BY SMTT(30), <1>1, <1>5, <2>4, <2>6 DEF LinkInv, LifeInv
  <2>13. RetiredOnce'
    <3>1. \A d \in Collectors : /\ current'[d] \cap previous'[d] = {}
                                /\ current'[d] \cap next'[d] = {}
                                /\ previous'[d] \cap next'[d] = {}
      BY <1>5 DEF RetiredOnce, TypeOK
    <3>2. \A d, e \in Collectors : d # e => Garbage(d)' \cap Garbage(e)' = {}
      BY <2>3 DEF RetiredOnce
    <3> QED BY <2>7, <3>1, <3>2 DEF RetiredOnce
  <2> QED BY <2>8, <2>9, <2>11, <2>12, <2>13
<1> QED BY <1>4, <1>5 DEF Unpin, Goto

\* Every step keeps the ownership invariant.
LEMMA OwnStep == OwnInv /\ [Next]_vars => OwnInv'
<1> SUFFICES ASSUME OwnInv, [Next]_vars PROVE OwnInv'
  OBVIOUS
<1>1. CASE UNCHANGED vars
  <2>1. Linked' = Linked /\ Pending' = Pending
    BY <1>1 DEF vars, Linked, Pending
  <2>2. Retired' = Retired /\ \A d \in Collectors : Garbage(d)' = Garbage(d)
    BY <1>1, ListsFrame DEF vars, listVars
  <2>3. TypeOK' /\ ScanInv'
    BY <1>1, <2>1 DEF OwnInv, TypeOK, ScanInv, vars
  <2>4. LifeInv' /\ LinkInv' /\ RetiredOnce'
    BY <1>1, <2>1, <2>2
       DEF OwnInv, LifeInv, LinkInv, RetiredOnce, Unborn, Own, Left, vars
  <2> QED BY <2>3, <2>4 DEF OwnInv
<1>2. CASE Next
  BY <1>2, AllocOwn, PinLoadOwn, RetireOwn, ExitSoleOwn, LeaveOwn, PinStoreOwn,
     EndGuardOwn, EndGuardScanOwn, ScanVisitOwn, ScanFinishOwn, UnpinOwn,
     InvalidateOwn, MarkOwn DEF Next, Step
<1> QED BY <1>1, <1>2

\* In every state, of any number of collectors and whatever may overtake
\* whom, the parts of OwnInv hold.
THEOREM OwnershipInvariant == Spec => []OwnInv
<1>1. Init => OwnInv
  BY OwnInit
<1>2. OwnInv /\ [Next]_vars => OwnInv'
  BY OwnStep
<1> QED BY <1>1, <1>2, PTL DEF Spec

\* Every retired instance has one owner and is deallocated once, whatever
\* threads exit and whoever adopts what they leave behind (Drop for
\* Collector, epoch_updated, try_scan).
THEOREM RetiredOnceHolds == Spec => []RetiredOnce
<1>1. OwnInv => RetiredOnce
  BY DEF OwnInv
<1> QED BY <1>1, OwnershipInvariant, PTL

\* No thread reaches a collector that has been retired or deallocated, through
\* the anchor or in the middle of a scan (try_scan, try_drop_local_collector).
THEOREM LinkedAliveHolds == Spec => []LinkedAlive
<1>1. OwnInv => LinkedAlive
  BY DEF OwnInv, LinkedAlive, LinkInv, ScanInv, LifeInv, Linked, Pending, Retired
<1> QED BY <1>1, OwnershipInvariant, PTL

-----------------------------------------------------------------------------
(* GuardInv is inductive                                                    *)

\* The invariant of the Guards, at first.
LEMMA GuardInit == Init => GuardInv
<1> SUFFICES ASSUME Init PROVE GuardInv
  OBVIOUS
<1>1. \A c \in Collectors : Garbage(c) = {}
  BY DEF Init, Garbage
<1>2. Retired = {} /\ Announced = {} /\ exiting = {} /\ freed = {}
  BY <1>1 DEF Init, Retired, Announced
<1>3. \A c \in Collectors : pc[c] = "unborn"
  BY DEF Init
<1>4. \A o \in Objects : readers[o] = {}
  BY DEF Init
<1> QED BY <1>2, <1>3, <1>4
        DEF GuardInv, EpochInv, ListsInv, ExitInv, ReadersInv, NoUseAfterFree

\* A step changes the lists of one collector c that is in none of them, and
\* only c's own part of them can grow: what is dropped with a retired
\* instance, or with another exiting collector, does not grow.
LEMMA DroppedFrame ==
  ASSUME OwnInv, OwnInv', NEW c \in Collectors, c \notin Retired,
         \A d \in Collectors \ {c} : Garbage(d)' = Garbage(d),
         NEW x \in Instances, x # c \/ Garbage(c)' \subseteq Garbage(c)
  PROVE  Dropped({x})' \subseteq Dropped({x})
<1>1. /\ Lists \in [Collectors -> SUBSET Instances]
      /\ \A d \in Collectors : Lists[d] = Garbage(d)
  BY ListsType DEF OwnInv
<1>2. \A d \in Collectors : Lists'[d] = Garbage(d)'
  BY DEF Lists
<1>3. Dropped({x}) = Closure(Lists, {x})
  BY DroppedIsClosure
<1>4. Dropped({x})' = Closure(Lists', {x})
  BY DEF Dropped, Closure, Lists, Garbage
<1>5. /\ {x} \subseteq Closure(Lists, {x})
      /\ \A d \in Closure(Lists, {x}) \cap Collectors : d = c => x = c
  <2>1. {x} \in SUBSET Instances
    OBVIOUS
  <2>2. {x} \subseteq Dropped({x}) /\ Dropped({x}) \subseteq {x} \cup Retired
    BY <2>1, DroppedOrigin DEF OwnInv
  <2> QED BY <1>3, <2>2
<1>6. \A d \in Closure(Lists, {x}) \cap Collectors : Lists'[d] \subseteq Lists[d]
  BY <1>1, <1>2, <1>5
<1> DEFINE g == Lists'
           h == Lists
<1>7. /\ h \in [Collectors -> SUBSET Instances]
      /\ {x} \subseteq Closure(h, {x}) /\ {x} \in SUBSET Instances
      /\ \A d \in Closure(h, {x}) \cap Collectors : g[d] \subseteq h[d]
  BY <1>1, <1>5, <1>6
<1> HIDE DEF g, h
<1>8. Closure(g, {x}) \subseteq Closure(h, {x})
  BY <1>7, ClosureMonotone
<1> QED BY <1>3, <1>4, <1>8 DEF g, h

\* The lists may still be dropped when they were, if no reader and nothing to drop
\* is added.
LEMMA ListsKept ==
  ASSUME ListsInv, UNCHANGED <<ann, epoch, previous, next>>,
         \A x \in Retired : Dropped({x})' \subseteq Dropped({x}),
         \A x \in Retired, o \in Objects :
           o \in Dropped({x}) => readers'[o] \subseteq readers[o]
  PROVE  ListsInv'
<1> SUFFICES ASSUME NEW c \in Collectors, NEW x \in Retired', NEW o \in Objects,
                    NEW r \in Collectors, o \in Dropped({x})', r \in readers'[o],
                    x \in previous[c] \/ x \in next[c]
             PROVE  /\ x \in previous[c] =>
                         \/ ann[c] = ann[r]
                         \/ ann[c] = NextEpoch(ann[r]) /\ epoch = NextEpoch(ann[r])
                    /\ x \in next[c] =>
                         ann[c] = NextEpoch(ann[r]) /\ epoch = NextEpoch(ann[r])
  BY DEF ListsInv, NextEpoch
<1>1. x \in Retired
  BY DEF Retired, Garbage
<1>2. o \in Dropped({x}) /\ r \in readers[o]
  BY <1>1
<1> QED BY <1>1, <1>2 DEF ListsInv

\* The collectors of the threads that end may still be dropped, likewise.
LEMMA ExitKept ==
  ASSUME ExitInv, UNCHANGED exiting,
         \A c \in exiting : Dropped({c})' \subseteq Dropped({c}),
         \A c \in exiting, o \in Objects :
           o \in Dropped({c}) => readers'[o] \subseteq readers[o]
  PROVE  ExitInv'
  BY DEF ExitInv

\* What is dropped depends on the lists alone.
LEMMA DroppedSame ==
  ASSUME UNCHANGED listVars
  PROVE  \A x : Dropped({x})' = Dropped({x})
  BY ListsFrame DEF Dropped, Garbage

\* A step of a thread that leaves the lists, the announcements and the epoch
\* alone and may only end Guards.
LEMMA QuietStep ==
  ASSUME GuardInv, Undisturbed, UNCHANGED <<epoch, ann, listVars, freed, exiting>>,
         \A o \in Objects : readers'[o] \subseteq readers[o]
  PROVE  ListsInv' /\ ExitInv' /\ NoUseAfterFree'
<1>1. UNCHANGED <<previous, next>> /\ \A x : Dropped({x})' = Dropped({x})
  BY ListsFrame, DroppedSame
<1>2. ListsInv' /\ ExitInv'
  BY <1>1, ListsKept, ExitKept DEF GuardInv
<1>3. NoUseAfterFree'
  BY DEF GuardInv, NoUseAfterFree
<1> QED BY <1>2, <1>3

\* A new collector has no Guard and empty lists.
LEMMA AllocGuard ==
  ASSUME OwnInv, GuardInv, NEW c \in Collectors, Alloc(c)
  PROVE  GuardInv'
<1> SUFFICES ASSUME Undisturbed' PROVE GuardInv'
  BY DEF GuardInv
<1>1. Undisturbed
  BY DEF Undisturbed, histVars, Alloc
<1>2. ListsInv' /\ ExitInv' /\ NoUseAfterFree'
  BY <1>1, QuietStep DEF Alloc
<1>3. Announced' = Announced /\ Guarded' = Guarded /\ Pending' = Pending
  BY DEF Alloc, Goto, Announced, Guarded, OwnInv, TypeOK, Pending, scanVars
<1>4. EpochInv'
  BY <1>1, <1>3 DEF Alloc, Goto, EpochInv, GuardInv, OwnInv, TypeOK
<1>5. ReadersInv'
  BY <1>1, <1>3 DEF Alloc, ReadersInv, GuardInv
<1> QED BY <1>2, <1>4, <1>5 DEF GuardInv

\* A thread that loads the epoch reads nothing yet.
LEMMA PinLoadGuard ==
  ASSUME OwnInv, GuardInv, NEW c \in Collectors, PinLoad(c)
  PROVE  GuardInv'
<1> SUFFICES ASSUME Undisturbed' PROVE GuardInv'
  BY DEF GuardInv
<1>1. Undisturbed
  BY DEF Undisturbed, histVars, PinLoad
<1>2. ListsInv' /\ ExitInv' /\ NoUseAfterFree'
  BY <1>1, QuietStep DEF PinLoad
<1>3. Announced' = Announced /\ Guarded' = Guarded /\ Pending' = Pending
  BY DEF PinLoad, Goto, Announced, Guarded, OwnInv, TypeOK, Pending, scanVars
<1>4. EpochInv'
  BY <1>1, <1>3 DEF PinLoad, Goto, EpochInv, GuardInv, OwnInv, TypeOK
<1>5. ReadersInv'
  BY <1>1, <1>3 DEF PinLoad, ReadersInv, GuardInv
<1> QED BY <1>2, <1>4, <1>5 DEF GuardInv

\* A thread without a Guard leaves its collector behind.
LEMMA LeaveGuard ==
  ASSUME OwnInv, GuardInv, NEW c \in Collectors, Leave(c)
  PROVE  GuardInv'
<1> SUFFICES ASSUME Undisturbed' PROVE GuardInv'
  BY DEF GuardInv
<1>1. Undisturbed
  BY DEF Undisturbed, histVars, Leave
<1>2. ListsInv' /\ ExitInv' /\ NoUseAfterFree'
  BY <1>1, QuietStep DEF Leave
<1>3. Announced' = Announced /\ Guarded' = Guarded /\ Pending' = Pending
  BY DEF Leave, Goto, Announced, Guarded, OwnInv, TypeOK, Pending, scanVars
<1>4. EpochInv'
  BY <1>1, <1>3 DEF Leave, Goto, EpochInv, GuardInv, OwnInv, TypeOK
<1>5. ReadersInv'
  BY <1>1, <1>3 DEF Leave, ReadersInv, GuardInv
<1> QED BY <1>2, <1>4, <1>5 DEF GuardInv

\* A collector that becomes invalid has no Guard.
LEMMA InvalidateGuard ==
  ASSUME OwnInv, GuardInv, NEW c \in Collectors, Invalidate(c)
  PROVE  GuardInv'
<1> SUFFICES ASSUME Undisturbed' PROVE GuardInv'
  BY DEF GuardInv
<1>1. Undisturbed
  BY DEF Undisturbed, histVars, Invalidate
<1>2. ListsInv' /\ ExitInv' /\ NoUseAfterFree'
  BY <1>1, QuietStep DEF Invalidate
<1>3. Announced' = Announced /\ Guarded' = Guarded /\ Pending' = Pending
  BY DEF Invalidate, Goto, Announced, Guarded, OwnInv, TypeOK, Pending, scanVars
<1>4. EpochInv'
  BY <1>1, <1>3 DEF Invalidate, Goto, EpochInv, GuardInv, OwnInv, TypeOK
<1>5. ReadersInv'
  BY <1>1, <1>3 DEF Invalidate, ReadersInv, GuardInv
<1> QED BY <1>2, <1>4, <1>5 DEF GuardInv

\* mark_scan_enforced concerns no Guard.
LEMMA MarkGuard ==
  ASSUME OwnInv, GuardInv, NEW c \in Collectors, Mark(c)
  PROVE  GuardInv'
<1> SUFFICES ASSUME Undisturbed' PROVE GuardInv'
  BY DEF GuardInv
<1>1. Undisturbed
  BY DEF Undisturbed, histVars, Mark
<1>2. ListsInv' /\ ExitInv' /\ NoUseAfterFree'
  BY <1>1, QuietStep DEF Mark
<1>3. Announced' = Announced /\ Guarded' = Guarded /\ Pending' = Pending
  BY DEF Mark, Goto, Announced, Guarded, OwnInv, TypeOK, Pending, scanVars
<1>4. EpochInv'
  BY <1>1, <1>3 DEF Mark, Goto, EpochInv, GuardInv, OwnInv, TypeOK
<1>5. ReadersInv'
  BY <1>1, <1>3 DEF Mark, ReadersInv, GuardInv
<1> QED BY <1>2, <1>4, <1>5 DEF GuardInv

\* A Guard that ends reads no more.
LEMMA EndGuardGuard ==
  ASSUME OwnInv, GuardInv, NEW c \in Collectors, EndGuard(c)
  PROVE  GuardInv'
<1> SUFFICES ASSUME Undisturbed' PROVE GuardInv'
  BY DEF GuardInv
<1>1. Undisturbed
  BY DEF Undisturbed, histVars, EndGuard
<1>2. ListsInv' /\ ExitInv' /\ NoUseAfterFree'
  BY <1>1, QuietStep DEF EndGuard
<1>3. /\ Announced' = Announced \ {c} /\ Guarded' = Guarded \ {c}
      /\ Pending' = Pending
  BY DEF EndGuard, Goto, Announced, Guarded, OwnInv, TypeOK, Pending, scanVars
<1>4. EpochInv'
  BY <1>1, <1>3 DEF EndGuard, Goto, EpochInv, GuardInv, OwnInv, TypeOK
<1>5. ReadersInv'
  BY <1>1, <1>3 DEF EndGuard, ReadersInv, GuardInv
<1> QED BY <1>2, <1>4, <1>5 DEF GuardInv

\* A Guard whose end starts a scan reads no more.
LEMMA EndGuardScanGuard ==
  ASSUME OwnInv, GuardInv, NEW c \in Collectors, EndGuardScan(c)
  PROVE  GuardInv'
<1> SUFFICES ASSUME Undisturbed' PROVE GuardInv'
  BY DEF GuardInv
<1>1. Undisturbed /\ c \notin exiting
  BY DEF Undisturbed, histVars, EndGuardScan
<1>2. ListsInv' /\ ExitInv' /\ NoUseAfterFree'
  BY <1>1, QuietStep DEF EndGuardScan
<1>3. Announced' = Announced /\ Guarded' = Guarded \ {c} /\ Pending' = Linked
  BY <1>1 DEF EndGuardScan, Goto, Announced, Guarded, OwnInv, TypeOK, Pending, Linked
<1>4. EpochInv'
  <2>1. Announced \subseteq Linked
    BY DEF Announced, OwnInv, LifeInv, Own
  <2>2. \A d \in Collectors : pc'[d] = "scan" => d \notin exiting'
    BY <1>1 DEF EndGuardScan, Goto, EpochInv, GuardInv, OwnInv, TypeOK
  <2> QED BY <1>1, <1>3, <2>1, <2>2 DEF EndGuardScan, EpochInv, GuardInv
<1>5. ReadersInv'
  BY <1>1, <1>3 DEF EndGuardScan, ReadersInv, GuardInv
<1> QED BY <1>2, <1>4, <1>5 DEF GuardInv

\* The only linked collector is the exiting thread's, so no Guard is alive.
LEMMA ExitSoleGuard ==
  ASSUME OwnInv, GuardInv, NEW c \in Collectors, ExitSole(c)
  PROVE  GuardInv'
<1> SUFFICES ASSUME Undisturbed' PROVE GuardInv'
  BY DEF GuardInv
<1>1. Undisturbed
  BY DEF Undisturbed, histVars, ExitSole
<1>2. Linked = {c}
  BY DEF ExitSole, Linked, Range
<1>3. Announced = {} /\ Guarded = {}
  BY <1>2 DEF ExitSole, Announced, Guarded, OwnInv, LifeInv, Own
<1>4. Announced' = {} /\ Guarded' = {} /\ Pending' = Pending
  BY <1>3 DEF ExitSole, Goto, Announced, Guarded, OwnInv, TypeOK, Pending, scanVars
<1>5. \A o \in Objects : readers[o] = {} /\ readers'[o] = {}
  BY <1>1, <1>3 DEF ReadersInv, GuardInv, ExitSole
<1>6. ListsInv' /\ ExitInv' /\ NoUseAfterFree' /\ ReadersInv'
  BY <1>5 DEF ListsInv, ExitInv, NoUseAfterFree, ReadersInv
<1>7. EpochInv'
  <2>1. \A d \in Collectors : pc'[d] # "scan"
    BY <1>1 DEF ExitSole, Goto, OwnInv, TypeOK, ScanInv
  <2> QED BY <1>4, <2>1 DEF EpochInv
<1> QED BY <1>6, <1>7 DEF GuardInv

\* What is retired may be referred to by the Guards of that moment, which keep the
\* epoch from moving on by two.
LEMMA RetireGuard ==
  ASSUME OwnInv, OwnInv', GuardInv, NEW c \in Collectors, NEW p \in Objects,
         Retire(c, p)
  PROVE  GuardInv'
<1> SUFFICES ASSUME Undisturbed' PROVE GuardInv'
  BY DEF GuardInv
<1>1. Undisturbed /\ c \in Guarded /\ p \notin Retired /\ p \notin freed /\ p \notin Collectors
  BY CollectorAssumption DEF Undisturbed, histVars, Retire, Retired
<1>2. c \notin Retired
  BY <1>1 DEF Guarded, OwnInv, LifeInv
<1>3. \A d \in Collectors \ {c} : Garbage(d)' = Garbage(d)
  BY DEF Retire, Garbage, OwnInv, TypeOK
<1>4. /\ Retired \subseteq Instances /\ exiting \subseteq Instances
      /\ c \notin exiting /\ exiting \subseteq Collectors
  BY <1>1, ListsType DEF OwnInv, Guarded, TypeOK
<1>5. \A x \in Retired \cup exiting :
        /\ Dropped({x})' \subseteq Dropped({x}) /\ p \notin Dropped({x})
  <2> SUFFICES ASSUME NEW x \in Retired \cup exiting
               PROVE  Dropped({x})' \subseteq Dropped({x}) /\ p \notin Dropped({x})
    OBVIOUS
  <2>1. x \in Instances /\ x # c /\ x # p
    BY <1>1, <1>2, <1>4
  <2>2. {x} \in SUBSET Instances
    BY <2>1
  <2>3. p \notin Dropped({x})
    BY <1>1, <2>1, <2>2, DroppedOrigin DEF OwnInv
  <2>4. Dropped({x})' \subseteq Dropped({x})
    BY <1>2, <1>3, <2>1, DroppedFrame
  <2> QED BY <2>3, <2>4
<1>6. \A o \in Objects \ {p} : readers'[o] = readers[o]
  BY DEF Retire, OwnInv, TypeOK
<1>7. ListsInv'
  BY <1>1, <1>5, <1>6, ListsKept DEF Retire, GuardInv
<1>8. ExitInv'
  BY <1>1, <1>5, <1>6, ExitKept DEF Retire, GuardInv
<1>9. Announced' = Announced /\ Guarded' = Guarded /\ Pending' = Pending
  BY DEF Retire, Announced, Guarded, Pending, scanVars
<1>10. EpochInv'
  BY <1>1, <1>9 DEF Retire, EpochInv, GuardInv
<1>11. ReadersInv'
  BY <1>1, <1>9 DEF Retire, ReadersInv, GuardInv, OwnInv, TypeOK
<1>12. NoUseAfterFree'
  BY <1>1, <1>6 DEF Retire, NoUseAfterFree, GuardInv
<1> QED BY <1>7, <1>8, <1>10, <1>11, <1>12 DEF GuardInv

\* A collector that has left is retired like an instance; one that lags behind
\* ends the scan.
LEMMA ScanVisitGuard ==
  ASSUME OwnInv, OwnInv', GuardInv, NEW c \in Collectors, ScanVisit(c)
  PROVE  GuardInv'
<1> SUFFICES ASSUME Undisturbed' PROVE GuardInv'
  BY DEF GuardInv
<1> DEFINE d == Head(todo)
<1>1. /\ Undisturbed /\ pc[c] = "scan" /\ todo # <<>>
      /\ UNCHANGED <<epoch, flag, ann, previous, next, exiting, freed, readers>>
  BY DEF Undisturbed, histVars, ScanVisit
<1>2. c \notin exiting /\ c \notin Retired
  BY <1>1 DEF GuardInv, EpochInv, OwnInv, LifeInv
<1>3. \A e \in Collectors \ {c} : Garbage(e)' = Garbage(e)
  BY DEF ScanVisit, Garbage, OwnInv, TypeOK
<1>4. /\ Retired \subseteq Instances /\ exiting \subseteq Instances
      /\ exiting \subseteq Collectors
  BY ListsType DEF OwnInv, TypeOK
<1>5. \A x \in Retired \cup exiting : Dropped({x})' \subseteq Dropped({x})
  BY <1>2, <1>3, <1>4, DroppedFrame
<1>6. ListsInv' /\ ExitInv' /\ NoUseAfterFree'
  BY <1>1, <1>5, ListsKept, ExitKept DEF GuardInv, NoUseAfterFree
<1>7. /\ Range(Tail(todo)) = Pending \ {d} /\ d \in Collectors
  BY <1>1, TailRange DEF Pending, OwnInv, ScanInv, TypeOK
<1>8. CASE pc' = pc /\ todo' = Tail(todo) /\ (d = c \/ flag[d] = "invalid" \/ ~Lagging(c, d))
  <2>1. Announced' = Announced /\ Guarded' = Guarded
    BY <1>1, <1>8 DEF Announced, Guarded
  <2>2. Pending' = Pending \ {d}
    BY <1>7, <1>8 DEF Pending
  <2> HIDE DEF d
  <2>3. d \in Announced => ann[d] = ann[c]
    <3>1. d \in Announced => flag[d] = "active"
      BY <1>7 DEF Announced, OwnInv, LifeInv, Own
    <3> QED BY <1>8, <3>1 DEF Lagging
  <2>4. \A e \in Announced \ Pending' : ann[e] \in {ann[c], epoch}
    BY <1>1, <2>2, <2>3 DEF EpochInv, GuardInv
  <2>5. \A e \in Collectors : pc[e] = "scan" => e = c
    BY <1>1 DEF OwnInv, ScanInv
  <2>6. EpochInv'
    BY <1>1, <1>2, <1>8, <2>1, <2>4, <2>5 DEF EpochInv, GuardInv
  <2>7. ReadersInv'
    BY <1>1, <2>1 DEF ReadersInv, GuardInv
  <2> QED BY <1>6, <2>6, <2>7 DEF GuardInv
<1>9. CASE Unlock(c)
  <2>1. Announced' \subseteq Announced /\ Guarded' = Guarded
    BY <1>1, <1>9 DEF Announced, Guarded, Unlock, Goto, OwnInv, TypeOK
  <2>2. \A e \in Collectors : pc'[e] # "scan"
    BY <1>1, <1>9 DEF Unlock, Goto, OwnInv, TypeOK, ScanInv
  <2>3. EpochInv'
    BY <1>1, <2>1, <2>2 DEF EpochInv, GuardInv
  <2>4. ReadersInv'
    BY <1>1, <2>1 DEF ReadersInv, GuardInv
  <2> QED BY <1>6, <2>3, <2>4 DEF GuardInv
<1> QED BY <1>8, <1>9 DEF ScanVisit

\* The epoch moves on only if every Guard has announced the one it moves on
\* from: what the lists may hold is not affected.
LEMMA ScanFinishGuard ==
  ASSUME OwnInv, GuardInv, NEW c \in Collectors, ScanFinish(c)
  PROVE  GuardInv'
<1> SUFFICES ASSUME Undisturbed' PROVE GuardInv'
  BY DEF GuardInv
<1>1. /\ Undisturbed /\ pc[c] = "scan" /\ pc' = [pc EXCEPT ![c] = "ending"]
      /\ epoch' = NextEpoch(ann[c])
      /\ UNCHANGED <<listVars, ann, exiting, freed, readers>>
  BY DEF Undisturbed, histVars, ScanFinish, Unlock, Goto
<1>2. UNCHANGED <<previous, next>> /\ Retired' = Retired
      /\ \A x : Dropped({x})' = Dropped({x})
  BY <1>1, ListsFrame, DroppedSame
<1>3. Pending = {}
  BY EmptyRange DEF ScanFinish, Pending
<1>4. c \in Announced /\ Guarded \subseteq Announced
  BY <1>1 DEF GuardInv, EpochInv, Announced, Guarded
<1>5. /\ epoch \in {ann[c], NextEpoch(ann[c])}
      /\ \A d \in Announced : ann[d] \in {ann[c], epoch}
      /\ \A d \in Announced : epoch \in {ann[d], NextEpoch(ann[d])}
  BY <1>1, <1>3, <1>4 DEF GuardInv, EpochInv
<1>6. epoch' = epoch \/ \A d \in Announced : ann[d] = epoch /\ epoch' = NextEpoch(epoch)
  BY <1>1, <1>5
<1>7. Announced' \subseteq Announced /\ Guarded' = Guarded
  BY <1>1 DEF Announced, Guarded, OwnInv, TypeOK
<1>8. EpochInv'
  <2>1. \A e \in Collectors : pc'[e] # "scan"
    BY <1>1 DEF OwnInv, TypeOK, ScanInv
  <2> QED BY <1>1, <1>5, <1>6, <1>7, <2>1 DEF EpochInv
<1>9. \A o \in Objects : readers[o] \subseteq Announced
  BY <1>1, <1>4 DEF GuardInv, ReadersInv
<1>10. ListsInv'
  <2>1. CASE epoch' = epoch
    BY <1>1, <1>2, <2>1, ListsKept DEF GuardInv
  <2>2. CASE \A d \in Announced : ann[d] = epoch /\ epoch' = NextEpoch(epoch)
    <3> SUFFICES ASSUME NEW e \in Collectors, NEW x \in Retired', NEW o \in Objects,
                        NEW r \in Collectors, o \in Dropped({x})', r \in readers'[o]
                 PROVE  ListsInv!(e, x, o, r)!2'
      BY DEF ListsInv
    <3>1. x \in Retired /\ o \in Dropped({x}) /\ r \in readers[o]
      BY <1>1, <1>2
    <3>2. ann[r] = epoch /\ epoch' = NextEpoch(ann[r])
      BY <1>9, <2>2, <3>1
    <3>3. /\ x \in previous[e] =>
               \/ ann[e] = ann[r]
               \/ ann[e] = NextEpoch(ann[r]) /\ epoch = NextEpoch(ann[r])
          /\ x \in next[e] => ann[e] = NextEpoch(ann[r]) /\ epoch = NextEpoch(ann[r])
      BY <1>1, <3>1 DEF GuardInv, ListsInv
    <3> QED BY <1>1, <1>2, <3>2, <3>3
  <2> QED BY <1>6, <2>1, <2>2
<1>11. ExitInv' /\ ReadersInv' /\ NoUseAfterFree'
  BY <1>1, <1>2, <1>7, ExitKept DEF GuardInv, ReadersInv, NoUseAfterFree
<1> QED BY <1>8, <1>10, <1>11 DEF GuardInv

\* What a thread that ends drops with its collector has no readers.
LEMMA UnpinGuard ==
  ASSUME OwnInv, OwnInv', GuardInv, NEW c \in Collectors, Unpin(c)
  PROVE  GuardInv'
<1> SUFFICES ASSUME Undisturbed' PROVE GuardInv'
  BY DEF GuardInv
<1>1. /\ Undisturbed /\ pc[c] = "ending"
      /\ UNCHANGED <<epoch, ann, exiting, readers, todo>>
  BY DEF Undisturbed, histVars, Unpin, scanVars
<1>2. Announced' = Announced /\ Guarded' = Guarded /\ Pending' = Pending
  BY DEF Unpin, Goto, Announced, Guarded, OwnInv, TypeOK, Pending, scanVars
<1>3. EpochInv'
  <2>1. \A e \in Collectors : pc'[e] = "scan" => pc[e] = "scan"
    BY DEF Unpin, Goto, OwnInv, TypeOK
  <2> QED BY <1>1, <1>2, <2>1 DEF EpochInv, GuardInv
<1>4. ReadersInv'
  BY <1>1, <1>2 DEF ReadersInv, GuardInv
<1>5. CASE UNCHANGED <<listVars, freed>>
  <2>1. ListsInv' /\ ExitInv' /\ NoUseAfterFree'
    BY <1>1, <1>5, QuietStep
  <2> QED BY <1>3, <1>4, <2>1 DEF GuardInv
<1>6. CASE /\ c \in exiting
           /\ freed' = freed \cup Dropped({c})
           /\ current' = [current EXCEPT ![c] = {}]
           /\ UNCHANGED <<previous, next>>
  <2>1. c \notin Retired
    BY <1>1 DEF OwnInv, LifeInv
  <2>2. /\ \A e \in Collectors \ {c} : Garbage(e)' = Garbage(e)
        /\ Garbage(c)' \subseteq Garbage(c)
    BY <1>6 DEF Garbage, OwnInv, TypeOK
  <2>3. Retired \subseteq Instances /\ exiting \subseteq Instances
    BY ListsType DEF OwnInv, TypeOK
  <2>4. \A x \in Retired \cup exiting : Dropped({x})' \subseteq Dropped({x})
    BY <2>1, <2>2, <2>3, DroppedFrame
  <2>5. ListsInv' /\ ExitInv'
    BY <1>1, <1>6, <2>4, ListsKept, ExitKept DEF GuardInv
  <2>6. NoUseAfterFree'
    BY <1>1, <1>6 DEF NoUseAfterFree, GuardInv, ExitInv
  <2> QED BY <1>3, <1>4, <2>5, <2>6 DEF GuardInv
<1> QED BY <1>5, <1>6 DEF Unpin

\* A new announcement moves the lists of c on.  What gets into previous has
\* been retired while the epoch was the one announced or the one before; what
\* gets into next has stayed in previous for a whole epoch; and of what has
\* stayed in next no Guard is left.
LEMMA PinStoreGuard ==
  ASSUME OwnInv, OwnInv', GuardInv, NEW c \in Collectors,
         PinStore(c)
  PROVE  GuardInv'
<1> SUFFICES ASSUME Undisturbed' PROVE GuardInv'
  BY DEF GuardInv
<1>1. /\ Undisturbed /\ loaded[c] = epoch
      /\ pc[c] = "pinning" /\ pc' = [pc EXCEPT ![c] = "pinned"]
      /\ ann' = [ann EXCEPT ![c] = epoch]
      /\ UNCHANGED <<epoch, exiting, readers, todo>>
  BY DEF Undisturbed, histVars, PinStore, Goto, scanVars
<1>2. /\ Announced' \subseteq Announced \cup {c} /\ Guarded \subseteq Guarded'
      /\ c \notin Announced /\ c \notin Guarded /\ Pending' = Pending
      /\ Guarded \subseteq Announced
  BY <1>1 DEF Announced, Guarded, OwnInv, TypeOK, Pending
<1>3. ann'[c] = epoch /\ \A d \in Collectors \ {c} : ann'[d] = ann[d]
  BY <1>1 DEF OwnInv, TypeOK
<1>4. EpochInv'
  <2>1. \A e \in Collectors : pc'[e] = "scan" => pc[e] = "scan" /\ e # c
    BY <1>1 DEF OwnInv, TypeOK
  <2>2. Announced \subseteq Collectors
    BY DEF Announced
  <2>3. \A d \in Announced' : epoch' \in {ann'[d], NextEpoch(ann'[d])}
    BY <1>1, <1>2, <1>3, <2>2 DEF EpochInv, GuardInv
  <2>4. ASSUME NEW e \in Collectors, pc'[e] = "scan", NEW d \in Announced' \ Pending'
        PROVE  ann'[d] \in {ann'[e], epoch'}
    BY <1>1, <1>2, <1>3, <2>1, <2>2, <2>4 DEF EpochInv, GuardInv
  <2> QED BY <1>1, <2>1, <2>3, <2>4 DEF EpochInv, GuardInv, Announced, Pending
<1>5. ReadersInv'
  BY <1>1, <1>2 DEF ReadersInv, GuardInv
<1>6. /\ \A o \in Objects : readers[o] \subseteq Guarded
      /\ \A r \in Guarded : ann'[r] = ann[r] /\ epoch \in {ann[r], NextEpoch(ann[r])}
  <2>1. Guarded \subseteq Collectors
    BY DEF Guarded
  <2> QED BY <1>1, <1>2, <1>3, <2>1 DEF ReadersInv, GuardInv, EpochInv
<1>7. c \notin Retired
  BY <1>1 DEF OwnInv, LifeInv
<1>8. /\ \A d \in Collectors \ {c} : Garbage(d)' = Garbage(d)
      /\ \A d \in Collectors \ {c} : previous'[d] = previous[d] /\ next'[d] = next[d]
      /\ Garbage(c)' \subseteq Garbage(c)
  BY DEF PinStore, Rotate, Garbage, OwnInv, TypeOK, listVars
<1>9. /\ Retired \subseteq Instances /\ exiting \subseteq Instances
      /\ exiting \subseteq Collectors /\ Retired' \subseteq Retired
  <2>1. \A d \in Collectors : Garbage(d)' \subseteq Garbage(d)
    BY <1>8
  <2>2. Retired' \subseteq Retired
    BY <2>1 DEF Retired
  <2> QED BY <2>2, ListsType DEF OwnInv, TypeOK
<1>10. \A x \in Retired \cup exiting : Dropped({x})' \subseteq Dropped({x})
  BY <1>7, <1>8, <1>9, DroppedFrame
<1>11. ExitInv'
  BY <1>1, <1>10, ExitKept DEF GuardInv
<1>12. ASSUME NEW x \in Retired, NEW o \in Objects, o \in Dropped({x}),
              NEW r \in readers[o]
       PROVE  /\ r \in Guarded /\ r \in Collectors
              /\ \A d \in Collectors :
                   /\ x \in previous[d] =>
                        \/ ann[d] = ann[r]
                        \/ ann[d] = NextEpoch(ann[r]) /\ epoch = NextEpoch(ann[r])
                   /\ x \in next[d] =>
                        ann[d] = NextEpoch(ann[r]) /\ epoch = NextEpoch(ann[r])
  BY <1>1, <1>6, <1>12 DEF Guarded, GuardInv, ListsInv
<1>13. ASSUME NEW d \in Collectors, NEW x \in Retired', NEW o \in Objects,
              NEW r \in Collectors, o \in Dropped({x})', r \in readers'[o]
       PROVE  /\ x \in previous'[d] =>
                   \/ ann'[d] = ann[r]
                   \/ ann'[d] = NextEpoch(ann[r]) /\ epoch = NextEpoch(ann[r])
              /\ x \in next'[d] =>
                   ann'[d] = NextEpoch(ann[r]) /\ epoch = NextEpoch(ann[r])
  <2>1. x \in Retired /\ o \in Dropped({x}) /\ r \in readers[o]
    BY <1>1, <1>9, <1>10, <1>13
  <2>2. CASE d # c
    BY <1>3, <1>8, <1>12, <2>1, <2>2
  <2>3. CASE d = c /\ Rotate(c) /\ epoch # ann[c]
    <3>1. previous'[c] = current[c] /\ next'[c] = previous[c]
      BY <2>3 DEF Rotate, OwnInv, TypeOK
    <3> QED BY <1>3, <1>6, <1>12, <2>1, <2>3, <3>1
  <2>4. CASE d = c /\ UNCHANGED listVars /\ epoch = ann[c]
    <3>1. previous' = previous /\ next' = next
      BY <2>4 DEF listVars
    <3> QED BY <1>3, <1>12, <2>1, <2>4, <3>1
  <2>5. CASE d = c /\ previous'[c] = {} /\ next'[c] = {}
    BY <2>5
  <2> QED BY <1>1, <2>2, <2>3, <2>4, <2>5 DEF PinStore, OwnInv, TypeOK
<1>14. ListsInv'
  <2> SUFFICES ASSUME NEW d \in Collectors, NEW x \in Retired', NEW o \in Objects,
                      NEW r \in Collectors, o \in Dropped({x})', r \in readers'[o]
               PROVE  ListsInv!(d, x, o, r)!2'
    BY DEF ListsInv
  <2>1. ann'[r] = ann[r]
    BY <1>1, <1>6
  <2> QED BY <1>1, <1>13, <2>1
<1>15. NoUseAfterFree'
  <2> SUFFICES ASSUME NEW o \in Objects, o \in freed', NEW r \in readers[o]
               PROVE  FALSE
    BY <1>1 DEF NoUseAfterFree
  <2>1. CASE o \in freed
    BY <1>1, <2>1 DEF GuardInv, NoUseAfterFree
  <2>2. CASE /\ freed' = freed \cup Dropped(next[c]) /\ o \notin freed
             /\ epoch # ann[c]
    <3>1. next[c] \in SUBSET Instances /\ next[c] \subseteq Retired
      BY DEF OwnInv, TypeOK, Retired, Garbage
    <3>2. PICK x \in next[c] : o \in Dropped({x})
      <4>1. o \in Closure(Lists, next[c])
        BY <2>2, DroppedIsClosure
      <4> QED BY <3>1, <4>1, ListsType, ClosurePointwise, DroppedIsClosure DEF OwnInv
    <3>3. ann[c] = NextEpoch(ann[r]) /\ epoch = NextEpoch(ann[r])
      BY <1>12, <3>1, <3>2
    <3> QED BY <2>2, <3>3
  <2>3. CASE /\ freed' = freed \cup Dropped(Garbage(c)) /\ o \notin freed
             /\ c \in exiting
    <3>1. Lists \in [Collectors -> SUBSET Instances] /\ Lists[c] = Garbage(c)
      BY ListsType DEF OwnInv
    <3>2. {c} \in SUBSET Instances /\ Garbage(c) \in SUBSET Instances
      BY <3>1 DEF Instances
    <3>3. Garbage(c) \subseteq Closure(Lists, {c})
      BY <3>1, <3>2, ClosureHolds, ClosureCloses
    <3>4. Closure(Lists, Garbage(c)) \subseteq Closure(Lists, {c})
      BY <3>1, <3>2, <3>3, ClosureMonotone
    <3>5. o \in Dropped({c})
      BY <2>3, <3>4, DroppedIsClosure
    <3> QED BY <1>1, <2>3, <3>5 DEF GuardInv, ExitInv
  <2> QED BY <1>1, <2>1, <2>2, <2>3 DEF PinStore, Rotate
<1> QED BY <1>4, <1>5, <1>11, <1>14, <1>15 DEF GuardInv

\* Every step keeps the invariant of the Guards.
LEMMA GuardStep == OwnInv /\ OwnInv' /\ GuardInv /\ [Next]_vars => GuardInv'
<1> SUFFICES ASSUME OwnInv, OwnInv', GuardInv, [Next]_vars PROVE GuardInv'
  OBVIOUS
<1>1. CASE UNCHANGED vars
  <2> SUFFICES ASSUME Undisturbed' PROVE GuardInv'
    BY DEF GuardInv
  <2>1. Undisturbed
    BY <1>1 DEF Undisturbed, histVars, vars
  <2>2. ListsInv' /\ ExitInv' /\ NoUseAfterFree'
    BY <1>1, <2>1, QuietStep DEF vars, listVars
  <2>3. Announced' = Announced /\ Guarded' = Guarded /\ Pending' = Pending
    BY <1>1 DEF vars, Announced, Guarded, Pending
  <2>4. EpochInv' /\ ReadersInv'
    BY <1>1, <2>1, <2>3 DEF vars, EpochInv, ReadersInv, GuardInv
  <2> QED BY <2>2, <2>4 DEF GuardInv
<1>2. CASE Next
  BY <1>2, AllocGuard, PinLoadGuard, RetireGuard, ExitSoleGuard, LeaveGuard,
     PinStoreGuard, EndGuardGuard, EndGuardScanGuard, ScanVisitGuard,
     ScanFinishGuard, UnpinGuard, InvalidateGuard, MarkGuard DEF Next, Step
<1> QED BY <1>1, <1>2

\* Until a Guard announces an epoch that has moved on since new_guard loaded it,
\* or an exiting thread scans, the epoch is at most one ahead of every Guard
\* (try_scan), and an instance a Guard may refer to waits in a list that is not
\* due before the Guard is dropped (epoch_updated).
THEOREM GuardInvariant == Spec => [](OwnInv /\ GuardInv)
<1>1. Init => OwnInv /\ GuardInv
  BY OwnInit, GuardInit
<1>2. OwnInv /\ GuardInv /\ [Next]_vars => OwnInv' /\ GuardInv'
  BY OwnStep, GuardStep
<1> QED BY <1>1, <1>2, PTL DEF Spec

\* Until then nothing a Guard may refer to is deallocated before the Guard is
\* dropped, whatever the threads do and however many there are.  new_guard and
\* the clean-up of an exiting thread allow both events, so this is as much as
\* the code keeps of the promise.
THEOREM GuardedIsKeptHolds == Spec => []GuardedIsKept
<1>1. OwnInv /\ GuardInv => GuardedIsKept
  BY DEF GuardInv, GuardedIsKept
<1> QED BY <1>1, GuardInvariant, PTL

\* Until then the epoch moves at most once while a Guard is alive (try_scan).
THEOREM GuardHoldsEpochHolds == Spec => []GuardHoldsEpoch
<1>1. OwnInv /\ GuardInv => GuardHoldsEpoch
  BY DEF GuardInv, EpochInv, GuardHoldsEpoch, Announced, Guarded
<1> QED BY <1>1, GuardInvariant, PTL

=============================================================================
