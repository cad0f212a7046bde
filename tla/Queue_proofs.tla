---------------------------- MODULE Queue_proofs -----------------------------
(***************************************************************************)
(* Proofs about the queue, for any number of threads and entries: it       *)
(* implements a first-in first-out queue, and whenever no operation is     *)
(* running newest is null if it is empty.                                  *)
(*                                                                         *)
(* The entries that have been linked are put in the order in which that    *)
(* happened by a rank.  The queue is a sequence Q of linked entries that   *)
(* are not deleted, and what can be reached from a linked entry is a       *)
(* suffix of Q: `at' is where that suffix starts.                          *)
(***************************************************************************)
EXTENDS Queue, TLAPS, WellFoundedInduction, SequenceTheorems

Places == Entries \cup {Null}

PushAt == {"newest", "oldest", "traverse", "cond", "cas"}
PushedAt == {"swap", "check", "reset"}
PopAt == {"current", "pop", "peek", "iter"}
CleanAt == {"clean", "clean_next", "clean_cas", "clean_reset"}

QueueTypes ==
  /\ oldest \in Places /\ newest \in Places
  /\ next \in [Entries -> Places] /\ deleted \subseteq Entries
  /\ alloc \in 0 .. MaxEntries
  /\ pc \in [Threads -> {"idle"} \cup PushAt \cup PushedAt \cup PopAt \cup CleanAt]
  /\ op \in [Threads -> Operations \cup {"none"}]
  /\ ptr \in [Threads -> Places] /\ found \in [Threads -> Places]
  /\ succ \in [Threads -> Places] /\ new \in [Threads -> Places]

\* Where in Q what can be reached from x begins.
Place(Q, at, x) == IF x = Null THEN Len(Q) + 1 ELSE at[x]

\* The ghosts: pos is the rank of a linked entry and 0 of the others, top the highest
\* one, front the rank of the entry that oldest was moved to last.
GhostTypes(Q, at, pos, front, top) ==
  /\ Q \in Seq(Entries) /\ at \in [Entries -> Nat] /\ pos \in [Entries -> Nat]
  /\ front \in Nat /\ top \in Nat /\ front <= top
  /\ \A x \in Entries : pos[x] # 0 => pos[x] <= top /\ at[x] \in 1 .. Len(Q) + 1

\* Q has the linked entries that are not deleted, each at its place.
Queued(Q, at, pos) ==
  /\ \A i \in 1 .. Len(Q) : pos[Q[i]] # 0 /\ Q[i] \notin deleted /\ at[Q[i]] = i
  /\ \A x \in Entries : pos[x] # 0 /\ x \notin deleted => at[x] <= Len(Q) /\ Q[at[x]] = x
  /\ \A x \in Entries : pos[x] = 0 => next[x] = Null /\ x \notin deleted

\* A link leads to a linked entry with a higher rank, from which the rest of the
\* queue is reached.
Forward(Q, at, pos) ==
  \A x \in Entries : pos[x] # 0 =>
    /\ next[x] # Null => pos[x] < pos[next[x]]
    /\ Place(Q, at, next[x]) = IF x \in deleted THEN at[x] ELSE at[x] + 1
    /\ \A j \in Place(Q, at, next[x]) .. Len(Q) : pos[x] < pos[Q[j]]

\* Entries that have not been oldest yet are not deleted; of the others, only the first
\* entry of the queue may not be.  What is reached from oldest is the queue.
AtFront(Q, at, pos, front) ==
  /\ \A x \in Entries : pos[x] > front => x \notin deleted
  /\ \A x \in Entries : pos[x] # 0 /\ pos[x] <= front /\ x \notin deleted => at[x] = 1
  /\ Place(Q, at, oldest) = 1
  /\ oldest # Null => pos[oldest] # 0 /\ pos[oldest] = front

Links(Q, at, pos, front, top) ==
  /\ GhostTypes(Q, at, pos, front, top)
  /\ Queued(Q, at, pos) /\ Forward(Q, at, pos) /\ AtFront(Q, at, pos, front)

\* What a thread points to is linked; what it has taken for oldest has been oldest.
Pointers(t, pos, front) ==
  /\ ptr[t] # Null => pos[ptr[t]] # 0
  /\ found[t] # Null => pos[found[t]] # 0 /\ pos[found[t]] <= front
  /\ succ[t] # Null => pos[succ[t]] # 0
  /\ pc[t] = "pop" => ptr[t] # Null /\ pos[ptr[t]] <= front

\* What cleanup_oldest puts in the place of a deleted entry is the first entry of the
\* queue, as long as that entry is oldest.
Cleaning(t, Q, at, pos) ==
  /\ pc[t] = "clean_next" => found[t] # Null
  /\ pc[t] = "clean_cas" =>
       /\ found[t] # Null /\ found[t] \in deleted
       /\ succ[t] # Null => pos[found[t]] < pos[succ[t]]
       /\ oldest = found[t] => Place(Q, at, succ[t]) = 1

\* The entry of a push is private until it is linked.
Pushing(t, pos) ==
  /\ pc[t] \in PushedAt => new[t] # Null /\ pos[new[t]] # 0
  /\ pc[t] = "cas" => new[t] # Null
  /\ pc[t] \notin PushedAt /\ new[t] # Null => pos[new[t]] = 0 /\ new[t] <= alloc

Own(t, Q, at, pos, front) ==
  Pointers(t, pos, front) /\ Cleaning(t, Q, at, pos) /\ Pushing(t, pos)

Locals(Q, at, pos, front) ==
  /\ \A t \in Threads : Own(t, Q, at, pos, front)
  /\ \A t, u \in Threads : t # u /\ new[t] = new[u] => new[t] = Null
  /\ newest # Null => pos[newest] # 0
  /\ \A x \in Entries : pos[x] # 0 => x <= alloc

Placed(Q, at, pos, front, top) ==
  Links(Q, at, pos, front, top) /\ Locals(Q, at, pos, front)

\* A deleted oldest entry has somebody to replace it.
CleanDue ==
  oldest # Null /\ oldest \in deleted =>
    \E t \in Threads : \/ pc[t] = "clean"
                       \/ pc[t] \in {"clean_next", "clean_cas"} /\ found[t] = oldest

\* A pointer to an entry in newest of an empty queue has somebody to reset it.
ResetDue ==
  oldest = Null /\ newest # Null =>
    \E t \in Threads : pc[t] \in {"check", "reset", "clean_reset"}

QueueInv ==
  /\ QueueTypes
  /\ \E Q, at, pos, front, top : Placed(Q, at, pos, front, top)
  /\ CleanDue /\ ResetDue

-----------------------------------------------------------------------------
(* What is reached from an entry                                            *)

\* The null pointer is no entry.
LEMMA Numbers ==
  /\ MaxEntries \in Nat /\ Null = 0 /\ Null \notin Entries
  /\ \A x \in Entries : x \in Nat /\ x # 0
  /\ \A x \in Places : x \in Nat /\ (x = Null \/ x \in Entries)
  BY QueueAssumption DEF Null, Entries, Places

\* A nonempty set of numbers has a least one.
LEMMA LeastNumber ==
  ASSUME NEW S \in SUBSET Nat, S # {}
  PROVE  \E n \in S : \A m \in S : n <= m
<1> DEFINE R == {p \in Nat \X Nat : p[1] < p[2]}
<1>1. OpToRel(<, Nat) = R
  BY Zenon DEF OpToRel
<1>2. IsWellFoundedOn(R, Nat)
  BY <1>1, NatLessThanWellFounded, Zenon
<1>3. \A m, n \in Nat : <<m, n>> \in R <=> m < n
  OBVIOUS
<1> HIDE DEF R
<1>4. PICK n \in S : \A m \in S : <<m, n>> \notin R
  BY <1>2, WFMin
<1>5. \A m \in S : ~ (m < n)
  BY <1>3, <1>4
<1> QED BY <1>5

LiveFcn(nx, del) ==
  CHOOSE C : C = [x \in Places |->
    IF x = Null THEN <<>>
    ELSE IF x \in del THEN C[nx[x]] ELSE <<x>> \o C[nx[x]]]

\* LiveFrom is a function of the links and of the deleted entries.
LEMMA LiveIsFcn ==
  ASSUME NEW e
  PROVE  LiveFrom(e) = LiveFcn(next, deleted)[e]
  BY Zenon DEF LiveFrom, LiveFcn, Places

\* A suffix of a sequence starts with its first element.
LEMMA SuffixStep ==
  ASSUME NEW S, NEW Q \in Seq(S), NEW i \in 1 .. Len(Q)
  PROVE  SubSeq(Q, i, Len(Q)) = <<Q[i]>> \o SubSeq(Q, i + 1, Len(Q))
<1> DEFINE a == SubSeq(Q, i, Len(Q))
           b == SubSeq(Q, i + 1, Len(Q))
           c == <<Q[i]>> \o b
<1>1. a \in Seq(S) /\ Len(a) = Len(Q) - i + 1 /\ \A j \in 1 .. Len(a) : a[j] = Q[i + j - 1]
  OBVIOUS
<1>2. b \in Seq(S) /\ Len(b) = Len(Q) - i /\ \A j \in 1 .. Len(b) : b[j] = Q[i + j]
  OBVIOUS
<1> HIDE DEF a, b
<1>3. <<Q[i]>> \in Seq(S) /\ Len(<<Q[i]>>) = 1 /\ <<Q[i]>>[1] = Q[i]
  OBVIOUS
<1>4. c \in Seq(S) /\ Len(c) = Len(Q) - i + 1
  BY <1>2, <1>3
<1>5. \A j \in 1 .. Len(c) : c[j] = IF j = 1 THEN Q[i] ELSE b[j - 1]
  BY <1>2, <1>3
<1> HIDE DEF c
<1>6. ASSUME NEW j \in 1 .. Len(a) PROVE a[j] = c[j]
  <2>1. CASE j = 1
    BY <1>1, <1>4, <1>5, <2>1
  <2>2. CASE j # 1
    <3>1. j \in 1 .. Len(c) /\ j - 1 \in 1 .. Len(b) /\ i + (j - 1) = i + j - 1
      BY <1>1, <1>2, <1>4, <2>2
    <3>2. c[j] = b[j - 1] /\ b[j - 1] = Q[i + (j - 1)] /\ a[j] = Q[i + j - 1]
      BY <1>1, <1>2, <1>5, <2>2, <3>1
    <3> QED BY <3>1, <3>2
  <2> QED BY <2>1, <2>2
<1>7. a = c
  BY <1>1, <1>4, <1>6, SeqEqual
<1> QED BY <1>7 DEF a, b, c

\* What is reached from a linked entry is the suffix of Q at its place: the function
\* that LiveFrom defines by recursion along the links exists, because they go forward.
LEMMA Reached ==
  ASSUME NEW Q, NEW at, NEW pos, NEW front, NEW top
  PROVE  QueueTypes /\ Links(Q, at, pos, front, top) =>
           /\ LiveFrom(Null) = <<>>
           /\ \A x \in Entries : pos[x] # 0 => LiveFrom(x) = SubSeq(Q, at[x], Len(Q))
<1> SUFFICES ASSUME QueueTypes, Links(Q, at, pos, front, top)
             PROVE  /\ LiveFrom(Null) = <<>>
                    /\ \A x \in Entries :
                         pos[x] # 0 => LiveFrom(x) = SubSeq(Q, at[x], Len(Q))
  OBVIOUS
<1> DEFINE W == [x \in Places |->
                   IF x = Null THEN <<>>
                   ELSE IF pos[x] = 0 THEN <<x>> ELSE SubSeq(Q, at[x], Len(Q))]
           F == LiveFcn(next, deleted)
<1>1. /\ GhostTypes(Q, at, pos, front, top) /\ Queued(Q, at, pos) /\ Forward(Q, at, pos)
      /\ next \in [Entries -> Places]
  BY DEF Links, QueueTypes
<1>2. /\ W[Null] = <<>>
      /\ \A x \in Entries : W[x] = IF pos[x] = 0 THEN <<x>> ELSE SubSeq(Q, at[x], Len(Q))
  BY Numbers DEF Places
<1>3. Q \in Seq(Entries) /\ SubSeq(Q, Len(Q) + 1, Len(Q)) = <<>>
  BY <1>1 DEF GhostTypes
<1>4. W \in [Places -> Seq(Entries)]
  BY <1>1 DEF GhostTypes, Places
<1> HIDE DEF W
<1>5. ASSUME NEW x \in Entries, pos[x] # 0
      PROVE  /\ next[x] \in Places
             /\ next[x] # Null => next[x] \in Entries /\ pos[next[x]] # 0
             /\ W[next[x]] = SubSeq(Q, Place(Q, at, next[x]), Len(Q))
  <2>1. next[x] \in Places /\ (next[x] # Null => next[x] \in Entries)
    BY <1>1, Numbers
  <2>2. next[x] # Null => pos[next[x]] # 0
    BY <1>1, <1>5, <2>1 DEF Forward, GhostTypes
  <2>3. CASE next[x] = Null
    BY <1>2, <1>3, <2>1, <2>3 DEF Place
  <2>4. CASE next[x] # Null
    BY <1>2, <2>1, <2>2, <2>4 DEF Place
  <2> QED BY <2>1, <2>2, <2>3, <2>4
<1>6. ASSUME NEW x \in Entries
      PROVE  W[x] = IF x \in deleted THEN W[next[x]] ELSE <<x>> \o W[next[x]]
  <2>1. CASE pos[x] = 0
    <3>1. next[x] = Null /\ x \notin deleted /\ W[x] = <<x>>
      BY <1>1, <1>2, <2>1 DEF Queued
    <3>2. <<x>> \o <<>> = <<x>>
      <4>1. <<x>> \in Seq(Entries)
        OBVIOUS
      <4> QED BY <4>1, ConcatEmptySeq
    <3> QED BY <1>2, <3>1, <3>2
  <2>2. CASE pos[x] # 0 /\ x \in deleted
    BY <1>1, <1>2, <1>5, <2>2 DEF Forward
  <2>3. CASE pos[x] # 0 /\ x \notin deleted
    <3>1. at[x] \in 1 .. Len(Q) /\ Q[at[x]] = x /\ Place(Q, at, next[x]) = at[x] + 1
      BY <1>1, <2>3 DEF Queued, Forward, GhostTypes
    <3>2. W[x] = SubSeq(Q, at[x], Len(Q)) /\ W[next[x]] = SubSeq(Q, at[x] + 1, Len(Q))
      BY <1>2, <1>5, <2>3, <3>1
    <3> QED BY <1>3, <2>3, <3>1, <3>2, SuffixStep
  <2> QED BY <2>1, <2>2, <2>3
<1>7. W = [x \in Places |-> IF x = Null THEN <<>>
                            ELSE IF x \in deleted THEN W[next[x]] ELSE <<x>> \o W[next[x]]]
  BY <1>2, <1>4, <1>6, Numbers DEF Places
<1>8. \E C : C = [x \in Places |-> IF x = Null THEN <<>>
                            ELSE IF x \in deleted THEN C[next[x]] ELSE <<x>> \o C[next[x]]]
  BY <1>7
<1>9. F = [x \in Places |-> IF x = Null THEN <<>>
                            ELSE IF x \in deleted THEN F[next[x]] ELSE <<x>> \o F[next[x]]]
  BY <1>8, Zenon DEF LiveFcn
<1> HIDE DEF F
<1>10. /\ F[Null] = <<>>
       /\ \A x \in Entries : F[x] = IF x \in deleted THEN F[next[x]] ELSE <<x>> \o F[next[x]]
  BY <1>9, Numbers DEF Places
<1>11. \A x \in Entries : pos[x] # 0 => F[x] = W[x]
  <2> DEFINE B == {x \in Entries : pos[x] # 0 /\ F[x] # W[x]}
             S == {n \in Nat : \E x \in B : n = top - pos[x]}
  <2>1. SUFFICES ASSUME B # {} PROVE FALSE
    OBVIOUS
  <2>2. \A x \in Entries : pos[x] \in Nat /\ top \in Nat /\ (pos[x] # 0 => pos[x] <= top)
    BY <1>1 DEF GhostTypes
  <2>3. S # {} /\ S \in SUBSET Nat
    <3>1. PICK x \in B : TRUE
      BY <2>1
    <3>2. top - pos[x] \in S
      BY <2>2
    <3> QED BY <3>2
  <2>4. PICK n \in S : \A m \in S : n <= m
    <3> HIDE DEF S
    <3> QED BY <2>3, LeastNumber
  <2>5. PICK x \in B : n = top - pos[x]
    BY <2>4
  <2>6. F[next[x]] = W[next[x]]
    <3>1. CASE next[x] = Null
      BY <1>2, <1>10, <3>1
    <3>2. CASE next[x] # Null
      <4>1. next[x] \in Entries /\ pos[next[x]] # 0 /\ pos[x] < pos[next[x]]
        BY <1>1, <1>5, <3>2 DEF Forward
      <4>2. next[x] \notin B
        <5>1. SUFFICES ASSUME next[x] \in B PROVE FALSE
          OBVIOUS
        <5>2. top - pos[next[x]] \in S
          BY <2>2, <4>1, <5>1
        <5>3. n <= top - pos[next[x]]
          BY <2>4, <5>2
        <5> QED BY <2>2, <2>5, <4>1, <5>3
      <4> QED BY <4>1, <4>2
    <3> QED BY <3>1, <3>2
  <2> QED BY <1>6, <1>10, <2>5, <2>6
<1>12. \A e : LiveFrom(e) = F[e]
  BY LiveIsFcn DEF F
<1> QED BY <1>2, <1>10, <1>11, <1>12

\* The queue is Q, and next_ptr finds the entry at the place of the link.
LEMMA QueueIs ==
  ASSUME NEW Q, NEW at, NEW pos, NEW front, NEW top
  PROVE  QueueTypes /\ Links(Q, at, pos, front, top) =>
           /\ Contents = Q
           /\ \A e \in Entries : pos[e] # 0 =>
                NextPtr(e) = LET p == Place(Q, at, next[e])
                             IN IF p <= Len(Q) THEN Q[p] ELSE Null
<1> SUFFICES ASSUME QueueTypes, Links(Q, at, pos, front, top)
             PROVE  /\ Contents = Q
                    /\ \A e \in Entries : pos[e] # 0 =>
                         NextPtr(e) = LET p == Place(Q, at, next[e])
                                      IN IF p <= Len(Q) THEN Q[p] ELSE Null
  OBVIOUS
<1>1. /\ LiveFrom(Null) = <<>>
      /\ \A x \in Entries : pos[x] # 0 => LiveFrom(x) = SubSeq(Q, at[x], Len(Q))
  BY Reached
<1>2. /\ GhostTypes(Q, at, pos, front, top) /\ Forward(Q, at, pos)
      /\ AtFront(Q, at, pos, front) /\ next \in [Entries -> Places] /\ oldest \in Places
  BY DEF Links, QueueTypes
<1>3. Q \in Seq(Entries)
  BY <1>2 DEF GhostTypes
<1>4. Contents = Q
  <2>1. CASE oldest = Null
    <3>1. Len(Q) = 0
      BY <1>2, <1>3, <2>1 DEF AtFront, Place
    <3> QED BY <1>1, <1>3, <2>1, <3>1 DEF Contents
  <2>2. CASE oldest # Null
    <3>1. oldest \in Entries /\ pos[oldest] # 0 /\ at[oldest] = 1
      BY <1>2, <2>2, Numbers DEF AtFront, Place
    <3>2. SubSeq(Q, 1, Len(Q)) = Q
      BY <1>3
    <3> QED BY <1>1, <3>1, <3>2 DEF Contents
  <2> QED BY <2>1, <2>2
<1>5. ASSUME NEW e \in Entries, pos[e] # 0
      PROVE  NextPtr(e) = LET p == Place(Q, at, next[e]) IN IF p <= Len(Q) THEN Q[p] ELSE Null
  <2> DEFINE p == Place(Q, at, next[e])
             s == LiveFrom(next[e])
  <2>1. p \in 1 .. Len(Q) + 1 /\ (p <= Len(Q) => next[e] # Null)
    BY <1>2, <1>3, <1>5, Numbers DEF Forward, GhostTypes, Place
  <2>2. s = SubSeq(Q, p, Len(Q))
    <3>1. CASE next[e] = Null
      BY <1>1, <1>3, <3>1 DEF Place
    <3>2. CASE next[e] # Null
      <4>1. next[e] \in Entries /\ pos[next[e]] # 0
        BY <1>2, <1>5, <3>2, Numbers DEF Forward, GhostTypes
      <4> QED BY <1>1, <3>2, <4>1 DEF Place
    <3> QED BY <3>1, <3>2
  <2>3. NextPtr(e) = IF s = <<>> THEN Null ELSE Head(s)
    BY DEF NextPtr
  <2> HIDE DEF p, s
  <2>4. IF p <= Len(Q) THEN s # <<>> /\ Head(s) = Q[p] ELSE s = <<>>
    <3>1. CASE p <= Len(Q)
      <4>1. s \in Seq(Entries) /\ Len(s) = Len(Q) - p + 1 /\ \A i \in 1 .. Len(s) : s[i] = Q[p + i - 1]
        BY <1>3, <2>1, <2>2, <3>1
      <4>2. Len(s) > 0 /\ Head(s) = s[1] /\ s[1] = Q[p]
        BY <1>3, <2>1, <3>1, <4>1
      <4> QED BY <3>1, <4>1, <4>2
    <3>2. CASE ~ (p <= Len(Q))
      <4>1. p = Len(Q) + 1
        BY <1>3, <2>1, <3>2
      <4>2. s \in Seq(Entries) /\ Len(s) = 0
        BY <1>3, <2>2, <4>1
      <4> QED BY <3>2, <4>2
    <3> QED BY <3>1, <3>2
  <2> QED BY <2>3, <2>4 DEF p
<1> QED BY <1>4, <1>5

-----------------------------------------------------------------------------
(* How the steps change the links                                           *)

\* The places after a push of n, the ranks after it, and the places after a pop.
AtPush(Q, at, n) ==
  [x \in Entries |-> IF x = n THEN Len(Q) + 1
                     ELSE IF at[x] = Len(Q) + 1 THEN Len(Q) + 2 ELSE at[x]]
PosPush(pos, n, top) == [x \in Entries |-> IF x = n THEN top + 1 ELSE pos[x]]
AtPop(at) == [x \in Entries |-> IF at[x] > 1 THEN at[x] - 1 ELSE at[x]]

\* next_ptr leads forward, to the place of the link it replaces.
LEMMA NextIsAhead ==
  ASSUME QueueTypes, NEW Q, NEW at, NEW pos, NEW front, NEW top,
         Links(Q, at, pos, front, top), NEW e \in Entries, pos[e] # 0
  PROVE  /\ NextPtr(e) \in Places
         /\ Place(Q, at, NextPtr(e)) = Place(Q, at, next[e])
         /\ NextPtr(e) # Null => pos[NextPtr(e)] # 0 /\ pos[e] < pos[NextPtr(e)]
<1> DEFINE p == Place(Q, at, next[e])
<1>1. NextPtr(e) = IF p <= Len(Q) THEN Q[p] ELSE Null
  BY QueueIs
<1>2. /\ GhostTypes(Q, at, pos, front, top) /\ Queued(Q, at, pos) /\ Forward(Q, at, pos)
      /\ next[e] \in Places
  BY DEF Links, QueueTypes
<1>3. Q \in Seq(Entries) /\ p \in 1 .. Len(Q) + 1
  BY <1>2, Numbers DEF Forward, GhostTypes, Place
<1>4. \A j \in p .. Len(Q) : pos[e] < pos[Q[j]]
  BY <1>2 DEF Forward
<1> HIDE DEF p
<1>5. CASE p <= Len(Q)
  <2>1. p \in 1 .. Len(Q) /\ NextPtr(e) = Q[p] /\ Q[p] \in Entries
    BY <1>1, <1>3, <1>5
  <2>2. pos[Q[p]] # 0 /\ at[Q[p]] = p /\ pos[e] < pos[Q[p]]
    BY <1>2, <1>3, <1>4, <2>1 DEF Queued
  <2>3. Place(Q, at, NextPtr(e)) = p
    BY <2>1, <2>2, Numbers DEF Place
  <2> QED BY <2>1, <2>2, <2>3 DEF p, Places
<1>6. CASE ~ (p <= Len(Q))
  <2>1. NextPtr(e) = Null /\ p = Len(Q) + 1
    BY <1>1, <1>3, <1>6
  <2> QED BY <2>1 DEF p, Place, Places
<1> QED BY <1>5, <1>6

\* next_ptr unlinks deleted entries, which changes nothing that can be reached.
LEMMA LinksNext ==
  ASSUME QueueTypes, NEW Q, NEW at, NEW pos, NEW front, NEW top,
         Links(Q, at, pos, front, top), NEW e \in Entries, pos[e] # 0,
         next' = [next EXCEPT ![e] = NextPtr(e)], UNCHANGED <<oldest, deleted>>
  PROVE  Links(Q, at, pos, front, top)'
<1>1. /\ GhostTypes(Q, at, pos, front, top) /\ Queued(Q, at, pos) /\ Forward(Q, at, pos)
      /\ AtFront(Q, at, pos, front) /\ next \in [Entries -> Places]
  BY DEF Links, QueueTypes
<1>2. /\ NextPtr(e) \in Places
      /\ Place(Q, at, NextPtr(e)) = Place(Q, at, next[e])
      /\ NextPtr(e) # Null => pos[NextPtr(e)] # 0 /\ pos[e] < pos[NextPtr(e)]
  BY NextIsAhead
<1> DEFINE n == NextPtr(e)
<1> HIDE DEF n
<1>3. \A x \in Entries : next'[x] = IF x = e THEN n ELSE next[x]
  BY <1>1 DEF n
<1>4. Queued(Q, at, pos)'
  BY <1>1, <1>3 DEF Queued
<1>5. Forward(Q, at, pos)'
  <2>1. ASSUME NEW x \in Entries, pos[x] # 0
        PROVE  /\ Place(Q, at, next'[x]) = Place(Q, at, next[x])
               /\ next'[x] # Null => pos[x] < pos[next'[x]]
    BY <1>1, <1>2, <1>3, <2>1 DEF n, Forward
  <2>2. ASSUME NEW x \in Entries, pos[x] # 0
        PROVE  /\ Place(Q, at, next'[x]) = IF x \in deleted' THEN at[x] ELSE at[x] + 1
               /\ \A j \in Place(Q, at, next'[x]) .. Len(Q) : pos[x] < pos[Q[j]]
    BY <1>1, <2>1, <2>2 DEF Forward
  <2>3. \A x \in Entries : Place(Q, at, next[x])' = Place(Q, at, next'[x])
    BY DEF Place
  <2> QED BY <2>1, <2>2, <2>3 DEF Forward
<1>6. AtFront(Q, at, pos, front)'
  BY <1>1 DEF AtFront, Place
<1> QED BY <1>1, <1>4, <1>5, <1>6 DEF Links, GhostTypes

\* cleanup_oldest moves oldest to the first entry of the queue.
LEMMA LinksAdvance ==
  ASSUME QueueTypes, NEW Q, NEW at, NEW pos, NEW front, NEW top,
         Links(Q, at, pos, front, top), oldest # Null, NEW s \in Places, oldest' = s,
         Place(Q, at, s) = 1, s # Null => pos[s] # 0 /\ pos[oldest] < pos[s],
         UNCHANGED <<next, deleted>>
  PROVE  /\ Links(Q, at, pos, IF s = Null THEN front ELSE pos[s], top)'
         /\ s # Null => s \notin deleted /\ front < pos[s]
<1>1. /\ GhostTypes(Q, at, pos, front, top) /\ Queued(Q, at, pos) /\ Forward(Q, at, pos)
      /\ AtFront(Q, at, pos, front) /\ pos[oldest] = front
  BY DEF Links, AtFront
<1> DEFINE fr == IF s = Null THEN front ELSE pos[s]
<1>2. s # Null => s \in Entries
  BY Numbers
<1>3. s # Null => s \notin deleted /\ front < pos[s] /\ at[s] = 1
  BY <1>1, <1>2 DEF AtFront, Place, GhostTypes
<1>4. fr \in Nat /\ front <= fr /\ fr <= top
  BY <1>1, <1>2, <1>3 DEF GhostTypes
<1>5. Queued(Q, at, pos)' /\ Forward(Q, at, pos)'
  BY <1>1 DEF Queued, Forward, Place
<1>6. ASSUME NEW x \in Entries, pos[x] # 0, pos[x] <= fr, x \notin deleted PROVE at[x] = 1
  <2>1. CASE s = Null
    BY <1>1, <1>6, <2>1 DEF AtFront
  <2>2. CASE s # Null
    <3>1. s \notin deleted /\ Q[1] = s /\ at[x] \in 1 .. Len(Q) /\ Q[at[x]] = x
      BY <1>1, <1>2, <1>3, <1>6, <2>2 DEF Queued, GhostTypes
    <3>2. Place(Q, at, next[s]) = 2
      BY <1>1, <1>2, <1>3, <2>2, <3>1 DEF Forward
    <3>3. \A j \in 2 .. Len(Q) : pos[s] < pos[Q[j]]
      BY <1>1, <1>2, <1>3, <2>2, <3>2 DEF Forward
    <3>4. at[x] # 1 => pos[s] < pos[x]
      BY <1>1, <3>1, <3>3 DEF GhostTypes
    <3> QED BY <1>1, <1>2, <1>6, <2>2, <3>4 DEF GhostTypes
  <2> QED BY <2>1, <2>2
<1>7. AtFront(Q, at, pos, fr)'
  <2>1. \A x \in Entries : pos[x] > fr => x \notin deleted
    BY <1>1, <1>4 DEF AtFront, GhostTypes
  <2>2. Place(Q, at, oldest)' = 1
    BY DEF Place
  <2> HIDE DEF fr
  <2>3. oldest' # Null => pos[oldest'] # 0 /\ pos[oldest'] = fr
    BY DEF fr
  <2> QED BY <1>6, <2>1, <2>2, <2>3 DEF AtFront
<1>8. GhostTypes(Q, at, pos, fr, top)
  BY <1>1, <1>4 DEF GhostTypes
<1> QED BY <1>3, <1>5, <1>7, <1>8 DEF Links

\* What a push adds to Q, and where the entries are then.
LEMMA PushGhosts ==
  ASSUME NEW Q, NEW at, NEW pos, NEW front, NEW top,
         GhostTypes(Q, at, pos, front, top), NEW n \in Entries, pos[n] = 0
  PROVE  /\ GhostTypes(Append(Q, n), AtPush(Q, at, n), PosPush(pos, n, top), front, top + 1)
         /\ GhostTypes(Append(Q, n), AtPush(Q, at, n), PosPush(pos, n, top), top + 1, top + 1)
         /\ Len(Q) \in Nat /\ Len(Append(Q, n)) = Len(Q) + 1
         /\ \A i \in 1 .. Len(Q) : Append(Q, n)[i] = Q[i] /\ Q[i] \in Entries
         /\ Append(Q, n)[Len(Q) + 1] = n
         /\ \A x \in Entries : /\ AtPush(Q, at, n)[x] = IF x = n THEN Len(Q) + 1
                                  ELSE IF at[x] = Len(Q) + 1 THEN Len(Q) + 2 ELSE at[x]
                               /\ PosPush(pos, n, top)[x] = IF x = n THEN top + 1 ELSE pos[x]
<1> DEFINE R == Append(Q, n)
           bt == AtPush(Q, at, n)
           qos == PosPush(pos, n, top)
<1>1. /\ Q \in Seq(Entries) /\ at \in [Entries -> Nat] /\ pos \in [Entries -> Nat]
      /\ front \in Nat /\ top \in Nat /\ front <= top
      /\ \A x \in Entries : pos[x] # 0 => pos[x] <= top /\ at[x] \in 1 .. Len(Q) + 1
  BY DEF GhostTypes
<1>2. /\ R \in Seq(Entries) /\ Len(Q) \in Nat /\ Len(R) = Len(Q) + 1 /\ R[Len(Q) + 1] = n
      /\ \A i \in 1 .. Len(Q) : R[i] = Q[i] /\ Q[i] \in Entries
  BY <1>1
<1>3. /\ bt \in [Entries -> Nat] /\ qos \in [Entries -> Nat]
      /\ \A x \in Entries : /\ bt[x] = IF x = n THEN Len(Q) + 1
                                       ELSE IF at[x] = Len(Q) + 1 THEN Len(Q) + 2 ELSE at[x]
                            /\ qos[x] = IF x = n THEN top + 1 ELSE pos[x]
  BY <1>1, <1>2 DEF AtPush, PosPush
<1> HIDE DEF R, bt, qos
<1>4. ASSUME NEW x \in Entries, qos[x] # 0
      PROVE  qos[x] <= top + 1 /\ bt[x] \in 1 .. Len(R) + 1
  <2>1. CASE x = n
    BY <1>1, <1>2, <1>3, <2>1
  <2>2. CASE x # n
    <3>1. qos[x] = pos[x] /\ pos[x] # 0 /\ pos[x] <= top /\ at[x] \in 1 .. Len(Q) + 1
      BY <1>1, <1>3, <1>4, <2>2
    <3>2. bt[x] = IF at[x] = Len(Q) + 1 THEN Len(Q) + 2 ELSE at[x]
      BY <1>3, <2>2
    <3> QED BY <1>1, <1>2, <3>1, <3>2
  <2> QED BY <2>1, <2>2
<1>5. GhostTypes(R, bt, qos, front, top + 1) /\ GhostTypes(R, bt, qos, top + 1, top + 1)
  BY <1>1, <1>2, <1>3, <1>4 DEF GhostTypes
<1> QED BY <1>2, <1>3, <1>5 DEF R, bt, qos

\* An entry is linked to the last one, which is not deleted.
LEMMA LinksPush ==
  ASSUME QueueTypes, NEW Q, NEW at, NEW pos, NEW front, NEW top,
         Links(Q, at, pos, front, top), NEW e \in Entries, NEW n \in Entries,
         pos[e] # 0, e \notin deleted, next[e] = Null, pos[n] = 0,
         next' = [next EXCEPT ![e] = n], UNCHANGED <<oldest, deleted>>
  PROVE  /\ Links(Append(Q, n), AtPush(Q, at, n), PosPush(pos, n, top), front, top + 1)'
         /\ Q # <<>>
<1> DEFINE R == Append(Q, n)
           bt == AtPush(Q, at, n)
           qos == PosPush(pos, n, top)
<1>1. /\ GhostTypes(Q, at, pos, front, top) /\ Queued(Q, at, pos) /\ Forward(Q, at, pos)
      /\ AtFront(Q, at, pos, front) /\ next \in [Entries -> Places] /\ oldest \in Places
  BY DEF Links, QueueTypes
<1>2. /\ GhostTypes(R, bt, qos, front, top + 1)
      /\ Len(Q) \in Nat /\ Len(R) = Len(Q) + 1 /\ R[Len(Q) + 1] = n
      /\ \A i \in 1 .. Len(Q) : R[i] = Q[i] /\ Q[i] \in Entries
      /\ \A x \in Entries : /\ bt[x] = IF x = n THEN Len(Q) + 1
                                       ELSE IF at[x] = Len(Q) + 1 THEN Len(Q) + 2 ELSE at[x]
                            /\ qos[x] = IF x = n THEN top + 1 ELSE pos[x]
  BY <1>1, PushGhosts
<1> HIDE DEF R, bt, qos
<1>3. \A x \in Entries : next'[x] = IF x = e THEN n ELSE next[x]
  BY <1>1
<1>4. /\ Q \in Seq(Entries) /\ at \in [Entries -> Nat] /\ pos \in [Entries -> Nat] /\ top \in Nat
      /\ front \in Nat /\ front <= top
      /\ \A x \in Entries : pos[x] # 0 => pos[x] <= top /\ at[x] \in 1 .. Len(Q) + 1
  BY <1>1 DEF GhostTypes
<1>5. at[e] = Len(Q) /\ Len(Q) >= 1 /\ Q[Len(Q)] = e
  BY <1>1, <1>2, <1>4, Numbers DEF Forward, Queued, Place
<1>6. n \notin deleted /\ next[n] = Null /\ n # e
  BY <1>1 DEF Queued
<1>7. Queued(R, bt, qos)'
  <2>1. ASSUME NEW i \in 1 .. Len(R)
        PROVE  qos[R[i]] # 0 /\ R[i] \notin deleted /\ bt[R[i]] = i
    <3>1. CASE i = Len(Q) + 1
      BY <1>2, <1>4, <1>6, <3>1
    <3>2. CASE i # Len(Q) + 1
      <4>1. i \in 1 .. Len(Q) /\ R[i] = Q[i] /\ Q[i] \in Entries
        BY <1>2, <3>2
      <4>2. pos[Q[i]] # 0 /\ Q[i] \notin deleted /\ at[Q[i]] = i
        BY <1>1, <4>1 DEF Queued
      <4> QED BY <1>2, <1>4, <4>1, <4>2
    <3> QED BY <3>1, <3>2
  <2>2. ASSUME NEW x \in Entries, qos[x] # 0, x \notin deleted
        PROVE  bt[x] <= Len(R) /\ R[bt[x]] = x
    <3>1. CASE x = n
      BY <1>2, <3>1
    <3>2. CASE x # n
      <4>1. pos[x] # 0 /\ at[x] \in 1 .. Len(Q) /\ Q[at[x]] = x
        BY <1>1, <1>2, <1>4, <2>2, <3>2 DEF Queued
      <4> QED BY <1>2, <3>2, <4>1
    <3> QED BY <3>1, <3>2
  <2>3. ASSUME NEW x \in Entries, qos[x] = 0 PROVE next'[x] = Null /\ x \notin deleted
    BY <1>1, <1>2, <1>3, <1>4, <2>3 DEF Queued
  <2> QED BY <2>1, <2>2, <2>3 DEF Queued
<1>8. ASSUME NEW x \in Entries, qos[x] # 0
      PROVE  /\ next'[x] # Null => qos[x] < qos[next'[x]]
             /\ Place(R, bt, next'[x]) = IF x \in deleted THEN bt[x] ELSE bt[x] + 1
             /\ \A j \in Place(R, bt, next'[x]) .. Len(R) : qos[x] < qos[R[j]]
  <2>1. CASE x = n
    <3>1. next'[x] = Null /\ bt[x] = Len(Q) + 1
      BY <1>2, <1>3, <1>6, <2>1
    <3> QED BY <1>2, <1>6, <2>1, <3>1 DEF Place
  <2>2. CASE x = e
    <3>1. next'[x] = n /\ n # Null /\ bt[n] = Len(Q) + 1 /\ bt[x] = Len(Q)
      BY <1>2, <1>3, <1>5, <1>6, <2>2, Numbers
    <3>2. qos[x] < qos[n] /\ qos[n] = top + 1
      BY <1>2, <1>4, <1>6, <2>2
    <3> QED BY <1>2, <2>2, <3>1, <3>2 DEF Place
  <2>3. CASE x # n /\ x # e
    <3>1. /\ pos[x] # 0 /\ qos[x] = pos[x] /\ next'[x] = next[x] /\ next[x] \in Places
          /\ pos[x] <= top /\ at[x] \in 1 .. Len(Q) + 1
      BY <1>1, <1>2, <1>3, <1>4, <1>8, <2>3
    <3>2. /\ next[x] # Null => pos[x] < pos[next[x]]
          /\ Place(Q, at, next[x]) = IF x \in deleted THEN at[x] ELSE at[x] + 1
          /\ \A j \in Place(Q, at, next[x]) .. Len(Q) : pos[x] < pos[Q[j]]
      BY <1>1, <3>1 DEF Forward
    <3>3. next[x] # Null => next[x] \in Entries /\ next[x] # n /\ pos[next[x]] # 0
      BY <1>4, <3>1, <3>2, Numbers
    <3>4. x \notin deleted => at[x] < Len(Q)
      BY <1>1, <1>4, <1>5, <2>3, <3>1 DEF Queued
    <3>5. Place(R, bt, next[x]) =
            IF Place(Q, at, next[x]) = Len(Q) + 1 THEN Len(Q) + 2 ELSE Place(Q, at, next[x])
      BY <1>2, <3>3 DEF Place
    <3>6. Place(R, bt, next[x]) = IF x \in deleted THEN bt[x] ELSE bt[x] + 1
      BY <1>2, <2>3, <3>1, <3>2, <3>4, <3>5
    <3>7. ASSUME NEW j \in Place(R, bt, next[x]) .. Len(R) PROVE qos[x] < qos[R[j]]
      <4>1. j \in Place(Q, at, next[x]) .. Len(Q) + 1 /\ Place(Q, at, next[x]) >= 1
        BY <1>2, <3>1, <3>2, <3>5
      <4>2. CASE j = Len(Q) + 1
        BY <1>2, <1>4, <3>1, <4>2
      <4>3. CASE j # Len(Q) + 1
        <5>1. j \in 1 .. Len(Q) /\ j \in Place(Q, at, next[x]) .. Len(Q)
          BY <1>2, <3>1, <3>2, <4>1, <4>3
        <5>2. R[j] = Q[j] /\ Q[j] \in Entries /\ pos[x] < pos[Q[j]]
          BY <1>2, <3>2, <5>1
        <5>3. Q[j] # n
          BY <1>4, <3>1, <5>2
        <5>4. qos[R[j]] = pos[Q[j]]
          BY <1>2, <5>2, <5>3
        <5> QED BY <3>1, <5>2, <5>4
      <4> QED BY <4>2, <4>3
    <3> QED BY <1>2, <3>1, <3>2, <3>3, <3>6, <3>7
  <2> QED BY <2>1, <2>2, <2>3
<1>9. Forward(R, bt, qos)'
  <2>1. \A x \in Entries : Place(R, bt, next[x])' = Place(R, bt, next'[x])
    BY DEF Place
  <2> QED BY <1>8, <2>1 DEF Forward
<1>10. AtFront(R, bt, qos, front)'
  <2>1. ASSUME NEW x \in Entries, qos[x] > front PROVE x \notin deleted
    BY <1>1, <1>2, <1>6, <2>1 DEF AtFront
  <2>2. ASSUME NEW x \in Entries, qos[x] # 0, qos[x] <= front, x \notin deleted PROVE bt[x] = 1
    <3>1. x # n /\ pos[x] # 0 /\ pos[x] <= front
      BY <1>2, <1>4, <2>2
    <3>2. at[x] = 1
      BY <1>1, <2>2, <3>1 DEF AtFront
    <3> QED BY <1>2, <1>5, <3>1, <3>2
  <2>3. oldest # Null /\ oldest \in Entries /\ at[oldest] = 1 /\ pos[oldest] # 0 /\ pos[oldest] = front
    BY <1>1, <1>2, <1>5, Numbers DEF AtFront, Place
  <2>4. oldest # n /\ bt[oldest] = 1 /\ qos[oldest] = pos[oldest]
    BY <1>2, <1>5, <2>3
  <2>5. Place(R, bt, oldest)' = 1
    BY <2>3, <2>4 DEF Place
  <2> QED BY <2>1, <2>2, <2>3, <2>4, <2>5 DEF AtFront
<1>11. Q # <<>>
  BY <1>5
<1>12. GhostTypes(R, bt, qos, front, top + 1)'
  BY <1>2
<1>13. Links(R, bt, qos, front, top + 1)'
  BY <1>7, <1>9, <1>10, <1>12 DEF Links
<1> QED BY <1>11, <1>13 DEF R, bt, qos

\* An entry becomes the oldest one of an empty queue.
LEMMA LinksPushFirst ==
  ASSUME QueueTypes, NEW Q, NEW at, NEW pos, NEW front, NEW top,
         Links(Q, at, pos, front, top), NEW n \in Entries, pos[n] = 0,
         oldest = Null, oldest' = n, UNCHANGED <<next, deleted>>
  PROVE  Links(Append(Q, n), AtPush(Q, at, n), PosPush(pos, n, top), top + 1, top + 1)'
<1> DEFINE R == Append(Q, n)
           bt == AtPush(Q, at, n)
           qos == PosPush(pos, n, top)
<1>1. /\ GhostTypes(Q, at, pos, front, top) /\ Queued(Q, at, pos) /\ Forward(Q, at, pos)
      /\ AtFront(Q, at, pos, front) /\ next \in [Entries -> Places]
  BY DEF Links, QueueTypes
<1>2. /\ GhostTypes(R, bt, qos, top + 1, top + 1)
      /\ Len(Q) \in Nat /\ Len(R) = Len(Q) + 1 /\ R[Len(Q) + 1] = n
      /\ \A x \in Entries : /\ bt[x] = IF x = n THEN Len(Q) + 1
                                       ELSE IF at[x] = Len(Q) + 1 THEN Len(Q) + 2 ELSE at[x]
                            /\ qos[x] = IF x = n THEN top + 1 ELSE pos[x]
  BY <1>1, PushGhosts
<1> HIDE DEF R, bt, qos
<1>3. /\ at \in [Entries -> Nat] /\ pos \in [Entries -> Nat] /\ top \in Nat
      /\ \A x \in Entries : pos[x] # 0 => pos[x] <= top /\ at[x] \in 1 .. Len(Q) + 1
  BY <1>1 DEF GhostTypes
<1>4. Len(Q) = 0
  BY <1>1, <1>2 DEF AtFront, Place
<1>5. n \notin deleted /\ next[n] = Null
  BY <1>1 DEF Queued
<1>6. \A x \in Entries : x # n /\ qos[x] # 0 => x \in deleted /\ pos[x] # 0 /\ at[x] = 1 /\ bt[x] = 2
  BY <1>1, <1>2, <1>3, <1>4 DEF Queued
<1>7. Queued(R, bt, qos)'
  <2>1. ASSUME NEW i \in 1 .. Len(R)
        PROVE  qos[R[i]] # 0 /\ R[i] \notin deleted /\ bt[R[i]] = i
    <3>1. i = 1 /\ R[i] = n
      BY <1>2, <1>4
    <3> QED BY <1>2, <1>3, <1>4, <1>5, <3>1
  <2>2. ASSUME NEW x \in Entries, qos[x] # 0, x \notin deleted
        PROVE  bt[x] <= Len(R) /\ R[bt[x]] = x
    BY <1>2, <1>4, <1>6, <2>2
  <2>3. ASSUME NEW x \in Entries, qos[x] = 0 PROVE next[x] = Null /\ x \notin deleted
    BY <1>1, <1>2, <1>3, <2>3 DEF Queued
  <2> QED BY <2>1, <2>2, <2>3 DEF Queued
<1>8. ASSUME NEW x \in Entries, qos[x] # 0
      PROVE  /\ next[x] # Null => qos[x] < qos[next[x]]
             /\ Place(R, bt, next[x]) = IF x \in deleted THEN bt[x] ELSE bt[x] + 1
             /\ Place(R, bt, next[x]) = 2
  <2>1. CASE x = n
    BY <1>2, <1>4, <1>5, <2>1 DEF Place
  <2>2. CASE x # n
    <3>1. x \in deleted /\ pos[x] # 0 /\ bt[x] = 2 /\ qos[x] = pos[x] /\ next[x] \in Places
      BY <1>1, <1>2, <1>6, <1>8, <2>2
    <3>2. next[x] # Null => pos[x] < pos[next[x]]
      BY <1>1, <3>1 DEF Forward
    <3>3. next[x] # Null => next[x] \in Entries /\ next[x] # n /\ qos[next[x]] = pos[next[x]]
      BY <1>2, <1>3, <3>1, <3>2, Numbers
    <3>4. next[x] # Null => bt[next[x]] = 2
      BY <1>3, <1>6, <3>1, <3>2, <3>3
    <3> QED BY <1>2, <1>4, <3>1, <3>2, <3>3, <3>4 DEF Place
  <2> QED BY <2>1, <2>2
<1>9. Forward(R, bt, qos)'
  <2>1. \A x \in Entries : Place(R, bt, next[x])' = Place(R, bt, next[x])
    BY DEF Place
  <2>2. 2 .. Len(R) = {}
    BY <1>2, <1>4
  <2>3. deleted' = deleted /\ next' = next
    OBVIOUS
  <2> QED BY <1>8, <2>1, <2>2, <2>3 DEF Forward
<1>10. AtFront(R, bt, qos, top + 1)'
  <2>1. \A x \in Entries : ~ (qos[x] > top + 1)
    BY <1>2, <1>3
  <2>2. bt[n] = 1 /\ qos[n] = top + 1 /\ top + 1 # 0 /\ n # Null
    BY <1>2, <1>3, <1>4, Numbers
  <2>3. Place(R, bt, oldest)' = 1
    BY <2>2 DEF Place
  <2>4. \A x \in Entries : qos[x] # 0 /\ x \notin deleted => bt[x] = 1
    BY <1>6, <2>2
  <2> QED BY <2>1, <2>2, <2>3, <2>4 DEF AtFront
<1>11. GhostTypes(R, bt, qos, top + 1, top + 1)'
  BY <1>2
<1>12. Links(R, bt, qos, top + 1, top + 1)'
  BY <1>7, <1>9, <1>10, <1>11 DEF Links
<1> QED BY <1>12 DEF R, bt, qos

\* A pop deletes an entry that has been oldest: it is the first of the queue.
LEMMA LinksPop ==
  ASSUME QueueTypes, NEW Q, NEW at, NEW pos, NEW front, NEW top,
         Links(Q, at, pos, front, top), NEW e \in Entries, pos[e] # 0, pos[e] <= front,
         e \notin deleted, deleted' = deleted \cup {e}, UNCHANGED <<oldest, next>>
  PROVE  /\ Links(Tail(Q), AtPop(at), pos, front, top)'
         /\ Q # <<>> /\ Head(Q) = e
<1> DEFINE R == Tail(Q)
           bt == AtPop(at)
<1>1. /\ GhostTypes(Q, at, pos, front, top) /\ Queued(Q, at, pos) /\ Forward(Q, at, pos)
      /\ AtFront(Q, at, pos, front) /\ next \in [Entries -> Places] /\ oldest \in Places
  BY DEF Links, QueueTypes
<1>2. /\ Q \in Seq(Entries) /\ at \in [Entries -> Nat] /\ pos \in [Entries -> Nat]
      /\ front \in Nat /\ top \in Nat /\ front <= top /\ Len(Q) \in Nat
      /\ \A x \in Entries : pos[x] # 0 => pos[x] <= top /\ at[x] \in 1 .. Len(Q) + 1
  BY <1>1 DEF GhostTypes
<1>3. at[e] = 1 /\ Len(Q) >= 1 /\ Q[1] = e
  BY <1>1, <1>2 DEF AtFront, Queued
<1>4. Q # <<>> /\ Head(Q) = e
  BY <1>2, <1>3
<1>5. /\ R \in Seq(Entries) /\ Len(R) = Len(Q) - 1
      /\ \A i \in 1 .. Len(R) : R[i] = Q[i + 1] /\ Q[i + 1] \in Entries
  BY <1>2, <1>4
<1> DEFINE m == Len(Q)
           k == Len(R)
<1>a. m \in Nat /\ k \in Nat /\ k = m - 1 /\ m = Len(Q) /\ k = Len(R)
  BY <1>2, <1>3, <1>5
<1>6. bt \in [Entries -> Nat] /\ \A x \in Entries : bt[x] = IF at[x] > 1 THEN at[x] - 1 ELSE at[x]
  BY <1>2 DEF AtPop
<1> HIDE DEF R, bt, m, k
<1>7. GhostTypes(R, bt, pos, front, top)'
  <2>1. ASSUME NEW x \in Entries, pos[x] # 0 PROVE bt[x] \in 1 .. Len(R) + 1
    <3>1. at[x] \in 1 .. m + 1 /\ bt[x] = IF at[x] > 1 THEN at[x] - 1 ELSE at[x]
      BY <1>2, <1>a, <1>6, <2>1
    <3>2. bt[x] \in 1 .. k + 1
      BY <1>a, <3>1
    <3> QED BY <1>a, <3>2
  <2> QED BY <1>2, <1>5, <1>6, <2>1 DEF GhostTypes
<1>8. \A x \in Entries : pos[x] # 0 /\ x \notin deleted' =>
        x # e /\ x \notin deleted /\ at[x] \in 2 .. Len(Q) /\ Q[at[x]] = x /\ bt[x] = at[x] - 1
  BY <1>1, <1>2, <1>3, <1>6 DEF Queued
<1>9. Queued(R, bt, pos)'
  <2>1. ASSUME NEW i \in 1 .. Len(R)
        PROVE  pos[R[i]] # 0 /\ R[i] \notin deleted' /\ bt[R[i]] = i
    <3>0. i \in 1 .. k
      BY <1>a
    <3>1. i + 1 \in 1 .. Len(Q) /\ i # 0 /\ R[i] = Q[i + 1] /\ Q[i + 1] \in Entries
      BY <1>a, <1>5, <3>0
    <3>2. pos[Q[i + 1]] # 0 /\ Q[i + 1] \notin deleted /\ at[Q[i + 1]] = i + 1
      BY <1>1, <3>1 DEF Queued
    <3>3. Q[i + 1] # e
      BY <1>3, <3>1, <3>2
    <3> QED BY <1>6, <3>1, <3>2, <3>3
  <2>2. ASSUME NEW x \in Entries, pos[x] # 0, x \notin deleted'
        PROVE  bt[x] <= Len(R) /\ R[bt[x]] = x
    <3>1. at[x] \in 2 .. Len(Q) /\ Q[at[x]] = x /\ bt[x] = at[x] - 1
      BY <1>8, <2>2
    <3>2. bt[x] \in 1 .. k /\ bt[x] + 1 = at[x]
      BY <1>a, <3>1
    <3> QED BY <1>5, <1>a, <3>1, <3>2
  <2>3. ASSUME NEW x \in Entries, pos[x] = 0 PROVE next[x] = Null /\ x \notin deleted'
    BY <1>1, <2>3 DEF Queued
  <2> QED BY <2>1, <2>2, <2>3 DEF Queued
<1>10. ASSUME NEW x \in Entries, pos[x] # 0
       PROVE  /\ next[x] # Null => pos[x] < pos[next[x]]
              /\ Place(R, bt, next[x]) = IF x \in deleted' THEN bt[x] ELSE bt[x] + 1
              /\ \A j \in Place(R, bt, next[x]) .. Len(R) : pos[x] < pos[R[j]]
  <2>1. /\ next[x] # Null => pos[x] < pos[next[x]]
        /\ Place(Q, at, next[x]) = IF x \in deleted THEN at[x] ELSE at[x] + 1
        /\ \A j \in Place(Q, at, next[x]) .. Len(Q) : pos[x] < pos[Q[j]]
    BY <1>1, <1>10 DEF Forward
  <2>2. next[x] # Null => next[x] \in Entries
    BY <1>1, Numbers
  <2>3. at[x] \in 1 .. Len(Q) + 1 /\ Place(Q, at, next[x]) \in Nat /\ Place(Q, at, next[x]) >= 1
    BY <1>2, <1>10, <2>1
  <2>4. Place(R, bt, next[x]) =
          IF Place(Q, at, next[x]) > 1 THEN Place(Q, at, next[x]) - 1 ELSE Place(Q, at, next[x])
    <3>1. CASE next[x] = Null
      BY <1>3, <1>a, <3>1 DEF Place
    <3>2. CASE next[x] # Null
      BY <1>6, <2>2, <3>2 DEF Place
    <3> QED BY <3>1, <3>2
  <2>5. Place(R, bt, next[x]) = IF x \in deleted' THEN bt[x] ELSE bt[x] + 1
    <3>1. CASE x = e
      BY <1>3, <1>6, <2>1, <2>4, <3>1
    <3>2. CASE x \in deleted
      BY <1>6, <2>1, <2>4, <3>2
    <3>3. CASE x # e /\ x \notin deleted
      BY <1>8, <1>10, <2>1, <2>3, <2>4, <3>3
    <3> QED BY <3>1, <3>2, <3>3
  <2>6. ASSUME NEW j \in Place(R, bt, next[x]) .. Len(R) PROVE pos[x] < pos[R[j]]
    <3>1. j \in 1 .. Len(R) /\ j + 1 \in Place(Q, at, next[x]) .. Len(Q)
      BY <1>2, <1>5, <2>3, <2>4
    <3> QED BY <1>5, <2>1, <3>1
  <2> QED BY <2>1, <2>5, <2>6
<1>11. Forward(R, bt, pos)'
  <2>1. \A x \in Entries : Place(R, bt, next[x])' = Place(R, bt, next[x])
    BY DEF Place
  <2>2. next' = next
    OBVIOUS
  <2> QED BY <1>10, <2>1, <2>2 DEF Forward
<1>12. AtFront(R, bt, pos, front)'
  <2>1. \A x \in Entries : pos[x] > front => x \notin deleted'
    BY <1>1, <1>2 DEF AtFront
  <2>2. \A x \in Entries : pos[x] # 0 /\ x \notin deleted' => ~ (pos[x] <= front)
    BY <1>1, <1>8 DEF AtFront
  <2>3. oldest # Null /\ oldest \in Entries /\ at[oldest] = 1 /\ pos[oldest] # 0 /\ pos[oldest] = front
    BY <1>1, <1>2, <1>3, Numbers DEF AtFront, Place
  <2>4. Place(R, bt, oldest)' = 1
    BY <1>6, <2>3 DEF Place
  <2> QED BY <2>1, <2>2, <2>3, <2>4 DEF AtFront
<1>13. Links(R, bt, pos, front, top)'
  BY <1>7, <1>9, <1>11, <1>12 DEF Links
<1> QED BY <1>4, <1>13 DEF R, bt

-----------------------------------------------------------------------------
(* How the steps change what the threads know                               *)

\* A step of t leaves what other threads have alone.
Frame(t) ==
  \A u \in Threads \ {t} :
    /\ pc'[u] = pc[u] /\ ptr'[u] = ptr[u] /\ found'[u] = found[u]
    /\ succ'[u] = succ[u] /\ new'[u] = new[u]

\* It allocates the next entry, or has the one it had, or none.
Fresh(t) ==
  \/ new'[t] \in {Null, new[t]} /\ alloc' = alloc
  \/ new'[t] = alloc + 1 /\ alloc' = alloc + 1

\* The ranks of linked entries do not change, and only the entry of t is linked.
Grows(t, pos, pos2) ==
  /\ pos2 \in [Entries -> Nat]
  /\ \A x \in Entries : pos2[x] = pos[x] \/ (pos[x] = 0 /\ x = new[t])

\* What the other threads know remains true.
LEMMA OthersKeep ==
  ASSUME QueueTypes, NEW Q, NEW at, NEW pos, NEW front, NEW top,
         Links(Q, at, pos, front, top), Locals(Q, at, pos, front),
         NEW Q2, NEW at2, NEW pos2, NEW front2,
         NEW t \in Threads, NEW u \in Threads \ {t}, Frame(t), Fresh(t), Grows(t, pos, pos2),
         front2 \in Nat, front <= front2, deleted \subseteq deleted',
         pc[u] = "clean_cas" /\ oldest' = found[u] => Place(Q2, at2, succ[u]) = 1
  PROVE  Own(u, Q2, at2, pos2, front2)'
<1>1. Pointers(u, pos, front) /\ Cleaning(u, Q, at, pos) /\ Pushing(u, pos)
  BY DEF Locals, Own
<1>2. pos \in [Entries -> Nat] /\ front \in Nat
  BY DEF Links, GhostTypes
<1>3. /\ pc'[u] = pc[u] /\ ptr'[u] = ptr[u] /\ found'[u] = found[u]
      /\ succ'[u] = succ[u] /\ new'[u] = new[u]
  BY DEF Frame
<1>4. ptr[u] \in Places /\ found[u] \in Places /\ succ[u] \in Places /\ new[u] \in Places
  BY DEF QueueTypes
<1>5. \A x \in Places : x # Null => x \in Entries
  BY Numbers
<1>6. \A x \in Entries : pos[x] # 0 => pos2[x] = pos[x]
  BY DEF Grows
<1>7. Pointers(u, pos2, front2)'
  <2>1. ptr[u] # Null => pos2[ptr[u]] # 0 /\ pos2[ptr[u]] = pos[ptr[u]]
    BY <1>1, <1>4, <1>5, <1>6 DEF Pointers
  <2>2. found[u] # Null => pos2[found[u]] # 0 /\ pos2[found[u]] <= front2
    BY <1>1, <1>2, <1>4, <1>5, <1>6 DEF Pointers
  <2>3. succ[u] # Null => pos2[succ[u]] # 0
    BY <1>1, <1>4, <1>5, <1>6 DEF Pointers
  <2>4. pc[u] = "pop" => ptr[u] # Null /\ pos2[ptr[u]] <= front2
    BY <1>1, <1>2, <1>4, <1>5, <2>1 DEF Pointers
  <2> QED BY <1>3, <2>1, <2>2, <2>3, <2>4 DEF Pointers
<1>8. Cleaning(u, Q2, at2, pos2)'
  <2>1. Place(Q2, at2, succ[u])' = Place(Q2, at2, succ[u])
    BY <1>3 DEF Place
  <2>2. pc[u] = "clean_next" => found[u] # Null
    BY <1>1 DEF Cleaning
  <2>3. ASSUME pc[u] = "clean_cas"
        PROVE  /\ found[u] # Null /\ found[u] \in deleted'
               /\ succ[u] # Null => pos2[found[u]] < pos2[succ[u]]
    <3>1. /\ found[u] # Null /\ found[u] \in deleted
          /\ succ[u] # Null => pos[found[u]] < pos[succ[u]]
      BY <1>1, <2>3 DEF Cleaning
    <3>2. pos2[found[u]] = pos[found[u]] /\ (succ[u] # Null => pos2[succ[u]] = pos[succ[u]])
      BY <1>1, <1>4, <1>5, <1>6, <3>1 DEF Pointers
    <3> QED BY <3>1, <3>2
  <2> QED BY <1>3, <2>1, <2>2, <2>3 DEF Cleaning
<1>9. Pushing(u, pos2)'
  <2>1. pc[u] \in PushedAt => new[u] # Null /\ pos2[new[u]] # 0
    BY <1>1, <1>4, <1>5, <1>6 DEF Pushing
  <2>2. pc[u] = "cas" => new[u] # Null
    BY <1>1 DEF Pushing
  <2>3. ASSUME pc[u] \notin PushedAt, new[u] # Null PROVE pos2[new[u]] = 0 /\ new[u] <= alloc'
    <3>1. pos[new[u]] = 0 /\ new[u] <= alloc /\ new[u] \in Entries
      BY <1>1, <1>4, <1>5, <2>3 DEF Pushing
    <3>2. new[u] # new[t]
      BY <2>3 DEF Locals
    <3>3. alloc \in Nat /\ alloc <= alloc' /\ new[u] \in Nat /\ alloc' \in Nat
      BY <3>1, Numbers DEF Fresh, QueueTypes
    <3> QED BY <3>1, <3>2, <3>3 DEF Grows
  <2> QED BY <1>3, <2>1, <2>2, <2>3 DEF Pushing
<1> QED BY <1>7, <1>8, <1>9 DEF Own

\* What all threads know remains true, if what t knows does.
LEMMA LocalsKeep ==
  ASSUME QueueTypes, QueueTypes', NEW Q, NEW at, NEW pos, NEW front, NEW top,
         Links(Q, at, pos, front, top), Locals(Q, at, pos, front),
         NEW Q2, NEW at2, NEW pos2, NEW front2,
         NEW t \in Threads, Frame(t), Fresh(t), Grows(t, pos, pos2),
         front2 \in Nat, front <= front2, deleted \subseteq deleted',
         \A u \in Threads \ {t} :
           pc[u] = "clean_cas" /\ oldest' = found[u] => Place(Q2, at2, succ[u]) = 1,
         Own(t, Q2, at2, pos2, front2)', newest' # Null => pos2[newest'] # 0
  PROVE  Locals(Q2, at2, pos2, front2)'
<1>1. ASSUME NEW u \in Threads PROVE Own(u, Q2, at2, pos2, front2)'
  <2>1. CASE u = t
    BY <2>1
  <2>2. CASE u # t
    <3>1. pc[u] = "clean_cas" /\ oldest' = found[u] => Place(Q2, at2, succ[u]) = 1
      BY <2>2
    <3> QED BY <2>2, <3>1, OthersKeep
  <2> QED BY <2>1, <2>2
<1>2. alloc \in Nat /\ alloc' \in Nat /\ alloc <= alloc' /\ MaxEntries \in Nat
  BY Numbers DEF QueueTypes, Fresh
<1>3. \A u \in Threads : new[u] # Null => new[u] \in Entries /\ new[u] \in Nat /\ new[u] <= alloc
  <2>1. ASSUME NEW u \in Threads, new[u] # Null
        PROVE  new[u] \in Entries /\ new[u] \in Nat /\ new[u] <= alloc
    <3>1. new[u] \in Entries /\ new[u] \in Nat
      BY <2>1, Numbers DEF QueueTypes
    <3>2. Pushing(u, pos)
      BY DEF Locals, Own
    <3>3. pos[new[u]] # 0 => new[u] <= alloc
      BY <3>1 DEF Locals
    <3> QED BY <2>1, <3>1, <3>2, <3>3 DEF Pushing
  <2> QED BY <2>1
<1>4. ASSUME NEW v \in Threads, NEW u \in Threads, v # u, new'[v] = new'[u] PROVE new'[v] = Null
  <2>1. \A w \in Threads : w # t => new'[w] = new[w]
    BY DEF Frame
  <2>2. \A w \in Threads : w # t /\ new[w] = new[t] => new[w] = Null
    BY DEF Locals
  <2>3. CASE v # t /\ u # t
    BY <1>4, <2>1, <2>3 DEF Locals
  <2>4. ASSUME NEW w \in Threads \ {t}, new[w] = new'[t] PROVE new[w] = Null
    BY <1>2, <1>3, <2>2, <2>4 DEF Fresh
  <2> QED BY <1>4, <2>1, <2>3, <2>4
<1>5. ASSUME NEW x \in Entries, pos2[x] # 0 PROVE x <= alloc'
  <2>1. x \in Nat /\ x # 0 /\ x # Null
    BY Numbers
  <2>2. CASE pos2[x] = pos[x]
    <3>1. x <= alloc
      BY <1>5, <2>2 DEF Locals
    <3> QED BY <1>2, <2>1, <3>1
  <2>3. CASE x = new[t]
    BY <1>2, <1>3, <2>1, <2>3
  <2> QED BY <1>5, <2>2, <2>3 DEF Grows
<1> QED BY <1>1, <1>4, <1>5 DEF Locals

-----------------------------------------------------------------------------
(* The steps                                                                *)

\* A step leaves the queue as it is, puts an entry at its end or deletes its first one.
Effect(Q, Q2) ==
  \/ Q2 = Q /\ deleted' = deleted
  \/ deleted' = deleted /\ \E v \in Entries : Q2 = Append(Q, v)
  \/ Q # <<>> /\ Q2 = Tail(Q) /\ deleted' = deleted \cup {Head(Q)}

Follows(Q) ==
  /\ QueueTypes'
  /\ \E Q2, at2, pos2, front2, top2 : Placed(Q2, at2, pos2, front2, top2)' /\ Effect(Q, Q2)

LocalTypes ==
  /\ pc \in [Threads -> {"idle"} \cup PushAt \cup PushedAt \cup PopAt \cup CleanAt]
  /\ op \in [Threads -> Operations \cup {"none"}]
  /\ ptr \in [Threads -> Places] /\ found \in [Threads -> Places]
  /\ succ \in [Threads -> Places] /\ new \in [Threads -> Places]

\* A step that does not change what is reached from the entries.
LEMMA QuietStep ==
  ASSUME QueueTypes, LocalTypes', newest' \in Places, NEW Q, NEW at, NEW pos, NEW front, NEW top,
         Links(Q, at, pos, front, top), Locals(Q, at, pos, front),
         Links(Q, at, pos, front, top)', next' \in [Entries -> Places],
         UNCHANGED <<oldest, deleted>>, NEW t \in Threads, Frame(t),
         Fresh(t), alloc' \in 0 .. MaxEntries,
         Own(t, Q, at, pos, front)', newest' # Null => pos[newest'] # 0
  PROVE  Follows(Q)
<1>1. QueueTypes'
  BY DEF QueueTypes, LocalTypes
<1>2. pos \in [Entries -> Nat] /\ front \in Nat
  BY DEF Links, GhostTypes
<1>3. Grows(t, pos, pos) /\ front <= front
  BY <1>2 DEF Grows
<1>4. ASSUME NEW u \in Threads \ {t}, pc[u] = "clean_cas", oldest' = found[u]
      PROVE  Place(Q, at, succ[u]) = 1
  <2>1. Cleaning(u, Q, at, pos)
    BY DEF Locals, Own
  <2> QED BY <1>4, <2>1 DEF Cleaning
<1>5. Locals(Q, at, pos, front)'
  BY <1>1, <1>2, <1>3, <1>4, LocalsKeep
<1>6. Placed(Q, at, pos, front, top)'
  BY <1>5 DEF Placed
<1>7. Effect(Q, Q)
  BY DEF Effect
<1> QED BY <1>1, <1>6, <1>7 DEF Follows

\* A step that does not change the links or the queue.
LEMMA LocalStep ==
  ASSUME QueueTypes, LocalTypes', newest' \in Places, NEW Q, NEW at, NEW pos, NEW front, NEW top,
         Links(Q, at, pos, front, top), Locals(Q, at, pos, front),
         UNCHANGED <<oldest, next, deleted>>, NEW t \in Threads, Frame(t),
         Fresh(t), alloc' \in 0 .. MaxEntries,
         Own(t, Q, at, pos, front)', newest' # Null => pos[newest'] # 0
  PROVE  Follows(Q)
<1>1. Links(Q, at, pos, front, top)'
  BY DEF Links, GhostTypes, Queued, Forward, AtFront, Place
<1>2. next' \in [Entries -> Places]
  BY DEF QueueTypes
<1> QED BY <1>1, <1>2, QuietStep

\* A thread that returns has nothing to know.
LEMMA DoneKnows ==
  ASSUME QueueTypes, NEW t \in Threads, Done(t), NEW Q, NEW at, NEW pos, NEW front
  PROVE  /\ LocalTypes' /\ Frame(t) /\ new'[t] = Null /\ Own(t, Q, at, pos, front)'
         /\ pc'[t] = "idle"
<1>1. LocalTypes'
  BY DEF QueueTypes, LocalTypes, Done, Goto, Places
<1>2. /\ pc'[t] = "idle" /\ ptr'[t] = Null /\ found'[t] = Null /\ succ'[t] = Null
      /\ new'[t] = Null
  BY DEF QueueTypes, Done, Goto
<1>3. Frame(t)
  BY DEF QueueTypes, Done, Goto, Frame
<1>4. Own(t, Q, at, pos, front)'
  BY <1>2 DEF Own, Pointers, Cleaning, Pushing, PushedAt
<1> QED BY <1>1, <1>2, <1>3, <1>4

\* What cleanup_oldest returns has been oldest.
LEMMA ReturnsKnows ==
  ASSUME QueueTypes, NEW t \in Threads, NEW e \in Places, CleanReturns(t, e),
         NEW Q, NEW at, NEW pos, NEW front, pc[t] \in CleanAt, Pushing(t, pos),
         e # Null => pos[e] # 0 /\ pos[e] <= front, alloc' = alloc
  PROVE  LocalTypes' /\ Frame(t) /\ Fresh(t) /\ Own(t, Q, at, pos, front)'
<1>1. CASE Done(t)
  BY <1>1, DoneKnows DEF Fresh
<1>2. CASE ~ Done(t)
  <2> DEFINE more == IF op[t] = "iter" THEN "iter" ELSE IF op[t] = "peek" THEN "peek" ELSE "pop"
  <2>1. /\ SetPtr(t, e) /\ Goto(t, more)
        /\ found' = [found EXCEPT ![t] = Null] /\ succ' = [succ EXCEPT ![t] = Null]
        /\ UNCHANGED <<op, new>>
        /\ op[t] # "iter" => e # Null
    BY <1>2 DEF CleanReturns
  <2>2. more \in PopAt /\ (more = "pop" => e # Null) /\ more # "clean_next" /\ more # "clean_cas"
    BY <2>1 DEF PopAt
  <2> HIDE DEF more
  <2>3. LocalTypes'
    BY <2>1, <2>2 DEF QueueTypes, LocalTypes, SetPtr, Goto, Places
  <2>4. /\ pc'[t] = more /\ ptr'[t] = e /\ found'[t] = Null /\ succ'[t] = Null /\ new'[t] = new[t]
    BY <2>1 DEF QueueTypes, SetPtr, Goto
  <2>5. Frame(t) /\ Fresh(t)
    BY <2>1, <2>4 DEF QueueTypes, SetPtr, Goto, Frame, Fresh
  <2>6. more \notin PushedAt /\ more # "cas" /\ pc[t] \notin PushedAt
    BY <2>2 DEF PushedAt, PopAt, CleanAt
  <2>7. Pointers(t, pos, front)' /\ Cleaning(t, Q, at, pos)'
    BY <2>2, <2>4 DEF Pointers, Cleaning
  <2>8. Pushing(t, pos)'
    BY <2>4, <2>6 DEF Pushing
  <2> QED BY <2>3, <2>5, <2>7, <2>8 DEF Own
<1> QED BY <1>1, <1>2

\* An operation begins.
LEMMA StepBegin ==
  ASSUME QueueTypes, NEW Q, NEW at, NEW pos, NEW front, NEW top,
         Links(Q, at, pos, front, top), Locals(Q, at, pos, front), NEW t \in Threads,
         BeginPush(t) \/ BeginPop(t) \/ BeginIter(t)
  PROVE  Follows(Q)
<1>1. /\ Own(t, Q, at, pos, front) /\ Pointers(t, pos, front) /\ Cleaning(t, Q, at, pos)
      /\ Pushing(t, pos) /\ (newest # Null => pos[newest] # 0) /\ newest \in Places
      /\ AtFront(Q, at, pos, front) /\ alloc \in 0 .. MaxEntries /\ alloc' = alloc
  BY DEF Locals, Own, Links, QueueTypes, BeginPush, BeginPop, BeginIter, Begin
<1>2. PICK o \in Operations, l \in {"newest", "current", "clean"} : Begin(t, o, l)
  BY DEF BeginPush, BeginPop, BeginIter, Operations
<1>3. /\ pc[t] = "idle" /\ op' = [op EXCEPT ![t] = o] /\ pc' = [pc EXCEPT ![t] = l]
      /\ UNCHANGED <<oldest, newest, next, deleted, ptr, found, succ, new>>
  BY <1>2 DEF Begin, Goto, shared, local
<1>4. LocalTypes' /\ Frame(t) /\ Fresh(t) /\ pc'[t] = l
  BY <1>1, <1>3 DEF QueueTypes, LocalTypes, Frame, Fresh, PushAt, PopAt, CleanAt
<1>5. Own(t, Q, at, pos, front)'
  BY <1>1, <1>3, <1>4 DEF Own, Pointers, Cleaning, Pushing, PushedAt
<1> QED BY <1>1, <1>3, <1>4, <1>5, LocalStep

\* A push loads newest or oldest.
LEMMA StepLoad ==
  ASSUME QueueTypes, NEW Q, NEW at, NEW pos, NEW front, NEW top,
         Links(Q, at, pos, front, top), Locals(Q, at, pos, front), NEW t \in Threads,
         LoadNewest(t) \/ LoadOldest(t)
  PROVE  Follows(Q)
<1>1. /\ Own(t, Q, at, pos, front) /\ Pointers(t, pos, front) /\ Cleaning(t, Q, at, pos)
      /\ Pushing(t, pos) /\ (newest # Null => pos[newest] # 0) /\ newest \in Places
      /\ AtFront(Q, at, pos, front) /\ alloc \in 0 .. MaxEntries /\ alloc' = alloc
  BY DEF Locals, Own, Links, QueueTypes, LoadNewest, LoadOldest
<1>2. PICK e \in Places, l \in {"oldest", "traverse"} :
        /\ e \in {newest, oldest} /\ ptr' = [ptr EXCEPT ![t] = e] /\ pc' = [pc EXCEPT ![t] = l]
        /\ pc[t] \in {"newest", "oldest"}
        /\ UNCHANGED <<oldest, newest, next, deleted, op, found, succ, new>>
  BY DEF LoadNewest, LoadOldest, SetPtr, Goto, shared, QueueTypes
<1>3. e # Null => pos[e] # 0
  BY <1>1, <1>2 DEF AtFront
<1>4. LocalTypes' /\ Frame(t) /\ Fresh(t) /\ pc'[t] = l /\ ptr'[t] = e
  BY <1>1, <1>2 DEF QueueTypes, LocalTypes, Frame, Fresh, PushAt
<1>5. Own(t, Q, at, pos, front)'
  BY <1>1, <1>2, <1>3, <1>4 DEF Own, Pointers, Cleaning, Pushing, PushedAt
<1> QED BY <1>1, <1>2, <1>4, <1>5, LocalStep

\* The entry is allocated, or the condition of push_if does not hold.
LEMMA StepCond ==
  ASSUME QueueTypes, NEW Q, NEW at, NEW pos, NEW front, NEW top,
         Links(Q, at, pos, front, top), Locals(Q, at, pos, front), NEW t \in Threads,
         Cond(t)
  PROVE  Follows(Q)
<1>1. /\ Own(t, Q, at, pos, front) /\ Pointers(t, pos, front) /\ Cleaning(t, Q, at, pos)
      /\ Pushing(t, pos) /\ (newest # Null => pos[newest] # 0) /\ newest \in Places
      /\ AtFront(Q, at, pos, front) /\ alloc \in 0 .. MaxEntries
  BY DEF Locals, Own, Links, QueueTypes
<1>2. pc[t] = "cond" /\ UNCHANGED <<oldest, newest, next, deleted>>
  BY DEF Cond, shared
<1>3. CASE Done(t) /\ alloc' = alloc
  BY <1>1, <1>2, <1>3, DoneKnows, LocalStep DEF Fresh
<1>4. CASE /\ new[t] # Null \/ alloc < MaxEntries
           /\ alloc' = IF new[t] = Null THEN alloc + 1 ELSE alloc
           /\ new' = [new EXCEPT ![t] = IF @ = Null THEN alloc' ELSE @]
           /\ Goto(t, "cas")
           /\ UNCHANGED <<op, ptr, found, succ>>
  <2>1. MaxEntries \in Nat /\ alloc \in Nat /\ alloc + 1 # Null /\ new[t] \in Places
    BY <1>1, Numbers DEF QueueTypes
  <2>2. /\ alloc' \in 0 .. MaxEntries /\ Fresh(t) /\ pc'[t] = "cas"
        /\ new'[t] = IF new[t] = Null THEN alloc + 1 ELSE new[t]
    BY <1>1, <1>4, <2>1 DEF Fresh, QueueTypes, Goto
  <2>3. new'[t] \in Entries
    BY <1>1, <1>4, <2>1, <2>2, Numbers DEF Entries
  <2>4. LocalTypes' /\ Frame(t)
    BY <1>4, <2>2, <2>3 DEF QueueTypes, LocalTypes, Frame, Goto, PushAt, Places
  <2>5. pos[new'[t]] = 0 /\ new'[t] <= alloc'
    <3>1. CASE new[t] = Null
      <4>1. new'[t] = alloc + 1 /\ alloc' = alloc + 1 /\ alloc + 1 \in Entries
        BY <1>4, <2>2, <2>3, <3>1
      <4>2. pos[alloc + 1] = 0
        BY <2>1, <4>1 DEF Locals
      <4> QED BY <2>1, <4>1, <4>2
    <3>2. CASE new[t] # Null
      BY <1>1, <1>2, <1>4, <2>2, <3>2 DEF Pushing, PushedAt
    <3> QED BY <3>1, <3>2
  <2>6. Own(t, Q, at, pos, front)'
    <3>1. ptr'[t] = ptr[t] /\ found'[t] = found[t] /\ succ'[t] = succ[t] /\ new'[t] # Null
      BY <1>4, <2>3, Numbers
    <3> QED BY <1>1, <2>2, <2>5, <3>1 DEF Own, Pointers, Cleaning, Pushing, PushedAt
  <2> QED BY <1>1, <1>2, <2>2, <2>4, <2>6, LocalStep
<1> QED BY <1>3, <1>4 DEF Cond

\* After its exchange, a push sets newest and looks at oldest.
LEMMA StepNewest ==
  ASSUME QueueTypes, NEW Q, NEW at, NEW pos, NEW front, NEW top,
         Links(Q, at, pos, front, top), Locals(Q, at, pos, front), NEW t \in Threads,
         SwapNewest(t) \/ CheckOldest(t) \/ ResetNewest(t)
  PROVE  Follows(Q)
<1>1. /\ Own(t, Q, at, pos, front) /\ Pointers(t, pos, front) /\ Cleaning(t, Q, at, pos)
      /\ Pushing(t, pos) /\ (newest # Null => pos[newest] # 0) /\ newest \in Places
      /\ AtFront(Q, at, pos, front) /\ alloc \in 0 .. MaxEntries /\ alloc' = alloc
  BY DEF Locals, Own, Links, QueueTypes, SwapNewest, CheckOldest, ResetNewest
<1>2. /\ UNCHANGED <<oldest, next, deleted>> /\ pc[t] \in PushedAt
      /\ newest' \in {newest, Null, new[t]}
  BY DEF SwapNewest, CheckOldest, ResetNewest, shared, PushedAt
<1>3. newest' \in Places /\ (newest' # Null => pos[newest'] # 0)
  BY <1>1, <1>2 DEF Pushing, QueueTypes, Places
<1>4. CASE Done(t)
  BY <1>1, <1>2, <1>3, <1>4, DoneKnows, LocalStep DEF Fresh
<1>5. ASSUME ~ Done(t) PROVE Follows(Q)
  <2>1. PICK l \in {"check", "reset"} : pc' = [pc EXCEPT ![t] = l] /\ UNCHANGED <<op, ptr, found, succ, new>>
    BY <1>5 DEF SwapNewest, CheckOldest, ResetNewest, Goto, local
  <2>2. LocalTypes' /\ Frame(t) /\ Fresh(t) /\ pc'[t] = l
    BY <1>1, <2>1 DEF QueueTypes, LocalTypes, Frame, Fresh, PushedAt
  <2>3. Own(t, Q, at, pos, front)'
    BY <1>1, <1>2, <2>1, <2>2 DEF Own, Pointers, Cleaning, Pushing, PushedAt
  <2> QED BY <1>1, <1>2, <1>3, <2>2, <2>3, LocalStep
<1> QED BY <1>4, <1>5

\* A pop or a peek loads oldest.
LEMMA StepCurrent ==
  ASSUME QueueTypes, NEW Q, NEW at, NEW pos, NEW front, NEW top,
         Links(Q, at, pos, front, top), Locals(Q, at, pos, front), NEW t \in Threads,
         LoadCurrent(t)
  PROVE  Follows(Q)
<1>1. /\ Own(t, Q, at, pos, front) /\ Pointers(t, pos, front) /\ Cleaning(t, Q, at, pos)
      /\ Pushing(t, pos) /\ (newest # Null => pos[newest] # 0) /\ newest \in Places
      /\ AtFront(Q, at, pos, front) /\ alloc \in 0 .. MaxEntries /\ alloc' = alloc
  BY DEF Locals, Own, Links, QueueTypes, LoadCurrent
<1>2. pc[t] = "current" /\ UNCHANGED <<oldest, newest, next, deleted>>
  BY DEF LoadCurrent, shared
<1>3. CASE oldest = Null
  <2>1. Done(t)
    BY <1>3 DEF LoadCurrent
  <2> QED BY <1>1, <1>2, <2>1, DoneKnows, LocalStep DEF Fresh
<1>4. CASE oldest # Null
  <2>1. PICK l \in {"peek", "pop"} : pc' = [pc EXCEPT ![t] = l] /\ ptr' = [ptr EXCEPT ![t] = oldest]
                                     /\ UNCHANGED <<op, found, succ, new>>
    BY <1>4 DEF LoadCurrent, Goto, SetPtr
  <2>2. LocalTypes' /\ Frame(t) /\ Fresh(t) /\ pc'[t] = l /\ ptr'[t] = oldest
    BY <1>1, <2>1 DEF QueueTypes, LocalTypes, Frame, Fresh, PopAt
  <2>3. pos[oldest] # 0 /\ pos[oldest] <= front
    BY <1>1, <1>4 DEF AtFront, Links, GhostTypes
  <2>4. Own(t, Q, at, pos, front)'
    BY <1>1, <1>2, <1>4, <2>1, <2>2, <2>3 DEF Own, Pointers, Cleaning, Pushing, PushedAt
  <2> QED BY <1>1, <1>2, <2>2, <2>4, LocalStep
<1> QED BY <1>3, <1>4

\* A peek meets a deleted entry and cleans up, or returns.
LEMMA StepPeek ==
  ASSUME QueueTypes, NEW Q, NEW at, NEW pos, NEW front, NEW top,
         Links(Q, at, pos, front, top), Locals(Q, at, pos, front), NEW t \in Threads,
         PeekEntry(t)
  PROVE  Follows(Q)
<1>1. /\ Own(t, Q, at, pos, front) /\ Pointers(t, pos, front) /\ Cleaning(t, Q, at, pos)
      /\ Pushing(t, pos) /\ (newest # Null => pos[newest] # 0) /\ newest \in Places
      /\ AtFront(Q, at, pos, front) /\ alloc \in 0 .. MaxEntries /\ alloc' = alloc
  BY DEF Locals, Own, Links, QueueTypes, PeekEntry
<1>2. pc[t] = "peek" /\ UNCHANGED <<oldest, newest, next, deleted>>
  BY DEF PeekEntry, shared
<1>3. CASE Done(t)
  BY <1>1, <1>2, <1>3, DoneKnows, LocalStep DEF Fresh
<1>4. ASSUME ~ Done(t) PROVE Follows(Q)
  <2>1. pc' = [pc EXCEPT ![t] = "clean"] /\ UNCHANGED <<op, ptr, found, succ, new>>
    BY <1>4 DEF PeekEntry, Goto, local
  <2>2. LocalTypes' /\ Frame(t) /\ Fresh(t) /\ pc'[t] = "clean"
    BY <1>1, <2>1 DEF QueueTypes, LocalTypes, Frame, Fresh, CleanAt
  <2>3. Own(t, Q, at, pos, front)'
    BY <1>1, <1>2, <2>1, <2>2 DEF Own, Pointers, Cleaning, Pushing, PushedAt
  <2> QED BY <1>1, <1>2, <2>2, <2>3, LocalStep
<1> QED BY <1>3, <1>4

\* cleanup_oldest loads oldest; or, at its end, it resets newest.
LEMMA StepCleanLoad ==
  ASSUME QueueTypes, NEW Q, NEW at, NEW pos, NEW front, NEW top,
         Links(Q, at, pos, front, top), Locals(Q, at, pos, front), NEW t \in Threads,
         CleanLoad(t) \/ CleanReset(t)
  PROVE  Follows(Q)
<1>1. /\ Own(t, Q, at, pos, front) /\ Pointers(t, pos, front) /\ Cleaning(t, Q, at, pos)
      /\ Pushing(t, pos) /\ (newest # Null => pos[newest] # 0) /\ newest \in Places
      /\ AtFront(Q, at, pos, front) /\ alloc \in 0 .. MaxEntries /\ alloc' = alloc
  BY DEF Locals, Own, Links, QueueTypes, CleanLoad, CleanReset
<1>2. /\ pc[t] \in CleanAt /\ UNCHANGED <<oldest, next, deleted>>
      /\ newest' \in {newest, Null} /\ newest' \in Places
  BY <1>1 DEF CleanLoad, CleanReset, shared, CleanAt, Places
<1>3. CASE CleanReturns(t, Null)
  <2>1. Null \in Places
    BY DEF Places
  <2>2. LocalTypes' /\ Frame(t) /\ Fresh(t) /\ Own(t, Q, at, pos, front)'
    BY <1>1, <1>2, <1>3, <2>1, ReturnsKnows
  <2> QED BY <1>1, <1>2, <2>2, LocalStep
<1>4. ASSUME ~ CleanReturns(t, Null) PROVE Follows(Q)
  <2>1. /\ oldest # Null /\ found' = [found EXCEPT ![t] = oldest]
        /\ pc' = [pc EXCEPT ![t] = "clean_next"] /\ UNCHANGED <<op, ptr, succ, new>>
    BY <1>4 DEF CleanLoad, CleanReset, Goto
  <2>2. LocalTypes' /\ Frame(t) /\ Fresh(t) /\ pc'[t] = "clean_next" /\ found'[t] = oldest
    BY <1>1, <2>1 DEF QueueTypes, LocalTypes, Frame, Fresh, CleanAt
  <2>3. pos[oldest] # 0 /\ pos[oldest] <= front
    BY <1>1, <2>1 DEF AtFront, Links, GhostTypes
  <2>4. Own(t, Q, at, pos, front)'
    BY <1>1, <1>2, <2>1, <2>2, <2>3 DEF Own, Pointers, Cleaning, Pushing, PushedAt, CleanAt
  <2> QED BY <1>1, <1>2, <2>2, <2>4, LocalStep
<1> QED BY <1>3, <1>4

\* A push walks on to the next entry, or has come to the last one.
LEMMA StepTraverse ==
  ASSUME QueueTypes, NEW Q, NEW at, NEW pos, NEW front, NEW top,
         Links(Q, at, pos, front, top), Locals(Q, at, pos, front), NEW t \in Threads,
         Traverse(t)
  PROVE  Follows(Q)
<1>1. /\ Own(t, Q, at, pos, front) /\ Pointers(t, pos, front) /\ Cleaning(t, Q, at, pos)
      /\ Pushing(t, pos) /\ (newest # Null => pos[newest] # 0) /\ newest \in Places
      /\ AtFront(Q, at, pos, front) /\ alloc \in 0 .. MaxEntries /\ alloc' = alloc
  BY DEF Locals, Own, Links, QueueTypes, Traverse
<1> DEFINE e == ptr[t]
<1>2. pc[t] = "traverse" /\ UNCHANGED <<oldest, newest, deleted, op, found, succ, new>> /\ e \in Places
  BY DEF Traverse, QueueTypes
<1>3. CASE e = Null
  <2>1. next' = next /\ pc' = [pc EXCEPT ![t] = "cond"] /\ ptr' = ptr
    BY <1>3 DEF Traverse, Goto
  <2>2. LocalTypes' /\ Frame(t) /\ Fresh(t) /\ pc'[t] = "cond"
    BY <1>1, <1>2, <2>1 DEF QueueTypes, LocalTypes, Frame, Fresh, PushAt
  <2>3. Own(t, Q, at, pos, front)'
    BY <1>1, <1>2, <2>1, <2>2 DEF Own, Pointers, Cleaning, Pushing, PushedAt
  <2> QED BY <1>1, <1>2, <2>1, <2>2, <2>3, LocalStep
<1>4. CASE e # Null
  <2>1. e \in Entries /\ pos[e] # 0
    BY <1>1, <1>2, <1>4, Numbers DEF Pointers
  <2>2. next' = [next EXCEPT ![e] = NextPtr(e)]
    BY <1>4 DEF Traverse
  <2>3. /\ NextPtr(e) \in Places
        /\ NextPtr(e) # Null => pos[NextPtr(e)] # 0 /\ pos[e] < pos[NextPtr(e)]
    BY <2>1, NextIsAhead
  <2>4. Links(Q, at, pos, front, top)' /\ next' \in [Entries -> Places]
    <3>1. next' \in [Entries -> Places]
      BY <2>2, <2>3 DEF QueueTypes
    <3> HIDE DEF e
    <3>2. Links(Q, at, pos, front, top)'
      BY <1>2, <2>1, <2>2, LinksNext
    <3> QED BY <3>1, <3>2
  <2>5. PICK l \in {"traverse", "cond"}, q \in Places :
          /\ pc' = [pc EXCEPT ![t] = l] /\ ptr' = [ptr EXCEPT ![t] = q] /\ (q # Null => pos[q] # 0)
    <3>1. CASE NextPtr(e) # Null
      <4>1. pc' = [pc EXCEPT ![t] = "traverse"] /\ ptr' = [ptr EXCEPT ![t] = NextPtr(e)]
        BY <1>2, <1>4, <3>1 DEF Traverse, SetPtr, QueueTypes
      <4> QED BY <2>3, <4>1
    <3>2. CASE NextPtr(e) = Null
      <4>1. pc' = [pc EXCEPT ![t] = "cond"] /\ ptr' = [ptr EXCEPT ![t] = e]
        BY <1>2, <1>4, <3>2 DEF Traverse, Goto, QueueTypes
      <4> QED BY <1>2, <2>1, <4>1
    <3> QED BY <3>1, <3>2
  <2>6. LocalTypes' /\ Frame(t) /\ Fresh(t) /\ pc'[t] = l /\ ptr'[t] = q
    BY <1>1, <1>2, <2>5 DEF QueueTypes, LocalTypes, Frame, Fresh, PushAt
  <2>7. Own(t, Q, at, pos, front)'
    BY <1>1, <1>2, <2>5, <2>6 DEF Own, Pointers, Cleaning, Pushing, PushedAt
  <2> QED BY <1>1, <1>2, <2>4, <2>6, <2>7, QuietStep
<1> QED BY <1>3, <1>4

\* An iterator moves on, or is dropped.
LEMMA StepIter ==
  ASSUME QueueTypes, NEW Q, NEW at, NEW pos, NEW front, NEW top,
         Links(Q, at, pos, front, top), Locals(Q, at, pos, front), NEW t \in Threads,
         IterNext(t)
  PROVE  Follows(Q)
<1>1. /\ Own(t, Q, at, pos, front) /\ Pointers(t, pos, front) /\ Cleaning(t, Q, at, pos)
      /\ Pushing(t, pos) /\ (newest # Null => pos[newest] # 0) /\ newest \in Places
      /\ AtFront(Q, at, pos, front) /\ alloc \in 0 .. MaxEntries /\ alloc' = alloc
  BY DEF Locals, Own, Links, QueueTypes, IterNext
<1> DEFINE e == ptr[t]
<1>2. pc[t] = "iter" /\ UNCHANGED <<oldest, newest, deleted>> /\ e \in Places
  BY DEF IterNext, QueueTypes
<1>3. CASE Done(t) /\ next' = next
  BY <1>1, <1>2, <1>3, DoneKnows, LocalStep DEF Fresh
<1>4. CASE /\ e # Null /\ next' = [next EXCEPT ![e] = NextPtr(e)]
           /\ SetPtr(t, NextPtr(e)) /\ UNCHANGED <<pc, op, found, succ, new>>
  <2>1. e \in Entries /\ pos[e] # 0
    BY <1>1, <1>2, <1>4, Numbers DEF Pointers
  <2>2. next' = [next EXCEPT ![e] = NextPtr(e)]
    BY <1>4
  <2>3. /\ NextPtr(e) \in Places
        /\ NextPtr(e) # Null => pos[NextPtr(e)] # 0 /\ pos[e] < pos[NextPtr(e)]
    BY <2>1, NextIsAhead
  <2>4. Links(Q, at, pos, front, top)' /\ next' \in [Entries -> Places]
    <3>1. next' \in [Entries -> Places]
      BY <2>2, <2>3 DEF QueueTypes
    <3> HIDE DEF e
    <3>2. Links(Q, at, pos, front, top)'
      BY <1>2, <2>1, <2>2, LinksNext
    <3> QED BY <3>1, <3>2
  <2>5. LocalTypes' /\ Frame(t) /\ Fresh(t) /\ ptr'[t] = NextPtr(e)
    BY <1>1, <1>4, <2>3 DEF QueueTypes, LocalTypes, Frame, Fresh, SetPtr
  <2>6. Own(t, Q, at, pos, front)'
    BY <1>1, <1>2, <1>4, <2>3, <2>5 DEF Own, Pointers, Cleaning, Pushing, PushedAt
  <2> QED BY <1>1, <1>2, <2>4, <2>5, <2>6, QuietStep
<1> QED BY <1>3, <1>4 DEF IterNext

\* cleanup_oldest finds what follows a deleted entry, or returns an entry.
LEMMA StepCleanNext ==
  ASSUME QueueTypes, NEW Q, NEW at, NEW pos, NEW front, NEW top,
         Links(Q, at, pos, front, top), Locals(Q, at, pos, front), NEW t \in Threads,
         CleanNext(t)
  PROVE  Follows(Q)
<1>1. /\ Own(t, Q, at, pos, front) /\ Pointers(t, pos, front) /\ Cleaning(t, Q, at, pos)
      /\ Pushing(t, pos) /\ (newest # Null => pos[newest] # 0) /\ newest \in Places
      /\ AtFront(Q, at, pos, front) /\ alloc \in 0 .. MaxEntries /\ alloc' = alloc
  BY DEF Locals, Own, Links, QueueTypes, CleanNext
<1> DEFINE e == found[t]
<1>2. pc[t] = "clean_next" /\ UNCHANGED <<oldest, newest, deleted>>
  BY DEF CleanNext
<1>3. e \in Entries /\ pos[e] # 0 /\ pos[e] <= front
  BY <1>1, <1>2, Numbers DEF Cleaning, Pointers, QueueTypes
<1>4. CASE e \notin deleted
  <2>1. CleanReturns(t, e) /\ next' = next /\ e \in Places /\ pc[t] \in CleanAt
    BY <1>2, <1>3, <1>4 DEF CleanNext, Places, CleanAt
  <2>2. LocalTypes' /\ Frame(t) /\ Fresh(t) /\ Own(t, Q, at, pos, front)'
    <3> HIDE DEF e
    <3> QED BY <1>1, <1>3, <2>1, ReturnsKnows
  <2> QED BY <1>1, <1>2, <2>1, <2>2, LocalStep
<1>5. CASE e \in deleted
  <2>1. /\ next' = [next EXCEPT ![e] = NextPtr(e)] /\ succ' = [succ EXCEPT ![t] = NextPtr(e)]
        /\ pc' = [pc EXCEPT ![t] = "clean_cas"] /\ UNCHANGED <<op, ptr, found, new>>
    BY <1>5 DEF CleanNext, Goto
  <2>2. /\ NextPtr(e) \in Places /\ Place(Q, at, NextPtr(e)) = Place(Q, at, next[e])
        /\ NextPtr(e) # Null => pos[NextPtr(e)] # 0 /\ pos[e] < pos[NextPtr(e)]
    BY <1>3, NextIsAhead
  <2>3. Links(Q, at, pos, front, top)' /\ next' \in [Entries -> Places]
    <3>1. next' \in [Entries -> Places]
      BY <2>1, <2>2 DEF QueueTypes
    <3> HIDE DEF e
    <3>2. Links(Q, at, pos, front, top)'
      BY <1>2, <1>3, <2>1, LinksNext
    <3> QED BY <3>1, <3>2
  <2>4. LocalTypes' /\ Frame(t) /\ Fresh(t) /\ pc'[t] = "clean_cas" /\ succ'[t] = NextPtr(e)
    BY <1>1, <2>1, <2>2 DEF QueueTypes, LocalTypes, Frame, Fresh, CleanAt
  <2>5. oldest = e => Place(Q, at, NextPtr(e)) = 1
    <3>1. Place(Q, at, next[e]) = at[e]
      BY <1>3, <1>5 DEF Links, Forward
    <3>2. oldest = e => at[e] = 1
      BY <1>1, <1>3, Numbers DEF AtFront, Place
    <3> QED BY <2>2, <3>1, <3>2
  <2>6. Own(t, Q, at, pos, front)'
    <3>1. Pointers(t, pos, front)' /\ Pushing(t, pos)'
      BY <1>1, <1>2, <2>1, <2>2, <2>4 DEF Pointers, Pushing, PushedAt
    <3>2. Place(Q, at, succ[t])' = Place(Q, at, NextPtr(e))
      BY <2>4 DEF Place
    <3>3. e # Null
      BY <1>3, Numbers
    <3>4. Cleaning(t, Q, at, pos)'
      BY <1>2, <1>5, <2>1, <2>2, <2>4, <2>5, <3>2, <3>3 DEF Cleaning
    <3> QED BY <3>1, <3>4 DEF Own
  <2> QED BY <1>1, <1>2, <2>3, <2>4, <2>6, QuietStep
<1> QED BY <1>4, <1>5

\* cleanup_oldest moves oldest on, or another thread has done so.
LEMMA StepCleanCas ==
  ASSUME QueueTypes, NEW Q, NEW at, NEW pos, NEW front, NEW top,
         Links(Q, at, pos, front, top), Locals(Q, at, pos, front), NEW t \in Threads,
         CleanCas(t)
  PROVE  Follows(Q)
<1>1. /\ Own(t, Q, at, pos, front) /\ Pointers(t, pos, front) /\ Cleaning(t, Q, at, pos)
      /\ Pushing(t, pos) /\ (newest # Null => pos[newest] # 0) /\ newest \in Places
      /\ AtFront(Q, at, pos, front) /\ alloc \in 0 .. MaxEntries /\ alloc' = alloc
  BY DEF Locals, Own, Links, QueueTypes, CleanCas
<1>2. pc[t] = "clean_cas" /\ UNCHANGED <<newest, next, deleted>> /\ pc[t] \in CleanAt
  BY DEF CleanCas, CleanAt
<1>3. /\ found[t] # Null /\ found[t] \in deleted /\ succ[t] \in Places
      /\ succ[t] # Null => pos[found[t]] < pos[succ[t]]
      /\ oldest = found[t] => Place(Q, at, succ[t]) = 1
  BY <1>1, <1>2 DEF Cleaning, QueueTypes
<1>4. CASE oldest # found[t]
  <2>1. CleanReturns(t, oldest) /\ oldest' = oldest /\ oldest \in Places
    BY <1>4 DEF CleanCas, QueueTypes
  <2>2. oldest # Null => pos[oldest] # 0 /\ pos[oldest] <= front
    BY <1>1 DEF AtFront, Links, GhostTypes
  <2>3. LocalTypes' /\ Frame(t) /\ Fresh(t) /\ Own(t, Q, at, pos, front)'
    BY <1>1, <1>2, <2>1, <2>2, ReturnsKnows
  <2> QED BY <1>1, <1>2, <2>1, <2>3, LocalStep
<1>5. CASE oldest = found[t]
  <2>s. PICK s \in Places : s = succ[t]
    BY <1>3
  <2>f. PICK fr : fr = IF s = Null THEN front ELSE pos[s]
    OBVIOUS
  <2>1. s \in Places /\ oldest' = s /\ Place(Q, at, s) = 1 /\ oldest # Null
    BY <1>3, <1>5, <2>s DEF CleanCas
  <2>2. s # Null => pos[s] # 0 /\ pos[oldest] < pos[s]
    BY <1>1, <1>3, <1>5, <2>s DEF Pointers
  <2>3. Links(Q, at, pos, fr, top)' /\ (s # Null => front < pos[s])
    BY <1>2, <2>f, <2>1, <2>2, LinksAdvance
  <2>4. front \in Nat /\ fr \in Nat /\ front <= fr /\ pos \in [Entries -> Nat]
    <3>1. front \in Nat /\ pos \in [Entries -> Nat] /\ (s # Null => s \in Entries)
      BY <2>1, Numbers DEF Links, GhostTypes
    <3> QED BY <2>f, <2>3, <3>1
  <2>5. LocalTypes' /\ Frame(t) /\ Fresh(t) /\ Own(t, Q, at, pos, fr)'
    <3>1. CASE s = Null
      <4>1. pc' = [pc EXCEPT ![t] = "clean_reset"] /\ UNCHANGED <<op, ptr, found, succ, new>>
        BY <1>5, <2>s, <3>1 DEF CleanCas, Goto, local
      <4>2. LocalTypes' /\ Frame(t) /\ Fresh(t) /\ pc'[t] = "clean_reset"
        BY <1>1, <4>1 DEF QueueTypes, LocalTypes, Frame, Fresh, CleanAt
      <4>3. Own(t, Q, at, pos, fr)'
        BY <1>1, <1>2, <2>f, <3>1, <4>1, <4>2 DEF Own, Pointers, Cleaning, Pushing, PushedAt
      <4> QED BY <4>2, <4>3
    <3>2. CASE s # Null
      <4>1. CleanReturns(t, s) /\ pos[s] <= fr
        BY <1>5, <2>s, <2>f, <2>4, <3>2 DEF CleanCas
      <4> QED BY <1>1, <1>2, <2>1, <2>2, <4>1, ReturnsKnows
    <3> QED BY <3>1, <3>2
  <2>6. QueueTypes'
    BY <1>1, <1>2, <2>1, <2>5 DEF QueueTypes, LocalTypes
  <2>7. ASSUME NEW u \in Threads \ {t}, pc[u] = "clean_cas", oldest' = found[u]
        PROVE  Place(Q, at, succ[u]) = 1
    <3>1. Pointers(u, pos, front) /\ Cleaning(u, Q, at, pos)
      BY DEF Locals, Own
    <3>2. found[u] # Null /\ found[u] = s /\ pos[found[u]] <= front
      BY <2>1, <2>7, <3>1 DEF Pointers, Cleaning
    <3>3. s \in Entries /\ pos[s] \in Nat
      BY <2>1, <2>4, <3>2, Numbers
    <3> QED BY <2>3, <2>4, <3>2, <3>3
  <2>8. Grows(t, pos, pos)
    BY <2>4 DEF Grows
  <2>9. newest' # Null => pos[newest'] # 0
    BY <1>1, <1>2
  <2>10. deleted \subseteq deleted'
    BY <1>2
  <2>11. Locals(Q, at, pos, fr)'
    BY <2>4, <2>5, <2>6, <2>7, <2>8, <2>9, <2>10, LocalsKeep
  <2>12. Placed(Q, at, pos, fr, top)' /\ Effect(Q, Q)
    BY <1>2, <2>3, <2>11 DEF Placed, Effect
  <2> QED BY <2>6, <2>12 DEF Follows
<1> QED BY <1>4, <1>5

\* What is reached from the first entry of the queue is the queue after a push, too.
LEMMA PlaceKeeps ==
  ASSUME NEW Q, NEW at, NEW pos, NEW front, NEW top, GhostTypes(Q, at, pos, front, top),
         NEW x \in Places, NEW n \in Entries, x # Null => pos[x] # 0, pos[n] = 0,
         Q # <<>>, Place(Q, at, x) = 1
  PROVE  Place(Append(Q, n), AtPush(Q, at, n), x) = 1
<1>1. Q \in Seq(Entries) /\ Len(Q) \in Nat /\ Len(Q) # 0 /\ at \in [Entries -> Nat]
  BY DEF GhostTypes
<1>2. x # Null /\ x \in Entries /\ at[x] = 1 /\ x # n
  BY <1>1, Numbers DEF Place
<1>3. AtPush(Q, at, n)[x] = 1
  BY <1>1, <1>2 DEF AtPush
<1> QED BY <1>2, <1>3 DEF Place

\* The exchange of a push.
LEMMA StepPushCas ==
  ASSUME QueueTypes, NEW Q, NEW at, NEW pos, NEW front, NEW top,
         Links(Q, at, pos, front, top), Locals(Q, at, pos, front), NEW t \in Threads,
         PushCas(t)
  PROVE  Follows(Q)
<1>1. /\ Own(t, Q, at, pos, front) /\ Pointers(t, pos, front) /\ Cleaning(t, Q, at, pos)
      /\ Pushing(t, pos) /\ (newest # Null => pos[newest] # 0) /\ newest \in Places
      /\ AtFront(Q, at, pos, front) /\ alloc \in 0 .. MaxEntries /\ alloc' = alloc
  BY DEF Locals, Own, Links, QueueTypes, PushCas
<1>2. pc[t] = "cas" /\ UNCHANGED <<newest, deleted, op, found, succ, new>>
  BY DEF PushCas
<1>3. PICK n \in Entries : n = new[t] /\ pos[n] = 0 /\ n # Null
  BY <1>1, <1>2, Numbers DEF Pushing, QueueTypes, PushedAt
<1>4. PICK e \in Places : e = ptr[t]
  BY DEF QueueTypes
<1>5. e # Null => e \in Entries /\ pos[e] # 0
  BY <1>1, <1>4, Numbers DEF Pointers
<1>6. next \in [Entries -> Places] /\ oldest \in Places
  BY DEF QueueTypes
<1>7. ASSUME NEW q \in Places, NEW l \in {"oldest", "traverse"}, q # Null => pos[q] # 0,
             ptr' = [ptr EXCEPT ![t] = q], pc' = [pc EXCEPT ![t] = l], UNCHANGED <<oldest, next>>
      PROVE  Follows(Q)
  <2>1. LocalTypes' /\ Frame(t) /\ Fresh(t) /\ pc'[t] = l /\ ptr'[t] = q
    BY <1>1, <1>2, <1>7 DEF QueueTypes, LocalTypes, Frame, Fresh, PushAt
  <2>2. Own(t, Q, at, pos, front)'
    BY <1>1, <1>2, <1>7, <2>1 DEF Own, Pointers, Cleaning, Pushing, PushedAt
  <2> QED BY <1>1, <1>2, <1>7, <2>1, <2>2, LocalStep
<1>8. ASSUME pc' = [pc EXCEPT ![t] = "swap"], ptr' = ptr, NEW fr, fr \in {front, top + 1},
             next' \in [Entries -> Places], oldest' \in Places,
             Links(Append(Q, n), AtPush(Q, at, n), PosPush(pos, n, top), fr, top + 1)',
             (Q # <<>> /\ oldest' = oldest) \/ oldest' = n
      PROVE  Follows(Q)
  <2> DEFINE R == Append(Q, n)
             bt == AtPush(Q, at, n)
             qos == PosPush(pos, n, top)
  <2>1. LocalTypes' /\ Frame(t) /\ Fresh(t) /\ pc'[t] = "swap"
    BY <1>1, <1>2, <1>8 DEF QueueTypes, LocalTypes, Frame, Fresh, PushedAt
  <2>2. QueueTypes'
    BY <1>1, <1>2, <1>8, <2>1 DEF QueueTypes, LocalTypes
  <2>3. GhostTypes(Q, at, pos, front, top)
    BY DEF Links
  <2>4. /\ pos \in [Entries -> Nat] /\ front \in Nat /\ top \in Nat /\ front <= top
        /\ fr \in Nat /\ front <= fr
    BY <1>8, <2>3 DEF GhostTypes
  <2>5. qos \in [Entries -> Nat] /\ \A x \in Entries : qos[x] = IF x = n THEN top + 1 ELSE pos[x]
    BY <2>4 DEF PosPush
  <2>6. Grows(t, pos, qos) /\ qos[n] # 0 /\ \A x \in Entries : pos[x] # 0 => qos[x] = pos[x]
    BY <1>3, <2>4, <2>5 DEF Grows
  <2>7. ASSUME NEW u \in Threads \ {t}, pc[u] = "clean_cas", oldest' = found[u]
        PROVE  Place(R, bt, succ[u]) = 1
    <3>1. Pointers(u, pos, front) /\ Cleaning(u, Q, at, pos) /\ succ[u] \in Places /\ found[u] \in Places
      BY DEF Locals, Own, QueueTypes
    <3>2. found[u] # Null /\ pos[found[u]] # 0 /\ found[u] # n
      BY <1>3, <2>7, <3>1 DEF Pointers, Cleaning
    <3>3. oldest = found[u] /\ Q # <<>>
      BY <1>8, <2>7, <3>2
    <3>4. Place(Q, at, succ[u]) = 1 /\ (succ[u] # Null => pos[succ[u]] # 0)
      BY <2>7, <3>1, <3>3 DEF Pointers, Cleaning
    <3> QED BY <1>3, <2>3, <3>1, <3>3, <3>4, PlaceKeeps
  <2> HIDE DEF R, bt, qos
  <2>8. Own(t, R, bt, qos, fr)'
    <3>1. /\ ptr'[t] = e /\ found'[t] = found[t] /\ succ'[t] = succ[t] /\ new'[t] = n
          /\ found[t] \in Places /\ succ[t] \in Places
      BY <1>2, <1>3, <1>4, <1>8 DEF QueueTypes
    <3>2. e # Null => qos[e] # 0
      BY <1>5, <2>6
    <3>3. found[t] # Null => qos[found[t]] # 0 /\ qos[found[t]] <= fr
      <4>1. found[t] # Null => found[t] \in Entries /\ pos[found[t]] # 0 /\ pos[found[t]] <= front
        BY <1>1, <3>1, Numbers DEF Pointers
      <4>2. found[t] # Null => qos[found[t]] = pos[found[t]] /\ pos[found[t]] \in Nat
        BY <2>4, <2>6, <4>1
      <4> QED BY <2>4, <4>1, <4>2
    <3>4. succ[t] # Null => qos[succ[t]] # 0
      BY <1>1, <2>6, <3>1, Numbers DEF Pointers
    <3>5. Pointers(t, qos, fr)'
      BY <2>1, <3>1, <3>2, <3>3, <3>4 DEF Pointers
    <3>6. Cleaning(t, R, bt, qos)' /\ Pushing(t, qos)'
      BY <1>3, <2>1, <2>6, <3>1 DEF Cleaning, Pushing, PushedAt
    <3> QED BY <3>5, <3>6 DEF Own
  <2>9. newest' # Null => qos[newest'] # 0
    BY <1>1, <1>2, <2>6, Numbers
  <2>10. deleted \subseteq deleted'
    BY <1>2
  <2>11. Locals(R, bt, qos, fr)'
    BY <2>1, <2>2, <2>4, <2>6, <2>7, <2>8, <2>9, <2>10, LocalsKeep
  <2>12. Placed(R, bt, qos, fr, top + 1)'
    BY <1>8, <2>11 DEF Placed, R, bt, qos
  <2>13. Effect(Q, R)
    BY <1>2 DEF Effect, R
  <2> QED BY <2>2, <2>12, <2>13 DEF Follows
<1>9. CASE e # Null /\ next[e] = Null /\ e \notin deleted
  <2>1. /\ next' = [next EXCEPT ![e] = n] /\ pc' = [pc EXCEPT ![t] = "swap"]
        /\ UNCHANGED <<oldest, ptr>>
    BY <1>3, <1>4, <1>9 DEF PushCas, Goto
  <2>2. /\ Links(Append(Q, n), AtPush(Q, at, n), PosPush(pos, n, top), front, top + 1)'
        /\ Q # <<>>
    BY <1>2, <1>3, <1>5, <1>9, <2>1, LinksPush
  <2>3. next' \in [Entries -> Places] /\ oldest' \in Places
    BY <1>5, <1>6, <1>9, <2>1 DEF Places
  <2> QED BY <1>8, <2>1, <2>2, <2>3
<1>10. CASE e # Null /\ ~ (next[e] = Null /\ e \notin deleted)
  <2>1. /\ UNCHANGED <<oldest, next>> /\ ptr' = [ptr EXCEPT ![t] = next[e]]
        /\ pc' = [pc EXCEPT ![t] = IF next[e] = Null THEN "oldest" ELSE "traverse"]
    BY <1>4, <1>10 DEF PushCas, SetPtr, Goto
  <2>2. next[e] \in Places /\ (next[e] # Null => pos[next[e]] # 0)
    <3>1. next[e] \in Places /\ pos[e] \in Nat /\ (next[e] # Null => next[e] \in Entries)
      BY <1>5, <1>6, <1>10, Numbers DEF Links, GhostTypes
    <3>2. next[e] # Null => pos[e] < pos[next[e]]
      BY <1>5, <1>10 DEF Links, Forward
    <3> QED BY <3>1, <3>2
  <2>3. PICK q \in Places, l \in {"oldest", "traverse"} :
          q = next[e] /\ l = IF next[e] = Null THEN "oldest" ELSE "traverse"
    BY <2>2
  <2> QED BY <1>7, <2>1, <2>2, <2>3
<1>11. CASE e = Null /\ oldest = Null
  <2>1. oldest' = n /\ pc' = [pc EXCEPT ![t] = "swap"] /\ UNCHANGED <<next, ptr>>
    BY <1>3, <1>4, <1>11 DEF PushCas, Goto
  <2>2. Links(Append(Q, n), AtPush(Q, at, n), PosPush(pos, n, top), top + 1, top + 1)'
    BY <1>2, <1>3, <1>11, <2>1, LinksPushFirst
  <2>3. next' \in [Entries -> Places] /\ oldest' \in Places
    BY <1>6, <2>1 DEF Places
  <2> QED BY <1>8, <2>1, <2>2, <2>3
<1>12. CASE e = Null /\ oldest # Null
  <2>1. /\ ptr' = [ptr EXCEPT ![t] = oldest] /\ pc' = [pc EXCEPT ![t] = "traverse"]
        /\ UNCHANGED <<oldest, next>>
    BY <1>4, <1>12 DEF PushCas, SetPtr, Goto
  <2>2. pos[oldest] # 0
    BY <1>1, <1>12 DEF AtFront
  <2>3. PICK q \in Places : q = oldest
    BY <1>6
  <2> QED BY <1>7, <2>1, <2>2, <2>3
<1> QED BY <1>9, <1>10, <1>11, <1>12

\* A pop deletes its entry, meets a deleted one, or its condition does not hold.
LEMMA StepPop ==
  ASSUME QueueTypes, NEW Q, NEW at, NEW pos, NEW front, NEW top,
         Links(Q, at, pos, front, top), Locals(Q, at, pos, front), NEW t \in Threads,
         PopEntry(t)
  PROVE  Follows(Q)
<1>1. /\ Own(t, Q, at, pos, front) /\ Pointers(t, pos, front) /\ Cleaning(t, Q, at, pos)
      /\ Pushing(t, pos) /\ (newest # Null => pos[newest] # 0) /\ newest \in Places
      /\ AtFront(Q, at, pos, front) /\ alloc \in 0 .. MaxEntries /\ alloc' = alloc
  BY DEF Locals, Own, Links, QueueTypes, PopEntry
<1>2. pc[t] = "pop" /\ UNCHANGED <<oldest, newest, next>>
  BY DEF PopEntry
<1>3. PICK e \in Entries : e = ptr[t] /\ pos[e] # 0 /\ pos[e] <= front
  BY <1>1, <1>2, Numbers DEF Pointers, QueueTypes
<1>4. CASE Done(t) /\ deleted' = deleted
  BY <1>1, <1>2, <1>4, DoneKnows, LocalStep DEF Fresh
<1>5. CASE e \in deleted /\ Goto(t, "clean") /\ UNCHANGED <<deleted, op, local>>
  <2>1. pc' = [pc EXCEPT ![t] = "clean"] /\ UNCHANGED <<deleted, op, ptr, found, succ, new>>
    BY <1>5 DEF Goto, local
  <2>2. LocalTypes' /\ Frame(t) /\ Fresh(t) /\ pc'[t] = "clean"
    BY <1>1, <2>1 DEF QueueTypes, LocalTypes, Frame, Fresh, CleanAt
  <2>3. Own(t, Q, at, pos, front)'
    BY <1>1, <1>2, <2>1, <2>2 DEF Own, Pointers, Cleaning, Pushing, PushedAt
  <2> QED BY <1>1, <1>2, <2>1, <2>2, <2>3, LocalStep
<1>6. CASE /\ e \notin deleted /\ deleted' = deleted \cup {e}
           /\ SetPtr(t, Null) /\ Goto(t, "clean") /\ UNCHANGED <<op, found, succ, new>>
  <2>1. Links(Tail(Q), AtPop(at), pos, front, top)' /\ Q # <<>> /\ Head(Q) = e
    BY <1>2, <1>3, <1>6, LinksPop
  <2>2. LocalTypes' /\ Frame(t) /\ Fresh(t) /\ pc'[t] = "clean" /\ ptr'[t] = Null
    BY <1>1, <1>6 DEF QueueTypes, LocalTypes, Frame, Fresh, CleanAt, SetPtr, Goto, Places
  <2>3. QueueTypes'
    BY <1>1, <1>2, <1>6, <2>2 DEF QueueTypes, LocalTypes
  <2>4. GhostTypes(Q, at, pos, front, top)
    BY DEF Links
  <2>5. pos \in [Entries -> Nat] /\ front \in Nat /\ front <= front /\ Grows(t, pos, pos)
    BY <2>4 DEF GhostTypes, Grows
  <2> DEFINE R == Tail(Q)
             bt == AtPop(at)
  <2>6. ASSUME NEW u \in Threads \ {t}, pc[u] = "clean_cas", oldest' = found[u]
        PROVE  Place(R, bt, succ[u]) = 1
    <3>1. Pointers(u, pos, front) /\ Cleaning(u, Q, at, pos) /\ succ[u] \in Places
      BY DEF Locals, Own, QueueTypes
    <3>2. Place(Q, at, succ[u]) = 1 /\ (succ[u] # Null => pos[succ[u]] # 0)
      BY <1>2, <2>6, <3>1 DEF Pointers, Cleaning
    <3>3. succ[u] # Null /\ succ[u] \in Entries /\ at[succ[u]] = 1
      BY <2>1, <2>4, <3>1, <3>2, Numbers DEF Place, GhostTypes
    <3>4. bt[succ[u]] = 1
      BY <3>3 DEF AtPop
    <3> QED BY <3>3, <3>4 DEF Place
  <2> HIDE DEF R, bt
  <2>7. Own(t, R, bt, pos, front)'
    BY <1>1, <1>2, <1>6, <2>2 DEF Own, Pointers, Cleaning, Pushing, PushedAt
  <2>8. deleted \subseteq deleted' /\ (newest' # Null => pos[newest'] # 0)
    BY <1>1, <1>2, <1>6
  <2>9. Locals(R, bt, pos, front)'
    BY <2>2, <2>3, <2>5, <2>6, <2>7, <2>8, LocalsKeep
  <2>10. Placed(R, bt, pos, front, top)'
    BY <2>1, <2>9 DEF Placed, R, bt
  <2>11. Effect(Q, R)
    BY <1>6, <2>1 DEF Effect, R
  <2> QED BY <2>3, <2>10, <2>11 DEF Follows
<1> QED BY <1>3, <1>4, <1>5, <1>6 DEF PopEntry

\* A step of a thread leaves the others alone.
LEMMA FrameHolds ==
  ASSUME QueueTypes, NEW t \in Threads,
         BeginPush(t) \/ BeginPop(t) \/ BeginIter(t) \/ Step(t)
  PROVE  Frame(t)
<1>1. ASSUME NEW e, CleanReturns(t, e) PROVE Frame(t)
  BY <1>1 DEF QueueTypes, CleanReturns, Done, SetPtr, Goto, Frame
<1>2. ASSUME Done(t) PROVE Frame(t)
  BY <1>2 DEF QueueTypes, Done, Goto, Frame
<1> USE DEF QueueTypes, Frame, Goto, SetPtr, local
<1>3. CASE BeginPush(t) \/ BeginPop(t) \/ BeginIter(t)
  <2>1. PICK l : pc' = [pc EXCEPT ![t] = l] /\ UNCHANGED <<ptr, found, succ, new>>
    BY <1>3 DEF BeginPush, BeginPop, BeginIter, Begin
  <2> QED BY <2>1
<1>4. CASE LoadNewest(t)
  BY <1>4 DEF LoadNewest
<1>5. CASE LoadOldest(t)
  BY <1>5 DEF LoadOldest
<1>6. CASE Traverse(t)
  <2>1. PICK l, q : /\ pc' = pc \/ pc' = [pc EXCEPT ![t] = l]
                    /\ ptr' = ptr \/ ptr' = [ptr EXCEPT ![t] = q]
                    /\ UNCHANGED <<found, succ, new>>
    BY <1>6 DEF Traverse
  <2> QED BY <2>1
<1>7. CASE Cond(t)
  BY <1>2, <1>7 DEF Cond
<1>8. CASE PushCas(t)
  <2>1. PICK l, q : /\ pc' = [pc EXCEPT ![t] = l]
                    /\ ptr' = ptr \/ ptr' = [ptr EXCEPT ![t] = q]
                    /\ UNCHANGED <<found, succ, new>>
    BY <1>8 DEF PushCas
  <2> QED BY <2>1
<1>9. CASE SwapNewest(t)
  BY <1>9 DEF SwapNewest
<1>10. CASE CheckOldest(t)
  BY <1>2, <1>10 DEF CheckOldest
<1>11. CASE ResetNewest(t)
  BY <1>2, <1>11 DEF ResetNewest
<1>12. CASE LoadCurrent(t)
  BY <1>2, <1>12 DEF LoadCurrent
<1>13. CASE PopEntry(t)
  BY <1>2, <1>13 DEF PopEntry
<1>14. CASE PeekEntry(t)
  BY <1>2, <1>14 DEF PeekEntry
<1>15. CASE IterNext(t)
  <2>1. CASE Done(t)
    BY <1>2, <2>1
  <2>2. CASE ~ Done(t)
    <3>1. PICK q : ptr' = [ptr EXCEPT ![t] = q] /\ UNCHANGED <<pc, found, succ, new>>
      BY <1>15, <2>2 DEF IterNext
    <3> QED BY <3>1
  <2> QED BY <2>1, <2>2
<1>16. CASE CleanLoad(t)
  BY <1>1, <1>16 DEF CleanLoad
<1>17. CASE CleanNext(t)
  <2>1. CASE found[t] \notin deleted
    <3>1. CleanReturns(t, found[t])
      BY <1>17, <2>1 DEF CleanNext
    <3> QED BY <1>1, <3>1
  <2>2. CASE found[t] \in deleted
    <3>1. PICK q : /\ succ' = [succ EXCEPT ![t] = q] /\ pc' = [pc EXCEPT ![t] = "clean_cas"]
                   /\ UNCHANGED <<ptr, found, new>>
      BY <1>17, <2>2 DEF CleanNext
    <3> QED BY <3>1
  <2> QED BY <2>1, <2>2
<1>18. CASE CleanCas(t)
  <2>1. CASE \E e : CleanReturns(t, e)
    BY <1>1, <2>1
  <2>2. CASE ~ \E e : CleanReturns(t, e)
    BY <1>18, <2>2 DEF CleanCas
  <2> QED BY <2>1, <2>2
<1>19. CASE CleanReset(t)
  BY <1>1, <1>19 DEF CleanReset
<1> QED BY <1>3, <1>4, <1>5, <1>6, <1>7, <1>8, <1>9, <1>10, <1>11, <1>12, <1>13, <1>14, <1>15,
           <1>16, <1>17, <1>18, <1>19 DEF Step

\* Somebody still replaces a deleted oldest entry, if t does or did not have to.
LEMMA CleanDueKeeps ==
  ASSUME CleanDue, NEW t \in Threads, Frame(t), UNCHANGED <<oldest, deleted>>,
         oldest # Null /\ oldest \in deleted =>
           \/ pc[t] \notin {"clean", "clean_next", "clean_cas"}
           \/ pc[t] # "clean" /\ found[t] # oldest
           \/ pc'[t] = "clean" \/ (pc'[t] \in {"clean_next", "clean_cas"} /\ found'[t] = oldest)
  PROVE  CleanDue'
<1>1. SUFFICES ASSUME oldest # Null, oldest \in deleted
               PROVE  \E u \in Threads : \/ pc'[u] = "clean"
                                         \/ pc'[u] \in {"clean_next", "clean_cas"} /\ found'[u] = oldest
  BY DEF CleanDue
<1>2. PICK w \in Threads : pc[w] = "clean" \/ (pc[w] \in {"clean_next", "clean_cas"} /\ found[w] = oldest)
  BY <1>1 DEF CleanDue
<1>3. CASE w # t
  <2>1. pc'[w] = pc[w] /\ found'[w] = found[w]
    BY <1>3 DEF Frame
  <2> QED BY <1>2, <2>1
<1>4. CASE w = t
  BY <1>1, <1>2, <1>4
<1> QED BY <1>3, <1>4

\* Somebody still resets newest, if t does or did not have to.
LEMMA ResetDueKeeps ==
  ASSUME ResetDue, NEW t \in Threads, Frame(t), oldest' = Null => oldest = Null, newest' = newest,
         \/ pc[t] \notin {"check", "reset", "clean_reset"}
         \/ pc'[t] \in {"check", "reset", "clean_reset"}
  PROVE  ResetDue'
<1>1. SUFFICES ASSUME oldest = Null, newest # Null
               PROVE  \E u \in Threads : pc'[u] \in {"check", "reset", "clean_reset"}
  BY DEF ResetDue
<1>2. PICK w \in Threads : pc[w] \in {"check", "reset", "clean_reset"}
  BY <1>1 DEF ResetDue
<1>3. w # t => pc'[w] = pc[w]
  BY DEF Frame
<1> QED BY <1>2, <1>3

\* Every step keeps both.
LEMMA DueStep ==
  ASSUME QueueTypes, NEW Q, NEW at, NEW pos, NEW front, NEW top,
         Links(Q, at, pos, front, top), Locals(Q, at, pos, front), CleanDue, ResetDue,
         NEW t \in Threads, BeginPush(t) \/ BeginPop(t) \/ BeginIter(t) \/ Step(t)
  PROVE  CleanDue' /\ ResetDue'
<1>1. Frame(t)
  BY FrameHolds
<1>2. /\ Cleaning(t, Q, at, pos) /\ Pushing(t, pos) /\ Pointers(t, pos, front)
      /\ AtFront(Q, at, pos, front) /\ Queued(Q, at, pos)
      /\ pc \in [Threads -> {"idle"} \cup PushAt \cup PushedAt \cup PopAt \cup CleanAt]
      /\ found \in [Threads -> Places]
  BY DEF Locals, Own, Links, QueueTypes
<1>3. ASSUME UNCHANGED <<oldest, newest, deleted>>,
             pc[t] \notin {"clean", "clean_next", "clean_cas", "check", "reset", "clean_reset"}
      PROVE  CleanDue' /\ ResetDue'
  BY <1>1, <1>3, CleanDueKeeps, ResetDueKeeps
<1>4. CASE BeginPush(t) \/ BeginPop(t) \/ BeginIter(t)
  BY <1>3, <1>4 DEF BeginPush, BeginPop, BeginIter, Begin, shared
<1>5. CASE LoadNewest(t) \/ LoadOldest(t)
  BY <1>3, <1>5 DEF LoadNewest, LoadOldest, shared
<1>6. CASE Traverse(t)
  BY <1>3, <1>6 DEF Traverse
<1>7. CASE Cond(t)
  BY <1>3, <1>7 DEF Cond, shared
<1>8. CASE PushCas(t)
  <2>1. pc[t] = "cas" /\ UNCHANGED <<newest, deleted>>
    BY <1>8 DEF PushCas
  <2>2. CASE oldest' = oldest
    BY <1>3, <2>1, <2>2
  <2>3. CASE oldest' # oldest
    <3>1. oldest' = new[t] /\ new[t] \in Entries /\ pos[new[t]] = 0 /\ new[t] # Null
      BY <1>2, <1>8, <2>1, <2>3, Numbers DEF PushCas, Pushing, PushedAt, QueueTypes
    <3>2. oldest' \notin deleted'
      BY <1>2, <2>1, <3>1 DEF Queued
    <3> QED BY <3>1, <3>2 DEF CleanDue, ResetDue
  <2> QED BY <2>2, <2>3
<1>9. CASE SwapNewest(t)
  <2>1. pc[t] = "swap" /\ pc'[t] = "check" /\ UNCHANGED <<oldest, deleted>>
    BY <1>2, <1>9 DEF SwapNewest, Goto
  <2>2. ResetDue'
    BY <2>1 DEF ResetDue
  <2> QED BY <1>1, <2>1, <2>2, CleanDueKeeps
<1>10. CASE CheckOldest(t)
  <2>1. pc[t] = "check" /\ UNCHANGED <<oldest, newest, deleted>> /\ (oldest = Null => pc'[t] = "reset")
    BY <1>2, <1>10 DEF CheckOldest, Goto, shared
  <2>2. ResetDue'
    BY <2>1 DEF ResetDue
  <2> QED BY <1>1, <2>1, <2>2, CleanDueKeeps
<1>11. CASE ResetNewest(t)
  <2>1. pc[t] = "reset" /\ UNCHANGED <<oldest, deleted>> /\ newest' = Null
    BY <1>11 DEF ResetNewest
  <2>2. ResetDue'
    BY <2>1 DEF ResetDue
  <2> QED BY <1>1, <2>1, <2>2, CleanDueKeeps
<1>12. CASE LoadCurrent(t)
  BY <1>3, <1>12 DEF LoadCurrent, shared
<1>13. CASE PopEntry(t)
  <2>1. pc[t] = "pop" /\ UNCHANGED <<oldest, newest>>
    BY <1>13 DEF PopEntry
  <2>2. CASE deleted' = deleted
    BY <1>3, <2>1, <2>2
  <2>3. CASE deleted' # deleted
    <3>1. pc'[t] = "clean"
      BY <1>2, <1>13, <2>3 DEF PopEntry, Goto
    <3>2. CleanDue'
      BY <3>1 DEF CleanDue
    <3>3. ResetDue'
      BY <1>1, <2>1, ResetDueKeeps
    <3> QED BY <3>2, <3>3
  <2> QED BY <2>2, <2>3
<1>14. CASE PeekEntry(t)
  BY <1>3, <1>14 DEF PeekEntry, shared
<1>15. CASE IterNext(t)
  BY <1>3, <1>15 DEF IterNext
<1>16. CASE CleanLoad(t)
  <2>1. pc[t] = "clean" /\ UNCHANGED <<oldest, newest, deleted>>
    BY <1>16 DEF CleanLoad, shared
  <2>2. oldest # Null => pc'[t] = "clean_next" /\ found'[t] = oldest
    BY <1>2, <1>16 DEF CleanLoad, Goto
  <2>3. CleanDue'
    BY <1>1, <2>1, <2>2, CleanDueKeeps
  <2>4. ResetDue'
    BY <1>1, <2>1, ResetDueKeeps
  <2> QED BY <2>3, <2>4
<1>17. CASE CleanNext(t)
  <2>1. pc[t] = "clean_next" /\ UNCHANGED <<oldest, newest, deleted>>
    BY <1>17 DEF CleanNext
  <2>2. found[t] \in deleted => pc'[t] = "clean_cas" /\ found'[t] = found[t]
    BY <1>2, <1>17 DEF CleanNext, Goto
  <2>3. CleanDue'
    BY <1>1, <2>1, <2>2, CleanDueKeeps
  <2>4. ResetDue'
    BY <1>1, <2>1, ResetDueKeeps
  <2> QED BY <2>3, <2>4
<1>18. CASE CleanCas(t)
  <2>1. pc[t] = "clean_cas" /\ UNCHANGED <<newest, deleted>>
    BY <1>18 DEF CleanCas
  <2>2. CASE oldest # found[t]
    <3>1. oldest' = oldest
      BY <1>18, <2>2 DEF CleanCas
    <3> QED BY <1>1, <2>1, <2>2, <3>1, CleanDueKeeps, ResetDueKeeps
  <2>3. CASE oldest = found[t]
    <3>1. oldest' = succ[t] /\ (succ[t] = Null => pc'[t] = "clean_reset")
      BY <1>2, <1>18, <2>3 DEF CleanCas, Goto
    <3>2. succ[t] # Null => succ[t] \notin deleted
      <4>1. SUFFICES ASSUME succ[t] # Null PROVE succ[t] \notin deleted
        OBVIOUS
      <4>2. succ[t] \in Entries /\ oldest # Null /\ pos[oldest] < pos[succ[t]] /\ pos[oldest] = front
        BY <1>2, <2>1, <2>3, <4>1, Numbers DEF Cleaning, AtFront, QueueTypes
      <4>3. pos[succ[t]] \in Nat /\ front \in Nat
        BY <4>2 DEF Links, GhostTypes
      <4> QED BY <1>2, <4>2, <4>3 DEF AtFront
    <3>3. CleanDue'
      BY <2>1, <3>1, <3>2 DEF CleanDue
    <3>4. ResetDue'
      BY <3>1 DEF ResetDue
    <3> QED BY <3>3, <3>4
  <2> QED BY <2>2, <2>3
<1>19. CASE CleanReset(t)
  <2>1. pc[t] = "clean_reset" /\ UNCHANGED <<oldest, deleted>> /\ newest' = Null
    BY <1>19 DEF CleanReset
  <2>2. ResetDue'
    BY <2>1 DEF ResetDue
  <2> QED BY <1>1, <2>1, <2>2, CleanDueKeeps
<1> QED BY <1>4, <1>5, <1>6, <1>7, <1>8, <1>9, <1>10, <1>11, <1>12, <1>13, <1>14, <1>15,
           <1>16, <1>17, <1>18, <1>19 DEF Step

-----------------------------------------------------------------------------
(* Theorems                                                                 *)

\* In the initial state the queue is empty and no entry is linked.
LEMMA InitQueueInv == Init => QueueInv /\ Contents = <<>>
<1> SUFFICES ASSUME Init PROVE QueueInv /\ Contents = <<>>
  OBVIOUS
<1> DEFINE zero == [x \in Entries |-> 0]
<1>1. QueueTypes
  BY Numbers DEF Init, QueueTypes, Places
<1>2. zero \in [Entries -> Nat] /\ \A x \in Entries : zero[x] = 0
  OBVIOUS
<1> HIDE DEF zero
<1>3. <<>> \in Seq(Entries) /\ Len(<<>>) = 0
  OBVIOUS
<1>4. GhostTypes(<<>>, zero, zero, 0, 0)
  BY <1>2, <1>3 DEF GhostTypes
<1>5. Queued(<<>>, zero, zero) /\ Forward(<<>>, zero, zero)
  BY <1>2, <1>3 DEF Init, Queued, Forward
<1>6. AtFront(<<>>, zero, zero, 0)
  BY <1>2, <1>3 DEF Init, AtFront, Place
<1>7. Links(<<>>, zero, zero, 0, 0)
  BY <1>4, <1>5, <1>6 DEF Links
<1>8. Locals(<<>>, zero, zero, 0)
  BY <1>2 DEF Init, Locals, Own, Pointers, Cleaning, Pushing, PushedAt
<1>9. Contents = <<>>
  BY <1>1, <1>7, QueueIs
<1>10. CleanDue /\ ResetDue
  BY DEF Init, CleanDue, ResetDue
<1> QED BY <1>1, <1>7, <1>8, <1>9, <1>10 DEF QueueInv, Placed

\* The queue is Q, in any state.
LEMMA ContentsAre ==
  \A q, a, p, f, m : QueueTypes /\ Links(q, a, p, f, m) => Contents = q
  BY QueueIs

\* Every step keeps the invariant, and is a step of a first-in first-out queue.
LEMMA NextQueueInv ==
  QueueInv /\ [Next]_vars =>
    /\ QueueInv'
    /\ \/ UNCHANGED <<Contents, deleted>>
       \/ deleted' = deleted /\ \E v \in Entries : Contents' = Append(Contents, v)
       \/ /\ Contents # <<>> /\ Contents' = Tail(Contents)
          /\ deleted' = deleted \cup {Head(Contents)}
<1> SUFFICES ASSUME QueueInv, [Next]_vars
             PROVE  /\ QueueInv'
                    /\ \/ UNCHANGED <<Contents, deleted>>
                       \/ deleted' = deleted /\ \E v \in Entries : Contents' = Append(Contents, v)
                       \/ /\ Contents # <<>> /\ Contents' = Tail(Contents)
                          /\ deleted' = deleted \cup {Head(Contents)}
  OBVIOUS
<1>1. CASE UNCHANGED vars
  <2>1. UNCHANGED <<oldest, newest, next, deleted, alloc, pc, op, ptr, found, succ, new>>
    BY <1>1 DEF vars
  <2>2. UNCHANGED <<Contents, deleted>>
    BY <2>1, Zenon DEF Contents, LiveFrom
  <2>3. QueueTypes' /\ CleanDue' /\ ResetDue'
    BY <2>1 DEF QueueInv, QueueTypes, CleanDue, ResetDue
  <2>4. PICK Q, at, pos, front, top : Placed(Q, at, pos, front, top)
    BY DEF QueueInv
  <2>5. Links(Q, at, pos, front, top)'
    BY <2>1, <2>4 DEF Placed, Links, GhostTypes, Queued, Forward, AtFront, Place
  <2>6. Locals(Q, at, pos, front)'
    BY <2>1, <2>4 DEF Placed, Locals, Own, Pointers, Cleaning, Pushing, Place
  <2>7. Placed(Q, at, pos, front, top)'
    BY <2>5, <2>6 DEF Placed
  <2>8. QueueInv'
    BY <2>3, <2>7 DEF QueueInv
  <2> QED BY <2>2, <2>8
<1>2. CASE Next
  <2>1. PICK t \in Threads : BeginPush(t) \/ BeginPop(t) \/ BeginIter(t) \/ Step(t)
    BY <1>2 DEF Next
  <2>2. PICK Q, at, pos, front, top : Placed(Q, at, pos, front, top)
    BY DEF QueueInv
  <2>3. QueueTypes /\ CleanDue /\ ResetDue /\ Links(Q, at, pos, front, top) /\ Locals(Q, at, pos, front)
    BY <2>2 DEF QueueInv, Placed
  <2>4. CleanDue' /\ ResetDue'
    BY <2>1, <2>3, DueStep
  <2>5. Follows(Q)
    <3>1. CASE BeginPush(t) \/ BeginPop(t) \/ BeginIter(t)
      BY <2>3, <3>1, StepBegin
    <3>2. CASE Step(t)
      BY <2>3, <3>2, StepLoad, StepTraverse, StepCond, StepPushCas, StepNewest, StepCurrent, StepPop,
         StepPeek, StepIter, StepCleanLoad, StepCleanNext, StepCleanCas DEF Step
    <3> QED BY <2>1, <3>1, <3>2
  <2>6. PICK Q2, at2, pos2, front2, top2 : Placed(Q2, at2, pos2, front2, top2)' /\ Effect(Q, Q2)
    BY <2>5 DEF Follows
  <2>7. QueueTypes' /\ Links(Q2, at2, pos2, front2, top2)'
    BY <2>5, <2>6 DEF Follows, Placed
  <2>8. Contents = Q
    BY <2>3, QueueIs
  <2>9. (\A q, a, p, f, m : QueueTypes /\ Links(q, a, p, f, m) => Contents = q)'
    BY ContentsAre, PTL
  <2>10. QueueTypes' /\ Links(Q2, at2, pos2, front2, top2)' => Contents' = Q2
    BY <2>9
  <2>11. Contents' = Q2
    BY <2>7, <2>10
  <2>12. QueueInv'
    BY <2>4, <2>6, <2>7 DEF QueueInv
  <2> QED BY <2>6, <2>8, <2>11, <2>12 DEF Effect
<1> QED BY <1>1, <1>2

\* The invariant of the queue: types, an order of the linked entries in which all
\* links and pointers go forward, and somebody who is going to update oldest and newest.
THEOREM QueueInvariant == Spec => []QueueInv
<1>1. Init => QueueInv
  BY InitQueueInv
<1>2. QueueInv /\ [Next]_vars => QueueInv'
  BY NextQueueInv
<1> QED BY <1>1, <1>2, PTL DEF Spec

\* The queue implements a first-in first-out queue: every step is a push at its end,
\* a pop of its first entry, or leaves it as it is (push_if_internal, pop_if,
\* cleanup_oldest, next_ptr).
THEOREM QueueIsFifo == Spec => IsFifo
<1>1. Init => QueueInv /\ RefinesFifo!Init
  BY InitQueueInv DEF RefinesFifo!Init, Init
<1>2. QueueInv /\ [Next]_vars => QueueInv' /\ [RefinesFifo!Next]_<<Contents, deleted>>
  BY NextQueueInv DEF RefinesFifo!Next, RefinesFifo!Push, RefinesFifo!Pop
<1> QED BY <1>1, <1>2, PTL DEF Spec, IsFifo, RefinesFifo!Spec

\* When no operation is running and the queue is empty, newest is null.
THEOREM EmptyIsEmptyHolds == Spec => []EmptyIsEmpty
<1>1. QueueInv => EmptyIsEmpty
  <2> SUFFICES ASSUME QueueInv, Idle, Contents = <<>> PROVE newest = Null
    BY DEF EmptyIsEmpty
  <2>1. PICK Q, at, pos, front, top : Placed(Q, at, pos, front, top)
    BY DEF QueueInv
  <2>2. QueueTypes /\ Links(Q, at, pos, front, top)
    BY <2>1 DEF QueueInv, Placed
  <2>3. Q = <<>>
    BY <2>2, QueueIs
  <2>4. oldest # Null => oldest \in deleted
    BY <2>2, <2>3, Numbers DEF Links, AtFront, Queued, GhostTypes, QueueTypes
  <2>5. oldest = Null
    BY <2>4 DEF QueueInv, CleanDue, Idle
  <2> QED BY <2>5 DEF QueueInv, ResetDue, Idle
<1> QED BY <1>1, QueueInvariant, PTL
=============================================================================
