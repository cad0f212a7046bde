----------------------------- MODULE Bag_proofs ------------------------------
(***************************************************************************)
(* Proofs about the bag, for any number of threads, storages and values: a *)
(* value is in one place at a time.                                        *)
(***************************************************************************)
EXTENDS Bag, FiniteSetTheorems, WellFoundedInduction, TLAPS

-----------------------------------------------------------------------------
(* Induction, and the recursive functions along the links                   *)

\* A nonempty set of natural numbers has a least element: the induction of the
\* proofs below.
LEMMA LeastElement ==
  ASSUME NEW T \in SUBSET Nat, T # {}
  PROVE  \E x \in T : \A y \in T : x <= y
<1> DEFINE R == {p \in Nat \X Nat : p[1] < p[2]}
<1>1. OpToRel(<, Nat) = R
  BY Zenon DEF OpToRel
<1>2. IsWellFoundedOn(R, Nat)
  BY <1>1, NatLessThanWellFounded, Zenon
<1>3. \A x, y \in Nat : <<y, x>> \in R <=> y < x
  OBVIOUS
<1> HIDE DEF R
<1>4. PICK x \in T : \A y \in T : <<y, x>> \notin R
  BY <1>2, WFMin
<1>5. ASSUME NEW y \in T PROVE x <= y
  <2>1. x \in Nat /\ y \in Nat
    OBVIOUS
  <2>2. ~ (y < x)
    BY <1>3, <1>4, <2>1
  <2> QED BY <2>1, <2>2
<1> QED BY <1>5

\* A set of natural numbers that contains a number when it contains all smaller ones
\* contains all.
LEMMA StrongInduction ==
  ASSUME NEW T, \A n \in Nat : (\A m \in Nat : m < n => m \in T) => n \in T
  PROVE  Nat \subseteq T
<1> DEFINE B == Nat \ T
<1>1. SUFFICES ASSUME B # {} PROVE FALSE
  OBVIOUS
<1>2. PICK x \in B : \A y \in B : x <= y
  BY <1>1, LeastElement
<1>3. \A m \in Nat : m < x => m \in T
  BY <1>2
<1> QED BY <1>3

Places == Storages \cup {Null}

\* A storage links to an older one.
Ordered(nx) ==
  /\ nx \in [Storages -> Places]
  /\ \A s \in Storages : nx[s] # Null => 1 <= nx[s] /\ nx[s] < s

ChainFcn(nx) ==
  CHOOSE C : C = [x \in Places |-> IF x = Null THEN {} ELSE {x} \cup C[nx[x]]]

NextFcn(nx, del) ==
  CHOOSE N : N = [x \in Places |-> IF x = Null \/ x \notin del THEN x ELSE N[nx[x]]]

\* The null pointer and the primary storage are no linked storages.
LEMMA Numbers ==
  /\ MaxStorages \in Nat /\ ArrayLen \in Nat /\ MaxValues \in Nat
  /\ Null = -1 /\ Primary = 0 /\ Null \notin Storages /\ Primary \in Storages
  /\ \A s : s \in Storages <=> s \in Nat /\ s <= MaxStorages
  /\ \A s \in Places : s \in Int /\ (s = Null \/ s \in Storages)
  /\ \A i \in Slots : i \in Nat
  BY BagAssumption DEF Null, Primary, Storages, Places, Slots

\* NextPtr is a function of the links and of the storages deleted.
LEMMA NextPtrIsFcn ==
  ASSUME NEW s
  PROVE  NextPtr(s) = NextFcn(next, deleted)[next[s]]
  BY Zenon DEF NextPtr, NextFcn, Places

Closed(nx, K) == \A z \in K : nx[z] # Null => nx[z] \in K

\* The recursive definition of Chain has a solution: the least sets of storages that
\* are closed under the links.
LEMMA ChainEquation ==
  ASSUME NEW nx, Ordered(nx)
  PROVE  ChainFcn(nx) =
           [x \in Places |-> IF x = Null THEN {} ELSE {x} \cup ChainFcn(nx)[nx[x]]]
<1> DEFINE F == [x \in Places |->
                   {y \in Storages : x # Null /\ \A K \in SUBSET Storages :
                                        x \in K /\ Closed(nx, K) => y \in K}]
           G == [x \in Places |-> IF x = Null THEN {} ELSE {x} \cup F[nx[x]]]
<1>1. ASSUME NEW x \in Places PROVE F[x] = G[x]
  <2>1. CASE x = Null
    BY <2>1
  <2>2. CASE x # Null
    <3>1. x \in Storages /\ nx[x] \in Places
      BY <2>2, Numbers DEF Ordered
    <3>2. G[x] = {x} \cup F[nx[x]]
      BY <2>2
    <3>3. F[nx[x]] \subseteq Storages /\ Closed(nx, F[nx[x]])
      <4>1. ASSUME NEW z \in F[nx[x]], nx[z] # Null PROVE nx[z] \in F[nx[x]]
        <5>1. z \in Storages /\ nx[z] \in Storages
          BY <3>1, <4>1, Numbers DEF Ordered
        <5>2. ASSUME NEW K \in SUBSET Storages, nx[x] \in K, Closed(nx, K) PROVE nx[z] \in K
          BY <3>1, <4>1, <5>2 DEF Closed
        <5> QED BY <3>1, <4>1, <5>1, <5>2
      <4> QED BY <3>1, <4>1 DEF Closed
    <3>4. nx[x] # Null => nx[x] \in F[nx[x]]
      BY <3>1, Numbers
    <3>5. {x} \cup F[nx[x]] \in SUBSET Storages /\ Closed(nx, {x} \cup F[nx[x]])
      BY <3>1, <3>3, <3>4 DEF Closed
    <3>6. F[x] \subseteq {x} \cup F[nx[x]]
      BY <2>2, <3>5
    <3>7. ASSUME NEW y \in {x} \cup F[nx[x]] PROVE y \in F[x]
      <4>1. y \in Storages
        BY <3>5
      <4>2. ASSUME NEW K \in SUBSET Storages, x \in K, Closed(nx, K) PROVE y \in K
        <5>1. CASE y = x
          BY <4>2, <5>1
        <5>2. CASE y \in F[nx[x]]
          <6>1. nx[x] # Null
            BY <3>1, <5>2
          <6>2. nx[x] \in K
            BY <4>2, <6>1 DEF Closed
          <6> QED BY <3>1, <4>2, <5>2, <6>2
        <5> QED BY <5>1, <5>2
      <4> QED BY <2>2, <4>1, <4>2
    <3> QED BY <3>2, <3>6, <3>7
  <2> QED BY <2>1, <2>2
<1>2. F = G
  BY <1>1
<1>3. F = [x \in Places |-> IF x = Null THEN {} ELSE {x} \cup F[nx[x]]]
  BY <1>2
<1> HIDE DEF F
<1>4. \E C : C = [x \in Places |-> IF x = Null THEN {} ELSE {x} \cup C[nx[x]]]
  BY <1>3
<1> QED BY <1>4, Zenon DEF ChainFcn

\* A chain starts with its first storage and goes on with the chain of its link.
LEMMA ChainUnfolds ==
  ASSUME NEW nx, Ordered(nx)
  PROVE  /\ ChainFcn(nx)[Null] = {}
         /\ \A x \in Storages : ChainFcn(nx)[x] = {x} \cup ChainFcn(nx)[nx[x]]
<1> DEFINE F == ChainFcn(nx)
<1>1. F = [x \in Places |-> IF x = Null THEN {} ELSE {x} \cup F[nx[x]]]
  BY ChainEquation
<1> HIDE DEF F
<1>2. F[Null] = {} /\ \A x \in Storages : F[x] = {x} \cup F[nx[x]]
  BY <1>1, Numbers DEF Places
<1> QED BY <1>2 DEF F

\* The storages of a chain are older than its first one.
LEMMA ChainBound ==
  ASSUME NEW nx, Ordered(nx), NEW x \in Storages
  PROVE  ChainFcn(nx)[x] \subseteq {y \in Storages : y <= x}
<1> DEFINE F == ChainFcn(nx)
           T == {n \in Nat : n \in Storages => F[n] \subseteq {y \in Storages : y <= n}}
<1>1. F[Null] = {} /\ \A z \in Storages : F[z] = {z} \cup F[nx[z]]
  BY ChainUnfolds
<1> HIDE DEF F
<1>2. ASSUME NEW n \in Nat, \A m \in Nat : m < n => m \in T PROVE n \in T
  <2>1. SUFFICES ASSUME n \in Storages PROVE F[n] \subseteq {y \in Storages : y <= n}
    OBVIOUS
  <2>2. F[n] = {n} \cup F[nx[n]]
    BY <1>1, <2>1
  <2>3. CASE nx[n] = Null
    BY <1>1, <2>1, <2>2, <2>3
  <2>4. CASE nx[n] # Null
    <3>1. nx[n] \in Storages /\ nx[n] \in Nat /\ nx[n] < n
      BY <2>1, <2>4, Numbers DEF Ordered
    <3>2. F[nx[n]] \subseteq {y \in Storages : y <= nx[n]}
      BY <1>2, <3>1
    <3>3. ASSUME NEW y \in F[nx[n]] PROVE y \in Storages /\ y <= n
      BY <2>1, <3>1, <3>2, Numbers
    <3> QED BY <2>1, <2>2, <3>3
  <2> QED BY <2>3, <2>4
<1>3. Nat \subseteq T
  <2> HIDE DEF T
  <2> QED BY <1>2, StrongInduction
<1>4. x \in T
  BY <1>3, Numbers
<1> QED BY <1>4 DEF F

\* The recursive definition of NextPtr has a solution: the newest storage of the
\* chain that is not deleted.
LEMMA NextUnfolds ==
  ASSUME NEW nx, Ordered(nx), NEW del
  PROVE  /\ NextFcn(nx, del)[Null] = Null
         /\ \A x \in Storages \ del : NextFcn(nx, del)[x] = x
         /\ \A x \in Storages \cap del : NextFcn(nx, del)[x] = NextFcn(nx, del)[nx[x]]
<1> DEFINE C == ChainFcn(nx)
           L(x) == C[x] \ del
           Newest(B) == CHOOSE m \in B : \A y \in B : y <= m
           F == [x \in Places |-> IF L(x) = {} THEN Null ELSE Newest(L(x))]
           G == [x \in Places |-> IF x = Null \/ x \notin del THEN x ELSE F[nx[x]]]
<1>1. C[Null] = {} /\ \A z \in Storages : C[z] = {z} \cup C[nx[z]]
  BY ChainUnfolds
<1>2. \A z \in Storages : C[z] \subseteq {y \in Storages : y <= z}
  BY ChainBound
<1> HIDE DEF C
<1>3. ASSUME NEW x \in Places PROVE F[x] = G[x]
  <2>1. CASE x = Null
    BY <1>1, <2>1
  <2>2. CASE x # Null /\ x \notin del
    <3>1. x \in Storages /\ x \in L(x) /\ x \in Nat
      BY <1>1, <2>2, Numbers
    <3>2. \A y \in L(x) : y \in Nat /\ y <= x
      BY <1>2, <3>1, Numbers
    <3>3. Newest(L(x)) = x
      <4>1. \E m \in L(x) : \A y \in L(x) : y <= m
        BY <3>1, <3>2
      <4>2. Newest(L(x)) \in L(x) /\ \A y \in L(x) : y <= Newest(L(x))
        BY <4>1, Zenon
      <4>3. Newest(L(x)) <= x /\ x <= Newest(L(x)) /\ Newest(L(x)) \in Nat
        BY <3>1, <3>2, <4>2
      <4> HIDE DEF Newest, L
      <4> QED BY <3>1, <4>3
    <3> QED BY <2>2, <3>1, <3>3
  <2>3. CASE x # Null /\ x \in del
    <3>1. x \in Storages /\ nx[x] \in Places
      BY <2>3, Numbers DEF Ordered
    <3>2. L(x) = L(nx[x])
      BY <1>1, <2>3, <3>1
    <3> HIDE DEF L
    <3>3. F[x] = F[nx[x]]
      BY <3>1, <3>2
    <3> QED BY <2>3, <3>3
  <2> QED BY <2>1, <2>2, <2>3
<1>4. F = G
  <2> HIDE DEF L, Newest
  <2> QED BY <1>3
<1>5. F = [x \in Places |-> IF x = Null \/ x \notin del THEN x ELSE F[nx[x]]]
  BY <1>4
<1> HIDE DEF F
<1>6. \E N : N = [x \in Places |-> IF x = Null \/ x \notin del THEN x ELSE N[nx[x]]]
  BY <1>5
<1> DEFINE N == NextFcn(nx, del)
<1>7. N = [x \in Places |-> IF x = Null \/ x \notin del THEN x ELSE N[nx[x]]]
  BY <1>6, Zenon DEF NextFcn
<1> HIDE DEF N
<1>8. /\ N[Null] = Null
      /\ \A x \in Storages \ del : N[x] = x
      /\ \A x \in Storages \cap del : N[x] = N[nx[x]]
  BY <1>7, Numbers DEF Places
<1> QED BY <1>8 DEF N

\* The next storage is not newer.
LEMMA NextFacts ==
  ASSUME NEW nx, Ordered(nx), NEW del, NEW x \in Storages
  PROVE  LET n == NextFcn(nx, del)[x] IN
         n \in Places /\ n <= x /\ (n # Null /\ x >= 1 => n >= 1)
<1> DEFINE N == NextFcn(nx, del)
           P(n) == N[n] \in Places /\ N[n] <= n /\ (N[n] # Null /\ n >= 1 => N[n] >= 1)
           T == {n \in Nat : n \in Storages => P(n)}
<1>2. /\ N[Null] = Null
      /\ \A z \in Storages \ del : N[z] = z
      /\ \A z \in Storages \cap del : N[z] = N[nx[z]]
  BY NextUnfolds
<1> HIDE DEF N
<1>3. ASSUME NEW n \in Nat, \A m \in Nat : m < n => m \in T PROVE n \in T
  <2>1. SUFFICES ASSUME n \in Storages PROVE P(n)
    OBVIOUS
  <2>2. CASE n \notin del
    BY <1>2, <2>1, <2>2, Numbers DEF Places
  <2>3. CASE n \in del
    <3>1. N[n] = N[nx[n]]
      BY <1>2, <2>1, <2>3
    <3>2. CASE nx[n] = Null
      BY <1>2, <3>1, <3>2, Numbers DEF Places
    <3>3. CASE nx[n] # Null
      <4>1. nx[n] \in Storages /\ nx[n] \in Nat /\ nx[n] < n /\ nx[n] >= 1
        BY <2>1, <3>3, Numbers DEF Ordered
      <4>2. P(nx[n])
        BY <1>3, <4>1
      <4>3. N[nx[n]] \in Int
        BY <4>2, Numbers
      <4> QED BY <3>1, <4>1, <4>2, <4>3, Numbers
    <3> QED BY <3>2, <3>3
  <2> QED BY <2>2, <2>3
<1>4. Nat \subseteq T
  <2> HIDE DEF T
  <2> QED BY <1>3, StrongInduction
<1>5. x \in T
  BY <1>4, Numbers
<1> QED BY <1>5 DEF N

-----------------------------------------------------------------------------
(* The inductive invariant                                                  *)

\* The places of a thread; those where it fills, or empties, the slots it owns.
PCs == {"idle", "clean", "share", "swap", "link", "cas", "popped", "take", "push", "write",
        "commit", "rollback", "pop", "read", "vacate", "delete", "advance", "pop_all"}
OnStack == {"idle", "clean", "share", "swap", "link", "cas", "popped", "take"}
Filling == {"write", "commit", "rollback"}
Emptying == {"read", "vacate"}
Owning == Filling \cup Emptying
\* The links of the stack: null, or a linked storage.
Links == {Null} \cup (1 .. alloc)

\* A storage that is not allocated is empty.
StorageType ==
  /\ meta \in [Storages -> Bitmaps] /\ slot \in [Storages -> [Slots -> 0 .. MaxValues]]
  /\ \A s \in Storages : s > alloc => meta[s] = NoBits

\* The links lead to older storages.
StackType ==
  /\ alloc \in 0 .. MaxStorages /\ newest \in Links /\ deleted \in SUBSET (1 .. alloc)
  /\ Ordered(next) /\ \A s \in Storages : next[s] \in Links

ValueType ==
  /\ fresh \in 0 .. MaxValues /\ out \in SUBSET (0 .. MaxValues)
  /\ hand \in [Threads -> SUBSET (0 .. MaxValues)]

ThreadType ==
  /\ pc \in [Threads -> PCs] /\ op \in [Threads -> {"none", "push", "pop", "pop_all"}]
  /\ bits \in [Threads -> Bitmaps] /\ mine \in [Threads -> SUBSET Slots]
  /\ at \in [Threads -> Links \cup {Primary}] /\ top \in [Threads -> Links]

RefType == ref \in [Threads -> Links] /\ link \in [Threads -> Links]

TypeInv == StorageType /\ StackType /\ ValueType /\ ThreadType

\* The operation of a thread, and what it has in its hands, at each place.
OpInv(t) ==
  /\ pc[t] = "idle" => op[t] = "none" /\ hand[t] = {}
  /\ pc[t] \in {"push", "link", "cas"} \cup Filling => op[t] = "push"
  /\ pc[t] \in {"pop", "delete", "advance"} => op[t] = "pop"
  /\ pc[t] \in {"popped", "take", "pop_all"} => op[t] = "pop_all"
  /\ pc[t] \in {"clean", "share", "swap"} => op[t] \in {"push", "pop", "pop_all"}
  /\ pc[t] \in Emptying => op[t] \in {"pop", "pop_all"}
  /\ pc[t] \notin OnStack => at[t] # Null
  /\ pc[t] \in {"idle", "popped", "take"} => at[t] = Null
  /\ pc[t] = "take" => top[t] # Null
  /\ pc[t] \in {"delete", "advance"} => at[t] # Primary
  /\ op[t] = "push" => \E v \in Values : hand[t] = {v}

\* A push owns one slot, which has no instance; a pop or pop_all owns slots that have
\* one.  A value that is written, or read, is in the slot and in the hands.
MineInv(t) ==
  /\ pc[t] \notin Filling \cup Emptying => mine[t] = {}
  /\ pc[t] \in Filling => \E i \in Slots : mine[t] = {i} /\ i \notin meta[at[t]].instance
  /\ pc[t] \in Filling \cup Emptying => mine[t] \subseteq meta[at[t]].owned
  /\ pc[t] \in Emptying => mine[t] \subseteq meta[at[t]].instance
  /\ pc[t] \in {"commit", "rollback"} => \A i \in mine[t] : hand[t] = {slot[at[t]][i]}
  /\ pc[t] = "vacate" => \A i \in mine[t] : slot[at[t]][i] \in hand[t]

\* No two threads own the same slot; a slot with an instance is owned by a thread that
\* empties it.
OwnedInv ==
  /\ \A t, u \in Threads : t # u /\ at[t] = at[u] => mine[t] \cap mine[u] = {}
  /\ \A s \in Storages : \A i \in meta[s].instance \cap meta[s].owned :
        \E t \in Threads : at[t] = s /\ pc[t] \in Emptying /\ i \in mine[t]

\* A linked storage that a pop or pop_all has seen with no valid slot, or no instance, has
\* none: no push is accepted by it any more.
StaleInv(t) ==
  /\ pc[t] \in {"pop", "pop_all"} /\ at[t] # Primary =>
       /\ Valid(bits[t]) = {} => Valid(meta[at[t]]) = {}
       /\ bits[t].instance = {} => meta[at[t]].instance = {}
  /\ pc[t] = "delete" => meta[at[t]].instance = {}

\* A slot whose value has been read; one whose value is still in it.
Vacated(s, i) == \E t \in Threads : pc[t] = "vacate" /\ at[t] = s /\ i \in mine[t]
Kept(s, i) == i \in meta[s].instance /\ ~Vacated(s, i)

\* A value is returned, or in one hand, or in one slot that keeps it.
ValueInv ==
  /\ out \subseteq 1 .. fresh
  /\ \A t \in Threads : hand[t] \subseteq 1 .. fresh /\ hand[t] \cap out = {}
  /\ \A t, u \in Threads : t # u => hand[t] \cap hand[u] = {}
  /\ \A s \in Storages, i \in Slots : Kept(s, i) =>
       /\ slot[s][i] \in 1 .. fresh /\ slot[s][i] \notin out
       /\ \A t \in Threads : slot[s][i] \notin hand[t]
  /\ \A s, r \in Storages, i, j \in Slots :
       Kept(s, i) /\ Kept(r, j) /\ slot[s][i] = slot[r][j] => s = r /\ i = j
  /\ \A v \in 1 .. fresh : \/ v \in out \/ \E t \in Threads : v \in hand[t]
                           \/ \E s \in Storages, i \in Slots : Kept(s, i) /\ slot[s][i] = v

\* The thread takes the values of a storage that it has popped.
Draining(t, s) == op[t] = "pop_all" /\ at[t] = s
Emptyish(s) == Valid(meta[s]) = {} \/ \E t \in Threads : Draining(t, s)
\* A deleted storage has no valid slot, or a pop_all is draining it.
StackInv == \A s \in deleted : Emptyish(s)

LocalInv ==
  /\ TypeInv /\ RefType /\ OwnedInv
  /\ \A t \in Threads : OpInv(t) /\ MineInv(t) /\ StaleInv(t)

BagInv == LocalInv /\ ValueInv /\ StackInv

\* The storage behind another one is older.
LEMMA NextPtrFacts ==
  ASSUME StackType, NEW s \in 1 .. alloc
  PROVE  NextPtr(s) \in Links /\ NextPtr(s) < s
<1> DEFINE n == NextPtr(s)
<1>1. n = NextFcn(next, deleted)[next[s]]
  BY NextPtrIsFcn
<1>2. s \in Storages /\ s \in Nat /\ s # Primary /\ Ordered(next) /\ alloc \in Nat /\ s <= alloc
  BY Numbers DEF StackType
<1>5. n \in Places /\ n < s /\ (n # Null => n >= 1)
  <2>1. CASE next[s] = Null
    <3>1. n = Null
      BY <1>1, <1>2, <2>1, NextUnfolds
    <3> HIDE DEF n
    <3> QED BY <1>2, <3>1, Numbers DEF Places
  <2>2. CASE next[s] # Null
    <3>1. next[s] \in Storages /\ next[s] < s /\ next[s] >= 1 /\ next[s] \in Nat
      BY <1>2, <2>2, Numbers DEF Ordered
    <3>2. n \in Places /\ n <= next[s] /\ (n # Null => n >= 1)
      BY <1>1, <1>2, <3>1, NextFacts
    <3> HIDE DEF n
    <3> QED BY <1>2, <3>1, <3>2, Numbers
  <2> QED BY <2>1, <2>2
<1> HIDE DEF n
<1>6. n \in Links
  BY <1>2, <1>5, Numbers DEF Links
<1> QED BY <1>5, <1>6 DEF n

\* When next_ptr moves links on, they lead to older storages still.
LEMMA UnlinkFacts ==
  ASSUME StackType, NEW s \in 1 .. alloc, Unlink(s)
  PROVE  Ordered(next') /\ \A x \in Storages : next'[x] \in Links
<1>1. PICK n : n = NextPtr(s)
  OBVIOUS
<1>2. n \in Links /\ n < s /\ n \in Places /\ (n # Null => n >= 1)
  BY <1>1, NextPtrFacts, Numbers DEF StackType, Links, Places
<1>3. /\ next' \in [Storages -> Places]
      /\ \A x \in Storages : (next'[x] = n /\ n < x) \/ next'[x] = next[x]
  BY <1>1, <1>2 DEF Unlink, StackType, Ordered
<1> QED BY <1>2, <1>3 DEF StackType, Ordered

\* What TypeInv says of the pointers of a thread.
PlaceFact(t) ==
  /\ top[t] \in Links /\ at[t] \in Links \cup {Primary} /\ newest \in Links
  /\ at[t] # Null => at[t] \in Storages /\ meta[at[t]] \in Bitmaps
  /\ at[t] # Null /\ at[t] # Primary => at[t] \in 1 .. alloc
  /\ top[t] # Null => top[t] \in 1 .. alloc /\ top[t] \in Storages /\ meta[top[t]] \in Bitmaps
  /\ meta[Primary] \in Bitmaps /\ NoBits \in Bitmaps
  /\ Links \subseteq Places /\ alloc \in Nat /\ alloc <= MaxStorages

\* Pointers of a thread are storages that are allocated, or null.
LEMMA PlaceFacts ==
  ASSUME TypeInv, NEW t \in Threads
  PROVE  PlaceFact(t)
<1>1. top[t] \in Links /\ at[t] \in Links \cup {Primary} /\ newest \in Links
  BY DEF TypeInv, ThreadType, StackType
<1>2. alloc \in Nat /\ alloc <= MaxStorages
  BY Numbers DEF TypeInv, StackType
<1>3. \A s \in 1 .. alloc : s \in Storages
  BY <1>2, Numbers
<1>4. Links \subseteq Places /\ \A s \in Links : s # Null => s \in 1 .. alloc
  BY <1>3 DEF Links, Places
<1>5. \A s \in Storages : meta[s] \in Bitmaps
  BY DEF TypeInv, StorageType
<1>6. NoBits \in Bitmaps
  BY DEF NoBits, Bitmaps
<1> QED BY <1>1, <1>2, <1>3, <1>4, <1>5, <1>6, Numbers DEF PlaceFact

\* The lowest slot of a set is one of its slots.
LEMMA LowestFacts ==
  ASSUME NEW S \in SUBSET Slots, S # {}
  PROVE  Lowest(S) \in S
<1>1. S \in SUBSET Nat
  BY Numbers
<1>2. \E i \in S : \A j \in S : i <= j
  BY <1>1, LeastElement
<1> QED BY <1>2 DEF Lowest

\* The value of a set with one value.
LEMMA OneValue ==
  ASSUME NEW S, NEW v, S = {v}
  PROVE  (CHOOSE x \in S : TRUE) = v
  OBVIOUS

\* The first step of a push keeps the types.
LEMMA TypeBeginPush ==
  ASSUME TypeInv, NEW t \in Threads, OpInv(t), MineInv(t), BeginPush(t)
  PROVE  TypeInv'
<1>1. PlaceFact(t)
  BY PlaceFacts
<1>3. StorageType'
  BY <1>1, Numbers DEF TypeInv, OpInv, StorageType, StackType, ValueType, PlaceFact, Goto,
       stackVars, BeginPush, Use, Bitmaps
<1>4. StackType'
  BY <1>1, Numbers DEF TypeInv, OpInv, StackType, Goto, stackVars, BeginPush, Use, PlaceFact,
       Ordered, Links
<1>5. ValueType'
  BY <1>1, Numbers DEF TypeInv, OpInv, StorageType, ValueType, PlaceFact, Goto, stackVars,
       BeginPush, Use, Values
<1>6. ThreadType'
  BY <1>1, Numbers DEF TypeInv, OpInv, ThreadType, PlaceFact, Goto, stackVars, BeginPush, Use,
       PCs, Links
<1> QED BY <1>3, <1>4, <1>5, <1>6 DEF TypeInv

\* The first step of a pop keeps the types.
LEMMA TypeBeginPop ==
  ASSUME TypeInv, NEW t \in Threads, OpInv(t), MineInv(t), BeginPop(t)
  PROVE  TypeInv'
<1>1. PlaceFact(t)
  BY PlaceFacts
<1>3. StorageType'
  BY <1>1, Numbers DEF TypeInv, OpInv, StorageType, StackType, ValueType, PlaceFact, Goto,
       stackVars, BeginPop, Bitmaps
<1>4. StackType'
  BY <1>1, Numbers DEF TypeInv, OpInv, StackType, Goto, stackVars, BeginPop, PlaceFact, Ordered,
       Links
<1>5. ValueType'
  BY <1>1, Numbers DEF TypeInv, OpInv, StorageType, ValueType, PlaceFact, Goto, stackVars,
       BeginPop, Values
<1>6. ThreadType'
  BY <1>1, Numbers DEF TypeInv, OpInv, ThreadType, PlaceFact, Goto, stackVars, BeginPop, PCs, Links
<1> QED BY <1>3, <1>4, <1>5, <1>6 DEF TypeInv

\* The first step of a pop_all keeps the types.
LEMMA TypeBeginPopAll ==
  ASSUME TypeInv, NEW t \in Threads, OpInv(t), MineInv(t), BeginPopAll(t)
  PROVE  TypeInv'
<1>1. PlaceFact(t)
  BY PlaceFacts
<1>3. StorageType'
  BY <1>1, Numbers DEF TypeInv, OpInv, StorageType, StackType, ValueType, PlaceFact, Goto,
       stackVars, BeginPopAll, Bitmaps
<1>4. StackType'
  BY <1>1, Numbers DEF TypeInv, OpInv, StackType, Goto, stackVars, BeginPopAll, PlaceFact,
       Ordered, Links
<1>5. ValueType'
  BY <1>1, Numbers DEF TypeInv, OpInv, StorageType, ValueType, PlaceFact, Goto, stackVars,
       BeginPopAll, Values
<1>6. ThreadType'
  BY <1>1, Numbers DEF TypeInv, OpInv, ThreadType, PlaceFact, Goto, stackVars, BeginPopAll, PCs,
       Links
<1> QED BY <1>3, <1>4, <1>5, <1>6 DEF TypeInv

\* The next_ptr of cleanup_newest keeps the types.
LEMMA TypeCleanNext ==
  ASSUME TypeInv, NEW t \in Threads, OpInv(t), MineInv(t), CleanNext(t)
  PROVE  TypeInv'
<1>1. PlaceFact(t)
  BY PlaceFacts
<1>2. top[t] # Null /\ Unlink(top[t]) /\ UNCHANGED <<newest, deleted, alloc>>
  BY DEF CleanNext
<1>3. Ordered(next') /\ \A x \in Storages : next'[x] \in Links
  BY <1>1, <1>2, UnlinkFacts DEF TypeInv, PlaceFact
<1>4. StorageType' /\ ValueType'
  BY DEF TypeInv, StorageType, ValueType, CleanNext
<1>5. StackType'
  BY <1>2, <1>3 DEF TypeInv, StackType, Links
<1>6. ThreadType'
  BY DEF TypeInv, ThreadType, Goto, CleanNext, PCs, Links
<1> QED BY <1>4, <1>5, <1>6 DEF TypeInv

\* The compare_exchange of cleanup_newest keeps the types.
LEMMA TypeCleanSwap ==
  ASSUME TypeInv, RefType, NEW t \in Threads, OpInv(t), MineInv(t), CleanSwap(t)
  PROVE  TypeInv'
<1>1. PlaceFact(t) /\ ref[t] \in Links
  BY PlaceFacts DEF RefType
<1>2. newest' \in Links /\ \E l \in Links : top' = [top EXCEPT ![t] = l]
  BY <1>1 DEF CleanSwap, PlaceFact
<1>4. StorageType' /\ ValueType'
  BY DEF TypeInv, StorageType, ValueType, CleanSwap
<1>5. StackType'
  BY <1>2 DEF TypeInv, StackType, CleanSwap, Links
<1>6. ThreadType'
  BY <1>2 DEF TypeInv, ThreadType, Goto, CleanSwap, PCs, Links
<1> QED BY <1>4, <1>5, <1>6 DEF TypeInv

\* A get_shared, and the first step of Stack::pop, keep the types.
LEMMA TypeShare ==
  ASSUME TypeInv, NEW t \in Threads, CleanShare(t) \/ LinkShare(t) \/ Pop(t)
  PROVE  TypeInv'
<1>1. /\ UNCHANGED <<meta, slot, newest, next, deleted, alloc, fresh, out, op, at, top, bits, mine,
                     hand>>
      /\ \E l \in PCs : pc' = [pc EXCEPT ![t] = l]
  BY DEF CleanShare, LinkShare, Pop, Goto, stackVars, PCs
<1> QED BY <1>1 DEF TypeInv, StorageType, StackType, ValueType, ThreadType, Links

\* The deletion of the newest storage in Stack::pop keeps the types.
LEMMA TypeTake ==
  ASSUME TypeInv, NEW t \in Threads, OpInv(t), MineInv(t), Take(t)
  PROVE  TypeInv'
<1>1. PlaceFact(t) /\ top[t] # Null
  BY PlaceFacts DEF OpInv, Take
<1>2. top[t] \in 1 .. alloc
  BY <1>1 DEF PlaceFact
<1>4. StorageType' /\ ValueType'
  BY DEF TypeInv, StorageType, ValueType, Take
<1>5. StackType'
  BY <1>2 DEF TypeInv, StackType, Take, Links
<1>6. ThreadType'
  BY <1>1 DEF TypeInv, ThreadType, Goto, Take, PlaceFact, PCs, Links
<1> QED BY <1>4, <1>5, <1>6 DEF TypeInv

\* The end of a clean-up in Stack::pop keeps the types.
LEMMA TypePopped ==
  ASSUME TypeInv, NEW t \in Threads, OpInv(t), MineInv(t), Popped(t)
  PROVE  TypeInv'
<1>1. PlaceFact(t)
  BY PlaceFacts
<1>4. StorageType' /\ ValueType'
  BY DEF TypeInv, StorageType, StackType, ValueType, Popped, stackVars
<1>5. StackType'
  BY DEF TypeInv, StackType, Popped, stackVars, Links
<1>6. ThreadType'
  BY <1>1, Numbers DEF TypeInv, ThreadType, Goto, Popped, Use, PlaceFact, stackVars, PCs, Links
<1> QED BY <1>4, <1>5, <1>6 DEF TypeInv

\* A peek at the newest storage keeps the types.
LEMMA TypePeeked ==
  ASSUME TypeInv, NEW t \in Threads, OpInv(t), MineInv(t), Peeked(t)
  PROVE  TypeInv'
<1>1. PlaceFact(t)
  BY PlaceFacts
<1>3. StorageType'
  BY <1>1, Numbers DEF TypeInv, OpInv, StorageType, StackType, ValueType, PlaceFact, Goto,
       stackVars, Peeked, Use, Bitmaps
<1>4. StackType'
  BY <1>1, Numbers DEF TypeInv, OpInv, StackType, Goto, stackVars, Peeked, Use, PlaceFact,
       Ordered, Links
<1>5. ValueType'
  BY <1>1, Numbers DEF TypeInv, OpInv, StorageType, ValueType, PlaceFact, Goto, stackVars,
       Peeked, Use, Values
<1>6. ThreadType'
  BY <1>1, Numbers DEF TypeInv, OpInv, ThreadType, PlaceFact, Goto, stackVars, Peeked, Use, PCs,
       Links
<1> QED BY <1>3, <1>4, <1>5, <1>6 DEF TypeInv

\* The push of a storage keeps the types.
LEMMA TypeLink ==
  ASSUME TypeInv, RefType, NEW t \in Threads, OpInv(t), MineInv(t), Link(t)
  PROVE  TypeInv'
<1>1. PlaceFact(t) /\ link[t] \in Links
  BY PlaceFacts DEF RefType
<1>3. StorageType'
  <2>1. CASE newest # top[t]
    BY <2>1 DEF TypeInv, StorageType, Link, stackVars
  <2>2. CASE newest = top[t]
    <3>1. alloc + 1 \in Storages /\ alloc' = alloc + 1 /\ 0 \in Slots
      BY <1>1, <2>2, Numbers, BagAssumption DEF Link, PlaceFact, Slots
    <3>2. PICK v \in Values : hand[t] = {v}
      BY DEF OpInv, Link
    <3>3. slot' = [slot EXCEPT ![alloc + 1][0] = v]
      BY <2>2, <3>1, <3>2, OneValue DEF Link
    <3>4. meta' = [meta EXCEPT ![alloc + 1].instance = {0}]
      BY <2>2, <3>1 DEF Link
    <3>5. slot' \in [Storages -> [Slots -> 0 .. MaxValues]]
      BY <3>1, <3>2, <3>3, Numbers DEF TypeInv, StorageType, Values
    <3>6. meta' \in [Storages -> Bitmaps]
      BY <3>1, <3>4 DEF TypeInv, StorageType, Bitmaps
    <3>7. \A s \in Storages : s > alloc + 1 => meta'[s] = NoBits
      BY <1>1, <3>1, <3>4, Numbers DEF TypeInv, StorageType, PlaceFact
    <3> QED BY <3>1, <3>5, <3>6, <3>7 DEF StorageType
  <2> QED BY <2>1, <2>2
<1>4. StackType'
  BY <1>1, Numbers DEF TypeInv, OpInv, StackType, Goto, stackVars, Link, Done, PlaceFact,
       Ordered, Links
<1>5. ValueType'
  BY <1>1, Numbers DEF TypeInv, OpInv, StorageType, ValueType, PlaceFact, Goto, stackVars, Link,
       Done, Values
<1>6. ThreadType'
  BY <1>1, Numbers DEF TypeInv, OpInv, ThreadType, PlaceFact, Goto, stackVars, Link, Done, PCs,
       Links
<1> QED BY <1>3, <1>4, <1>5, <1>6 DEF TypeInv

\* A push that looks for a slot keeps the types.
LEMMA TypePushOwn ==
  ASSUME TypeInv, NEW t \in Threads, OpInv(t), MineInv(t), PushOwn(t)
  PROVE  TypeInv'
<1>1. PlaceFact(t)
  BY PlaceFacts
<1>3. StorageType' /\ mine' \in [Threads -> SUBSET Slots]
  <2>1. CASE meta' = meta /\ mine' = mine
    BY <2>1 DEF TypeInv, StorageType, StackType, ThreadType, PushOwn, stackVars
  <2>2. CASE ~(meta' = meta /\ mine' = mine)
    <3> DEFINE i == Lowest(Free(bits[t]))
    <3>1. Free(bits[t]) # {} /\ meta' = [meta EXCEPT ![at[t]].owned = @ \cup {i}]
          /\ mine' = [mine EXCEPT ![t] = {i}]
      BY <2>2 DEF PushOwn
    <3>2. Free(bits[t]) \in SUBSET Slots
      BY DEF TypeInv, ThreadType, Bitmaps, Free
    <3>3. i \in Slots
      BY <3>1, <3>2, LowestFacts
    <3> HIDE DEF i
    <3>4. at[t] \in Storages /\ at[t] <= alloc /\ at[t] \in Nat
      BY <1>1, Numbers DEF OnStack, PlaceFact, OpInv, PushOwn, Owning, Filling, Emptying, Links
    <3>5. meta' \in [Storages -> Bitmaps]
      BY <3>1, <3>3, <3>4 DEF TypeInv, StorageType, Bitmaps
    <3>6. \A s \in Storages : s > alloc => meta'[s] = NoBits
      BY <1>1, <3>1, <3>4, Numbers DEF TypeInv, StorageType, PlaceFact
    <3> QED BY <3>1, <3>3, <3>5, <3>6 DEF TypeInv, StorageType, ThreadType, PushOwn, stackVars
  <2> QED BY <2>1, <2>2
<1>4. StackType'
  BY <1>1, Numbers DEF TypeInv, OpInv, StackType, Goto, stackVars, PushOwn, Refused, Rejects,
       AllowEmpty, PlaceFact, Ordered, Links
<1>5. ValueType'
  BY <1>1, Numbers DEF TypeInv, OpInv, StorageType, ValueType, PlaceFact, Goto, stackVars,
       PushOwn, Refused, Rejects, AllowEmpty, Values
<1>6. ThreadType'
  <2>1. pc' \in [Threads -> PCs] /\ op' \in [Threads -> {"none", "push", "pop", "pop_all"}]
    BY DEF TypeInv, ThreadType, PushOwn, Refused, Goto, PCs
  <2>2. bits' \in [Threads -> Bitmaps]
    BY <1>1 DEF OnStack, TypeInv, ThreadType, PushOwn, Refused, PlaceFact, OpInv, Owning, Filling, Emptying
  <2>3. Links' = Links
    BY DEF Links, PushOwn, stackVars
  <2>4. at' \in [Threads -> Links \cup {Primary}] /\ top' \in [Threads -> Links]
    BY <1>1 DEF TypeInv, ThreadType, PushOwn, Refused, PlaceFact, Links
  <2> QED BY <1>3, <2>1, <2>2, <2>3, <2>4 DEF ThreadType
<1> QED BY <1>3, <1>4, <1>5, <1>6 DEF TypeInv

\* The write of a push keeps the types.
LEMMA TypePushWrite ==
  ASSUME TypeInv, NEW t \in Threads, OpInv(t), MineInv(t), PushWrite(t)
  PROVE  TypeInv'
<1>1. PlaceFact(t)
  BY PlaceFacts
<1>3. StorageType'
  <2>1. PICK v \in Values : hand[t] = {v}
    BY DEF OpInv, PushWrite, Filling
  <2>2. PICK i \in Slots : mine[t] = {i}
    BY DEF MineInv, PushWrite, Filling
  <2>3. Lowest(mine[t]) = i
    BY <2>2, LowestFacts
  <2>4. slot' = [slot EXCEPT ![at[t]][i] = v] /\ meta' = meta /\ alloc' = alloc
    BY <2>1, <2>3, OneValue DEF PushWrite, stackVars
  <2>5. slot' \in [Storages -> [Slots -> 0 .. MaxValues]]
    <3>1. v \in 0 .. MaxValues
      BY Numbers DEF Values
    <3>2. at[t] \in Storages
      BY <1>1 DEF OnStack, PlaceFact, OpInv, PushWrite, Owning, Filling, Emptying
    <3> QED BY <2>4, <3>1, <3>2 DEF TypeInv, StorageType
  <2> QED BY <2>4, <2>5 DEF TypeInv, StorageType
<1>4. StackType'
  BY <1>1, Numbers DEF TypeInv, OpInv, StackType, Goto, stackVars, PushWrite, PlaceFact, Ordered,
       Links
<1>5. ValueType'
  BY <1>1, Numbers DEF TypeInv, OpInv, StorageType, ValueType, PlaceFact, Goto, stackVars,
       PushWrite, Values
<1>6. ThreadType'
  BY <1>1, Numbers DEF TypeInv, OpInv, ThreadType, PlaceFact, Goto, stackVars, PushWrite, PCs, Links
<1> QED BY <1>3, <1>4, <1>5, <1>6 DEF TypeInv

\* The commit of a push keeps the types.
LEMMA TypePushCommit ==
  ASSUME TypeInv, NEW t \in Threads, OpInv(t), MineInv(t), PushCommit(t)
  PROVE  TypeInv'
<1>1. PlaceFact(t)
  BY PlaceFacts
<1>3. StorageType'
  <2>1. at[t] \in Storages /\ at[t] <= alloc /\ at[t] \in Nat /\ alloc' = alloc /\ slot' = slot
    BY <1>1, Numbers DEF OnStack, PlaceFact, OpInv, PushCommit, Owning, Filling, Emptying, Links, stackVars
  <2>2. mine[t] \in SUBSET Slots
    BY DEF TypeInv, ThreadType
  <2>3. CASE meta' = meta
    BY <2>1, <2>3 DEF TypeInv, StorageType
  <2>4. CASE meta' # meta
    <3>1. meta' = [meta EXCEPT ![at[t]] = [instance |-> @.instance \cup mine[t],
                                           owned |-> @.owned \ mine[t]]]
      BY <2>4 DEF PushCommit
    <3>2. meta' \in [Storages -> Bitmaps]
      BY <2>1, <2>2, <3>1 DEF TypeInv, StorageType, Bitmaps
    <3>3. \A s \in Storages : s > alloc => meta'[s] = NoBits
      BY <1>1, <2>1, <3>1, Numbers DEF TypeInv, StorageType, PlaceFact
    <3> QED BY <2>1, <3>2, <3>3 DEF TypeInv, StorageType
  <2> QED BY <2>3, <2>4
<1>4. StackType'
  BY <1>1, Numbers DEF TypeInv, OpInv, StackType, Goto, stackVars, PushCommit, Done, Rejects,
       AllowEmpty, PlaceFact, Ordered, Links
<1>5. ValueType'
  BY <1>1, Numbers DEF TypeInv, OpInv, StorageType, ValueType, PlaceFact, Goto, stackVars,
       PushCommit, Done, Rejects, AllowEmpty, Values
<1>6. ThreadType'
  BY <1>1, Numbers DEF TypeInv, OpInv, ThreadType, PlaceFact, Goto, stackVars, PushCommit, Done,
       Rejects, AllowEmpty, PCs, Links
<1> QED BY <1>3, <1>4, <1>5, <1>6 DEF TypeInv

\* The rollback of a push keeps the types.
LEMMA TypePushRollback ==
  ASSUME TypeInv, NEW t \in Threads, OpInv(t), MineInv(t), PushRollback(t)
  PROVE  TypeInv'
<1>1. PlaceFact(t)
  BY PlaceFacts
<1>3. StorageType'
  <2>1. at[t] \in Storages /\ at[t] <= alloc /\ at[t] \in Nat /\ alloc' = alloc
    BY <1>1, Numbers DEF OnStack, PlaceFact, OpInv, PushRollback, Owning, Filling, Emptying, Links, stackVars
  <2>2. slot' \in [Storages -> [Slots -> 0 .. MaxValues]]
    <3>1. PICK i \in Slots : mine[t] = {i}
      BY DEF MineInv, PushRollback, Filling
    <3>2. Lowest(mine[t]) = i /\ 0 \in 0 .. MaxValues
      BY <3>1, LowestFacts, Numbers
    <3> QED BY <2>1, <3>1, <3>2 DEF TypeInv, StorageType, PushRollback
  <2>3. meta' \in [Storages -> Bitmaps]
    BY <2>1 DEF TypeInv, StorageType, Bitmaps, PushRollback
  <2>4. \A s \in Storages : s > alloc => meta'[s] = NoBits
    BY <1>1, <2>1, Numbers DEF TypeInv, StorageType, PlaceFact, PushRollback
  <2> QED BY <2>1, <2>2, <2>3, <2>4 DEF StorageType
<1>4. StackType'
  BY <1>1, Numbers DEF TypeInv, OpInv, StackType, Goto, stackVars, PushRollback, Refused,
       PlaceFact, Ordered, Links
<1>5. ValueType'
  BY <1>1, Numbers DEF TypeInv, OpInv, StorageType, ValueType, PlaceFact, Goto, stackVars,
       PushRollback, Refused, Values
<1>6. ThreadType'
  BY <1>1, Numbers DEF TypeInv, OpInv, ThreadType, PlaceFact, Goto, stackVars, PushRollback,
       Refused, PCs, Links
<1> QED BY <1>3, <1>4, <1>5, <1>6 DEF TypeInv

\* A pop that looks for a slot keeps the types.
LEMMA TypePopOwn ==
  ASSUME TypeInv, NEW t \in Threads, OpInv(t), MineInv(t), PopOwn(t)
  PROVE  TypeInv'
<1>1. PlaceFact(t)
  BY PlaceFacts
<1>3. StorageType' /\ mine' \in [Threads -> SUBSET Slots]
  <2>1. CASE meta' = meta /\ mine' = mine
    BY <2>1 DEF TypeInv, StorageType, StackType, ThreadType, PopOwn, stackVars
  <2>2. CASE ~(meta' = meta /\ mine' = mine)
    <3> DEFINE i == Lowest(Valid(bits[t]))
    <3>1. Valid(bits[t]) # {} /\ meta' = [meta EXCEPT ![at[t]].owned = @ \cup {i}]
          /\ mine' = [mine EXCEPT ![t] = {i}]
      BY <2>2 DEF PopOwn
    <3>2. Valid(bits[t]) \in SUBSET Slots
      BY DEF TypeInv, ThreadType, Bitmaps, Valid
    <3>3. i \in Slots
      BY <3>1, <3>2, LowestFacts
    <3> HIDE DEF i
    <3>4. at[t] \in Storages /\ at[t] <= alloc /\ at[t] \in Nat
      BY <1>1, Numbers DEF OnStack, PlaceFact, OpInv, PopOwn, Owning, Filling, Emptying, Links
    <3>5. meta' \in [Storages -> Bitmaps]
      BY <3>1, <3>3, <3>4 DEF TypeInv, StorageType, Bitmaps
    <3>6. \A s \in Storages : s > alloc => meta'[s] = NoBits
      BY <1>1, <3>1, <3>4, Numbers DEF TypeInv, StorageType, PlaceFact
    <3> QED BY <3>1, <3>3, <3>5, <3>6 DEF TypeInv, StorageType, ThreadType, PopOwn, stackVars
  <2> QED BY <2>1, <2>2
<1>4. StackType'
  BY <1>1, Numbers DEF TypeInv, OpInv, StackType, Goto, stackVars, PopOwn, PopReturns, Done,
       PlaceFact, Ordered, Links
<1>5. ValueType'
  BY <1>1, Numbers DEF TypeInv, OpInv, StorageType, ValueType, PlaceFact, Goto, stackVars,
       PopOwn, PopReturns, Done, Values
<1>6. ThreadType'
  <2>1. pc' \in [Threads -> PCs] /\ op' \in [Threads -> {"none", "push", "pop", "pop_all"}]
    BY DEF TypeInv, ThreadType, PopOwn, PopReturns, Done, Goto, PCs
  <2>2. bits' \in [Threads -> Bitmaps]
    BY <1>1 DEF OnStack, TypeInv, ThreadType, PopOwn, PopReturns, Done, PlaceFact, OpInv, Owning, Filling,
         Emptying
  <2>3. Links' = Links
    BY DEF Links, PopOwn, stackVars
  <2>4. at' \in [Threads -> Links \cup {Primary}] /\ top' \in [Threads -> Links]
    BY <1>1 DEF TypeInv, ThreadType, PopOwn, PopReturns, Done, PlaceFact, Links
  <2> QED BY <1>3, <2>1, <2>2, <2>3, <2>4 DEF ThreadType
<1> QED BY <1>3, <1>4, <1>5, <1>6 DEF TypeInv

\* A read keeps the types.
LEMMA TypeRead ==
  ASSUME TypeInv, NEW t \in Threads, OpInv(t), MineInv(t), Read(t)
  PROVE  TypeInv'
<1>1. PlaceFact(t)
  BY PlaceFacts
<1>3. StorageType'
  BY <1>1, Numbers DEF TypeInv, OpInv, StorageType, StackType, ValueType, PlaceFact, Goto,
       stackVars, Read, Bitmaps
<1>4. StackType'
  BY <1>1, Numbers DEF TypeInv, OpInv, StackType, Goto, stackVars, Read, PlaceFact, Ordered, Links
<1>5. ValueType'
  <2>1. at[t] \in Storages /\ mine[t] \subseteq Slots
    BY <1>1 DEF OnStack, PlaceFact, OpInv, Read, Owning, Filling, Emptying, TypeInv, ThreadType
  <2>2. \A i \in mine[t] : slot[at[t]][i] \in 0 .. MaxValues
    BY <2>1 DEF TypeInv, StorageType
  <2>3. hand[t] \cup {slot[at[t]][i] : i \in mine[t]} \in SUBSET (0 .. MaxValues)
    BY <2>2 DEF TypeInv, ValueType
  <2> QED BY <2>3 DEF TypeInv, ValueType, Read
<1>6. ThreadType'
  BY <1>1, Numbers DEF TypeInv, OpInv, ThreadType, PlaceFact, Goto, stackVars, Read, PCs, Links
<1> QED BY <1>3, <1>4, <1>5, <1>6 DEF TypeInv

\* The end of a read keeps the types.
LEMMA TypeVacate ==
  ASSUME TypeInv, NEW t \in Threads, OpInv(t), MineInv(t), Vacate(t)
  PROVE  TypeInv'
<1>1. PlaceFact(t)
  BY PlaceFacts
<1>3. StorageType'
  BY <1>1, Numbers DEF OnStack, TypeInv, OpInv, StorageType, StackType, ValueType, PlaceFact, Goto,
       stackVars, Vacate, PopReturns, Done, Bitmaps
<1>4. StackType'
  BY <1>1, Numbers DEF TypeInv, OpInv, StackType, Goto, stackVars, Vacate, PopReturns, Done,
       PlaceFact, Ordered, Links
<1>5. ValueType'
  BY <1>1, Numbers DEF TypeInv, OpInv, StorageType, ValueType, PlaceFact, Goto, stackVars,
       Vacate, PopReturns, Done, Values
<1>6. ThreadType'
  <2>1. pc' \in [Threads -> PCs] /\ op' \in [Threads -> {"none", "push", "pop", "pop_all"}]
        /\ mine' \in [Threads -> SUBSET Slots]
    BY DEF TypeInv, ThreadType, Vacate, PopReturns, Done, Use, Goto, PCs
  <2>2. bits' \in [Threads -> Bitmaps]
    BY <1>1, Numbers DEF OnStack, TypeInv, ThreadType, StorageType, Vacate, PopReturns, Done, Use,
         PlaceFact, OpInv, Owning, Filling, Emptying, Bitmaps, Places
  <2>3. Links' = Links
    BY DEF Links, Vacate, stackVars
  <2>4. at' \in [Threads -> Links \cup {Primary}] /\ top' \in [Threads -> Links]
    BY <1>1, Numbers DEF TypeInv, ThreadType, Vacate, PopReturns, Done, Use, PlaceFact, OpInv, Links
  <2> QED BY <2>1, <2>2, <2>3, <2>4 DEF ThreadType
<1> QED BY <1>3, <1>4, <1>5, <1>6 DEF TypeInv

\* The deletion of an empty storage keeps the types.
LEMMA TypeDelete ==
  ASSUME TypeInv, NEW t \in Threads, OpInv(t), MineInv(t), Delete(t)
  PROVE  TypeInv'
<1>1. PlaceFact(t)
  BY PlaceFacts
<1>3. StorageType'
  BY <1>1, Numbers DEF TypeInv, OpInv, StorageType, StackType, ValueType, PlaceFact, Goto,
       stackVars, Delete, Bitmaps
<1>4. StackType'
  BY <1>1, Numbers DEF OnStack, TypeInv, OpInv, StackType, Goto, stackVars, Delete, PlaceFact, Ordered, Links
<1>5. ValueType'
  BY <1>1, Numbers DEF TypeInv, OpInv, StorageType, ValueType, PlaceFact, Goto, stackVars,
       Delete, Values
<1>6. ThreadType'
  BY <1>1, Numbers DEF TypeInv, OpInv, ThreadType, PlaceFact, Goto, stackVars, Delete, PCs, Links
<1> QED BY <1>3, <1>4, <1>5, <1>6 DEF TypeInv

\* The step to the next storage keeps the types.
LEMMA TypeAdvance ==
  ASSUME TypeInv, NEW t \in Threads, OpInv(t), MineInv(t), Advance(t)
  PROVE  TypeInv'
<1>1. PlaceFact(t)
  BY PlaceFacts
<1>2. at[t] # Null /\ at[t] # Primary =>
        /\ NextPtr(at[t]) \in Links
        /\ Unlink(at[t]) => Ordered(next') /\ \A x \in Storages : next'[x] \in Links
  BY <1>1, NextPtrFacts, UnlinkFacts DEF TypeInv, PlaceFact
<1>3. StorageType'
  BY <1>1, Numbers, <1>2 DEF TypeInv, OpInv, StorageType, StackType, ValueType, PlaceFact, Goto,
       stackVars, Advance, Use, Done, Bitmaps
<1>4. StackType'
  <2>1. /\ at[t] # Null /\ at[t] # Primary /\ (Unlink(at[t]) \/ next' = next)
        /\ alloc' = alloc /\ deleted' = deleted /\ newest' = newest
    BY Numbers DEF Advance, OpInv, OnStack, Owning, Filling, Emptying
  <2> QED BY <1>2, <2>1 DEF TypeInv, StackType, Links
<1>5. ValueType'
  BY <1>1, Numbers, <1>2 DEF TypeInv, OpInv, StorageType, ValueType, PlaceFact, Goto, stackVars,
       Advance, Use, Done, Values
<1>6. ThreadType'
  <2>1. pc' \in [Threads -> PCs] /\ op' \in [Threads -> {"none", "push", "pop", "pop_all"}]
        /\ mine' \in [Threads -> SUBSET Slots]
    BY DEF TypeInv, ThreadType, Advance, PopReturns, Done, Use, Goto, PCs
  <2>2. bits' \in [Threads -> Bitmaps]
    <3> DEFINE n == NextPtr(at[t])
    <3>1. n \in Links /\ (n # Null => n \in Storages)
      BY <1>1, <1>2, Numbers DEF OnStack, OpInv, Advance, PlaceFact, Places, Owning, Filling, Emptying
    <3> HIDE DEF n
    <3>2. (IF n = Null THEN Primary ELSE n) \in Storages
      BY <3>1, Numbers
    <3>3. bits' = [bits EXCEPT ![t] = NoBits]
          \/ bits' = [bits EXCEPT ![t] = meta[IF n = Null THEN Primary ELSE n]]
      BY DEF Advance, Done, Use, n
    <3> QED BY <1>1, <3>2, <3>3 DEF TypeInv, ThreadType, StorageType, PlaceFact
  <2>3. Links' = Links
    BY DEF Links, Advance, stackVars
  <2>4. at' \in [Threads -> Links \cup {Primary}] /\ top' \in [Threads -> Links]
    BY <1>1, <1>2, Numbers DEF OnStack, TypeInv, ThreadType, Advance, PopReturns, Done, Use, PlaceFact,
         OpInv, Links
  <2> QED BY <2>1, <2>2, <2>3, <2>4 DEF ThreadType
<1> QED BY <1>3, <1>4, <1>5, <1>6 DEF TypeInv

\* A pop_all that looks for slots keeps the types.
LEMMA TypePopAllOwn ==
  ASSUME TypeInv, NEW t \in Threads, OpInv(t), MineInv(t), PopAllOwn(t)
  PROVE  TypeInv'
<1>1. PlaceFact(t)
  BY PlaceFacts
<1>3. StorageType' /\ mine' \in [Threads -> SUBSET Slots]
  <2>1. CASE meta' = meta /\ mine' = mine
    BY <2>1 DEF TypeInv, StorageType, StackType, ThreadType, PopAllOwn, stackVars
  <2>2. CASE ~(meta' = meta /\ mine' = mine)
    <3>1. /\ meta' = [meta EXCEPT ![at[t]].owned = @ \cup Valid(bits[t])]
          /\ mine' = [mine EXCEPT ![t] = Valid(bits[t])]
      BY <2>2 DEF PopAllOwn
    <3>2. Valid(bits[t]) \in SUBSET Slots
      BY DEF TypeInv, ThreadType, Bitmaps, Valid
    <3>4. at[t] \in Storages /\ at[t] <= alloc /\ at[t] \in Nat
      BY <1>1, Numbers DEF OnStack, PlaceFact, OpInv, PopAllOwn, Owning, Filling, Emptying, Links
    <3>5. meta' \in [Storages -> Bitmaps]
      BY <3>1, <3>2, <3>4 DEF TypeInv, StorageType, Bitmaps
    <3>6. \A s \in Storages : s > alloc => meta'[s] = NoBits
      BY <1>1, <3>1, <3>4, Numbers DEF TypeInv, StorageType, PlaceFact
    <3> QED BY <3>1, <3>2, <3>5, <3>6 DEF TypeInv, StorageType, ThreadType, PopAllOwn, stackVars
  <2> QED BY <2>1, <2>2
<1>4. StackType'
  BY <1>1, Numbers DEF TypeInv, OpInv, StackType, Goto, stackVars, PopAllOwn, Done, PlaceFact,
       Ordered, Links
<1>5. ValueType'
  BY <1>1, Numbers DEF TypeInv, OpInv, StorageType, ValueType, PlaceFact, Goto, stackVars,
       PopAllOwn, Done, Values
<1>6. ThreadType'
  <2>1. pc' \in [Threads -> PCs] /\ op' \in [Threads -> {"none", "push", "pop", "pop_all"}]
    BY DEF TypeInv, ThreadType, PopAllOwn, Done, Goto, PCs
  <2>2. bits' \in [Threads -> Bitmaps]
    BY <1>1 DEF OnStack, TypeInv, ThreadType, PopAllOwn, Done, PlaceFact, OpInv, Owning, Filling, Emptying
  <2>3. Links' = Links
    BY DEF Links, PopAllOwn, stackVars
  <2>4. at' \in [Threads -> Links \cup {Primary}] /\ top' \in [Threads -> Links]
    BY <1>1 DEF TypeInv, ThreadType, PopAllOwn, Done, PlaceFact, Links
  <2> QED BY <1>3, <2>1, <2>2, <2>3, <2>4 DEF ThreadType
<1> QED BY <1>3, <1>4, <1>5, <1>6 DEF TypeInv

-----------------------------------------------------------------------------
(* Threads and their operations                                             *)

\* The pointers of cleanup_newest and of push_if_internal are links.
LEMMA RefStep ==
  ASSUME TypeInv, RefType, NEW t \in Threads, Step(t)
  PROVE  RefType'
<1>1. PlaceFact(t) /\ Null \in Links
  BY PlaceFacts DEF Links
<1>2. Links \subseteq Links'
  <2>1. alloc' = alloc \/ alloc' = alloc + 1
    BY DEF Step, BeginPush, BeginPop, BeginPopAll, CleanNext, CleanShare, CleanSwap, Peeked,
         LinkShare, Link, Pop, Take, Popped, PushOwn, PushWrite, PushCommit, PushRollback, PopOwn,
         Read, Vacate, Delete, Advance, PopAllOwn, stackVars
  <2> QED BY <1>1, <2>1 DEF Links, PlaceFact
<1>3. CASE CleanNext(t)
  <2>1. NextPtr(top[t]) \in Links
    BY <1>1, <1>3, NextPtrFacts DEF CleanNext, TypeInv, PlaceFact
  <2> QED BY <1>2, <1>3, <2>1 DEF CleanNext, RefType
<1>4. CASE CleanShare(t) \/ CleanSwap(t) \/ LinkShare(t) \/ Link(t)
  BY <1>1, <1>2, <1>4 DEF CleanShare, CleanSwap, LinkShare, Link, RefType, PlaceFact
<1>5. CASE ref' = ref /\ link' = link
  BY <1>2, <1>5 DEF RefType
<1> QED BY <1>3, <1>4, <1>5 DEF Step, BeginPush, BeginPop, BeginPopAll, Peeked, Pop, Take, Popped,
     PushOwn, PushWrite, PushCommit, PushRollback, PopOwn, Read, Vacate, Delete, Advance, PopAllOwn,
     refVars

OthersSame(t) ==
  \A u \in Threads \ {t} :
    /\ pc'[u] = pc[u] /\ op'[u] = op[u] /\ at'[u] = at[u] /\ top'[u] = top[u]
    /\ bits'[u] = bits[u] /\ mine'[u] = mine[u] /\ hand'[u] = hand[u]

\* A step of one thread leaves the local state of the others alone.
LEMMA Frame ==
  ASSUME TypeInv, NEW t \in Threads, Step(t)
  PROVE  OthersSame(t)
<1> USE DEF TypeInv, ThreadType, ValueType, OthersSame, Goto
<1>1. CASE BeginPush(t)
  BY <1>1 DEF BeginPush, Use
<1>2. CASE BeginPop(t)
  BY <1>2 DEF BeginPop
<1>3. CASE BeginPopAll(t)
  BY <1>3 DEF BeginPopAll
<1>4. CASE CleanNext(t) \/ CleanShare(t) \/ CleanSwap(t)
  BY <1>4 DEF CleanNext, CleanShare, CleanSwap
<1>18. CASE LinkShare(t) \/ Pop(t) \/ Take(t)
  BY <1>18 DEF LinkShare, Pop, Take
<1>5. CASE Peeked(t)
  BY <1>5 DEF Peeked, Use
<1>6. CASE Link(t)
  BY <1>6 DEF Link, Done
<1>7. CASE Popped(t)
  BY <1>7 DEF Popped, Use
<1>8. CASE PushOwn(t)
  BY <1>8 DEF PushOwn, Refused
<1>9. CASE PushWrite(t)
  BY <1>9 DEF PushWrite
<1>10. CASE PushCommit(t)
  BY <1>10 DEF PushCommit, Done
<1>11. CASE PushRollback(t)
  BY <1>11 DEF PushRollback, Refused
<1>12. CASE PopOwn(t)
  BY <1>12 DEF PopOwn, PopReturns, Done
<1>13. CASE Read(t)
  BY <1>13 DEF Read
<1>14. CASE Vacate(t)
  BY <1>14 DEF Vacate, PopReturns, Done
<1>15. CASE Delete(t)
  BY <1>15 DEF Delete
<1>16. CASE Advance(t)
  BY <1>16 DEF Advance, Use, Done
<1>17. CASE PopAllOwn(t)
  BY <1>17 DEF PopAllOwn, Done
<1> QED BY <1>1, <1>2, <1>3, <1>4, <1>5, <1>6, <1>7, <1>8, <1>9, <1>10, <1>11, <1>12, <1>13,
     <1>14, <1>15, <1>16, <1>17, <1>18 DEF Step

\* What a step says of the operation of its thread.
LEMMA OpStep ==
  ASSUME TypeInv, NEW t \in Threads, OpInv(t), MineInv(t), Step(t)
  PROVE  OpInv(t)'
<1>0. PlaceFact(t)
  BY PlaceFacts
<1> USE <1>0, Numbers DEF TypeInv, ThreadType, ValueType, OpInv, OnStack, Goto, Owning, Filling,
       Emptying, PlaceFact
<1>1. CASE BeginPush(t)
  <2>1. fresh + 1 \in Values /\ hand'[t] = {fresh + 1}
    BY <1>1 DEF BeginPush, Values
  <2> QED BY <1>1, <2>1 DEF BeginPush, Use
<1>2. CASE BeginPop(t)
  BY <1>2 DEF BeginPop
<1>3. CASE BeginPopAll(t)
  BY <1>3 DEF BeginPopAll
<1>4. CASE CleanNext(t) \/ CleanShare(t) \/ CleanSwap(t)
  BY <1>4 DEF CleanNext, CleanShare, CleanSwap
<1>18. CASE LinkShare(t) \/ Pop(t) \/ Take(t)
  BY <1>18 DEF LinkShare, Pop, Take
<1>5. CASE Peeked(t)
  BY <1>5 DEF Peeked, Use
<1>6. CASE Link(t)
  BY <1>6 DEF Link, Done
<1>7. CASE Popped(t)
  BY <1>7 DEF Popped, Use
<1>8. CASE PushOwn(t)
  BY <1>8 DEF PushOwn, Refused
<1>9. CASE PushWrite(t)
  BY <1>9 DEF PushWrite
<1>10. CASE PushCommit(t)
  BY <1>10 DEF PushCommit, Done
<1>11. CASE PushRollback(t)
  BY <1>11 DEF PushRollback, Refused
<1>12. CASE PopOwn(t)
  BY <1>12 DEF PopOwn, PopReturns, Done
<1>13. CASE Read(t)
  BY <1>13 DEF Read
<1>14. CASE Vacate(t)
  BY <1>14 DEF Vacate, PopReturns, Done
<1>15. CASE Delete(t)
  BY <1>15 DEF Delete
<1>16. CASE Advance(t)
  BY <1>16 DEF Advance, Use, Done
<1>17. CASE PopAllOwn(t)
  BY <1>17 DEF PopAllOwn, Done
<1> QED BY <1>1, <1>2, <1>3, <1>4, <1>5, <1>6, <1>7, <1>8, <1>9, <1>10, <1>11, <1>12, <1>13,
     <1>14, <1>15, <1>16, <1>17, <1>18 DEF Step

-----------------------------------------------------------------------------
(* What a step does to the slots and the values                             *)

Only(s) == \A r \in Storages \ {s} : meta'[r] = meta[r] /\ slot'[r] = slot[r]

\* Nothing: no slot is owned before or after it.
Quiet(t) ==
  /\ UNCHANGED <<meta, slot, fresh, out, hand, mine>>
  /\ pc[t] \notin Owning /\ pc'[t] \notin Owning

\* A push begins, a pop or pop_all ends, a push has to give its slot up.
Begun(t) ==
  /\ UNCHANGED <<meta, slot, out, mine>> /\ pc[t] = "idle" /\ pc'[t] \notin Owning
  /\ fresh' = fresh + 1 /\ hand'[t] = {fresh + 1}
Ended(t) ==
  /\ UNCHANGED <<meta, slot, fresh, mine>> /\ pc[t] \notin Owning /\ pc'[t] \notin Owning
  /\ out' = out \cup hand[t] /\ hand'[t] = {}
Rejected(t) ==
  /\ UNCHANGED <<meta, slot, fresh, out, hand, mine, at>>
  /\ pc[t] = "commit" /\ pc'[t] = "rollback"

\* Slots are owned, to be filled or to be emptied.
Taken(t, I) ==
  /\ UNCHANGED <<slot, fresh, out, hand, at>> /\ pc[t] \notin Owning
  /\ I \in SUBSET Slots /\ I \cap meta[at[t]].owned = {} /\ mine'[t] = I
  /\ meta'[at[t]].instance = meta[at[t]].instance
  /\ meta'[at[t]].owned = meta[at[t]].owned \cup I
  /\ Only(at[t])
  /\ \/ pc'[t] = "write" /\ \E i \in Slots : I = {i} /\ i \notin meta[at[t]].instance
     \/ pc'[t] = "read" /\ I \subseteq meta[at[t]].instance

\* A push writes its value, makes its slot valid, or gives it up.
Written(t, i, v) ==
  /\ UNCHANGED <<meta, fresh, out, hand, mine, at>> /\ pc[t] = "write" /\ pc'[t] = "commit"
  /\ mine[t] = {i} /\ hand[t] = {v} /\ slot'[at[t]][i] = v
  /\ \A j \in Slots \ {i} : slot'[at[t]][j] = slot[at[t]][j]
  /\ Only(at[t])
Stored(t, i, v) ==
  /\ UNCHANGED <<slot, fresh, out>> /\ pc[t] = "commit" /\ pc'[t] = "idle"
  /\ mine[t] = {i} /\ mine'[t] = {} /\ hand[t] = {v} /\ hand'[t] = {}
  /\ at[t] # Primary => Valid(meta[at[t]]) # {}
  /\ meta'[at[t]].instance = meta[at[t]].instance \cup {i}
  /\ meta'[at[t]].owned = meta[at[t]].owned \ {i}
  /\ Only(at[t])
RolledBack(t, i) ==
  /\ UNCHANGED <<fresh, out, hand, at>> /\ pc[t] = "rollback" /\ pc'[t] = "clean"
  /\ mine[t] = {i} /\ mine'[t] = {}
  /\ meta'[at[t]].instance = meta[at[t]].instance
  /\ meta'[at[t]].owned = meta[at[t]].owned \ {i}
  /\ \A j \in Slots \ {i} : slot'[at[t]][j] = slot[at[t]][j]
  /\ Only(at[t])

\* A pop or pop_all reads its slots, and frees them; it may end with that.
ReadOut(t) ==
  /\ UNCHANGED <<meta, slot, fresh, out, mine, at>> /\ pc[t] = "read" /\ pc'[t] = "vacate"
  /\ hand'[t] = hand[t] \cup {slot[at[t]][i] : i \in mine[t]}
Emptied(t) ==
  /\ UNCHANGED fresh /\ pc[t] = "vacate" /\ pc'[t] \notin Owning /\ mine'[t] = {}
  /\ meta'[at[t]].instance = meta[at[t]].instance \ mine[t]
  /\ meta'[at[t]].owned = meta[at[t]].owned \ mine[t]
  /\ \A j \in Slots \ mine[t] : slot'[at[t]][j] = slot[at[t]][j]
  /\ Only(at[t])
  /\ \/ hand'[t] = hand[t] /\ out' = out
     \/ hand'[t] = {} /\ out' = out \cup hand[t]

\* A new storage with the value of a push.
Created(t, v) ==
  /\ UNCHANGED <<fresh, out, mine>> /\ pc[t] = "cas" /\ pc'[t] = "idle"
  /\ alloc' = alloc + 1 /\ alloc + 1 \in Storages
  /\ hand[t] = {v} /\ hand'[t] = {}
  /\ meta'[alloc + 1].instance = {0} /\ meta'[alloc + 1].owned = {}
  /\ slot'[alloc + 1][0] = v
  /\ Only(alloc + 1)

Effect(t) ==
  \/ Quiet(t) \/ Begun(t) \/ Ended(t) \/ Rejected(t)
  \/ \E I \in SUBSET Slots : Taken(t, I)
  \/ \E i \in Slots, v \in Values : Written(t, i, v) \/ Stored(t, i, v)
  \/ \E i \in Slots : RolledBack(t, i)
  \/ ReadOut(t) \/ Emptied(t)
  \/ \E v \in Values : Created(t, v)

\* Where a thread that owns slots is.
LEMMA AtFacts ==
  ASSUME TypeInv, NEW t \in Threads, OpInv(t), pc[t] \notin OnStack
  PROVE  /\ at[t] \in Storages /\ meta[at[t]] \in Bitmaps /\ at[t] \in Nat /\ at[t] <= alloc
         /\ slot[at[t]] \in [Slots -> 0 .. MaxValues]
         /\ meta[at[t]].instance \in SUBSET Slots /\ meta[at[t]].owned \in SUBSET Slots
<1>1. at[t] \in Storages /\ meta[at[t]] \in Bitmaps
  BY PlaceFacts DEF PlaceFact, OpInv
<1>2. at[t] \in Nat /\ at[t] <= alloc
  BY <1>1, PlaceFacts, Numbers DEF PlaceFact, OpInv
<1> QED BY <1>1, <1>2 DEF TypeInv, StorageType, Bitmaps

\* The steps on the stack and between storages touch no slot.
LEMMA QuietSteps ==
  ASSUME TypeInv, NEW t \in Threads, OpInv(t),
         \/ BeginPop(t) \/ BeginPopAll(t) \/ CleanNext(t) \/ CleanShare(t) \/ CleanSwap(t)
         \/ Peeked(t) \/ LinkShare(t) \/ Pop(t) \/ Take(t) \/ Popped(t) \/ Delete(t)
  PROVE  Quiet(t)
  BY DEF TypeInv, ThreadType, Quiet, BeginPop, BeginPopAll, CleanNext, CleanShare, CleanSwap, Peeked,
         LinkShare, Pop, Take, Popped, Delete, Goto, Use, Owning, Filling, Emptying

\* A push begins with a new value.
LEMMA BeginEffect ==
  ASSUME TypeInv, NEW t \in Threads, OpInv(t), BeginPush(t)
  PROVE  Begun(t)
  BY DEF TypeInv, ThreadType, ValueType, Begun, BeginPush, Goto, Use, Owning, Filling, Emptying

\* A pop goes on to the next storage, or returns its value.
LEMMA AdvanceEffect ==
  ASSUME TypeInv, NEW t \in Threads, OpInv(t), Advance(t)
  PROVE  Quiet(t) \/ Ended(t)
  BY DEF TypeInv, ThreadType, ValueType, OpInv, Quiet, Ended, Advance, Done, Use, Goto, Owning,
         Filling, Emptying

\* A compare-exchange on the metadata owns the slots it adds.
LEMMA TakeFacts ==
  ASSUME TypeInv, NEW t \in Threads, OpInv(t), pc[t] \in {"push", "pop", "pop_all"},
         NEW I \in SUBSET Slots, meta[at[t]] = bits[t], I \cap bits[t].owned = {},
         meta' = [meta EXCEPT ![at[t]].owned = @ \cup I],
         mine' = [mine EXCEPT ![t] = I], UNCHANGED <<slot, fresh, out, hand, at>>,
         \/ pc' = [pc EXCEPT ![t] = "write"] /\ \E i \in Slots : I = {i} /\ i \notin bits[t].instance
         \/ pc' = [pc EXCEPT ![t] = "read"] /\ I \subseteq bits[t].instance
  PROVE  Taken(t, I)
<1>1. at[t] \in Storages /\ meta[at[t]] \in Bitmaps
  BY AtFacts DEF OnStack
<1>2. meta'[at[t]] = [meta[at[t]] EXCEPT !.owned = @ \cup I] /\ Only(at[t])
  BY <1>1 DEF TypeInv, StorageType, Only
<1>3. /\ meta'[at[t]].instance = meta[at[t]].instance
      /\ meta'[at[t]].owned = meta[at[t]].owned \cup I
  BY <1>1, <1>2 DEF Bitmaps
<1> QED BY <1>2, <1>3 DEF TypeInv, ThreadType, Taken, Owning, Filling, Emptying

\* A push owns a free slot, loads the metadata again, or is refused.
LEMMA PushOwnEffect ==
  ASSUME TypeInv, NEW t \in Threads, OpInv(t), PushOwn(t)
  PROVE  Quiet(t) \/ \E I \in SUBSET Slots : Taken(t, I)
<1> DEFINE i == Lowest(Free(bits[t]))
<1>1. \/ UNCHANGED <<meta, mine>> /\ (pc' = pc \/ pc' = [pc EXCEPT ![t] = "clean"])
      \/ /\ Free(bits[t]) # {} /\ meta[at[t]] = bits[t]
         /\ meta' = [meta EXCEPT ![at[t]].owned = @ \cup {i}]
         /\ mine' = [mine EXCEPT ![t] = {i}] /\ pc' = [pc EXCEPT ![t] = "write"] /\ at' = at
  BY DEF PushOwn, Refused, Goto
<1>2. UNCHANGED <<slot, fresh, out, hand>> /\ pc[t] = "push"
  BY DEF PushOwn
<1>3. CASE UNCHANGED <<meta, mine>> /\ (pc' = pc \/ pc' = [pc EXCEPT ![t] = "clean"])
  BY <1>2, <1>3 DEF TypeInv, ThreadType, Quiet, Owning, Filling, Emptying
<1>4. CASE ~(UNCHANGED <<meta, mine>> /\ (pc' = pc \/ pc' = [pc EXCEPT ![t] = "clean"]))
  <2>1. Free(bits[t]) \in SUBSET Slots /\ Free(bits[t]) # {}
    BY <1>1, <1>4 DEF Free
  <2>2. i \in Free(bits[t])
    BY <2>1, LowestFacts
  <2> HIDE DEF i
  <2>3. {i} \in SUBSET Slots /\ {i} \cap bits[t].owned = {} /\ i \notin bits[t].instance
    BY <2>2 DEF Free
  <2>4. Taken(t, {i})
    BY <1>1, <1>2, <1>4, <2>3, TakeFacts
  <2> QED BY <2>3, <2>4
<1> QED BY <1>3, <1>4

\* A pop owns a valid slot, loads the metadata again, or finds none.
LEMMA PopOwnEffect ==
  ASSUME TypeInv, NEW t \in Threads, OpInv(t), PopOwn(t)
  PROVE  Quiet(t) \/ Ended(t) \/ \E I \in SUBSET Slots : Taken(t, I)
<1> DEFINE i == Lowest(Valid(bits[t]))
<1>1. \/ /\ UNCHANGED <<meta, mine, hand, out>>
         /\ pc' = pc \/ pc' = [pc EXCEPT ![t] = "delete"] \/ pc' = [pc EXCEPT ![t] = "advance"]
      \/ UNCHANGED <<meta, mine>> /\ out' = out \cup hand[t] /\ hand' = [hand EXCEPT ![t] = {}]
         /\ pc' = [pc EXCEPT ![t] = "idle"]
      \/ /\ Valid(bits[t]) # {} /\ meta[at[t]] = bits[t]
         /\ meta' = [meta EXCEPT ![at[t]].owned = @ \cup {i}]
         /\ mine' = [mine EXCEPT ![t] = {i}] /\ pc' = [pc EXCEPT ![t] = "read"]
         /\ UNCHANGED <<at, hand, out>>
  BY DEF PopOwn, PopReturns, Done, Goto, OpInv
<1>2. UNCHANGED <<slot, fresh>> /\ pc[t] = "pop"
  BY DEF PopOwn
<1>3. CASE /\ UNCHANGED <<meta, mine, hand, out>>
           /\ pc' = pc \/ pc' = [pc EXCEPT ![t] = "delete"] \/ pc' = [pc EXCEPT ![t] = "advance"]
  BY <1>2, <1>3 DEF TypeInv, ThreadType, Quiet, Owning, Filling, Emptying
<1>4. CASE UNCHANGED <<meta, mine>> /\ out' = out \cup hand[t] /\ hand' = [hand EXCEPT ![t] = {}]
           /\ pc' = [pc EXCEPT ![t] = "idle"]
  BY <1>2, <1>4 DEF TypeInv, ThreadType, ValueType, Ended, Owning, Filling, Emptying
<1>5. CASE /\ Valid(bits[t]) # {} /\ meta[at[t]] = bits[t]
           /\ meta' = [meta EXCEPT ![at[t]].owned = @ \cup {i}]
           /\ mine' = [mine EXCEPT ![t] = {i}] /\ pc' = [pc EXCEPT ![t] = "read"]
           /\ UNCHANGED <<at, hand, out>>
  <2>1. Valid(bits[t]) \in SUBSET Slots /\ Valid(bits[t]) # {}
    BY <1>5 DEF Valid, TypeInv, ThreadType, Bitmaps
  <2>2. i \in Valid(bits[t])
    BY <2>1, LowestFacts
  <2> HIDE DEF i
  <2>3. {i} \in SUBSET Slots /\ {i} \cap bits[t].owned = {} /\ {i} \subseteq bits[t].instance
    BY <2>1, <2>2 DEF Valid
  <2>4. Taken(t, {i})
    BY <1>2, <1>5, <2>3, TakeFacts
  <2> QED BY <2>3, <2>4
<1> QED BY <1>1, <1>3, <1>4, <1>5

\* A pop_all owns the valid slots, loads the metadata again, or finds none.
LEMMA PopAllOwnEffect ==
  ASSUME TypeInv, NEW t \in Threads, OpInv(t), PopAllOwn(t)
  PROVE  Quiet(t) \/ Ended(t) \/ \E I \in SUBSET Slots : Taken(t, I)
<1> DEFINE I == Valid(bits[t])
<1>1. \/ UNCHANGED <<meta, mine, hand, out>> /\ (pc' = pc \/ pc' = [pc EXCEPT ![t] = "popped"])
      \/ UNCHANGED <<meta, mine>> /\ out' = out \cup hand[t] /\ hand' = [hand EXCEPT ![t] = {}]
         /\ pc' = [pc EXCEPT ![t] = "idle"]
      \/ /\ meta[at[t]] = bits[t]
         /\ meta' = [meta EXCEPT ![at[t]].owned = @ \cup I]
         /\ mine' = [mine EXCEPT ![t] = I] /\ pc' = [pc EXCEPT ![t] = "read"]
         /\ UNCHANGED <<at, hand, out>>
  BY DEF PopAllOwn, Done, Goto, OpInv
<1>2. UNCHANGED <<slot, fresh>> /\ pc[t] = "pop_all"
  BY DEF PopAllOwn
<1>3. CASE UNCHANGED <<meta, mine, hand, out>> /\ (pc' = pc \/ pc' = [pc EXCEPT ![t] = "popped"])
  BY <1>2, <1>3 DEF TypeInv, ThreadType, Quiet, Owning, Filling, Emptying
<1>4. CASE UNCHANGED <<meta, mine>> /\ out' = out \cup hand[t] /\ hand' = [hand EXCEPT ![t] = {}]
           /\ pc' = [pc EXCEPT ![t] = "idle"]
  BY <1>2, <1>4 DEF TypeInv, ThreadType, ValueType, Ended, Owning, Filling, Emptying
<1>5. CASE /\ meta[at[t]] = bits[t]
           /\ meta' = [meta EXCEPT ![at[t]].owned = @ \cup I]
           /\ mine' = [mine EXCEPT ![t] = I] /\ pc' = [pc EXCEPT ![t] = "read"]
           /\ UNCHANGED <<at, hand, out>>
  <2>1. I \in SUBSET Slots /\ I \cap bits[t].owned = {} /\ I \subseteq bits[t].instance
    BY DEF Valid, TypeInv, ThreadType, Bitmaps
  <2> HIDE DEF I
  <2>2. Taken(t, I)
    BY <1>2, <1>5, <2>1, TakeFacts
  <2> QED BY <2>1, <2>2
<1> QED BY <1>1, <1>3, <1>4, <1>5

\* The slot and the value of a push.
LEMMA PushFacts ==
  ASSUME TypeInv, NEW t \in Threads, OpInv(t), MineInv(t), pc[t] \in Filling
  PROVE  \E i \in Slots, v \in Values :
           mine[t] = {i} /\ hand[t] = {v} /\ Lowest(mine[t]) = i /\ (CHOOSE x \in hand[t] : TRUE) = v
<1>1. PICK i \in Slots : mine[t] = {i}
  BY DEF MineInv
<1>2. PICK v \in Values : hand[t] = {v}
  BY DEF OpInv, Filling
<1>3. Lowest(mine[t]) = i
  BY <1>1, LowestFacts
<1> QED BY <1>1, <1>2, <1>3, OneValue

\* A push writes its value into its slot.
LEMMA PushWriteEffect ==
  ASSUME TypeInv, NEW t \in Threads, OpInv(t), MineInv(t), PushWrite(t)
  PROVE  \E i \in Slots, v \in Values : Written(t, i, v)
<1>1. pc[t] = "write" /\ pc[t] \in Filling
  BY DEF PushWrite, Filling
<1>2. PICK i \in Slots, v \in Values :
        mine[t] = {i} /\ hand[t] = {v} /\ Lowest(mine[t]) = i /\ (CHOOSE x \in hand[t] : TRUE) = v
  BY <1>1, PushFacts
<1>3. at[t] \in Storages /\ slot[at[t]] \in [Slots -> 0 .. MaxValues]
  BY <1>1, AtFacts DEF OnStack, Filling
<1>4. slot' = [slot EXCEPT ![at[t]][i] = v]
  BY <1>2 DEF PushWrite
<1>5. /\ slot'[at[t]][i] = v /\ \A j \in Slots \ {i} : slot'[at[t]][j] = slot[at[t]][j]
      /\ \A r \in Storages \ {at[t]} : slot'[r] = slot[r]
  BY <1>3, <1>4 DEF TypeInv, StorageType
<1>6. UNCHANGED <<meta, fresh, out, hand, mine, at>> /\ pc'[t] = "commit"
  BY DEF PushWrite, TypeInv, ThreadType, Goto
<1>7. Written(t, i, v)
  BY <1>1, <1>2, <1>5, <1>6 DEF Written, Only
<1> QED BY <1>7

\* A push makes its slot valid, or is rejected by an empty storage.
LEMMA PushCommitEffect ==
  ASSUME TypeInv, NEW t \in Threads, OpInv(t), MineInv(t), PushCommit(t)
  PROVE  Rejected(t) \/ \E i \in Slots, v \in Values : Stored(t, i, v)
<1>1. pc[t] = "commit" /\ pc[t] \in Filling /\ op[t] = "push" /\ UNCHANGED <<slot, fresh>>
  BY DEF PushCommit, Filling, OpInv
<1>2. PICK i \in Slots, v \in Values : mine[t] = {i} /\ hand[t] = {v}
  BY <1>1, PushFacts
<1>3. at[t] \in Storages /\ meta[at[t]] \in Bitmaps
  BY <1>1, AtFacts DEF OnStack, Filling
<1>4. CASE Rejects(t, meta[at[t]])
  BY <1>1, <1>4 DEF PushCommit, Rejected, Goto, TypeInv, ThreadType
<1>5. CASE ~Rejects(t, meta[at[t]])
  <2>1. /\ meta' = [meta EXCEPT ![at[t]] = [instance |-> @.instance \cup {i}, owned |-> @.owned \ {i}]]
        /\ mine' = [mine EXCEPT ![t] = {}] /\ pc' = [pc EXCEPT ![t] = "idle"]
        /\ hand' = [hand EXCEPT ![t] = {}] /\ out' = out
    BY <1>1, <1>2, <1>5 DEF PushCommit, Done, Goto
  <2>2. /\ meta'[at[t]].instance = meta[at[t]].instance \cup {i}
        /\ meta'[at[t]].owned = meta[at[t]].owned \ {i}
        /\ Only(at[t])
    BY <1>1, <1>3, <2>1 DEF TypeInv, StorageType, Only
  <2>3. at[t] # Primary => Valid(meta[at[t]]) # {}
    BY <1>5 DEF Rejects, AllowEmpty
  <2>4. Stored(t, i, v)
    BY <1>1, <1>2, <2>1, <2>2, <2>3 DEF Stored, TypeInv, ThreadType, ValueType
  <2> QED BY <2>4
<1> QED BY <1>4, <1>5

\* A rejected push gives its slot up.
LEMMA PushRollbackEffect ==
  ASSUME TypeInv, NEW t \in Threads, OpInv(t), MineInv(t), PushRollback(t)
  PROVE  \E i \in Slots : RolledBack(t, i)
<1>1. pc[t] = "rollback" /\ pc[t] \in Filling /\ UNCHANGED <<fresh, out, hand, at>>
  BY DEF PushRollback, Filling
<1>2. PICK i \in Slots, v \in Values : mine[t] = {i} /\ hand[t] = {v} /\ Lowest(mine[t]) = i
  BY <1>1, PushFacts
<1>3. at[t] \in Storages /\ slot[at[t]] \in [Slots -> 0 .. MaxValues] /\ meta[at[t]] \in Bitmaps
  BY <1>1, AtFacts DEF OnStack, Filling
<1>4. /\ slot' = [slot EXCEPT ![at[t]][i] = 0]
      /\ meta' = [meta EXCEPT ![at[t]] = [meta[at[t]] EXCEPT !.owned = @ \ {i}]]
  BY <1>2 DEF PushRollback
<1>5. /\ \A j \in Slots \ {i} : slot'[at[t]][j] = slot[at[t]][j]
      /\ \A r \in Storages \ {at[t]} : slot'[r] = slot[r]
  BY <1>3, <1>4 DEF TypeInv, StorageType
<1>6. /\ meta'[at[t]].instance = meta[at[t]].instance
      /\ meta'[at[t]].owned = meta[at[t]].owned \ {i}
      /\ \A r \in Storages \ {at[t]} : meta'[r] = meta[r]
  BY <1>3, <1>4 DEF TypeInv, StorageType, Bitmaps
<1>7. pc'[t] = "clean" /\ mine'[t] = {}
  BY DEF PushRollback, Refused, Goto, TypeInv, ThreadType
<1>8. RolledBack(t, i)
  BY <1>1, <1>2, <1>5, <1>6, <1>7 DEF RolledBack, Only
<1> QED BY <1>8

\* A pop or pop_all reads its slots.
LEMMA ReadEffect ==
  ASSUME TypeInv, NEW t \in Threads, Read(t)
  PROVE  ReadOut(t)
  BY DEF TypeInv, ThreadType, ValueType, Read, ReadOut, Goto

\* A pop or pop_all frees its slots.
LEMMA VacateEffect ==
  ASSUME TypeInv, NEW t \in Threads, OpInv(t), Vacate(t)
  PROVE  Emptied(t)
<1>1. pc[t] = "vacate" /\ UNCHANGED fresh
  BY DEF Vacate
<1>2. at[t] \in Storages /\ slot[at[t]] \in [Slots -> 0 .. MaxValues] /\ meta[at[t]] \in Bitmaps
  BY <1>1, AtFacts DEF OnStack
<1>3. /\ meta' = [meta EXCEPT ![at[t]] = [instance |-> meta[at[t]].instance \ mine[t],
                                          owned |-> meta[at[t]].owned \ mine[t]]]
      /\ slot' = [slot EXCEPT ![at[t]] = [j \in Slots |-> IF j \in mine[t] THEN 0 ELSE slot[at[t]][j]]]
      /\ mine' = [mine EXCEPT ![t] = {}]
  BY DEF Vacate
<1>4. /\ meta'[at[t]].instance = meta[at[t]].instance \ mine[t]
      /\ meta'[at[t]].owned = meta[at[t]].owned \ mine[t]
      /\ \A j \in Slots \ mine[t] : slot'[at[t]][j] = slot[at[t]][j]
      /\ Only(at[t])
  BY <1>2, <1>3 DEF TypeInv, StorageType, Only
<1>5. \/ hand' = hand /\ out' = out
      \/ hand' = [hand EXCEPT ![t] = {}] /\ out' = out \cup hand[t]
  BY DEF Vacate, PopReturns, Done
<1>6. pc'[t] \notin Owning
  BY DEF Vacate, PopReturns, Done, Goto, TypeInv, ThreadType, Owning, Filling, Emptying
<1> QED BY <1>1, <1>3, <1>4, <1>5, <1>6 DEF Emptied, TypeInv, ThreadType, ValueType

\* A push links a new storage with its value, or tries again.
LEMMA LinkEffect ==
  ASSUME TypeInv, NEW t \in Threads, OpInv(t), Link(t)
  PROVE  Quiet(t) \/ \E v \in Values : Created(t, v)
<1>1. pc[t] = "cas" /\ op[t] = "push" /\ UNCHANGED <<fresh, mine>>
  BY DEF Link, OpInv
<1>2. CASE newest # top[t]
  BY <1>1, <1>2 DEF Link, Quiet, Goto, TypeInv, ThreadType, Owning, Filling, Emptying
<1>3. CASE newest = top[t]
  <2>1. alloc' = alloc + 1 /\ alloc + 1 \in Storages /\ 0 \in Slots /\ alloc + 1 > alloc
    BY <1>3, PlaceFacts, Numbers, BagAssumption DEF Link, PlaceFact, Slots
  <2>2. PICK v \in Values : hand[t] = {v}
    BY <1>1 DEF OpInv
  <2>3. /\ slot' = [slot EXCEPT ![alloc + 1][0] = v]
        /\ meta' = [meta EXCEPT ![alloc + 1] = [meta[alloc + 1] EXCEPT !.instance = {0}]]
    BY <1>3, <2>1, <2>2, OneValue DEF Link
  <2>4. meta[alloc + 1] = NoBits /\ slot[alloc + 1] \in [Slots -> 0 .. MaxValues]
    BY <2>1 DEF TypeInv, StorageType
  <2>5. slot'[alloc + 1][0] = v /\ \A r \in Storages \ {alloc + 1} : slot'[r] = slot[r]
    BY <2>1, <2>3, <2>4 DEF TypeInv, StorageType
  <2>6. /\ meta'[alloc + 1].instance = {0} /\ meta'[alloc + 1].owned = {}
        /\ \A r \in Storages \ {alloc + 1} : meta'[r] = meta[r]
    BY <2>1, <2>3, <2>4 DEF TypeInv, StorageType, NoBits
  <2>7. pc'[t] = "idle" /\ hand'[t] = {} /\ out' = out
    BY <1>1, <1>3 DEF Link, Done, Goto, TypeInv, ThreadType, ValueType
  <2>8. Created(t, v)
    BY <1>1, <2>1, <2>2, <2>5, <2>6, <2>7 DEF Created, Only
  <2> QED BY <2>8
<1> QED BY <1>2, <1>3

\* Every step has one of these effects.
LEMMA StepEffect ==
  ASSUME TypeInv, NEW t \in Threads, OpInv(t), MineInv(t), Step(t)
  PROVE  Effect(t)
  BY QuietSteps, BeginEffect, AdvanceEffect, PushOwnEffect, PopOwnEffect, PopAllOwnEffect,
     PushWriteEffect, PushCommitEffect, PushRollbackEffect, ReadEffect, VacateEffect, LinkEffect
  DEF Step, Effect

-----------------------------------------------------------------------------
(* The slots that threads own                                               *)

Owned ==
  /\ TypeInv /\ OwnedInv
  /\ \A u \in Threads : OpInv(u) /\ MineInv(u)

\* The slots of a thread are as they were.
Untouched(u) ==
  pc[u] \in Owning =>
    \A i \in mine[u] :
      /\ slot'[at[u]][i] = slot[at[u]][i] /\ i \in meta'[at[u]].owned
      /\ i \in meta'[at[u]].instance <=> i \in meta[at[u]].instance

\* A thread leaves the slots of another one alone.
LEMMA OthersUntouched ==
  ASSUME Owned, NEW t \in Threads, NEW u \in Threads, u # t, Effect(t)
  PROVE  Untouched(u)
<1>1. SUFFICES ASSUME pc[u] \in Owning, NEW i \in mine[u]
               PROVE  /\ slot'[at[u]][i] = slot[at[u]][i] /\ i \in meta'[at[u]].owned
                      /\ i \in meta'[at[u]].instance <=> i \in meta[at[u]].instance
  BY DEF Untouched
<1>2. i \in Slots /\ i \in meta[at[u]].owned /\ at[u] \in Storages /\ at[u] \in Nat /\ at[u] <= alloc
  BY <1>1, AtFacts DEF OnStack, Owned, MineInv, OwnedInv, Owning, Filling, Emptying, TypeInv, ThreadType
<1>3. at[u] = at[t] => i \notin mine[t]
  BY DEF Owned, OwnedInv
<1>4. alloc \in Nat
  BY PlaceFacts DEF Owned, PlaceFact
<1>5. CASE Quiet(t) \/ Begun(t) \/ Ended(t) \/ Rejected(t) \/ ReadOut(t)
  BY <1>2, <1>5 DEF Quiet, Begun, Ended, Rejected, ReadOut
<1>6. CASE \E I \in SUBSET Slots : Taken(t, I)
  BY <1>2, <1>6 DEF Taken, Only
<1>7. CASE \E j \in Slots, v \in Values : Written(t, j, v)
  BY <1>2, <1>3, <1>7 DEF Written, Only
<1>8. CASE \E j \in Slots, v \in Values : Stored(t, j, v)
  BY <1>2, <1>3, <1>8 DEF Stored, Only
<1>9. CASE \E j \in Slots : RolledBack(t, j)
  BY <1>2, <1>3, <1>9 DEF RolledBack, Only
<1>10. CASE Emptied(t)
  BY <1>2, <1>3, <1>10 DEF Emptied, Only
<1>11. CASE \E v \in Values : Created(t, v)
  BY <1>2, <1>4, <1>11 DEF Created, Only
<1> QED BY <1>5, <1>6, <1>7, <1>8, <1>9, <1>10, <1>11 DEF Effect

\* What a step says of the slots of the other threads.
LEMMA MineOthers ==
  ASSUME Owned, NEW t \in Threads, NEW u \in Threads, u # t, Effect(t), OthersSame(t)
  PROVE  MineInv(u)'
<1>1. Untouched(u) /\ MineInv(u)
  BY OthersUntouched DEF Owned
<1>2. pc'[u] = pc[u] /\ at'[u] = at[u] /\ mine'[u] = mine[u] /\ hand'[u] = hand[u]
  BY DEF OthersSame
<1> QED BY <1>1, <1>2 DEF MineInv, Untouched, Owning, Filling, Emptying

\* What a step says of the slots of its own thread.
LEMMA MineStep ==
  ASSUME Owned, NEW t \in Threads, Effect(t)
  PROVE  MineInv(t)'
<1>1. MineInv(t)
  BY DEF Owned
<1>2. CASE Quiet(t) \/ Begun(t) \/ Ended(t)
  BY <1>1, <1>2 DEF MineInv, Quiet, Begun, Ended, Owning, Filling, Emptying
<1>3. CASE Rejected(t)
  BY <1>1, <1>3 DEF MineInv, Rejected, Owning, Filling, Emptying
<1>4. CASE ReadOut(t)
  BY <1>1, <1>4 DEF MineInv, ReadOut, Owning, Filling, Emptying
<1>5. CASE \E I \in SUBSET Slots : Taken(t, I)
  BY <1>1, <1>5 DEF MineInv, Taken, Owning, Filling, Emptying
<1>6. CASE \E j \in Slots, v \in Values : Written(t, j, v)
  BY <1>1, <1>6 DEF MineInv, Written, Owning, Filling, Emptying
<1>7. CASE \E j \in Slots, v \in Values : Stored(t, j, v)
  BY <1>1, <1>7 DEF MineInv, Stored, Owning, Filling, Emptying
<1>8. CASE \E j \in Slots : RolledBack(t, j)
  BY <1>1, <1>8 DEF MineInv, RolledBack, Owning, Filling, Emptying
<1>9. CASE Emptied(t)
  BY <1>1, <1>9 DEF MineInv, Emptied, Owning, Filling, Emptying
<1>10. CASE \E v \in Values : Created(t, v)
  BY <1>1, <1>10 DEF MineInv, Created, Owning, Filling, Emptying
<1> QED BY <1>2, <1>3, <1>4, <1>5, <1>6, <1>7, <1>8, <1>9, <1>10 DEF Effect

\* The slots that a step adds to those of its thread were not owned.
LEMMA NewlyOwned ==
  ASSUME Owned, NEW t \in Threads, Effect(t)
  PROVE  \/ mine'[t] = {}
         \/ at'[t] = at[t] /\ mine'[t] = mine[t]
         \/ at'[t] = at[t] /\ mine'[t] \cap meta[at[t]].owned = {}
<1>1. pc[t] \notin Owning => mine[t] = {}
  BY DEF Owned, MineInv, Owning
<1>2. CASE Quiet(t) \/ Begun(t) \/ Ended(t) \/ Rejected(t) \/ ReadOut(t)
  BY <1>1, <1>2 DEF Quiet, Begun, Ended, Rejected, ReadOut, Owning, Filling, Emptying
<1>3. CASE \E I \in SUBSET Slots : Taken(t, I)
  BY <1>3 DEF Taken
<1>4. CASE \E j \in Slots, v \in Values : Written(t, j, v)
  BY <1>4 DEF Written
<1>5. CASE \/ \E j \in Slots, v \in Values : Stored(t, j, v)
           \/ \E j \in Slots : RolledBack(t, j)
           \/ Emptied(t)
  <2>1. mine'[t] = {}
    BY <1>5, Zenon DEF Stored, RolledBack, Emptied
  <2> QED BY <2>1
<1>6. CASE \E v \in Values : Created(t, v)
  BY <1>1, <1>6 DEF Created, Owning, Filling, Emptying
<1> QED BY <1>2, <1>3, <1>4, <1>5, <1>6 DEF Effect

\* No two threads own the same slot, and a slot with an instance is owned by a thread
\* that empties it.
LEMMA OwnedStep ==
  ASSUME Owned, NEW t \in Threads, Effect(t), OthersSame(t), TypeInv'
  PROVE  OwnedInv'
<1>1. ASSUME NEW u \in Threads, u # t, at'[t] = at'[u] PROVE mine'[t] \cap mine'[u] = {}
  <2>1. at'[u] = at[u] /\ mine'[u] = mine[u]
    BY <1>1 DEF OthersSame
  <2>2. at[t] = at[u] => mine[t] \cap mine[u] = {}
    BY <1>1 DEF Owned, OwnedInv
  <2>3. mine[u] # {} => mine[u] \subseteq meta[at[u]].owned
    BY DEF Owned, MineInv
  <2> QED BY <1>1, <2>1, <2>2, <2>3, NewlyOwned
<1>2. ASSUME NEW r \in Threads, NEW u \in Threads, r # u, at'[r] = at'[u]
      PROVE  mine'[r] \cap mine'[u] = {}
  <2>1. CASE r = t
    BY <1>1, <1>2, <2>1
  <2>2. CASE u = t
    BY <1>1, <1>2, <2>2
  <2>3. CASE r # t /\ u # t
    BY <1>2, <2>3 DEF OthersSame, Owned, OwnedInv
  <2> QED BY <2>1, <2>2, <2>3
<1>3. ASSUME NEW s \in Storages, NEW i \in meta'[s].instance \cap meta'[s].owned
      PROVE  \E u \in Threads : at'[u] = s /\ pc'[u] \in Emptying /\ i \in mine'[u]
  <2>0. i \in Slots
    BY <1>3 DEF TypeInv, StorageType, Bitmaps
  <2>1. ASSUME i \in meta[s].instance \cap meta[s].owned
        PROVE  \E u \in Threads : at[u] = s /\ pc[u] \in Emptying /\ i \in mine[u]
    BY <1>3, <2>1 DEF Owned, OwnedInv
  <2>2. ASSUME NEW u \in Threads, u # t, at[u] = s, pc[u] \in Emptying, i \in mine[u]
        PROVE  at'[u] = s /\ pc'[u] \in Emptying /\ i \in mine'[u]
    BY <2>2 DEF OthersSame
  <2>3. MineInv(t)
    BY DEF Owned
  <2>4. CASE Quiet(t) \/ Begun(t) \/ Ended(t) \/ Rejected(t)
    BY <1>3, <2>1, <2>2, <2>4 DEF Quiet, Begun, Ended, Rejected, Owning, Filling, Emptying
  <2>5. CASE ReadOut(t)
    BY <1>3, <2>1, <2>2, <2>5 DEF ReadOut, Emptying
  <2>6. CASE \E I \in SUBSET Slots : Taken(t, I)
    <3>1. PICK I \in SUBSET Slots : Taken(t, I)
      BY <2>6
    <3>2. CASE s = at[t] /\ i \in I
      BY <1>3, <3>1, <3>2 DEF Taken, Emptying
    <3>3. CASE ~(s = at[t] /\ i \in I)
      <4>1. i \in meta[s].instance \cap meta[s].owned
        BY <1>3, <3>1, <3>3 DEF Taken, Only
      <4> QED BY <2>1, <2>2, <3>1, <4>1 DEF Taken, Owning
    <3> QED BY <3>2, <3>3
  <2>7. CASE \E j \in Slots, v \in Values : Written(t, j, v)
    BY <1>3, <2>1, <2>2, <2>7 DEF Written, Emptying
  <2>8. CASE \E j \in Slots, v \in Values : Stored(t, j, v)
    <3>1. i \in meta[s].instance \cap meta[s].owned
      BY <1>3, <2>8 DEF Stored, Only
    <3> QED BY <2>1, <2>2, <2>8, <3>1 DEF Stored, Emptying
  <2>9. CASE \E j \in Slots : RolledBack(t, j)
    <3>1. i \in meta[s].instance \cap meta[s].owned
      BY <1>3, <2>9 DEF RolledBack, Only
    <3> QED BY <2>1, <2>2, <2>9, <3>1 DEF RolledBack, Emptying
  <2>10. CASE Emptied(t)
    <3>1. i \in meta[s].instance \cap meta[s].owned /\ ~(s = at[t] /\ i \in mine[t])
      BY <1>3, <2>10 DEF Emptied, Only
    <3> QED BY <2>1, <2>2, <3>1
  <2>11. CASE \E v \in Values : Created(t, v)
    <3>1. i \in meta[s].instance \cap meta[s].owned
      BY <1>3, <2>11 DEF Created, Only
    <3> QED BY <2>1, <2>2, <2>11, <3>1 DEF Created, Emptying
  <2> QED BY <2>4, <2>5, <2>6, <2>7, <2>8, <2>9, <2>10, <2>11 DEF Effect
<1> QED BY <1>2, <1>3 DEF OwnedInv

\* A linked storage that has no valid slot, or no instance, gets none.
LEMMA EmptyStays ==
  ASSUME Owned, NEW t \in Threads, Effect(t), NEW s \in 1 .. alloc
  PROVE  /\ Valid(meta[s]) = {} => Valid(meta'[s]) = {}
         /\ meta[s].instance = {} => meta'[s].instance = {}
<1>1. s \in Storages /\ s # Primary /\ s # alloc + 1
  BY PlaceFacts, Numbers DEF Owned, PlaceFact
<1>2. MineInv(t)
  BY DEF Owned
<1>3. CASE Quiet(t) \/ Begun(t) \/ Ended(t) \/ Rejected(t) \/ ReadOut(t)
  BY <1>3 DEF Quiet, Begun, Ended, Rejected, ReadOut
<1>4. CASE \E I \in SUBSET Slots : Taken(t, I)
  BY <1>1, <1>4 DEF Taken, Only, Valid
<1>5. CASE \E j \in Slots, v \in Values : Written(t, j, v)
  BY <1>1, <1>5 DEF Written
<1>6. CASE \E j \in Slots, v \in Values : Stored(t, j, v)
  BY <1>1, <1>6 DEF Stored, Only, Valid
<1>7. CASE \E j \in Slots : RolledBack(t, j)
  BY <1>1, <1>2, <1>7 DEF RolledBack, Only, Valid, MineInv, Filling
<1>8. CASE Emptied(t)
  BY <1>1, <1>8 DEF Emptied, Only, Valid
<1>9. CASE \E v \in Values : Created(t, v)
  BY <1>1, <1>9 DEF Created, Only
<1> QED BY <1>3, <1>4, <1>5, <1>6, <1>7, <1>8, <1>9 DEF Effect

\* What a thread has seen of an empty storage is not out of date.
LEMMA StaleOthers ==
  ASSUME Owned, NEW t \in Threads, NEW u \in Threads, u # t, StaleInv(u), Effect(t), OthersSame(t)
  PROVE  StaleInv(u)'
<1>1. pc'[u] = pc[u] /\ at'[u] = at[u] /\ bits'[u] = bits[u]
  BY DEF OthersSame
<1>2. pc[u] \in {"pop", "pop_all", "delete"} /\ at[u] # Primary => at[u] \in 1 .. alloc
  BY PlaceFacts DEF OnStack, Owned, OpInv, PlaceFact
<1>3. pc[u] = "delete" => at[u] # Primary
  BY DEF Owned, OpInv
<1>4. \A s \in 1 .. alloc : /\ Valid(meta[s]) = {} => Valid(meta'[s]) = {}
                            /\ meta[s].instance = {} => meta'[s].instance = {}
  BY EmptyStays
<1> QED BY <1>1, <1>2, <1>3, <1>4 DEF StaleInv

\* What a step says of the metadata that its thread has seen.
LEMMA StaleStep ==
  ASSUME Owned, NEW t \in Threads, StaleInv(t), Step(t)
  PROVE  StaleInv(t)'
<1>0. PlaceFact(t) /\ OpInv(t)
  BY PlaceFacts DEF Owned
<1>1. TypeInv
  BY DEF Owned
<1> USE <1>0, <1>1 DEF TypeInv, ThreadType, OpInv, Goto
<1>2. CASE \/ BeginPush(t) \/ BeginPop(t) \/ BeginPopAll(t) \/ CleanNext(t) \/ CleanShare(t)
           \/ CleanSwap(t) \/ LinkShare(t) \/ Link(t) \/ Pop(t) \/ Take(t)
  <2>1. pc'[t] \notin {"pop", "pop_all", "delete"}
    BY <1>2 DEF BeginPush, BeginPop, BeginPopAll, CleanNext, CleanShare, CleanSwap, LinkShare, Link,
         Pop, Take, Done, Use
  <2> QED BY <2>1 DEF StaleInv
<1>3. CASE PushOwn(t) \/ PushWrite(t) \/ PushCommit(t) \/ PushRollback(t) \/ Read(t)
  <2>1. pc'[t] \notin {"pop", "pop_all", "delete"}
    BY <1>3 DEF PushOwn, PushWrite, PushCommit, PushRollback, Read, Done, Refused
  <2> QED BY <2>1 DEF StaleInv
<1>4. CASE Peeked(t)
  <2>1. pc'[t] \notin {"pop", "pop_all", "delete"} \/ (pc'[t] = "pop" /\ bits'[t] = meta'[at'[t]])
    BY <1>4 DEF Peeked, Use
  <2> QED BY <2>1 DEF StaleInv
<1>5. CASE Popped(t)
  <2>1. pc'[t] = "take" \/ (pc'[t] = "pop_all" /\ bits'[t] = meta'[at'[t]])
    BY <1>5 DEF Popped, Use
  <2> QED BY <2>1 DEF StaleInv
<1>6. CASE Delete(t) \/ Advance(t)
  <2>1. pc'[t] \notin {"pop", "pop_all", "delete"} \/ (pc'[t] = "pop" /\ bits'[t] = meta'[at'[t]])
    BY <1>6 DEF Delete, Advance, Use, Done
  <2> QED BY <2>1 DEF StaleInv
<1>7. CASE PopOwn(t)
  <2>1. \/ pc'[t] \notin {"pop", "pop_all", "delete"}
        \/ pc'[t] = "pop" /\ bits'[t] = meta'[at'[t]]
        \/ pc'[t] = "delete" /\ at' = at /\ meta' = meta /\ at[t] # Primary /\ bits[t].instance = {}
    BY <1>7 DEF PopOwn, PopReturns, Done
  <2>2. pc[t] = "pop"
    BY <1>7 DEF PopOwn
  <2> QED BY <2>1, <2>2 DEF StaleInv
<1>8. CASE Vacate(t)
  <2>1. /\ at[t] \in Storages
        /\ meta'[at[t]] = [instance |-> meta[at[t]].instance \ mine[t], owned |-> meta[at[t]].owned \ mine[t]]
    BY <1>8, AtFacts DEF OnStack, Vacate, StorageType
  <2>2. \/ pc'[t] \notin {"pop", "pop_all", "delete"}
        \/ pc'[t] = "pop_all" /\ bits'[t] = meta'[at[t]] /\ at' = at
        \/ pc'[t] = "delete" /\ at' = at /\ meta[at[t]].instance \ mine[t] = {}
    BY <1>8, <2>1 DEF Vacate, PopReturns, Done
  <2>3. meta'[at[t]].instance = meta[at[t]].instance \ mine[t]
    BY <2>1
  <2> QED BY <2>2, <2>3 DEF StaleInv
<1>9. CASE PopAllOwn(t)
  <2>1. \/ pc'[t] \notin {"pop", "pop_all", "delete"}
        \/ pc'[t] = "pop_all" /\ bits'[t] = meta'[at'[t]]
    BY <1>9 DEF PopAllOwn, Done
  <2> QED BY <2>1 DEF StaleInv
<1> QED BY <1>2, <1>3, <1>4, <1>5, <1>6, <1>7, <1>8, <1>9 DEF Step

\* The local state of the threads.
LEMMA LocalStep ==
  ASSUME LocalInv, NEW t \in Threads, Step(t)
  PROVE  LocalInv' /\ Effect(t) /\ OthersSame(t) /\ Owned
<1>1. Owned /\ TypeInv /\ RefType /\ OpInv(t) /\ MineInv(t) /\ StaleInv(t)
  BY DEF LocalInv, Owned
<1>2. OthersSame(t) /\ Effect(t)
  BY <1>1, Frame, StepEffect
<1>3. TypeInv'
  BY <1>1, TypeBeginPush, TypeBeginPop, TypeBeginPopAll, TypeCleanNext, TypeCleanSwap, TypeShare,
     TypePeeked, TypeLink, TypeTake, TypePopped,
     TypePushOwn, TypePushWrite, TypePushCommit, TypePushRollback, TypePopOwn, TypeRead, TypeVacate,
     TypeDelete, TypeAdvance, TypePopAllOwn DEF Step
<1>4. OwnedInv'
  BY <1>1, <1>2, <1>3, OwnedStep
<1>5. ASSUME NEW u \in Threads PROVE OpInv(u)'
  <2>1. CASE u = t
    BY <1>1, <2>1, OpStep
  <2>2. CASE u # t
    BY <1>2, <2>2 DEF OthersSame, OpInv, LocalInv
  <2> QED BY <2>1, <2>2
<1>6. ASSUME NEW u \in Threads PROVE MineInv(u)'
  BY <1>1, <1>2, MineOthers, MineStep
<1>7. ASSUME NEW u \in Threads PROVE StaleInv(u)'
  BY <1>1, <1>2, StaleOthers, StaleStep DEF LocalInv
<1>8. RefType'
  BY <1>1, RefStep
<1> QED BY <1>1, <1>2, <1>3, <1>4, <1>5, <1>6, <1>7, <1>8 DEF LocalInv

-----------------------------------------------------------------------------
(* Where the values are                                                     *)

\* The slots with a value that is not read, after a step: the same ones, another one
\* with the value v, or all but those of a thread.
KeptSame ==
  \A s \in Storages, i \in Slots :
    (Kept(s, i)' <=> Kept(s, i)) /\ (Kept(s, i) => slot'[s][i] = slot[s][i])
KeptMore(r, j, v) ==
  /\ r \in Storages /\ j \in Slots /\ ~Kept(r, j) /\ Kept(r, j)' /\ slot'[r][j] = v
  /\ \A s \in Storages, i \in Slots : ~(s = r /\ i = j) =>
       (Kept(s, i)' <=> Kept(s, i)) /\ (Kept(s, i) => slot'[s][i] = slot[s][i])
KeptLess(t) ==
  /\ slot' = slot /\ at[t] \in Storages /\ mine[t] \subseteq Slots
  /\ \A i \in mine[t] : Kept(at[t], i) /\ ~Kept(at[t], i)'
  /\ \A s \in Storages, i \in Slots : ~(s = at[t] /\ i \in mine[t]) => (Kept(s, i)' <=> Kept(s, i))

\* Only a thread about to free its slots has read them.
LEMMA VacatedSame ==
  ASSUME NEW t \in Threads, OthersSame(t), pc[t] # "vacate", pc'[t] # "vacate", NEW s, NEW i
  PROVE  Vacated(s, i)' <=> Vacated(s, i)
  BY DEF OthersSame, Vacated

\* A step that no slot with a value sees.
LEMMA KeptSteps ==
  ASSUME Owned, NEW t \in Threads, OthersSame(t),
         \/ Quiet(t) \/ Begun(t) \/ Ended(t) \/ Rejected(t) \/ Emptied(t)
         \/ \E I \in SUBSET Slots : Taken(t, I)
         \/ \E i \in Slots, v \in Values : Written(t, i, v)
         \/ \E i \in Slots : RolledBack(t, i)
  PROVE  KeptSame
<1>1. SUFFICES ASSUME NEW s \in Storages, NEW i \in Slots
               PROVE  (Kept(s, i)' <=> Kept(s, i)) /\ (Kept(s, i) => slot'[s][i] = slot[s][i])
  BY DEF KeptSame
<1>2. MineInv(t)
  BY DEF Owned
<1>3. CASE Quiet(t) \/ Begun(t) \/ Ended(t) \/ Rejected(t)
  <2>1. pc[t] # "vacate" /\ pc'[t] # "vacate" /\ UNCHANGED <<meta, slot>>
    BY <1>3 DEF Quiet, Begun, Ended, Rejected, Owning, Filling, Emptying
  <2> QED BY <2>1, VacatedSame DEF Kept
<1>4. CASE \E I \in SUBSET Slots : Taken(t, I)
  <2>1. pc[t] # "vacate" /\ pc'[t] # "vacate" /\ UNCHANGED slot /\ meta'[s].instance = meta[s].instance
    BY <1>4 DEF Taken, Only, Owning, Filling, Emptying
  <2> QED BY <2>1, VacatedSame DEF Kept
<1>5. CASE \E j \in Slots, v \in Values : Written(t, j, v)
  <2>1. pc[t] # "vacate" /\ pc'[t] # "vacate" /\ UNCHANGED meta
    BY <1>5 DEF Written
  <2>2. i \in meta[s].instance => slot'[s][i] = slot[s][i]
    BY <1>2, <1>5 DEF Written, Only, MineInv, Filling
  <2> QED BY <2>1, <2>2, VacatedSame DEF Kept
<1>6. CASE \E j \in Slots : RolledBack(t, j)
  <2>1. pc[t] # "vacate" /\ pc'[t] # "vacate" /\ meta'[s].instance = meta[s].instance
    BY <1>6 DEF RolledBack, Only
  <2>2. i \in meta[s].instance => slot'[s][i] = slot[s][i]
    BY <1>2, <1>6 DEF RolledBack, Only, MineInv, Filling
  <2> QED BY <2>1, <2>2, VacatedSame DEF Kept
<1>7. CASE Emptied(t)
  <2>1. CASE s = at[t] /\ i \in mine[t]
    <3>1. Vacated(s, i) /\ i \notin meta'[s].instance
      BY <1>7, <2>1 DEF Emptied, Vacated
    <3> QED BY <3>1 DEF Kept
  <2>2. CASE ~(s = at[t] /\ i \in mine[t])
    <3>1. slot'[s][i] = slot[s][i] /\ (i \in meta'[s].instance <=> i \in meta[s].instance)
      BY <1>7, <2>2 DEF Emptied, Only
    <3>2. Vacated(s, i)' <=> Vacated(s, i)
      BY <1>7, <2>2 DEF OthersSame, Vacated, Emptied
    <3> QED BY <3>1, <3>2 DEF Kept
  <2> QED BY <2>1, <2>2
<1> QED BY <1>3, <1>4, <1>5, <1>6, <1>7

\* A push makes its slot valid: the slot gets the value.
LEMMA KeptStored ==
  ASSUME Owned, NEW t \in Threads, OthersSame(t), NEW j \in Slots, NEW v \in Values, Stored(t, j, v)
  PROVE  \E r \in Storages : KeptMore(r, j, v)
<1>1. MineInv(t) /\ pc[t] = "commit" /\ pc'[t] # "vacate"
  BY DEF Owned, Stored
<1>2. at[t] \in Storages
  BY <1>1, AtFacts DEF OnStack, Owned
<1>3. PICK r \in Storages : r = at[t]
  BY <1>2
<1>4. j \notin meta[r].instance /\ slot[r][j] = v /\ slot' = slot
  BY <1>1, <1>3 DEF MineInv, Stored, Filling
<1>5. ~Vacated(r, j)
  BY <1>1, <1>3 DEF Vacated, Owned, OwnedInv, Stored
<1>6. ~Kept(r, j) /\ Kept(r, j)'
  <2>1. ~Vacated(r, j)'
    BY <1>1, <1>5, VacatedSame
  <2>2. j \in meta'[r].instance
    BY <1>3 DEF Stored
  <2> QED BY <1>4, <2>1, <2>2 DEF Kept
<1>7. ASSUME NEW s \in Storages, NEW i \in Slots, ~(s = r /\ i = j)
      PROVE  Kept(s, i)' <=> Kept(s, i)
  <2>1. i \in meta'[s].instance <=> i \in meta[s].instance
    BY <1>3, <1>7 DEF Stored, Only
  <2> QED BY <1>1, <2>1, VacatedSame DEF Kept
<1>8. KeptMore(r, j, v)
  BY <1>4, <1>6, <1>7 DEF KeptMore
<1> QED BY <1>8

\* A new storage: its first slot has the value.
LEMMA KeptCreated ==
  ASSUME Owned, NEW t \in Threads, OthersSame(t), NEW v \in Values, Created(t, v)
  PROVE  \E r \in Storages : KeptMore(r, 0, v)
<1>1. alloc + 1 \in Storages /\ 0 \in Slots /\ alloc \in Nat /\ pc[t] # "vacate" /\ pc'[t] # "vacate"
  BY BagAssumption, PlaceFacts DEF Created, Slots, Owned, PlaceFact
<1>2. PICK r \in Storages : r = alloc + 1
  BY <1>1
<1>3. meta[r].instance = {}
  BY <1>1, <1>2 DEF Owned, TypeInv, StorageType, NoBits
<1>4. ASSUME Vacated(r, 0) PROVE FALSE
  <2>1. PICK u \in Threads : pc[u] = "vacate" /\ at[u] = r
    BY <1>4 DEF Vacated
  <2>2. at[u] \in Nat /\ at[u] <= alloc
    BY <2>1, AtFacts DEF OnStack, Owned
  <2> QED BY <1>1, <1>2, <2>1, <2>2
<1>5. ~Kept(r, 0) /\ Kept(r, 0)'
  <2>1. ~Vacated(r, 0)'
    BY <1>1, <1>4, VacatedSame
  <2>2. 0 \in meta'[r].instance
    BY <1>2 DEF Created
  <2> QED BY <1>3, <2>1, <2>2 DEF Kept
<1>6. ASSUME NEW s \in Storages, NEW i \in Slots, ~(s = r /\ i = 0)
      PROVE  (Kept(s, i)' <=> Kept(s, i)) /\ (Kept(s, i) => slot'[s][i] = slot[s][i])
  <2>1. i \in meta'[s].instance <=> i \in meta[s].instance
    BY <1>2, <1>3, <1>6 DEF Created, Only
  <2>2. i \in meta[s].instance => slot'[s][i] = slot[s][i]
    BY <1>2, <1>3, <1>6 DEF Created, Only
  <2> QED BY <1>1, <2>1, <2>2, VacatedSame DEF Kept
<1>7. slot'[r][0] = v
  BY <1>2 DEF Created
<1>8. KeptMore(r, 0, v)
  BY <1>1, <1>5, <1>6, <1>7 DEF KeptMore
<1> QED BY <1>8

\* A pop or pop_all reads its slots: they hold nothing any more.
LEMMA KeptReadOut ==
  ASSUME Owned, NEW t \in Threads, OthersSame(t), ReadOut(t)
  PROVE  KeptLess(t)
<1>1. MineInv(t) /\ pc[t] = "read" /\ pc'[t] = "vacate" /\ UNCHANGED <<meta, slot, mine, at>>
  BY DEF Owned, ReadOut
<1>2. at[t] \in Storages /\ mine[t] \subseteq Slots
  BY <1>1, AtFacts DEF OnStack, Owned, TypeInv, ThreadType
<1>3. ASSUME NEW i \in mine[t] PROVE Kept(at[t], i) /\ ~Kept(at[t], i)'
  <2>1. i \in meta[at[t]].instance
    BY <1>1 DEF MineInv, Emptying
  <2>2. ~Vacated(at[t], i)
    BY <1>1 DEF Vacated, Owned, OwnedInv
  <2>3. Vacated(at[t], i)'
    BY <1>1 DEF Vacated
  <2> QED BY <2>1, <2>2, <2>3 DEF Kept
<1>4. ASSUME NEW s \in Storages, NEW i \in Slots, ~(s = at[t] /\ i \in mine[t])
      PROVE  Kept(s, i)' <=> Kept(s, i)
  <2>1. Vacated(s, i)' <=> Vacated(s, i)
    BY <1>1, <1>4 DEF OthersSame, Vacated
  <2> QED BY <1>1, <2>1 DEF Kept
<1> QED BY <1>1, <1>2, <1>3, <1>4 DEF KeptLess

HandsSame(t) == \A u \in Threads \ {t} : hand'[u] = hand[u]

\* Values change hands, or are returned: the slots are the same.
LEMMA ValueHands ==
  ASSUME ValueInv, ValueType, NEW t \in Threads, KeptSame, HandsSame(t),
         \/ fresh' = fresh /\ out' = out /\ hand'[t] = hand[t]
         \/ fresh' = fresh /\ out' = out \cup hand[t] /\ hand'[t] = {}
         \/ fresh' = fresh + 1 /\ out' = out /\ hand[t] = {} /\ hand'[t] = {fresh + 1}
  PROVE  ValueInv'
<1>1. CASE fresh' = fresh /\ out' = out /\ hand'[t] = hand[t]
  <2>1. \A u \in Threads : hand'[u] = hand[u]
    BY <1>1 DEF HandsSame
  <2> HIDE DEF Kept
  <2> QED BY <1>1, <2>1 DEF ValueInv, KeptSame
<1>2. CASE fresh' = fresh /\ out' = out \cup hand[t] /\ hand'[t] = {}
  <2>1. \A u \in Threads : hand'[u] = IF u = t THEN {} ELSE hand[u]
    BY <1>2 DEF HandsSame
  <2>2. (out \subseteq 1 .. fresh)'
    BY <1>2 DEF ValueInv
  <2>3. (\A u \in Threads : hand[u] \subseteq 1 .. fresh /\ hand[u] \cap out = {})'
    BY <1>2, <2>1 DEF ValueInv
  <2>4. (\A u, w \in Threads : u # w => hand[u] \cap hand[w] = {})'
    BY <2>1 DEF ValueInv
  <2>5. (\A s \in Storages, i \in Slots : Kept(s, i) =>
           /\ slot[s][i] \in 1 .. fresh /\ slot[s][i] \notin out
           /\ \A u \in Threads : slot[s][i] \notin hand[u])'
    BY <1>2, <2>1 DEF ValueInv, KeptSame
  <2>6. (\A s, r \in Storages, i, j \in Slots :
           Kept(s, i) /\ Kept(r, j) /\ slot[s][i] = slot[r][j] => s = r /\ i = j)'
    BY DEF ValueInv, KeptSame
  <2>7. (\A v \in 1 .. fresh : \/ v \in out \/ \E u \in Threads : v \in hand[u]
                               \/ \E s \in Storages, i \in Slots : Kept(s, i) /\ slot[s][i] = v)'
    <3>1. SUFFICES ASSUME NEW v \in 1 .. fresh
                   PROVE \/ v \in out' \/ \E u \in Threads : v \in hand'[u]
                         \/ \E s \in Storages, i \in Slots : Kept(s, i)' /\ slot'[s][i] = v
      BY <1>2
    <3>2. CASE v \in out
      BY <1>2, <3>2
    <3>3. CASE \E u \in Threads : v \in hand[u]
      BY <1>2, <2>1, <3>3
    <3>4. CASE \E s \in Storages, i \in Slots : Kept(s, i) /\ slot[s][i] = v
      BY <3>4 DEF KeptSame
    <3> QED BY <3>2, <3>3, <3>4 DEF ValueInv
  <2> QED BY <2>2, <2>3, <2>4, <2>5, <2>6, <2>7 DEF ValueInv
<1>3. CASE fresh' = fresh + 1 /\ out' = out /\ hand[t] = {} /\ hand'[t] = {fresh + 1}
  <2>0. fresh \in Nat /\ 1 .. fresh \subseteq 1 .. fresh + 1 /\ fresh + 1 \in 1 .. fresh + 1
        /\ fresh + 1 \notin 1 .. fresh
    BY Numbers DEF ValueType
  <2>1. \A u \in Threads : hand'[u] = IF u = t THEN {fresh + 1} ELSE hand[u]
    BY <1>3 DEF HandsSame
  <2>2. (out \subseteq 1 .. fresh)'
    BY <1>3, <2>0 DEF ValueInv
  <2>3. (\A u \in Threads : hand[u] \subseteq 1 .. fresh /\ hand[u] \cap out = {})'
    <3>1. ASSUME NEW u \in Threads PROVE hand'[u] \subseteq 1 .. fresh + 1 /\ hand'[u] \cap out = {}
      <4>1. CASE u = t
        BY <2>0, <2>1, <4>1 DEF ValueInv
      <4>2. CASE u # t
        BY <2>0, <2>1, <4>2 DEF ValueInv
      <4> QED BY <4>1, <4>2
    <3> QED BY <1>3, <3>1
  <2>4. (\A u, w \in Threads : u # w => hand[u] \cap hand[w] = {})'
    <3>1. ASSUME NEW u \in Threads, NEW w \in Threads, u # w PROVE hand'[u] \cap hand'[w] = {}
      BY <2>0, <2>1, <3>1 DEF ValueInv
    <3> QED BY <3>1
  <2>5. (\A s \in Storages, i \in Slots : Kept(s, i) =>
           /\ slot[s][i] \in 1 .. fresh /\ slot[s][i] \notin out
           /\ \A u \in Threads : slot[s][i] \notin hand[u])'
    <3>1. ASSUME NEW s \in Storages, NEW i \in Slots, Kept(s, i)'
          PROVE  /\ slot'[s][i] \in 1 .. fresh + 1 /\ slot'[s][i] \notin out
                 /\ \A u \in Threads : slot'[s][i] \notin hand'[u]
      <4>1. slot'[s][i] = slot[s][i] /\ slot[s][i] \in 1 .. fresh /\ slot[s][i] \notin out
            /\ \A u \in Threads : slot[s][i] \notin hand[u]
        BY <3>1 DEF KeptSame, ValueInv
      <4> QED BY <2>0, <2>1, <4>1
    <3> QED BY <1>3, <3>1
  <2>6. (\A s, r \in Storages, i, j \in Slots :
           Kept(s, i) /\ Kept(r, j) /\ slot[s][i] = slot[r][j] => s = r /\ i = j)'
    BY DEF ValueInv, KeptSame
  <2>7. (\A v \in 1 .. fresh : \/ v \in out \/ \E u \in Threads : v \in hand[u]
                               \/ \E s \in Storages, i \in Slots : Kept(s, i) /\ slot[s][i] = v)'
    <3>1. SUFFICES ASSUME NEW v \in 1 .. fresh + 1
                   PROVE \/ v \in out' \/ \E u \in Threads : v \in hand'[u]
                         \/ \E s \in Storages, i \in Slots : Kept(s, i)' /\ slot'[s][i] = v
      BY <1>3
    <3>2. CASE v = fresh + 1
      BY <2>1, <3>2
    <3>3. CASE v # fresh + 1
      <4>1. v \in 1 .. fresh
        BY <2>0, <3>3
      <4>2. CASE v \in out
        BY <1>3, <4>2
      <4>3. CASE \E u \in Threads : v \in hand[u]
        BY <1>3, <2>1, <4>3
      <4>4. CASE \E s \in Storages, i \in Slots : Kept(s, i) /\ slot[s][i] = v
        BY <4>4 DEF KeptSame
      <4> QED BY <4>1, <4>2, <4>3, <4>4 DEF ValueInv
    <3> QED BY <3>2, <3>3
  <2> QED BY <2>2, <2>3, <2>4, <2>5, <2>6, <2>7 DEF ValueInv
<1> QED BY <1>1, <1>2, <1>3

\* A push puts its value into a slot.
LEMMA ValueIn ==
  ASSUME ValueInv, ValueType, NEW t \in Threads, HandsSame(t), NEW q, NEW k, NEW x, KeptMore(q, k, x),
         hand[t] = {x}, hand'[t] = {}, fresh' = fresh, out' = out
  PROVE  ValueInv'
<1>1. \A u \in Threads : hand'[u] = IF u = t THEN {} ELSE hand[u]
  BY DEF HandsSame
<1>2. x \in 1 .. fresh /\ x \notin out /\ \A u \in Threads : u # t => x \notin hand[u]
  BY DEF ValueInv
<1>3. ASSUME NEW s \in Storages, NEW i \in Slots, Kept(s, i) PROVE slot[s][i] # x
  BY <1>3 DEF ValueInv
<1>4. (out \subseteq 1 .. fresh)'
  BY DEF ValueInv
<1>5. (\A u \in Threads : hand[u] \subseteq 1 .. fresh /\ hand[u] \cap out = {})'
  BY <1>1 DEF ValueInv
<1>6. (\A u, w \in Threads : u # w => hand[u] \cap hand[w] = {})'
  BY <1>1 DEF ValueInv
<1>7. (\A s \in Storages, i \in Slots : Kept(s, i) =>
         /\ slot[s][i] \in 1 .. fresh /\ slot[s][i] \notin out
         /\ \A u \in Threads : slot[s][i] \notin hand[u])'
  <2>1. ASSUME NEW s \in Storages, NEW i \in Slots, Kept(s, i)'
        PROVE  /\ slot'[s][i] \in 1 .. fresh /\ slot'[s][i] \notin out
               /\ \A u \in Threads : slot'[s][i] \notin hand'[u]
    <3>1. CASE s = q /\ i = k
      BY <1>1, <1>2, <3>1 DEF KeptMore
    <3>2. CASE ~(s = q /\ i = k)
      <4>1. slot'[s][i] = slot[s][i] /\ Kept(s, i)
        BY <2>1, <3>2 DEF KeptMore
      <4> QED BY <1>1, <4>1 DEF ValueInv
    <3> QED BY <3>1, <3>2
  <2> QED BY <2>1
<1>8. (\A s, r \in Storages, i, j \in Slots :
         Kept(s, i) /\ Kept(r, j) /\ slot[s][i] = slot[r][j] => s = r /\ i = j)'
  <2>1. ASSUME NEW s \in Storages, NEW i \in Slots, Kept(s, i)'
        PROVE  (s = q /\ i = k /\ slot'[s][i] = x) \/ (Kept(s, i) /\ slot'[s][i] = slot[s][i] /\ slot[s][i] # x)
    BY <1>3, <2>1 DEF KeptMore
  <2> QED BY <2>1 DEF ValueInv
<1>9. (\A v \in 1 .. fresh : \/ v \in out \/ \E u \in Threads : v \in hand[u]
                             \/ \E s \in Storages, i \in Slots : Kept(s, i) /\ slot[s][i] = v)'
  <2>1. SUFFICES ASSUME NEW v \in 1 .. fresh
                 PROVE \/ v \in out' \/ \E u \in Threads : v \in hand'[u]
                       \/ \E s \in Storages, i \in Slots : Kept(s, i)' /\ slot'[s][i] = v
    OBVIOUS
  <2>2. CASE v = x
    BY <2>2 DEF KeptMore
  <2>3. CASE v \in out
    BY <2>3
  <2>4. CASE v # x /\ \E u \in Threads : v \in hand[u]
    BY <1>1, <2>4
  <2>5. CASE \E s \in Storages, i \in Slots : Kept(s, i) /\ slot[s][i] = v
    <3>1. PICK s \in Storages, i \in Slots : Kept(s, i) /\ slot[s][i] = v
      BY <2>5
    <3>2. Kept(s, i)' /\ slot'[s][i] = v
      BY <3>1 DEF KeptMore
    <3> QED BY <3>2
  <2> QED BY <2>2, <2>3, <2>4, <2>5 DEF ValueInv
<1> QED BY <1>4, <1>5, <1>6, <1>7, <1>8, <1>9 DEF ValueInv

\* A pop or pop_all takes the values of its slots.
LEMMA ValueOut ==
  ASSUME ValueInv, ValueType, NEW t \in Threads, HandsSame(t), KeptLess(t),
         hand'[t] = hand[t] \cup {slot[at[t]][i] : i \in mine[t]}, at' = at, fresh' = fresh, out' = out
  PROVE  ValueInv'
<1> DEFINE New == {slot[at[t]][i] : i \in mine[t]}
<1>1. \A u \in Threads : hand'[u] = IF u = t THEN hand[t] \cup New ELSE hand[u]
  BY DEF HandsSame
<1>2. ASSUME NEW v \in New
      PROVE  v \in 1 .. fresh /\ v \notin out /\ \A u \in Threads : v \notin hand[u]
  BY DEF ValueInv, KeptLess
<1>3. ASSUME NEW s \in Storages, NEW i \in Slots, Kept(s, i)'
      PROVE  Kept(s, i) /\ slot'[s][i] = slot[s][i] /\ slot[s][i] \notin New
  <2>1. ~(s = at[t] /\ i \in mine[t]) /\ Kept(s, i) /\ slot' = slot
    <3>1. CASE s = at[t] /\ i \in mine[t]
      BY <1>3, <3>1 DEF KeptLess
    <3> QED BY <1>3, <3>1 DEF KeptLess
  <2>2. ASSUME NEW j \in mine[t] PROVE slot[s][i] # slot[at[t]][j]
    BY <2>1, <2>2 DEF ValueInv, KeptLess
  <2> QED BY <2>1, <2>2
<1> HIDE DEF New
<1>4. (out \subseteq 1 .. fresh)'
  BY DEF ValueInv
<1>5. (\A u \in Threads : hand[u] \subseteq 1 .. fresh /\ hand[u] \cap out = {})'
  BY <1>1, <1>2 DEF ValueInv
<1>6. (\A u, w \in Threads : u # w => hand[u] \cap hand[w] = {})'
  <2>1. ASSUME NEW u \in Threads, NEW w \in Threads, u # w PROVE hand'[u] \cap hand'[w] = {}
    BY <1>1, <1>2, <2>1 DEF ValueInv
  <2> QED BY <2>1
<1>7. (\A s \in Storages, i \in Slots : Kept(s, i) =>
         /\ slot[s][i] \in 1 .. fresh /\ slot[s][i] \notin out
         /\ \A u \in Threads : slot[s][i] \notin hand[u])'
  BY <1>1, <1>3 DEF ValueInv
<1>8. (\A s, r \in Storages, i, j \in Slots :
         Kept(s, i) /\ Kept(r, j) /\ slot[s][i] = slot[r][j] => s = r /\ i = j)'
  BY <1>3 DEF ValueInv
<1>9. (\A v \in 1 .. fresh : \/ v \in out \/ \E u \in Threads : v \in hand[u]
                             \/ \E s \in Storages, i \in Slots : Kept(s, i) /\ slot[s][i] = v)'
  <2>1. SUFFICES ASSUME NEW v \in 1 .. fresh
                 PROVE \/ v \in out' \/ \E u \in Threads : v \in hand'[u]
                       \/ \E s \in Storages, i \in Slots : Kept(s, i)' /\ slot'[s][i] = v
    OBVIOUS
  <2>2. CASE v \in New
    BY <1>1, <2>2
  <2>3. CASE v \in out
    BY <2>3
  <2>4. CASE \E u \in Threads : v \in hand[u]
    BY <1>1, <2>4
  <2>5. CASE v \notin New /\ \E s \in Storages, i \in Slots : Kept(s, i) /\ slot[s][i] = v
    <3>1. PICK s \in Storages, i \in Slots : Kept(s, i) /\ slot[s][i] = v
      BY <2>5
    <3>2. ~(s = at[t] /\ i \in mine[t])
      BY <2>5, <3>1 DEF New
    <3>3. Kept(s, i)' /\ slot'[s][i] = v
      BY <3>1, <3>2 DEF KeptLess
    <3> QED BY <3>3
  <2> QED BY <2>2, <2>3, <2>4, <2>5 DEF ValueInv
<1> QED BY <1>4, <1>5, <1>6, <1>7, <1>8, <1>9 DEF ValueInv

\* A step keeps each value in one place.
LEMMA ValueStep ==
  ASSUME Owned, ValueInv, NEW t \in Threads, Effect(t), OthersSame(t)
  PROVE  ValueInv'
<1>1. ValueType /\ HandsSame(t) /\ OpInv(t)
  BY DEF Owned, TypeInv, HandsSame, OthersSame
<1>2. CASE \/ Quiet(t) \/ Begun(t) \/ Ended(t) \/ Rejected(t) \/ Emptied(t)
           \/ \E I \in SUBSET Slots : Taken(t, I)
           \/ \E i \in Slots, v \in Values : Written(t, i, v)
           \/ \E i \in Slots : RolledBack(t, i)
  <2>1. KeptSame
    BY <1>2, KeptSteps
  <2>2. \/ fresh' = fresh /\ out' = out /\ hand'[t] = hand[t]
        \/ fresh' = fresh /\ out' = out \cup hand[t] /\ hand'[t] = {}
        \/ fresh' = fresh + 1 /\ out' = out /\ hand[t] = {} /\ hand'[t] = {fresh + 1}
    BY <1>1, <1>2 DEF Quiet, Begun, Ended, Rejected, Emptied, Taken, Written, RolledBack, OpInv
  <2> QED BY <1>1, <2>1, <2>2, ValueHands
<1>3. CASE \E i \in Slots, v \in Values : Stored(t, i, v)
  <2>1. PICK i \in Slots, v \in Values : Stored(t, i, v)
    BY <1>3
  <2>2. PICK r \in Storages : KeptMore(r, i, v)
    BY <2>1, KeptStored
  <2>3. hand[t] = {v} /\ hand'[t] = {} /\ fresh' = fresh /\ out' = out
    BY <2>1 DEF Stored
  <2> QED BY <1>1, <2>2, <2>3, ValueIn
<1>4. CASE \E v \in Values : Created(t, v)
  <2>1. PICK v \in Values : Created(t, v)
    BY <1>4
  <2>2. PICK r \in Storages : KeptMore(r, 0, v)
    BY <2>1, KeptCreated
  <2>3. hand[t] = {v} /\ hand'[t] = {} /\ fresh' = fresh /\ out' = out
    BY <2>1 DEF Created
  <2> QED BY <1>1, <2>2, <2>3, ValueIn
<1>5. CASE ReadOut(t)
  BY <1>1, <1>5, KeptReadOut, ValueOut DEF ReadOut
<1> QED BY <1>2, <1>3, <1>4, <1>5 DEF Effect

-----------------------------------------------------------------------------
(* The stack of linked storages                                             *)

\* A pop_all leaves a storage only when it has no valid slot.
LEMMA DrainStep ==
  ASSUME LocalInv, NEW t \in Threads, Step(t), NEW s \in 1 .. alloc, Draining(t, s)
  PROVE  Draining(t, s)' \/ Valid(meta'[s]) = {}
<1>1. OpInv(t) /\ StaleInv(t) /\ TypeInv /\ s # Primary
  BY Numbers DEF LocalInv
<1>2. op[t] = "pop_all" /\ at[t] = s /\ s # Null
  BY Numbers DEF Draining
<1>3. pc[t] \in {"clean", "share", "swap", "pop_all", "read", "vacate"}
  BY <1>1, <1>2 DEF TypeInv, ThreadType, PCs, OpInv, Filling, Emptying
<1>4. \/ CleanNext(t) \/ CleanShare(t) \/ CleanSwap(t) \/ Popped(t)
      \/ PopAllOwn(t) \/ Read(t) \/ Vacate(t)
  BY <1>2, <1>3 DEF Step, BeginPush, BeginPop, BeginPopAll, Peeked, LinkShare, Link, Pop, Take,
     PushOwn, PushWrite, PushCommit, PushRollback, PopOwn, Delete, Advance
<1> USE DEF TypeInv, ThreadType, Draining, Goto
<1>8. CASE CleanNext(t) \/ CleanShare(t) \/ CleanSwap(t) \/ Popped(t)
  BY <1>1, <1>2, <1>8 DEF CleanNext, CleanShare, CleanSwap, Popped, Use
<1>5. CASE Read(t)
  BY <1>1, <1>2, <1>5 DEF Read
<1>6. CASE Vacate(t)
  BY <1>1, <1>2, <1>6 DEF Vacate
<1>7. CASE PopAllOwn(t)
  <2>1. CASE Valid(bits[t]) = {}
    BY <1>1, <1>2, <1>7, <2>1 DEF PopAllOwn, StaleInv
  <2>2. CASE Valid(bits[t]) # {}
    BY <1>1, <1>2, <1>7, <2>2 DEF PopAllOwn
  <2> QED BY <2>1, <2>2
<1> QED BY <1>4, <1>5, <1>6, <1>7, <1>8

\* Only a storage with no valid slot is deleted, or one that a pop_all drains.
LEMMA DeletedStep ==
  ASSUME LocalInv, NEW t \in Threads, Step(t), NEW s \in deleted', s \notin deleted
  PROVE  Draining(t, s)' \/ Valid(meta'[s]) = {}
<1>1. OpInv(t) /\ StaleInv(t) /\ TypeInv
  BY DEF LocalInv
<1>2. \/ Take(t) /\ s = top[t]
      \/ Delete(t) /\ s = at[t]
  BY DEF Step, BeginPush, BeginPop, BeginPopAll, CleanNext, CleanShare, CleanSwap, Peeked,
     LinkShare, Link, Pop, Take, Popped, PushOwn, PushWrite, PushCommit, PushRollback, PopOwn, Read,
     Vacate, Delete, Advance, PopAllOwn, stackVars
<1>3. CASE Take(t) /\ s = top[t]
  BY <1>1, <1>3 DEF Take, Draining, OpInv, TypeInv, ThreadType
<1>4. CASE Delete(t) /\ s = at[t]
  BY <1>1, <1>4 DEF Delete, StaleInv, Valid
<1> QED BY <1>2, <1>3, <1>4

\* The stack after a step.
LEMMA StackStep ==
  ASSUME LocalInv, StackInv, NEW t \in Threads, Step(t), Owned, Effect(t), OthersSame(t)
  PROVE  StackInv'
<1>2. ASSUME NEW s \in deleted' PROVE Emptyish(s)'
  <2>1. CASE s \notin deleted
    BY <2>1, DeletedStep DEF Emptyish
  <2>2. CASE s \in deleted
    <3>1. s \in 1 .. alloc /\ Emptyish(s)
      BY <2>2 DEF StackInv, LocalInv, TypeInv, StackType
    <3>2. CASE Valid(meta[s]) = {}
      BY <3>1, <3>2, EmptyStays DEF Emptyish
    <3>3. CASE \E u \in Threads : Draining(u, s)
      <4>1. PICK u \in Threads : Draining(u, s)
        BY <3>3
      <4>2. CASE u = t
        BY <3>1, <4>1, <4>2, DrainStep DEF Emptyish
      <4>3. CASE u # t
        <5>1. Draining(u, s)'
          BY <4>1, <4>3 DEF OthersSame, Draining
        <5> QED BY <5>1 DEF Emptyish
      <4> QED BY <4>2, <4>3
    <3> QED BY <3>1, <3>2, <3>3 DEF Emptyish
  <2> QED BY <2>1, <2>2
<1> QED BY <1>2 DEF StackInv

-----------------------------------------------------------------------------
(* The invariant, and what it says of the values                            *)

\* The invariant holds initially.
LEMMA BagInvInit ==
  Init => BagInv
<1> SUFFICES ASSUME Init PROVE BagInv
  OBVIOUS
<1>0. /\ MaxStorages \in Nat \ {0} /\ ArrayLen \in Nat \ {0} /\ MaxValues \in Nat /\ MaxValues > ArrayLen
      /\ 0 \in Slots /\ 1 \in Storages
  BY BagAssumption DEF Slots, Storages
<1>1. StorageType
  <2>1. \A s \in Storages : meta[s] = [instance |-> IF s = Primary THEN Slots ELSE IF s = 1 THEN {0} ELSE {}, owned |-> {}]
    BY DEF Init
  <2>2. meta \in [Storages -> Bitmaps]
    <3>1. ASSUME NEW s \in Storages PROVE meta[s] \in Bitmaps
      <4>1. PICK I \in SUBSET Slots : meta[s] = [instance |-> I, owned |-> {}]
        BY <1>0, <2>1
      <4> QED BY <4>1 DEF Bitmaps
    <3> QED BY <3>1 DEF Init
  <2>3. \A s \in Storages : s > alloc => meta[s] = NoBits
    <3>1. ASSUME NEW s \in Storages, s > alloc PROVE s # Primary /\ s # 1
      BY <3>1, Numbers DEF Init
    <3> QED BY <2>1, <3>1 DEF NoBits
  <2>4. slot \in [Storages -> [Slots -> 0 .. MaxValues]]
    <3>1. \A i \in Slots : i + 1 \in 0 .. MaxValues
      BY <1>0 DEF Slots
    <3>2. ArrayLen + 1 \in 0 .. MaxValues /\ 0 \in 0 .. MaxValues
      BY <1>0
    <3> QED BY <3>1, <3>2 DEF Init
  <2> QED BY <2>2, <2>3, <2>4 DEF StorageType
<1>2. StackType
  BY <1>0, Numbers DEF Init, StackType, Ordered, Links, Places
<1>3. ValueType /\ ThreadType /\ RefType
  BY <1>0 DEF Init, ValueType, ThreadType, RefType, PCs, Links, Bitmaps, NoBits
<1>4. \A t \in Threads : OpInv(t) /\ MineInv(t) /\ StaleInv(t)
  BY DEF Init, OpInv, MineInv, StaleInv, OnStack, Filling, Emptying
<1>5. OwnedInv
  BY DEF Init, OwnedInv
<1>6. LocalInv
  BY <1>1, <1>2, <1>3, <1>4, <1>5 DEF LocalInv, TypeInv
<1>7. ValueInv
  <2>1. \A s \in Storages, i \in Slots :
          Kept(s, i) <=> s = Primary \/ (s = 1 /\ i = 0)
    BY <1>0, Numbers DEF Kept, Vacated, Init
  <2>2. \A i \in Slots : slot[Primary][i] = i + 1
    BY Numbers DEF Init
  <2>3. slot[1][0] = ArrayLen + 1
    BY <1>0, Numbers DEF Init
  <2>4. fresh = ArrayLen + 1 /\ out = {} /\ \A t \in Threads : hand[t] = {}
    BY DEF Init
  <2>5. ASSUME NEW s \in Storages, NEW i \in Slots, Kept(s, i) PROVE slot[s][i] \in 1 .. fresh
    BY <1>0, <2>1, <2>2, <2>3, <2>4, <2>5 DEF Slots
  <2>6. ASSUME NEW s \in Storages, NEW r \in Storages, NEW i \in Slots, NEW j \in Slots,
               Kept(s, i), Kept(r, j), slot[s][i] = slot[r][j]
        PROVE  s = r /\ i = j
    BY <1>0, <2>1, <2>2, <2>3, <2>6 DEF Slots
  <2>7. ASSUME NEW v \in 1 .. fresh
        PROVE  \E s \in Storages, i \in Slots : Kept(s, i) /\ slot[s][i] = v
    <3>1. CASE v = ArrayLen + 1
      BY <1>0, <2>1, <2>3, <3>1
    <3>2. CASE v # ArrayLen + 1
      <4>1. v - 1 \in Slots /\ (v - 1) + 1 = v
        BY <1>0, <2>4, <3>2 DEF Slots
      <4>2. Kept(Primary, v - 1) /\ slot[Primary][v - 1] = v
        BY <2>1, <2>2, <4>1, Numbers
      <4> QED BY <4>1, <4>2, Numbers
    <3> QED BY <3>1, <3>2
  <2> QED BY <2>4, <2>5, <2>6, <2>7 DEF ValueInv
<1>8. StackInv
  BY DEF Init, StackInv
<1> QED BY <1>6, <1>7, <1>8 DEF BagInv

\* Every step keeps the invariant.
LEMMA BagInvStep ==
  BagInv /\ [Next]_vars => BagInv'
<1> SUFFICES ASSUME BagInv, [Next]_vars PROVE BagInv'
  OBVIOUS
<1>1. CASE \E t \in Threads : Step(t)
  <2>1. PICK t \in Threads : Step(t)
    BY <1>1
  <2>2. LocalInv' /\ Effect(t) /\ OthersSame(t) /\ Owned
    BY <2>1, LocalStep DEF BagInv
  <2>3. ValueInv'
    BY <2>2, ValueStep DEF BagInv
  <2>4. StackInv'
    BY <2>1, <2>2, StackStep DEF BagInv
  <2> QED BY <2>2, <2>3, <2>4 DEF BagInv
<1>2. CASE (\E s \in 1 .. alloc \ freed : Reclaim(s)) \/ UNCHANGED vars
  <2>1. /\ UNCHANGED <<meta, slot, newest, deleted, alloc, fresh, out, pc, op, at, top, ref, link,
                       bits, mine, hand>>
        /\ next' = next \/ \E s \in Storages : next' = [next EXCEPT ![s] = Null]
    BY <1>2, Numbers DEF Reclaim, vars, refVars, BagInv, LocalInv, TypeInv, StackType
  <2>2. TypeInv' /\ RefType'
    <3>1. StorageType' /\ ValueType' /\ ThreadType' /\ RefType'
      BY <2>1 DEF BagInv, LocalInv, TypeInv, StorageType, ValueType, ThreadType, RefType, Links
    <3>2. StackType'
      <4>1. Ordered(next') /\ \A x \in Storages : next'[x] \in Links
        BY <2>1 DEF BagInv, LocalInv, TypeInv, StackType, Ordered, Links, Places
      <4> QED BY <2>1, <4>1 DEF BagInv, LocalInv, TypeInv, StackType, Links
    <3> QED BY <3>1, <3>2 DEF TypeInv
  <2>3. OwnedInv'
    BY <2>1 DEF BagInv, LocalInv, OwnedInv
  <2>4. ASSUME NEW u \in Threads PROVE (OpInv(u) /\ MineInv(u) /\ StaleInv(u))'
    BY <2>1 DEF BagInv, LocalInv, OpInv, MineInv, StaleInv
  <2>5. ValueInv'
    BY <2>1 DEF BagInv, ValueInv, Kept, Vacated
  <2>6. StackInv'
    BY <2>1 DEF BagInv, StackInv, Emptyish, Draining
  <2> QED BY <2>2, <2>3, <2>4, <2>5, <2>6 DEF BagInv, LocalInv
<1> QED BY <1>1, <1>2 DEF Next

\* The storages with values to be popped are storages.
LEMMA OpenType ==
  ASSUME LocalInv
  PROVE  Open \subseteq Storages
<1>1. \A t \in Threads : at[t] # Null => at[t] \in Storages
  BY PlaceFacts DEF LocalInv, PlaceFact
<1>2. 0 .. alloc \subseteq Storages
  BY Numbers DEF LocalInv, TypeInv, StackType
<1> QED BY <1>1, <1>2 DEF Open

\* A value in a valid slot is in a storage to be popped from, and its slot is no thread's.
LEMMA KeptFacts ==
  ASSUME BagInv
  PROVE  /\ \A s \in Storages, i \in Slots : i \in Valid(meta[s]) => Kept(s, i)
         /\ \A t \in Threads, i \in Slots : pc[t] = "read" /\ i \in mine[t] => at[t] \in Storages /\ Kept(at[t], i)
         /\ \A s \in Storages, i \in Slots : Kept(s, i) =>
              \/ s \in Open /\ i \in Valid(meta[s])
              \/ i \notin Valid(meta[s]) /\ \E t \in Threads : pc[t] = "read" /\ at[t] = s /\ i \in mine[t]
<1>0. LocalInv /\ TypeInv /\ \A t \in Threads : OpInv(t) /\ MineInv(t)
  BY DEF BagInv, LocalInv
<1>1. ASSUME NEW s \in Storages, NEW i \in Slots, i \in Valid(meta[s]) PROVE Kept(s, i)
  BY <1>0, <1>1 DEF Kept, Vacated, Valid, MineInv, Emptying
<1>2. ASSUME NEW t \in Threads, NEW i \in Slots, pc[t] = "read", i \in mine[t]
      PROVE  at[t] \in Storages /\ Kept(at[t], i)
  <2>1. at[t] \in Storages
    BY <1>0, <1>2, AtFacts DEF OnStack
  <2>2. i \in meta[at[t]].instance
    BY <1>0, <1>2 DEF MineInv, Emptying
  <2>3. ~Vacated(at[t], i)
    BY <1>0, <1>2 DEF LocalInv, OwnedInv, Vacated
  <2> QED BY <2>1, <2>2, <2>3 DEF Kept
<1>3. ASSUME NEW s \in Storages, NEW i \in Slots, Kept(s, i)
      PROVE  \/ s \in Open /\ i \in Valid(meta[s])
             \/ i \notin Valid(meta[s]) /\ \E t \in Threads : pc[t] = "read" /\ at[t] = s /\ i \in mine[t]
  <2>1. CASE i \notin Valid(meta[s])
    <3>1. i \in meta[s].instance \cap meta[s].owned
      BY <1>3, <2>1 DEF Kept, Valid
    <3>2. PICK t \in Threads : at[t] = s /\ pc[t] \in Emptying /\ i \in mine[t]
      BY <1>0, <3>1 DEF LocalInv, OwnedInv
    <3>3. pc[t] = "read"
      BY <1>3, <3>2 DEF Kept, Vacated, Emptying
    <3> QED BY <2>1, <3>2, <3>3
  <2>2. CASE i \in Valid(meta[s])
    <3>1. s \in 0 .. alloc
      <4>1. s \in Nat /\ alloc \in Nat
        BY <1>0, Numbers DEF TypeInv, StackType
      <4>2. ~(s > alloc)
        BY <1>0, <2>2 DEF TypeInv, StorageType, NoBits, Valid
      <4> QED BY <4>1, <4>2
    <3>2. CASE s \notin deleted
      BY <2>2, <3>1, <3>2 DEF Open
    <3>3. CASE s \in deleted
      <4>1. PICK u \in Threads : Draining(u, s)
        BY <2>2, <3>3 DEF BagInv, StackInv, Emptyish
      <4>2. s \in Open
        BY <4>1, Numbers DEF Draining, Open
      <4> QED BY <2>2, <4>2
    <3> QED BY <3>2, <3>3
  <2> QED BY <2>1, <2>2
<1> QED BY <1>1, <1>2, <1>3

\* The invariant puts each value in one place.
LEMMA BagInvOnce ==
  BagInv => EachValueOnce
<1> SUFFICES ASSUME BagInv, NEW v \in 1 .. fresh
             PROVE  Cardinality(Holding(v)) + Cardinality(Carrying(v)) + (IF v \in out THEN 1 ELSE 0) = 1
  BY DEF EachValueOnce
<1>1. /\ ValueInv /\ LocalInv /\ Open \subseteq Storages
      /\ \A t \in Threads : mine[t] \subseteq Slots
  BY OpenType DEF BagInv, LocalInv, TypeInv, ThreadType
<1>2. ASSUME NEW x \in Holding(v)
      PROVE  /\ x = <<x[1], x[2]>> /\ x[1] \in Open /\ x[1] \in Storages /\ x[2] \in Slots
             /\ slot[x[1]][x[2]] = v /\ Kept(x[1], x[2]) /\ x[2] \in Valid(meta[x[1]])
  BY <1>1, KeptFacts DEF Holding
<1>3. ASSUME NEW t \in Threads, NEW i \in mine[t], pc[t] = "read", slot[at[t]][i] = v
      PROVE  at[t] \in Storages /\ i \in Slots /\ Kept(at[t], i)
  BY <1>1, <1>3, KeptFacts
<1>4. \A S, x : S = {} => Cardinality(S) = 0
  BY FS_EmptySet
<1>5. \A S, x : S = {x} => Cardinality(S) = 1
  BY FS_Singleton
<1>6. CASE v \in out
  <2>1. Holding(v) = {}
    BY <1>1, <1>2, <1>6 DEF ValueInv
  <2>2. Carrying(v) = {}
    <3>1. ASSUME NEW t \in Carrying(v) PROVE FALSE
      BY <1>1, <1>3, <1>6 DEF Carrying, ValueInv
    <3> QED BY <3>1
  <2> QED BY <1>4, <1>6, <2>1, <2>2
<1>7. CASE \E t \in Threads : v \in hand[t]
  <2>1. PICK t \in Threads : v \in hand[t]
    BY <1>7
  <2>2. v \notin out
    BY <1>1, <2>1 DEF ValueInv
  <2>3. Holding(v) = {}
    BY <1>1, <1>2, <2>1 DEF ValueInv
  <2>4. Carrying(v) = {t}
    <3>1. ASSUME NEW u \in Carrying(v) PROVE u = t
      BY <1>1, <1>3, <2>1 DEF Carrying, ValueInv
    <3> QED BY <2>1, <3>1 DEF Carrying
  <2>5. Cardinality(Holding(v)) = 0 /\ Cardinality(Carrying(v)) = 1
    BY <1>4, <1>5, <2>3, <2>4
  <2> QED BY <2>2, <2>5
<1>8. CASE \E s \in Storages, i \in Slots : Kept(s, i) /\ slot[s][i] = v
  <2>1. PICK s \in Storages, i \in Slots : Kept(s, i) /\ slot[s][i] = v
    BY <1>8
  <2>2. v \notin out /\ \A t \in Threads : v \notin hand[t]
    BY <1>1, <2>1 DEF ValueInv
  <2>3. \A r \in Storages, j \in Slots : Kept(r, j) /\ slot[r][j] = v => r = s /\ j = i
    BY <1>1, <2>1 DEF ValueInv
  <2>4. CASE s \in Open /\ i \in Valid(meta[s])
    <3>1. Holding(v) = {<<s, i>>}
      <4>1. <<s, i>> \in Holding(v)
        BY <2>1, <2>4 DEF Holding
      <4>2. ASSUME NEW x \in Holding(v) PROVE x = <<s, i>>
        BY <1>2, <2>3
      <4> QED BY <4>1, <4>2
    <3>2. Carrying(v) = {}
      <4>1. ASSUME NEW u \in Carrying(v) PROVE FALSE
        <5>1. PICK j \in mine[u] : pc[u] = "read" /\ slot[at[u]][j] = v
          BY <2>2 DEF Carrying
        <5>2. u \in Threads /\ at[u] = s /\ j = i
          BY <1>3, <2>3, <5>1 DEF Carrying
        <5>3. MineInv(u)
          BY <5>2 DEF BagInv, LocalInv
        <5> QED BY <2>4, <5>1, <5>2, <5>3 DEF MineInv, Emptying, Valid
      <4> QED BY <4>1
    <3>3. Cardinality(Holding(v)) = 1 /\ Cardinality(Carrying(v)) = 0
      BY <1>4, <1>5, <3>1, <3>2
    <3> QED BY <2>2, <3>3
  <2>5. CASE i \notin Valid(meta[s]) /\ \E t \in Threads : pc[t] = "read" /\ at[t] = s /\ i \in mine[t]
    <3>1. PICK t \in Threads : pc[t] = "read" /\ at[t] = s /\ i \in mine[t]
      BY <2>5
    <3>2. Holding(v) = {}
      <4>1. ASSUME NEW x \in Holding(v) PROVE FALSE
        BY <1>2, <2>3, <2>5
      <4> QED BY <4>1
    <3>3. Carrying(v) = {t}
      <4>1. t \in Carrying(v)
        BY <2>1, <3>1 DEF Carrying
      <4>2. ASSUME NEW u \in Carrying(v) PROVE u = t
        <5>1. PICK j \in mine[u] : pc[u] = "read" /\ slot[at[u]][j] = v
          BY <2>2 DEF Carrying
        <5>2. u \in Threads /\ at[u] = s /\ j = i
          BY <1>3, <2>3, <5>1 DEF Carrying
        <5> QED BY <1>1, <3>1, <5>1, <5>2 DEF LocalInv, OwnedInv
      <4> QED BY <4>1, <4>2
    <3>4. Cardinality(Holding(v)) = 0 /\ Cardinality(Carrying(v)) = 1
      BY <1>4, <1>5, <3>2, <3>3
    <3> QED BY <2>2, <3>4
  <2> QED BY <2>1, <2>4, <2>5, KeptFacts
<1> QED BY <1>1, <1>6, <1>7, <1>8 DEF ValueInv

\* The invariant of the bag (src/bag.rs, src/stack.rs): a slot is owned by one thread,
\* a storage that a pop or pop_all has found empty stays empty, and a deleted one has
\* no valid slot, or a pop_all is draining it; whatever get_shared gives in the
\* clean-ups, and whenever storages are dropped.
THEOREM BagInvariant == Spec => []BagInv
  BY BagInvInit, BagInvStep, PTL DEF Spec

\* A value pushed into the bag is in one place at any time: in the hands of one
\* thread, in one slot of a storage that is not deleted or is being drained, or
\* returned by one pop or pop_all.  No push leaves its value in a storage that is
\* emptied and deleted meanwhile.
THEOREM EachValueOnceHolds == Spec => []EachValueOnce
  BY BagInvariant, BagInvOnce, PTL
=============================================================================
