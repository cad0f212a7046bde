-------------------------- MODULE LinkedList_proofs --------------------------
(***************************************************************************)
(* Proofs about the linked list, for any number of threads and entries:    *)
(* the reference counts are exact, no thread has a pointer to an entry     *)
(* that has been dropped, every entry that is not deleted can be reached   *)
(* from the head, no walk leaves one out, and a claimed entry belongs to   *)
(* the run of one walk.                                                    *)
(*                                                                         *)
(* The paths along the links are sets closed under the links (Ahead), so   *)
(* that a proof about a path gives a closed set and no induction; the      *)
(* recursive functions of the specification are shown to compute them.     *)
(* A strict order of the entries, in which every link and every pointer    *)
(* of a walk goes forward, says that a moved link makes no cycle.          *)
(***************************************************************************)
EXTENDS LinkedList, Integers, FiniteSetTheorems, WellFoundedInduction, TLAPS

-----------------------------------------------------------------------------
(* The inductive invariant                                                  *)

PCs == {"idle", "at", "push", "push_cas", "walk", "claim", "take", "cas", "release",
        "swap", "restore", "done", "drop"}
Pushing == {"push", "push_cas"}
Addresses == Entries \cup {Null}

\* The pointers of a thread, and the entries it has in its hands.
Pointers(t) == {cur[t], seen[t].to, ptr[t].to, state[t].to, first[t], last[t]}
Held(t) == (Pointers(t) \cup own[t]) \ {Null}

TypeInv ==
  /\ link \in [Entries -> Links] /\ cnt \in [Entries -> Nat] /\ alloc \in Entries
  /\ pins \in [Entries -> SUBSET Threads] /\ freed \in SUBSET Entries
  /\ pc \in [Threads -> PCs] /\ cur \in [Threads -> Addresses]
  /\ seen \in [Threads -> Links] /\ ptr \in [Threads -> Links]
  /\ state \in [Threads -> Links]
  /\ first \in [Threads -> Addresses] /\ last \in [Threads -> Addresses]
  /\ own \in [Threads -> SUBSET Entries]

\* Nothing refers to an entry before it is allocated.
AllocInv ==
  /\ \A e \in Entries : link[e].to # Null => e <= alloc /\ link[e].to <= alloc
  /\ \A e \in Entries : e > alloc => link[e].tag = "None"
  /\ \A t \in Threads : \A e \in Held(t) : e <= alloc

\* What a thread owns, by where it is: the entry it pushes, the one it has found,
\* and in between one that it has unlinked.
OwnShape(t) ==
  /\ pc[t] \in Pushing => \E n \in Entries : own[t] = {n}
  /\ pc[t] \in {"idle", "at", "walk", "claim", "take", "drop"} => own[t] = {}
  /\ pc[t] \in {"cas", "swap"} => own[t] = {ptr[t].to} \ {Null}
  /\ pc[t] = "release" =>
       /\ {ptr[t].to} \ {Null} \subseteq own[t]
       /\ \E x \in Entries : own[t] \subseteq {ptr[t].to, x}
  /\ pc[t] \in {"restore", "done"} => own[t] \subseteq {ptr[t].to}

\* The pointers of a thread, by where it is: a walk that has left the entry it
\* found first has found it deleted, so it ends at another one.
WalkShape(t) ==
  /\ pc[t] = "idle" <=> cur[t] = Null
  /\ pc[t] \in {"idle", "at", "drop"} =>
       seen[t].to = Null /\ ptr[t].to = Null /\ state[t].to = Null /\ first[t] = Null
       /\ last[t] = Null
  /\ pc[t] = "push_cas" => seen[t].tag \notin {"Second", "Both"}
  /\ pc[t] = "walk" => seen[t] = ptr[t] \/ (seen[t].to # Null /\ Deleted(seen[t].to))
  /\ pc[t] = "claim" => ptr[t].to # Null /\ seen[t].to # Null /\ Deleted(seen[t].to)
  /\ pc[t] \in {"take", "cas"} => seen[t].to # Null /\ seen[t].to # ptr[t].to
  /\ pc[t] = "swap" => first[t] # Null

\* Nobody knows an entry that is being pushed.
Private(t) ==
  pc[t] \in Pushing => \A n \in own[t] :
    /\ n # Head
    /\ \A x \in Entries : link[x].to # n
    /\ \A u \in Threads : n \notin Pointers(u) /\ (u # t => n \notin own[u])
    /\ ~Deleted(n)

\* What a thread has in its hands is owned by somebody, or its Guard keeps it; but
\* for the entry it drops.
Kept(t) ==
  \A e \in Held(t) :
    \/ cnt[e] # 0
    \/ t \in pins[e]
    \/ e = cur[t] /\ e \in freed /\ pc[t] \notin {"at", "push", "push_cas"}

\* A dropped entry has no owner and is kept by no Guard.
FreedInv == \A e \in freed : e <= alloc /\ cnt[e] = 0 /\ pins[e] = {}

ListInv ==
  /\ TypeInv /\ AllocInv /\ CountsExact /\ FreedInv
  /\ \A t \in Threads : OwnShape(t) /\ WalkShape(t) /\ Private(t) /\ Kept(t)

Step(t) ==
  \/ Enter(t) \/ Leave(t)
  \/ Mark(t) \/ Unmark(t) \/ DeleteSelf(t)
  \/ Push(t) \/ PushLink(t) \/ PushCas(t) \/ PushFail(t)
  \/ NextPtr(t) \/ WalkEnds(t) \/ Walk(t) \/ Claim(t) \/ Take(t)
  \/ Unlink(t) \/ Release(t) \/ Swap(t) \/ Restore(t) \/ Return(t)
  \/ Collect(t) \/ DropLink(t)

-----------------------------------------------------------------------------
(* Counting owners                                                          *)

Linking(e) == {x \in 1 .. alloc : link[x].to = e}
Holding(e) == {t \in Threads : e \in own[t]}
Root(e) == IF e = Head THEN 1 ELSE 0

\* Null is no entry, and the head is one.
LEMMA Numbers ==
  /\ MaxEntries \in Nat /\ Null = 0 /\ Head = 1 /\ Null \notin Entries /\ Head \in Entries
  /\ \A e : e \in Entries <=> e \in Nat /\ 1 <= e /\ e <= MaxEntries
  BY ListAssumption DEF Entries, Null, Head

\* The owners of an entry are finitely many: links, handles and the root.
LEMMA OwnersFacts ==
  ASSUME TypeInv, NEW e
  PROVE  /\ IsFiniteSet(Linking(e)) /\ IsFiniteSet(Holding(e))
         /\ Cardinality(Linking(e)) \in Nat /\ Cardinality(Holding(e)) \in Nat
         /\ Owners(e) = Cardinality(Linking(e)) + Cardinality(Holding(e)) + Root(e)
         /\ Owners(e) = 0 => Linking(e) = {} /\ Holding(e) = {} /\ Root(e) = 0
         /\ Owners(e) \in Nat
<1>1. IsFiniteSet(1 .. alloc)
  BY Numbers, FS_Interval DEF TypeInv
<1>2. IsFiniteSet(Linking(e)) /\ IsFiniteSet(Holding(e))
  BY <1>1, FS_Subset, ListAssumption DEF Linking, Holding
<1>3. Cardinality(Linking(e)) \in Nat /\ Cardinality(Holding(e)) \in Nat
  BY <1>2, FS_CardinalityType
<1>4. Owners(e) = Cardinality(Linking(e)) + Cardinality(Holding(e)) + Root(e)
  BY DEF Owners, Linking, Holding, Root
<1>5. Root(e) \in Nat
  BY DEF Root
<1>6. Owners(e) = 0 => Cardinality(Linking(e)) = 0 /\ Cardinality(Holding(e)) = 0 /\ Root(e) = 0
  BY <1>3, <1>4, <1>5
<1>7. Owners(e) = 0 => Linking(e) = {} /\ Holding(e) = {} /\ Root(e) = 0
  BY <1>2, <1>6, FS_EmptySet
<1>8. Owners(e) \in Nat
  BY <1>3, <1>4, <1>5
<1> QED BY <1>2, <1>3, <1>4, <1>7, <1>8

\* A set to which at most one element is added, or from which it is taken.
LEMMA OneElement ==
  ASSUME NEW S, NEW T, IsFiniteSet(S), NEW x, S \ {x} = T \ {x}
  PROVE  Cardinality(T) = Cardinality(S) + (IF x \in T THEN 1 ELSE 0) - (IF x \in S THEN 1 ELSE 0)
<1> DEFINE R == S \ {x}
<1>1. IsFiniteSet(R) /\ Cardinality(R) \in Nat /\ x \notin R
  BY FS_RemoveElement, FS_CardinalityType
<1>2. Cardinality(R \cup {x}) = Cardinality(R) + 1
  BY <1>1, FS_AddElement
<1>3. (x \in S => S = R \cup {x}) /\ (x \notin S => S = R)
  OBVIOUS
<1>4. (x \in T => T = R \cup {x}) /\ (x \notin T => T = R)
  OBVIOUS
<1> HIDE DEF R
<1>5. /\ x \in S => Cardinality(S) = Cardinality(R) + 1
      /\ x \notin S => Cardinality(S) = Cardinality(R)
  BY <1>2, <1>3
<1>6. /\ x \in T => Cardinality(T) = Cardinality(R) + 1
      /\ x \notin T => Cardinality(T) = Cardinality(R)
  BY <1>2, <1>4
<1> QED BY <1>1, <1>5, <1>6

\* The links to an entry, when one link changes.
LEMMA LinkMoves ==
  ASSUME TypeInv, alloc' = alloc, NEW x \in 1 .. alloc, NEW e,
         \A y \in Entries \ {x} : link'[y].to = link[y].to
  PROVE  Cardinality(Linking(e))' =
           Cardinality(Linking(e)) + (IF link'[x].to = e THEN 1 ELSE 0)
                                   - (IF link[x].to = e THEN 1 ELSE 0)
<1>1. \A y \in 1 .. alloc : y \in Entries
  BY Numbers DEF TypeInv
<1>2. Linking(e) \ {x} = Linking(e)' \ {x}
  BY <1>1 DEF Linking
<1>3. (x \in Linking(e) <=> link[x].to = e) /\ (x \in Linking(e)' <=> link'[x].to = e)
  BY DEF Linking
<1>4. IsFiniteSet(Linking(e))
  BY OwnersFacts
<1>5. Cardinality(Linking(e)') = Cardinality(Linking(e)) + (IF x \in Linking(e)' THEN 1 ELSE 0)
                                   - (IF x \in Linking(e) THEN 1 ELSE 0)
  BY <1>2, <1>4, OneElement
<1> QED BY <1>3, <1>5

\* The handles of an entry, when those of one thread change.
LEMMA OwnMoves ==
  ASSUME TypeInv, NEW t \in Threads, NEW e, \A u \in Threads \ {t} : own'[u] = own[u]
  PROVE  Cardinality(Holding(e))' =
           Cardinality(Holding(e)) + (IF e \in own'[t] THEN 1 ELSE 0)
                                   - (IF e \in own[t] THEN 1 ELSE 0)
<1>2. Holding(e) \ {t} = Holding(e)' \ {t}
  BY DEF Holding
<1>3. (t \in Holding(e) <=> e \in own[t]) /\ (t \in Holding(e)' <=> e \in own'[t])
  BY DEF Holding
<1>4. IsFiniteSet(Holding(e))
  BY OwnersFacts
<1>5. Cardinality(Holding(e)') = Cardinality(Holding(e)) + (IF t \in Holding(e)' THEN 1 ELSE 0)
                                   - (IF t \in Holding(e) THEN 1 ELSE 0)
  BY <1>2, <1>4, OneElement
<1> QED BY <1>3, <1>5

\* What the count of an entry says.
LEMMA CountFacts ==
  ASSUME TypeInv, CountsExact, NEW e \in 1 .. alloc
  PROVE  /\ e \in Entries /\ cnt[e] \in Nat
         /\ cnt[e] # 0 => cnt[e] % 2 = 1
         /\ cnt[e] = 0 <=> Owners(e) = 0
         /\ cnt[e] = 0 => /\ \A x \in 1 .. alloc : link[x].to # e
                          /\ \A t \in Threads : e \notin own[t]
                          /\ e # Head
<1>1. e \in Entries /\ cnt[e] \in Nat
  BY Numbers DEF TypeInv
<1>2. cnt[e] = IF Owners(e) = 0 THEN 0 ELSE 2 * Owners(e) - 1
  BY DEF CountsExact
<1>3. Owners(e) \in Nat
  BY OwnersFacts
<1>4. cnt[e] = 0 <=> Owners(e) = 0
  BY <1>2, <1>3
<1>5. cnt[e] # 0 => cnt[e] % 2 = 1
  BY <1>2, <1>3
<1>6. cnt[e] = 0 => Linking(e) = {} /\ Holding(e) = {} /\ Root(e) = 0
  BY <1>4, OwnersFacts
<1> QED BY <1>1, <1>4, <1>5, <1>6 DEF Linking, Holding, Root

-----------------------------------------------------------------------------
(* What a step leaves alone                                                 *)

\* The invariant as far as the steps of t need it.
LEMMA Facts ==
  ASSUME ListInv, NEW t \in Threads
  PROVE  /\ TypeInv /\ OwnShape(t) /\ WalkShape(t) /\ Private(t) /\ Kept(t)
         /\ \A e \in Held(t) : e \in 1 .. alloc
         /\ \A e \in Entries : link[e].to # Null => e \in 1 .. alloc /\ link[e].to \in 1 .. alloc
<1>1. TypeInv /\ OwnShape(t) /\ WalkShape(t) /\ Private(t) /\ Kept(t) /\ AllocInv
  BY DEF ListInv
<1>2. Held(t) \subseteq Entries
  BY <1>1, Numbers DEF TypeInv, Held, Pointers, Links, Addresses
<1>3. \A e \in Entries : link[e].to \in Addresses
  BY <1>1 DEF TypeInv, Links, Addresses
<1> QED BY <1>1, <1>2, <1>3, Numbers DEF AllocInv, TypeInv, Addresses

\* The pointers of a thread are those of allocated entries.
LEMMA AtHand ==
  ASSUME ListInv, NEW t \in Threads
  PROVE  /\ pc[t] # "idle" => cur[t] \in 1 .. alloc /\ cur[t] \in Entries
         /\ first[t] # Null => first[t] \in 1 .. alloc /\ first[t] \in Entries
         /\ ptr[t].to # Null => ptr[t].to \in 1 .. alloc /\ ptr[t].to \in Entries
         /\ seen[t].to # Null => seen[t].to \in 1 .. alloc /\ seen[t].to \in Entries
         /\ \A e \in own[t] : e \in 1 .. alloc /\ e \in Entries
<1>1. \A e \in Pointers(t) \cup own[t] : e # Null => e \in 1 .. alloc
  BY Facts DEF Held
<1>2. \A e \in 1 .. alloc : e \in Entries
  BY Facts, Numbers DEF TypeInv
<1>3. Null \notin own[t] /\ (pc[t] # "idle" => cur[t] # Null)
  BY Facts, Numbers DEF TypeInv, WalkShape
<1> QED BY <1>1, <1>2, <1>3 DEF Pointers

\* The entry that push_back has allocated.
LEMMA NewEntry ==
  ASSUME ListInv, NEW t \in Threads, pc[t] \in Pushing
  PROVE  /\ own[t] = {New(t)} /\ New(t) \in 1 .. alloc /\ New(t) \in Entries
         /\ New(t) \notin Pointers(t) /\ New(t) # Null /\ New(t) # Head
         /\ \A x \in Entries : link[x].to # New(t)
         /\ ~Deleted(New(t))
<1>1. PICK n \in Entries : own[t] = {n}
  BY Facts DEF OwnShape
<1>2. New(t) = n
  BY <1>1 DEF New
<1>3. n \in Held(t)
  BY <1>1, Numbers DEF Held
<1> QED BY <1>1, <1>2, <1>3, Facts, Numbers DEF Private

\* A step of t leaves what the other threads have in their hands alone.
LEMMA Others ==
  ASSUME TypeInv, NEW t \in Threads, Step(t), NEW u \in Threads \ {t}
  PROVE  /\ pc'[u] = pc[u] /\ cur'[u] = cur[u] /\ seen'[u] = seen[u]
         /\ ptr'[u] = ptr[u] /\ state'[u] = state[u] /\ first'[u] = first[u]
         /\ last'[u] = last[u] /\ own'[u] = own[u]
<1> USE DEF TypeInv, local
<1>1. CASE Enter(t)
  BY <1>1 DEF Enter, Goto
<1>2. CASE Leave(t)
  BY <1>2 DEF Leave, Goto
<1>3. CASE Mark(t)
  BY <1>3 DEF Mark, SetTag
<1>4. CASE Unmark(t)
  BY <1>4 DEF Unmark, SetTag
<1>5. CASE DeleteSelf(t)
  BY <1>5 DEF DeleteSelf, SetTag
<1>6. CASE Push(t)
  BY <1>6 DEF Push, Goto, Count
<1>7. CASE PushLink(t)
  BY <1>7 DEF PushLink, Goto, Count
<1>8. CASE PushCas(t)
  BY <1>8 DEF PushCas, Goto, Count, Forget
<1>9. CASE PushFail(t)
  BY <1>9 DEF PushFail, Goto, Count, Forget
<1>10. CASE NextPtr(t)
  BY <1>10 DEF NextPtr, Load, Goto
<1>11. CASE WalkEnds(t)
  BY <1>11 DEF WalkEnds, Goto
<1>12. CASE Walk(t)
  BY <1>12 DEF Walk, Goto
<1>13. CASE Claim(t)
  BY <1>13 DEF Claim, Goto
<1>14. CASE Take(t)
  BY <1>14 DEF Take, Goto, Count
<1>15. CASE Unlink(t)
  BY <1>15 DEF Unlink, Goto, Count
<1>16. CASE Release(t)
  BY <1>16 DEF Release, Goto, Count
<1>17. CASE Swap(t)
  BY <1>17 DEF Swap, Goto, Count
<1>18. CASE Restore(t)
  BY <1>18 DEF Restore, Goto
<1>19. CASE Return(t)
  BY <1>19 DEF Return, Goto, Count, Forget
<1>20. CASE Collect(t)
  BY <1>20 DEF Collect, Load, Goto
<1>21. CASE DropLink(t)
  BY <1>21 DEF DropLink, Goto
<1> QED BY <1>1, <1>2, <1>3, <1>4, <1>5, <1>6, <1>7, <1>8, <1>9, <1>10, <1>11,
           <1>12, <1>13, <1>14, <1>15, <1>16, <1>17, <1>18, <1>19, <1>20,
           <1>21 DEF Step

\* A step keeps the types.
LEMMA NumberedTypes ==
  ASSUME ListInv, NEW t \in Threads, Step(t)
  PROVE  cnt' \in [Entries -> Nat] /\ alloc' \in Entries
<1>1. /\ TypeInv /\ alloc \in Nat /\ MaxEntries \in Nat
  BY Facts, Numbers DEF TypeInv
<1>2. alloc' \in Entries
  <2>1. alloc' = alloc \/ Push(t)
    BY DEF Step, Enter, Leave, Mark, Unmark, SetTag, DeleteSelf, PushLink, PushCas, PushFail,
       NextPtr, Load, WalkEnds, Walk, Claim, Take, Unlink, Release, Swap, Restore, Return,
       Collect, DropLink
  <2> QED BY <1>1, <2>1, Numbers DEF Push, TypeInv
<1>3. \A c \in [Entries -> Nat] : \A e :
        /\ AddRef(c, e) \in [Entries -> Nat] /\ DropRef(c, e) \in [Entries -> Nat]
        /\ TryAddRef(c, e) \in [Entries -> Nat]
  <2> SUFFICES ASSUME NEW c \in [Entries -> Nat], NEW e
               PROVE  /\ AddRef(c, e) \in [Entries -> Nat]
                      /\ DropRef(c, e) \in [Entries -> Nat]
    BY DEF TryAddRef
  <2>1. \A x \in Entries : c[x] + 2 \in Nat /\ (IF c[x] <= 1 THEN 0 ELSE c[x] - 2) \in Nat
    OBVIOUS
  <2> QED BY <2>1 DEF AddRef, DropRef
<1>4. [cnt EXCEPT ![alloc'] = NewShared] \in [Entries -> Nat]
  BY <1>1 DEF TypeInv, NewShared
<1>5. cnt \in [Entries -> Nat]
  BY <1>1 DEF TypeInv
<1> HIDE DEF TypeInv
<1> QED BY <1>2, <1>3, <1>4, <1>5 DEF Step, Enter, Leave, Mark, Unmark, SetTag, DeleteSelf,
          Push, PushLink, PushCas, PushFail, NextPtr, Load, WalkEnds, Walk, Claim, Take, Unlink,
          Release, Swap, Restore, Return, Collect, DropLink, Count

\* Types of the links.
LEMMA LinkTypes ==
  ASSUME ListInv, NEW t \in Threads, Step(t)
  PROVE  link' \in [Entries -> Links]
<1>1. /\ TypeInv /\ WalkShape(t) /\ cur[t] \in Addresses /\ link \in [Entries -> Links]
      /\ seen[t] \in Links /\ ptr[t] \in Links /\ first[t] \in Addresses
  BY Facts DEF TypeInv
<1> USE DEF Links, Tags, Addresses
<1>2. CASE Enter(t)
  BY <1>2, <1>1 DEF Enter, Goto
<1>3. CASE Leave(t)
  BY <1>3, <1>1 DEF Leave, Goto
<1>4. CASE Mark(t)
  BY <1>4, <1>1 DEF Mark, SetTag
<1>5. CASE Unmark(t)
  BY <1>5, <1>1 DEF Unmark, SetTag
<1>6. CASE DeleteSelf(t)
  BY <1>6, <1>1 DEF DeleteSelf, SetTag
<1>7. CASE Push(t)
  BY <1>7, <1>1 DEF Push, Goto, Count
<1>8. CASE PushLink(t)
  <2>1. New(t) \in Entries
    BY <1>8, NewEntry DEF PushLink, Pushing
  <2> QED BY <1>8, <1>1, <2>1 DEF PushLink
<1>9. CASE PushCas(t)
  <2>1. New(t) \in Entries
    BY <1>9, NewEntry DEF PushCas, Pushing
  <2> QED BY <1>9, <1>1, <2>1 DEF PushCas
<1>10. CASE PushFail(t)
  BY <1>10, <1>1 DEF PushFail, Goto, Count, Forget
<1>11. CASE NextPtr(t)
  BY <1>11, <1>1 DEF NextPtr, Load, Goto
<1>12. CASE WalkEnds(t)
  BY <1>12, <1>1 DEF WalkEnds, Goto
<1>13. CASE Walk(t)
  BY <1>13, <1>1 DEF Walk, Goto
<1>14. CASE Claim(t)
  BY <1>14, <1>1 DEF Claim, Goto
<1>15. CASE Take(t)
  BY <1>15, <1>1 DEF Take, Goto, Count
<1>16. CASE Unlink(t)
  BY <1>16, <1>1 DEF Unlink, Goto, Count
<1>17. CASE Release(t)
  BY <1>17, <1>1 DEF Release, Goto, Count
<1>18. CASE Swap(t)
  BY <1>18, <1>1 DEF Swap, Goto, Count
<1>19. CASE Restore(t)
  BY <1>19, <1>1 DEF Restore, Goto
<1>20. CASE Return(t)
  BY <1>20, <1>1 DEF Return, Goto, Count, Forget
<1>21. CASE Collect(t)
  BY <1>21, <1>1 DEF Collect, Load, Goto
<1>22. CASE DropLink(t)
  BY <1>22, <1>1 DEF DropLink, Goto
<1> QED BY <1>2, <1>3, <1>4, <1>5, <1>6, <1>7, <1>8, <1>9, <1>10, <1>11, <1>12,
           <1>13, <1>14, <1>15, <1>16, <1>17, <1>18, <1>19, <1>20, <1>21,
           <1>22 DEF Step

\* Types of the locals of next_ptr and push_back.
LEMMA LocalTypes ==
  ASSUME ListInv, NEW t \in Threads, Step(t)
  PROVE  /\ cur' \in [Threads -> Addresses]
         /\ seen' \in [Threads -> Links] /\ ptr' \in [Threads -> Links]
         /\ state' \in [Threads -> Links]
         /\ first' \in [Threads -> Addresses] /\ last' \in [Threads -> Addresses]
<1>1. /\ TypeInv /\ WalkShape(t) /\ cur[t] \in Addresses
      /\ seen[t] \in Links /\ ptr[t] \in Links /\ state[t] \in Links
      /\ first[t] \in Addresses /\ last[t] \in Addresses
      /\ \A x \in Entries : link[x] \in Links /\ link[x].to \in Addresses
      /\ \A x \in Links : x.to \in Addresses
      /\ NoLink \in Links /\ Null \in Addresses /\ Head \in Addresses
      /\ \A x \in Addresses : x # Null => x \in Entries
      /\ Entries \subseteq Addresses
  BY Facts, Numbers DEF TypeInv, Links, Addresses, NoLink, Tags
<1> USE DEF TypeInv, local
<1> HIDE DEF NoLink, Links, Addresses
<1>2. CASE Enter(t)
  BY <1>2, <1>1 DEF Enter, Goto
<1>3. CASE Leave(t)
  BY <1>3, <1>1 DEF Leave, Goto
<1>4. CASE Mark(t)
  BY <1>4, <1>1 DEF Mark, SetTag
<1>5. CASE Unmark(t)
  BY <1>5, <1>1 DEF Unmark, SetTag
<1>6. CASE DeleteSelf(t)
  BY <1>6, <1>1 DEF DeleteSelf, SetTag
<1>7. CASE Push(t)
  BY <1>7, <1>1 DEF Push, Goto, Count, WalkShape
<1>8. CASE PushLink(t)
  BY <1>8, <1>1 DEF PushLink, Goto, Count
<1>9. CASE PushCas(t)
  <2>1. link[cur[t]] \in Links /\ pc[t] # "idle"
    BY <1>9, <1>1 DEF PushCas, WalkShape
  <2>2. CASE link[cur[t]] = seen[t]
    <3>1. Forget(t) /\ cur' = cur
      BY <1>9, <2>2 DEF PushCas
    <3> QED BY <1>1, <3>1 DEF Forget
  <2>3. CASE link[cur[t]] # seen[t]
    BY <1>9, <1>1, <2>1, <2>3 DEF PushCas
  <2> QED BY <2>2, <2>3
<1>10. CASE PushFail(t)
  BY <1>10, <1>1 DEF PushFail, Goto, Count, Forget
<1>11. CASE NextPtr(t)
  BY <1>11, <1>1 DEF NextPtr, Load, Goto, WalkShape
<1>12. CASE WalkEnds(t)
  BY <1>12, <1>1 DEF WalkEnds, Goto
<1>13. CASE Walk(t)
  <2>1. link[ptr[t].to] \in Links
    BY <1>13, <1>1 DEF Walk
  <2>2. cur' = cur /\ seen' = seen /\ first' = first /\ last' = last
    BY <1>13 DEF Walk
  <2>3. ptr' = ptr \/ ptr' = [ptr EXCEPT ![t] = link[ptr[t].to]]
    BY <1>13 DEF Walk
  <2>4. state' = state \/ state' = [state EXCEPT ![t] = link[ptr[t].to]]
    BY <1>13 DEF Walk
  <2> QED BY <1>1, <2>1, <2>2, <2>3, <2>4
<1>14. CASE Claim(t)
  BY <1>14, <1>1 DEF Claim, Goto
<1>15. CASE Take(t)
  BY <1>15, <1>1 DEF Take, Goto, Count
<1>16. CASE Unlink(t)
  BY <1>16, <1>1 DEF Unlink, Goto, Count
<1>17. CASE Release(t)
  BY <1>17, <1>1 DEF Release, Goto, Count
<1>18. CASE Swap(t)
  BY <1>18, <1>1 DEF Swap, Goto, Count, WalkShape
<1>19. CASE Restore(t)
  BY <1>19, <1>1 DEF Restore, Goto
<1>20. CASE Return(t)
  BY <1>20, <1>1 DEF Return, Goto, Count, Forget
<1>21. CASE Collect(t)
  <2>1. PICK e \in Entries : \/ Load(t, e)
                              \/ UNCHANGED <<cur, seen, ptr, state, first, last>>
    BY <1>21 DEF Collect
  <2>2. link[e] \in Links
    BY <1>1
  <2> QED BY <1>1, <2>1, <2>2 DEF Load
<1>22. CASE DropLink(t)
  BY <1>22, <1>1 DEF DropLink, Goto
<1> QED BY <1>2, <1>3, <1>4, <1>5, <1>6, <1>7, <1>8, <1>9, <1>10, <1>11, <1>12,
           <1>13, <1>14, <1>15, <1>16, <1>17, <1>18, <1>19, <1>20, <1>21,
           <1>22 DEF Step

\* Every step keeps the types.
LEMMA TypeStep ==
  ASSUME ListInv, NEW t \in Threads, Step(t)
  PROVE  TypeInv'
<1>1. /\ TypeInv /\ OwnShape(t) /\ WalkShape(t)
      /\ own \in [Threads -> SUBSET Entries] /\ pc \in [Threads -> PCs]
      /\ freed \in SUBSET Entries /\ pins \in [Entries -> SUBSET Threads]
      /\ seen[t].to \in Addresses /\ ptr[t].to \in Addresses
      /\ \A x \in Entries : link[x].to \in Addresses
      /\ first[t] \in Addresses
      /\ \A x \in Addresses : x # Null => x \in Entries
  BY Facts, Numbers DEF TypeInv, Links, Addresses
<1>2. pc' \in [Threads -> PCs]
  BY <1>1 DEF Step, Enter, Leave, Mark, Unmark, SetTag, DeleteSelf, Push, PushLink, PushCas,
     PushFail, NextPtr, Load, WalkEnds, Walk, Claim, Take, Unlink, Release, Swap, Restore,
     Return, Collect, DropLink, Goto, PCs
<1>3. freed' \in SUBSET Entries
  BY <1>1 DEF Step, Enter, Leave, Mark, Unmark, SetTag, DeleteSelf, Push, PushLink, PushCas,
     PushFail, NextPtr, Load, WalkEnds, Walk, Claim, Take, Unlink, Release, Swap, Restore,
     Return, Collect, DropLink
<1>4. Guarded \subseteq Threads
  BY DEF Guarded
<1>5. \A d : Count(d) => pins' \in [Entries -> SUBSET Threads]
  BY <1>1, <1>4 DEF Count
<1>6. pins' \in [Entries -> SUBSET Threads]
  BY <1>1, <1>4, <1>5
     DEF Step, Enter, Leave, Mark, Unmark, SetTag, DeleteSelf, Push, PushLink, PushCas,
     PushFail, NextPtr, Load, WalkEnds, Walk, Claim, Take, Unlink, Release, Swap, Restore,
     Return, Collect, DropLink
<1>7. own' \in [Threads -> SUBSET Entries]
  <2>1. CASE Push(t)
    BY <1>1, <2>1, NumberedTypes DEF Push
  <2>2. CASE Swap(t)
    <3>1. link[first[t]].to \in Addresses
      BY <1>1, <2>2 DEF WalkShape, Swap
    <3> QED BY <1>1, <2>2, <3>1 DEF Swap
  <2>3. CASE Take(t)
    BY <1>1, <2>3 DEF Take, Alive
  <2>4. CASE Unlink(t)
    BY <1>1, <2>4 DEF Unlink, WalkShape
  <2>5. CASE own' = own \/ PushCas(t) \/ PushFail(t) \/ Release(t) \/ Return(t)
    BY <1>1, <2>5 DEF PushCas, PushFail, Release, Return
  <2> QED BY <2>1, <2>2, <2>3, <2>4, <2>5
          DEF Step, Enter, Leave, Mark, Unmark, SetTag, DeleteSelf, PushLink, NextPtr, Load,
              WalkEnds, Walk, Claim, Restore, Collect, DropLink
<1> QED BY <1>2, <1>3, <1>6, <1>7, NumberedTypes, LinkTypes, LocalTypes DEF TypeInv

\* The links a step may change are those of entries the thread has in its hands,
\* and they come to point to such an entry, or to none.
LEMMA LinkStep ==
  ASSUME ListInv, NEW t \in Threads, Step(t), NEW x \in Entries
  PROVE  /\ link'[x] = link[x] \/ x \in Held(t)
         /\ link'[x].to = link[x].to \/ link'[x].to \in Held(t) \cup {Null}
<1>1. /\ TypeInv /\ WalkShape(t) /\ link \in [Entries -> Links] /\ ptr[t] \in Links
      /\ own[t] \subseteq Entries
  BY Facts DEF TypeInv
<1> USE DEF Links, Held, Pointers
<1>2. CASE Enter(t)
  BY <1>2, <1>1 DEF Enter, Goto
<1>3. CASE Leave(t)
  BY <1>3, <1>1 DEF Leave, Goto
<1>4. CASE Mark(t)
  BY <1>4, <1>1 DEF Mark, SetTag, WalkShape
<1>5. CASE Unmark(t)
  BY <1>5, <1>1 DEF Unmark, SetTag, WalkShape
<1>6. CASE DeleteSelf(t)
  BY <1>6, <1>1 DEF DeleteSelf, SetTag, WalkShape
<1>7. CASE Push(t)
  BY <1>7, <1>1 DEF Push, Goto, Count
<1>8. CASE PushLink(t)
  <2>1. New(t) \in Entries /\ own[t] = {New(t)} /\ New(t) # Null /\ ~Deleted(New(t))
    BY <1>8, NewEntry DEF PushLink, Pushing
  <2> QED BY <1>8, <1>1, <2>1 DEF PushLink
<1>9. CASE PushCas(t)
  <2>1. New(t) \in Entries /\ own[t] = {New(t)} /\ New(t) # Null /\ ~Deleted(New(t))
    BY <1>9, NewEntry DEF PushCas, Pushing
  <2> QED BY <1>9, <1>1, <2>1 DEF PushCas, WalkShape
<1>10. CASE PushFail(t)
  BY <1>10, <1>1 DEF PushFail, Goto, Count, Forget
<1>11. CASE NextPtr(t)
  BY <1>11, <1>1 DEF NextPtr, Load, Goto
<1>12. CASE WalkEnds(t)
  BY <1>12, <1>1 DEF WalkEnds, Goto
<1>13. CASE Walk(t)
  BY <1>13, <1>1 DEF Walk, Goto
<1>14. CASE Claim(t)
  BY <1>14, <1>1 DEF Claim, Goto, WalkShape
<1>15. CASE Take(t)
  BY <1>15, <1>1 DEF Take, Goto, Count
<1>16. CASE Unlink(t)
  BY <1>16, <1>1 DEF Unlink, Goto, Count, WalkShape
<1>17. CASE Release(t)
  BY <1>17, <1>1 DEF Release, Goto, Count
<1>18. CASE Swap(t)
  BY <1>18, <1>1 DEF Swap, Goto, Count, WalkShape
<1>19. CASE Restore(t)
  BY <1>19, <1>1 DEF Restore, Goto, WalkShape
<1>20. CASE Return(t)
  BY <1>20, <1>1 DEF Return, Goto, Count, Forget
<1>21. CASE Collect(t)
  BY <1>21, <1>1 DEF Collect, Load, Goto
<1>22. CASE DropLink(t)
  BY <1>22, <1>1 DEF DropLink, Goto, WalkShape
<1> QED BY <1>2, <1>3, <1>4, <1>5, <1>6, <1>7, <1>8, <1>9, <1>10, <1>11, <1>12,
           <1>13, <1>14, <1>15, <1>16, <1>17, <1>18, <1>19, <1>20, <1>21,
           <1>22 DEF Step

\* A deleted entry stays deleted.
LEMMA DeletedStays ==
  ASSUME ListInv, NEW t \in Threads, Step(t), NEW e \in Entries, Deleted(e)
  PROVE  Deleted(e)'
<1>1. TypeInv /\ WalkShape(t) /\ link \in [Entries -> Links]
  BY Facts DEF TypeInv
<1> USE DEF Links, Deleted
<1>2. CASE Enter(t)
  BY <1>2, <1>1 DEF Enter, Goto
<1>3. CASE Leave(t)
  BY <1>3, <1>1 DEF Leave, Goto
<1>4. CASE Mark(t)
  BY <1>4, <1>1 DEF Mark, SetTag, WalkShape
<1>5. CASE Unmark(t)
  BY <1>5, <1>1 DEF Unmark, SetTag, WalkShape
<1>6. CASE DeleteSelf(t)
  BY <1>6, <1>1 DEF DeleteSelf, SetTag, WalkShape
<1>7. CASE Push(t)
  BY <1>7, <1>1 DEF Push, Goto, Count
<1>8. CASE PushLink(t)
  <2>1. New(t) \in Entries /\ own[t] = {New(t)} /\ New(t) # Null /\ ~Deleted(New(t))
    BY <1>8, NewEntry DEF PushLink, Pushing
  <2> QED BY <1>8, <1>1, <2>1 DEF PushLink
<1>9. CASE PushCas(t)
  BY <1>9, <1>1 DEF PushCas, Goto, Count, Forget, WalkShape
<1>10. CASE PushFail(t)
  BY <1>10, <1>1 DEF PushFail, Goto, Count, Forget
<1>11. CASE NextPtr(t)
  BY <1>11, <1>1 DEF NextPtr, Load, Goto
<1>12. CASE WalkEnds(t)
  BY <1>12, <1>1 DEF WalkEnds, Goto
<1>13. CASE Walk(t)
  BY <1>13, <1>1 DEF Walk, Goto
<1>14. CASE Claim(t)
  BY <1>14, <1>1 DEF Claim, Goto, WalkShape
<1>15. CASE Take(t)
  BY <1>15, <1>1 DEF Take, Goto, Count
<1>16. CASE Unlink(t)
  BY <1>16, <1>1 DEF Unlink, Goto, Count, WalkShape
<1>17. CASE Release(t)
  BY <1>17, <1>1 DEF Release, Goto, Count
<1>18. CASE Swap(t)
  BY <1>18, <1>1 DEF Swap, Goto, Count, WalkShape
<1>19. CASE Restore(t)
  BY <1>19, <1>1 DEF Restore, Goto, WalkShape
<1>20. CASE Return(t)
  BY <1>20, <1>1 DEF Return, Goto, Count, Forget
<1>21. CASE Collect(t)
  BY <1>21, <1>1 DEF Collect, Load, Goto
<1>22. CASE DropLink(t)
  BY <1>22, <1>1 DEF DropLink, Goto, WalkShape
<1> QED BY <1>2, <1>3, <1>4, <1>5, <1>6, <1>7, <1>8, <1>9, <1>10, <1>11, <1>12,
           <1>13, <1>14, <1>15, <1>16, <1>17, <1>18, <1>19, <1>20, <1>21,
           <1>22 DEF Step

\* What comes into a thread's hands was there, is the target of a link or the head,
\* or is the entry it allocates or drops.
Fresh == alloc + 1
Unowned == {e \in 1 .. alloc : cnt[e] = 0}
Targets == {link[x].to : x \in 1 .. alloc}

\* What a step may put into the hands of the thread that takes it.
LEMMA HeldStep ==
  ASSUME ListInv, NEW t \in Threads, Step(t)
  PROVE  \/ Held(t)' \subseteq Held(t) \cup Targets \cup {Head} /\ alloc' = alloc
         \/ /\ Collect(t) /\ alloc' = alloc
            /\ \E e \in Unowned : /\ Held(t)' \subseteq Targets \cup {e}
                                  /\ e = cur'[t] /\ e \in freed' /\ pc'[t] = "walk"
         \/ Held(t)' \subseteq Held(t) \cup Targets \cup {Fresh} /\ Push(t) /\ alloc' = Fresh
<1>1. /\ TypeInv /\ WalkShape(t) /\ link \in [Entries -> Links] /\ ptr[t] \in Links
      /\ own[t] \subseteq Entries
      /\ \A x \in Entries : link[x].to = Null \/ link[x].to \in Targets
      /\ cur[t] \in Addresses
  BY Facts DEF TypeInv, Targets
<1>2. Held(t)' = ({cur'[t], seen'[t].to, ptr'[t].to, state'[t].to, first'[t], last'[t]}
                   \cup own'[t]) \ {Null}
  BY DEF Held, Pointers
<1>3. Held(t) = ({cur[t], seen[t].to, ptr[t].to, state[t].to, first[t], last[t]}
                   \cup own[t]) \ {Null}
  BY DEF Held, Pointers
<1>4. NoLink.to = Null
  BY DEF NoLink
<1>5. \A x \in Addresses : x # Null => x \in Entries
  BY DEF Addresses
<1> USE DEF TypeInv, local
<1> HIDE DEF NoLink, Links
<1>6. CASE Enter(t)
  BY <1>6, <1>1, <1>2, <1>3, <1>4, <1>5 DEF Enter, Goto
<1>7. CASE Leave(t)
  BY <1>7, <1>1, <1>2, <1>3, <1>4, <1>5 DEF Leave, Goto
<1>8. CASE Mark(t)
  BY <1>8, <1>1, <1>2, <1>3, <1>4, <1>5 DEF Mark, SetTag
<1>9. CASE Unmark(t)
  BY <1>9, <1>1, <1>2, <1>3, <1>4, <1>5 DEF Unmark, SetTag
<1>10. CASE DeleteSelf(t)
  BY <1>10, <1>1, <1>2, <1>3, <1>4, <1>5 DEF DeleteSelf, SetTag
<1>11. CASE Push(t)
  <2>1. cur[t] \in Entries
    BY <1>11, <1>1, <1>5 DEF Push, WalkShape
  <2>2. seen'[t] = link[cur[t]] /\ own'[t] = own[t] \cup {alloc + 1} /\ alloc' = alloc + 1
    BY <1>11, <1>1 DEF Push
  <2>3. /\ cur' = cur /\ ptr' = ptr /\ state' = state /\ first' = first /\ last' = last
    BY <1>11 DEF Push
  <2> QED BY <1>11, <1>1, <1>2, <1>3, <2>1, <2>2, <2>3 DEF Fresh
<1>12. CASE PushLink(t)
  BY <1>12, <1>1, <1>2, <1>3, <1>4, <1>5 DEF PushLink, Goto, Count
<1>13. CASE PushCas(t)
  BY <1>13, <1>1, <1>2, <1>3, <1>4, <1>5 DEF PushCas, Goto, Count, Forget,
     WalkShape
<1>14. CASE PushFail(t)
  BY <1>14, <1>1, <1>2, <1>3, <1>4, <1>5 DEF PushFail, Goto, Count, Forget
<1>15. CASE NextPtr(t)
  BY <1>15, <1>1, <1>2, <1>3, <1>4, <1>5 DEF NextPtr, Load, Goto, WalkShape
<1>16. CASE WalkEnds(t)
  BY <1>16, <1>1, <1>2, <1>3, <1>4, <1>5 DEF WalkEnds, Goto
<1>17. CASE Walk(t)
  <2>1. ptr[t].to \in Entries /\ link[ptr[t].to].to \in Targets \cup {Null}
    BY <1>17, <1>1 DEF Walk, Links
  <2>2. cur' = cur /\ seen' = seen /\ first' = first /\ last' = last /\ own' = own
        /\ alloc' = alloc
    BY <1>17 DEF Walk
  <2>3. ptr'[t] = ptr[t] \/ ptr'[t] = link[ptr[t].to]
    BY <1>17, <1>1 DEF Walk
  <2>4. state'[t] = state[t] \/ state'[t] = link[ptr[t].to]
    BY <1>17, <1>1 DEF Walk
  <2> QED BY <1>1, <1>2, <1>3, <2>1, <2>2, <2>3, <2>4
<1>18. CASE Claim(t)
  BY <1>18, <1>1, <1>2, <1>3, <1>4, <1>5 DEF Claim, Goto, WalkShape
<1>19. CASE Take(t)
  BY <1>19, <1>1, <1>2, <1>3, <1>4, <1>5 DEF Take, Goto, Count
<1>20. CASE Unlink(t)
  BY <1>20, <1>1, <1>2, <1>3, <1>4, <1>5 DEF Unlink, Goto, Count, WalkShape
<1>21. CASE Release(t)
  BY <1>21, <1>1, <1>2, <1>3, <1>4, <1>5 DEF Release, Goto, Count
<1>22. CASE Swap(t)
  BY <1>22, <1>1, <1>2, <1>3, <1>4, <1>5 DEF Swap, Goto, Count, WalkShape
<1>23. CASE Restore(t)
  BY <1>23, <1>1, <1>2, <1>3, <1>4, <1>5 DEF Restore, Goto, WalkShape
<1>24. CASE Return(t)
  BY <1>24, <1>1, <1>2, <1>3, <1>4, <1>5 DEF Return, Goto, Count, Forget
<1>25. CASE Collect(t)
  <2>1. PICK e \in Entries :
          /\ e <= alloc /\ cnt[e] = 0 /\ e \in freed' /\ pc[t] = "idle"
          /\ \/ Load(t, e)
             \/ UNCHANGED <<cur, seen, ptr, state, first, last, own, alloc>>
    BY <1>25 DEF Collect
  <2>2. e \in Unowned /\ link[e].to \in Targets \cup {Null}
    BY <1>1, <2>1, Numbers DEF Unowned
  <2>3. CASE Load(t, e)
    <3>1. /\ own[t] = {} /\ state[t].to = Null /\ first[t] = Null /\ last[t] = Null
      BY <1>1, <2>1, Facts DEF OwnShape, WalkShape
    <3>2. /\ cur'[t] = e /\ seen'[t] = link[e] /\ ptr'[t] = link[e] /\ state' = state
          /\ first' = first /\ last' = last /\ own' = own /\ alloc' = alloc /\ pc'[t] = "walk"
      BY <1>1, <2>3 DEF Load, Goto
    <3>3. Held(t)' \subseteq Targets \cup {e}
      BY <1>2, <2>2, <3>1, <3>2
    <3> QED BY <1>25, <2>1, <2>2, <3>2, <3>3
  <2>4. CASE UNCHANGED <<cur, seen, ptr, state, first, last, own, alloc>>
    BY <1>2, <1>3, <2>4
  <2> QED BY <2>1, <2>3, <2>4
<1>26. CASE DropLink(t)
  BY <1>26, <1>1, <1>2, <1>3, <1>4, <1>5 DEF DropLink, Goto, WalkShape
<1> QED BY <1>6, <1>7, <1>8, <1>9, <1>10, <1>11, <1>12, <1>13, <1>14, <1>15,
           <1>16, <1>17, <1>18, <1>19, <1>20, <1>21, <1>22, <1>23, <1>24,
           <1>25, <1>26 DEF Step

-----------------------------------------------------------------------------
(* The reference counts are exact                                           *)

\* What add_ref, drop_ref and try_add_ref do to the count of an entry.
LEMMA RefFacts ==
  ASSUME NEW c \in [Entries -> Nat], NEW e \in Entries, NEW y \in Addresses
  PROVE  /\ AddRef(c, y) \in [Entries -> Nat] /\ DropRef(c, y) \in [Entries -> Nat]
         /\ TryAddRef(c, y) \in [Entries -> Nat]
         /\ y # e => /\ AddRef(c, y)[e] = c[e] /\ DropRef(c, y)[e] = c[e]
                     /\ TryAddRef(c, y)[e] = c[e]
         /\ AddRef(c, e)[e] = c[e] + 2
         /\ DropRef(c, e)[e] = IF c[e] <= 1 THEN 0 ELSE c[e] - 2
         /\ Alive(c, e) <=> c[e] % 2 = 1
         /\ TryAddRef(c, e)[e] = IF c[e] % 2 = 1 THEN c[e] + 2 ELSE c[e]
<1>1. e # Null /\ c[e] \in Nat
  BY Numbers
<1>2. \A x \in Entries : c[x] + 2 \in Nat /\ (IF c[x] <= 1 THEN 0 ELSE c[x] - 2) \in Nat
  OBVIOUS
<1>3. /\ AddRef(c, y) \in [Entries -> Nat] /\ DropRef(c, y) \in [Entries -> Nat]
      /\ TryAddRef(c, y) \in [Entries -> Nat]
  BY <1>2 DEF AddRef, DropRef, TryAddRef
<1>4. y # e => /\ AddRef(c, y)[e] = c[e] /\ DropRef(c, y)[e] = c[e]
               /\ TryAddRef(c, y)[e] = c[e]
  BY DEF AddRef, DropRef, TryAddRef
<1>5. /\ AddRef(c, e)[e] = c[e] + 2
      /\ DropRef(c, e)[e] = IF c[e] <= 1 THEN 0 ELSE c[e] - 2
  BY <1>1 DEF AddRef, DropRef
<1>6. Alive(c, e) <=> c[e] % 2 = 1
  BY <1>1 DEF Alive
<1> QED BY <1>3, <1>4, <1>5, <1>6 DEF TryAddRef

\* The owners of an entry when one link and the handles of one thread change.
LEMMA Moves ==
  ASSUME TypeInv, TypeInv', alloc' = alloc, NEW t \in Threads, NEW x \in 1 .. alloc, NEW e,
         \A y \in Entries \ {x} : link'[y].to = link[y].to,
         \A u \in Threads \ {t} : own'[u] = own[u]
  PROVE  /\ Owners(e) \in Nat /\ Owners(e)' \in Nat
         /\ Owners(e)' = Owners(e) + (IF link'[x].to = e THEN 1 ELSE 0)
                                   - (IF link[x].to = e THEN 1 ELSE 0)
                                   + (IF e \in own'[t] THEN 1 ELSE 0)
                                   - (IF e \in own[t] THEN 1 ELSE 0)
         /\ link[x].to = e \/ e \in own[t] => Owners(e) # 0
<1> DEFINE K == Cardinality(Linking(e))
           H == Cardinality(Holding(e))
           KK == Cardinality(Linking(e)')
           HH == Cardinality(Holding(e)')
<1>1. Owners(e) = K + H + Root(e) /\ Owners(e) \in Nat /\ K \in Nat /\ H \in Nat
  BY OwnersFacts
<1>2. Owners(e)' = KK + HH + Root(e) /\ Owners(e)' \in Nat /\ KK \in Nat /\ HH \in Nat
  <2>1. (TypeInv => /\ Owners(e) = K + H + Root(e) /\ Owners(e) \in Nat
                    /\ K \in Nat /\ H \in Nat)'
    BY OwnersFacts, PTL
  <2> QED BY <2>1 DEF Root
<1>3. KK = K + (IF link'[x].to = e THEN 1 ELSE 0) - (IF link[x].to = e THEN 1 ELSE 0)
  BY LinkMoves
<1>4. HH = H + (IF e \in own'[t] THEN 1 ELSE 0) - (IF e \in own[t] THEN 1 ELSE 0)
  BY OwnMoves
<1>5. Root(e) \in Nat
  BY DEF Root
<1>6. link[x].to = e \/ e \in own[t] => Owners(e) # 0
  BY OwnersFacts DEF Linking, Holding
<1> HIDE DEF K, H, KK, HH
<1> QED BY <1>1, <1>2, <1>3, <1>4, <1>5, <1>6

\* Steps that change neither the counts nor the owners.
LEMMA Steady ==
  ASSUME TypeInv, CountsExact, alloc' = alloc, cnt' = cnt, own' = own,
         \A x \in Entries : link'[x].to = link[x].to
  PROVE  CountsExact'
<1>1. \A x \in 1 .. alloc : x \in Entries
  BY Numbers DEF TypeInv
<1>2. \A e : {x \in 1 .. alloc : link[x].to = e}' = {x \in 1 .. alloc : link[x].to = e}
  BY <1>1
<1>3. \A e : Owners(e)' = Owners(e)
  BY <1>2 DEF Owners
<1> QED BY <1>3 DEF CountsExact

\* The count and the owners of e before and after a step that changes one link and
\* the handles of one thread.
Agree(c, o) == c = IF o = 0 THEN 0 ELSE 2 * o - 1

\* A count that agrees with its owners does so after a reference is added or
\* dropped.
LEMMA Arithmetic ==
  ASSUME NEW c \in Nat, NEW o \in Nat, Agree(c, o)
  PROVE  /\ c = 0 <=> o = 0
         /\ c % 2 = 1 <=> o # 0
         /\ o # 0 => Agree(IF c <= 1 THEN 0 ELSE c - 2, o - 1) /\ Agree(c + 2, o + 1)
         /\ o # 0 => c + 2 # 0
  BY DEF Agree

\* CountsExact, an entry at a time.
LEMMA Exact ==
  ASSUME TypeInv
  PROVE  /\ CountsExact <=> \A e \in 1 .. alloc : Agree(cnt[e], Owners(e))
         /\ \A e \in 1 .. alloc : e \in Entries /\ cnt[e] \in Nat /\ Owners(e) \in Nat
  BY OwnersFacts, Numbers DEF CountsExact, Agree, TypeInv

CountedStep(t) ==
  CountsExact' /\ \A e \in 1 .. alloc : cnt[e] = 0 => cnt'[e] = 0

\* Steps that change one link and the handles of one thread.
LEMMA OneStep ==
  ASSUME ListInv, TypeInv', NEW t \in Threads, NEW x \in 1 .. alloc, alloc' = alloc,
         \A y \in Entries \ {x} : link'[y].to = link[y].to,
         \A u \in Threads \ {t} : own'[u] = own[u],
         \A e \in 1 .. alloc :
           LET was == (IF link[x].to = e THEN 1 ELSE 0) + (IF e \in own[t] THEN 1 ELSE 0)
               is == (IF link'[x].to = e THEN 1 ELSE 0) + (IF e \in own'[t] THEN 1 ELSE 0)
           IN \/ is = was /\ cnt'[e] = cnt[e]
              \/ is = was + 1 /\ cnt[e] # 0 /\ cnt'[e] = cnt[e] + 2
              \/ was = is + 1 /\ cnt'[e] = IF cnt[e] <= 1 THEN 0 ELSE cnt[e] - 2
  PROVE  CountedStep(t)
<1>1. TypeInv /\ CountsExact
  BY DEF ListInv
<1>2. \A e \in 1 .. alloc : e \in Entries /\ cnt[e] \in Nat /\ Owners(e) \in Nat
                            /\ Agree(cnt[e], Owners(e))
  BY <1>1, Exact
<1>3. CountsExact' <=> \A e \in 1 .. alloc : Agree(cnt'[e], Owners(e)')
  BY DEF CountsExact, Agree
<1> SUFFICES ASSUME NEW e \in 1 .. alloc
             PROVE  Agree(cnt'[e], Owners(e)') /\ (cnt[e] = 0 => cnt'[e] = 0)
  BY <1>3 DEF CountedStep
<1> DEFINE was == (IF link[x].to = e THEN 1 ELSE 0) + (IF e \in own[t] THEN 1 ELSE 0)
           is == (IF link'[x].to = e THEN 1 ELSE 0) + (IF e \in own'[t] THEN 1 ELSE 0)
           o == Owners(e)
           oo == Owners(e)'
<1>4. /\ o \in Nat /\ oo \in Nat /\ oo = o + is - was /\ (was # 0 => o # 0)
      /\ is \in Nat /\ was \in Nat
  BY <1>1, Moves
<1>5. \/ is = was /\ cnt'[e] = cnt[e]
      \/ is = was + 1 /\ cnt[e] # 0 /\ cnt'[e] = cnt[e] + 2
      \/ was = is + 1 /\ cnt'[e] = IF cnt[e] <= 1 THEN 0 ELSE cnt[e] - 2
  OBVIOUS
<1>6. cnt[e] \in Nat /\ Agree(cnt[e], o)
  BY <1>2
<1> HIDE DEF is, was, o, oo
<1>7. CASE is = was /\ cnt'[e] = cnt[e]
  <2>1. oo = o
    BY <1>4, <1>7
  <2> QED BY <1>6, <1>7, <2>1 DEF oo
<1>8. CASE is = was + 1 /\ cnt[e] # 0 /\ cnt'[e] = cnt[e] + 2
  <2>1. oo = o + 1
    BY <1>4, <1>8
  <2> QED BY <1>4, <1>6, <1>8, <2>1, Arithmetic DEF oo
<1>9. CASE was = is + 1 /\ cnt'[e] = IF cnt[e] <= 1 THEN 0 ELSE cnt[e] - 2
  <2>1. oo = o - 1 /\ o # 0
    BY <1>4, <1>9
  <2>2. cnt[e] # 0
    BY <1>4, <1>6, <2>1, Arithmetic
  <2> QED BY <1>4, <1>6, <1>9, <2>1, <2>2, Arithmetic DEF oo
<1> QED BY <1>5, <1>7, <1>8, <1>9

\* Every step keeps the counts exact and gives no entry without owners a new one.
LEMMA CountStep ==
  ASSUME ListInv, NEW t \in Threads, Step(t)
  PROVE  CountedStep(t)
<1>1. TypeInv
  BY Facts
<1>2. CountsExact
  BY DEF ListInv
<1>4. \A u \in Threads \ {t} : own'[u] = own[u]
  BY <1>1, Others
<1>5. TypeInv'
  BY TypeStep
<1>6. OwnShape(t) /\ WalkShape(t)
  BY Facts
<1>7. \A e \in Held(t) : e \in 1 .. alloc
  BY Facts
<1>8. Head \in 1 .. alloc /\ Head \in Entries
  BY <1>1, Numbers DEF TypeInv
<1>9. CASE Enter(t)
  <2>1. alloc' = alloc /\ cnt' = cnt /\ own' = own /\ (\A x \in Entries : link'[x].to = link[x].to)
    BY <1>9, <1>1 DEF Enter
  <2> QED BY <1>1, <1>2, <2>1, Steady DEF CountedStep
<1>10. CASE Leave(t)
  <2>1. alloc' = alloc /\ cnt' = cnt /\ own' = own /\ (\A x \in Entries : link'[x].to = link[x].to)
    BY <1>10, <1>1 DEF Leave
  <2> QED BY <1>1, <1>2, <2>1, Steady DEF CountedStep
<1>11. CASE Mark(t)
  <2>1. alloc' = alloc /\ cnt' = cnt /\ own' = own /\ (\A x \in Entries : link'[x].to = link[x].to)
    BY <1>11, <1>1 DEF Mark, SetTag, Links, TypeInv
  <2> QED BY <1>1, <1>2, <2>1, Steady DEF CountedStep
<1>12. CASE Unmark(t)
  <2>1. alloc' = alloc /\ cnt' = cnt /\ own' = own /\ (\A x \in Entries : link'[x].to = link[x].to)
    BY <1>12, <1>1 DEF Unmark, SetTag, Links, TypeInv
  <2> QED BY <1>1, <1>2, <2>1, Steady DEF CountedStep
<1>13. CASE DeleteSelf(t)
  <2>1. alloc' = alloc /\ cnt' = cnt /\ own' = own /\ (\A x \in Entries : link'[x].to = link[x].to)
    BY <1>13, <1>1 DEF DeleteSelf, SetTag, Links, TypeInv
  <2> QED BY <1>1, <1>2, <2>1, Steady DEF CountedStep
<1>14. CASE Push(t)
  <2>0. PICK n \in Nat : n = alloc + 1
    BY <1>1, Numbers DEF TypeInv
  <2>1. /\ alloc' = n /\ cnt' = [cnt EXCEPT ![n] = 1] /\ link' = link
        /\ own[t] = {} /\ own'[t] = {n} /\ n \in Entries /\ n # Head /\ n # Null
    BY <1>14, <1>1, <1>6, <2>0, Numbers DEF Push, Count, NewShared, OwnShape, TypeInv
  <2>2. /\ link[n].to = Null /\ (\A x \in Entries : link[x].to # n)
        /\ \A u \in Threads : n \notin own[u]
    <3>1. ~(n <= alloc)
      BY <1>1, <2>0, Numbers DEF TypeInv
    <3>2. AllocInv
      BY DEF ListInv
    <3> QED BY <2>1, <3>1, <3>2 DEF AllocInv, Held
  <2>3. 1 .. n = (1 .. alloc) \cup {n} /\ \A x \in 1 .. alloc : x # n /\ x \in Entries
    BY <1>1, <2>0, Numbers DEF TypeInv
  <2>4. ASSUME NEW e \in 1 .. alloc PROVE Agree(cnt'[e], Owners(e)') /\ cnt'[e] = cnt[e]
    <3>1. e \in Entries /\ e # n /\ e # Null
      BY <2>3, Numbers
    <3>2. Linking(e)' = Linking(e)
      BY <2>1, <2>2, <2>3, <3>1 DEF Linking
    <3>3. Holding(e)' = Holding(e)
      BY <1>6, <2>1, <2>2, <3>1, <1>4 DEF Holding
    <3>4. Owners(e)' = Owners(e)
      BY <3>2, <3>3 DEF Owners, Linking, Holding
    <3>5. cnt'[e] = cnt[e]
      BY <1>1, <2>1, <3>1 DEF TypeInv
    <3> QED BY <1>1, <1>2, <3>4, <3>5, Exact
  <2>5. Agree(cnt'[n], Owners(n)')
    <3>1. Linking(n)' = {}
      BY <2>1, <2>2, <2>3 DEF Linking
    <3>2. Holding(n)' = {t}
      BY <1>6, <2>1, <2>2, <1>4 DEF Holding
    <3>3. Cardinality({}) = 0 /\ Cardinality({t}) = 1
      BY FS_EmptySet, FS_Singleton
    <3>4. Owners(n)' = Cardinality(Linking(n)') + Cardinality(Holding(n)') + 0
      BY <2>1 DEF Owners, Linking, Holding
    <3>5. Owners(n)' = 1
      BY <3>1, <3>2, <3>3, <3>4
    <3>6. cnt'[n] = 1
      BY <1>1, <2>1 DEF TypeInv
    <3> QED BY <3>5, <3>6 DEF Agree
  <2>6. CountsExact' <=> \A e \in 1 .. n : Agree(cnt'[e], Owners(e)')
    BY <2>1 DEF CountsExact, Agree
  <2> QED BY <2>3, <2>4, <2>5, <2>6 DEF CountedStep
<1>15. CASE PushLink(t)
  <2> DEFINE n == New(t)
             s == seen[t].to
             old == link[n].to
             next == IF Alive(cnt, s) THEN s ELSE Null
             c == TryAddRef(cnt, s)
  <2>1. /\ n \in 1 .. alloc /\ n \in Entries /\ own[t] = {n} /\ n # s /\ n # old
    BY <1>15, NewEntry DEF PushLink, Pushing, Pointers
  <2>2. /\ link'[n].to = next /\ (\A y \in Entries \ {n} : link'[y].to = link[y].to)
        /\ own' = own /\ alloc' = alloc /\ cnt' = DropRef(c, old)
    BY <1>15, <1>1, <2>1 DEF PushLink, Count, TypeInv
  <2>3. s \in Addresses /\ old \in Addresses
    BY <1>1, <2>1 DEF TypeInv, Links, Addresses
  <2> HIDE DEF n, s, old, next, c
  <2>4. ASSUME NEW e \in 1 .. alloc
        PROVE  LET was == (IF old = e THEN 1 ELSE 0) + (IF e \in own[t] THEN 1 ELSE 0)
                   is == (IF next = e THEN 1 ELSE 0) + (IF e \in own'[t] THEN 1 ELSE 0)
               IN \/ is = was /\ cnt'[e] = cnt[e]
                  \/ is = was + 1 /\ cnt[e] # 0 /\ cnt'[e] = cnt[e] + 2
                  \/ was = is + 1 /\ cnt'[e] = IF cnt[e] <= 1 THEN 0 ELSE cnt[e] - 2
    <3>1. e \in Entries /\ cnt \in [Entries -> Nat] /\ e # Null /\ cnt[e] \in Nat
      BY <1>1, Exact, Numbers DEF TypeInv
    <3>2. c \in [Entries -> Nat]
      BY <2>3, <3>1, RefFacts DEF c
    <3>3. /\ old # e => cnt'[e] = c[e]
          /\ old = e => cnt'[e] = IF c[e] <= 1 THEN 0 ELSE c[e] - 2
      BY <2>2, <2>3, <3>1, <3>2, RefFacts
    <3>4. s # e => c[e] = cnt[e] /\ next # e
      BY <2>3, <3>1, RefFacts DEF c, next
    <3>5. s = e => IF cnt[e] % 2 = 1 THEN c[e] = cnt[e] + 2 /\ next = e
                                     ELSE c[e] = cnt[e] /\ next # e
      BY <2>3, <3>1, RefFacts DEF c, next
    <3>6. cnt[e] % 2 = 1 => cnt[e] # 0
      BY <3>1
    <3>7. CASE s # e
      BY <2>2, <3>3, <3>4, <3>7
    <3>8. CASE s = e /\ cnt[e] % 2 = 1
      <4>1. c[e] = cnt[e] + 2 /\ ~(c[e] <= 1) /\ c[e] - 2 = cnt[e] /\ next = e
        BY <3>1, <3>5, <3>8
      <4> HIDE DEF next
      <4>2. CASE old = e
        BY <2>2, <3>3, <4>1, <4>2
      <4>3. CASE old # e
        BY <2>2, <3>3, <3>6, <3>8, <4>1, <4>3
      <4> QED BY <4>2, <4>3
    <3>9. CASE s = e /\ cnt[e] % 2 # 1
      BY <2>2, <3>3, <3>5, <3>9
    <3> QED BY <3>7, <3>8, <3>9
  <2> QED BY <1>4, <1>5, <2>1, <2>2, <2>4, OneStep DEF old
<1>16. CASE PushCas(t)
  <2> DEFINE n == New(t)
             s == seen[t].to
             x == cur[t]
  <2>1. CASE alloc' = alloc /\ cnt' = cnt /\ own' = own
              /\ \A y \in Entries : link'[y].to = link[y].to
    BY <1>1, <1>2, <2>1, Steady DEF CountedStep
  <2>2. CASE link[x] = seen[t]
    <3>1. n \in Entries /\ own[t] = {n} /\ n # s /\ n \in 1 .. alloc
      BY <1>16, NewEntry DEF PushCas, Pushing, Pointers
    <3>2. x \in 1 .. alloc /\ x \in Entries
      BY <1>16, <1>6, AtHand DEF PushCas, WalkShape
    <3>3. s \in Addresses
      BY <1>1 DEF TypeInv, Links, Addresses
    <3>4. /\ link'[x].to = n /\ (\A y \in Entries \ {x} : link'[y].to = link[y].to)
          /\ own'[t] = {} /\ alloc' = alloc /\ cnt' = DropRef(cnt, s) /\ link[x].to = s
      BY <1>16, <1>1, <2>2, <3>2 DEF PushCas, Count, TypeInv
    <3> HIDE DEF n, s, x
    <3>5. ASSUME NEW e \in 1 .. alloc
          PROVE  LET was == (IF s = e THEN 1 ELSE 0) + (IF e \in own[t] THEN 1 ELSE 0)
                   is == (IF n = e THEN 1 ELSE 0) + (IF e \in own'[t] THEN 1 ELSE 0)
               IN \/ is = was /\ cnt'[e] = cnt[e]
                  \/ is = was + 1 /\ cnt[e] # 0 /\ cnt'[e] = cnt[e] + 2
                  \/ was = is + 1 /\ cnt'[e] = IF cnt[e] <= 1 THEN 0 ELSE cnt[e] - 2
      <4>1. e \in Entries /\ cnt \in [Entries -> Nat] /\ cnt[e] \in Nat
        BY <1>1, Exact, Numbers DEF TypeInv
      <4>2. /\ s # e => cnt'[e] = cnt[e]
            /\ s = e => cnt'[e] = IF cnt[e] <= 1 THEN 0 ELSE cnt[e] - 2
        BY <3>3, <3>4, <4>1, RefFacts
      <4> QED BY <3>1, <3>4, <4>2
    <3> QED BY <1>4, <1>5, <3>2, <3>4, <3>5, OneStep
  <2> QED BY <1>16, <2>1, <2>2 DEF PushCas
<1>17. CASE PushFail(t)
  <2> DEFINE s == New(t)
  <2>1. s \in Entries /\ own[t] = {s} /\ s \in Addresses
    BY <1>17, NewEntry DEF PushFail, Pushing, Addresses
  <2>2. link' = link /\ own'[t] = {} /\ alloc' = alloc /\ cnt' = DropRef(cnt, s)
    BY <1>17, <1>1 DEF PushFail, Count, TypeInv
  <2> HIDE DEF s
  <2>3. ASSUME NEW e \in 1 .. alloc
        PROVE  LET was == (IF link[Head].to = e THEN 1 ELSE 0) + (IF e \in own[t] THEN 1 ELSE 0)
                   is == (IF link'[Head].to = e THEN 1 ELSE 0) + (IF e \in own'[t] THEN 1 ELSE 0)
               IN \/ is = was /\ cnt'[e] = cnt[e]
                  \/ is = was + 1 /\ cnt[e] # 0 /\ cnt'[e] = cnt[e] + 2
                  \/ was = is + 1 /\ cnt'[e] = IF cnt[e] <= 1 THEN 0 ELSE cnt[e] - 2
    <3>1. e \in Entries /\ cnt \in [Entries -> Nat] /\ e # Null /\ cnt[e] \in Nat
      BY <1>1, Exact, Numbers DEF TypeInv
    <3>2. /\ s # e => cnt'[e] = cnt[e]
          /\ s = e => cnt'[e] = IF cnt[e] <= 1 THEN 0 ELSE cnt[e] - 2
      BY <2>1, <2>2, <3>1, RefFacts
    <3> QED BY <2>1, <2>2, <3>2
  <2> QED BY <1>4, <1>5, <1>8, <2>2, <2>3, OneStep
<1>18. CASE NextPtr(t)
  <2>1. alloc' = alloc /\ cnt' = cnt /\ own' = own /\ (\A x \in Entries : link'[x].to = link[x].to)
    BY <1>18, <1>1 DEF NextPtr, Load
  <2> QED BY <1>1, <1>2, <2>1, Steady DEF CountedStep
<1>19. CASE WalkEnds(t)
  <2>1. alloc' = alloc /\ cnt' = cnt /\ own' = own /\ (\A x \in Entries : link'[x].to = link[x].to)
    BY <1>19, <1>1 DEF WalkEnds
  <2> QED BY <1>1, <1>2, <2>1, Steady DEF CountedStep
<1>20. CASE Walk(t)
  <2>1. alloc' = alloc /\ cnt' = cnt /\ own' = own /\ (\A x \in Entries : link'[x].to = link[x].to)
    BY <1>20, <1>1 DEF Walk
  <2> QED BY <1>1, <1>2, <2>1, Steady DEF CountedStep
<1>21. CASE Claim(t)
  <2>1. alloc' = alloc /\ cnt' = cnt /\ own' = own
    BY <1>21 DEF Claim
  <2>2. ASSUME NEW x \in Entries PROVE link'[x].to = link[x].to
    <3>1. link' = link \/ link' = [link EXCEPT ![ptr[t].to].tag = "Both"]
      BY <1>21 DEF Claim
    <3>2. link \in [Entries -> Links] /\ link[x] \in Links
      BY <1>1 DEF TypeInv
    <3>3. link'[x] = link[x] \/ link'[x] = [link[x] EXCEPT !.tag = "Both"]
      BY <3>1, <3>2
    <3> QED BY <3>2, <3>3 DEF Links
  <2> QED BY <1>1, <1>2, <2>1, <2>2, Steady DEF CountedStep
<1>22. CASE Take(t)
  <2> DEFINE s == ptr[t].to
  <2>1. s \in Addresses /\ own[t] = {}
    BY <1>22, <1>1, <1>6 DEF TypeInv, Links, Addresses, Take, OwnShape
  <2>2. /\ link' = link /\ own'[t] = (IF Alive(cnt, s) THEN {s} ELSE {})
        /\ alloc' = alloc /\ cnt' = TryAddRef(cnt, s)
    BY <1>22, <1>1 DEF Take, Count, TypeInv
  <2> HIDE DEF s
  <2>3. ASSUME NEW e \in 1 .. alloc
        PROVE  LET was == (IF link[Head].to = e THEN 1 ELSE 0) + (IF e \in own[t] THEN 1 ELSE 0)
                   is == (IF link'[Head].to = e THEN 1 ELSE 0) + (IF e \in own'[t] THEN 1 ELSE 0)
               IN \/ is = was /\ cnt'[e] = cnt[e]
                  \/ is = was + 1 /\ cnt[e] # 0 /\ cnt'[e] = cnt[e] + 2
                  \/ was = is + 1 /\ cnt'[e] = IF cnt[e] <= 1 THEN 0 ELSE cnt[e] - 2
    <3>1. e \in Entries /\ cnt \in [Entries -> Nat] /\ e # Null /\ cnt[e] \in Nat
      BY <1>1, Exact, Numbers DEF TypeInv
    <3>2. s # e => cnt'[e] = cnt[e] /\ e \notin own'[t]
      BY <2>1, <2>2, <3>1, RefFacts
    <3>3. s = e => IF cnt[e] % 2 = 1 THEN cnt'[e] = cnt[e] + 2 /\ e \in own'[t]
                                     ELSE cnt'[e] = cnt[e] /\ e \notin own'[t]
      BY <2>1, <2>2, <3>1, RefFacts
    <3>4. cnt[e] % 2 = 1 => cnt[e] # 0
      BY <3>1
    <3> QED BY <2>1, <2>2, <3>2, <3>3, <3>4
  <2> QED BY <1>4, <1>5, <1>8, <2>2, <2>3, OneStep
<1>23. CASE Unlink(t)
  <2> DEFINE s == ptr[t].to
             old == seen[t].to
             x == cur[t]
  <2>1. CASE alloc' = alloc /\ cnt' = cnt /\ own' = own
              /\ \A y \in Entries : link'[y].to = link[y].to
    BY <1>1, <1>2, <2>1, Steady DEF CountedStep
  <2>2. CASE link[x] = seen[t]
    <3>1. own[t] = {s} \ {Null} /\ old # Null /\ old # s
      BY <1>23, <1>6 DEF Unlink, OwnShape, WalkShape
    <3>2. x \in 1 .. alloc /\ x \in Entries
      BY <1>23, <1>6, AtHand DEF Unlink, WalkShape
    <3>3. s \in Addresses
      BY <1>1 DEF TypeInv, Links, Addresses
    <3>4. /\ link'[x].to = s /\ (\A y \in Entries \ {x} : link'[y].to = link[y].to)
          /\ own'[t] = own[t] \cup {old} /\ alloc' = alloc /\ cnt' = AddRef(cnt, s)
          /\ link[x].to = old
      BY <1>23, <1>1, <2>2, <3>2 DEF Unlink, Count, TypeInv
    <3> HIDE DEF old, s, x
    <3>5. ASSUME NEW e \in 1 .. alloc
          PROVE  LET was == (IF old = e THEN 1 ELSE 0) + (IF e \in own[t] THEN 1 ELSE 0)
                   is == (IF s = e THEN 1 ELSE 0) + (IF e \in own'[t] THEN 1 ELSE 0)
               IN \/ is = was /\ cnt'[e] = cnt[e]
                  \/ is = was + 1 /\ cnt[e] # 0 /\ cnt'[e] = cnt[e] + 2
                  \/ was = is + 1 /\ cnt'[e] = IF cnt[e] <= 1 THEN 0 ELSE cnt[e] - 2
      <4>1. e \in Entries /\ cnt \in [Entries -> Nat] /\ cnt[e] \in Nat /\ e # Null
        BY <1>1, Exact, Numbers DEF TypeInv
      <4>2. /\ s # e => cnt'[e] = cnt[e]
            /\ s = e => cnt'[e] = cnt[e] + 2
        BY <3>3, <3>4, <4>1, RefFacts
      <4>3. s = e => cnt[e] # 0
        BY <1>1, <1>2, <3>1, <4>1, CountFacts
      <4> QED BY <3>1, <3>4, <4>1, <4>2, <4>3
    <3> QED BY <1>4, <1>5, <3>2, <3>4, <3>5, OneStep
  <2> QED BY <1>23, <2>1, <2>2 DEF Unlink, TypeInv
<1>24. CASE Release(t)
  <2> DEFINE old == own[t] \ {ptr[t].to}
  <2>1. CASE alloc' = alloc /\ cnt' = cnt /\ own' = own
              /\ \A y \in Entries : link'[y].to = link[y].to
    BY <1>1, <1>2, <2>1, Steady DEF CountedStep
  <2>2. CASE old # {}
    <3>1. PICK y \in Entries : own[t] \subseteq {ptr[t].to, y}
      BY <1>24, <1>6 DEF Release, OwnShape
    <3> DEFINE s == CHOOSE e \in old : TRUE
    <3>2. old = {y} /\ s = y /\ y \in Addresses
      BY <2>2, <3>1 DEF Addresses
    <3>3. link' = link /\ own'[t] = own[t] \ {y} /\ alloc' = alloc /\ cnt' = DropRef(cnt, y)
          /\ y \in own[t]
      BY <1>24, <1>1, <2>2, <3>2 DEF Release, Count, TypeInv
    <3>4. ASSUME NEW e \in 1 .. alloc
          PROVE  LET was == (IF link[Head].to = e THEN 1 ELSE 0) + (IF e \in own[t] THEN 1 ELSE 0)
                   is == (IF link'[Head].to = e THEN 1 ELSE 0) + (IF e \in own'[t] THEN 1 ELSE 0)
               IN \/ is = was /\ cnt'[e] = cnt[e]
                  \/ is = was + 1 /\ cnt[e] # 0 /\ cnt'[e] = cnt[e] + 2
                  \/ was = is + 1 /\ cnt'[e] = IF cnt[e] <= 1 THEN 0 ELSE cnt[e] - 2
      <4>1. e \in Entries /\ cnt \in [Entries -> Nat] /\ cnt[e] \in Nat /\ e # Null
        BY <1>1, Exact, Numbers DEF TypeInv
      <4>2. /\ y # e => cnt'[e] = cnt[e]
            /\ y = e => cnt'[e] = IF cnt[e] <= 1 THEN 0 ELSE cnt[e] - 2
        BY <3>2, <3>3, <4>1, RefFacts
      <4> QED BY <3>3, <4>2
    <3> QED BY <1>4, <1>5, <1>8, <3>3, <3>4, OneStep
  <2>3. CASE old = {}
    BY <1>24, <1>1, <2>1, <2>3 DEF Release, Count, TypeInv
  <2> QED BY <2>2, <2>3
<1>25. CASE Swap(t)
  <2> DEFINE s == ptr[t].to
             x == first[t]
             old == link[x].to
  <2>1. CASE alloc' = alloc /\ cnt' = cnt /\ own' = own
              /\ \A y \in Entries : link'[y].to = link[y].to
    BY <1>1, <1>2, <2>1, Steady DEF CountedStep
  <2>2. x \in 1 .. alloc /\ x \in Entries
    BY <1>25, <1>6, AtHand DEF Swap, WalkShape
  <2>3. CASE old = s
    BY <1>25, <1>1, <2>1, <2>2, <2>3 DEF Swap, TypeInv
  <2>4. CASE old # s
    <3>1. own[t] = {s} \ {Null}
      BY <1>25, <1>6 DEF Swap, OwnShape
    <3>3. s \in Addresses
      BY <1>1 DEF TypeInv, Links, Addresses
    <3>4. /\ link'[x].to = s /\ (\A y \in Entries \ {x} : link'[y].to = link[y].to)
          /\ own'[t] = own[t] \cup ({old} \ {Null}) /\ alloc' = alloc
          /\ cnt' = AddRef(cnt, s)
      BY <1>25, <1>1, <2>2, <2>4 DEF Swap, Count, TypeInv
    <3> HIDE DEF s, x, old
    <3>5. ASSUME NEW e \in 1 .. alloc
          PROVE  LET was == (IF old = e THEN 1 ELSE 0) + (IF e \in own[t] THEN 1 ELSE 0)
                   is == (IF s = e THEN 1 ELSE 0) + (IF e \in own'[t] THEN 1 ELSE 0)
               IN \/ is = was /\ cnt'[e] = cnt[e]
                  \/ is = was + 1 /\ cnt[e] # 0 /\ cnt'[e] = cnt[e] + 2
                  \/ was = is + 1 /\ cnt'[e] = IF cnt[e] <= 1 THEN 0 ELSE cnt[e] - 2
      <4>1. e \in Entries /\ cnt \in [Entries -> Nat] /\ cnt[e] \in Nat /\ e # Null
        BY <1>1, Exact, Numbers DEF TypeInv
      <4>2. /\ s # e => cnt'[e] = cnt[e]
            /\ s = e => cnt'[e] = cnt[e] + 2
        BY <3>3, <3>4, <4>1, RefFacts
      <4>3. s = e => cnt[e] # 0
        BY <1>1, <1>2, <3>1, <4>1, CountFacts
      <4> QED BY <2>4, <3>1, <3>4, <4>1, <4>2, <4>3
    <3> QED BY <1>4, <1>5, <2>2, <3>4, <3>5, OneStep DEF old
  <2> QED BY <2>3, <2>4
<1>26. CASE Restore(t)
  <2>1. alloc' = alloc /\ cnt' = cnt /\ own' = own /\ (\A x \in Entries : link'[x].to = link[x].to)
    BY <1>26, <1>1 DEF Restore, Links, TypeInv
  <2> QED BY <1>1, <1>2, <2>1, Steady DEF CountedStep
<1>27. CASE Return(t)
  <2> DEFINE s == ptr[t].to
  <2>1. own[t] \subseteq {s} /\ s \in Addresses
    BY <1>27, <1>1, <1>6 DEF Return, OwnShape, TypeInv, Links, Addresses
  <2>2. /\ link' = link /\ own'[t] = {} /\ alloc' = alloc
        /\ cnt' = IF s \in own[t] THEN DropRef(cnt, s) ELSE cnt
    BY <1>27, <1>1 DEF Return, Count, TypeInv
  <2> HIDE DEF s
  <2>3. ASSUME NEW e \in 1 .. alloc
        PROVE  LET was == (IF link[Head].to = e THEN 1 ELSE 0) + (IF e \in own[t] THEN 1 ELSE 0)
                   is == (IF link'[Head].to = e THEN 1 ELSE 0) + (IF e \in own'[t] THEN 1 ELSE 0)
               IN \/ is = was /\ cnt'[e] = cnt[e]
                  \/ is = was + 1 /\ cnt[e] # 0 /\ cnt'[e] = cnt[e] + 2
                  \/ was = is + 1 /\ cnt'[e] = IF cnt[e] <= 1 THEN 0 ELSE cnt[e] - 2
    <3>1. e \in Entries /\ cnt \in [Entries -> Nat] /\ e # Null /\ cnt[e] \in Nat
      BY <1>1, Exact, Numbers DEF TypeInv
    <3>2. s \notin own[t] => cnt'[e] = cnt[e] /\ e \notin own[t]
      BY <2>1, <2>2
    <3>3. s \in own[t] => /\ s # e => cnt'[e] = cnt[e] /\ e \notin own[t]
                          /\ s = e => cnt'[e] = IF cnt[e] <= 1 THEN 0 ELSE cnt[e] - 2
      BY <2>1, <2>2, <3>1, RefFacts
    <3> QED BY <2>1, <2>2, <3>2, <3>3
  <2> QED BY <1>4, <1>5, <1>8, <2>2, <2>3, OneStep
<1>28. CASE Collect(t)
  <2>1. alloc' = alloc /\ cnt' = cnt /\ own' = own /\ (\A x \in Entries : link'[x].to = link[x].to)
    BY <1>28, <1>1 DEF Collect, Load
  <2> QED BY <1>1, <1>2, <2>1, Steady DEF CountedStep
<1>29. CASE DropLink(t)
  <2> DEFINE x == cur[t]
             s == link[x].to
  <2>1. x \in 1 .. alloc /\ x \in Entries
    BY <1>29, <1>6, AtHand DEF DropLink, WalkShape
  <2>2. s \in Addresses
    BY <1>1, <2>1 DEF TypeInv, Links, Addresses
  <2>3. /\ link'[x].to = Null /\ (\A y \in Entries \ {x} : link'[y].to = link[y].to)
        /\ own' = own /\ alloc' = alloc /\ cnt' = DropRef(cnt, s)
    BY <1>29, <1>1, <2>1 DEF DropLink, TypeInv
  <2> HIDE DEF s, x
  <2>4. ASSUME NEW e \in 1 .. alloc
        PROVE  LET was == (IF s = e THEN 1 ELSE 0) + (IF e \in own[t] THEN 1 ELSE 0)
                   is == (IF Null = e THEN 1 ELSE 0) + (IF e \in own'[t] THEN 1 ELSE 0)
               IN \/ is = was /\ cnt'[e] = cnt[e]
                  \/ is = was + 1 /\ cnt[e] # 0 /\ cnt'[e] = cnt[e] + 2
                  \/ was = is + 1 /\ cnt'[e] = IF cnt[e] <= 1 THEN 0 ELSE cnt[e] - 2
    <3>1. e \in Entries /\ cnt \in [Entries -> Nat] /\ e # Null /\ cnt[e] \in Nat
      BY <1>1, Exact, Numbers DEF TypeInv
    <3>2. /\ s # e => cnt'[e] = cnt[e]
          /\ s = e => cnt'[e] = IF cnt[e] <= 1 THEN 0 ELSE cnt[e] - 2
      BY <2>2, <2>3, <3>1, RefFacts
    <3> QED BY <2>3, <3>1, <3>2
  <2> QED BY <1>4, <1>5, <2>1, <2>3, <2>4, OneStep DEF s
<1> QED BY <1>9, <1>10, <1>11, <1>12, <1>13, <1>14, <1>15, <1>16, <1>17, <1>18,
           <1>19, <1>20, <1>21, <1>22, <1>23, <1>24, <1>25, <1>26, <1>27,
           <1>28, <1>29 DEF Step

-----------------------------------------------------------------------------
(* Guards keep what they have found                                         *)

\* The steps that change counts and Guards.
LEMMA PinSteps ==
  ASSUME NEW t \in Threads, Step(t)
  PROVE  \/ cnt' = cnt /\ pins' = pins
         \/ Count(cnt')
         \/ Leave(t)
         \/ DropLink(t)
<1>1. \A d : Count(d) => Count(cnt')
  BY DEF Count
<1> QED BY <1>1 DEF Step, Enter, Mark, Unmark, DeleteSelf, Push, PushLink, PushCas,
          PushFail, NextPtr, WalkEnds, Walk, Claim, Take, Unlink, Release,
          Swap, Restore, Return, Collect, SetTag, Load

\* An entry that has an owner or is kept by the Guard of a thread remains so, for as
\* long as the thread has its Guard; what the collector may take, it may take.
LEMMA PinStep ==
  ASSUME ListInv, NEW t \in Threads, Step(t), NEW e \in 1 .. alloc
  PROVE  /\ cnt[e] = 0 => cnt'[e] = 0 /\ pins'[e] \subseteq pins[e]
         /\ \A u \in Threads :
              /\ pc[u] # "idle" /\ (u = t => ~Leave(t) /\ ~DropLink(t))
              /\ cnt[e] # 0 \/ u \in pins[e]
              => cnt'[e] # 0 \/ u \in pins'[e]
<1>1. TypeInv /\ CountsExact /\ e \in Entries /\ cnt[e] \in Nat /\ (cnt[e] # 0 => cnt[e] % 2 = 1)
  BY CountFacts DEF ListInv
<1>2. cnt[e] = 0 => cnt'[e] = 0
  BY CountStep DEF CountedStep
<1>3. 0 % 2 = 0
  OBVIOUS
<1>4. e \in Released(cnt, cnt') <=> cnt[e] % 2 = 1 /\ cnt'[e] % 2 = 0
  BY <1>1 DEF Released, TypeInv
<1>5. cnt[e] = 0 => e \notin Released(cnt, cnt')
  BY <1>3, <1>4
<1>6. cnt[e] # 0 /\ cnt'[e] = 0 => e \in Released(cnt, cnt')
  BY <1>1, <1>3, <1>4
<1>7. \A u \in Threads : pc[u] # "idle" => u \in Guarded
  BY DEF Guarded
<1>8. CASE cnt' = cnt /\ pins' = pins
  BY <1>8
<1>9. CASE Count(cnt')
  <2>1. pins'[e] = IF e \in Released(cnt, cnt') THEN Guarded ELSE pins[e]
    BY <1>1, <1>9 DEF Count
  <2> QED BY <1>2, <1>5, <1>6, <1>7, <2>1
<1>10. CASE Leave(t)
  <2>1. cnt' = cnt /\ pins'[e] = pins[e] \ {t}
    BY <1>1, <1>10 DEF Leave
  <2> QED BY <1>10, <2>1
<1>11. CASE DropLink(t)
  <2>1. pins'[e] = (IF e \in Released(cnt, cnt') THEN Guarded ELSE pins[e]) \ {t}
    BY <1>1, <1>11 DEF DropLink
  <2> QED BY <1>2, <1>5, <1>6, <1>7, <1>11, <2>1
<1> QED BY <1>8, <1>9, <1>10, <1>11, PinSteps

\* Every step keeps dropped entries without owners and Guards.
LEMMA FreedStep ==
  ASSUME ListInv, NEW t \in Threads, Step(t)
  PROVE  FreedInv' /\ freed \subseteq freed'
<1>1. FreedInv /\ TypeInv
  BY DEF ListInv
<1>2. \A e \in freed' : e \in freed \/ (e <= alloc /\ cnt[e] = 0 /\ pins[e] = {})
  BY DEF Step, Enter, Leave, Mark, Unmark, DeleteSelf, Push, PushLink,
          PushCas, PushFail, NextPtr, WalkEnds, Walk, Claim, Take, Unlink,
          Release, Swap, Restore, Return, Collect, DropLink, SetTag, Load
<1>3. freed \subseteq freed'
  BY DEF Step, Enter, Leave, Mark, Unmark, DeleteSelf, Push, PushLink,
          PushCas, PushFail, NextPtr, WalkEnds, Walk, Claim, Take, Unlink,
          Release, Swap, Restore, Return, Collect, DropLink, SetTag, Load
<1>4. alloc' = alloc \/ alloc' = alloc + 1
  BY DEF Step, Enter, Leave, Mark, Unmark, DeleteSelf, Push, PushLink,
          PushCas, PushFail, NextPtr, WalkEnds, Walk, Claim, Take, Unlink,
          Release, Swap, Restore, Return, Collect, DropLink, SetTag, Load
<1>5. ASSUME NEW e \in freed' PROVE e <= alloc' /\ cnt'[e] = 0 /\ pins'[e] = {}
  <2>1. e <= alloc /\ cnt[e] = 0 /\ pins[e] = {} /\ e \in Entries
    BY <1>1, <1>2, TypeStep DEF FreedInv, TypeInv
  <2>2. e \in 1 .. alloc /\ e <= alloc'
    BY <1>1, <1>4, <2>1, Numbers DEF TypeInv
  <2>3. cnt'[e] = 0 /\ pins'[e] \subseteq pins[e]
    BY <2>1, <2>2, PinStep
  <2> QED BY <2>1, <2>2, <2>3
<1> QED BY <1>3, <1>5 DEF FreedInv

\* Every step refers to allocated entries only.
LEMMA AllocStep ==
  ASSUME ListInv, NEW t \in Threads, Step(t)
  PROVE  AllocInv'
<1>1. AllocInv /\ TypeInv /\ TypeInv' /\ alloc \in Nat /\ alloc' \in Nat
  BY TypeStep, Numbers DEF ListInv, TypeInv
<1>2. alloc' = alloc \/ alloc' = alloc + 1
  BY DEF Step, Enter, Leave, Mark, Unmark, DeleteSelf, Push, PushLink,
          PushCas, PushFail, NextPtr, WalkEnds, Walk, Claim, Take, Unlink,
          Release, Swap, Restore, Return, Collect, DropLink, SetTag, Load
<1>3. alloc <= alloc'
  BY <1>1, <1>2
<1>4. \A e \in Held(t) : e \in 1 .. alloc /\ e \in Entries
  BY Facts, <1>1, Numbers DEF TypeInv
<1>5. \A e \in Entries : link[e].to # Null => e \in 1 .. alloc /\ link[e].to \in 1 .. alloc
  BY Facts
<1>6. ASSUME NEW e \in Entries, link'[e].to # Null PROVE e <= alloc' /\ link'[e].to <= alloc'
  <2>1. e \in 1 .. alloc
    BY <1>4, <1>5, <1>6, LinkStep
  <2>2. link'[e].to \in 1 .. alloc
    BY <1>4, <1>5, <1>6, LinkStep
  <2> QED BY <1>1, <1>3, <2>1, <2>2
<1>7. ASSUME NEW e \in Entries, e > alloc' PROVE link'[e].tag = "None"
  <2>1. e > alloc /\ e \notin 1 .. alloc
    BY <1>1, <1>3, <1>7, Numbers
  <2> QED BY <1>1, <1>4, <2>1, LinkStep DEF AllocInv
<1>8. ASSUME NEW u \in Threads, NEW e \in Held(u)' PROVE e <= alloc'
  <2>1. CASE u # t
    <3>1. Held(u)' = Held(u)
      BY <1>1, <2>1, Others DEF Held, Pointers
    <3>2. e \in 1 .. alloc
      BY <3>1, Facts
    <3> QED BY <1>1, <1>3, <3>2
  <2>2. CASE u = t
    <3>1. Targets \subseteq {Null} \cup (1 .. alloc)
      <4>1. \A x \in 1 .. alloc : x \in Entries
        BY <1>1, Exact
      <4> QED BY <1>5, <4>1 DEF Targets
    <3>2. Unowned \subseteq 1 .. alloc /\ Head \in 1 .. alloc
      BY <1>1, Numbers DEF Unowned, TypeInv
    <3>3. e # Null
      BY DEF Held
    <3>4. e \in 1 .. alloc \/ e = alloc'
      BY <1>4, <2>2, <3>1, <3>2, <3>3, HeldStep
    <3> QED BY <1>1, <1>3, <3>4
  <2> QED BY <2>1, <2>2
<1> QED BY <1>6, <1>7, <1>8 DEF AllocInv

\* Every step keeps an entry that is being pushed to the thread that pushes it.
LEMMA PrivateStep ==
  ASSUME ListInv, NEW t \in Threads, Step(t), NEW u \in Threads
  PROVE  Private(u)'
<1>1. /\ TypeInv /\ TypeInv' /\ AllocInv /\ CountsExact /\ (\A v \in Threads : Private(v))
      /\ OwnShape(t) /\ WalkShape(t)
  BY TypeStep DEF ListInv
<1>2. \A v \in Threads \ {t} : /\ pc'[v] = pc[v] /\ own'[v] = own[v]
                               /\ Pointers(v)' = Pointers(v)
  BY <1>1, Others DEF Pointers
<1>3. CASE u # t
  <2> SUFFICES ASSUME pc[u] \in Pushing, NEW n \in own[u]
               PROVE  /\ n # Head /\ (\A x \in Entries : link'[x].to # n)
                      /\ \A v \in Threads : n \notin Pointers(v)' /\ (v # u => n \notin own'[v])
                      /\ ~Deleted(n)'
    BY <1>2, <1>3 DEF Private
  <2>1. /\ n # Head /\ (\A x \in Entries : link[x].to # n) /\ ~Deleted(n)
        /\ \A v \in Threads : n \notin Pointers(v) /\ (v # u => n \notin own[v])
    BY <1>1 DEF Private
  <2>2. n \in 1 .. alloc /\ n \in Entries /\ n # Null /\ n # alloc + 1
    BY AtHand, Numbers, <1>1 DEF TypeInv
  <2>3. cnt[n] # 0
    BY <1>1, <2>2, CountFacts
  <2>4. n \notin Held(t)
    BY <1>3, <2>1 DEF Held
  <2>5. n \notin Held(t)'
    <3>1. \A x \in 1 .. alloc : x \in Entries
      BY <1>1, Exact
    <3>2. n \notin Targets /\ n \notin Unowned /\ n # Fresh
      BY <2>1, <2>2, <2>3, <3>1 DEF Targets, Unowned, Fresh
    <3> QED BY <2>1, <2>4, <3>2, HeldStep
  <2>6. n \notin Pointers(t)' /\ n \notin own'[t]
    BY <2>2, <2>5 DEF Held
  <2>7. \A x \in Entries : link'[x].to # n
    BY <2>1, <2>2, <2>4, LinkStep
  <2>8. ~Deleted(n)'
    BY <2>1, <2>2, <2>4, LinkStep DEF Deleted
  <2> QED BY <1>2, <2>1, <2>6, <2>7, <2>8
<1>4. CASE u = t
  <2>1. pc'[t] \in Pushing => Push(t) \/ PushLink(t)
                              \/ (PushCas(t) /\ link[cur[t]] # seen[t])
    <3>1. Push(t) \/ PushLink(t) \/ PushCas(t) \/ PushFail(t)
          \/ (pc'[t] \notin Pushing)
      BY <1>1 DEF Step, Enter, Leave, Mark, Unmark, DeleteSelf, NextPtr, WalkEnds,
          Walk, Claim, Take, Unlink, Release, Swap, Restore, Return, Collect,
          DropLink, SetTag, Load, Goto, Pushing, TypeInv
    <3>2. PushFail(t) \/ (PushCas(t) /\ link[cur[t]] = seen[t]) => pc'[t] \notin Pushing
      BY <1>1 DEF PushFail, PushCas, Goto, Pushing, TypeInv
    <3> QED BY <3>1, <3>2
  <2>2. CASE Push(t)
    <3>1. PICK n \in Nat : n = alloc + 1
      BY <1>1, Numbers DEF TypeInv
    <3>2. own'[t] = {n} /\ link' = link /\ seen'[t] = link[cur[t]] /\ cur' = cur
          /\ ptr' = ptr /\ state' = state /\ first' = first /\ last' = last
          /\ pc[t] = "at" /\ alloc < MaxEntries
      BY <1>1, <2>2, <3>1 DEF Push, TypeInv, OwnShape
    <3>3. n \in Entries /\ n # Head /\ n # Null /\ n > alloc /\ ~(n <= alloc) /\ n \notin 1 .. alloc
      BY <1>1, <3>1, <3>2, Numbers DEF TypeInv
    <3>4. \A v \in Threads : n \notin Held(v) /\ n \notin own[v] /\ n \notin Pointers(v)
      BY <1>1, <3>3 DEF AllocInv, Held
    <3>5. \A x \in Entries : link[x].to # n
      BY <1>1, <3>3 DEF AllocInv
    <3>6. n \notin Pointers(t)'
      <4>1. link[cur[t]].to # n
        BY <3>2, <3>5, AtHand
      <4> QED BY <3>2, <3>4, <4>1 DEF Pointers
    <3>7. ~Deleted(n)'
      BY <1>1, <3>2, <3>3 DEF AllocInv, Deleted
    <3> QED BY <1>2, <1>4, <3>2, <3>3, <3>4, <3>5, <3>6, <3>7 DEF Private
  <2>3. CASE PushLink(t)
    <3> DEFINE next == IF Alive(cnt, seen[t].to) THEN seen[t].to ELSE Null
    <3>0. PICK n : n = New(t)
      OBVIOUS
    <3>1. pc[t] \in Pushing
      BY <2>3 DEF PushLink, Pushing
    <3>2. own[t] = {n} /\ n \in Entries /\ n # seen[t].to /\ n # Null
      BY <3>0, <3>1, NewEntry DEF Pointers
    <3>3. /\ link' = [link EXCEPT ![n] = [to |-> next, tag |-> "None"]] /\ own' = own
          /\ Pointers(t)' = Pointers(t)
      BY <2>3, <3>0 DEF PushLink, Pointers, local
    <3>4. link'[n].to # n /\ ~Deleted(n)'
      BY <1>1, <3>2, <3>3 DEF TypeInv, Deleted
    <3>5. \A x \in Entries \ {n} : link'[x] = link[x]
      BY <1>1, <3>2, <3>3 DEF TypeInv
    <3>6. /\ n # Head /\ (\A x \in Entries : link[x].to # n)
          /\ \A v \in Threads : n \notin Pointers(v) /\ (v # t => n \notin own[v])
      BY <1>1, <3>1, <3>2 DEF Private
    <3> HIDE DEF next
    <3> QED BY <1>2, <1>4, <3>2, <3>3, <3>4, <3>5, <3>6 DEF Private
  <2>4. CASE PushCas(t) /\ link[cur[t]] # seen[t]
    <3>1. pc[t] \in Pushing /\ pc[t] # "idle"
      BY <2>4 DEF PushCas, Pushing
    <3>2. /\ link' = link /\ own' = own /\ seen'[t] = link[cur[t]]
          /\ cur' = cur /\ ptr' = ptr /\ state' = state /\ first' = first /\ last' = last
      BY <1>1, <2>4 DEF PushCas, TypeInv
    <3> SUFFICES ASSUME NEW n \in own[t]
                 PROVE  /\ n # Head /\ (\A x \in Entries : link[x].to # n)
                        /\ (\A v \in Threads : n \notin Pointers(v)' /\ (v # t => n \notin own[v]))
                        /\ ~Deleted(n)
      BY <1>4, <3>2 DEF Private, Deleted
    <3>3. /\ n # Head /\ (\A x \in Entries : link[x].to # n) /\ ~Deleted(n)
          /\ \A v \in Threads : n \notin Pointers(v) /\ (v # t => n \notin own[v])
      BY <1>1, <3>1 DEF Private
    <3>4. link[cur[t]].to # n
      BY <3>1, <3>3, AtHand
    <3>5. n \notin Pointers(t)'
      BY <3>2, <3>3, <3>4 DEF Pointers
    <3> QED BY <1>2, <3>3, <3>5
  <2>5. CASE pc'[t] \notin Pushing
    BY <1>4, <2>5 DEF Private
  <2> QED BY <2>1, <2>2, <2>3, <2>4, <2>5
<1> QED BY <1>3, <1>4

\* Every step keeps what threads own, by where they are.
LEMMA OwnShapeStep ==
  ASSUME ListInv, NEW t \in Threads, Step(t), NEW u \in Threads
  PROVE  OwnShape(u)'
<1>1. TypeInv /\ OwnShape(t) /\ OwnShape(u) /\ WalkShape(t)
  BY DEF ListInv
<1>2. CASE u # t
  BY <1>1, <1>2, Others DEF OwnShape
<1> SUFFICES ASSUME u = t PROVE OwnShape(t)'
  BY <1>2
<1>3. /\ own \in [Threads -> SUBSET Entries] /\ ptr \in [Threads -> Links]
      /\ pc \in [Threads -> PCs]
  BY <1>1 DEF TypeInv
<1>4. CASE Enter(t)
  <2>1. own' = own /\ own[t] = {} /\ ptr'[t] \in Links
    BY <1>4, <1>1, <1>3, TypeStep DEF Enter, OwnShape, TypeInv
  <2>2. pc'[t] \in {"idle", "at", "walk", "claim", "take", "drop", "done"}
    BY <1>4, <1>3 DEF Enter, Goto
  <2> QED BY <2>1, <2>2 DEF OwnShape, Pushing
<1>5. CASE Leave(t)
  <2>1. own' = own /\ own[t] = {} /\ ptr'[t] \in Links
    BY <1>5, <1>1, <1>3, TypeStep DEF Leave, OwnShape, TypeInv
  <2>2. pc'[t] \in {"idle", "at", "walk", "claim", "take", "drop", "done"}
    BY <1>5, <1>3 DEF Leave, Goto
  <2> QED BY <2>1, <2>2 DEF OwnShape, Pushing
<1>6. CASE Mark(t)
  <2>1. own' = own /\ own[t] = {} /\ ptr'[t] \in Links
    BY <1>6, <1>1, <1>3, TypeStep DEF Mark, SetTag, OwnShape, TypeInv
  <2>2. pc'[t] \in {"idle", "at", "walk", "claim", "take", "drop", "done"}
    BY <1>6, <1>3 DEF Mark, SetTag, Goto
  <2> QED BY <2>1, <2>2 DEF OwnShape, Pushing
<1>7. CASE Unmark(t)
  <2>1. own' = own /\ own[t] = {} /\ ptr'[t] \in Links
    BY <1>7, <1>1, <1>3, TypeStep DEF Unmark, SetTag, OwnShape, TypeInv
  <2>2. pc'[t] \in {"idle", "at", "walk", "claim", "take", "drop", "done"}
    BY <1>7, <1>3 DEF Unmark, SetTag, Goto
  <2> QED BY <2>1, <2>2 DEF OwnShape, Pushing
<1>8. CASE DeleteSelf(t)
  <2>1. own' = own /\ own[t] = {} /\ ptr'[t] \in Links
    BY <1>8, <1>1, <1>3, TypeStep DEF DeleteSelf, SetTag, OwnShape, TypeInv
  <2>2. pc'[t] \in {"idle", "at", "walk", "claim", "take", "drop", "done"}
    BY <1>8, <1>3 DEF DeleteSelf, SetTag, Goto
  <2> QED BY <2>1, <2>2 DEF OwnShape, Pushing
<1>9. CASE Push(t)
  <2>1. own'[t] = {alloc'} /\ alloc' \in Entries /\ pc'[t] = "push"
    BY <1>9, <1>1, <1>3, TypeStep DEF Push, Goto, OwnShape, TypeInv
  <2> QED BY <2>1 DEF OwnShape, Pushing
<1>10. CASE PushLink(t)
  <2>1. own' = own /\ pc'[t] = "push_cas" /\ pc[t] = "push"
    BY <1>10, <1>3 DEF PushLink, Goto
  <2> QED BY <1>1, <2>1 DEF OwnShape, Pushing
<1>11. CASE PushCas(t)
  <2>1. /\ link[cur[t]] = seen[t] => own'[t] = {} /\ pc'[t] = "at"
        /\ link[cur[t]] # seen[t] => own' = own /\ pc'[t] = "push" /\ pc[t] = "push_cas"
    BY <1>11, <1>3 DEF PushCas, Goto
  <2> QED BY <1>1, <2>1 DEF OwnShape, Pushing
<1>12. CASE PushFail(t)
  <2>1. own'[t] = {} /\ pc'[t] = "at"
    BY <1>12, <1>3 DEF PushFail, Goto
  <2> QED BY <2>1 DEF OwnShape, Pushing
<1>13. CASE NextPtr(t)
  <2>1. own' = own /\ own[t] = {} /\ ptr'[t] \in Links
    BY <1>13, <1>1, <1>3, TypeStep DEF NextPtr, Load, OwnShape, TypeInv
  <2>2. pc'[t] \in {"idle", "at", "walk", "claim", "take", "drop", "done"}
    BY <1>13, <1>3 DEF NextPtr, Load, Goto
  <2> QED BY <2>1, <2>2 DEF OwnShape, Pushing
<1>14. CASE WalkEnds(t)
  <2>1. own' = own /\ own[t] = {} /\ ptr'[t] \in Links
    BY <1>14, <1>1, <1>3, TypeStep DEF WalkEnds, OwnShape, TypeInv
  <2>2. pc'[t] \in {"idle", "at", "walk", "claim", "take", "drop", "done"}
    BY <1>14, <1>3 DEF WalkEnds, Goto
  <2> QED BY <2>1, <2>2 DEF OwnShape, Pushing
<1>15. CASE Walk(t)
  <2>1. own' = own /\ own[t] = {} /\ ptr'[t] \in Links
    BY <1>15, <1>1, <1>3, TypeStep DEF Walk, OwnShape, TypeInv
  <2>2. pc'[t] \in {"idle", "at", "walk", "claim", "take", "drop", "done"}
    BY <1>15, <1>3 DEF Walk, Goto
  <2> QED BY <2>1, <2>2 DEF OwnShape, Pushing
<1>16. CASE Claim(t)
  <2>1. own' = own /\ own[t] = {} /\ ptr'[t] \in Links
    BY <1>16, <1>1, <1>3, TypeStep DEF Claim, OwnShape, TypeInv
  <2>2. pc'[t] \in {"idle", "at", "walk", "claim", "take", "drop", "done"}
    BY <1>16, <1>3 DEF Claim, Goto
  <2> QED BY <2>1, <2>2 DEF OwnShape, Pushing
<1>17. CASE Take(t)
  <2>1. own'[t] = (IF Alive(cnt, ptr[t].to) THEN {ptr[t].to} ELSE {}) /\ ptr' = ptr
        /\ pc'[t] = IF ptr[t].to # Null /\ ~Alive(cnt, ptr[t].to) THEN "restore" ELSE "cas"
    BY <1>17, <1>3 DEF Take, Goto, local
  <2>2. ~Alive(cnt, Null)
    BY DEF Alive
  <2> QED BY <2>1, <2>2 DEF OwnShape, Pushing
<1>18. CASE Unlink(t)
  <2>1. own[t] = {ptr[t].to} \ {Null} /\ ptr' = ptr /\ seen[t].to \in Entries
    BY <1>18, <1>1, AtHand DEF Unlink, OwnShape, WalkShape, local
  <2>2. /\ link[cur[t]] = seen[t] => own'[t] = own[t] \cup {seen[t].to} /\ pc'[t] = "release"
        /\ link[cur[t]] # seen[t] => own' = own /\ pc'[t] = "restore"
    BY <1>18, <1>3 DEF Unlink, Goto
  <2>3. CASE link[cur[t]] = seen[t]
    BY <2>1, <2>2, <2>3 DEF OwnShape, Pushing
  <2>4. CASE link[cur[t]] # seen[t]
    BY <2>1, <2>2, <2>4 DEF OwnShape, Pushing
  <2> QED BY <2>3, <2>4
<1>19. CASE Release(t)
  <2>1. own'[t] = own[t] \ (own[t] \ {ptr[t].to}) /\ ptr' = ptr
        /\ pc'[t] \in {"done", "swap"} /\ Null \notin own[t]
    BY <1>19, <1>3, Numbers DEF Release, Goto, local
  <2>2. {ptr[t].to} \ {Null} \subseteq own[t]
    BY <1>19, <1>1 DEF Release, OwnShape
  <2>3. own'[t] = {ptr[t].to} \ {Null}
    BY <2>1, <2>2
  <2> QED BY <2>1, <2>3 DEF OwnShape, Pushing
<1>20. CASE Swap(t)
  <2>1. own[t] = {ptr[t].to} \ {Null} /\ ptr' = ptr /\ link[first[t]].to \in Entries \cup {Null}
    BY <1>20, <1>1, AtHand DEF Swap, OwnShape, WalkShape, local, TypeInv, Links
  <2>2. own' = own \/ own'[t] = own[t] \cup ({link[first[t]].to} \ {Null})
    BY <1>20, <1>3 DEF Swap
  <2>3. pc'[t] = "release" /\ Head \in Entries
    BY <1>20, <1>3, Numbers DEF Swap, Goto
  <2>4. \E x \in Entries : own'[t] \subseteq {ptr[t].to, x}
    <3>1. CASE link[first[t]].to \in Entries
      BY <2>1, <2>2, <3>1
    <3>2. CASE link[first[t]].to \notin Entries
      BY <2>1, <2>2, <2>3, <3>2
    <3> QED BY <3>1, <3>2
  <2> QED BY <2>1, <2>2, <2>3, <2>4 DEF OwnShape, Pushing
<1>21. CASE Restore(t)
  <2>1. own' = own /\ ptr' = ptr /\ pc'[t] \in {"done", "restore"} /\ pc[t] = "restore"
    BY <1>21, <1>3 DEF Restore, Goto
  <2> QED BY <1>1, <2>1 DEF OwnShape, Pushing
<1>22. CASE Return(t)
  <2>1. own'[t] = {} /\ pc'[t] \in {"at", "drop"}
    BY <1>22, <1>3 DEF Return, Goto
  <2> QED BY <2>1 DEF OwnShape, Pushing
<1>23. CASE Collect(t)
  <2>1. own' = own /\ own[t] = {} /\ ptr'[t] \in Links
    BY <1>23, <1>1, <1>3, TypeStep DEF Collect, Load, OwnShape, TypeInv
  <2>2. pc'[t] \in {"idle", "at", "walk", "claim", "take", "drop", "done"}
    BY <1>23, <1>3 DEF Collect, Load, Goto
  <2> QED BY <2>1, <2>2 DEF OwnShape, Pushing
<1>24. CASE DropLink(t)
  <2>1. own' = own /\ own[t] = {} /\ ptr'[t] \in Links
    BY <1>24, <1>1, <1>3, TypeStep DEF DropLink, OwnShape, TypeInv
  <2>2. pc'[t] \in {"idle", "at", "walk", "claim", "take", "drop", "done"}
    BY <1>24, <1>3 DEF DropLink, Goto
  <2> QED BY <2>1, <2>2 DEF OwnShape, Pushing
<1> QED BY <1>4, <1>5, <1>6, <1>7, <1>8, <1>9, <1>10, <1>11, <1>12, <1>13,
           <1>14, <1>15, <1>16, <1>17, <1>18, <1>19, <1>20, <1>21, <1>22,
           <1>23, <1>24 DEF Step

\* Every step keeps what threads point to, by where they are.
LEMMA WalkShapeStep ==
  ASSUME ListInv, NEW t \in Threads, Step(t), NEW u \in Threads
  PROVE  WalkShape(u)'
<1>1. TypeInv /\ TypeInv' /\ WalkShape(t) /\ WalkShape(u)
  BY TypeStep DEF ListInv
<1>2. \A e \in Entries : Deleted(e) => Deleted(e)'
  BY DeletedStays
<1>3. \A v \in Threads : seen[v].to # Null => seen[v].to \in Entries
  BY AtHand
<1>4. CASE u # t
  <2>1. /\ pc'[u] = pc[u] /\ cur'[u] = cur[u] /\ seen'[u] = seen[u]
        /\ ptr'[u] = ptr[u] /\ state'[u] = state[u] /\ first'[u] = first[u] /\ last'[u] = last[u]
    BY <1>1, <1>4, Others
  <2>2. seen[u].to # Null /\ Deleted(seen[u].to) => seen'[u].to # Null /\ Deleted(seen[u].to)'
    <3>1. PICK s : s = seen[u].to
      OBVIOUS
    <3>2. seen'[u].to = s
      BY <2>1, <3>1
    <3>3. s # Null /\ Deleted(s) => Deleted(s)'
      BY <1>2, <1>3, <3>1
    <3> QED BY <3>1, <3>2, <3>3 DEF Deleted
  <2> QED BY <1>1, <2>1, <2>2 DEF WalkShape
<1> SUFFICES ASSUME u = t PROVE WalkShape(t)'
  BY <1>4
<1>5. /\ pc \in [Threads -> PCs] /\ cur \in [Threads -> Addresses]
      /\ seen \in [Threads -> Links] /\ ptr \in [Threads -> Links]
      /\ state \in [Threads -> Links] /\ first \in [Threads -> Addresses]
      /\ last \in [Threads -> Addresses] /\ NoLink.to = Null
  BY <1>1 DEF TypeInv, NoLink
<1>6. Head # Null /\ Null \notin Entries
  BY Numbers
<1>7. CASE Enter(t)
  <2>1. pc'[t] = "at" /\ cur'[t] = Head /\ pc[t] = "idle"
        /\ UNCHANGED <<seen, ptr, state, first, last>>
    BY <1>7, <1>5 DEF Enter, Goto, local
  <2> QED BY <1>1, <1>6, <2>1 DEF WalkShape
<1>8. CASE Leave(t)
  <2>1. pc'[t] = "idle" /\ cur'[t] = Null /\ pc[t] = "at"
        /\ UNCHANGED <<seen, ptr, state, first, last>>
    BY <1>8, <1>5 DEF Leave, Goto, local
  <2> QED BY <1>1, <1>6, <2>1 DEF WalkShape
<1>9. CASE Mark(t)
  <2>1. pc' = pc /\ UNCHANGED <<cur, seen, ptr, state, first, last>> /\ pc[t] = "at"
    BY <1>9 DEF Mark, SetTag, local
  <2> QED BY <1>1, <2>1 DEF WalkShape
<1>10. CASE Unmark(t)
  <2>1. pc' = pc /\ UNCHANGED <<cur, seen, ptr, state, first, last>> /\ pc[t] = "at"
    BY <1>10 DEF Unmark, SetTag, local
  <2> QED BY <1>1, <2>1 DEF WalkShape
<1>11. CASE DeleteSelf(t)
  <2>1. pc' = pc /\ UNCHANGED <<cur, seen, ptr, state, first, last>> /\ pc[t] = "at"
    BY <1>11 DEF DeleteSelf, SetTag, local
  <2> QED BY <1>1, <2>1 DEF WalkShape
<1>12. CASE Push(t)
  <2>1. pc'[t] = "push" /\ cur' = cur /\ pc[t] = "at"
    BY <1>12, <1>5 DEF Push, Goto
  <2> QED BY <1>1, <2>1 DEF WalkShape
<1>13. CASE PushLink(t)
  <2>1. pc'[t] = "push_cas" /\ cur' = cur /\ pc[t] = "push"
        /\ seen' = seen /\ seen[t].tag \notin {"Second", "Both"}
    BY <1>13, <1>5 DEF PushLink, Goto, local
  <2> QED BY <1>1, <2>1 DEF WalkShape
<1>14. CASE PushCas(t)
  <2>1. /\ pc[t] = "push_cas" /\ cur' = cur
        /\ \/ pc'[t] = "push"
           \/ pc'[t] = "at" /\ Forget(t)
    BY <1>14, <1>5 DEF PushCas, Goto
  <2> QED BY <1>1, <1>5, <2>1 DEF WalkShape, Forget
<1>15. CASE PushFail(t)
  <2>1. pc[t] = "push" /\ cur' = cur /\ pc'[t] = "at" /\ Forget(t)
    BY <1>15, <1>5 DEF PushFail, Goto
  <2> QED BY <1>1, <1>5, <2>1 DEF WalkShape, Forget
<1>16. CASE NextPtr(t)
  <2>1. /\ pc[t] = "at" /\ pc'[t] = "walk" /\ cur'[t] = cur[t]
        /\ seen'[t] = link[cur[t]] /\ ptr'[t] = link[cur[t]]
    BY <1>16, <1>5 DEF NextPtr, Load, Goto
  <2> QED BY <1>1, <2>1 DEF WalkShape
<1>17. CASE WalkEnds(t)
  <2>1. /\ pc[t] = "walk" /\ UNCHANGED <<cur, seen, ptr, state, first, last>>
        /\ ptr[t].to # Null => ~Deleted(ptr[t].to)
        /\ pc'[t] = IF seen[t].tag # "Both" /\ seen[t] # ptr[t] THEN "take" ELSE "done"
    BY <1>17, <1>5 DEF WalkEnds, Goto, local
  <2>2. seen[t] = ptr[t] \/ (seen[t].to # Null /\ Deleted(seen[t].to))
    BY <1>1, <2>1 DEF WalkShape
  <2>3. seen[t] # ptr[t] => seen[t].to # Null /\ seen[t].to # ptr[t].to
    BY <2>1, <2>2
  <2> QED BY <1>1, <2>1, <2>3 DEF WalkShape
<1>18. CASE Walk(t)
  <2>1. seen[t].to # Null /\ Deleted(seen[t].to) => seen'[t].to # Null /\ Deleted(seen[t].to)'
    <3>1. PICK s : s = seen[t].to
      OBVIOUS
    <3>2. seen'[t].to = s
      BY <1>18, <3>1 DEF Walk, Claim
    <3>3. s # Null /\ Deleted(s) => Deleted(s)'
      BY <1>2, <1>3, <3>1
    <3> QED BY <3>1, <3>2, <3>3 DEF Deleted
  <2>2. seen[t].to # Null /\ Deleted(seen[t].to) /\ ptr[t].to # Null
    BY <1>18, <1>1 DEF Walk, WalkShape
  <2>3. /\ cur' = cur /\ seen' = seen /\ pc[t] = "walk"
        /\ pc'[t] = "walk" \/ (pc'[t] = "claim" /\ ptr' = ptr)
    BY <1>18, <1>5 DEF Walk, Goto
  <2> QED BY <1>1, <2>1, <2>2, <2>3 DEF WalkShape
<1>19. CASE Claim(t)
  <2>1. seen[t].to # Null /\ Deleted(seen[t].to) => seen'[t].to # Null /\ Deleted(seen[t].to)'
    <3>1. PICK s : s = seen[t].to
      OBVIOUS
    <3>2. seen'[t].to = s
      BY <1>19, <3>1 DEF Walk, Claim
    <3>3. s # Null /\ Deleted(s) => Deleted(s)'
      BY <1>2, <1>3, <3>1
    <3> QED BY <3>1, <3>2, <3>3 DEF Deleted
  <2>2. seen[t].to # Null /\ Deleted(seen[t].to)
    BY <1>19, <1>1 DEF Claim, WalkShape
  <2>3. cur' = cur /\ seen' = seen /\ pc[t] = "claim" /\ pc'[t] = "walk"
    BY <1>19, <1>5 DEF Claim, Goto
  <2> QED BY <1>1, <2>1, <2>2, <2>3 DEF WalkShape
<1>20. CASE Take(t)
  <2>1. /\ pc[t] = "take" /\ UNCHANGED <<cur, seen, ptr, state, first, last>>
        /\ pc'[t] \in {"restore", "cas"}
    BY <1>20, <1>5 DEF Take, Goto, local
  <2> QED BY <1>1, <2>1 DEF WalkShape
<1>21. CASE Unlink(t)
  <2>1. /\ pc[t] = "cas" /\ UNCHANGED <<cur, seen, ptr, state, first, last>>
        /\ pc'[t] \in {"restore", "release"}
    BY <1>21, <1>5 DEF Unlink, Goto, local
  <2> QED BY <1>1, <2>1 DEF WalkShape
<1>22. CASE Release(t)
  <2>1. /\ pc[t] = "release" /\ UNCHANGED <<cur, seen, ptr, state, first, last>>
        /\ pc'[t] = IF first[t] = Null THEN "done" ELSE "swap"
    BY <1>22, <1>5 DEF Release, Goto, local
  <2> QED BY <1>1, <2>1 DEF WalkShape
<1>23. CASE Swap(t)
  <2>1. pc[t] = "swap" /\ cur' = cur /\ pc'[t] = "release"
    BY <1>23, <1>5 DEF Swap, Goto
  <2> QED BY <1>1, <2>1 DEF WalkShape
<1>24. CASE Restore(t)
  <2>1. pc[t] = "restore" /\ cur' = cur /\ pc'[t] \in {"restore", "done"}
    BY <1>24, <1>5 DEF Restore, Goto
  <2> QED BY <1>1, <2>1 DEF WalkShape
<1>25. CASE Return(t)
  <2>1. /\ pc[t] = "done" /\ pc'[t] \in {"at", "drop"} /\ Forget(t)
        /\ cur'[t] = cur[t] \/ (cur'[t] = ptr[t].to /\ ptr[t].to # Null)
    BY <1>25, <1>5 DEF Return, Goto
  <2>2. /\ seen'[t].to = Null /\ ptr'[t].to = Null /\ state'[t].to = Null
        /\ first'[t] = Null /\ last'[t] = Null
    BY <1>5, <2>1 DEF Forget
  <2> QED BY <1>1, <2>1, <2>2 DEF WalkShape
<1>26. CASE Collect(t)
  <2>1. PICK e \in Entries :
          /\ pc[t] = "idle"
          /\ Load(t, e) \/ UNCHANGED <<pc, cur, seen, ptr, state, first, last>>
    BY <1>26 DEF Collect, local
  <2>2. CASE Load(t, e)
    <3>1. pc'[t] = "walk" /\ cur'[t] = e /\ seen'[t] = link[e] /\ ptr'[t] = link[e]
      BY <1>5, <2>2 DEF Load, Goto
    <3> QED BY <1>6, <3>1 DEF WalkShape
  <2>3. CASE UNCHANGED <<pc, cur, seen, ptr, state, first, last>>
    BY <1>1, <2>1, <2>3 DEF WalkShape
  <2> QED BY <2>1, <2>2, <2>3
<1>27. CASE DropLink(t)
  <2>1. pc'[t] = "idle" /\ cur'[t] = Null /\ pc[t] = "drop"
        /\ UNCHANGED <<seen, ptr, state, first, last>>
    BY <1>27, <1>5 DEF DropLink, Goto, local
  <2> QED BY <1>1, <1>6, <2>1 DEF WalkShape
<1> QED BY <1>7, <1>8, <1>9, <1>10, <1>11, <1>12, <1>13, <1>14, <1>15, <1>16,
           <1>17, <1>18, <1>19, <1>20, <1>21, <1>22, <1>23, <1>24, <1>25,
           <1>26, <1>27 DEF Step

\* A drop goes on until it is done.
LEMMA DropGoesOn ==
  ASSUME ListInv, NEW t \in Threads, Step(t), cur[t] \in freed,
         pc[t] \notin {"idle", "at", "push", "push_cas"}, ~DropLink(t)
  PROVE  cur'[t] = cur[t] /\ pc'[t] \notin {"at", "push", "push_cas"}
<1>1. /\ pc \in [Threads -> PCs] /\ cur \in [Threads -> Addresses]
  BY Facts DEF TypeInv
<1> USE DEF Goto, local
<1>2. CASE Enter(t)
  BY <1>2, <1>1 DEF Enter, Goto
<1>3. CASE Leave(t)
  BY <1>3, <1>1 DEF Leave, Goto
<1>4. CASE Mark(t)
  BY <1>4, <1>1 DEF Mark, SetTag
<1>5. CASE Unmark(t)
  BY <1>5, <1>1 DEF Unmark, SetTag
<1>6. CASE DeleteSelf(t)
  BY <1>6, <1>1 DEF DeleteSelf, SetTag
<1>7. CASE Push(t)
  BY <1>7, <1>1 DEF Push, Goto, Count
<1>8. CASE PushLink(t)
  BY <1>8, <1>1 DEF PushLink, Goto, Count
<1>9. CASE PushCas(t)
  BY <1>9, <1>1 DEF PushCas, Goto, Count, Forget
<1>10. CASE PushFail(t)
  BY <1>10, <1>1 DEF PushFail, Goto, Count, Forget
<1>11. CASE NextPtr(t)
  BY <1>11, <1>1 DEF NextPtr, Load, Goto
<1>12. CASE WalkEnds(t)
  BY <1>12, <1>1 DEF WalkEnds, Goto
<1>13. CASE Walk(t)
  BY <1>13, <1>1 DEF Walk, Goto
<1>14. CASE Claim(t)
  BY <1>14, <1>1 DEF Claim, Goto
<1>15. CASE Take(t)
  BY <1>15, <1>1 DEF Take, Goto, Count
<1>16. CASE Unlink(t)
  BY <1>16, <1>1 DEF Unlink, Goto, Count
<1>17. CASE Release(t)
  BY <1>17, <1>1 DEF Release, Goto, Count
<1>18. CASE Swap(t)
  BY <1>18, <1>1 DEF Swap, Goto, Count
<1>19. CASE Restore(t)
  BY <1>19, <1>1 DEF Restore, Goto
<1>20. CASE Return(t)
  BY <1>20, <1>1 DEF Return, Goto, Count, Forget
<1>21. CASE Collect(t)
  BY <1>21, <1>1 DEF Collect, Load, Goto
<1>22. CASE DropLink(t)
  BY <1>22, <1>1 DEF DropLink, Goto
<1> QED BY <1>2, <1>3, <1>4, <1>5, <1>6, <1>7, <1>8, <1>9, <1>10, <1>11, <1>12,
           <1>13, <1>14, <1>15, <1>16, <1>17, <1>18, <1>19, <1>20, <1>21,
           <1>22 DEF Step

\* Every step keeps what threads have in their hands owned or guarded.
LEMMA KeptStep ==
  ASSUME ListInv, NEW t \in Threads, Step(t), NEW u \in Threads
  PROVE  Kept(u)'
<1>1. /\ TypeInv /\ CountsExact /\ FreedInv /\ TypeInv' /\ CountsExact' /\ AllocInv'
      /\ OwnShape(u) /\ WalkShape(u) /\ Kept(u)
  BY TypeStep, CountStep, AllocStep DEF ListInv, CountedStep
<1>2. freed \subseteq freed'
  BY FreedStep
<1>3. pc[u] = "idle" => Held(u) = {}
  BY <1>1 DEF OwnShape, WalkShape, Held, Pointers
<1>4. \A e \in Held(u) : e \in 1 .. alloc
  BY Facts
<1>5. CASE u # t
  <2>1. /\ pc'[u] = pc[u] /\ cur'[u] = cur[u] /\ Held(u)' = Held(u)
    BY <1>1, <1>5, Others DEF Held, Pointers
  <2> SUFFICES ASSUME NEW e \in Held(u)
               PROVE  \/ cnt'[e] # 0 \/ u \in pins'[e]
                      \/ e = cur[u] /\ e \in freed' /\ pc[u] \notin {"at", "push", "push_cas"}
    BY <2>1 DEF Kept
  <2>2. \/ cnt[e] # 0 \/ u \in pins[e]
        \/ e = cur[u] /\ e \in freed /\ pc[u] \notin {"at", "push", "push_cas"}
    BY <1>1 DEF Kept
  <2>3. pc[u] # "idle" /\ e \in 1 .. alloc
    BY <1>3, <1>4
  <2>4. cnt[e] # 0 \/ u \in pins[e] => cnt'[e] # 0 \/ u \in pins'[e]
    BY <1>5, <2>3, PinStep
  <2> QED BY <1>2, <2>2, <2>4
<1>6. CASE u = t
  <2> SUFFICES ASSUME NEW e \in Held(t)'
               PROVE  \/ cnt'[e] # 0 \/ t \in pins'[e]
                      \/ e = cur'[t] /\ e \in freed' /\ pc'[t] \notin {"at", "push", "push_cas"}
    BY <1>6 DEF Kept
  <2>1. ASSUME Leave(t) \/ DropLink(t) PROVE FALSE
    <3>1. pc[t] \in {"at", "drop"}
      BY <2>1 DEF Leave, DropLink
    <3>2. /\ own[t] = {} /\ seen[t].to = Null /\ ptr[t].to = Null /\ state[t].to = Null
          /\ first[t] = Null /\ last[t] = Null
      BY <1>1, <1>6, <3>1 DEF OwnShape, WalkShape
    <3>3. own' = own /\ UNCHANGED <<seen, ptr, state, first, last>> /\ cur'[t] = Null
      BY <1>1, <2>1 DEF Leave, DropLink, local, TypeInv
    <3> QED BY <3>2, <3>3 DEF Held, Pointers
  <2>2. pc[t] = "idle" => cnt' = cnt
    BY DEF Step, Enter, Leave, Mark, Unmark, DeleteSelf, Push, PushLink,
          PushCas, PushFail, NextPtr, WalkEnds, Walk, Claim, Take, Unlink,
          Release, Swap, Restore, Return, Collect, DropLink, SetTag, Load,
          Count
  <2>3. ASSUME e \in 1 .. alloc, cnt[e] # 0 PROVE cnt'[e] # 0 \/ t \in pins'[e]
    BY <2>1, <2>2, <2>3, PinStep
  <2>4. CASE e \in Held(t)
    <3>1. pc[t] # "idle" /\ e \in 1 .. alloc
      BY <1>3, <1>4, <1>6, <2>4
    <3>2. \/ cnt[e] # 0 \/ t \in pins[e]
          \/ e = cur[t] /\ e \in freed /\ pc[t] \notin {"at", "push", "push_cas"}
      BY <1>1, <1>6, <2>4 DEF Kept
    <3>3. cnt[e] # 0 \/ t \in pins[e] => cnt'[e] # 0 \/ t \in pins'[e]
      BY <2>1, <3>1, PinStep
    <3>4. e = cur[t] /\ e \in freed /\ pc[t] \notin {"at", "push", "push_cas"}
          => e = cur'[t] /\ e \in freed' /\ pc'[t] \notin {"at", "push", "push_cas"}
      BY <1>2, <2>1, <3>1, DropGoesOn
    <3> QED BY <3>2, <3>3, <3>4
  <2>5. CASE e \in Targets \cup {Head}
    <3>1. e # Null
      BY DEF Held
    <3>2. e \in 1 .. alloc
      <4>1. Head \in 1 .. alloc /\ \A x \in 1 .. alloc : x \in Entries
        BY <1>1, Exact, Numbers DEF TypeInv
      <4> QED BY <2>5, <3>1, <4>1, Facts DEF Targets
    <3>3. cnt[e] # 0
      BY <1>1, <2>5, <3>2, CountFacts DEF Targets
    <3> QED BY <2>3, <3>2, <3>3
  <2>6. CASE Push(t) /\ e = Fresh
    <3>1. cnt'[e] = 1
      BY <1>1, <2>6 DEF Push, Count, NewShared, TypeInv, Fresh
    <3> QED BY <3>1
  <2>7. CASE e = cur'[t] /\ e \in freed' /\ pc'[t] = "walk"
    BY <2>7
  <2> QED BY <2>4, <2>5, <2>6, <2>7, HeldStep
<1> QED BY <1>5, <1>6

\* Every step keeps the invariant.
LEMMA NextListInv ==
  ListInv /\ [Next]_vars => ListInv'
<1>1. ASSUME ListInv, NEW t \in Threads, Step(t) PROVE ListInv'
  BY <1>1, TypeStep, AllocStep, CountStep, FreedStep, OwnShapeStep, WalkShapeStep, PrivateStep,
     KeptStep DEF ListInv, CountedStep
<1>2. Next <=> \E t \in Threads : Step(t)
  BY DEF Next, Step
<1>3. ASSUME ListInv, UNCHANGED vars PROVE ListInv'
  BY <1>3 DEF ListInv, vars, TypeInv, AllocInv, CountsExact, FreedInv, OwnShape, WalkShape,
     Private, Kept, Held, Pointers, Owners, Deleted
<1> QED BY <1>1, <1>2, <1>3

\* The invariant, at first.
LEMMA InitListInv == Init => ListInv
<1> SUFFICES ASSUME Init PROVE ListInv
  OBVIOUS
<1>1. /\ Initial \in Nat /\ 1 <= Initial /\ Initial <= MaxEntries /\ MaxEntries \in Nat
      /\ alloc = Initial
  BY ListAssumption DEF Init
<1>2. \A e \in Entries : /\ link[e].tag = "None"
                         /\ link[e].to = (IF e < Initial THEN e + 1 ELSE Null)
  BY DEF Init
<1>3. /\ \A t \in Threads : /\ cur[t] = Null /\ seen[t] = NoLink /\ ptr[t] = NoLink
                            /\ state[t] = NoLink /\ first[t] = Null /\ last[t] = Null
                            /\ own[t] = {} /\ pc[t] = "idle"
  BY DEF Init
<1>4. NoLink.to = Null /\ NoLink \in Links /\ Null \in Addresses
  BY DEF NoLink, Links, Tags, Addresses
<1>5. TypeInv
  <2>1. link \in [Entries -> Links]
    BY <1>1, Numbers DEF Init, Links, Tags, Entries
  <2>2. cnt \in [Entries -> Nat] /\ alloc \in Entries
    BY <1>1, Numbers DEF Init, NewShared
  <2> QED BY <1>4, <2>1, <2>2 DEF Init, TypeInv, PCs
<1>6. \A t \in Threads : Held(t) = {}
  BY <1>3, <1>4 DEF Held, Pointers
<1>7. AllocInv
  BY <1>1, <1>2, <1>6, Numbers DEF AllocInv
<1>8. CountsExact
  <2> SUFFICES ASSUME NEW e \in 1 .. alloc PROVE Agree(cnt[e], Owners(e))
    BY <1>5, Exact
  <2>1. e \in Entries /\ e # Null /\ e \in Nat /\ 1 <= e /\ e <= Initial
    BY <1>1, Numbers
  <2>2. Holding(e) = {}
    BY <1>3 DEF Holding
  <2>3. cnt[e] = 1
    BY <2>1 DEF Init, NewShared
  <2>4. Linking(e) = IF e = Head THEN {} ELSE {e - 1}
    <3>1. \A x \in 1 .. alloc : x \in Entries
      BY <1>5, Exact
    <3>2. ASSUME NEW x \in 1 .. alloc
          PROVE  link[x].to = e <=> x = e - 1
      BY <1>1, <1>2, <2>1, <3>1, <3>2, Numbers
    <3>3. e # Head => e - 1 \in 1 .. alloc
      BY <1>1, <2>1, Numbers
    <3>4. e = Head => e - 1 \notin 1 .. alloc
      BY Numbers
    <3> QED BY <3>2, <3>3, <3>4 DEF Linking
  <2>5. Cardinality({}) = 0 /\ Cardinality({e - 1}) = 1
    BY FS_EmptySet, FS_Singleton
  <2>6. Owners(e) = Cardinality(Linking(e)) + Cardinality(Holding(e)) + Root(e)
    BY <1>5, OwnersFacts
  <2>7. Owners(e) = 1
    BY <2>2, <2>4, <2>5, <2>6 DEF Root
  <2> QED BY <2>3, <2>7 DEF Agree
<1>9. FreedInv
  BY DEF Init, FreedInv
<1>10. ASSUME NEW t \in Threads PROVE OwnShape(t) /\ WalkShape(t) /\ Private(t) /\ Kept(t)
  BY <1>3, <1>4, <1>6 DEF OwnShape, WalkShape, Private, Kept, Pushing
<1> QED BY <1>5, <1>7, <1>8, <1>9, <1>10 DEF ListInv

-----------------------------------------------------------------------------
(* Reachability along the links                                             *)

\* A nonempty set of natural numbers has a least element: the induction of the
\* proofs below.
LEMMA LeastNumber ==
  ASSUME NEW T \in SUBSET Nat, T # {}
  PROVE  \E x \in T : \A y \in T : x <= y
<1> DEFINE Less == {p \in Nat \X Nat : p[1] < p[2]}
<1>1. OpToRel(<, Nat) = Less
  BY Zenon DEF OpToRel
<1>2. IsWellFoundedOn(Less, Nat)
  BY <1>1, NatLessThanWellFounded, Zenon
<1>3. \A x, y \in Nat : <<y, x>> \in Less <=> y < x
  OBVIOUS
<1> HIDE DEF Less
<1>4. PICK x \in T : \A y \in T : <<y, x>> \notin Less
  BY <1>2, WFMin
<1>5. ASSUME NEW y \in T PROVE x <= y
  <2>1. x \in Nat /\ y \in Nat /\ ~ (y < x)
    BY <1>3, <1>4
  <2> QED BY <2>1
<1> QED BY <1>5

\* A set of natural numbers with 0 and the successor of each of its numbers contains all.
LEMMA Induction ==
  ASSUME NEW T, 0 \in T, \A n \in Nat : n \in T => n + 1 \in T
  PROVE  Nat \subseteq T
<1> DEFINE B == Nat \ T
<1>1. SUFFICES ASSUME B # {} PROVE FALSE
  OBVIOUS
<1>2. PICK x \in B : \A y \in B : x <= y
  BY <1>1, LeastNumber
<1>3. x - 1 \in Nat /\ x - 1 \notin B
  BY <1>2
<1>4. (x - 1) + 1 \in T
  BY <1>3
<1> QED BY <1>4

\* The recursive functions of Behind and Run: the entries that are at most n links behind
\* an entry a, on a path that ends at the entries X.
Onward(lk, X, S) == S \cup {lk[x].to : x \in S \ X}
PathFcn(lk, X, a) ==
  CHOOSE R : R = [n \in 0 .. MaxEntries |->
                    IF n = 0 THEN {a} ELSE R[n - 1] \cup {lk[x].to : x \in R[n - 1] \ X}]

Closed(lk, X, K) == \A z \in K \ X : lk[z].to \in K

\* The least set of entries that has a and is closed under the links.
Reach(lk, X, a) ==
  {x \in Addresses : \A K \in SUBSET Addresses : a \in K /\ Closed(lk, X, K) => x \in K}

PathType(lk, X, a) == lk \in [Entries -> Links] /\ Null \in X /\ a \in Addresses

\* The entries that the links of a set of entries lead to.
LEMMA OnwardFacts ==
  ASSUME NEW lk, NEW X, NEW a, PathType(lk, X, a), NEW S \in SUBSET Addresses
  PROVE  /\ S \subseteq Onward(lk, X, S) /\ Onward(lk, X, S) \in SUBSET Addresses
         /\ \A T \in SUBSET Addresses : S \subseteq T => Onward(lk, X, S) \subseteq Onward(lk, X, T)
         /\ \A z \in S \ X : lk[z].to \in Onward(lk, X, S)
         /\ Closed(lk, X, S) => Onward(lk, X, S) = S
         /\ Onward(lk, X, S) = S => Closed(lk, X, S)
<1>1. \A z \in S \ X : z \in Entries /\ lk[z].to \in Addresses
  BY Numbers DEF PathType, Links, Addresses
<1> QED BY <1>1 DEF Onward, Closed

\* The recursive definition has a solution: the least sequence of sets that has what the
\* definition puts into each of them.
LEMMA PathEquation ==
  ASSUME NEW lk, NEW X, NEW a, PathType(lk, X, a)
  PROVE  PathFcn(lk, X, a) =
           [n \in 0 .. MaxEntries |->
              IF n = 0 THEN {a}
              ELSE PathFcn(lk, X, a)[n - 1] \cup {lk[x].to : x \in PathFcn(lk, X, a)[n - 1] \ X}]
<1> DEFINE I == 0 .. MaxEntries
           Full(F) == /\ F \in [I -> SUBSET Addresses] /\ a \in F[0]
                      /\ \A n \in I : n # 0 => Onward(lk, X, F[n - 1]) \subseteq F[n]
           L == [n \in I |-> {x \in Addresses : \A F \in [I -> SUBSET Addresses] : Full(F) => x \in F[n]}]
           G == [n \in I |-> IF n = 0 THEN {a} ELSE Onward(lk, X, L[n - 1])]
<1>0. 0 \in I /\ \A n \in I : n # 0 => n - 1 \in I
  BY Numbers
<1>1. L \in [I -> SUBSET Addresses]
  OBVIOUS
<1>2. ASSUME NEW F, Full(F), NEW n \in I PROVE L[n] \subseteq F[n]
  BY <1>2
<1>3. ASSUME NEW n \in I PROVE G[n] \subseteq L[n]
  <2>1. CASE n = 0
    BY <2>1 DEF PathType
  <2>2. CASE n # 0
    <3>1. n - 1 \in I /\ L[n - 1] \in SUBSET Addresses
      BY <1>0, <1>1, <2>2
    <3>2. ASSUME NEW F \in [I -> SUBSET Addresses], Full(F) PROVE Onward(lk, X, L[n - 1]) \subseteq F[n]
      <4>1. L[n - 1] \subseteq F[n - 1]
        BY <1>2, <3>1, <3>2
      <4>2. F[n - 1] \in SUBSET Addresses
        BY <3>1
      <4>3. Onward(lk, X, L[n - 1]) \subseteq Onward(lk, X, F[n - 1])
        <5> HIDE DEF L
        <5> QED BY <3>1, <4>1, <4>2, OnwardFacts
      <4>4. Onward(lk, X, F[n - 1]) \subseteq F[n]
        BY <2>2, <3>2
      <4> QED BY <4>3, <4>4
    <3>3. Onward(lk, X, L[n - 1]) \in SUBSET Addresses
      BY <3>1, OnwardFacts
    <3>4. G[n] = Onward(lk, X, L[n - 1])
      BY <2>2
    <3>5. ASSUME NEW x \in Onward(lk, X, L[n - 1]) PROVE x \in L[n]
      BY <3>2, <3>3
    <3> QED BY <3>4, <3>5
  <2> QED BY <2>1, <2>2
<1>4. Full(G)
  <2>1. G \in [I -> SUBSET Addresses]
    <3>1. ASSUME NEW n \in I PROVE G[n] \in SUBSET Addresses
      BY <1>3
    <3> QED BY <3>1
  <2>2. a \in G[0]
    BY <1>0
  <2>3. ASSUME NEW n \in I, n # 0 PROVE Onward(lk, X, G[n - 1]) \subseteq G[n]
    <3>1. n - 1 \in I
      BY <1>0, <2>3
    <3>2. G[n - 1] \subseteq L[n - 1]
      BY <1>3, <3>1
    <3>3. L[n - 1] \in SUBSET Addresses /\ G[n - 1] \in SUBSET Addresses
      BY <1>1, <2>1, <3>1
    <3>4. G[n] = Onward(lk, X, L[n - 1])
      BY <2>3
    <3> HIDE DEF G, L
    <3> QED BY <3>2, <3>3, <3>4, OnwardFacts
  <2> QED BY <2>1, <2>2, <2>3
<1>5. L = G
  <2>1. ASSUME NEW n \in I PROVE L[n] = G[n]
    BY <1>2, <1>3, <1>4
  <2> QED BY <2>1
<1>6. L = [n \in I |-> IF n = 0 THEN {a} ELSE L[n - 1] \cup {lk[x].to : x \in L[n - 1] \ X}]
  BY <1>5 DEF Onward
<1> HIDE DEF L, G
<1>7. \E R : R = [n \in I |-> IF n = 0 THEN {a} ELSE R[n - 1] \cup {lk[x].to : x \in R[n - 1] \ X}]
  BY <1>6
<1> QED BY <1>7, Zenon DEF PathFcn

\* The path after at most n links, for each n.
LEMMA PathUnfolds ==
  ASSUME NEW lk, NEW X, NEW a, PathType(lk, X, a)
  PROVE  LET R == PathFcn(lk, X, a) IN
         /\ R[0] = {a}
         /\ \A n \in 0 .. MaxEntries : n # 0 => R[n] = Onward(lk, X, R[n - 1])
<1> DEFINE R == PathFcn(lk, X, a)
<1>1. R = [n \in 0 .. MaxEntries |-> IF n = 0 THEN {a} ELSE R[n - 1] \cup {lk[x].to : x \in R[n - 1] \ X}]
  BY PathEquation
<1> HIDE DEF R
<1>2. R[0] = {a}
  BY <1>1, Numbers
<1>3. \A n \in 0 .. MaxEntries : n # 0 => R[n] = Onward(lk, X, R[n - 1])
  BY <1>1 DEF Onward
<1> QED BY <1>2, <1>3 DEF R

\* A path is complete after as many links as there are entries.
LEMMA PathIsReach ==
  ASSUME NEW lk, NEW X, NEW a, PathType(lk, X, a)
  PROVE  PathFcn(lk, X, a)[MaxEntries] = Reach(lk, X, a)
<1> DEFINE R == PathFcn(lk, X, a)
           T == {n \in Nat : n <= MaxEntries =>
                   /\ R[n] \in SUBSET Addresses /\ a \in R[n]
                   /\ R[n] \subseteq Reach(lk, X, a)
                   /\ Closed(lk, X, R[n]) \/ Cardinality(R[n]) >= n + 1}
<1>1. R[0] = {a} /\ \A n \in 0 .. MaxEntries : n # 0 => R[n] = Onward(lk, X, R[n - 1])
  BY PathUnfolds
<1> HIDE DEF R
<1>2. IsFiniteSet(Addresses) /\ Cardinality(Addresses) = MaxEntries + 1
  <2>1. Addresses = 0 .. MaxEntries
    BY Numbers DEF Addresses
  <2> QED BY <2>1, Numbers, FS_Interval
<1>3. 0 \in T
  <2>1. a \in Addresses /\ a \in Reach(lk, X, a) /\ Cardinality({a}) = 1
    BY FS_Singleton DEF PathType, Reach
  <2> QED BY <1>1, <2>1
<1>4. ASSUME NEW n \in Nat, n \in T PROVE n + 1 \in T
  <2>1. SUFFICES ASSUME n + 1 <= MaxEntries
                 PROVE  /\ R[n + 1] \in SUBSET Addresses /\ a \in R[n + 1]
                        /\ R[n + 1] \subseteq Reach(lk, X, a)
                        /\ Closed(lk, X, R[n + 1]) \/ Cardinality(R[n + 1]) >= (n + 1) + 1
    OBVIOUS
  <2>2. /\ R[n] \in SUBSET Addresses /\ a \in R[n] /\ R[n] \subseteq Reach(lk, X, a)
        /\ Closed(lk, X, R[n]) \/ Cardinality(R[n]) >= n + 1
    BY <1>4, <2>1, Numbers
  <2>3. R[n + 1] = Onward(lk, X, R[n])
    BY <1>1, <2>1, Numbers
  <2>4. R[n] \subseteq R[n + 1] /\ R[n + 1] \in SUBSET Addresses
    BY <2>2, <2>3, OnwardFacts
  <2>5. R[n + 1] \subseteq Reach(lk, X, a)
    <3>1. ASSUME NEW x \in R[n + 1] PROVE x \in Reach(lk, X, a)
      <4>1. x \in Addresses
        BY <2>4
      <4>2. ASSUME NEW K \in SUBSET Addresses, a \in K, Closed(lk, X, K) PROVE x \in K
        <5>1. R[n] \subseteq K
          BY <2>2, <4>2 DEF Reach
        <5>2. Onward(lk, X, R[n]) \subseteq Onward(lk, X, K) /\ Onward(lk, X, K) = K
          BY <2>2, <4>2, <5>1, OnwardFacts
        <5> QED BY <2>3, <5>2
      <4> QED BY <4>1, <4>2 DEF Reach
    <3> QED BY <3>1
  <2>6. CASE Closed(lk, X, R[n])
    <3>1. R[n + 1] = R[n]
      BY <2>2, <2>3, <2>6, OnwardFacts
    <3> QED BY <2>2, <2>4, <2>5, <2>6, <3>1
  <2>7. CASE ~Closed(lk, X, R[n])
    <3>1. R[n + 1] # R[n] /\ Cardinality(R[n]) >= n + 1
      BY <2>2, <2>3, <2>7, OnwardFacts
    <3>2. IsFiniteSet(R[n + 1])
      BY <1>2, <2>4, FS_Subset
    <3>4. Cardinality(R[n]) \in Nat /\ Cardinality(R[n + 1]) \in Nat
      BY <2>4, <3>2, FS_Subset, FS_CardinalityType
    <3>5. /\ Cardinality(R[n]) <= Cardinality(R[n + 1])
          /\ Cardinality(R[n + 1]) # Cardinality(R[n])
      BY <2>4, <3>1, <3>2, FS_Subset
    <3>3. Cardinality(R[n]) < Cardinality(R[n + 1])
      BY <3>4, <3>5
    <3> QED BY <2>2, <2>4, <2>5, <3>1, <3>3, <3>4
  <2> QED BY <2>6, <2>7
<1>5. Nat \subseteq T
  <2> HIDE DEF T
  <2> QED BY <1>3, <1>4, Induction
<1>6. /\ R[MaxEntries] \in SUBSET Addresses /\ a \in R[MaxEntries]
      /\ R[MaxEntries] \subseteq Reach(lk, X, a)
      /\ Closed(lk, X, R[MaxEntries]) \/ Cardinality(R[MaxEntries]) >= MaxEntries + 1
  BY <1>5, Numbers
<1>7. Closed(lk, X, R[MaxEntries])
  <2>1. CASE Cardinality(R[MaxEntries]) >= MaxEntries + 1
    <3>1. Cardinality(R[MaxEntries]) \in Nat
      BY <1>2, <1>6, FS_Subset, FS_CardinalityType
    <3>5. Cardinality(R[MaxEntries]) <= Cardinality(Addresses)
      BY <1>2, <1>6, FS_Subset
    <3>2. Cardinality(Addresses) = Cardinality(R[MaxEntries])
      BY <1>2, <2>1, <3>1, <3>5, Numbers
    <3>3. R[MaxEntries] = Addresses
      BY <1>2, <1>6, <3>2, FS_Subset
    <3>4. Onward(lk, X, Addresses) = Addresses
      BY OnwardFacts
    <3> QED BY <3>3, <3>4, OnwardFacts
  <2> QED BY <1>6, <2>1
<1>8. Reach(lk, X, a) \subseteq R[MaxEntries]
  BY <1>6, <1>7 DEF Reach
<1> QED BY <1>6, <1>8 DEF R

\* What is reached is closed, and is in every closed set.
LEMMA ReachFacts ==
  ASSUME NEW lk, NEW X, NEW a, PathType(lk, X, a)
  PROVE  /\ a \in Reach(lk, X, a) /\ Reach(lk, X, a) \in SUBSET Addresses
         /\ Closed(lk, X, Reach(lk, X, a))
         /\ \A K : a \in K /\ Closed(lk, X, K) => Reach(lk, X, a) \subseteq K
<1>1. \A z \in Addresses \ X : z \in Entries /\ lk[z].to \in Addresses
  BY Numbers DEF PathType, Links, Addresses
<1>2. a \in Reach(lk, X, a) /\ Reach(lk, X, a) \in SUBSET Addresses
  BY DEF PathType, Reach
<1>3. ASSUME NEW z \in Reach(lk, X, a) \ X PROVE lk[z].to \in Reach(lk, X, a)
  <2>1. z \in Addresses \ X
    BY <1>2
  <2>2. ASSUME NEW K \in SUBSET Addresses, a \in K, Closed(lk, X, K) PROVE lk[z].to \in K
    <3>1. z \in K \ X
      BY <2>2 DEF Reach
    <3> QED BY <2>2, <3>1 DEF Closed
  <2> QED BY <1>1, <2>1, <2>2 DEF Reach
<1>4. ASSUME NEW K, a \in K, Closed(lk, X, K) PROVE Reach(lk, X, a) \subseteq K
  <2>1. K \cap Addresses \in SUBSET Addresses /\ a \in K \cap Addresses
    BY <1>4 DEF PathType
  <2>2. Closed(lk, X, K \cap Addresses)
    BY <1>1, <1>4 DEF Closed
  <2> QED BY <2>1, <2>2 DEF Reach
<1> QED BY <1>2, <1>3, <1>4 DEF Closed

Ends == {Null}
Ahead(lk, y) == Reach(lk, Ends, y)

\* Behind, From and Run, as sets closed under the links.
LEMMA PathsAreReach ==
  ASSUME TypeInv
  PROVE  /\ \A e \in Entries : Behind(e) = Ahead(link, link[e].to) \ {Null}
         /\ \A e \in Addresses : From(e) = Ahead(link, e) \ {Null}
         /\ \A t \in Threads : Run(t) = IF first[t] = Null THEN {} ELSE Reach(link, {Null, last[t]}, first[t])
<1>1. link \in [Entries -> Links] /\ \A e \in Entries : link[e].to \in Addresses
  BY DEF TypeInv, Links, Addresses
<1>2. ASSUME NEW e \in Entries PROVE Behind(e) = Ahead(link, link[e].to) \ {Null}
  <2>1. Behind(e) = PathFcn(link, {Null}, link[e].to)[MaxEntries] \ {Null}
    BY Zenon DEF Behind, PathFcn
  <2> QED BY <1>1, <2>1, PathIsReach DEF PathType, Ahead, Ends
<1>3. ASSUME NEW e \in Addresses PROVE From(e) = Ahead(link, e) \ {Null}
  <2>1. CASE e = Null
    <3>1. Closed(link, Ends, {Null})
      BY DEF Closed, Ends
    <3>2. Ahead(link, e) \subseteq {Null}
      BY <2>1, <3>1 DEF Ahead, Reach, Addresses
    <3> QED BY <2>1, <3>2 DEF From
  <2>2. CASE e # Null
    <3>1. e \in Entries
      BY <2>2 DEF Addresses
    <3>2. From(e) = {e} \cup (Ahead(link, link[e].to) \ {Null})
      BY <1>2, <2>2, <3>1 DEF From
    <3>3. Ahead(link, e) = {e} \cup Ahead(link, link[e].to)
      <4>1. {e} \cup Ahead(link, link[e].to) \in SUBSET Addresses
        BY DEF Ahead, Reach
      <4>2. link[e].to \in Ahead(link, link[e].to) /\ Closed(link, Ends, Ahead(link, link[e].to))
        BY <1>1, <3>1, ReachFacts DEF Ahead, PathType, Ends
      <4>3. Closed(link, Ends, {e} \cup Ahead(link, link[e].to))
        BY <4>2 DEF Closed
      <4>4. Ahead(link, e) \subseteq {e} \cup Ahead(link, link[e].to)
        BY <4>1, <4>3 DEF Ahead, Reach
      <4>5. ASSUME NEW K \in SUBSET Addresses, e \in K, Closed(link, Ends, K)
            PROVE  {e} \cup Ahead(link, link[e].to) \subseteq K
        <5>1. link[e].to \in K
          BY <2>2, <4>5 DEF Closed, Ends
        <5> QED BY <4>5, <5>1 DEF Ahead, Reach
      <4>6. {e} \cup Ahead(link, link[e].to) \subseteq Ahead(link, e)
        BY <4>1, <4>5 DEF Ahead, Reach
      <4> QED BY <4>4, <4>6
    <3> QED BY <2>2, <3>2, <3>3
  <2> QED BY <2>1, <2>2
<1>4. ASSUME NEW t \in Threads
      PROVE  Run(t) = IF first[t] = Null THEN {} ELSE Reach(link, {Null, last[t]}, first[t])
  <2>1. Run(t) = IF first[t] = Null THEN {} ELSE PathFcn(link, {Null, last[t]}, first[t])[MaxEntries]
    BY Zenon DEF Run, PathFcn
  <2>2. first[t] \in Addresses
    BY DEF TypeInv
  <2> QED BY <1>1, <2>1, <2>2, PathIsReach DEF PathType
<1> QED BY <1>2, <1>3, <1>4

-----------------------------------------------------------------------------
(* Moving a link                                                            *)

Chain(lk) == lk \in [Entries -> Links]

\* What is ahead of an address.
LEMMA AheadFacts ==
  ASSUME NEW lk, Chain(lk), NEW y \in Addresses
  PROVE  /\ y \in Ahead(lk, y) /\ Ahead(lk, y) \in SUBSET Addresses
         /\ \A z \in Ahead(lk, y) : z # Null => z \in Entries /\ lk[z].to \in Ahead(lk, y)
         /\ \A K : y \in K /\ (\A z \in K : z # Null => lk[z].to \in K) => Ahead(lk, y) \subseteq K
         /\ \A z \in Ahead(lk, y) : Ahead(lk, z) \subseteq Ahead(lk, y)
         /\ \A z \in Entries : lk[z].to \in Addresses
<1>1. PathType(lk, Ends, y)
  BY DEF PathType, Chain, Ends
<1>2. /\ y \in Ahead(lk, y) /\ Ahead(lk, y) \in SUBSET Addresses
      /\ Closed(lk, Ends, Ahead(lk, y))
      /\ \A K : y \in K /\ Closed(lk, Ends, K) => Ahead(lk, y) \subseteq K
  BY <1>1, ReachFacts DEF Ahead
<1>3. \A K : Closed(lk, Ends, K) <=> \A z \in K : z # Null => lk[z].to \in K
  BY DEF Closed, Ends
<1>4. ASSUME NEW z \in Ahead(lk, y) PROVE Ahead(lk, z) \subseteq Ahead(lk, y)
  <2>1. PathType(lk, Ends, z)
    BY <1>2 DEF PathType, Chain, Ends
  <2> QED BY <1>2, <2>1, ReachFacts DEF Ahead
<1>5. \A z \in Ahead(lk, y) : z # Null => z \in Entries /\ lk[z].to \in Ahead(lk, y)
  <2>1. \A z \in Addresses : z # Null => z \in Entries
    BY DEF Addresses
  <2> QED BY <1>2, <1>3, <2>1
<1>6. \A z \in Entries : lk[z].to \in Addresses
  BY DEF Chain, Links, Addresses
<1> QED BY <1>2, <1>3, <1>4, <1>5, <1>6

\* An entry, and what is ahead of its link.
LEMMA AheadStep ==
  ASSUME NEW lk, Chain(lk)
  PROVE  /\ Ahead(lk, Null) = {Null}
         /\ \A y \in Entries : Ahead(lk, y) = {y} \cup Ahead(lk, lk[y].to)
<1>1. Ahead(lk, Null) = {Null}
  <2>1. Null \in Addresses
    BY DEF Addresses
  <2>2. Null \in Ahead(lk, Null) /\ Ahead(lk, Null) \subseteq {Null}
    BY <2>1, AheadFacts
  <2> QED BY <2>2
<1>2. ASSUME NEW y \in Entries PROVE Ahead(lk, y) = {y} \cup Ahead(lk, lk[y].to)
  <2>1. y \in Addresses /\ y # Null
    BY Numbers DEF Addresses
  <2>2. lk[y].to \in Addresses
    BY <2>1, AheadFacts
  <2>3. lk[y].to \in Ahead(lk, y) /\ y \in Ahead(lk, y)
    BY <2>1, AheadFacts
  <2>4. Ahead(lk, lk[y].to) \subseteq Ahead(lk, y)
    BY <2>1, <2>3, AheadFacts
  <2>5. ASSUME NEW z \in {y} \cup Ahead(lk, lk[y].to), z # Null
        PROVE  lk[z].to \in {y} \cup Ahead(lk, lk[y].to)
    BY <2>2, <2>5, AheadFacts
  <2>6. Ahead(lk, y) \subseteq {y} \cup Ahead(lk, lk[y].to)
    <3> DEFINE K == {y} \cup Ahead(lk, lk[y].to)
    <3>1. y \in K /\ \A z \in K : z # Null => lk[z].to \in K
      BY <2>5
    <3> HIDE DEF K
    <3>2. Ahead(lk, y) \subseteq K
      BY <2>1, <3>1, AheadFacts
    <3> QED BY <3>2 DEF K
  <2> QED BY <2>3, <2>4, <2>6
<1> QED BY <1>1, <1>2

\* The links that are ahead decide what is ahead.
LEMMA AheadSame ==
  ASSUME NEW lk, NEW my, Chain(lk), Chain(my), NEW y \in Addresses,
         \A z \in Ahead(lk, y) : z # Null => my[z].to = lk[z].to
  PROVE  Ahead(my, y) = Ahead(lk, y)
<1>1. Ahead(my, y) \subseteq Ahead(lk, y)
  <2>1. \A z \in Ahead(lk, y) : z # Null => my[z].to \in Ahead(lk, y)
    BY AheadFacts
  <2>2. y \in Ahead(lk, y)
    BY AheadFacts
  <2> QED BY <2>1, <2>2, AheadFacts
<1>2. Ahead(lk, y) \subseteq Ahead(my, y)
  <2>1. \A z \in Ahead(my, y) : z # Null => lk[z].to \in Ahead(my, y)
    BY <1>1, AheadFacts
  <2>2. y \in Ahead(my, y)
    BY AheadFacts
  <2> QED BY <2>1, <2>2, AheadFacts
<1> QED BY <1>1, <1>2

\* Nothing leads to an entry that no link leads to.
LEMMA NotAhead ==
  ASSUME NEW lk, Chain(lk), NEW e, \A x \in Entries : lk[x].to # e, NEW y \in Addresses, y # e
  PROVE  e \notin Ahead(lk, y)
<1>1. \A z \in Addresses \ {e} : z # Null => lk[z].to \in Addresses \ {e}
  <2>1. \A z \in Addresses : z # Null => z \in Entries /\ lk[z].to \in Addresses
    BY AheadFacts DEF Addresses
  <2> QED BY <2>1
<1>2. Ahead(lk, y) \subseteq Addresses \ {e}
  BY <1>1, AheadFacts
<1> QED BY <1>2

\* A strict order in which every link goes forward.
Strict(O) ==
  /\ O \in SUBSET (Entries \X Entries)
  /\ \A x : <<x, x>> \notin O
  /\ \A x, y, z : <<x, y>> \in O /\ <<y, z>> \in O => <<x, z>> \in O
Forward(O, lk) == \A x \in Entries : lk[x].to # Null => <<x, lk[x].to>> \in O

\* What is ahead comes later in the order.
LEMMA AheadIsLater ==
  ASSUME NEW lk, Chain(lk), NEW O, Strict(O), Forward(O, lk), NEW y \in Addresses,
         NEW z \in Ahead(lk, y), z # Null
  PROVE  z = y \/ <<y, z>> \in O
<1> DEFINE K == {Null, y} \cup {x \in Entries : <<y, x>> \in O}
<1>1. ASSUME NEW x \in K, x # Null PROVE lk[x].to \in K
  <2>1. x \in Entries
    BY <1>1 DEF Addresses
  <2>2. lk[x].to \in Addresses /\ (lk[x].to # Null => <<x, lk[x].to>> \in O)
    BY <2>1, AheadFacts DEF Forward
  <2>3. x = y \/ <<y, x>> \in O
    BY <1>1
  <2>4. lk[x].to # Null => lk[x].to \in Entries /\ <<y, lk[x].to>> \in O
    BY <2>2, <2>3 DEF Strict, Addresses
  <2> QED BY <2>4
<1>2. Ahead(lk, y) \subseteq K
  <2>1. y \in K
    OBVIOUS
  <2> HIDE DEF K
  <2> QED BY <1>1, <2>1, AheadFacts
<1>3. z \in K
  BY <1>2
<1> QED BY <1>3

\* One link has been moved: what of a set was ahead of the old target is ahead of the
\* new one, so nothing of it is lost anywhere.
OneLink(lk, my, x) == \A z \in Entries \ {x} : my[z].to = lk[z].to

\* What was ahead of the old target and is ahead of the new one is lost nowhere.
LEMMA MoveKeeps ==
  ASSUME NEW lk, NEW my, Chain(lk), Chain(my), NEW x \in Entries, OneLink(lk, my, x), NEW L,
         Ahead(lk, lk[x].to) \cap L \subseteq Ahead(my, my[x].to), NEW y \in Addresses
  PROVE  Ahead(lk, y) \cap L \subseteq Ahead(my, y)
<1>1. lk[x].to \in Addresses /\ my[x].to \in Addresses /\ x # Null
  BY AheadFacts, Numbers
<1> DEFINE K == Ahead(my, y) \cup Ahead(lk, lk[x].to)
<1>2. CASE x \in Ahead(my, y)
  <2>1. ASSUME NEW z \in K, z # Null PROVE lk[z].to \in K
    <3>1. CASE z = x
      BY <1>1, <3>1, AheadFacts
    <3>2. CASE z \in Ahead(my, y) /\ z # x
      BY <2>1, <3>2, AheadFacts DEF OneLink
    <3>3. CASE z \in Ahead(lk, lk[x].to)
      BY <1>1, <2>1, <3>3, AheadFacts
    <3> QED BY <3>1, <3>2, <3>3
  <2>2. y \in K
    BY AheadFacts
  <2>3. Ahead(lk, y) \subseteq K
    <3> HIDE DEF K
    <3> QED BY <2>1, <2>2, AheadFacts
  <2>4. Ahead(my, my[x].to) \subseteq Ahead(my, y)
    BY <1>1, <1>2, AheadFacts
  <2> QED BY <2>3, <2>4
<1>3. CASE x \notin Ahead(my, y)
  <2>1. \A z \in Ahead(my, y) : z # Null => lk[z].to = my[z].to
    BY <1>3, AheadFacts DEF OneLink
  <2> QED BY <2>1, AheadSame
<1> QED BY <1>2, <1>3

\* A link is moved forward, to where the same members of a set are ahead: they are ahead
\* of the same addresses as before.
LEMMA Reroute ==
  ASSUME NEW lk, NEW my, Chain(lk), Chain(my), NEW x \in Entries, OneLink(lk, my, x),
         NEW O, Strict(O), Forward(O, lk), my[x].to # Null => <<x, my[x].to>> \in O, NEW L,
         Ahead(lk, lk[x].to) \cap L = Ahead(lk, my[x].to) \cap L, NEW y \in Addresses
  PROVE  Ahead(my, y) \cap L = Ahead(lk, y) \cap L
<1>1. lk[x].to \in Addresses /\ my[x].to \in Addresses /\ x # Null
  BY AheadFacts, Numbers
<1>2. x \notin Ahead(lk, my[x].to)
  <2>1. CASE my[x].to = Null
    BY <1>1, <2>1, AheadStep
  <2>2. CASE my[x].to # Null
    <3>1. SUFFICES ASSUME x \in Ahead(lk, my[x].to) PROVE FALSE
      OBVIOUS
    <3>2. x = my[x].to \/ <<my[x].to, x>> \in O
      BY <1>1, <3>1, AheadIsLater
    <3> QED BY <2>2, <3>2 DEF Strict
  <2> QED BY <2>1, <2>2
<1>3. Ahead(my, my[x].to) = Ahead(lk, my[x].to)
  <2>1. \A z \in Ahead(lk, my[x].to) : z # Null => my[z].to = lk[z].to
    BY <1>1, <1>2, AheadFacts DEF OneLink
  <2> QED BY <1>1, <2>1, AheadSame
<1>4. Ahead(lk, y) \cap L \subseteq Ahead(my, y)
  BY <1>3, MoveKeeps
<1>5. Ahead(my, y) \cap L \subseteq Ahead(lk, y)
  <2>1. OneLink(my, lk, x)
    BY DEF OneLink
  <2>2. Ahead(my, my[x].to) \cap L \subseteq Ahead(lk, lk[x].to)
    BY <1>3
  <2> QED BY <2>1, <2>2, MoveKeeps
<1> QED BY <1>4, <1>5

\* An entry is put behind another one.
LEMMA Insert ==
  ASSUME NEW lk, NEW my, Chain(lk), Chain(my), NEW x \in Entries, OneLink(lk, my, x),
         NEW n \in Entries, n # x, my[x].to = n, lk[n].to = lk[x].to, NEW y \in Addresses
  PROVE  Ahead(my, y) = Ahead(lk, y) \cup (IF x \in Ahead(lk, y) THEN {n} ELSE {})
<1>1. lk[x].to \in Addresses /\ my[n].to = lk[x].to /\ x # Null /\ n # Null
  BY AheadFacts, Numbers DEF OneLink
<1>2. Ahead(lk, y) \subseteq Ahead(my, y)
  <2>1. ASSUME NEW z \in Ahead(my, y), z # Null PROVE lk[z].to \in Ahead(my, y)
    <3>1. z \in Entries /\ my[z].to \in Ahead(my, y)
      BY <2>1, AheadFacts
    <3>2. CASE z = x
      <4>1. n \in Ahead(my, y)
        BY <3>1, <3>2
      <4> QED BY <1>1, <3>2, <4>1, AheadFacts
    <3>3. CASE z # x
      BY <3>1, <3>3 DEF OneLink
    <3> QED BY <3>2, <3>3
  <2> QED BY <2>1, AheadFacts
<1>3. x \in Ahead(lk, y) => n \in Ahead(my, y)
  BY <1>1, <1>2, AheadFacts
<1> DEFINE K == Ahead(lk, y) \cup (IF x \in Ahead(lk, y) THEN {n} ELSE {})
<1>4. ASSUME NEW z \in K, z # Null PROVE my[z].to \in K
  <2>1. CASE z = x
    <3>1. z \in Ahead(lk, y)
      BY <2>1
    <3> QED BY <2>1, <3>1
  <2>2. CASE z # x /\ z \in Ahead(lk, y)
    <3>1. z \in Entries /\ lk[z].to \in Ahead(lk, y)
      BY <1>4, <2>2, AheadFacts
    <3> QED BY <2>2, <3>1 DEF OneLink
  <2>3. CASE z = n /\ x \in Ahead(lk, y)
    <3>1. lk[x].to \in Ahead(lk, y)
      BY <1>1, <2>3, AheadFacts
    <3> QED BY <1>1, <2>3, <3>1
  <2>4. z = n => x \in Ahead(lk, y) \/ z \in Ahead(lk, y)
    OBVIOUS
  <2> QED BY <2>1, <2>2, <2>3, <2>4
<1>5. Ahead(my, y) \subseteq K
  <2>1. y \in K
    BY AheadFacts
  <2> HIDE DEF K
  <2> QED BY <1>4, <2>1, AheadFacts
<1> QED BY <1>2, <1>3, <1>5

-----------------------------------------------------------------------------
(* The invariant of the paths                                               *)

Walking == {"walk", "claim", "take", "cas", "release", "swap", "restore", "done"}

\* The entries that are not deleted, and those of them that can be reached from y.
LiveSet == {e \in Entries : ~Deleted(e)}
LiveFrom(y) == Ahead(link, y) \cap LiveSet

PathTypes ==
  ended \in [Threads -> BOOLEAN] /\ behind \in [Threads -> SUBSET Entries]

\* What a thread has loaded is ahead of the entry it is at, in an order that does not
\* change but for new entries.
Placed(O, t) ==
  /\ pc[t] \in Pushing \cup Walking /\ seen[t].to # Null => <<cur[t], seen[t].to>> \in O
  /\ pc[t] \in Walking /\ ptr[t].to # Null => <<cur[t], ptr[t].to>> \in O
  /\ pc[t] = "claim" /\ state[t].to # Null => <<ptr[t].to, state[t].to>> \in O
  /\ pc[t] = "push_cas" => <<cur[t], New(t)>> \in O

\* The run of a walk, by where it is: it begins with the entry found first, and goes up to
\* the one at hand until it has ended.
Walked(t) ==
  /\ pc[t] \in {"walk", "claim"} =>
       /\ first[t] = Null <=> last[t] = Null
       /\ first[t] # Null => first[t] = seen[t].to /\ seen[t].tag # "Both"
       /\ ~ended[t] /\ first[t] = Null => ptr[t].to = seen[t].to
       /\ ~ended[t] /\ last[t] # Null => link[last[t]].to = ptr[t].to
       /\ seen[t].tag = "Both" => ended[t]
  /\ pc[t] = "claim" => ~ended[t] /\ state[t].tag = "Second"
  /\ pc[t] \in {"take", "cas"} => seen[t].tag # "Both"
  /\ pc[t] \notin Walking \/ pc[t] = "done" => first[t] = Null
  /\ pc[t] = "drop" => cur[t] \in freed
  /\ pc[t] = "push_cas" =>
       link[New(t)].to = seen[t].to \/ (seen[t].to # Null /\ cnt[seen[t].to] = 0)

\* R is the run of t: claimed entries in a row, from first to last, ahead of the entry it is
\* at and before the one it has come to.
RunIs(O, R, t) ==
  /\ first[t] = Null => R = {}
  /\ first[t] # Null =>
       first[t] \in R /\ last[t] \in R /\ (ptr[t].to # Null => <<last[t], ptr[t].to>> \in O)
  /\ \A x \in R :
       /\ x \in Entries /\ link[x].tag = "Both" /\ <<cur[t], x>> \in O
       /\ x = last[t] \/ <<x, last[t]>> \in O
       /\ x = first[t] \/ (<<first[t], x>> \in O /\ \E y \in R \ {last[t]} : link[y].to = x)
       /\ x # last[t] => link[x].to \in R
       /\ \A y \in R : x # last[t] /\ <<x, y>> \in O => y = link[x].to \/ <<link[x].to, y>> \in O

\* A claimed entry is in one run.
Runs(run) ==
  /\ \A t, u \in Threads : t # u => run[t] \cap run[u] = {}
  /\ \A e \in Entries : link[e].tag = "Both" => \E t \in Threads : e \in run[t]

\* What a walk leaves out is deleted: its pointers lead to the same live entries.
Flow(t) ==
  /\ pc[t] \notin Walking => behind[t] = {}
  /\ pc[t] \in Walking =>
       /\ LiveFrom(seen[t].to) = LiveFrom(ptr[t].to)
       /\ first[t] # Null => LiveFrom(first[t]) = LiveFrom(ptr[t].to)
       /\ pc[t] = "claim" => LiveFrom(state[t].to) = LiveFrom(ptr[t].to)
       /\ behind[t] \subseteq LiveFrom(ptr[t].to)

\* The pointers of t other than the entry it is at.
Loaded(t) == {seen[t].to, ptr[t].to, state[t].to, first[t], last[t]}

\* Nobody comes to an entry that has not been deleted and has no owner, but for its drop.
HiddenInv ==
  \A e \in 1 .. alloc : cnt[e] = 0 /\ ~Deleted(e) =>
    \A u \in Threads : e \notin Loaded(u) /\ (e = cur[u] => e \in freed)

\* The entries that are in the list: they have an owner, and are not being pushed.
Listed == {e \in 1 .. alloc : cnt[e] # 0 /\ \A t \in Threads : pc[t] \in Pushing => e \notin own[t]}

LiveInv == \A e \in Listed : ~Deleted(e) => e \in LiveFrom(Head)

Placement(O, run) ==
  /\ Strict(O) /\ Forward(O, link)
  /\ \A t \in Threads : Placed(O, t) /\ RunIs(O, run[t], t)
  /\ Runs(run)

PathInv ==
  /\ PathTypes /\ HiddenInv /\ LiveInv
  /\ \A t \in Threads : Walked(t) /\ Flow(t)
  /\ \E O, run : Placement(O, run)

-----------------------------------------------------------------------------
(* The links that a step changes                                            *)

Put(x, l) == x \in Entries /\ link'[x] = l /\ \A z \in Entries \ {x} : link'[z] = link[z]

Tagging(t, g) == pc[t] = "at" /\ Put(cur[t], [to |-> link[cur[t]].to, tag |-> g])
Linked(t) == IF Alive(cnt, seen[t].to) THEN seen[t].to ELSE Null

LinkCase(t) ==
  \/ link' = link
  \/ /\ Mark(t) \/ Unmark(t)
     /\ link[cur[t]].tag \in {"None", "First"}
     /\ \E g \in {"None", "First"} : Tagging(t, g)
  \/ DeleteSelf(t) /\ link[cur[t]].tag \in {"None", "First"} /\ Tagging(t, "Second")
  \/ PushLink(t) /\ Put(New(t), [to |-> Linked(t), tag |-> "None"])
  \/ /\ PushCas(t) /\ link[cur[t]] = seen[t]
     /\ \E g \in {"None", "First"} : Put(cur[t], [to |-> New(t), tag |-> g])
  \/ /\ Claim(t) /\ link[ptr[t].to] = state[t]
     /\ Put(ptr[t].to, [to |-> state[t].to, tag |-> "Both"])
  \/ /\ Unlink(t) /\ link[cur[t]] = seen[t]
     /\ Put(cur[t], [to |-> ptr[t].to, tag |-> seen[t].tag])
  \/ Swap(t) /\ Put(first[t], [to |-> ptr[t].to, tag |-> "Second"])
  \/ /\ Restore(t) /\ first[t] # Null
     /\ Put(first[t], [to |-> link[first[t]].to, tag |-> "Second"])
  \/ DropLink(t) /\ Put(cur[t], [to |-> Null, tag |-> "Second"])

\* Every step changes one link at most.
LEMMA LinkCases ==
  ASSUME ListInv, NEW t \in Threads, Step(t)
  PROVE  LinkCase(t)
<1>1. /\ TypeInv /\ WalkShape(t) /\ link \in [Entries -> Links]
      /\ \A e \in Entries : link[e] = [to |-> link[e].to, tag |-> link[e].tag]
  BY Facts DEF TypeInv, Links
<1>2. /\ pc[t] # "idle" => cur[t] \in Entries
      /\ first[t] # Null => first[t] \in Entries
      /\ ptr[t].to # Null => ptr[t].to \in Entries
  BY AtHand
<1>3. CASE Enter(t) \/ Leave(t) \/ Push(t) \/ PushFail(t) \/ NextPtr(t) \/ WalkEnds(t) \/ Walk(t)
           \/ Take(t) \/ Release(t) \/ Return(t) \/ Collect(t)
  BY <1>3 DEF LinkCase, Enter, Leave, Push, PushFail, NextPtr, WalkEnds, Walk, Take, Release,
     Return, Collect, Load
<1>4. CASE Mark(t)
  <2>1. Tagging(t, "First") /\ link[cur[t]].tag \in {"None", "First"}
    BY <1>1, <1>2, <1>4 DEF Mark, SetTag, Tagging, Put
  <2> QED BY <1>4, <2>1 DEF LinkCase
<1>5. CASE Unmark(t)
  <2>1. Tagging(t, "None") /\ link[cur[t]].tag \in {"None", "First"}
    BY <1>1, <1>2, <1>5 DEF Unmark, SetTag, Tagging, Put
  <2> QED BY <1>5, <2>1 DEF LinkCase
<1>6. CASE DeleteSelf(t)
  <2>1. Tagging(t, "Second") /\ link[cur[t]].tag \in {"None", "First"}
    BY <1>1, <1>2, <1>6 DEF DeleteSelf, SetTag, Tagging, Put
  <2> QED BY <1>6, <2>1 DEF LinkCase
<1>7. CASE PushLink(t)
  <2>1. New(t) \in Entries
    BY <1>7, NewEntry DEF PushLink, Pushing
  <2>2. Put(New(t), [to |-> Linked(t), tag |-> "None"])
    BY <1>1, <1>7, <2>1 DEF PushLink, Linked, Put
  <2> QED BY <1>7, <2>2 DEF LinkCase
<1>8. CASE PushCas(t)
  <2>1. CASE link[cur[t]] = seen[t]
    <3>1. Put(cur[t], [to |-> New(t), tag |-> IF mark[t] THEN "First" ELSE "None"])
      BY <1>1, <1>2, <1>8, <2>1 DEF PushCas, Put
    <3>2. (IF mark[t] THEN "First" ELSE "None") \in {"None", "First"}
      OBVIOUS
    <3> QED BY <1>8, <2>1, <3>1, <3>2 DEF LinkCase
  <2>2. CASE link[cur[t]] # seen[t]
    BY <1>8, <2>2 DEF PushCas, LinkCase
  <2> QED BY <2>1, <2>2
<1>9. CASE Claim(t)
  <2>1. ptr[t].to \in Entries
    BY <1>1, <1>2, <1>9 DEF Claim, WalkShape
  <2>2. CASE link[ptr[t].to] = state[t]
    <3>1. Put(ptr[t].to, [to |-> state[t].to, tag |-> "Both"])
      BY <1>1, <1>9, <2>1, <2>2 DEF Claim, Put
    <3> QED BY <1>9, <2>2, <3>1 DEF LinkCase
  <2>3. CASE link[ptr[t].to] # state[t]
    BY <1>9, <2>3 DEF Claim, LinkCase
  <2> QED BY <2>2, <2>3
<1>10. CASE Unlink(t)
  <2>2. CASE link[cur[t]] = seen[t]
    <3>1. Put(cur[t], [to |-> ptr[t].to, tag |-> seen[t].tag])
      BY <1>1, <1>2, <1>10, <2>2 DEF Unlink, Put
    <3> QED BY <1>10, <2>2, <3>1 DEF LinkCase
  <2>3. CASE link[cur[t]] # seen[t]
    BY <1>10, <2>3 DEF Unlink, LinkCase
  <2> QED BY <2>2, <2>3
<1>11. CASE Swap(t)
  <2>1. Put(first[t], [to |-> ptr[t].to, tag |-> "Second"])
    BY <1>1, <1>2, <1>11 DEF Swap, Put, WalkShape
  <2> QED BY <1>11, <2>1 DEF LinkCase
<1>12. CASE Restore(t)
  <2>1. CASE first[t] # Null
    <3>1. Put(first[t], [to |-> link[first[t]].to, tag |-> "Second"])
      BY <1>1, <1>2, <1>12, <2>1 DEF Restore, Put
    <3> QED BY <1>12, <2>1, <3>1 DEF LinkCase
  <2>2. CASE first[t] = Null
    BY <1>12, <2>2 DEF Restore, LinkCase
  <2> QED BY <2>1, <2>2
<1>13. CASE DropLink(t)
  <2>1. Put(cur[t], [to |-> Null, tag |-> "Second"])
    BY <1>1, <1>2, <1>13 DEF DropLink, Put
  <2> QED BY <1>13, <2>1 DEF LinkCase
<1> QED BY <1>3, <1>4, <1>5, <1>6, <1>7, <1>8, <1>9, <1>10, <1>11, <1>12, <1>13 DEF Step

\* What a step leaves alone of the other threads.
LEMMA OthersPath ==
  ASSUME ListInv, PathTypes, NEW t \in Threads, Step(t), NEW u \in Threads \ {t}
  PROVE  /\ ended'[u] = ended[u] /\ New(u)' = New(u) /\ Loaded(u)' = Loaded(u)
         /\ behind'[u] = IF DeleteSelf(t) THEN behind[u] \ {cur[t]} ELSE behind[u]
         /\ pc'[u] = pc[u] /\ cur'[u] = cur[u] /\ seen'[u] = seen[u]
         /\ ptr'[u] = ptr[u] /\ state'[u] = state[u] /\ first'[u] = first[u]
         /\ last'[u] = last[u] /\ own'[u] = own[u]
<1>1. /\ pc'[u] = pc[u] /\ cur'[u] = cur[u] /\ seen'[u] = seen[u]
      /\ ptr'[u] = ptr[u] /\ state'[u] = state[u] /\ first'[u] = first[u]
      /\ last'[u] = last[u] /\ own'[u] = own[u]
  BY Facts, Others
<1>2. New(u)' = New(u) /\ Loaded(u)' = Loaded(u)
  BY <1>1 DEF New, Loaded
<1>3. ended'[u] = ended[u]
  BY DEF PathTypes, Step, Enter, Leave, Mark, Unmark, SetTag, DeleteSelf, Push, PushLink, PushCas,
     PushFail, NextPtr, Load, WalkEnds, Walk, Claim, Take, Unlink, Release, Swap, Restore, Return,
     Collect, DropLink, Forget, local
<1>4. DeleteSelf(t) => behind'[u] = behind[u] \ {cur[t]}
  BY DEF DeleteSelf
<1>5. ASSUME ~DeleteSelf(t) PROVE behind'[u] = behind[u]
    BY <1>5 DEF PathTypes, Step, Enter, Leave, Mark, Unmark, SetTag, Push, PushLink, PushCas,
       PushFail, NextPtr, Load, WalkEnds, Walk, Claim, Take, Unlink, Release, Swap, Restore,
       Return, Collect, DropLink, Forget, local
<1> QED BY <1>1, <1>2, <1>3, <1>4, <1>5

\* Live, Behind and From, by what is ahead.
LEMMA LiveBehind ==
  ASSUME TypeInv
  PROVE  /\ \A e \in Entries : Live(Behind(e)) = LiveFrom(link[e].to)
         /\ \A e \in Addresses : Live(From(e)) = LiveFrom(e)
         /\ \A e \in Addresses : From(e) = Ahead(link, e) \ {Null}
         /\ Chain(link)
<1>1. Chain(link) /\ \A e \in Entries : link[e].to \in Addresses
  BY DEF TypeInv, Chain, Links, Addresses
<1>2. \A e \in Addresses : Ahead(link, e) \ {Null} \subseteq Entries
  BY <1>1, AheadFacts
<1>3. \A e \in Addresses : From(e) = Ahead(link, e) \ {Null}
  BY PathsAreReach
<1>4. ASSUME NEW e \in Addresses PROVE {x \in Ahead(link, e) \ {Null} : ~Deleted(x)} = LiveFrom(e)
  BY <1>2, Numbers DEF LiveFrom, LiveSet
<1>5. \A e \in Addresses : Live(From(e)) = LiveFrom(e)
  BY <1>3, <1>4 DEF Live
<1>6. \A e \in Entries : Behind(e) = Ahead(link, link[e].to) \ {Null}
  BY PathsAreReach
<1>7. \A e \in Entries : Live(Behind(e)) = LiveFrom(link[e].to)
  BY <1>1, <1>4, <1>6 DEF Live
<1> QED BY <1>1, <1>3, <1>5, <1>7

\* Every step keeps the types of ended and behind.
LEMMA PathTypesStep ==
  ASSUME ListInv, PathTypes, NEW t \in Threads, Step(t)
  PROVE  PathTypes'
<1>1. TypeInv
  BY DEF ListInv
<1>2. \A e \in Entries : Live(Behind(e)) \in SUBSET Entries
  BY <1>1, LiveBehind DEF LiveFrom, LiveSet
<1>3. pc[t] # "idle" => cur[t] \in Entries
  BY AtHand
<1>4. ended' \in [Threads -> BOOLEAN]
  BY DEF PathTypes, Step, Enter, Leave, Mark, Unmark, SetTag, DeleteSelf, Push, PushLink, PushCas,
     PushFail, NextPtr, Load, WalkEnds, Walk, Claim, Take, Unlink, Release, Swap, Restore, Return,
     Collect, DropLink, Forget, local
<1>5. behind' \in [Threads -> SUBSET Entries]
  BY <1>2, <1>3 DEF PathTypes, Step, Enter, Leave, Mark, Unmark, SetTag, DeleteSelf, Push, PushLink,
     PushCas, PushFail, NextPtr, Load, WalkEnds, Walk, Claim, Take, Unlink, Release, Swap, Restore,
     Return, Collect, DropLink, Forget, local
<1> QED BY <1>4, <1>5 DEF PathTypes

\* A claimed entry has not been dropped.
LEMMA RunIsKept ==
  ASSUME ListInv, NEW O, NEW R, Strict(O), NEW u \in Threads, RunIs(O, R, u), NEW e \in R
  PROVE  e \notin freed
<1>1. e \in Entries /\ <<cur[u], e>> \in O
  BY DEF RunIs
<1>2. e # cur[u]
  BY <1>1 DEF Strict
<1>3. FreedInv /\ Kept(u) /\ TypeInv /\ CountsExact
  BY DEF ListInv
<1>4. CASE e = first[u]
  <2>1. e \in Held(u)
    BY <1>1, <1>4, Numbers DEF Held, Pointers
  <2> QED BY <1>2, <1>3, <2>1 DEF Kept, FreedInv
<1>5. CASE e # first[u]
  <2>1. PICK y \in R : link[y].to = e
    BY <1>5 DEF RunIs
  <2>2. y \in Entries /\ e # Null
    BY <1>1, <2>1, Numbers DEF RunIs
  <2>3. y \in 1 .. alloc /\ e \in 1 .. alloc
    BY <2>1, <2>2, Facts
  <2>4. cnt[e] # 0
    BY <1>3, <2>1, <2>3, CountFacts
  <2> QED BY <1>3, <2>4 DEF FreedInv
<1> QED BY <1>4, <1>5

Claiming(t) == Claim(t) /\ link[ptr[t].to] = state[t]
Unclaiming(t) == Swap(t) \/ (Restore(t) /\ first[t] # Null)

\* The link of a claimed entry is changed by its claimant alone.
LEMMA BothStays ==
  ASSUME ListInv, NEW O, NEW run, Placement(O, run), NEW t \in Threads, Walked(t), Step(t),
         NEW e \in Entries
  PROVE  /\ link[e].tag = "Both" => link'[e] = link[e] \/ (Unclaiming(t) /\ e = first[t])
         /\ link'[e].tag = "Both" =>
              link[e].tag = "Both" \/ (Claiming(t) /\ e = ptr[t].to)
         /\ Unclaiming(t) => link'[first[t]].tag = "Second"
<1>1. LinkCase(t) /\ WalkShape(t)
  BY LinkCases, Facts
<1> USE DEF Put
<1>2. CASE link' = link
  <2>1. ~Swap(t) /\ (Restore(t) => first[t] = Null)
    <3>1. link \in [Entries -> Links] /\ WalkShape(t) /\ (first[t] # Null => first[t] \in Entries)
      BY Facts, AtHand DEF TypeInv
    <3>2. first[t] # Null => first[t] \in run[t]
      BY DEF Placement, RunIs
    <3>3. first[t] # Null => link[first[t]].tag = "Both"
      BY <3>2 DEF Placement, RunIs
    <3>4. Swap(t) => first[t] # Null /\ link'[first[t]].tag = "Second"
      BY <3>1 DEF Swap, WalkShape
    <3>5. Restore(t) /\ first[t] # Null => link'[first[t]].tag = "Second"
      BY <3>1 DEF Restore, Links
    <3> QED BY <1>2, <3>3, <3>4, <3>5
  <2> QED BY <1>2, <2>1 DEF Unclaiming
<1>3. CASE \/ /\ Mark(t) \/ Unmark(t)
              /\ link[cur[t]].tag \in {"None", "First"}
              /\ \E g \in {"None", "First"} : Tagging(t, g)
           \/ DeleteSelf(t) /\ link[cur[t]].tag \in {"None", "First"} /\ Tagging(t, "Second")
  <2>1. pc[t] = "at"
    BY <1>3 DEF Tagging
  <2> QED BY <1>3, <2>1 DEF Tagging, Unclaiming, Swap, Restore
<1>4. CASE PushLink(t) /\ Put(New(t), [to |-> Linked(t), tag |-> "None"])
  <2>1. pc[t] = "push" /\ ~Deleted(New(t))
    BY <1>4, NewEntry DEF PushLink, Pushing
  <2> QED BY <1>4, <2>1 DEF Deleted, Unclaiming, Swap, Restore
<1>5. CASE /\ PushCas(t) /\ link[cur[t]] = seen[t]
           /\ \E g \in {"None", "First"} : Put(cur[t], [to |-> New(t), tag |-> g])
  <2>1. pc[t] = "push_cas" /\ seen[t].tag # "Both"
    BY <1>1, <1>5 DEF PushCas, WalkShape
  <2> QED BY <1>5, <2>1 DEF Unclaiming, Swap, Restore
<1>6. CASE /\ Claim(t) /\ link[ptr[t].to] = state[t]
           /\ Put(ptr[t].to, [to |-> state[t].to, tag |-> "Both"])
  <2>1. pc[t] = "claim" /\ state[t].tag = "Second"
    BY <1>6 DEF Claim, Walked
  <2> QED BY <1>6, <2>1 DEF Claiming, Unclaiming, Swap, Restore
<1>7. CASE /\ Unlink(t) /\ link[cur[t]] = seen[t]
           /\ Put(cur[t], [to |-> ptr[t].to, tag |-> seen[t].tag])
  <2>1. pc[t] = "cas" /\ seen[t].tag # "Both"
    BY <1>7 DEF Unlink, Walked
  <2> QED BY <1>7, <2>1 DEF Unclaiming, Swap, Restore
<1>8. CASE Swap(t) /\ Put(first[t], [to |-> ptr[t].to, tag |-> "Second"])
  BY <1>8 DEF Unclaiming
<1>9. CASE /\ Restore(t) /\ first[t] # Null
           /\ Put(first[t], [to |-> link[first[t]].to, tag |-> "Second"])
  BY <1>9 DEF Unclaiming
<1>10. CASE DropLink(t) /\ Put(cur[t], [to |-> Null, tag |-> "Second"])
  <2>1. pc[t] = "drop" /\ cur[t] \in freed
    BY <1>10 DEF DropLink, Walked
  <2>2. ASSUME link[cur[t]].tag = "Both" PROVE FALSE
    <3>1. cur[t] \in Entries
      BY <1>10
    <3>2. PICK u \in Threads : cur[t] \in run[u]
      BY <2>2, <3>1 DEF Placement, Runs
    <3>3. Strict(O) /\ RunIs(O, run[u], u)
      BY DEF Placement
    <3> QED BY <2>1, <3>2, <3>3, RunIsKept
  <2> QED BY <1>10, <2>1, <2>2 DEF Unclaiming, Swap, Restore
<1> QED BY <1>1, <1>2, <1>3, <1>4, <1>5, <1>6, <1>7, <1>8, <1>9, <1>10 DEF LinkCase

-----------------------------------------------------------------------------
(* The order                                                                *)

\* The two orders agree, but for the entries of H.
Agrees(O, P, H) == \A x, y : x \notin H /\ y \notin H => (<<x, y>> \in P <=> <<x, y>> \in O)

\* An entry can be put behind another one in the order.
LEMMA GrowOrder ==
  ASSUME NEW O, Strict(O), NEW n \in Entries, NEW c \in Entries, n # c
  PROVE  \E P : /\ Strict(P) /\ Agrees(O, P, {n}) /\ <<c, n>> \in P
                /\ \A z \in Entries : z # n /\ <<c, z>> \in O => <<n, z>> \in P
<1> DEFINE Pair(x, y) == \/ x # n /\ y # n /\ <<x, y>> \in O
                         \/ y = n /\ x # n /\ (x = c \/ <<x, c>> \in O)
                         \/ x = n /\ y # n /\ <<c, y>> \in O
           P == {p \in Entries \X Entries : Pair(p[1], p[2])}
<1>1. \A x, y : <<x, y>> \in O => x \in Entries /\ y \in Entries
  BY DEF Strict
<1>2. \A x, y : <<x, y>> \in P <=> x \in Entries /\ y \in Entries /\ Pair(x, y)
  OBVIOUS
<1>3. P \in SUBSET (Entries \X Entries)
  OBVIOUS
<1> HIDE DEF P
<1>4. \A x, y : <<x, y>> \in P <=> Pair(x, y)
  BY <1>1, <1>2
<1>5. \A x : <<x, x>> \notin P
  BY <1>4 DEF Strict
<1>6. ASSUME NEW x, NEW y, NEW z, <<x, y>> \in P, <<y, z>> \in P PROVE <<x, z>> \in P
  <2>1. Pair(x, y) /\ Pair(y, z)
    BY <1>4, <1>6
  <2>2. Pair(x, z)
    BY <2>1 DEF Strict
  <2> QED BY <1>4, <2>2
<1>7. Strict(P)
  BY <1>3, <1>5, <1>6 DEF Strict
<1>8. Agrees(O, P, {n}) /\ <<c, n>> \in P
  BY <1>4 DEF Agrees
<1>9. \A z \in Entries : z # n /\ <<c, z>> \in O => <<n, z>> \in P
  BY <1>4
<1> QED BY <1>7, <1>8, <1>9

\* A step keeps the order, but for the entry that push_back has in its hands.
Reorder(t, O, P, H) ==
  /\ Strict(P) /\ Forward(P, link)' /\ Agrees(O, P, H)
  /\ \/ ~PushLink(t) /\ H = {} /\ P = O
     \/ PushLink(t) /\ H = {New(t)} /\ <<cur[t], New(t)>> \in P

\* Every step has such an order.
LEMMA OrderStep ==
  ASSUME ListInv, NEW O, NEW run, Placement(O, run), NEW t \in Threads, Walked(t), Step(t)
  PROVE  \E P, H : Reorder(t, O, P, H)
<1>1. LinkCase(t) /\ WalkShape(t) /\ Placed(O, t) /\ RunIs(O, run[t], t)
  BY LinkCases, Facts DEF Placement
<1>2. Strict(O) /\ Forward(O, link)
  BY DEF Placement
<1>3. \A e \in Entries : link[e] \in Links /\ link[e].to \in Addresses
  BY Facts DEF TypeInv, Links, Addresses
<1>4. CASE PushLink(t)
  <2>1. pc[t] = "push" /\ pc[t] \in Pushing /\ pc[t] # "idle"
    BY <1>4 DEF PushLink, Pushing
  <2>2. /\ New(t) \in Entries /\ cur[t] \in Entries /\ New(t) # cur[t]
        /\ \A x \in Entries : link[x].to # New(t)
        /\ New(t) # seen[t].to
    BY <2>1, NewEntry, AtHand DEF Pointers
  <2>3. PICK P : /\ Strict(P) /\ Agrees(O, P, {New(t)}) /\ <<cur[t], New(t)>> \in P
                 /\ \A z \in Entries : z # New(t) /\ <<cur[t], z>> \in O => <<New(t), z>> \in P
    BY <1>2, <2>2, GrowOrder
  <2>4. Put(New(t), [to |-> Linked(t), tag |-> "None"])
    BY <1>1, <1>4, <2>1, <2>2 DEF LinkCase, PushLink, Put, Linked, TypeInv, ListInv
  <2>5. Forward(P, link')
    <3> SUFFICES ASSUME NEW x \in Entries, link'[x].to # Null PROVE <<x, link'[x].to>> \in P
      BY DEF Forward
    <3>1. CASE x = New(t)
      <4>1. link'[x].to = seen[t].to /\ seen[t].to # Null
        BY <2>4, <3>1 DEF Put, Linked
      <4>2. <<cur[t], seen[t].to>> \in O /\ seen[t].to \in Entries
        BY <1>1, <2>1, <4>1, AtHand DEF Placed
      <4> QED BY <2>2, <2>3, <3>1, <4>1, <4>2
    <3>2. CASE x # New(t)
      <4>1. link'[x] = link[x]
        BY <2>4, <3>2 DEF Put
      <4>2. <<x, link[x].to>> \in O
        BY <1>2, <4>1 DEF Forward
      <4> QED BY <2>2, <2>3, <3>2, <4>1, <4>2 DEF Agrees
    <3> QED BY <3>1, <3>2
  <2>6. Reorder(t, O, P, {New(t)})
    BY <1>4, <2>3, <2>5 DEF Reorder, Forward
  <2> QED BY <2>6
<1>5. CASE ~PushLink(t)
  <2>1. ASSUME NEW x, NEW l, Put(x, l), l.to # Null => <<x, l.to>> \in O PROVE Forward(O, link')
    BY <1>2, <2>1 DEF Put, Forward
  <2>2. Forward(O, link')
    <3>1. CASE link' = link
      BY <1>2, <3>1
    <3>2. ASSUME NEW g, Tagging(t, g) PROVE Forward(O, link')
      <4>1. cur[t] \in Entries
        BY <3>2 DEF Tagging, Put
      <4>2. link[cur[t]].to # Null => <<cur[t], link[cur[t]].to>> \in O
        BY <1>2, <4>1 DEF Forward
      <4> QED BY <2>1, <3>2, <4>2 DEF Tagging
    <3>3. CASE \/ /\ Mark(t) \/ Unmark(t)
                  /\ link[cur[t]].tag \in {"None", "First"}
                  /\ \E g \in {"None", "First"} : Tagging(t, g)
               \/ DeleteSelf(t) /\ link[cur[t]].tag \in {"None", "First"} /\ Tagging(t, "Second")
      BY <3>2, <3>3
    <3>4. CASE /\ PushCas(t) /\ link[cur[t]] = seen[t]
               /\ \E g \in {"None", "First"} : Put(cur[t], [to |-> New(t), tag |-> g])
      <4>1. <<cur[t], New(t)>> \in O
        BY <1>1, <3>4 DEF PushCas, Placed
      <4> QED BY <2>1, <3>4, <4>1
    <3>5. CASE /\ Claim(t) /\ link[ptr[t].to] = state[t]
               /\ Put(ptr[t].to, [to |-> state[t].to, tag |-> "Both"])
      <4>1. state[t].to # Null => <<ptr[t].to, state[t].to>> \in O
        BY <1>1, <3>5 DEF Claim, Placed
      <4> QED BY <2>1, <3>5, <4>1
    <3>6. CASE /\ Unlink(t) /\ link[cur[t]] = seen[t]
               /\ Put(cur[t], [to |-> ptr[t].to, tag |-> seen[t].tag])
      <4>1. ptr[t].to # Null => <<cur[t], ptr[t].to>> \in O
        BY <1>1, <3>6 DEF Unlink, Placed, Walking
      <4> QED BY <2>1, <3>6, <4>1
    <3>7. CASE Swap(t) /\ Put(first[t], [to |-> ptr[t].to, tag |-> "Second"])
      <4>1. first[t] # Null
        BY <1>1, <3>7 DEF Swap, WalkShape
      <4>2. first[t] = last[t] \/ <<first[t], last[t]>> \in O
        BY <1>1, <4>1 DEF RunIs
      <4>3. ptr[t].to # Null => <<last[t], ptr[t].to>> \in O
        BY <1>1, <4>1 DEF RunIs
      <4>4. ptr[t].to # Null => <<first[t], ptr[t].to>> \in O
        BY <1>2, <4>2, <4>3 DEF Strict
      <4> QED BY <2>1, <3>7, <4>4
    <3>8. CASE /\ Restore(t) /\ first[t] # Null
               /\ Put(first[t], [to |-> link[first[t]].to, tag |-> "Second"])
      <4>1. link[first[t]].to # Null => <<first[t], link[first[t]].to>> \in O
        BY <1>2, <3>8 DEF Forward, Put
      <4> QED BY <2>1, <3>8, <4>1
    <3>9. CASE DropLink(t) /\ Put(cur[t], [to |-> Null, tag |-> "Second"])
      BY <2>1, <3>9
    <3> QED BY <1>1, <1>5, <3>1, <3>3, <3>4, <3>5, <3>6, <3>7, <3>8, <3>9 DEF LinkCase
  <2>3. Agrees(O, O, {})
    BY DEF Agrees
  <2>4. Reorder(t, O, O, {})
    BY <1>2, <1>5, <2>2, <2>3 DEF Reorder, Forward
  <2> QED BY <2>4
<1> QED BY <1>4, <1>5

\* An entry that is being pushed is in the hands of its thread alone.
LEMMA PrivateFacts ==
  ASSUME ListInv, NEW t \in Threads, pc[t] \in Pushing
  PROVE  /\ \A u \in Threads : New(t) \notin Pointers(u)
         /\ \A u \in Threads \ {t} : New(t) \notin own[u] /\ (pc[u] \in Pushing => New(u) # New(t))
<1>1. own[t] = {New(t)} /\ Private(t)
  BY NewEntry, Facts
<1>2. \A u \in Threads : pc[u] \in Pushing => New(u) \in own[u]
  BY NewEntry
<1> QED BY <1>1, <1>2 DEF Private

\* Threads keep their places in the order.
LEMMA PlacedOthers ==
  ASSUME ListInv, PathTypes, NEW O, NEW run, Placement(O, run), NEW t \in Threads, Step(t),
         NEW P, NEW H, Reorder(t, O, P, H), NEW u \in Threads \ {t}
  PROVE  Placed(P, u)'
<1>1. Placed(O, u)
  BY DEF Placement
<1>2. /\ pc'[u] = pc[u] /\ cur'[u] = cur[u] /\ seen'[u] = seen[u]
      /\ ptr'[u] = ptr[u] /\ state'[u] = state[u] /\ New(u)' = New(u)
  BY OthersPath
<1>3. cur[u] \notin H /\ seen[u].to \notin H /\ ptr[u].to \notin H /\ state[u].to \notin H
      /\ (pc[u] \in Pushing => New(u) \notin H)
  <2>1. CASE PushLink(t)
    <3>1. H = {New(t)} /\ pc[t] \in Pushing
      BY <2>1 DEF Reorder, PushLink, Pushing
    <3> QED BY <3>1, PrivateFacts DEF Pointers
  <2>2. CASE ~PushLink(t)
    BY <2>2 DEF Reorder
  <2> QED BY <2>1, <2>2
<1>4. \A x, y : x \notin H /\ y \notin H => (<<x, y>> \in P <=> <<x, y>> \in O)
  BY DEF Reorder, Agrees
<1> QED BY <1>1, <1>2, <1>3, <1>4 DEF Placed, Pushing

\* The thread that steps keeps its place in the order.
LEMMA PlacedStep ==
  ASSUME ListInv, PathTypes, NEW O, NEW run, Placement(O, run), NEW t \in Threads, Walked(t), Step(t),
         NEW P, NEW H, Reorder(t, O, P, H)
  PROVE  Placed(P, t)'
<1>1. /\ TypeInv /\ WalkShape(t) /\ Placed(O, t) /\ Strict(O) /\ Forward(O, link)
      /\ pc \in [Threads -> PCs] /\ cur \in [Threads -> Addresses]
      /\ seen \in [Threads -> Links] /\ ptr \in [Threads -> Links] /\ state \in [Threads -> Links]
  BY Facts DEF Placement, TypeInv
<1>2. pc[t] # "idle" => cur[t] \in Entries
  BY AtHand
<1> USE DEF Goto, local
<1>3. CASE PushLink(t)
  <2>1. /\ pc[t] = "push" /\ pc[t] \in Pushing /\ pc'[t] = "push_cas" /\ H = {New(t)}
        /\ cur' = cur /\ seen' = seen /\ own' = own /\ <<cur[t], New(t)>> \in P /\ Agrees(O, P, H)
    BY <1>1, <1>3 DEF PushLink, Reorder, Pushing
  <2>2. New(t)' = New(t)
    BY <2>1 DEF New
  <2>3. cur[t] \notin H /\ seen[t].to \notin H
    BY <2>1, NewEntry DEF Pointers
  <2>4. seen[t].to # Null => <<cur[t], seen[t].to>> \in P
    BY <1>1, <2>1, <2>3 DEF Placed, Agrees
  <2> QED BY <2>1, <2>2, <2>4 DEF Placed, Walking
<1>4. SUFFICES ASSUME ~PushLink(t) PROVE Placed(O, t)'
  <2>1. ~PushLink(t) => P = O
    BY DEF Reorder
  <2> QED BY <1>3, <1>4, <2>1
<1>5. CASE Enter(t) \/ Leave(t) \/ PushFail(t) \/ Return(t) \/ DropLink(t)
  <2>1. pc'[t] \in {"at", "idle", "drop"}
    BY <1>1, <1>5 DEF Enter, Leave, PushFail, Return, DropLink
  <2> QED BY <2>1 DEF Placed, Pushing, Walking
<1>6. CASE Mark(t) \/ Unmark(t) \/ DeleteSelf(t)
  <2>1. pc' = pc /\ pc[t] = "at"
    BY <1>6 DEF Mark, Unmark, DeleteSelf, SetTag
  <2> QED BY <2>1 DEF Placed, Pushing, Walking
<1>7. ASSUME NEW e \in Entries, Load(t, e) PROVE Placed(O, t)'
  <2>1. pc'[t] = "walk" /\ cur'[t] = e /\ seen'[t] = link[e] /\ ptr'[t] = link[e]
    BY <1>1, <1>7 DEF Load
  <2>2. link[e].to # Null => <<e, link[e].to>> \in O
    BY <1>1 DEF Forward
  <2> QED BY <2>1, <2>2 DEF Placed
<1>8. CASE NextPtr(t)
  BY <1>2, <1>7, <1>8 DEF NextPtr
<1>9. CASE Collect(t)
  <2>1. PICK e \in Entries : Load(t, e) \/ (pc[t] = "idle" /\ pc' = pc)
    BY <1>9 DEF Collect
  <2>2. CASE pc[t] = "idle" /\ pc' = pc
    BY <2>2 DEF Placed, Pushing, Walking
  <2> QED BY <1>7, <2>1, <2>2
<1>10. CASE Push(t)
  <2>1. pc'[t] = "push" /\ cur'[t] = cur[t] /\ seen'[t] = link[cur[t]] /\ cur[t] \in Entries
    BY <1>1, <1>2, <1>10 DEF Push
  <2>2. link[cur[t]].to # Null => <<cur[t], link[cur[t]].to>> \in O
    BY <1>1, <2>1 DEF Forward
  <2> QED BY <2>1, <2>2 DEF Placed, Walking
<1>11. CASE PushCas(t)
  <2>1. CASE link[cur[t]] = seen[t]
    <3>1. pc'[t] = "at"
      BY <1>1, <1>11, <2>1 DEF PushCas
    <3> QED BY <3>1 DEF Placed, Pushing, Walking
  <2>2. CASE link[cur[t]] # seen[t]
    <3>1. pc'[t] = "push" /\ cur'[t] = cur[t] /\ seen'[t] = link[cur[t]] /\ cur[t] \in Entries
      BY <1>1, <1>2, <1>11, <2>2 DEF PushCas
    <3>2. link[cur[t]].to # Null => <<cur[t], link[cur[t]].to>> \in O
      BY <1>1, <3>1 DEF Forward
    <3> QED BY <3>1, <3>2 DEF Placed, Walking
  <2> QED BY <2>1, <2>2
<1>12. CASE WalkEnds(t) \/ Take(t) \/ Unlink(t) \/ Release(t) \/ Swap(t) \/ Restore(t)
  <2>1. /\ pc[t] \in Walking /\ pc'[t] \in Walking /\ pc'[t] # "claim"
        /\ cur' = cur /\ seen' = seen /\ ptr' = ptr
    BY <1>1, <1>12 DEF WalkEnds, Take, Unlink, Release, Swap, Restore, Walking
  <2> QED BY <1>1, <2>1 DEF Placed, Walking, Pushing
<1>13. CASE Walk(t)
  <2>1. ptr[t].to \in Entries /\ pc[t] = "walk" /\ cur' = cur /\ seen' = seen
    BY <1>13, AtHand DEF Walk
  <2>2. <<cur[t], ptr[t].to>> \in O /\ (seen[t].to # Null => <<cur[t], seen[t].to>> \in O)
    BY <1>1, <2>1, Numbers DEF Placed, Walking
  <2>3. link[ptr[t].to].to # Null =>
          /\ <<ptr[t].to, link[ptr[t].to].to>> \in O
          /\ <<cur[t], link[ptr[t].to].to>> \in O
    BY <1>1, <2>1, <2>2 DEF Forward, Strict
  <2>4. \/ pc'[t] = "claim" /\ state'[t] = link[ptr[t].to] /\ ptr' = ptr
        \/ pc'[t] = "walk" /\ ptr'[t] = link[ptr[t].to]
    BY <1>1, <1>13, <2>1 DEF Walk
  <2> QED BY <2>1, <2>2, <2>3, <2>4 DEF Placed, Walking
<1>14. CASE Claim(t)
  <2>1. /\ pc[t] = "claim" /\ pc'[t] = "walk" /\ cur' = cur /\ seen' = seen
        /\ ptr'[t] = state[t] /\ ptr[t].to # Null
    BY <1>1, <1>14 DEF Claim, WalkShape
  <2>2. /\ <<cur[t], ptr[t].to>> \in O /\ (seen[t].to # Null => <<cur[t], seen[t].to>> \in O)
        /\ state[t].to # Null => <<ptr[t].to, state[t].to>> \in O
    BY <1>1, <2>1 DEF Placed, Walking
  <2>3. state[t].to # Null => <<cur[t], state[t].to>> \in O
    BY <1>1, <2>2 DEF Strict
  <2> QED BY <2>1, <2>2, <2>3 DEF Placed, Walking
<1> QED BY <1>4, <1>5, <1>6, <1>8, <1>9, <1>10, <1>11, <1>12, <1>13, <1>14 DEF Step

-----------------------------------------------------------------------------
(* The runs                                                                 *)

\* A step that keeps the links of a run, its ends and the entry in front of it.
LEMMA RunStays ==
  ASSUME NEW O, NEW P, NEW H, Agrees(O, P, H), NEW R, NEW u \in Threads, RunIs(O, R, u),
         first'[u] = first[u], last'[u] = last[u], cur'[u] = cur[u],
         \A x \in R : link'[x] = link[x] /\ x \notin H,
         first[u] \notin H, last[u] \notin H, cur[u] \notin H,
         first[u] # Null /\ ptr'[u].to # Null => <<last[u], ptr'[u].to>> \in P
  PROVE  RunIs(P, R, u)'
<1>1. /\ first'[u] = Null => R = {}
      /\ first'[u] # Null => /\ first'[u] \in R /\ last'[u] \in R
                             /\ ptr'[u].to # Null => <<last'[u], ptr'[u].to>> \in P
  BY DEF RunIs
<1>2. \A x, y : x \notin H /\ y \notin H => (<<x, y>> \in P <=> <<x, y>> \in O)
  BY DEF Agrees
<1>3. ASSUME NEW x \in R
      PROVE  /\ x \in Entries /\ link'[x].tag = "Both" /\ <<cur'[u], x>> \in P
             /\ x = last'[u] \/ <<x, last'[u]>> \in P
             /\ x = first'[u] \/ (<<first'[u], x>> \in P /\ \E y \in R \ {last'[u]} : link'[y].to = x)
             /\ x # last'[u] => link'[x].to \in R
             /\ \A y \in R : x # last'[u] /\ <<x, y>> \in P =>
                               y = link'[x].to \/ <<link'[x].to, y>> \in P
  <2>1. /\ x \in Entries /\ link[x].tag = "Both" /\ <<cur[u], x>> \in O
        /\ x = last[u] \/ <<x, last[u]>> \in O
        /\ x # last[u] => link[x].to \in R
    BY DEF RunIs
  <2>2. x = first[u] \/ (<<first[u], x>> \in O /\ \E y \in R \ {last[u]} : link[y].to = x)
    BY DEF RunIs
  <2>3. x = first'[u] \/ (<<first'[u], x>> \in P /\ \E y \in R \ {last'[u]} : link'[y].to = x)
    BY <1>2, <2>2
  <2>4. ASSUME NEW y \in R, x # last[u], <<x, y>> \in P
        PROVE  y = link[x].to \/ <<link[x].to, y>> \in P
    <3>1. <<x, y>> \in O
      BY <1>2, <2>4
    <3>2. y = link[x].to \/ <<link[x].to, y>> \in O
      BY <2>4, <3>1 DEF RunIs
    <3>3. link[x].to \in R
      BY <2>1, <2>4
    <3> QED BY <1>2, <3>2, <3>3
  <2> QED BY <1>2, <2>1, <2>3, <2>4
<1> QED BY <1>1, <1>3 DEF RunIs

\* The entry to claim is put at the end of the run.
LEMMA RunGrows ==
  ASSUME ListInv, PathTypes, NEW O, NEW run, Placement(O, run), NEW t \in Threads, Walked(t), Step(t),
         Claiming(t)
  PROVE  \E p \in Entries : /\ p = ptr[t].to /\ link[p].tag = "Second"
                            /\ RunIs(O, run[t] \cup {p}, t)'
<1>1. /\ TypeInv /\ WalkShape(t) /\ Placed(O, t) /\ Strict(O) /\ Forward(O, link)
      /\ RunIs(O, run[t], t)
      /\ pc \in [Threads -> PCs] /\ cur \in [Threads -> Addresses]
      /\ first \in [Threads -> Addresses] /\ last \in [Threads -> Addresses]
      /\ ptr \in [Threads -> Links] /\ link \in [Entries -> Links]
  BY Facts DEF Placement, TypeInv
<1>2. /\ pc[t] = "claim" /\ ~ended[t] /\ state[t].tag = "Second" /\ link[ptr[t].to] = state[t]
      /\ ptr[t].to # Null /\ ptr[t].to \in Entries
  BY <1>1, AtHand DEF Claiming, Claim, Walked, WalkShape
<1>3. PICK p \in Entries : p = ptr[t].to
  BY <1>2
<1>4. PICK R : R = run[t]
  OBVIOUS
<1>5. /\ first'[t] = (IF first[t] = Null THEN p ELSE first[t])
      /\ last'[t] = p /\ cur'[t] = cur[t] /\ ptr'[t] = state[t]
      /\ link'[p].tag = "Both" /\ link'[p].to = link[p].to
      /\ \A x \in Entries \ {p} : link'[x] = link[x]
  BY <1>1, <1>2, <1>3 DEF Claiming, Claim, Links
<1>6. <<cur[t], p>> \in O /\ (state[t].to # Null => <<p, state[t].to>> \in O) /\ p # Null
  BY <1>1, <1>2, <1>3 DEF Placed, Walking
<1>7. link[p].tag = "Second"
  BY <1>2, <1>3
<1>8. CASE first[t] = Null
  <2>1. R = {} /\ R \cup {p} = {p}
    BY <1>1, <1>4, <1>8 DEF RunIs
  <2>2. first'[t] = p
    BY <1>5, <1>8
  <2>3. RunIs(O, {p}, t)'
    BY <1>5, <1>6, <2>2 DEF RunIs
  <2> QED BY <1>3, <1>4, <1>7, <2>1, <2>3
<1>9. CASE first[t] # Null
  <2>1. last[t] # Null /\ link[last[t]].to = p
    BY <1>2, <1>3, <1>9 DEF Walked
  <2>2. first'[t] = first[t]
    BY <1>5, <1>9
  <2>3. first[t] \in R /\ last[t] \in R /\ <<last[t], p>> \in O
    BY <1>1, <1>2, <1>3, <1>4, <1>9 DEF RunIs
  <2>4. \A x \in R : /\ x \in Entries /\ link[x].tag = "Both" /\ <<cur[t], x>> \in O
                     /\ x = last[t] \/ <<x, last[t]>> \in O
                     /\ x = first[t] \/ <<first[t], x>> \in O
                     /\ x # last[t] => link[x].to \in R
    BY <1>1, <1>4 DEF RunIs
  <2>5. \A x \in R : x # p /\ <<x, p>> \in O /\ link'[x] = link[x] /\ x \in Entries
    BY <1>1, <1>5, <1>7, <2>3, <2>4 DEF Strict
  <2>6. ASSUME NEW x \in R \cup {p}
        PROVE  /\ x \in Entries /\ link'[x].tag = "Both" /\ <<cur'[t], x>> \in O
               /\ x = last'[t] \/ <<x, last'[t]>> \in O
               /\ x # last'[t] => link'[x].to \in R \cup {p}
    <3>1. CASE x = p
      BY <1>5, <1>6, <3>1
    <3>2. CASE x \in R
      BY <1>5, <2>1, <2>4, <2>5, <3>2
    <3> QED BY <3>1, <3>2
  <2>7. ASSUME NEW x \in R \cup {p}, x # first'[t]
        PROVE  <<first'[t], x>> \in O /\ \E y \in (R \cup {p}) \ {last'[t]} : link'[y].to = x
    <3>1. CASE x = p
      <4>1. <<first[t], p>> \in O
        BY <2>3, <2>5
      <4>2. link'[last[t]].to = p /\ last[t] \in (R \cup {p}) \ {last'[t]}
        BY <1>5, <2>1, <2>3, <2>5
      <4> QED BY <2>2, <3>1, <4>1, <4>2
    <3>2. CASE x \in R
      <4>1. <<first[t], x>> \in O /\ \E y \in R \ {last[t]} : link[y].to = x
        BY <1>1, <1>4, <2>2, <2>7, <3>2 DEF RunIs
      <4>2. PICK y \in R \ {last[t]} : link[y].to = x
        BY <4>1
      <4>3. y \in (R \cup {p}) \ {last'[t]} /\ link'[y].to = x
        BY <1>5, <2>5, <4>2
      <4> QED BY <2>2, <4>1, <4>3
    <3> QED BY <3>1, <3>2
  <2>8. ASSUME NEW x \in R \cup {p}, NEW y \in R \cup {p}, x # last'[t], <<x, y>> \in O
        PROVE  y = link'[x].to \/ <<link'[x].to, y>> \in O
    <3>1. x \in R /\ x # p /\ link'[x] = link[x]
      BY <1>5, <2>5, <2>8
    <3>2. CASE x = last[t]
      <4>1. y \notin R
        BY <1>1, <2>4, <2>8, <3>2 DEF Strict
      <4> QED BY <2>1, <3>1, <3>2, <4>1
    <3>3. CASE x # last[t] /\ y \in R
      BY <1>1, <1>4, <2>8, <3>1, <3>3 DEF RunIs
    <3>4. CASE x # last[t] /\ y = p
      <4>1. link[x].to \in R
        BY <2>4, <3>1, <3>4
      <4> QED BY <2>5, <3>1, <3>4, <4>1
    <3> QED BY <3>2, <3>3, <3>4
  <2>9. first'[t] \in R \cup {p} /\ last'[t] \in R \cup {p} /\ first'[t] # Null
        /\ (ptr'[t].to # Null => <<last'[t], ptr'[t].to>> \in O)
    BY <1>5, <1>6, <1>9, <2>2, <2>3
  <2>10. RunIs(O, R \cup {p}, t)'
    BY <2>6, <2>7, <2>8, <2>9 DEF RunIs
  <2> QED BY <1>3, <1>4, <1>7, <2>10
<1> QED BY <1>8, <1>9

\* The first entry of a run is made to point past it, or given back.
LEMMA RunShrinks ==
  ASSUME ListInv, PathTypes, NEW O, NEW run, Placement(O, run), NEW t \in Threads, Walked(t), Step(t),
         Unclaiming(t)
  PROVE  \E e \in Entries : e = first[t] /\ RunIs(O, run[t] \ {e}, t)'
<1>1. /\ TypeInv /\ WalkShape(t) /\ Strict(O) /\ Forward(O, link)
      /\ RunIs(O, run[t], t)
      /\ pc \in [Threads -> PCs] /\ cur \in [Threads -> Addresses]
      /\ first \in [Threads -> Addresses] /\ last \in [Threads -> Addresses]
      /\ ptr \in [Threads -> Links] /\ link \in [Entries -> Links]
  BY Facts DEF Placement, TypeInv
<1>2. first[t] # Null /\ first[t] \in Entries
  BY <1>1, AtHand DEF Unclaiming, Swap, WalkShape
<1>3. PICK e \in Entries : e = first[t]
  BY <1>2
<1>4. PICK R : R = run[t]
  OBVIOUS
<1>5. /\ first'[t] = (IF e = last[t] THEN Null ELSE link[e].to)
      /\ last' = last /\ cur' = cur /\ ptr' = ptr
      /\ \A x \in Entries \ {e} : link'[x] = link[x]
  BY <1>1, <1>2, <1>3 DEF Unclaiming, Swap, Restore
<1>6. /\ e \in R /\ last[t] \in R
      /\ ptr[t].to # Null => <<last[t], ptr[t].to>> \in O
  BY <1>1, <1>2, <1>3, <1>4 DEF RunIs
<1>7. \A x \in R : /\ x \in Entries /\ link[x].tag = "Both" /\ <<cur[t], x>> \in O
                   /\ x = last[t] \/ <<x, last[t]>> \in O
                   /\ x = e \/ (<<e, x>> \in O /\ \E y \in R \ {last[t]} : link[y].to = x)
                   /\ x # last[t] => link[x].to \in R
  BY <1>1, <1>3, <1>4 DEF RunIs
<1>8. \A x, y \in R : x # last[t] /\ <<x, y>> \in O => y = link[x].to \/ <<link[x].to, y>> \in O
  BY <1>1, <1>4 DEF RunIs
<1>9. \A x \in R \ {e} : link'[x] = link[x]
  BY <1>5, <1>7
<1>10. CASE e = last[t]
  <2>1. R \ {e} = {}
    BY <1>1, <1>7, <1>10 DEF Strict
  <2>2. first'[t] = Null
    BY <1>5, <1>10
  <2>3. RunIs(O, {}, t)'
    BY <2>2 DEF RunIs
  <2> QED BY <1>3, <1>4, <2>1, <2>3
<1>11. CASE e # last[t]
  <2>1. PICK f : f = link[e].to
    OBVIOUS
  <2>2. f \in R /\ f \in Entries /\ f # Null /\ first'[t] = f
    BY <1>5, <1>6, <1>7, <1>11, <2>1, Numbers
  <2>3. <<e, f>> \in O /\ f # e
    BY <1>1, <2>1, <2>2 DEF Forward, Strict
  <2>4. /\ f \in R \ {e} /\ last[t] \in R \ {e}
    BY <1>6, <1>11, <2>2, <2>3
  <2>5. ASSUME NEW x \in R \ {e}
        PROVE  /\ x \in Entries /\ link'[x].tag = "Both" /\ <<cur'[t], x>> \in O
               /\ x = last'[t] \/ <<x, last'[t]>> \in O
    BY <1>5, <1>7, <1>9
  <2>6. ASSUME NEW x \in R \ {e}, x # f
        PROVE  <<f, x>> \in O /\ \E y \in (R \ {e}) \ {last'[t]} : link'[y].to = x
    <3>1. <<e, x>> \in O
      BY <1>7
    <3>2. <<f, x>> \in O
      BY <1>6, <1>8, <1>11, <2>1, <2>6, <3>1
    <3>3. PICK y \in R \ {last[t]} : link[y].to = x
      BY <1>7
    <3>4. y # e
      BY <2>1, <2>6, <3>3
    <3>5. y \in (R \ {e}) \ {last'[t]} /\ link'[y].to = x
      BY <1>5, <1>9, <3>3, <3>4
    <3> QED BY <3>2, <3>5
  <2>7. ASSUME NEW x \in R \ {e}, x # last'[t] PROVE link'[x].to \in R \ {e}
    <3>1. link[x].to \in R /\ link[x].to \in Entries /\ x \in Entries
      BY <1>5, <1>7, <2>7
    <3>2. <<x, link[x].to>> \in O /\ <<e, x>> \in O
      BY <1>1, <1>7, <3>1, Numbers DEF Forward
    <3>3. link[x].to # e
      BY <1>1, <3>2 DEF Strict
    <3> QED BY <1>9, <3>1, <3>3
  <2>8. \A x, y \in R \ {e} : x # last'[t] /\ <<x, y>> \in O
                                => y = link'[x].to \/ <<link'[x].to, y>> \in O
    BY <1>5, <1>8, <1>9
  <2>9. ptr'[t].to # Null => <<last'[t], ptr'[t].to>> \in O
    BY <1>5, <1>6
  <2>10. RunIs(O, R \ {e}, t)'
    BY <1>5, <2>2, <2>4, <2>5, <2>6, <2>7, <2>8, <2>9 DEF RunIs
  <2> QED BY <1>3, <1>4, <2>10
<1> QED BY <1>10, <1>11

\* The other steps of a thread leave its run alone.
LEMMA RunWaits ==
  ASSUME ListInv, PathTypes, NEW O, NEW run, Placement(O, run), NEW t \in Threads, Walked(t), Step(t),
         NEW P, NEW H, Reorder(t, O, P, H), ~Claiming(t), ~Unclaiming(t)
  PROVE  RunIs(P, run[t], t)'
<1>1. /\ TypeInv /\ WalkShape(t) /\ Placed(O, t) /\ Strict(O) /\ Forward(O, link)
      /\ RunIs(O, run[t], t)
      /\ pc \in [Threads -> PCs] /\ first \in [Threads -> Addresses]
      /\ ptr \in [Threads -> Links]
  BY Facts DEF Placement, TypeInv
<1>2. CASE first[t] = Null
  <2>1. first'[t] = Null
    BY <1>1, <1>2 DEF Step, Enter, Leave, Mark, Unmark, SetTag, DeleteSelf, Push, PushLink, PushCas,
       PushFail, NextPtr, Load, WalkEnds, Walk, Claim, Take, Unlink, Release, Swap, Restore, Return,
       Collect, DropLink, Forget, local, Claiming, Unclaiming
  <2>2. run[t] = {}
    BY <1>1, <1>2 DEF RunIs
  <2>3. RunIs(P, {}, t)'
    BY <2>1 DEF RunIs
  <2> QED BY <2>2, <2>3
<1>3. CASE first[t] # Null
  <2>1. pc[t] \in Walking \ {"done"}
    BY <1>3 DEF Walked
  <2>2. WalkEnds(t) \/ Walk(t) \/ Claim(t) \/ Take(t) \/ Unlink(t) \/ Release(t)
    BY <1>3, <2>1 DEF Walking, Step, Enter, Leave, Mark, Unmark, SetTag, DeleteSelf, Push, PushLink,
       PushCas, PushFail, NextPtr, Return, Collect, DropLink, Unclaiming
  <2>3. P = O /\ H = {} /\ Agrees(O, P, H)
    BY <2>1 DEF Reorder, PushLink, Walking
  <2>4. first' = first /\ last' = last /\ cur' = cur
    BY <2>2 DEF WalkEnds, Walk, Claim, Claiming, Take, Unlink, Release, local
  <2>5. \A x \in run[t] : x \in Entries /\ link[x].tag = "Both"
    BY <1>1 DEF RunIs
  <2>6. \A x \in run[t] : link'[x] = link[x]
    BY <2>5, BothStays
  <2>7. ptr[t].to # Null => <<last[t], ptr[t].to>> \in O
    BY <1>1, <1>3 DEF RunIs
  <2>8. ptr'[t].to # Null => <<last[t], ptr'[t].to>> \in O
    <3>1. CASE WalkEnds(t) \/ Take(t) \/ Unlink(t) \/ Release(t)
      <4>1. ptr' = ptr
        BY <3>1 DEF WalkEnds, Take, Unlink, Release, local
      <4> QED BY <2>7, <4>1
    <3>2. CASE Walk(t)
      <4>1. /\ ptr'[t] = ptr[t] \/ ptr'[t] = link[ptr[t].to]
            /\ ptr[t].to # Null /\ ptr[t].to \in Entries
        BY <1>1, <3>2, AtHand DEF Walk
      <4>2. link[ptr[t].to].to # Null => <<ptr[t].to, link[ptr[t].to].to>> \in O
        BY <1>1, <4>1 DEF Forward
      <4> QED BY <1>1, <2>7, <4>1, <4>2 DEF Strict
    <3>3. CASE Claim(t)
      <4>1. pc[t] = "claim" /\ ptr'[t] = state[t] /\ ptr[t].to # Null
        BY <1>1, <3>3 DEF Claim, WalkShape
      <4>2. state[t].to # Null => <<ptr[t].to, state[t].to>> \in O
        BY <1>1, <4>1 DEF Placed
      <4> QED BY <1>1, <2>7, <4>1, <4>2 DEF Strict
    <3> QED BY <2>2, <3>1, <3>2, <3>3
  <2> QED BY <1>1, <2>3, <2>4, <2>6, <2>8, RunStays
<1> QED BY <1>2, <1>3

\* The runs of the other threads.
LEMMA RunOthers ==
  ASSUME ListInv, PathTypes, NEW O, NEW run, Placement(O, run), NEW t \in Threads, Walked(t), Step(t),
         NEW P, NEW H, Reorder(t, O, P, H), NEW u \in Threads \ {t}
  PROVE  RunIs(P, run[u], u)'
<1>1. RunIs(O, run[u], u) /\ RunIs(O, run[t], t) /\ run[t] \cap run[u] = {} /\ Agrees(O, P, H)
  BY DEF Placement, Runs, Reorder
<1>2. /\ cur'[u] = cur[u] /\ ptr'[u] = ptr[u] /\ first'[u] = first[u] /\ last'[u] = last[u]
  BY OthersPath
<1>3. \A x \in run[u] : x \in Entries /\ link[x].tag = "Both"
  BY <1>1 DEF RunIs
<1>4. Unclaiming(t) => first[t] # Null
  BY Facts DEF Unclaiming, Swap, WalkShape
<1>5. \A x \in run[u] : Unclaiming(t) => x # first[t]
  BY <1>1, <1>4 DEF RunIs
<1>6. \A x \in run[u] : link'[x] = link[x]
  BY <1>3, <1>5, BothStays
<1>7. /\ first[u] \notin H /\ last[u] \notin H /\ cur[u] \notin H /\ ptr[u].to \notin H
      /\ \A x \in run[u] : x \notin H
  <2>1. CASE PushLink(t)
    <3>1. H = {New(t)} /\ pc[t] \in Pushing
      BY <2>1 DEF Reorder, PushLink, Pushing
    <3>2. ~Deleted(New(t))
      BY <3>1, NewEntry
    <3> QED BY <1>3, <3>1, <3>2, PrivateFacts DEF Pointers, Deleted
  <2>2. CASE ~PushLink(t)
    BY <2>2 DEF Reorder
  <2> QED BY <2>1, <2>2
<1>8. first[u] # Null /\ ptr'[u].to # Null => <<last[u], ptr'[u].to>> \in P
  BY <1>1, <1>2, <1>7 DEF RunIs, Agrees
<1> QED BY <1>1, <1>2, <1>6, <1>7, <1>8, RunStays

\* Every step keeps the order and the runs.
LEMMA PlacementStep ==
  ASSUME ListInv, PathTypes, NEW O, NEW run, Placement(O, run), NEW t \in Threads, Walked(t), Step(t)
  PROVE  \E P, now : Placement(P, now)'
<1>1. PICK P, H : Reorder(t, O, P, H)
  BY OrderStep
<1>2. \A u \in Threads : Placed(P, u)'
  BY <1>1, PlacedOthers, PlacedStep
<1>3. Strict(P) /\ Forward(P, link)'
  BY <1>1 DEF Reorder
<1>4. \A u \in Threads \ {t} : RunIs(P, run[u], u)'
  BY <1>1, RunOthers
<1>5. ASSUME NEW R, RunIs(P, R, t)', \A u \in Threads \ {t} : R \cap run[u] = {},
             \A e \in Entries : link'[e].tag = "Both" => e \in R \/ \E u \in Threads \ {t} : e \in run[u]
      PROVE  \E now : Placement(P, now)'
  <2> DEFINE now == [u \in Threads |-> IF u = t THEN R ELSE run[u]]
  <2>1. now[t] = R /\ \A u \in Threads \ {t} : now[u] = run[u]
    OBVIOUS
  <2> HIDE DEF now
  <2>2. \A u \in Threads : RunIs(P, now[u], u)'
    <3>1. ASSUME NEW u \in Threads PROVE RunIs(P, now[u], u)'
      <4>1. CASE u = t
        BY <1>5, <2>1, <4>1
      <4>2. CASE u # t
        BY <1>4, <2>1, <4>2
      <4> QED BY <4>1, <4>2
    <3> QED BY <3>1
  <2>3. \A u, v \in Threads : u # v => now[u] \cap now[v] = {}
    <3>1. \A u, v \in Threads : u # v => run[u] \cap run[v] = {}
      BY DEF Placement, Runs
    <3> QED BY <1>5, <2>1, <3>1
  <2>4. \A e \in Entries : link'[e].tag = "Both" => \E u \in Threads : e \in now[u]
    BY <1>5, <2>1
  <2>5. Runs(now)'
    BY <2>3, <2>4 DEF Runs
  <2>6. Placement(P, now)'
    BY <1>2, <1>3, <2>2, <2>5 DEF Placement
  <2> QED BY <2>6
<1>6. /\ \A u \in Threads \ {t} : run[t] \cap run[u] = {}
      /\ \A e \in Entries : link[e].tag = "Both" => e \in run[t] \/ \E u \in Threads \ {t} : e \in run[u]
      /\ \A u \in Threads : \A x \in run[u] : link[x].tag = "Both"
  BY DEF Placement, Runs, RunIs
<1>7. \A e \in Entries : link'[e].tag = "Both" =>
        link[e].tag = "Both" \/ (Claiming(t) /\ e = ptr[t].to)
  BY BothStays
<1>8. CASE Claiming(t)
  <2>1. PICK p \in Entries : p = ptr[t].to /\ link[p].tag = "Second" /\ RunIs(O, run[t] \cup {p}, t)'
    BY <1>8, RunGrows
  <2>2. P = O
    BY <1>1, <1>8, Facts DEF Reorder, Claiming, Claim, PushLink
  <2>3. \A u \in Threads : p \notin run[u]
    BY <1>6, <2>1
  <2>4. \A u \in Threads \ {t} : (run[t] \cup {p}) \cap run[u] = {}
    BY <1>6, <2>3
  <2>5. \A e \in Entries : link'[e].tag = "Both" =>
          e \in run[t] \cup {p} \/ \E u \in Threads \ {t} : e \in run[u]
    BY <1>6, <1>7, <2>1
  <2> QED BY <1>5, <2>1, <2>2, <2>4, <2>5
<1>9. CASE Unclaiming(t)
  <2>1. PICK e \in Entries : e = first[t] /\ RunIs(O, run[t] \ {e}, t)'
    BY <1>9, RunShrinks
  <2>2. P = O
    BY <1>1, <1>9 DEF Reorder, Unclaiming, Swap, Restore, PushLink
  <2>3. link'[e].tag = "Second" /\ ~Claiming(t)
    BY <1>9, <2>1, BothStays DEF Claiming, Claim, Unclaiming, Swap, Restore
  <2>4. \A u \in Threads \ {t} : (run[t] \ {e}) \cap run[u] = {}
    BY <1>6
  <2>5. \A x \in Entries : link'[x].tag = "Both" =>
          x \in run[t] \ {e} \/ \E u \in Threads \ {t} : x \in run[u]
    BY <1>6, <1>7, <2>3
  <2> QED BY <1>5, <2>1, <2>2, <2>4, <2>5
<1>10. CASE ~Claiming(t) /\ ~Unclaiming(t)
  <2>1. RunIs(P, run[t], t)'
    BY <1>1, <1>10, RunWaits
  <2> QED BY <1>5, <1>6, <1>7, <1>10, <2>1
<1> QED BY <1>8, <1>9, <1>10

-----------------------------------------------------------------------------
(* Where a walk is                                                          *)

\* The links of a run are left alone by the other threads.
LEMMA RunLinks ==
  ASSUME ListInv, NEW O, NEW run, Placement(O, run), NEW t \in Threads, Walked(t), Step(t),
         NEW u \in Threads \ {t}, NEW x \in run[u]
  PROVE  link'[x] = link[x]
<1>1. RunIs(O, run[u], u) /\ RunIs(O, run[t], t) /\ run[t] \cap run[u] = {}
  BY DEF Placement, Runs
<1>2. x \in Entries /\ link[x].tag = "Both"
  BY <1>1 DEF RunIs
<1>3. Unclaiming(t) => first[t] # Null
  BY Facts DEF Unclaiming, Swap, WalkShape
<1>4. Unclaiming(t) => x # first[t]
  BY <1>1, <1>3 DEF RunIs
<1> QED BY <1>2, <1>4, BothStays

\* Where the other walks are.
LEMMA WalkedOthers ==
  ASSUME ListInv, PathTypes, NEW O, NEW run, Placement(O, run), NEW t \in Threads, Walked(t), Step(t),
         NEW u \in Threads \ {t}, Walked(u)
  PROVE  Walked(u)'
<1>1. /\ pc'[u] = pc[u] /\ cur'[u] = cur[u] /\ seen'[u] = seen[u]
      /\ ptr'[u] = ptr[u] /\ state'[u] = state[u] /\ first'[u] = first[u]
      /\ last'[u] = last[u] /\ ended'[u] = ended[u] /\ New(u)' = New(u)
  BY OthersPath
<1>2. first[u] # Null => link'[last[u]] = link[last[u]]
  <2>1. first[u] # Null => last[u] \in run[u]
    BY DEF Placement, RunIs
  <2> QED BY <2>1, RunLinks
<1>3. pc[u] = "push_cas" => link'[New(u)] = link[New(u)]
  <2> SUFFICES ASSUME pc[u] = "push_cas" PROVE link'[New(u)] = link[New(u)]
    OBVIOUS
  <2>1. pc[u] \in Pushing
    BY DEF Pushing
  <2>2. New(u) \in Entries /\ New(u) \notin Pointers(t) \cup own[t]
    BY <2>1, NewEntry, PrivateFacts
  <2> QED BY <2>2, LinkStep DEF Held
<1>4. seen[u].to # Null /\ cnt[seen[u].to] = 0 => cnt'[seen[u].to] = 0
  BY AtHand, PinStep
<1>5. freed \subseteq freed'
  BY FreedStep
<1>6. pc[u] \in {"walk", "claim"} /\ last[u] # Null => first[u] # Null
  BY DEF Walked
<1>7. pc'[u] = "push_cas" =>
        link'[New(u)'].to = seen'[u].to \/ (seen'[u].to # Null /\ cnt'[seen'[u].to] = 0)
  BY <1>1, <1>3, <1>4 DEF Walked
<1>8. pc'[u] \in {"walk", "claim"} =>
       /\ first'[u] = Null <=> last'[u] = Null
       /\ first'[u] # Null => first'[u] = seen'[u].to /\ seen'[u].tag # "Both"
       /\ ~ended'[u] /\ first'[u] = Null => ptr'[u].to = seen'[u].to
       /\ ~ended'[u] /\ last'[u] # Null => link'[last'[u]].to = ptr'[u].to
       /\ seen'[u].tag = "Both" => ended'[u]
  BY <1>1, <1>2, <1>6 DEF Walked
<1>9. /\ pc'[u] = "claim" => ~ended'[u] /\ state'[u].tag = "Second"
      /\ pc'[u] \in {"take", "cas"} => seen'[u].tag # "Both"
      /\ pc'[u] \notin Walking \/ pc'[u] = "done" => first'[u] = Null
      /\ pc'[u] = "drop" => cur'[u] \in freed'
  BY <1>1, <1>5 DEF Walked
<1> QED BY <1>7, <1>8, <1>9 DEF Walked, New

\* Where the walk is after a step of its own.
LEMMA WalkedStep ==
  ASSUME ListInv, PathTypes, NEW O, NEW run, Placement(O, run), NEW t \in Threads, Walked(t), Step(t)
  PROVE  Walked(t)'
<1>1. /\ TypeInv /\ CountsExact /\ WalkShape(t) /\ Placed(O, t) /\ Strict(O) /\ RunIs(O, run[t], t)
      /\ pc \in [Threads -> PCs] /\ cur \in [Threads -> Addresses]
      /\ seen \in [Threads -> Links] /\ ptr \in [Threads -> Links] /\ state \in [Threads -> Links]
      /\ first \in [Threads -> Addresses] /\ last \in [Threads -> Addresses]
      /\ ended \in [Threads -> BOOLEAN]
  BY Facts DEF Placement, TypeInv, PathTypes, ListInv
<1> USE DEF Goto, local
<1>2. ASSUME pc'[t] \notin Walking \cup {"push_cas", "drop"}, first'[t] = Null PROVE Walked(t)'
  BY <1>2 DEF Walked, Walking
<1>3. CASE Enter(t) \/ Leave(t) \/ Mark(t) \/ Unmark(t) \/ DeleteSelf(t) \/ Push(t)
  <2>1. pc[t] \in {"idle", "at"} /\ first' = first /\ pc'[t] \in {"idle", "at", "push"}
    BY <1>1, <1>3 DEF Enter, Leave, Mark, Unmark, DeleteSelf, SetTag, Push
  <2>2. first[t] = Null
    BY <2>1 DEF Walked, Walking
  <2> QED BY <1>2, <2>1, <2>2 DEF Walking
<1>4. CASE PushFail(t)
  <2>1. pc'[t] = "at" /\ first'[t] = Null
    BY <1>1, <1>4 DEF PushFail, Forget
  <2> QED BY <1>2, <2>1 DEF Walking
<1>5. CASE PushLink(t)
  <2>1. /\ pc[t] = "push" /\ pc[t] \in Pushing /\ pc'[t] = "push_cas" /\ own' = own
        /\ first' = first /\ seen' = seen
    BY <1>1, <1>5 DEF PushLink, Pushing
  <2>2. New(t)' = New(t)
    BY <2>1 DEF New
  <2>3. New(t) \in Entries
    BY <2>1, NewEntry
  <2>4. link'[New(t)].to = Linked(t)
    BY <1>1, <1>5, <2>3 DEF PushLink, Linked, TypeInv
  <2>5. Linked(t) = seen[t].to \/ (seen[t].to # Null /\ cnt'[seen[t].to] = 0)
    <3>1. CASE Alive(cnt, seen[t].to) \/ seen[t].to = Null
      BY <3>1 DEF Linked
    <3>2. CASE ~Alive(cnt, seen[t].to) /\ seen[t].to # Null
      <4>1. seen[t].to \in 1 .. alloc
        BY <3>2, AtHand
      <4>2. cnt[seen[t].to] = 0
        BY <1>1, <3>2, <4>1, CountFacts DEF Alive
      <4> QED BY <3>2, <4>1, <4>2, PinStep
    <3> QED BY <3>1, <3>2
  <2>6. first[t] = Null
    BY <2>1 DEF Walked, Walking
  <2> QED BY <2>1, <2>2, <2>4, <2>5, <2>6 DEF Walked, Walking
<1>6. CASE PushCas(t)
  <2>1. first[t] = Null
    BY <1>6 DEF PushCas, Walked, Walking
  <2>2. pc'[t] \in {"at", "push"} /\ first'[t] = Null
    BY <1>1, <1>6, <2>1 DEF PushCas, Forget
  <2> QED BY <1>2, <2>2 DEF Walking
<1>7. ASSUME NEW e \in Entries, Load(t, e), pc[t] \in {"idle", "at"} PROVE Walked(t)'
  <2>1. /\ pc'[t] = "walk" /\ seen'[t] = link[e] /\ ptr'[t] = link[e] /\ first' = first
        /\ last' = last /\ ended'[t] = (link[e].tag = "Both")
    BY <1>1, <1>7 DEF Load
  <2>2. first[t] = Null /\ last[t] = Null
    BY <1>1, <1>7 DEF WalkShape
  <2> QED BY <2>1, <2>2 DEF Walked, Walking
<1>8. CASE NextPtr(t)
  BY <1>7, <1>8, AtHand DEF NextPtr
<1>9. CASE Collect(t)
  <2>1. PICK e \in Entries : pc[t] = "idle" /\ (Load(t, e) \/ (first' = first /\ pc' = pc))
    BY <1>9 DEF Collect
  <2>2. CASE first' = first /\ pc' = pc
    BY <1>2, <2>1, <2>2 DEF Walking, Walked
  <2> QED BY <1>7, <2>1, <2>2
<1>10. CASE WalkEnds(t)
  <2>1. /\ pc[t] = "walk" /\ seen' = seen /\ first' = first
        /\ \/ pc'[t] = "take" /\ seen[t].tag # "Both"
           \/ pc'[t] = "done" /\ (seen[t].tag = "Both" \/ seen[t] = ptr[t])
    BY <1>1, <1>10 DEF WalkEnds
  <2>2. ASSUME pc'[t] = "done", first[t] # Null PROVE FALSE
    <3>1. first[t] = seen[t].to /\ seen[t].tag # "Both"
      BY <2>1, <2>2 DEF Walked
    <3>2. ptr[t].to = first[t]
      BY <2>1, <2>2, <3>1
    <3>3. <<last[t], first[t]>> \in O /\ (first[t] = last[t] \/ <<first[t], last[t]>> \in O)
      BY <1>1, <2>2, <3>2 DEF RunIs
    <3> QED BY <1>1, <3>3 DEF Strict
  <2> QED BY <2>1, <2>2 DEF Walked, Walking
<1>11. CASE Walk(t)
  <2>1. /\ pc[t] = "walk" /\ seen' = seen /\ first' = first /\ last' = last /\ link' = link
        /\ \/ /\ pc'[t] = "claim" /\ ~ended[t] /\ state'[t].tag = "Second" /\ ptr' = ptr
              /\ ended' = ended
           \/ pc'[t] = "walk" /\ ended'[t] = TRUE
    BY <1>1, <1>11 DEF Walk
  <2> QED BY <2>1 DEF Walked, Walking
<1>12. CASE Claim(t)
  <2>1. /\ pc[t] = "claim" /\ pc'[t] = "walk" /\ seen' = seen /\ ptr'[t] = state[t] /\ ~ended[t]
        /\ ptr[t].to # Null /\ ptr[t].to \in Entries
    BY <1>1, <1>12, AtHand DEF Claim, Walked, WalkShape
  <2>2. CASE link[ptr[t].to] = state[t]
    <3>1. /\ first'[t] = (IF first[t] = Null THEN ptr[t].to ELSE first[t])
          /\ last'[t] = ptr[t].to /\ link'[ptr[t].to].to = state[t].to
      BY <1>1, <1>12, <2>1, <2>2 DEF Claim, TypeInv, Links
    <3>2. first[t] = Null => ptr[t].to = seen[t].to
      BY <2>1 DEF Walked
    <3>3. seen[t].tag # "Both"
      BY <2>1 DEF Walked
    <3>4. first[t] # Null => first[t] = seen[t].to
      BY <2>1 DEF Walked
    <3>5. first'[t] = seen[t].to /\ first'[t] # Null /\ last'[t] # Null
      BY <2>1, <3>1, <3>2, <3>4
    <3> QED BY <2>1, <3>1, <3>3, <3>5 DEF Walked, Walking
  <2>3. CASE link[ptr[t].to] # state[t]
    <3>1. first' = first /\ last' = last /\ ended'[t] = TRUE
      BY <1>1, <1>12, <2>3 DEF Claim
    <3> QED BY <2>1, <3>1 DEF Walked, Walking
  <2> QED BY <2>2, <2>3
<1>13. CASE Take(t)
  <2>1. pc[t] = "take" /\ seen' = seen /\ pc'[t] \in {"restore", "cas"}
    BY <1>1, <1>13 DEF Take
  <2> QED BY <2>1 DEF Walked, Walking
<1>14. CASE Unlink(t) \/ Swap(t)
  <2>1. pc'[t] \in {"release", "restore"}
    BY <1>1, <1>14 DEF Unlink, Swap
  <2> QED BY <2>1 DEF Walked, Walking
<1>15. CASE Release(t)
  <2>1. pc'[t] \in {"done", "swap"} /\ first' = first /\ (pc'[t] = "done" => first[t] = Null)
    BY <1>1, <1>15 DEF Release
  <2> QED BY <2>1 DEF Walked, Walking
<1>16. CASE Restore(t)
  <2>1. pc'[t] \in {"done", "restore"} /\ (pc'[t] = "done" => first'[t] = Null)
    BY <1>1, <1>16 DEF Restore
  <2> QED BY <2>1 DEF Walked, Walking
<1>17. CASE Return(t)
  <2>1. /\ pc'[t] \in {"at", "drop"} /\ first'[t] = Null /\ freed' = freed
        /\ pc'[t] = "drop" => cur'[t] = cur[t] /\ cur[t] \in freed
    BY <1>1, <1>17 DEF Return, Forget
  <2> QED BY <2>1 DEF Walked, Walking
<1>18. CASE DropLink(t)
  <2>1. pc[t] = "drop" /\ pc'[t] = "idle" /\ first' = first
    BY <1>1, <1>18 DEF DropLink
  <2> QED BY <1>2, <2>1 DEF Walked, Walking
<1> QED BY <1>3, <1>4, <1>5, <1>6, <1>8, <1>9, <1>10, <1>11, <1>12, <1>13, <1>14, <1>15, <1>16,
           <1>17, <1>18 DEF Step

-----------------------------------------------------------------------------
(* What a step does to the live entries ahead                               *)

\* The entries of S go; those of N come to where x is.  Nobody goes on from an entry of H.
Flows(S, x, N, H) ==
  \A y \in Addresses \ H :
    LiveFrom(y)' = (LiveFrom(y) \ S) \cup (IF x \in LiveFrom(y) THEN N ELSE {})

Pushed(t) == PushCas(t) /\ link[cur[t]] = seen[t]

FlowCase(t, S, x, N, H) ==
  /\ Flows(S, x, N, H)
  /\ S = {} \/ (DeleteSelf(t) /\ S = {cur[t]})
  /\ IF Pushed(t) THEN N = {New(t)} /\ x = cur[t] ELSE N = {}
  /\ \/ H = {}
     \/ PushLink(t) /\ H = {New(t)}
     \/ DropLink(t) /\ H = {cur[t]}

\* Nothing is ahead of a deleted entry but what is ahead of its link.
LEMMA SkipDeleted ==
  ASSUME ListInv, NEW e \in Entries, Deleted(e)
  PROVE  LiveFrom(link[e].to) = LiveFrom(e)
<1>1. Chain(link)
  BY DEF ListInv, TypeInv, Chain
<1>2. Ahead(link, e) = {e} \cup Ahead(link, link[e].to)
  BY <1>1, AheadStep
<1>3. e \notin LiveSet
  BY DEF LiveSet
<1> QED BY <1>2, <1>3 DEF LiveFrom

\* The links lead to the same entries as before.
LEMMA FlowSteady ==
  ASSUME TypeInv, TypeInv', \A z \in Entries : link'[z].to = link[z].to
  PROVE  \A y \in Addresses : LiveFrom(y)' = Ahead(link, y) \cap LiveSet'
<1>1. Chain(link) /\ Chain(link')
  BY DEF TypeInv, Chain
<1>2. ASSUME NEW y \in Addresses PROVE Ahead(link', y) = Ahead(link, y)
  <2>1. \A z \in Ahead(link, y) : z # Null => link'[z].to = link[z].to
    BY <1>1, AheadFacts
  <2> QED BY <1>1, <2>1, AheadSame
<1> QED BY <1>2 DEF LiveFrom

\* A new entry is put behind a live one: it is ahead of all that has that one ahead.
LEMMA FlowPush ==
  ASSUME ListInv, TypeInv', NEW O, NEW run, Placement(O, run), NEW t \in Threads, Walked(t),
         Step(t), PushCas(t), link[cur[t]] = seen[t],
         NEW g \in {"None", "First"}, Put(cur[t], [to |-> New(t), tag |-> g])
  PROVE  Flows({}, cur[t], {New(t)}, {})
<1>1. pc[t] = "push_cas" /\ pc[t] \in Pushing /\ pc[t] # "idle" /\ WalkShape(t) /\ TypeInv /\ CountsExact
  BY Facts DEF PushCas, Pushing, ListInv
<1>2. PICK x : x = cur[t]
  OBVIOUS
<1>3. PICK n : n = New(t)
  OBVIOUS
<1>4. /\ x \in Entries /\ x \in 1 .. alloc /\ n \in Entries /\ n # x
      /\ ~Deleted(n)
  BY <1>1, <1>2, <1>3, AtHand, NewEntry DEF Pointers
<1>5. link[n].to = link[x].to
  <2>1. link[n].to = seen[t].to \/ (seen[t].to # Null /\ cnt[seen[t].to] = 0)
    BY <1>1, <1>3 DEF Walked
  <2>2. seen[t].to # Null => cnt[seen[t].to] # 0
    BY <1>1, <1>2, <1>4, AtHand, CountFacts
  <2> QED BY <1>2, <2>1, <2>2
<1>6. Chain(link) /\ Chain(link')
  BY <1>1 DEF TypeInv, Chain
<1>7. OneLink(link, link', x) /\ link'[x].to = n
  BY <1>2, <1>3 DEF Put, OneLink
<1>8. \A y \in Addresses : Ahead(link', y) = Ahead(link, y) \cup (IF x \in Ahead(link, y) THEN {n} ELSE {})
  BY <1>4, <1>5, <1>6, <1>7, Insert
<1>9. LiveSet' = LiveSet /\ x \in LiveSet /\ n \in LiveSet
  <2>1. link[x].tag \notin {"Second", "Both"}
    BY <1>1, <1>2 DEF WalkShape
  <2>2. link'[x].tag \notin {"Second", "Both"} /\ \A z \in Entries \ {x} : link'[z] = link[z]
    BY <1>2 DEF Put
  <2> QED BY <1>4, <2>1, <2>2 DEF LiveSet, Deleted
<1>10. ASSUME NEW y \in Addresses
       PROVE  LiveFrom(y)' = LiveFrom(y) \cup (IF x \in LiveFrom(y) THEN {n} ELSE {})
  <2>1. LiveFrom(y)' = Ahead(link', y) \cap LiveSet
    BY <1>9 DEF LiveFrom
  <2>2. x \in LiveFrom(y) <=> x \in Ahead(link, y)
    BY <1>9 DEF LiveFrom
  <2>3. Ahead(link', y) = Ahead(link, y) \cup (IF x \in Ahead(link, y) THEN {n} ELSE {})
    BY <1>8
  <2> QED BY <1>9, <2>1, <2>2, <2>3 DEF LiveFrom
<1> QED BY <1>2, <1>3, <1>10 DEF Flows

\* A link is moved past deleted entries.
LEMMA FlowReroute ==
  ASSUME ListInv, TypeInv', NEW O, Strict(O), Forward(O, link), NEW x \in Entries, NEW l, Put(x, l),
         l.to # Null => <<x, l.to>> \in O, LiveFrom(link[x].to) = LiveFrom(l.to),
         l.tag \in {"Second", "Both"} <=> Deleted(x)
  PROVE  \A y \in Addresses : LiveFrom(y)' = LiveFrom(y)
<1>1. Chain(link) /\ Chain(link')
  BY DEF ListInv, TypeInv, Chain
<1>2. OneLink(link, link', x) /\ link'[x].to = l.to
  BY DEF Put, OneLink
<1>3. LiveSet' = LiveSet
  BY DEF LiveSet, Put, Deleted
<1>4. Ahead(link, link[x].to) \cap LiveSet = Ahead(link, link'[x].to) \cap LiveSet
  BY <1>2 DEF LiveFrom
<1>5. link'[x].to # Null => <<x, link'[x].to>> \in O
  BY <1>2
<1>6. \A y \in Addresses : Ahead(link', y) \cap LiveSet = Ahead(link, y) \cap LiveSet
  BY <1>1, <1>2, <1>4, <1>5, Reroute
<1> QED BY <1>3, <1>6 DEF LiveFrom

\* The link of an entry that no link leads to.
LEMMA FlowHidden ==
  ASSUME ListInv, TypeInv', NEW x \in Entries, NEW l, Put(x, l), \A z \in Entries : link[z].to # x
  PROVE  \A y \in Addresses \ {x} : LiveFrom(y)' = LiveFrom(y)
<1>1. Chain(link) /\ Chain(link')
  BY DEF ListInv, TypeInv, Chain
<1>2. ASSUME NEW y \in Addresses, y # x PROVE LiveFrom(y)' = LiveFrom(y)
  <2>1. x \notin Ahead(link, y)
    BY <1>1, <1>2, NotAhead
  <2>2. \A z \in Ahead(link, y) : z # Null => z \in Entries /\ link'[z] = link[z]
    BY <1>1, <2>1, AheadFacts DEF Put
  <2>3. Ahead(link', y) = Ahead(link, y)
    BY <1>1, <2>2, AheadSame
  <2>4. \A z \in Ahead(link, y) : z \in LiveSet' <=> z \in LiveSet
    BY <2>2, Numbers DEF LiveSet, Deleted
  <2> QED BY <2>3, <2>4 DEF LiveFrom
<1> QED BY <1>2

\* Every step, by the entries that it adds and takes away.
LEMMA FlowStep ==
  ASSUME ListInv, TypeInv', NEW O, NEW run, Placement(O, run), NEW t \in Threads, Walked(t), Flow(t),
         Step(t)
  PROVE  \E S, x, N, H : FlowCase(t, S, x, N, H)
<1>1. /\ LinkCase(t) /\ WalkShape(t) /\ Placed(O, t) /\ RunIs(O, run[t], t) /\ TypeInv
      /\ Strict(O) /\ Forward(O, link)
  BY LinkCases, Facts DEF Placement
<1>2. first[t] # Null => first[t] \in run[t] /\ link[first[t]].tag = "Both"
  BY <1>1 DEF RunIs
<1>3. ASSUME ~Pushed(t), \A y \in Addresses : LiveFrom(y)' = LiveFrom(y)
      PROVE  \E S, x, N, H : FlowCase(t, S, x, N, H)
  <2>1. Flows({}, Head, {}, {})
    BY <1>3 DEF Flows
  <2>2. FlowCase(t, {}, Head, {}, {})
    BY <1>3, <2>1 DEF FlowCase
  <2> QED BY <2>2
<1>4. ASSUME ~Pushed(t), NEW x \in Entries, Put(x, [to |-> link[x].to, tag |-> link'[x].tag]),
             link'[x].tag \in {"Second", "Both"} <=> Deleted(x)
      PROVE  \E S, y, N, H : FlowCase(t, S, y, N, H)
  <2>1. \A z \in Entries : link'[z].to = link[z].to
    BY <1>4 DEF Put
  <2>2. LiveSet' = LiveSet
    BY <1>4 DEF LiveSet, Put, Deleted
  <2>3. \A y \in Addresses : LiveFrom(y)' = LiveFrom(y)
    BY <1>1, <2>1, <2>2, FlowSteady DEF LiveFrom
  <2> QED BY <1>3, <1>4, <2>3
<1>5. CASE link' = link
  <2>1. ~Pushed(t)
    <3>1. ASSUME Pushed(t) PROVE FALSE
      <4>1. pc[t] \in Pushing /\ pc[t] # "idle"
        BY <3>1 DEF Pushed, PushCas, Pushing
      <4>2. cur[t] \in Entries /\ link[cur[t]].to # New(t)
        BY <4>1, AtHand, NewEntry
      <4>3. link'[cur[t]].to = New(t)
        BY <1>1, <3>1, <4>2 DEF Pushed, PushCas, TypeInv
      <4> QED BY <1>5, <4>2, <4>3
    <3> QED BY <3>1
  <2>2. \A y \in Addresses : LiveFrom(y)' = LiveFrom(y)
    BY <1>5 DEF LiveFrom, LiveSet, Deleted
  <2> QED BY <1>3, <2>1, <2>2
<1>6. CASE /\ Mark(t) \/ Unmark(t)
           /\ link[cur[t]].tag \in {"None", "First"}
           /\ \E g \in {"None", "First"} : Tagging(t, g)
  <2>1. pc[t] = "at" /\ ~Pushed(t)
    BY <1>6 DEF Tagging, Pushed, PushCas
  <2>2. /\ cur[t] \in Entries /\ link'[cur[t]].tag \in {"None", "First"} /\ ~Deleted(cur[t])
        /\ Put(cur[t], [to |-> link[cur[t]].to, tag |-> link'[cur[t]].tag])
    BY <1>6 DEF Tagging, Put, Deleted
  <2> QED BY <1>4, <2>1, <2>2
<1>7. CASE DeleteSelf(t) /\ link[cur[t]].tag \in {"None", "First"} /\ Tagging(t, "Second")
  <2>1. pc[t] = "at" /\ ~Pushed(t) /\ cur[t] \in Entries
    BY <1>7 DEF Tagging, Pushed, PushCas, Put
  <2>2. \A z \in Entries : link'[z].to = link[z].to
    BY <1>7 DEF Tagging, Put
  <2>3. LiveSet' = LiveSet \ {cur[t]}
    BY <1>7, <2>1 DEF LiveSet, Tagging, Put, Deleted
  <2>4. \A y \in Addresses : LiveFrom(y)' = LiveFrom(y) \ {cur[t]}
    <3>1. \A y \in Addresses : LiveFrom(y)' = Ahead(link, y) \cap LiveSet'
      BY <1>1, <2>2, FlowSteady
    <3> QED BY <2>3, <3>1 DEF LiveFrom
  <2>5. Flows({cur[t]}, Head, {}, {})
    BY <2>4 DEF Flows
  <2>6. FlowCase(t, {cur[t]}, Head, {}, {})
    BY <1>7, <2>1, <2>5 DEF FlowCase
  <2> QED BY <2>6
<1>8. CASE PushLink(t) /\ Put(New(t), [to |-> Linked(t), tag |-> "None"])
  <2>1. pc[t] = "push" /\ pc[t] \in Pushing /\ ~Pushed(t)
    BY <1>8 DEF PushLink, Pushing, Pushed, PushCas
  <2>2. New(t) \in Entries /\ \A z \in Entries : link[z].to # New(t)
    BY <2>1, NewEntry
  <2>3. PICK n : n = New(t)
    OBVIOUS
  <2>4. \A y \in Addresses \ {n} : LiveFrom(y)' = LiveFrom(y)
    BY <1>8, <2>2, <2>3, FlowHidden
  <2>5. Flows({}, Head, {}, {n})
    BY <2>4 DEF Flows
  <2>6. FlowCase(t, {}, Head, {}, {n})
    BY <1>8, <2>1, <2>3, <2>5 DEF FlowCase
  <2> QED BY <2>6
<1>9. CASE /\ PushCas(t) /\ link[cur[t]] = seen[t]
           /\ \E g \in {"None", "First"} : Put(cur[t], [to |-> New(t), tag |-> g])
  <2>1. Flows({}, cur[t], {New(t)}, {})
    BY <1>9, FlowPush
  <2>2. FlowCase(t, {}, cur[t], {New(t)}, {})
    BY <1>9, <2>1 DEF FlowCase, Pushed
  <2> QED BY <2>2
<1>10. CASE /\ Claim(t) /\ link[ptr[t].to] = state[t]
            /\ Put(ptr[t].to, [to |-> state[t].to, tag |-> "Both"])
  <2>1. pc[t] = "claim" /\ ~Pushed(t) /\ ptr[t].to \in Entries
    BY <1>10 DEF Claim, Pushed, PushCas, Put
  <2>2. /\ Deleted(ptr[t].to) /\ link'[ptr[t].to].tag = "Both"
        /\ Put(ptr[t].to, [to |-> link[ptr[t].to].to, tag |-> link'[ptr[t].to].tag])
    BY <1>10, <2>1 DEF Put, Deleted, Walked
  <2> QED BY <1>4, <2>1, <2>2
<1>11. CASE /\ Unlink(t) /\ link[cur[t]] = seen[t]
            /\ Put(cur[t], [to |-> ptr[t].to, tag |-> seen[t].tag])
  <2>1. pc[t] = "cas" /\ pc[t] \in Walking /\ ~Pushed(t) /\ cur[t] \in Entries
    BY <1>11 DEF Unlink, Pushed, PushCas, Put, Walking
  <2>2. ptr[t].to # Null => <<cur[t], ptr[t].to>> \in O
    BY <1>1, <2>1 DEF Placed
  <2>3. LiveFrom(link[cur[t]].to) = LiveFrom(ptr[t].to)
    BY <1>11, <2>1 DEF Flow
  <2>4. seen[t].tag \in {"Second", "Both"} <=> Deleted(cur[t])
    BY <1>11 DEF Deleted
  <2>5. PICK l : l = [to |-> ptr[t].to, tag |-> seen[t].tag]
    OBVIOUS
  <2>6. l.to = ptr[t].to /\ l.tag = seen[t].tag /\ Put(cur[t], l)
    BY <1>11, <2>5
  <2>7. \A y \in Addresses : LiveFrom(y)' = LiveFrom(y)
    BY <1>1, <2>1, <2>2, <2>3, <2>4, <2>6, FlowReroute
  <2> QED BY <1>3, <2>1, <2>7
<1>12. CASE Swap(t) /\ Put(first[t], [to |-> ptr[t].to, tag |-> "Second"])
  <2>1. /\ pc[t] = "swap" /\ pc[t] \in Walking /\ ~Pushed(t) /\ first[t] \in Entries
        /\ first[t] # Null
    BY <1>1, <1>12 DEF Swap, Pushed, PushCas, Put, Walking, WalkShape
  <2>2. ptr[t].to # Null => <<first[t], ptr[t].to>> \in O
    <3>1. first[t] = last[t] \/ <<first[t], last[t]>> \in O
      BY <1>1, <2>1 DEF RunIs
    <3>2. ptr[t].to # Null => <<last[t], ptr[t].to>> \in O
      BY <1>1, <2>1 DEF RunIs
    <3> QED BY <1>1, <3>1, <3>2 DEF Strict
  <2>3. Deleted(first[t])
    BY <1>2, <2>1 DEF Deleted
  <2>4. LiveFrom(link[first[t]].to) = LiveFrom(ptr[t].to)
    BY <2>1, <2>3, SkipDeleted DEF Flow
  <2>5. PICK l : l = [to |-> ptr[t].to, tag |-> "Second"]
    OBVIOUS
  <2>6. l.to = ptr[t].to /\ l.tag = "Second" /\ Put(first[t], l)
    BY <1>12, <2>5
  <2>7. \A y \in Addresses : LiveFrom(y)' = LiveFrom(y)
    BY <1>1, <2>1, <2>2, <2>3, <2>4, <2>6, FlowReroute
  <2> QED BY <1>3, <2>1, <2>7
<1>13. CASE /\ Restore(t) /\ first[t] # Null
            /\ Put(first[t], [to |-> link[first[t]].to, tag |-> "Second"])
  <2>1. pc[t] = "restore" /\ ~Pushed(t) /\ first[t] \in Entries
    BY <1>13 DEF Restore, Pushed, PushCas, Put
  <2>2. /\ Deleted(first[t]) /\ link'[first[t]].tag = "Second"
        /\ Put(first[t], [to |-> link[first[t]].to, tag |-> link'[first[t]].tag])
    BY <1>2, <1>13, <2>1 DEF Put, Deleted
  <2> QED BY <1>4, <2>1, <2>2
<1>14. CASE DropLink(t) /\ Put(cur[t], [to |-> Null, tag |-> "Second"])
  <2>1. pc[t] = "drop" /\ ~Pushed(t) /\ cur[t] \in Entries /\ cur[t] \in freed
    BY <1>14 DEF DropLink, Pushed, PushCas, Put, Walked
  <2>2. cur[t] \in 1 .. alloc /\ cnt[cur[t]] = 0
    BY <2>1, Numbers DEF ListInv, FreedInv, TypeInv
  <2>3. \A z \in Entries : link[z].to # cur[t]
    BY <1>1, <2>1, <2>2, Facts, CountFacts, Numbers DEF ListInv
  <2>4. \A y \in Addresses \ {cur[t]} : LiveFrom(y)' = LiveFrom(y)
    BY <1>14, <2>1, <2>3, FlowHidden
  <2>5. Flows({}, Head, {}, {cur[t]})
    BY <2>4 DEF Flows
  <2>6. FlowCase(t, {}, Head, {}, {cur[t]})
    BY <1>14, <2>1, <2>5 DEF FlowCase
  <2> QED BY <2>6
<1> QED BY <1>1, <1>5, <1>6, <1>7, <1>8, <1>9, <1>10, <1>11, <1>12, <1>13, <1>14 DEF LinkCase

\* What the links of a walk lead to has not been dropped.
LEMMA AheadIsKept ==
  ASSUME ListInv, NEW O, NEW run, Placement(O, run), NEW u \in Threads, pc[u] \in Walking
  PROVE  /\ seen[u].to \notin freed /\ ptr[u].to \notin freed /\ first[u] \notin freed
         /\ pc[u] = "claim" => state[u].to \notin freed
<1>1. Strict(O) /\ Placed(O, u) /\ RunIs(O, run[u], u) /\ Kept(u) /\ FreedInv /\ WalkShape(u)
      /\ Null \notin freed
  BY Numbers DEF Placement, ListInv, TypeInv
<1>2. \A e \in Pointers(u) : e \in freed => e = cur[u]
  BY <1>1 DEF Kept, FreedInv, Held
<1>3. /\ seen[u].to # Null => seen[u].to # cur[u]
      /\ ptr[u].to # Null => ptr[u].to # cur[u]
  BY <1>1 DEF Placed, Strict
<1>4. first[u] # Null => first[u] # cur[u]
  BY <1>1 DEF RunIs, Strict
<1>5. pc[u] = "claim" /\ state[u].to # Null => state[u].to # cur[u]
  <2> SUFFICES ASSUME pc[u] = "claim", state[u].to # Null PROVE state[u].to # cur[u]
    OBVIOUS
  <2>1. ptr[u].to # Null
    BY <1>1 DEF WalkShape
  <2>2. <<cur[u], ptr[u].to>> \in O /\ <<ptr[u].to, state[u].to>> \in O
    BY <1>1, <2>1 DEF Placed
  <2> QED BY <1>1, <2>2 DEF Strict
<1> QED BY <1>1, <1>2, <1>3, <1>4, <1>5 DEF Pointers

\* The other threads lose nothing of what is ahead of them.
LEMMA FlowOthers ==
  ASSUME ListInv, PathTypes, TypeInv', NEW O, NEW run, Placement(O, run), NEW t \in Threads, Walked(t),
         Flow(t), Step(t), NEW u \in Threads \ {t}, Flow(u)
  PROVE  Flow(u)'
<1>1. PICK S, x, N, H : FlowCase(t, S, x, N, H)
  BY FlowStep
<1>2. /\ pc'[u] = pc[u] /\ seen'[u] = seen[u]
      /\ ptr'[u] = ptr[u] /\ state'[u] = state[u] /\ first'[u] = first[u]
      /\ behind'[u] = IF DeleteSelf(t) THEN behind[u] \ {cur[t]} ELSE behind[u]
  BY OthersPath
<1>0. pc[u] \notin Walking => behind'[u] = {}
  BY <1>2 DEF Flow
<1> SUFFICES ASSUME pc[u] \in Walking
             PROVE  /\ LiveFrom(seen[u].to)' = LiveFrom(ptr[u].to)'
                    /\ first'[u] # Null => LiveFrom(first[u])' = LiveFrom(ptr[u].to)'
                    /\ pc'[u] = "claim" => LiveFrom(state[u].to)' = LiveFrom(ptr[u].to)'
                    /\ behind'[u] \subseteq LiveFrom(ptr[u].to)'
  BY <1>0, <1>2 DEF Flow
<1>3. PICK s, p, f, r : s = seen[u].to /\ p = ptr[u].to /\ f = first[u] /\ r = state[u].to
  OBVIOUS
<1>4. s \in Addresses /\ p \in Addresses /\ f \in Addresses /\ r \in Addresses
  BY <1>3, Facts DEF TypeInv, Links, Addresses
<1>5. s \notin H /\ p \notin H /\ f \notin H /\ (pc[u] = "claim" => r \notin H)
  <2>1. CASE H = {}
    BY <2>1
  <2>2. CASE PushLink(t) /\ H = {New(t)}
    <3>1. pc[t] \in Pushing
      BY <2>2 DEF PushLink, Pushing
    <3> QED BY <1>3, <2>2, <3>1, PrivateFacts DEF Pointers
  <2>3. CASE DropLink(t) /\ H = {cur[t]}
    <3>1. cur[t] \in freed
      BY <2>3 DEF DropLink, Walked
    <3> QED BY <1>3, <2>3, <3>1, AheadIsKept
  <2> QED BY <1>1, <2>1, <2>2, <2>3 DEF FlowCase
<1>6. \A y \in Addresses \ H :
        LiveFrom(y)' = (LiveFrom(y) \ S) \cup (IF x \in LiveFrom(y) THEN N ELSE {})
  BY <1>1 DEF FlowCase, Flows
<1>7. /\ LiveFrom(s) = LiveFrom(p) /\ (f # Null => LiveFrom(f) = LiveFrom(p))
      /\ pc[u] = "claim" => LiveFrom(r) = LiveFrom(p)
      /\ behind[u] \subseteq LiveFrom(p)
  BY <1>3 DEF Flow
<1>8. /\ LiveFrom(s)' = LiveFrom(p)' /\ (f # Null => LiveFrom(f)' = LiveFrom(p)')
      /\ pc[u] = "claim" => LiveFrom(r)' = LiveFrom(p)'
  BY <1>4, <1>5, <1>6, <1>7
<1>9. behind'[u] \subseteq LiveFrom(p)'
  <2>1. behind'[u] \subseteq behind[u] \ S
    BY <1>1, <1>2 DEF FlowCase
  <2>2. LiveFrom(p) \ S \subseteq LiveFrom(p)'
    BY <1>4, <1>5, <1>6
  <2> QED BY <1>7, <2>1, <2>2
<1> QED BY <1>2, <1>3, <1>8, <1>9

\* A walk loses nothing of what is ahead of it.
LEMMA FlowWalk ==
  ASSUME ListInv, PathTypes, TypeInv', NEW O, NEW run, Placement(O, run), NEW t \in Threads, Walked(t),
         Flow(t), Step(t)
  PROVE  Flow(t)'
<1>1. /\ TypeInv /\ WalkShape(t) /\ RunIs(O, run[t], t)
      /\ pc \in [Threads -> PCs]
      /\ seen \in [Threads -> Links] /\ ptr \in [Threads -> Links] /\ state \in [Threads -> Links]
      /\ first \in [Threads -> Addresses] /\ last \in [Threads -> Addresses]
      /\ behind \in [Threads -> SUBSET Entries]
      /\ \A e \in Entries : link[e].to \in Addresses
      /\ \A e \in Links : e.to \in Addresses
      /\ Null \in Addresses
  BY Facts DEF Placement, TypeInv, PathTypes, Links, Addresses
<1> USE DEF Goto, local
<1>2. ASSUME pc'[t] \notin Walking, behind'[t] = {} PROVE Flow(t)'
  BY <1>2 DEF Flow
<1>3. CASE \/ Enter(t) \/ Leave(t) \/ Mark(t) \/ Unmark(t) \/ DeleteSelf(t) \/ Push(t) \/ PushFail(t)
           \/ PushLink(t) \/ PushCas(t) \/ Return(t) \/ DropLink(t)
  <2>1. pc'[t] \in {"idle", "at", "push", "push_cas", "drop"}
    BY <1>1, <1>3 DEF Enter, Leave, Mark, Unmark, DeleteSelf, SetTag, Push, PushFail, PushLink,
       PushCas, Return, DropLink
  <2>2. Return(t) \/ pc[t] \in {"idle", "at", "push", "push_cas", "drop"}
    BY <1>3 DEF Enter, Leave, Mark, Unmark, DeleteSelf, SetTag, Push, PushFail, PushLink,
       PushCas, DropLink
  <2>3. Return(t) \/ behind[t] = {}
    BY <2>2 DEF Flow, Walking
  <2>4. behind'[t] = {}
    BY <1>1, <1>3, <2>3 DEF Enter, Leave, Mark, Unmark, DeleteSelf, SetTag, Push, PushFail, PushLink,
       PushCas, Return, DropLink
  <2> QED BY <1>2, <2>1, <2>4 DEF Walking
<1>4. CASE \/ NextPtr(t) \/ WalkEnds(t) \/ Walk(t) \/ Claim(t) \/ Take(t) \/ Unlink(t) \/ Release(t)
           \/ Swap(t) \/ Restore(t) \/ Collect(t)
  <2>1. \A y \in Addresses : LiveFrom(y)' = LiveFrom(y)
    <3>1. PICK S, x, N, H : FlowCase(t, S, x, N, H)
      BY FlowStep
    <3>2. ~DeleteSelf(t) /\ ~Pushed(t) /\ ~PushLink(t) /\ ~DropLink(t)
      <4>1. pc[t] \notin {"push", "push_cas", "drop"}
        BY <1>4 DEF NextPtr, WalkEnds, Walk, Claim, Take, Unlink, Release, Swap, Restore, Collect
      <4>2. ~DeleteSelf(t)
        <5>1. ASSUME DeleteSelf(t) PROVE FALSE
          <6>1. pc[t] = "at" /\ pc' = pc
            BY <5>1 DEF DeleteSelf, SetTag
          <6>2. NextPtr(t)
            BY <1>4, <6>1 DEF WalkEnds, Walk, Claim, Take, Unlink, Release, Swap, Restore, Collect
          <6> QED BY <1>1, <6>1, <6>2 DEF NextPtr, Load
        <5> QED BY <5>1
      <4> QED BY <4>1, <4>2 DEF Pushed, PushCas, PushLink, DropLink
    <3>3. S = {} /\ N = {} /\ H = {}
      BY <3>1, <3>2 DEF FlowCase
    <3> QED BY <3>1, <3>3 DEF FlowCase, Flows
  <2>2. ASSUME NEW s \in Addresses, NEW p \in Addresses, NEW f \in Addresses, NEW r \in Addresses,
               seen'[t].to = s, ptr'[t].to = p, first'[t] = f, state'[t].to = r,
               pc'[t] \in Walking, LiveFrom(s) = LiveFrom(p), f # Null => LiveFrom(f) = LiveFrom(p),
               pc'[t] = "claim" => LiveFrom(r) = LiveFrom(p), behind'[t] \subseteq LiveFrom(p)
        PROVE  Flow(t)'
    <3>1. /\ LiveFrom(s)' = LiveFrom(p)' /\ (f # Null => LiveFrom(f)' = LiveFrom(p)')
          /\ pc'[t] = "claim" => LiveFrom(r)' = LiveFrom(p)'
          /\ behind'[t] \subseteq LiveFrom(p)'
      BY <2>1, <2>2
    <3> QED BY <2>2, <3>1 DEF Flow
  <2>3. ASSUME NEW e \in Entries, Load(t, e), pc[t] \in {"idle", "at"} PROVE Flow(t)'
    <3>1. /\ seen'[t] = link[e] /\ ptr'[t] = link[e] /\ first'[t] = Null /\ pc'[t] = "walk"
          /\ behind'[t] = Live(Behind(e)) /\ state' = state
      BY <1>1, <2>3 DEF Load, WalkShape
    <3>2. behind'[t] = LiveFrom(link[e].to)
      BY <1>1, <3>1, LiveBehind
    <3>3. pc'[t] \in Walking
      BY <3>1 DEF Walking
    <3> QED BY <1>1, <2>2, <3>1, <3>2, <3>3
  <2>4. CASE NextPtr(t)
    BY <2>3, <2>4, AtHand DEF NextPtr
  <2>5. CASE Collect(t)
    <3>1. PICK e \in Entries : pc[t] = "idle" /\ (Load(t, e) \/ (pc' = pc /\ behind' = behind))
      BY <2>5 DEF Collect
    <3>2. behind[t] = {}
      BY <3>1 DEF Flow, Walking
    <3> QED BY <1>2, <2>3, <3>1, <3>2 DEF Walking
  <2>6. ASSUME pc[t] \in Walking
        PROVE  /\ LiveFrom(seen[t].to) = LiveFrom(ptr[t].to)
               /\ first[t] # Null => LiveFrom(first[t]) = LiveFrom(ptr[t].to)
               /\ pc[t] = "claim" => LiveFrom(state[t].to) = LiveFrom(ptr[t].to)
               /\ behind[t] \subseteq LiveFrom(ptr[t].to)
               /\ seen[t].to \in Addresses /\ ptr[t].to \in Addresses /\ first[t] \in Addresses
               /\ state[t].to \in Addresses
    BY <1>1, <2>6 DEF Flow
  <2>7. CASE WalkEnds(t) \/ Take(t) \/ Unlink(t) \/ Release(t)
    <3>1. /\ pc[t] \in Walking /\ pc'[t] \in Walking \ {"claim"} /\ seen' = seen /\ ptr' = ptr /\ first' = first
          /\ state' = state /\ behind' = behind
      BY <1>1, <2>7 DEF WalkEnds, Take, Unlink, Release, Walking
    <3> QED BY <2>2, <2>6, <3>1
  <2>8. CASE Walk(t)
    <3>1. /\ pc[t] \in Walking /\ pc'[t] \in Walking /\ ptr[t].to \in Entries /\ Deleted(ptr[t].to) /\ seen' = seen
          /\ first' = first /\ behind' = behind
          /\ \/ ptr' = ptr /\ state'[t] = link[ptr[t].to]
             \/ ptr'[t] = link[ptr[t].to] /\ state' = state /\ pc'[t] # "claim"
      BY <1>1, <2>8, AtHand DEF Walk, Walking
    <3>2. LiveFrom(link[ptr[t].to].to) = LiveFrom(ptr[t].to) /\ link[ptr[t].to].to \in Addresses
      BY <1>1, <3>1, SkipDeleted
    <3> QED BY <2>2, <2>6, <3>1, <3>2
  <2>9. CASE Claim(t)
    <3>1. /\ pc[t] = "claim" /\ pc[t] \in Walking /\ pc'[t] = "walk" /\ seen' = seen
          /\ pc'[t] \in Walking /\ behind' = behind /\ ptr'[t] = state[t] /\ state'[t] = NoLink
          /\ first'[t] = first[t] \/ first'[t] = ptr[t].to
      BY <1>1, <2>9 DEF Claim, Walking
    <3>2. NoLink.to \in Addresses
      BY <1>1 DEF NoLink
    <3>3. first[t] # Null \/ first'[t] = Null \/ first'[t] = ptr[t].to
      BY <3>1
    <3>4. first'[t] # Null => LiveFrom(first'[t]) = LiveFrom(state[t].to)
      BY <2>6, <3>1
    <3>5. first'[t] \in Addresses
      BY <2>6, <3>1
    <3> QED BY <2>2, <2>6, <3>1, <3>2, <3>4, <3>5
  <2>10. CASE Swap(t) \/ Restore(t)
    <3>1. /\ pc[t] \in Walking /\ pc'[t] \in Walking \ {"claim"} /\ seen' = seen /\ ptr' = ptr /\ state' = state
          /\ behind' = behind
          /\ \/ first'[t] = Null
             \/ first[t] # Null /\ first'[t] = link[first[t]].to
      BY <1>1, <2>10 DEF Swap, Restore, Walking, WalkShape
    <3>2. first[t] # Null => first[t] \in Entries /\ Deleted(first[t])
      BY <1>1 DEF RunIs, Deleted
    <3>3. first[t] # Null => /\ LiveFrom(link[first[t]].to) = LiveFrom(first[t])
                             /\ link[first[t]].to \in Addresses
      BY <1>1, <3>2, SkipDeleted
    <3>4. /\ first'[t] # Null => LiveFrom(first'[t]) = LiveFrom(ptr[t].to)
          /\ first'[t] \in Addresses
      BY <1>1, <2>6, <3>1, <3>3
    <3> QED BY <2>2, <2>6, <3>1, <3>4
  <2> QED BY <1>4, <2>4, <2>5, <2>7, <2>8, <2>9, <2>10
<1> QED BY <1>3, <1>4 DEF Step

-----------------------------------------------------------------------------
(* The entries of the list                                                  *)

\* A thread comes to an entry from the head and along the links, but for one it drops.
LEMMA ComesAlong ==
  ASSUME ListInv, NEW t \in Threads, Step(t), NEW e \in Entries, e # Head,
         \A x \in Entries : link[x].to # e, e \notin Loaded(t)
  PROVE  e \notin Loaded(t)' /\ (e = cur'[t] => e = cur[t] \/ e \in freed')
<1>1. /\ TypeInv /\ WalkShape(t)
      /\ pc \in [Threads -> PCs] /\ cur \in [Threads -> Addresses]
      /\ seen \in [Threads -> Links] /\ ptr \in [Threads -> Links] /\ state \in [Threads -> Links]
      /\ first \in [Threads -> Addresses] /\ last \in [Threads -> Addresses]
      /\ e # Null /\ NoLink.to = Null
  BY Facts, Numbers DEF TypeInv, NoLink
<1>2. pc[t] # "idle" => cur[t] \in Entries
  BY AtHand
<1>3. /\ ptr[t].to # Null => ptr[t].to \in Entries
      /\ first[t] # Null => first[t] \in Entries
  BY AtHand
<1> USE DEF Goto, local
<1>4. ASSUME UNCHANGED <<seen, ptr, state, first, last>>
      PROVE  e \notin Loaded(t)'
  BY <1>4 DEF Loaded
<1>5. CASE Enter(t) \/ Leave(t) \/ DropLink(t)
  <2>1. UNCHANGED <<seen, ptr, state, first, last>> /\ cur'[t] \in {Head, Null}
    BY <1>1, <1>5 DEF Enter, Leave, DropLink
  <2> QED BY <1>1, <1>4, <2>1
<1>6. CASE Mark(t) \/ Unmark(t) \/ DeleteSelf(t) \/ PushLink(t) \/ WalkEnds(t) \/ Take(t) \/ Unlink(t)
           \/ Release(t)
  <2>1. UNCHANGED <<seen, ptr, state, first, last>> /\ cur' = cur
    BY <1>6 DEF Mark, Unmark, DeleteSelf, SetTag, PushLink, WalkEnds, Take, Unlink, Release
  <2> QED BY <1>1, <1>4, <2>1
<1>7. CASE Push(t)
  <2>1. /\ cur' = cur /\ UNCHANGED <<ptr, state, first, last>> /\ seen'[t] = link[cur[t]]
        /\ cur[t] \in Entries
    BY <1>1, <1>2, <1>7 DEF Push
  <2> QED BY <2>1 DEF Loaded
<1>8. ASSUME Forget(t) PROVE e \notin Loaded(t)'
  BY <1>1, <1>8 DEF Forget, Loaded
<1>9. CASE PushCas(t)
  <2>1. /\ cur' = cur
        /\ \/ Forget(t)
           \/ UNCHANGED <<ptr, state, first, last>> /\ seen'[t] = link[cur[t]] /\ cur[t] \in Entries
    BY <1>1, <1>2, <1>9 DEF PushCas
  <2> QED BY <1>8, <2>1 DEF Loaded
<1>10. CASE PushFail(t)
  BY <1>8, <1>10 DEF PushFail
<1>11. ASSUME NEW x \in Entries, Load(t, x) PROVE e \notin Loaded(t)' /\ cur'[t] = x
  <2>1. UNCHANGED <<state, first, last>> /\ seen'[t] = link[x] /\ ptr'[t] = link[x] /\ cur'[t] = x
    BY <1>1, <1>11 DEF Load
  <2> QED BY <2>1 DEF Loaded
<1>12. CASE NextPtr(t)
  BY <1>2, <1>11, <1>12 DEF NextPtr
<1>13. CASE Collect(t)
  <2>1. PICK x \in Entries : /\ freed' = freed \cup {x}
                             /\ Load(t, x) \/ UNCHANGED <<seen, ptr, state, first, last, cur>>
    BY <1>13 DEF Collect
  <2> QED BY <1>4, <1>11, <2>1
<1>14. CASE Walk(t)
  <2>1. /\ cur' = cur /\ UNCHANGED <<seen, first, last>> /\ ptr[t].to \in Entries
        /\ ptr'[t] = ptr[t] \/ ptr'[t] = link[ptr[t].to]
        /\ state'[t] = state[t] \/ state'[t] = link[ptr[t].to]
    BY <1>1, <1>3, <1>14 DEF Walk
  <2> QED BY <2>1 DEF Loaded
<1>15. CASE Claim(t)
  <2>1. /\ cur' = cur /\ seen' = seen /\ ptr'[t] = state[t] /\ state'[t] = NoLink
        /\ first'[t] \in {first[t], ptr[t].to} /\ last'[t] \in {last[t], ptr[t].to}
    BY <1>1, <1>15 DEF Claim
  <2> QED BY <1>1, <2>1 DEF Loaded
<1>16. CASE Swap(t) \/ Restore(t)
  <2>1. /\ cur' = cur /\ UNCHANGED <<seen, ptr, state, last>>
        /\ \/ first'[t] \in {first[t], Null}
           \/ first[t] # Null /\ first'[t] = link[first[t]].to
    BY <1>1, <1>16 DEF Swap, Restore, WalkShape
  <2> QED BY <1>1, <1>3, <2>1 DEF Loaded
<1>17. CASE Return(t)
  <2>1. Forget(t) /\ cur'[t] \in {cur[t], ptr[t].to}
    BY <1>1, <1>17 DEF Return
  <2> QED BY <1>8, <2>1 DEF Loaded
<1> QED BY <1>5, <1>6, <1>7, <1>9, <1>10, <1>12, <1>13, <1>14, <1>15, <1>16, <1>17 DEF Step

\* An entry has a count as long as somebody owns it.
OwnedInv ==
  \A e \in 1 .. alloc :
    cnt[e] = 0 <=> /\ \A x \in 1 .. alloc : link[x].to # e
                   /\ \A t \in Threads : e \notin own[t]
                   /\ e # Head

\* The count is 0 exactly if there is no owner.
LEMMA Owned == TypeInv /\ CountsExact => OwnedInv
<1> SUFFICES ASSUME TypeInv, CountsExact, NEW e \in 1 .. alloc
             PROVE  cnt[e] = 0 <=> /\ \A x \in 1 .. alloc : link[x].to # e
                                   /\ \A t \in Threads : e \notin own[t]
                                   /\ e # Head
  BY DEF OwnedInv
<1>1. ASSUME \A x \in 1 .. alloc : link[x].to # e, \A t \in Threads : e \notin own[t], e # Head
      PROVE  cnt[e] = 0
  <2>1. Linking(e) = {} /\ Holding(e) = {} /\ Root(e) = 0
    BY <1>1 DEF Linking, Holding, Root
  <2>2. Cardinality(Linking(e)) = 0 /\ Cardinality(Holding(e)) = 0
    BY <2>1, FS_EmptySet
  <2>3. Owners(e) = 0
    BY <2>1, <2>2, OwnersFacts
  <2> QED BY <2>3, CountFacts
<1> QED BY <1>1, CountFacts

\* The same after a step.
LEMMA OwnedNext == TypeInv' /\ CountsExact' => OwnedInv'
<1>1. (TypeInv /\ CountsExact => OwnedInv)'
  BY Owned, PTL
<1> QED BY <1>1

\* Entries stay allocated, and the one that push_back allocates is in its hands.
LEMMA AllocGrows ==
  ASSUME ListInv, TypeInv', NEW t \in Threads, Step(t)
  PROVE  /\ \A e \in 1 .. alloc : e \in 1 .. alloc'
         /\ \A e \in 1 .. alloc' :
              e \notin 1 .. alloc => pc'[t] \in Pushing /\ e \in own'[t] /\ cnt'[e] # 0
<1>1. TypeInv /\ alloc \in Nat
  BY Facts, Numbers DEF TypeInv
<1>2. CASE Push(t)
  <2>1. /\ alloc' = alloc + 1 /\ pc'[t] = "push" /\ own'[t] = own[t] \cup {alloc'}
        /\ alloc' \in Entries /\ cnt'[alloc'] = 1
    BY <1>1, <1>2, Numbers DEF Push, Goto, Count, NewShared, TypeInv
  <2> QED BY <1>1, <2>1 DEF Pushing
<1>3. CASE ~Push(t)
  <2>1. alloc' = alloc
    BY <1>3 DEF Step, Enter, Leave, Mark, Unmark, SetTag, DeleteSelf, PushLink, PushCas, PushFail,
       NextPtr, Load, WalkEnds, Walk, Claim, Take, Unlink, Release, Swap, Restore, Return,
       Collect, DropLink
  <2> QED BY <2>1
<1> QED BY <1>2, <1>3

\* An entry of the list that is not deleted stays in the list.
LEMMA ListedStays ==
  ASSUME ListInv, TypeInv', CountsExact', LiveInv, NEW O, NEW run, Placement(O, run), NEW t \in Threads,
         Walked(t), Flow(t), Step(t), NEW e \in Listed, ~Deleted(e)'
  PROVE  e \in LiveFrom(Head)' /\ cnt'[e] # 0
<1>1. PICK S, x, N, H : FlowCase(t, S, x, N, H)
  BY FlowStep
<1>2. e \in Entries /\ e \in 1 .. alloc /\ ~Deleted(e)
  BY CountFacts, DeletedStays DEF Listed, ListInv
<1>3. e \in LiveFrom(Head)
  BY <1>2 DEF LiveInv
<1>4. Head \in Addresses \ H
  <2>1. Head \in Addresses
    BY Numbers DEF Addresses
  <2>2. ASSUME PushLink(t) PROVE Head # New(t)
    BY <2>2, NewEntry DEF PushLink, Pushing
  <2>3. ASSUME DropLink(t) PROVE Head # cur[t]
    <3>1. cur[t] \in freed
      BY <2>3 DEF DropLink, Walked
    <3>2. cur[t] \in Entries
      BY <3>1 DEF ListInv, TypeInv
    <3>3. cur[t] \in 1 .. alloc /\ cnt[cur[t]] = 0
      BY <3>1, <3>2, Numbers DEF ListInv, FreedInv, TypeInv
    <3> QED BY <3>3, CountFacts DEF ListInv
  <2> QED BY <1>1, <2>1, <2>2, <2>3 DEF FlowCase
<1>5. e \notin S
  <2>1. ASSUME DeleteSelf(t), e = cur[t] PROVE FALSE
    <3>1. link'[e].tag = "Second"
      BY <1>2, <2>1, Facts DEF DeleteSelf, SetTag, TypeInv, Links
    <3> QED BY <3>1 DEF Deleted
  <2> QED BY <1>1, <2>1 DEF FlowCase
<1>6. e \in LiveFrom(Head)'
  BY <1>1, <1>3, <1>4, <1>5 DEF FlowCase, Flows
<1>7. cnt'[e] # 0
  <2>1. e \in 1 .. alloc'
    BY <1>2, AllocGrows
  <2>2. e \in Ahead(link', Head) /\ Chain(link') /\ Head \in Addresses
    BY <1>4, <1>6 DEF LiveFrom, TypeInv, Chain
  <2>3. e = Head \/ \E z \in Entries : link'[z].to = e
    BY <2>2, NotAhead
  <2>4. e = Head \/ \E z \in 1 .. alloc' : link'[z].to = e
    <3>1. AllocInv'
      BY AllocStep
    <3>2. \A z \in Entries : link'[z].to = e => z \in 1 .. alloc'
      BY <1>2, <3>1, Numbers DEF AllocInv, TypeInv
    <3> QED BY <2>3, <3>2
  <2> QED BY <2>1, <2>4, OwnedNext DEF OwnedInv
<1> QED BY <1>6, <1>7

\* Every step keeps the live entries of the list within reach of the head.
LEMMA LiveStep ==
  ASSUME ListInv, ListInv', PathTypes, LiveInv, HiddenInv, NEW O, NEW run, Placement(O, run),
         NEW t \in Threads, Walked(t), Flow(t), Step(t)
  PROVE  LiveInv'
<1>1. TypeInv' /\ CountsExact' /\ TypeInv /\ CountsExact
  BY DEF ListInv
<1>2. SUFFICES ASSUME NEW e \in Listed', ~Deleted(e)' PROVE e \in LiveFrom(Head)'
  BY DEF LiveInv
<1>3. CASE e \in Listed
  BY <1>1, <1>2, <1>3, ListedStays
<1>4. CASE e \notin Listed
  <2>1. e \in 1 .. alloc' /\ cnt'[e] # 0 /\ \A u \in Threads : pc'[u] \in Pushing => e \notin own'[u]
    BY <1>2 DEF Listed
  <2>2. e \in 1 .. alloc
    BY <1>1, <2>1, AllocGrows
  <2>3. cnt[e] # 0
    BY <2>1, <2>2, PinStep
  <2>4. PICK u \in Threads : pc[u] \in Pushing /\ e \in own[u]
    BY <1>4, <2>2, <2>3 DEF Listed
  <2>5. u = t
    BY <2>1, <2>4, OthersPath
  <2>6. pc[t] \in Pushing /\ own[t] = {New(t)} /\ e = New(t)
    BY <2>4, <2>5, NewEntry
  <2>7. ASSUME PushFail(t) PROVE FALSE
    <3>1. link' = link /\ own'[t] = {} /\ alloc' = alloc
      BY <1>1, <2>7 DEF PushFail, TypeInv
    <3>2. \A x \in 1 .. alloc : link[x].to # e
      BY <1>1, <2>6, NewEntry, Exact
    <3>3. \A v \in Threads : e \notin own'[v]
      BY <2>6, <3>1, PrivateFacts, OthersPath
    <3>4. e # Head
      BY <2>6, NewEntry
    <3> QED BY <1>1, <2>1, <3>1, <3>2, <3>3, <3>4, OwnedNext DEF OwnedInv
  <2>8. ASSUME ~PushFail(t), ~Pushed(t) PROVE FALSE
    <3>1. PushLink(t) \/ PushCas(t)
      BY <2>6, <2>8 DEF Step, Enter, Leave, Mark, Unmark, SetTag, DeleteSelf, Push, NextPtr, WalkEnds,
         Walk, Claim, Take, Unlink, Release, Swap, Restore, Return, Collect, DropLink, Pushing
    <3>2. pc'[t] \in Pushing /\ own' = own
      BY <1>1, <2>8, <3>1 DEF PushLink, PushCas, Pushed, Goto, Pushing, TypeInv
    <3> QED BY <2>1, <2>6, <3>2
  <2>9. CASE Pushed(t)
    <3>1. PICK S, x, N, H : FlowCase(t, S, x, N, H)
      BY <1>1, FlowStep
    <3>2. pc[t] = "push_cas" /\ link[cur[t]] = seen[t]
      BY <2>9 DEF Pushed, PushCas
    <3>3. N = {e} /\ x = cur[t] /\ Head \in Addresses \ H
      BY <2>6, <2>9, <3>1, <3>2, Numbers
         DEF FlowCase, PushLink, DropLink, Addresses
    <3>4. cur[t] \in Entries /\ cur[t] \in 1 .. alloc /\ cur[t] \in Held(t)
      BY <3>2, AtHand, Numbers DEF Held, Pointers
    <3>5. ~Deleted(cur[t])
      BY <3>2, Facts DEF WalkShape, Deleted
    <3>6. cur[t] \notin freed
      BY <3>2, <3>4 DEF ListInv, Kept, FreedInv
    <3>7. cnt[cur[t]] # 0
      BY <3>4, <3>5, <3>6 DEF HiddenInv
    <3>8. \A v \in Threads : pc[v] \in Pushing => cur[t] \notin own[v]
      BY NewEntry, PrivateFacts DEF Pointers
    <3>9. cur[t] \in LiveFrom(Head)
      BY <3>4, <3>5, <3>7, <3>8 DEF LiveInv, Listed
    <3> QED BY <3>1, <3>3, <3>9 DEF FlowCase, Flows
  <2> QED BY <2>7, <2>8, <2>9
<1> QED BY <1>3, <1>4

\* Every step keeps the entries without owners out of the threads' hands.
LEMMA HiddenStep ==
  ASSUME ListInv, ListInv', PathTypes, LiveInv, HiddenInv, NEW O, NEW run, Placement(O, run),
         NEW t \in Threads, Walked(t), Flow(t), Step(t)
  PROVE  HiddenInv'
<1>1. TypeInv' /\ CountsExact' /\ TypeInv /\ CountsExact
  BY DEF ListInv
<1>2. SUFFICES ASSUME NEW e \in 1 .. alloc', cnt'[e] = 0, ~Deleted(e)', NEW u \in Threads
               PROVE  e \notin Loaded(u)' /\ (e = cur'[u] => e \in freed')
  BY DEF HiddenInv
<1>3. e \in 1 .. alloc /\ e \in Entries
  BY <1>1, <1>2, AllocGrows, Exact
<1>4. ~Deleted(e)
  BY <1>2, <1>3, DeletedStays
<1>5. freed \subseteq freed'
  BY FreedStep
<1>6. /\ \A v \in Threads : e \notin Loaded(v) /\ (e = cur[v] => e \in freed)
      /\ \A x \in Entries : link[x].to # e
      /\ e # Head
  <2>1. CASE cnt[e] = 0
    <3>1. \A v \in Threads : e \notin Loaded(v) /\ (e = cur[v] => e \in freed)
      BY <1>3, <1>4, <2>1 DEF HiddenInv
    <3>2. e # Head /\ \A x \in 1 .. alloc : link[x].to # e
      BY <1>1, <1>3, <2>1, CountFacts
    <3>3. \A x \in Entries : link[x].to = e => x \in 1 .. alloc
      BY <1>3, Facts, Numbers
    <3> QED BY <3>1, <3>2, <3>3
  <2>2. CASE cnt[e] # 0
    <3>1. e \notin Listed
      BY <1>1, <1>2, ListedStays
    <3>2. PICK v \in Threads : pc[v] \in Pushing /\ e \in own[v]
      BY <1>3, <2>2, <3>1 DEF Listed
    <3>3. e = New(v)
      BY <3>2, NewEntry
    <3> QED BY <3>2, <3>3, NewEntry, PrivateFacts DEF Pointers, Loaded
  <2> QED BY <2>1, <2>2
<1>7. CASE u = t
  <2>1. e \notin Loaded(t)' /\ (e = cur'[t] => e = cur[t] \/ e \in freed')
    BY <1>3, <1>6, ComesAlong
  <2> QED BY <1>5, <1>6, <1>7, <2>1
<1>8. CASE u # t
  BY <1>5, <1>6, <1>8, OthersPath
<1> QED BY <1>7, <1>8

\* Every step keeps the invariant of the paths.
LEMMA NextPathInv ==
  ListInv /\ ListInv' /\ PathInv /\ [Next]_vars => PathInv'
<1>1. ASSUME ListInv, ListInv', PathInv, NEW t \in Threads, Step(t) PROVE PathInv'
  <2>1. PathTypes /\ HiddenInv /\ LiveInv /\ TypeInv'
    BY <1>1 DEF PathInv, ListInv
  <2>2. PICK O, run : Placement(O, run)
    BY <1>1 DEF PathInv
  <2>3. \A u \in Threads : Walked(u) /\ Flow(u)
    BY <1>1 DEF PathInv
  <2>4. PathTypes'
    BY <1>1, <2>1, PathTypesStep
  <2>5. LiveInv' /\ HiddenInv'
    BY <1>1, <2>1, <2>2, <2>3, LiveStep, HiddenStep
  <2>6. \E P, now : Placement(P, now)'
    BY <1>1, <2>1, <2>2, <2>3, PlacementStep
  <2>7. ASSUME NEW u \in Threads PROVE Walked(u)' /\ Flow(u)'
    <3>1. CASE u = t
      BY <1>1, <2>1, <2>2, <2>3, <3>1, WalkedStep, FlowWalk
    <3>2. CASE u # t
      BY <1>1, <2>1, <2>2, <2>3, <3>2, WalkedOthers, FlowOthers
    <3> QED BY <3>1, <3>2
  <2> QED BY <2>4, <2>5, <2>6, <2>7 DEF PathInv
<1>2. Next <=> \E t \in Threads : Step(t)
  BY DEF Next, Step
<1>3. ASSUME PathInv, UNCHANGED vars PROVE PathInv'
  <2>1. UNCHANGED <<link, cnt, alloc, freed, pc, cur, seen, ptr, state, first, last, ended, own, behind>>
    BY <1>3 DEF vars
  <2>2. PICK O, run : Placement(O, run)
    BY <1>3 DEF PathInv
  <2>3. Placement(O, run)'
    BY <2>1, <2>2 DEF Placement, Forward, Placed, RunIs, Runs, New
  <2>4. PathTypes' /\ HiddenInv' /\ LiveInv'
    BY <1>3, <2>1 DEF PathInv, PathTypes, HiddenInv, LiveInv, Listed, Loaded, LiveFrom, LiveSet, Deleted
  <2>5. \A u \in Threads : Walked(u)' /\ Flow(u)'
    BY <1>3, <2>1 DEF PathInv, Walked, Flow, LiveFrom, LiveSet, Deleted, New
  <2> QED BY <2>3, <2>4, <2>5 DEF PathInv
<1> QED BY <1>1, <1>2, <1>3

\* The invariant of the paths, at first.
LEMMA InitPathInv == Init => PathInv
<1> SUFFICES ASSUME Init PROVE PathInv
  OBVIOUS
<1>1. /\ Initial \in Nat /\ 1 <= Initial /\ Initial <= MaxEntries /\ MaxEntries \in Nat
      /\ alloc = Initial
  BY ListAssumption DEF Init
<1>2. \A e \in Entries : /\ link[e].tag = "None"
                         /\ link[e].to = (IF e < Initial THEN e + 1 ELSE Null)
  BY DEF Init
<1>3. /\ \A t \in Threads : /\ cur[t] = Null /\ seen[t] = NoLink /\ ptr[t] = NoLink
                            /\ state[t] = NoLink /\ first[t] = Null /\ last[t] = Null
                            /\ own[t] = {} /\ pc[t] = "idle"
  BY DEF Init
<1>4. NoLink.to = Null
  BY DEF NoLink
<1>5. TypeInv
  BY InitListInv DEF ListInv
<1>6. PathTypes
  BY DEF Init, PathTypes
<1>7. HiddenInv
  <2>1. \A u \in Threads : Loaded(u) = {Null}
    BY <1>3, <1>4 DEF Loaded
  <2>2. \A e \in 1 .. alloc : e # Null
    BY <1>1, Numbers
  <2> QED BY <1>3, <2>1, <2>2 DEF HiddenInv
<1>8. LiveInv
  <2> DEFINE T == {n \in Nat : n + 1 <= Initial => n + 1 \in Ahead(link, Head)}
  <2>1. Chain(link) /\ Head \in Addresses
    BY <1>5, Numbers DEF TypeInv, Chain, Addresses
  <2>2. 0 \in T
    BY <2>1, AheadFacts, Numbers
  <2>3. ASSUME NEW n \in Nat, n \in T PROVE n + 1 \in T
    <3>1. SUFFICES ASSUME (n + 1) + 1 <= Initial PROVE (n + 1) + 1 \in Ahead(link, Head)
      OBVIOUS
    <3>2. n + 1 \in Ahead(link, Head) /\ n + 1 \in Entries /\ n + 1 < Initial /\ n + 1 # Null
      BY <1>1, <2>3, <3>1, Numbers
    <3>3. link[n + 1].to = (n + 1) + 1
      BY <1>2, <3>2
    <3> QED BY <2>1, <3>2, <3>3, AheadFacts
  <2>4. Nat \subseteq T
    <3> HIDE DEF T
    <3> QED BY <2>2, <2>3, Induction
  <2>5. ASSUME NEW e \in 1 .. alloc PROVE e \in LiveFrom(Head)
    <3>1. e - 1 \in T /\ e - 1 \in Nat /\ (e - 1) + 1 = e /\ e <= Initial
      BY <1>1, <2>4
    <3>2. e \in Ahead(link, Head)
      BY <3>1
    <3>3. e \in Entries /\ link[e].tag = "None"
      BY <1>1, <1>2, Numbers
    <3> QED BY <3>2, <3>3 DEF LiveFrom, LiveSet, Deleted
  <2> QED BY <2>5 DEF LiveInv, Listed
<1>9. \A t \in Threads : Walked(t) /\ Flow(t)
  <2>1. \A t \in Threads : behind[t] = {}
    BY DEF Init
  <2> QED BY <1>3, <2>1 DEF Walked, Flow, Walking
<1>10. \E O, run : Placement(O, run)
  <2> DEFINE O == {p \in Entries \X Entries : p[1] < p[2]}
             run == [t \in Threads |-> {}]
  <2>1. O \in SUBSET (Entries \X Entries) /\ \A x, y : <<x, y>> \in O <=> x \in Entries /\ y \in Entries /\ x < y
    OBVIOUS
  <2>2. \A t \in Threads : run[t] = {}
    OBVIOUS
  <2> HIDE DEF O, run
  <2>3. Strict(O)
    BY <2>1, Numbers DEF Strict
  <2>4. Forward(O, link)
    <3>1. ASSUME NEW x \in Entries, link[x].to # Null PROVE <<x, link[x].to>> \in O
      BY <1>1, <1>2, <2>1, <3>1, Numbers
    <3> QED BY <3>1 DEF Forward
  <2>5. \A t \in Threads : Placed(O, t) /\ RunIs(O, run[t], t)
    BY <1>3, <2>2 DEF Placed, RunIs, Pushing, Walking
  <2>6. Runs(run)
    BY <1>2, <2>2 DEF Runs
  <2>7. Placement(O, run)
    BY <2>3, <2>4, <2>5, <2>6 DEF Placement
  <2> QED BY <2>7
<1> QED BY <1>6, <1>7, <1>8, <1>9, <1>10 DEF PathInv

-----------------------------------------------------------------------------
(* The runs, as ClaimsAreOwned defines them                                 *)

\* A set of entries that is not empty has a first one.
LEMMA FirstInOrder ==
  ASSUME NEW O, Strict(O), NEW S \in SUBSET Entries, S # {}
  PROVE  \E x \in S : \A y \in S : <<y, x>> \notin O
<1> DEFINE Before(x) == {z \in Entries : <<z, x>> \in O}
           T == {Cardinality(Before(x)) : x \in S}
<1>1. IsFiniteSet(Entries)
  BY Numbers, FS_Interval DEF Entries
<1>2. \A x : IsFiniteSet(Before(x)) /\ Cardinality(Before(x)) \in Nat
  BY <1>1, FS_Subset, FS_CardinalityType
<1>3. T \in SUBSET Nat /\ T # {}
  BY <1>2
<1>4. PICK c \in T : \A d \in T : c <= d
  BY <1>3, LeastNumber
<1>5. PICK x \in S : c = Cardinality(Before(x))
  BY <1>4
<1>6. ASSUME NEW y \in S, <<y, x>> \in O PROVE FALSE
  <2>1. y \in Before(x) /\ y \notin Before(y)
    BY <1>6 DEF Strict
  <2>2. Before(y) \subseteq Before(x)
    BY <1>6 DEF Strict
  <2>3. /\ Cardinality(Before(y)) <= Cardinality(Before(x))
        /\ Cardinality(Before(x)) = Cardinality(Before(y)) => Before(x) = Before(y)
    BY <1>2, <2>2, FS_Subset
  <2>4. Cardinality(Before(x)) # Cardinality(Before(y))
    BY <2>1, <2>3
  <2>5. Cardinality(Before(x)) <= Cardinality(Before(y))
    BY <1>4, <1>5
  <2>6. Cardinality(Before(x)) \in Nat /\ Cardinality(Before(y)) \in Nat
    BY <1>2
  <2> HIDE DEF Before
  <2> QED BY <2>3, <2>4, <2>5, <2>6
<1> QED BY <1>6

\* The run that the links lead through is the run of the invariant.
LEMMA RunIsReach ==
  ASSUME ListInv, NEW O, NEW run, Placement(O, run), NEW t \in Threads
  PROVE  Run(t) = run[t]
<1>1. TypeInv /\ RunIs(O, run[t], t) /\ Strict(O) /\ Forward(O, link)
  BY DEF ListInv, Placement
<1>2. Run(t) = IF first[t] = Null THEN {} ELSE Reach(link, {Null, last[t]}, first[t])
  BY <1>1, PathsAreReach
<1>3. CASE first[t] = Null
  BY <1>1, <1>2, <1>3 DEF RunIs
<1>4. CASE first[t] # Null
  <2> DEFINE X == {Null, last[t]}
  <2>1. PathType(link, X, first[t])
    BY <1>1 DEF TypeInv, PathType
  <2>2. first[t] \in run[t] /\ run[t] \subseteq Entries
    BY <1>1, <1>4 DEF RunIs
  <2>3. Closed(link, X, run[t])
    BY <1>1 DEF RunIs, Closed
  <2>4. Reach(link, X, first[t]) \subseteq run[t]
    BY <2>1, <2>2, <2>3, ReachFacts
  <2>5. run[t] \subseteq Reach(link, X, first[t])
    <3> DEFINE K == Reach(link, X, first[t])
               S == run[t] \ K
    <3>1. first[t] \in K /\ Closed(link, X, K)
      BY <2>1, ReachFacts
    <3> HIDE DEF K
    <3>2. SUFFICES ASSUME S # {} PROVE FALSE
      BY DEF K
    <3>3. PICK x \in S : \A y \in S : <<y, x>> \notin O
      BY <1>1, <2>2, <3>2, FirstInOrder
    <3>4. x # first[t]
      BY <3>1
    <3>5. PICK y \in run[t] \ {last[t]} : link[y].to = x
      BY <1>1, <3>4 DEF RunIs
    <3>6. y \in Entries /\ x # Null /\ y # Null
      BY <2>2, Numbers
    <3>7. <<y, x>> \in O
      BY <1>1, <3>5, <3>6 DEF Forward
    <3>8. y \in K
      BY <3>3, <3>7
    <3>9. x \in K
      BY <3>1, <3>5, <3>6, <3>8 DEF Closed
    <3> QED BY <3>9
  <2> QED BY <1>2, <1>4, <2>4, <2>5
<1> QED BY <1>3, <1>4

\* What the invariant says of claims, walks and the list.
LEMMA PathProperties ==
  ListInv /\ PathInv => ClaimsAreOwned /\ WalkSkipsNothing /\ LiveIsReachable
<1> SUFFICES ASSUME ListInv, PathInv PROVE ClaimsAreOwned /\ WalkSkipsNothing /\ LiveIsReachable
  OBVIOUS
<1>1. TypeInv /\ \A t \in Threads : OwnShape(t) /\ WalkShape(t)
  BY DEF ListInv
<1>2. PICK O, run : Placement(O, run)
  BY DEF PathInv
<1>3. \A t \in Threads : Run(t) = run[t]
  BY <1>2, RunIsReach
<1>4. \A t, u \in Threads : t # u => run[t] \cap run[u] = {}
  BY <1>2 DEF Placement, Runs
<1>5. ASSUME NEW e \in Entries
      PROVE  link[e].tag = "Both" <=> Cardinality({t \in Threads : e \in Run(t)}) = 1
  <2>1. {t \in Threads : e \in Run(t)} = {t \in Threads : e \in run[t]}
    BY <1>3
  <2>2. CASE link[e].tag = "Both"
    <3>1. PICK t \in Threads : e \in run[t]
      BY <1>2, <2>2 DEF Placement, Runs
    <3>2. {u \in Threads : e \in run[u]} = {t}
      BY <1>4, <3>1
    <3>3. Cardinality({t}) = 1
      BY FS_Singleton
    <3> QED BY <2>1, <2>2, <3>2, <3>3
  <2>3. CASE link[e].tag # "Both"
    <3>1. {u \in Threads : e \in run[u]} = {}
      BY <1>2, <2>3 DEF Placement, RunIs
    <3>2. Cardinality({}) = 0
      BY FS_EmptySet
    <3>3. Cardinality({t \in Threads : e \in Run(t)}) = 0
      BY <2>1, <3>1, <3>2
    <3> QED BY <2>3, <3>3
  <2> QED BY <2>2, <2>3
<1>6. ClaimsAreOwned
  BY <1>3, <1>4, <1>5 DEF ClaimsAreOwned
<1>7. \A e \in Addresses : LiveFrom(e) \subseteq From(e)
  BY <1>1, LiveBehind, Numbers DEF LiveFrom, LiveSet
<1>8. WalkSkipsNothing
  <2> SUFFICES ASSUME NEW t \in Threads, pc[t] \notin {"idle", "at", "drop"}
               PROVE  behind[t] \subseteq From(ptr[t].to)
    BY DEF WalkSkipsNothing
  <2>1. ptr[t].to \in Addresses
    BY <1>1 DEF TypeInv, Links, Addresses
  <2>2. CASE pc[t] \in Walking
    BY <1>7, <2>1, <2>2 DEF PathInv, Flow
  <2>3. CASE pc[t] \in Pushing
    BY <2>3 DEF PathInv, Flow, Pushing, Walking
  <2>4. pc[t] \in Walking \/ pc[t] \in Pushing
    BY <1>1 DEF TypeInv, PCs, Walking, Pushing
  <2> QED BY <2>2, <2>3, <2>4
<1>9. LiveIsReachable
  <2> DEFINE unlinked == UNION {own[t] : t \in {u \in Threads : pc[u] \in {"push", "push_cas"}}}
             failed == {e \in Entries : cnt[e] = 0}
  <2>1. SUFFICES ASSUME NEW e \in (1 .. alloc) \ (unlinked \cup failed), ~Deleted(e) PROVE e \in From(Head)
    BY DEF LiveIsReachable
  <2>2. e \in Entries /\ Head \in Addresses
    BY <1>1, Exact, Numbers DEF Addresses
  <2>3. e \in Listed
    BY <2>1, <2>2 DEF Listed, Pushing
  <2>4. e \in LiveFrom(Head)
    BY <2>1, <2>3 DEF PathInv, LiveInv
  <2> QED BY <1>7, <2>2, <2>4
<1> QED BY <1>6, <1>8, <1>9

-----------------------------------------------------------------------------
(* The theorems                                                             *)

\* The inductive invariant of the list, for every number of threads and entries.
THEOREM ListInvariant == Spec => []ListInv
  BY InitListInv, NextListInv, PTL DEF Spec

\* The reference count of an entry agrees with the links and the handles that own it,
\* after every exchange, swap, clone and release of next_ptr, push_back and Entry::drop.
THEOREM CountsExactHolds == Spec => []CountsExact
<1>1. ListInv => CountsExact
  BY DEF ListInv
<1> QED BY <1>1, ListInvariant, PTL

\* No thread has a pointer in its hands to an entry that has been dropped, but for the
\* entry whose drop it runs: the links next_ptr and push_back read under a Guard lead
\* to entries that somebody owns, and the collector waits for the Guard.
THEOREM HeldIsAllocatedHolds == Spec => []HeldIsAllocated
<1>1. ListInv => HeldIsAllocated
  <2> SUFFICES ASSUME ListInv, NEW t \in Threads
               PROVE  /\ (Pointers(t) \cup own[t]) \cap freed \subseteq {cur[t]}
                      /\ cur[t] \in freed => pc[t] \notin {"at", "push", "push_cas"}
    BY DEF HeldIsAllocated, Pointers
  <2>1. FreedInv /\ Kept(t) /\ TypeInv
    BY DEF ListInv
  <2>2. Null \notin freed
    BY <2>1, Numbers DEF TypeInv
  <2>3. \A e \in Held(t) \cap freed :
          e = cur[t] /\ pc[t] \notin {"at", "push", "push_cas"}
    BY <2>1 DEF Kept, FreedInv
  <2> QED BY <2>2, <2>3 DEF Held, Pointers
<1> QED BY <1>1, ListInvariant, PTL


\* The invariant of the paths along the links: the list is ordered, walks leave nothing out
\* but what is deleted, and claimed entries are in the run of their claimant.
THEOREM PathInvariant == Spec => []PathInv
<1>1. ListInv /\ ListInv' /\ PathInv /\ [Next]_vars => PathInv'
  BY NextPathInv
<1> QED BY <1>1, InitPathInv, ListInvariant, PTL DEF Spec

\* Every entry that was pushed and not deleted can be reached from the head, whatever links
\* next_ptr, push_back and Entry::drop move at the same time.
THEOREM LiveIsReachableHolds == Spec => []LiveIsReachable
<1>1. ListInv /\ PathInv => LiveIsReachable
  BY PathProperties
<1> QED BY <1>1, ListInvariant, PathInvariant, PTL

\* next_ptr skips nothing: what was behind an entry when its link was loaded, and has not been
\* deleted since, is ahead of the walk until it returns.
THEOREM WalkSkipsNothingHolds == Spec => []WalkSkipsNothing
<1>1. ListInv /\ PathInv => WalkSkipsNothing
  BY PathProperties
<1> QED BY <1>1, ListInvariant, PathInvariant, PTL

\* A tag Both belongs to the run of exactly one walk, and the runs of two walks are disjoint:
\* the debug assertions of next_ptr on the entries it cleans up or gives back.
THEOREM ClaimsAreOwnedHolds == Spec => []ClaimsAreOwned
<1>1. ListInv /\ PathInv => ClaimsAreOwned
  BY PathProperties
<1> QED BY <1>1, ListInvariant, PathInvariant, PTL
=============================================================================
