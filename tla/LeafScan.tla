------------------------------ MODULE LeafScan ------------------------------
(***************************************************************************)
(* The loops of src/tree_index/leaf.rs over the slots of a leaf.           *)
(*                                                                         *)
(* Each loop visits the slots once, in the order of their indices, and     *)
(* compares keys only within a window of ranks that it narrows on the way. *)
(* Module Leaf says what the loops compute without saying how; here are    *)
(* the loops, and the properties that they compute it on every metadata a  *)
(* leaf can have.  Slot 0 stands for DIMENSION.num_entries, no slot.       *)
(*                                                                         *)
(* A definition X_Mistake before X is X with the mistake it names.         *)
(***************************************************************************)
EXTENDS Leaf, Sequences, Functions

NoSlot == 0

\* for i in 0..DIMENSION.num_entries
ForSlots(Body(_, _), init) ==
  LET W[n \in 0 .. num_entries] ==
        IF n = 0 THEN init ELSE Body(W[n - 1], n)
  IN  W[num_entries]

\* min_max_rank and max_min_rank, the slots they come from, and the slot at
\* which the loop returned.
Window == [lo |-> 0, hi |-> removed_rank, loSlot |-> NoSlot,
           hiSlot |-> NoSlot, eq |-> NoSlot]

Within(w, n) == n < w.hi /\ n > w.lo

\* One turn of the loop of search_slot and min_greater_equal.
Narrow(r, k, w, i) ==
  IF w.eq # NoSlot \/ ~Within(w, r[i]) THEN w
  ELSE IF key_at[i] < k THEN [w EXCEPT !.lo = r[i], !.loSlot = i]
  ELSE IF key_at[i] > k THEN [w EXCEPT !.hi = r[i], !.hiSlot = i]
  ELSE [w EXCEPT !.eq = i]

\* One turn of the loop of max_less: an equal key bounds the window.
NarrowBelow(r, k, w, i) ==
  IF ~Within(w, r[i]) THEN w
  ELSE IF key_at[i] < k THEN [w EXCEPT !.lo = r[i], !.loSlot = i]
  ELSE [w EXCEPT !.hi = r[i], !.hiSlot = i]

search_slot(r, k) ==
  ForSlots(LAMBDA w, i : Narrow(r, k, w, i), Window).eq

min_greater_equal(r, k) ==
  LET w == ForSlots(LAMBDA v, i : Narrow(r, k, v, i), Window)
  IN  IF w.eq # NoSlot THEN w.eq ELSE w.hiSlot

max_less(r, k) ==
  ForSlots(LAMBDA w, i : NarrowBelow(r, k, w, i), Window).loSlot

max_entry(r) ==
  ForSlots(LAMBDA w, i : IF r[i] > w.lo /\ r[i] # removed_rank
                         THEN [w EXCEPT !.lo = r[i], !.loSlot = i] ELSE w,
           Window).loSlot

MoveUp_OnlyCompared(r, w, i) == w.new

\* The loop of post_insert: outside of the window, a rank above it moves up.
MoveUp(r, w, i) ==
  IF r[i] # removed_rank /\ r[i] > w.hi THEN [w.new EXCEPT ![i] = r[i] + 1]
  ELSE w.new

Place(r, k, w, i) ==
  IF w.dup THEN w
  ELSE IF ~Within(w, r[i]) THEN [w EXCEPT !.new = MoveUp(r, w, i)]
  ELSE IF key_at[i] < k THEN [w EXCEPT !.lo = r[i]]
  ELSE IF key_at[i] > k
       THEN [w EXCEPT !.hi = r[i], !.new = [@ EXCEPT ![i] = r[i] + 1]]
  ELSE [w EXCEPT !.dup = TRUE]

post_insert(r, k) ==
  ForSlots(LAMBDA w, i : Place(r, k, w, i),
           [lo |-> 0, hi |-> removed_rank, new |-> r, dup |-> FALSE])


\* Leaf::next: a rank above that of the slot the scanner is at, and lower
\* than the best one so far.
Higher(r, i, at, best) ==
  /\ i # at /\ r[i] # uninit_rank /\ r[i] < best
  /\ r[i] > IF at = NoSlot THEN 0 ELSE r[at]

next(at, r) ==
  IF at # NoSlot /\ r[at] >= num_entries THEN NoSlot
  ELSE ForSlots(LAMBDA w, i : IF Higher(r, i, at, w.hi)
                              THEN [w EXCEPT !.hi = r[i], !.hiSlot = i] ELSE w,
                Window).hiSlot

\* The slots a Scanner goes through.
Advance(r, s) ==
  LET at == IF s = <<>> THEN NoSlot ELSE s[Len(s)]
      to == next(at, r)
  IN  IF to = NoSlot THEN s ELSE Append(s, to)

Scanned(r) == ForSlots(LAMBDA s, i : Advance(r, s), <<>>)

Clamp_None(n) == n
Clamp(n) ==
  LET least == num_entries \div 2 + 1
      most  == num_entries + num_entries \div 2 - 1
  IN  IF n < least THEN least ELSE IF n > most THEN most ELSE n

\* The number of entries for the low-key leaf, at least one and not all.
optimal_boundary(r) ==
  LET score == ForSlots(LAMBDA w, i :
                          IF i \notin Ranked(r) THEN w
                          ELSE [n |-> IF w.prev < r[i] THEN w.n + 1
                                      ELSE w.n - 1,
                                prev |-> r[i]],
                        [n |-> num_entries, prev |-> 1])
  IN  Clamp(score.n) - num_entries \div 2

\* freeze_and_distribute: the keys of the two new leaves.
LowKeys(r) ==
  LET s == Scanned(r)
  IN  {key_at[s[i]] : i \in {j \in DOMAIN s : j <= optimal_boundary(r)}}
HighKeys(r) ==
  LET s == Scanned(r)
  IN  {key_at[s[i]] : i \in {j \in DOMAIN s : j > optimal_boundary(r)}}

-----------------------------------------------------------------------------
(* Correctness, for every metadata the leaf has.  That covers the copies    *)
(* threads have read: SnapshotsValid says that a copy keeps its keys.       *)

\* i is the slot the reference names, or there is none and i is no slot.
Finds(i, S) == IF S = {} THEN i = NoSlot ELSE i \in S

\* Searching by narrowing the window finds the slot of the key, of the next
\* one above, of the next one below, and of the largest; a Scanner goes
\* through all entries in ascending order; and the one pass of post_insert
\* detects a duplicate, and otherwise moves up all greater keys, also those it
\* has passed before it knew.
LoopsAgree ==
  LET R == Ranked(rank)
      s == Scanned(rank)
  IN  /\ \A k \in Keys :
           LET here == {i \in R : key_at[i] = k}
               geq  == here \cup Above(rank, k)
           IN  /\ Finds(search_slot(rank, k), here)
               /\ Finds(min_greater_equal(rank, k),
                        {i \in geq : \A j \in geq : key_at[i] <= key_at[j]})
               /\ Finds(max_less(rank, k),
                        {i \in Below(rank, k) :
                           \A j \in Below(rank, k) : key_at[i] >= key_at[j]})
      /\ Finds(max_entry(rank), {i \in R : \A j \in R : key_at[i] >= key_at[j]})
      /\ Range(s) = R
      /\ \A i \in 1 .. Len(s) - 1 : key_at[s[i]] < key_at[s[i + 1]]
      /\ \A a \in Threads : pc[a] = "post" =>
           LET w == post_insert(seen[a], key[a])
           IN  /\ w.dup <=> Duplicate(seen[a], key[a])
               /\ ~w.dup => [w.new EXCEPT ![slot[a]] = w.lo + 1]
                              = Augmented(seen[a], slot[a], key[a])

\* The split of a leaf makes room, whatever was removed from it: no key is
\* lost, the low-key leaf is not left empty, and neither new leaf is full.
SplitMakesRoom ==
  LET low == LowKeys(rank)
      high == HighKeys(rank)
  IN  /\ low \cup high = KeysOf(rank)
      /\ KeysOf(rank) # {} => low # {}
      /\ Cardinality(low) < num_entries
      /\ Cardinality(high) < num_entries

=============================================================================
