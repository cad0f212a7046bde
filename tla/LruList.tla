------------------------------ MODULE LruList --------------------------------
(***************************************************************************)
(* The list of recently used slots of a cache bucket: LruList and          *)
(* DoublyLinkedList of src/hash_table/bucket.rs.                           *)
(*                                                                         *)
(* The list is an array of pairs of slot numbers.  It is circular: the     *)
(* first number of a slot is the slot used next after it, the first number *)
(* of the slot used last is the slot used least recently, and the second   *)
(* number goes back.  `tail' is the slot used last plus one, 0 if no slot  *)
(* is tracked.  A slot that is not tracked has <<0, 0>>, and so has slot 0 *)
(* when it is alone, or a slot whose only companion is slot 0.             *)
(*                                                                         *)
(* An operation takes and returns [list, tail]; a None of the code is an   *)
(* unchanged tail.                                                         *)
(***************************************************************************)
EXTENDS Naturals, Sequences

CONSTANT Len0   \* BUCKET_LEN: the slots of a bucket

Slots0 == 0 .. Len0 - 1
NoLru == [list |-> [i \in Slots0 |-> <<0, 0>>], tail |-> 0]

(* Whether the slot is a part of the list, by the test of remove.          *)
Tracked_Entry(l, e) == l.tail # 0 /\ l.list[e] # <<0, 0>>
Tracked(l, e) ==
  /\ l.tail # 0
  /\ \/ l.list[e] # <<0, 0>>
     \/ l.list[0] = <<e, e>> /\ l.tail \in {1, e + 1}

(* The same by the test of promote, which has dealt with tail = e + 1.     *)
TrackedBefore(l, e) == l.list[e] # <<0, 0>> \/ (l.list[0] = <<e, e>> /\ l.tail = 1)

(* prev -> next and next -> prev around a slot of the list.                *)
Bypass(list, e) ==
  LET one == [list EXCEPT ![list[e][1]][2] = list[e][2]]
  IN [one EXCEPT ![one[e][2]][1] = one[e][1]]

(* evict: the slot used least recently; the caller has tail # 0.           *)
Lru(l) == l.list[l.tail - 1][1]
Evict(l) ==
  LET lru == Lru(l)
      newLru == l.list[lru][1]
  IN IF l.tail - 1 = lru
     THEN [list |-> [l.list EXCEPT ![lru] = <<0, 0>>], tail |-> 0]
     ELSE LET a == [l.list EXCEPT ![newLru][2] = l.tail - 1]
              b == [a EXCEPT ![l.tail - 1][1] = newLru]
          IN [list |-> [b EXCEPT ![lru] = <<0, 0>>], tail |-> l.tail]

Remove(l, e) ==
  IF ~Tracked(l, e) THEN l
  ELSE IF l.list[e][1] = e
       THEN [list |-> [l.list EXCEPT ![e] = <<0, 0>>], tail |-> 0]
       ELSE LET a == Bypass(l.list, e)
            IN [list |-> [a EXCEPT ![e] = <<0, 0>>],
                tail |-> IF l.tail = e + 1 THEN a[e][2] + 1 ELSE l.tail]

Promote(l, e) ==
  IF l.tail = e + 1 THEN l
  ELSE IF l.tail = 0
       THEN [list |-> [l.list EXCEPT ![e] = <<e, e>>], tail |-> e + 1]
       ELSE LET a == IF TrackedBefore(l, e) THEN Bypass(l.list, e) ELSE l.list
                oldest == a[l.tail - 1][1]
                b == [a EXCEPT ![oldest][2] = e]
                c == [b EXCEPT ![e][1] = oldest]
                d == [c EXCEPT ![l.tail - 1][1] = e]
            IN [list |-> [d EXCEPT ![e][2] = l.tail - 1], tail |-> e + 1]

(***************************************************************************)
(* The list that tracks the slots of a sequence, least recently used       *)
(* first.                                                                  *)
(***************************************************************************)
Ring(recent) ==
  LET n == Len(recent)
  IN [list |-> [i \in Slots0 |->
                  IF \E j \in 1 .. n : recent[j] = i
                  THEN LET j == CHOOSE j \in 1 .. n : recent[j] = i
                       IN <<recent[IF j = n THEN 1 ELSE j + 1],
                            recent[IF j = 1 THEN n ELSE j - 1]>>
                  ELSE <<0, 0>>],
      tail |-> IF n = 0 THEN 0 ELSE recent[n] + 1]
=============================================================================
