------------------------------ MODULE RefCount -------------------------------
(***************************************************************************)
(* The reference count of an instance behind Shared and AtomicShared:      *)
(* src/ebr/ref_counted.rs, shared.rs, ptr.rs.                              *)
(*                                                                         *)
(* The count of an instance with n owners is 2n - 1, and 0 when there is   *)
(* none.  The word is odd as long as the instance is owned: the collector  *)
(* links its garbage through the same word (LinkOrRefCnt), with pointers,  *)
(* which are even.  A count c maps instances to such words; Null, which    *)
(* stands for None and for a null pointer, has none.                       *)
(*                                                                         *)
(* A definition X_Mistake before X is X with the mistake it names.         *)
(***************************************************************************)
EXTENDS Naturals

CONSTANTS Null

\* The count of a Shared::new.
NewShared == 1

Alive_AnyCount(c, e) == e # Null

\* Whether try_add_ref takes a reference: Ptr::get_shared returns a Shared.
Alive(c, e) == e # Null /\ c[e] % 2 = 1

\* Shared::clone.
AddRef(c, e) == IF e = Null THEN c ELSE [c EXCEPT ![e] = @ + 2]

DropRef_ByOne(c, e) ==
  IF e = Null THEN c ELSE [c EXCEPT ![e] = IF @ <= 1 THEN 0 ELSE @ - 1]

\* drop_ref.
DropRef(c, e) ==
  IF e = Null THEN c ELSE [c EXCEPT ![e] = IF @ <= 1 THEN 0 ELSE @ - 2]

TryAddRef(c, e) == IF Alive(c, e) THEN AddRef(c, e) ELSE c

\* The instances whose last owner goes when count c becomes d: what release and
\* Shared::drop pass to the collector.
Released(c, d) == {e \in DOMAIN c : c[e] % 2 = 1 /\ d[e] % 2 = 0}
=============================================================================
