--------------------------------- MODULE Bag ---------------------------------
(***************************************************************************)
(* The lock-free bag: src/bag.rs over src/stack.rs.                        *)
(*                                                                         *)
(* A bag has a primary storage and a stack of linked ones.  The metadata   *)
(* of a storage is two bitmaps: the slots that hold an instance, and the   *)
(* slots owned by a thread that is filling or emptying them.  A linked     *)
(* storage that has become empty is deleted, so nothing may be pushed into *)
(* one that is, or is about to be, empty.                                  *)
(*                                                                         *)
(* The stack is a linked list from newest on; next_ptr is atomic here      *)
(* (module LinkedList), and between it, get_shared of what it returned and *)
(* the compare_exchange of newest other threads go on.  Links and handles  *)
(* are references: get_shared gives none once the last one is gone.  Then  *)
(* the storage is dropped when the Guards of that time have gone (module   *)
(* Ebr), and the reference that its link is with it.  Storages are         *)
(* numbered in the order of their allocation; 0 is the primary one.        *)
(*                                                                         *)
(* A definition X_Mistake before X is X with the mistake it names.         *)
(***************************************************************************)
EXTENDS Naturals, Integers, FiniteSets

CONSTANTS
  Threads,
  ArrayLen,      \* ARRAY_LEN
  MaxStorages,   \* bound: linked storages allocated in a behaviour
  MaxValues,     \* bound: values pushed in a behaviour
  Ops            \* the operations each thread uses

ASSUME BagAssumption ==
  /\ ArrayLen \in Nat \ {0} /\ MaxStorages \in Nat \ {0}
  /\ MaxValues \in Nat /\ MaxValues > ArrayLen
  /\ Ops \in [Threads -> SUBSET {"push", "pop", "pop_all"}]

Null == -1
Primary == 0
Storages == 0 .. MaxStorages
Slots == 0 .. ArrayLen - 1
Values == 1 .. MaxValues
Bitmaps == [instance : SUBSET Slots, owned : SUBSET Slots]
NoBits == [instance |-> {}, owned |-> {}]

VARIABLES
  meta,      \* the metadata of each storage: instance and owned bitmaps
  slot,      \* the instance in each slot of each storage, 0 if there is none
  newest,    \* the stack of linked storages: its first entry
  next,      \* the link of each storage
  deleted,   \* the storages whose link is tagged
  alloc,     \* how many linked storages have been allocated
  fresh,     \* how many values have been pushed
  out,       \* the values that pop and pop_all have returned
  pc,        \* where a thread is
  op,        \* its operation
  at,        \* the storage it works on
  top,       \* newest_ptr; in pop_all, the stack popped: its newest
  ref,       \* what next_ptr has returned to cleanup_newest
  link,      \* the link of the entry that push_if_internal is to push
  pins,      \* the threads whose Guards keep an unreferenced storage
  freed,     \* the storages that have been dropped
  bits,      \* the metadata it has loaded
  mine,      \* the slots it owns in the storage
  hand       \* the values it holds

stackVars == <<newest, next, deleted, alloc>>
refVars == <<ref, link>>
vars == <<meta, slot, newest, next, deleted, alloc, fresh, out, pc, op, at, top,
          ref, link, pins, freed, bits, mine, hand>>

Goto(t, l) == pc' = [pc EXCEPT ![t] = l]

\* The storages from s on, deleted or not.
Chain(s) ==
  LET C[x \in Storages \cup {Null}] ==
        IF x = Null THEN {} ELSE {x} \cup C[next[x]]
  IN C[s]

\* next_ptr: the next storage that is not deleted.
NextPtr(s) ==
  LET N[x \in Storages \cup {Null}] ==
        IF x = Null \/ x \notin deleted THEN x ELSE N[next[x]]
  IN N[next[s]]

\* next_ptr on s unlinks the deleted storages it passes: their links skip the others
\* too.
Unlink(s) ==
  LET passed == {x \in Chain(next[s]) : x > NextPtr(s)} IN
  next' = [x \in Storages |-> IF x = s \/ x \in passed THEN NextPtr(s) ELSE next[x]]

Referenced_NotPopped(s) ==
  \/ newest = s
  \/ \E x \in Storages : next[x] = s
  \/ \E t \in Threads : \/ link[t] = s \/ (pc[t] = "swap" /\ ref[t] = s)
                        \/ (op[t] = "pop_all" /\ top[t] = s)

\* The reference count of s is not zero: an AtomicShared or a Shared refers to it.
Referenced(s) ==
  \/ newest = s
  \/ \E x \in Storages : next[x] = s
  \/ \E t \in Threads : \/ link[t] = s \/ (pc[t] = "swap" /\ ref[t] = s)
                        \/ (op[t] = "pop_all" /\ s \in {top[t], at[t]})

\* The threads with a Guard: of peek_with, of Bag::pop, or of Stack::pop.
Guarded ==
  {t \in Threads :
     \/ pc[t] \in {"clean", "share", "swap", "link", "cas", "take"}
     \/ op[t] = "pop" \/ (op[t] = "push" /\ at[t] # Primary)}

Free(b) == Slots \ (b.instance \cup b.owned)
Valid(b) == b.instance \ b.owned
Lowest(S) == CHOOSE i \in S : \A j \in S : i <= j

\* The primary storage is full, and there is a linked one with an instance.
Init ==
  /\ meta = [s \in Storages |->
               [instance |-> IF s = Primary THEN Slots
                             ELSE IF s = 1 THEN {0} ELSE {},
                owned |-> {}]]
  /\ slot = [s \in Storages |-> [i \in Slots |->
               IF s = Primary THEN i + 1
               ELSE IF s = 1 /\ i = 0 THEN ArrayLen + 1 ELSE 0]]
  /\ newest = 1 /\ next = [s \in Storages |-> Null]
  /\ deleted = {} /\ alloc = 1 /\ fresh = ArrayLen + 1 /\ out = {}
  /\ pc = [t \in Threads |-> "idle"]
  /\ op = [t \in Threads |-> "none"]
  /\ at = [t \in Threads |-> Null]
  /\ top = [t \in Threads |-> Null]
  /\ ref = [t \in Threads |-> Null] /\ link = [t \in Threads |-> Null]
  /\ pins = [s \in Storages |-> {}] /\ freed = {}
  /\ bits = [t \in Threads |-> NoBits]
  /\ mine = [t \in Threads |-> {}]
  /\ hand = [t \in Threads |-> {}]

\* The operation returns the values in the thread's hands, if it is not a push.
Done(t) ==
  /\ Goto(t, "idle")
  /\ op' = [op EXCEPT ![t] = "none"]
  /\ at' = [at EXCEPT ![t] = Null]
  /\ top' = [top EXCEPT ![t] = Null]
  /\ bits' = [bits EXCEPT ![t] = NoBits]
  /\ out' = IF op[t] = "push" THEN out ELSE out \cup hand[t]
  /\ hand' = [hand EXCEPT ![t] = {}]

\* Storage::{push, pop, pop_all} on storage s starts with a load of its metadata.
Use(t, s, l) ==
  /\ at' = [at EXCEPT ![t] = s]
  /\ bits' = [bits EXCEPT ![t] = meta[s]]
  /\ Goto(t, l)

BeginPush(t) ==
  /\ pc[t] = "idle" /\ "push" \in Ops[t] /\ fresh < MaxValues
  /\ fresh' = fresh + 1
  /\ hand' = [hand EXCEPT ![t] = {fresh'}]
  /\ op' = [op EXCEPT ![t] = "push"]
  /\ Use(t, Primary, "push")
  /\ UNCHANGED <<refVars, meta, slot, stackVars, out, top, mine>>

BeginPop(t) ==
  /\ pc[t] = "idle" /\ "pop" \in Ops[t]
  /\ op' = [op EXCEPT ![t] = "pop"]
  /\ top' = [top EXCEPT ![t] = newest]
  /\ Goto(t, "clean")
  /\ UNCHANGED <<refVars, meta, slot, stackVars, fresh, out, at, bits, mine, hand>>

\* Stack::pop_all: the whole stack belongs to the thread.
BeginPopAll(t) ==
  /\ pc[t] = "idle" /\ "pop_all" \in Ops[t]
  /\ op' = [op EXCEPT ![t] = "pop_all"]
  /\ top' = [top EXCEPT ![t] = newest]
  /\ newest' = Null
  /\ Goto(t, "popped")
  /\ UNCHANGED <<refVars, meta, slot, next, deleted, alloc, fresh, out, at, bits, mine,
                 hand>>

-----------------------------------------------------------------------------
(* Stack *)

\* cleanup_newest, newest_ptr being deleted: next_ptr is called on it, ...
CleanNext(t) ==
  LET s == top[t] IN
  /\ pc[t] = "clean" /\ s # Null /\ s \in deleted
  /\ ref' = [ref EXCEPT ![t] = NextPtr(s)]
  /\ Unlink(s)
  /\ Goto(t, "share")
  /\ UNCHANGED <<meta, slot, newest, deleted, alloc, fresh, out, op, at, top, link,
                 bits, mine, hand>>

\* ... then get_shared on what it returned, which gives none if others have unlinked
\* that storage meanwhile, ...
CleanShare(t) ==
  /\ pc[t] = "share"
  /\ ref' = [ref EXCEPT ![t] = IF Referenced(@) THEN @ ELSE Null]
  /\ Goto(t, "swap")
  /\ UNCHANGED <<meta, slot, stackVars, fresh, out, op, at, top, link, bits, mine, hand>>

\* ... and that takes the place of newest_ptr, if newest is still that.  Nobody else
\* has the newest of a stack that pop_all has popped.
CleanSwap(t) ==
  /\ pc[t] = "swap"
  /\ \/ /\ op[t] = "pop_all"
        /\ top' = [top EXCEPT ![t] = ref[t]]
        /\ UNCHANGED newest
     \/ /\ op[t] # "pop_all"
        /\ newest' = IF newest = top[t] THEN ref[t] ELSE newest
        /\ top' = [top EXCEPT ![t] = newest']
  /\ ref' = [ref EXCEPT ![t] = Null]
  /\ Goto(t, "clean")
  /\ UNCHANGED <<meta, slot, next, deleted, alloc, fresh, out, op, at, link, bits,
                 mine, hand>>

\* The newest entry, or none: peek_with in push and pop, or the new entry goes on
\* top of it in push_if_internal.
Peeked(t) ==
  LET s == top[t] IN
  /\ pc[t] = "clean" /\ s \notin deleted
  /\ \/ /\ op[t] = "push" /\ at[t] = Primary
        /\ IF s = Null THEN Goto(t, "link") /\ UNCHANGED <<at, bits>>
                       ELSE Use(t, s, "push")
     \/ op[t] = "push" /\ at[t] # Primary /\ Goto(t, "link") /\ UNCHANGED <<at, bits>>
     \/ op[t] = "pop" /\ Use(t, IF s = Null THEN Primary ELSE s, "pop")
  /\ UNCHANGED <<meta, slot, stackVars, fresh, out, op, top, refVars, mine, hand>>

\* Stack::push_unchecked of a Storage::with_val: its link becomes newest_ptr, ...
LinkShare(t) ==
  /\ pc[t] = "link"
  /\ link' = [link EXCEPT ![t] = IF Referenced(top[t]) THEN top[t] ELSE Null]
  /\ Goto(t, "cas")
  /\ UNCHANGED <<meta, slot, stackVars, fresh, out, op, at, top, ref, bits, mine, hand>>

\* ... and it becomes newest if that is still newest_ptr.  If not, it keeps its link
\* until the next attempt.
Link(t) ==
  /\ pc[t] = "cas"
  /\ IF newest = top[t]
       THEN /\ alloc < MaxStorages
            /\ alloc' = alloc + 1
            /\ meta' = [meta EXCEPT ![alloc'].instance = {0}]
            /\ slot' = [slot EXCEPT ![alloc'][0] = CHOOSE v \in hand[t] : TRUE]
            /\ next' = [next EXCEPT ![alloc'] = link[t]]
            /\ newest' = alloc'
            /\ link' = [link EXCEPT ![t] = Null]
            /\ Done(t)
            /\ UNCHANGED deleted
       ELSE /\ top' = [top EXCEPT ![t] = newest]
            /\ at' = [at EXCEPT ![t] = Null]
            /\ Goto(t, "clean")
            /\ UNCHANGED <<meta, slot, stackVars, out, op, link, bits, hand>>
  /\ UNCHANGED <<fresh, ref, mine>>

\* Stack::pop on the stack of pop_all, which others may still have pointers into:
\* clean up, ...
Pop(t) ==
  /\ pc[t] = "popped"
  /\ Goto(t, "clean")
  /\ UNCHANGED <<meta, slot, stackVars, fresh, out, op, at, top, refVars, bits, mine,
                 hand>>

\* ... delete the newest entry, ...
Take(t) ==
  LET s == top[t] IN
  /\ pc[t] = "take"
  /\ deleted' = deleted \cup {s}
  /\ at' = IF s \in deleted THEN at ELSE [at EXCEPT ![t] = s]
  /\ Goto(t, "clean")
  /\ UNCHANGED <<meta, slot, newest, next, alloc, fresh, out, op, top, refVars, bits,
                 mine, hand>>

\* ... and clean up again.  When there is none, the primary storage remains.
Popped(t) ==
  /\ pc[t] = "clean" /\ op[t] = "pop_all" /\ top[t] \notin deleted
  /\ \/ at[t] # Null /\ Use(t, at[t], "pop_all")
     \/ at[t] = Null /\ top[t] = Null /\ Use(t, Primary, "pop_all")
     \/ at[t] = Null /\ top[t] # Null /\ Goto(t, "take") /\ UNCHANGED <<at, bits>>
  /\ UNCHANGED <<meta, slot, stackVars, fresh, out, op, top, refVars, mine, hand>>

-----------------------------------------------------------------------------
(* Storage::push *)

AllowEmpty(t) == at[t] = Primary

Rejects(t, b) == ~AllowEmpty(t) /\ Valid(b) = {}

\* The value comes back: try the newest linked storage, or a new one.
Refused(t) ==
  /\ top' = [top EXCEPT ![t] = newest]
  /\ Goto(t, "clean")

\* Own the lowest free slot.
PushOwn(t) ==
  LET s == at[t]
      i == Lowest(Free(bits[t]))
  IN
  /\ pc[t] = "push"
  /\ \/ /\ Rejects(t, bits[t]) \/ Free(bits[t]) = {}
        /\ Refused(t)
        /\ UNCHANGED <<meta, bits, mine>>
     \/ /\ ~Rejects(t, bits[t]) /\ Free(bits[t]) # {}
        /\ IF meta[s] = bits[t]
             THEN /\ meta' = [meta EXCEPT ![s].owned = @ \cup {i}]
                  /\ mine' = [mine EXCEPT ![t] = {i}]
                  /\ Goto(t, "write") /\ UNCHANGED bits
             ELSE /\ bits' = [bits EXCEPT ![t] = meta[s]]
                  /\ UNCHANGED <<meta, pc, mine>>
        /\ UNCHANGED top
  /\ UNCHANGED <<refVars, slot, stackVars, fresh, out, op, at, hand>>

PushWrite(t) ==
  LET i == Lowest(mine[t]) IN
  /\ pc[t] = "write"
  /\ slot' = [slot EXCEPT ![at[t]][i] = CHOOSE v \in hand[t] : TRUE]
  /\ Goto(t, "commit")
  /\ UNCHANGED <<refVars, meta, stackVars, fresh, out, op, at, top, bits, mine, hand>>

PushCommit_Always(t) ==
  LET s == at[t] IN
  /\ pc[t] = "commit"
  /\ meta' = [meta EXCEPT ![s] = [instance |-> @.instance \cup mine[t],
                                   owned |-> @.owned \ mine[t]]]
  /\ mine' = [mine EXCEPT ![t] = {}]
  /\ Done(t)
  /\ UNCHANGED <<refVars, slot, stackVars, fresh>>

\* The slot becomes valid, unless the storage has been emptied in the meantime.
PushCommit(t) ==
  LET s == at[t] IN
  /\ pc[t] = "commit"
  /\ IF Rejects(t, meta[s])
       THEN Goto(t, "rollback") /\ UNCHANGED <<meta, out, op, at, top, bits, mine, hand>>
       ELSE /\ meta' = [meta EXCEPT ![s] = [instance |-> @.instance \cup mine[t],
                                             owned |-> @.owned \ mine[t]]]
            /\ mine' = [mine EXCEPT ![t] = {}]
            /\ Done(t)
  /\ UNCHANGED <<refVars, slot, stackVars, fresh>>

PushRollback(t) ==
  /\ pc[t] = "rollback"
  /\ meta' = [meta EXCEPT ![at[t]].owned = @ \ mine[t]]
  /\ slot' = [slot EXCEPT ![at[t]][Lowest(mine[t])] = 0]
  /\ mine' = [mine EXCEPT ![t] = {}]
  /\ Refused(t)
  /\ UNCHANGED <<refVars, stackVars, fresh, out, op, at, bits, hand>>

-----------------------------------------------------------------------------
(* Storage::pop and the rest of Bag::pop *)

\* The pop from storage s has returned: a value, or none.
PopReturns(t, s, empty) ==
  \/ /\ s # Primary
     /\ Goto(t, IF empty THEN "delete" ELSE "advance")
     /\ UNCHANGED <<out, op, at, top, bits, hand>>
  \/ s = Primary /\ Done(t)

\* Own the lowest valid slot.
PopOwn(t) ==
  LET s == at[t]
      i == Lowest(Valid(bits[t]))
  IN
  /\ pc[t] = "pop"
  /\ IF Valid(bits[t]) = {}
       THEN PopReturns(t, s, bits[t].instance = {}) /\ UNCHANGED <<meta, mine>>
       ELSE /\ IF meta[s] = bits[t]
                 THEN /\ meta' = [meta EXCEPT ![s].owned = @ \cup {i}]
                      /\ mine' = [mine EXCEPT ![t] = {i}]
                      /\ Goto(t, "read") /\ UNCHANGED bits
                 ELSE /\ bits' = [bits EXCEPT ![t] = meta[s]]
                      /\ UNCHANGED <<meta, pc, mine>>
            /\ UNCHANGED <<out, op, at, top, hand>>
  /\ UNCHANGED <<refVars, slot, stackVars, fresh>>

\* The values of the slots owned are read: in pop, and in the fold of pop_all.
Read(t) ==
  /\ pc[t] = "read"
  /\ hand' = [hand EXCEPT ![t] = @ \cup {slot[at[t]][i] : i \in mine[t]}]
  /\ Goto(t, "vacate")
  /\ UNCHANGED <<refVars, meta, slot, stackVars, fresh, out, op, at, top, bits, mine>>

\* The slots are vacant and free; in pop, the storage may have become empty.
Vacate(t) ==
  LET s == at[t]
      b == [instance |-> meta[s].instance \ mine[t], owned |-> meta[s].owned \ mine[t]]
  IN
  /\ pc[t] = "vacate"
  /\ meta' = [meta EXCEPT ![s] = b]
  /\ slot' = [slot EXCEPT ![s] = [i \in Slots |-> IF i \in mine[t] THEN 0 ELSE @[i]]]
  /\ mine' = [mine EXCEPT ![t] = {}]
  /\ \/ op[t] = "pop" /\ PopReturns(t, s, b.instance = {})
     \/ op[t] = "pop_all" /\ s = Primary /\ Done(t)
     \/ /\ op[t] = "pop_all" /\ s # Primary
        /\ bits' = [bits EXCEPT ![t] = b] /\ Goto(t, "pop_all")
        /\ UNCHANGED <<out, op, at, top, hand>>
  /\ UNCHANGED <<refVars, stackVars, fresh>>

\* Bag::pop deletes the storage it has found or left empty, ...
Delete(t) ==
  /\ pc[t] = "delete"
  /\ deleted' = deleted \cup {at[t]}
  /\ Goto(t, "advance")
  /\ UNCHANGED <<refVars, meta, slot, newest, next, alloc, fresh, out, op, at, top, bits,
                 mine, hand>>

\* ... and goes on with the next one if it has no value, the primary one at last.
Advance(t) ==
  LET s == at[t]
      n == NextPtr(s)
  IN
  /\ pc[t] = "advance"
  /\ IF hand[t] # {}
       THEN Done(t) /\ UNCHANGED next
       ELSE /\ Use(t, IF n = Null THEN Primary ELSE n, "pop")
            /\ Unlink(s)
            /\ UNCHANGED <<out, op, top, hand>>
  /\ UNCHANGED <<refVars, meta, slot, newest, deleted, alloc, fresh, mine>>

-----------------------------------------------------------------------------
(* Storage::pop_all *)

PopAllOwn(t) ==
  LET s == at[t]
      valid == Valid(bits[t])
  IN
  /\ pc[t] = "pop_all"
  /\ IF valid = {}
       THEN IF s = Primary
              THEN Done(t) /\ UNCHANGED <<meta, mine>>
              ELSE /\ at' = [at EXCEPT ![t] = Null]
                   /\ Goto(t, "popped")
                   /\ UNCHANGED <<meta, out, op, top, bits, mine, hand>>
       ELSE /\ IF meta[s] = bits[t]
                 THEN /\ meta' = [meta EXCEPT ![s].owned = @ \cup valid]
                      /\ mine' = [mine EXCEPT ![t] = valid]
                      /\ Goto(t, "read") /\ UNCHANGED bits
                 ELSE /\ bits' = [bits EXCEPT ![t] = meta[s]]
                      /\ UNCHANGED <<meta, pc, mine>>
            /\ UNCHANGED <<out, op, at, top, hand>>
  /\ UNCHANGED <<refVars, slot, stackVars, fresh>>

-----------------------------------------------------------------------------
Step(t) ==
  \/ BeginPush(t) \/ BeginPop(t) \/ BeginPopAll(t)
  \/ CleanNext(t) \/ CleanShare(t) \/ CleanSwap(t)
  \/ Peeked(t) \/ LinkShare(t) \/ Link(t) \/ Pop(t) \/ Take(t) \/ Popped(t)
  \/ PushOwn(t) \/ PushWrite(t) \/ PushCommit(t) \/ PushRollback(t)
  \/ PopOwn(t) \/ Read(t) \/ Vacate(t) \/ Delete(t) \/ Advance(t)
  \/ PopAllOwn(t)

\* A storage that loses its last reference is kept while a thread has the Guard that
\* it has now.
Retire ==
  pins' = [s \in Storages |-> IF Referenced(s) /\ ~Referenced(s)' THEN Guarded'
                              ELSE pins[s] \cap Guarded']

\* The collector drops a storage, and its link with it.
Reclaim(s) ==
  /\ ~Referenced(s) /\ pins[s] = {}
  /\ freed' = freed \cup {s}
  /\ next' = [next EXCEPT ![s] = Null]
  /\ UNCHANGED <<meta, slot, newest, deleted, alloc, fresh, out, pc, op, at, top,
                 refVars, bits, mine, hand>>

Next ==
  \/ (\E t \in Threads : Step(t)) /\ Retire /\ UNCHANGED freed
  \/ (\E s \in 1 .. alloc \ freed : Reclaim(s)) /\ Retire

Spec == Init /\ [][Next]_vars

-----------------------------------------------------------------------------
(* Properties *)

\* The storages with values that are to be popped: not deleted, or being drained by a
\* pop_all.
Open ==
  (0 .. alloc \ deleted)
    \cup {at[t] : t \in {u \in Threads : op[u] = "pop_all" /\ at[u] # Null}}

\* The slots from which a value can still be popped.
Holding(v) ==
  {x \in Open \X Slots : slot[x[1]][x[2]] = v /\ x[2] \in Valid(meta[x[1]])}

\* The threads that have the value, or own its slot and are about to read it.
Carrying(v) ==
  {t \in Threads :
     v \in hand[t] \/ (pc[t] = "read" /\ \E i \in mine[t] : slot[at[t]][i] = v)}

\* A value is pushed once and popped once: at any time it is in the hands of one
\* thread, or in one slot of a storage that is not deleted, or returned.  A push that
\* has owned a slot of a linked storage does not leave its value in one that has been
\* emptied and deleted, whatever pops and pop_alls do meanwhile.  That a pop finds the
\* storage is another matter: NothingIsLost.
EachValueOnce ==
  \A v \in 1 .. fresh :
    Cardinality(Holding(v)) + Cardinality(Carrying(v)) + (IF v \in out THEN 1 ELSE 0) = 1

\* What a thread works on with its Guard, and what pop_all has popped, has not been
\* dropped: newest_ptr, the storage that is pushed into or popped from, and what
\* get_shared is called on, although others unlink and release all of them.
InUseIsKept ==
  \A t \in Threads :
    /\ t \in Guarded => {top[t], at[t], ref[t]} \cap freed = {}
    /\ op[t] = "pop_all" => at[t] \notin freed

\* A storage with an instance is in the stack, or in one that a pop_all is popping:
\* Bag::pop "pops an instance in the Bag if not empty".  It is not so: cleanup_newest
\* sets newest to null when get_shared gives none, whatever is behind.
NothingIsLost ==
  \A s \in 1 .. alloc \ deleted :
    Valid(meta[s]) # {} =>
      s \in Chain(newest)
              \cup UNION {Chain(top[t]) : t \in {u \in Threads : op[u] = "pop_all"}}
=============================================================================
